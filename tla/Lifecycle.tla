------------------------------ MODULE Lifecycle ------------------------------
(***************************************************************************)
(* The life of a reimbursement row, which no single service enforces: four *)
(* statements write the status column, one of which looks at no status at  *)
(* all, and what the rows go through rests on the order in which the       *)
(* services issue them.  A row is submitted or escalated, withdrawn or     *)
(* decided once while it is pending, and reviewed until it is approved.    *)
(*                                                                         *)
(* A fault that strikes a replica of the Agent while it handles the        *)
(* message of a row may cost that row, and no other, its protection: the   *)
(* message is handled again, and the row may be decided once more.         *)
(***************************************************************************)
CONSTANT Uuid    \* identities of rows
VARIABLES
    status,      \* reimbursement table: uuid -> status
    struck       \* history: uuids whose message was in hand when a fault struck

Verdict == {"auto-approved", "auto-rejected", "human-review"}
Human == {"human-approved", "human-rejected"}
Eligible == {"human-review", "auto-rejected", "human-rejected"}
Decided == Verdict \cup Human
Status == {"absent", "pending"} \cup Decided

Init == status = [u \in Uuid |-> "absent"] /\ struck = {}

Moves(u, From, To) ==
    /\ status[u] \in From
    /\ \E s \in To : status' = [status EXCEPT ![u] = s]

\* INSERT by the publisher, of a pending row or past the retry ceiling.
Submit(u) == Moves(u, {"absent"}, {"pending"})
Escalate(u) == Moves(u, {"absent"}, {"human-review"})

\* The publisher's compensating DELETE.
Withdraw(u) == Moves(u, {"pending"}, {"absent"})

\* UPDATE by the Agent, of a row it has not decided, or that a fault has struck.
Decide(u) == Moves(u, {"pending"}, Verdict)
Overwrite(u) == u \in struck /\ Moves(u, Decided, Verdict)

\* UPDATE by a reviewer.
Review(u) == Moves(u, Eligible, Human)

Move(u) == Submit(u) \/ Escalate(u) \/ Withdraw(u) \/ Decide(u) \/ Overwrite(u) \/ Review(u)

\* A fault may strike between two moves of its row, or together with one.
Next == \E u \in Uuid : /\ Move(u) \/ UNCHANGED status
                        /\ struck' \in {struck, struck \cup {u}}

Spec == Init /\ [][Next]_<<status, struck>>

------------------------------------------------------------------------------
(* What a life like this promises. *)

\* .specs/STATE.md, AD-027, "approved is final", of a row that no fault has struck.
Approved == {"auto-approved", "human-approved"}
ApprovalsStand ==
    [][\A u \in Uuid \ struck : status[u] \in Approved => status'[u] = status[u]]_<<status, struck>>

\* Who gave a verdict keeps it or gives another: no decided row is withdrawn or
\* becomes undecided again, whatever the faults.
VerdictsStay ==
    [][\A u \in Uuid : status[u] \in Decided => status'[u] \in Decided]_<<status, struck>>

\* After its decision a row is a reviewer's: only a status open to review changes,
\* and only to a reviewer's verdict, unless a fault has struck the row.
OnlyReviewed ==
    [][\A u \in Uuid \ struck : status[u] \in Decided /\ status'[u] # status[u] =>
            status[u] \in Eligible /\ status'[u] \in Human]_<<status, struck>>
==============================================================================
