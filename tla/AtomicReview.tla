---------------------------- MODULE AtomicReview -----------------------------
(***************************************************************************)
(* What PUT /api/v1/reimbursement/{uuid} promises without any explicit row *)
(* lock: that concurrent decisions exclude each other, as if each request  *)
(* were decided in one instant between its being asked and its answer.  In *)
(* that instant the row's status is eligible, and row and audit trail both *)
(* take the decision, or it is not and neither does.  A request whose      *)
(* answer is an error may have been decided, or refused, or neither.       *)
(***************************************************************************)
CONSTANTS Request, Before

VARIABLES
    status,   \* of the reimbursement
    trail,    \* human_review: who decided what
    verdict,  \* request -> status it asks for
    outcome   \* request -> what has become of it

Verdict == {"auto-approved", "auto-rejected", "human-review"}
Human == {"human-approved", "human-rejected"}
Eligible == {"human-review", "auto-rejected", "human-rejected"}

Init ==
    /\ status \in Before
    /\ trail = {}
    /\ verdict = [t \in Request |-> "human-approved"]
    /\ outcome = [t \in Request |-> "none"]

Becomes(t, from, to) ==
    /\ outcome[t] = from
    /\ outcome' = [outcome EXCEPT ![t] = to]

Ask(t, v) ==
    /\ Becomes(t, "none", "open")
    /\ verdict' = [verdict EXCEPT ![t] = v]
    /\ UNCHANGED <<status, trail>>

\* What the audit trail calls a decision.
Spelled(v) == IF v = "human-approved" THEN "approved" ELSE "rejected"

\* The decision takes effect; the caller may not come to know.
Decide(t) ==
    /\ Becomes(t, "open", "decided") \/ Becomes(t, "open", "failed")
    /\ status \in Eligible
    /\ status' = verdict[t]
    /\ trail' = trail \cup {[by |-> t, status |-> Spelled(verdict[t])]}
    /\ UNCHANGED verdict

Refuse(t) ==
    /\ Becomes(t, "open", "refused")
    /\ status \notin Eligible
    /\ UNCHANGED <<status, trail, verdict>>

Fail(t) ==
    /\ \E from \in {"open", "decided", "refused"} : Becomes(t, from, "failed")
    /\ UNCHANGED <<status, trail, verdict>>

\* The Agent's decision, and the publisher's delete.
Overwrite ==
    /\ status # "absent" /\ status' \in Verdict
    /\ UNCHANGED <<trail, verdict, outcome>>

Remove ==
    /\ status = "pending" /\ status' = "absent"
    /\ UNCHANGED <<trail, verdict, outcome>>

Next ==
    \/ \E t \in Request, v \in Human : Ask(t, v)
    \/ \E t \in Request : Decide(t) \/ Refuse(t) \/ Fail(t)
    \/ Overwrite \/ Remove

Spec == Init /\ [][Next]_<<status, trail, verdict, outcome>>
==============================================================================
