------------------------------- MODULE Review --------------------------------
(***************************************************************************)
(* PUT /api/v1/reimbursement/{uuid}: concurrent requests to approve or     *)
(* reject one reimbursement.  Each runs a READ COMMITTED transaction that  *)
(* updates the row if its status is eligible, appends to the human_review  *)
(* audit trail, commits, and reads the row back for the response.          *)
(*                                                                         *)
(* Postgres gives an UPDATE the snapshot of the moment it starts; if       *)
(* another transaction holds the row it waits and then checks its WHERE    *)
(* clause again on the row as committed, while a subquery still reads the  *)
(* snapshot.  now() is the time the transaction began.                     *)
(***************************************************************************)
EXTENDS Integers, FiniteSets

CONSTANTS
    Request, NoRequest,  \* PUT requests, and nobody
    Before,              \* statuses the row may have to begin with
    MaxAgentWrites       \* bound: writes of the Agent to the row

ASSUME ReviewAssumption ==
    /\ NoRequest \notin Request
    /\ MaxAgentWrites \in Nat

VARIABLES
    clock,   \* the latest time stamp given out
    row,     \* reimbursement: committed status, updated_at, and who set them
    trail,   \* human_review: the committed rows
    lock,    \* the request whose transaction has updated the row
    stage,   \* request -> where it stands
    verdict, \* request -> status it asks for
    began,   \* request -> start of its transaction
    snap,    \* request -> status in its UPDATE's snapshot
    writes   \* history: number of writes by the Agent

requests == <<stage, verdict, began, snap>>
vars == <<clock, row, trail, lock, requests, writes>>

Human == {"human-approved", "human-rejected"}
Eligible == {"human-review", "auto-rejected", "human-rejected"}
Status == Human \cup Eligible \cup {"pending", "auto-approved", "absent"}
ASSUME BeforeAssumption == Before \subseteq Status \ (Human \cup {"absent"})

Answer == {"replied", "ineligible", "not-found", "failed", "vanished"}
Stage == Answer \cup {"idle", "begun", "updating", "refused", "updated", "recorded", "committed"}

Init ==
    /\ clock = 0
    /\ row \in [status : Before, at : {0}, by : {NoRequest}]
    /\ trail = {} /\ lock = NoRequest
    /\ stage = [t \in Request |-> "idle"]
    /\ verdict = [t \in Request |-> "human-approved"]
    /\ began = [t \in Request |-> 0]
    /\ snap = [t \in Request |-> "absent"]
    /\ writes = 0

Goto(t, from, to) ==
    /\ stage[t] = from
    /\ stage' = [stage EXCEPT ![t] = to]

\* conn.transaction() of a request whose payload and uuid have been checked.
Begin(t, v) ==
    /\ Goto(t, "idle", "begun")
    /\ clock' = clock + 1
    /\ began' = [began EXCEPT ![t] = clock + 1]
    /\ verdict' = [verdict EXCEPT ![t] = v]
    /\ UNCHANGED <<row, trail, lock, snap, writes>>

\* The UPDATE starts: what it sees of the row, and of `old`.
Statement(t) ==
    /\ Goto(t, "begun", "updating")
    /\ snap' = [snap EXCEPT ![t] = row.status]
    /\ UNCHANGED <<clock, row, trail, lock, verdict, began, writes>>

\* Mutants of Matches: the WHERE clause is not checked again after the wait; the
\* loser of a race matches no row whatever the winner did.
MatchesSnapshot(t) == snap[t] \in Eligible
MatchesUnchanged(t) == snap[t] \in Eligible /\ snap[t] = row.status

\* status = ANY(eligible), in the snapshot and on the row as committed since.
Matches(t) == {snap[t], row.status} \subseteq Eligible

\* A transaction that has not committed holds the row it updated.
Update(t) ==
    /\ lock = NoRequest
    /\ Matches(t)
    /\ Goto(t, "updating", "updated")
    /\ lock' = t
    /\ UNCHANGED <<clock, row, trail, verdict, began, snap, writes>>

\* No row matches: at once by the snapshot, or after the wait.
Refuse(t) ==
    /\ snap[t] \notin Eligible \/ (lock = NoRequest /\ ~Matches(t))
    /\ Goto(t, "updating", "refused")
    /\ UNCHANGED <<clock, row, trail, lock, verdict, began, snap, writes>>

\* _disambiguate: a second look tells 404 from 400; the transaction is undone.
Disambiguate(t) ==
    /\ Goto(t, "refused", IF row.status = "absent" THEN "not-found" ELSE "ineligible")
    /\ UNCHANGED <<clock, row, trail, lock, verdict, began, snap, writes>>

Record(t) ==
    /\ Goto(t, "updated", "recorded")
    /\ UNCHANGED <<clock, row, trail, lock, verdict, began, snap, writes>>

Decided(t) == [status |-> verdict[t], at |-> began[t], by |-> t]

\* Mutant of Audited: the row's spelling of the status, which a CHECK refuses.
AuditedUnspelled(d) == d

Audited(d) == [d EXCEPT !.status = IF @ = "human-approved" THEN "approved" ELSE "rejected"]

\* COMMIT makes the row and its audit record visible.
Apply(t) ==
    /\ stage[t] = "recorded"
    /\ row' = Decided(t)
    /\ trail' = trail \cup {Audited(Decided(t))}
    /\ lock' = NoRequest
    /\ UNCHANGED <<clock, verdict, began, snap, writes>>

Commit(t) == Apply(t) /\ Goto(t, "recorded", "committed")

\* COMMIT took effect and its acknowledgement was lost: 500 all the same.
CommitAckLost(t) == Apply(t) /\ Goto(t, "recorded", "failed")

\* Mutant of Abort: the row keeps an update whose audit record failed.
AbortHalf(t) ==
    /\ stage[t] \in {"begun", "updating", "refused", "updated", "recorded"}
    /\ stage' = [stage EXCEPT ![t] = "failed"]
    /\ lock' = IF lock = t THEN NoRequest ELSE lock
    /\ row' = IF stage[t] = "updated" THEN Decided(t) ELSE row
    /\ UNCHANGED <<clock, trail, verdict, began, snap, writes>>

\* A statement fails or times out, or the connection goes: rolled back, reported.
Abort(t) ==
    /\ stage[t] \in {"begun", "updating", "refused", "updated", "recorded"}
    /\ stage' = [stage EXCEPT ![t] = "failed"]
    /\ lock' = IF lock = t THEN NoRequest ELSE lock
    /\ UNCHANGED <<clock, row, trail, verdict, began, snap, writes>>

\* Mutant of Transition: the status is taken from the row the UPDATE returns.
TransitionUpdated(t) == [from |-> verdict[t], to |-> row.status]

\* The transition a reply counts: `old` as of the snapshot, the row as read back.
Transition(t) == [from |-> snap[t], to |-> row.status]

\* get_reimbursement, on the same connection, outside the transaction.
Refetch(t) ==
    /\ Goto(t, "committed", IF row.status = "absent" THEN "vanished" ELSE "replied")
    /\ UNCHANGED <<clock, row, trail, lock, verdict, began, snap, writes>>

RefetchFails(t) ==
    /\ Goto(t, "committed", "failed")
    /\ UNCHANGED <<clock, row, trail, lock, verdict, began, snap, writes>>

\* _UPDATE_DECISION: gated on the uuid only.
AgentWrites(s) ==
    /\ lock = NoRequest
    /\ row.status # "absent"
    /\ writes < MaxAgentWrites
    /\ writes' = writes + 1
    /\ clock' = clock + 1
    /\ row' = [status |-> s, at |-> clock + 1, by |-> NoRequest]
    /\ UNCHANGED <<trail, lock, requests>>

\* Mutant of DeletePending: not gated on the status.
DeleteAny ==
    /\ lock = NoRequest
    /\ row' = [row EXCEPT !.status = "absent"]
    /\ UNCHANGED <<clock, trail, lock, requests, writes>>

\* The publisher's compensating delete.
DeletePending ==
    /\ lock = NoRequest
    /\ row.status = "pending"
    /\ row' = [row EXCEPT !.status = "absent"]
    /\ UNCHANGED <<clock, trail, lock, requests, writes>>

Step(t) ==
    \/ Statement(t) \/ Update(t) \/ Refuse(t) \/ Disambiguate(t) \/ Record(t)
    \/ Commit(t) \/ CommitAckLost(t) \/ Abort(t) \/ Refetch(t) \/ RefetchFails(t)

Next ==
    \/ \E t \in Request, v \in Human : Begin(t, v)
    \/ \E t \in Request : Step(t)
    \/ \E s \in {"auto-approved", "auto-rejected", "human-review"} : AgentWrites(s)
    \/ DeletePending

Spec == Init /\ [][Next]_vars

------------------------------------------------------------------------------
(* Properties. *)

TypeOK ==
    /\ clock \in Nat
    /\ row \in [status : Status, at : Nat, by : Request \cup {NoRequest}]
    /\ trail \subseteq [status : {"approved", "rejected"}, at : Nat, by : Request]
    /\ lock \in Request \cup {NoRequest}
    /\ stage \in [Request -> Stage]
    /\ verdict \in [Request -> Human]
    /\ began \in [Request -> Nat]
    /\ snap \in [Request -> Status]
    /\ writes \in Nat

\* No reviewer undoes an approval, however the transactions overlap; without a
\* SELECT ... FOR UPDATE this rests on the WHERE clause being checked again.
ApprovalFinal ==
    [][row.status = "human-approved" /\ writes' = writes => row'.status = row.status]_vars

\* The row never shows a reviewer's decision the audit trail does not hold, and
\* the trail holds no decision that was refused: both writes happen or neither.
DecisionsAudited ==
    /\ row.by # NoRequest => Audited(row) \in trail
    /\ \A e \in trail : stage[e.by] \in {"committed", "replied", "failed", "vanished"}

\* A committed decision can be read back: the publisher's delete cannot have
\* taken the row in between, so the route's RuntimeError is unreachable.
NeverVanishes == \A t \in Request : stage[t] # "vanished"

\* A request is refused as ineligible only because the row is approved or still
\* the Agent's to decide; a reviewer who lost to a rejection is not refused.
RefusedForCause ==
    writes = 0 =>
        \A t \in Request : stage[t] = "ineligible" => row.status \notin Eligible

\* The transition metric may lag behind the row, for a reviewer who waited counts
\* from the status before another's decision; but it makes none up: it counts
\* from a status open to review, from a rejection only if another reviewer's is in
\* the trail, and to a reviewer's verdict unless the Agent overwrote the row.
TransitionsFollowReviews ==
    \A t \in Request : stage[t] = "committed" =>
        /\ Transition(t).from \in Eligible
        /\ Transition(t).from = "human-rejected" =>
               \E e \in trail : e.by # t /\ e.status = "rejected"
        /\ writes = 0 => Transition(t).to \in Human

\* docs/SCOPE.md, GET: each reimbursement comes with "the last Human Review", which
\* the query takes to be the one with the greatest created_at.
Last(e) == \A f \in trail : f.at <= e.at
LastReviewIsShown ==
    row.by # NoRequest => \A e \in trail : Last(e) => e.status = Audited(row).status

\* review_reimbursement.py: "Postgres's own row-level write serialization already
\* makes two concurrent transitions mutually exclusive", so that "an explicit lock
\* would add nothing".  The transactions of any reviewers, through waits, lost
\* acknowledgements and rollbacks and with the other services writing the row, look
\* as if each request were decided at once: the commit is that instant, or the
\* moment at which the row was seen not to be eligible.
Outcome(t) ==
    CASE stage[t] = "idle" -> "none"
      [] stage[t] = "updating" -> IF snap[t] \in Eligible THEN "open" ELSE "refused"
      [] stage[t] \in {"begun", "updated", "recorded"} -> "open"
      [] stage[t] \in {"refused", "ineligible", "not-found"} -> "refused"
      [] stage[t] \in {"committed", "replied"} -> "decided"
      [] OTHER -> stage[t]
Atomic == INSTANCE AtomicReview WITH
    status <- row.status,
    trail <- {[by |-> e.by, status |-> e.status] : e \in trail},
    outcome <- [t \in Request |-> Outcome(t)]
ReviewIsAtomic == Atomic!Spec
==============================================================================
