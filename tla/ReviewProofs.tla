----------------------------- MODULE ReviewProofs -----------------------------
(* What Review promises for every number of requests and agent writes. *)
EXTENDS Review, TLAPS

(***************************************************************************)
(* The inductive invariant.  A transaction between its UPDATE and its      *)
(* COMMIT holds the row, and nobody else can have changed it: that is what *)
(* makes the WHERE clause, checked once, good until the commit.            *)
(***************************************************************************)
Holder ==
    /\ \A t \in Request : stage[t] \in {"updated", "recorded"} <=> lock = t
    /\ lock # NoRequest => row.status \in Eligible

\* A row set by a reviewer has a reviewer's status; one that a reviewer has
\* decided is no longer the publisher's to delete.
Settled ==
    /\ row.by # NoRequest => row.status \in Human
    /\ \A t \in Request : stage[t] = "committed" => row.status \notin {"pending", "absent"}

\* Without a write of the Agent, a request the row has refused stays refused.
Refused(t) == stage[t] \in {"refused", "ineligible"}
              \/ (stage[t] = "updating" /\ snap[t] \notin Eligible)
Refusals ==
    writes = 0 => \A t \in Request : Refused(t) => row.status \notin Eligible

IInv == TypeOK /\ Holder /\ Settled /\ Refusals /\ DecisionsAudited /\ NeverVanishes

LEMMA InitIInv == Init => IInv
<1> SUFFICES ASSUME Init PROVE IInv
    OBVIOUS
<1>1. TypeOK
    <2>1. row \in [status : Status, at : Nat, by : Request \cup {NoRequest}]
        BY BeforeAssumption DEF Init
    <2> QED
        BY <2>1 DEF Init, TypeOK, Status, Human, Stage, Answer
<1>2. Holder /\ Settled /\ Refusals /\ DecisionsAudited /\ NeverVanishes
    BY ReviewAssumption
    DEF Init, Holder, Settled, Refusals, Refused, DecisionsAudited, NeverVanishes
<1> QED
    BY <1>1, <1>2 DEF IInv

\* The steps of a request that leave row, trail and lock alone.
LEMMA QuietStep ==
    ASSUME IInv, NEW t \in Request,
           \/ \E v \in Human : Begin(t, v)
           \/ Statement(t) \/ Refuse(t) \/ Disambiguate(t) \/ Record(t)
           \/ Refetch(t) \/ RefetchFails(t)
    PROVE  IInv' /\ row' = row
<1> USE DEF IInv, TypeOK, Holder, Settled, Refusals, Refused, DecisionsAudited,
            NeverVanishes, Goto, Stage, Answer, Status, Human
<1>1. CASE \E v \in Human : Begin(t, v)
    BY <1>1 DEF Begin
<1>2. CASE Statement(t)
    BY <1>2 DEF Statement
<1>3. CASE Refuse(t)
    BY <1>3 DEF Refuse, Matches
<1>4. CASE Disambiguate(t)
    BY <1>4 DEF Disambiguate
<1>5. CASE Record(t)
    BY <1>5 DEF Record
<1>6. CASE Refetch(t)
    BY <1>6 DEF Refetch
<1>7. CASE RefetchFails(t)
    BY <1>7 DEF RefetchFails
<1> QED
    BY <1>1, <1>2, <1>3, <1>4, <1>5, <1>6, <1>7

\* The steps that take the row, let it go, or change it.
LEMMA UpdateStep ==
    ASSUME IInv, NEW t \in Request, Update(t)
    PROVE  IInv' /\ row' = row
BY ReviewAssumption DEF Update, Matches, Goto, IInv, TypeOK, Holder, Settled, Refusals, Refused,
    DecisionsAudited, NeverVanishes, Stage, Answer

LEMMA AbortStep ==
    ASSUME IInv, NEW t \in Request, Abort(t)
    PROVE  IInv' /\ row' = row
BY ReviewAssumption DEF Abort, IInv, TypeOK, Holder, Settled, Refusals, Refused,
    DecisionsAudited, NeverVanishes, Stage, Answer

LEMMA ApplyStep ==
    ASSUME IInv, NEW t \in Request, Commit(t) \/ CommitAckLost(t)
    PROVE  IInv' /\ row.status \in Eligible
<1>1. /\ Apply(t) /\ stage[t] = "recorded"
      /\ \E to \in {"committed", "failed"} : stage' = [stage EXCEPT ![t] = to]
    BY DEF Commit, CommitAckLost, Goto, Apply
<1>2. lock = t /\ row.status \in Eligible
    BY <1>1, ReviewAssumption DEF IInv, Holder
<1>3. /\ row' = [status |-> verdict[t], at |-> began[t], by |-> t]
      /\ verdict[t] \in Human /\ began[t] \in Nat
    BY <1>1 DEF Apply, Decided, IInv, TypeOK
<1>4. Audited(row') \in [status : {"approved", "rejected"}, at : Nat, by : Request]
    BY <1>3 DEF Audited
<1>5. trail' = trail \cup {Audited(row')} /\ Audited(row').by = t
    BY <1>1, <1>3 DEF Apply, Decided, Audited
<1>6. TypeOK'
    BY <1>1, <1>3, <1>4, <1>5 DEF Apply, IInv, TypeOK, Stage, Answer, Status
<1>7. Holder'
    BY <1>1, <1>2, ReviewAssumption DEF Apply, IInv, TypeOK, Holder
<1>8. Settled'
    BY <1>1, <1>3 DEF Settled, Human
<1>9. Refusals'
    BY <1>1, <1>2 DEF Apply, IInv, TypeOK, Refusals, Refused
<1>10. DecisionsAudited'
    BY <1>1, <1>5 DEF IInv, TypeOK, DecisionsAudited
<1>11. NeverVanishes'
    BY <1>1 DEF IInv, TypeOK, NeverVanishes
<1> QED
    BY <1>2, <1>6, <1>7, <1>8, <1>9, <1>10, <1>11 DEF IInv

LEMMA AgentStep ==
    ASSUME IInv, NEW s \in {"auto-approved", "auto-rejected", "human-review"}, AgentWrites(s)
    PROVE  IInv'
BY ReviewAssumption DEF AgentWrites, requests, IInv, TypeOK, Holder, Settled, Refusals, Refused,
    DecisionsAudited, NeverVanishes, Status, Eligible

LEMMA DeleteStep ==
    ASSUME IInv, DeletePending
    PROVE  IInv'
BY ReviewAssumption DEF DeletePending, requests, IInv, TypeOK, Holder, Settled, Refusals, Refused,
    DecisionsAudited, NeverVanishes, Status, Eligible, Human

LEMMA Inductive == Spec => []IInv
<1>1. ASSUME IInv, [Next]_vars PROVE IInv'
    <2>1. CASE \E t \in Request, v \in Human : Begin(t, v)
        BY <1>1, <2>1, QuietStep
    <2>2. CASE \E t \in Request : Step(t)
        BY <1>1, <2>2, QuietStep, UpdateStep, AbortStep, ApplyStep DEF Step
    <2>3. CASE \E s \in {"auto-approved", "auto-rejected", "human-review"} : AgentWrites(s)
        BY <1>1, <2>3, AgentStep
    <2>4. CASE DeletePending
        BY <1>1, <2>4, DeleteStep
    <2>5. CASE UNCHANGED vars
        BY <1>1, <2>5 DEF vars, requests, IInv, TypeOK, Holder, Settled, Refusals, Refused,
            DecisionsAudited, Audited, NeverVanishes
    <2> QED
        BY <1>1, <2>1, <2>2, <2>3, <2>4, <2>5 DEF Next
<1> QED
    BY <1>1, InitIInv, PTL DEF Spec

\* Every state of a race of reviewers is well typed; the trail in particular
\* holds only what the CHECK of human_review allows.
THEOREM TypeCorrect == Spec => []TypeOK
<1>1. IInv => TypeOK
    BY DEF IInv
<1> QED
    BY <1>1, Inductive, PTL

\* review_reimbursement: the row's update and its audit record stand or fall
\* together, whatever fails and whoever else writes the row.
THEOREM ReviewsAudited == Spec => []DecisionsAudited
<1>1. IInv => DecisionsAudited
    BY DEF IInv
<1> QED
    BY <1>1, Inductive, PTL

\* put_reimbursement: a committed decision is always there to be read back.
THEOREM ReviewsReadBack == Spec => []NeverVanishes
<1>1. IInv => NeverVanishes
    BY DEF IInv
<1> QED
    BY <1>1, Inductive, PTL

\* review_reimbursement: a reviewer is refused only while there is a reason to.
THEOREM RefusalsJust == Spec => []RefusedForCause
<1>1. IInv => RefusedForCause
    BY DEF IInv, Refusals, Refused, RefusedForCause
<1> QED
    BY <1>1, Inductive, PTL

\* review_reimbursement: with any number of reviewers at work, none of them
\* undoes an approval.
THEOREM ApprovalsFinal == Spec => ApprovalFinal
<1> DEFINE Final ==
        row.status = "human-approved" /\ writes' = writes => row'.status = row.status
<1>1. ASSUME IInv, [Next]_vars PROVE Final
    <2>1. CASE \E t \in Request, v \in Human : Begin(t, v)
        BY <1>1, <2>1, QuietStep
    <2>2. CASE \E t \in Request : Step(t)
        <3>1. PICK t \in Request : Step(t)
            BY <2>2
        <3>2. row' = row \/ row.status \in Eligible
            BY <1>1, <3>1, QuietStep, UpdateStep, AbortStep, ApplyStep DEF Step
        <3> QED
            BY <3>2 DEF Eligible
    <2>3. CASE \E s \in {"auto-approved", "auto-rejected", "human-review"} : AgentWrites(s)
        BY <1>1, <2>3 DEF AgentWrites, IInv, TypeOK
    <2>4. CASE DeletePending
        BY <2>4 DEF DeletePending
    <2>5. CASE UNCHANGED vars
        BY <2>5 DEF vars
    <2> QED
        BY <1>1, <2>1, <2>2, <2>3, <2>4, <2>5 DEF Next
<1>2. IInv /\ [Next]_vars => [Final]_vars
    BY <1>1
<1> QED
    BY <1>2, Inductive, PTL DEF Spec, ApprovalFinal

\* What the counted transitions rest on: a rejection in a snapshot is another
\* reviewer's, and a row that was reviewed says by whom.
Rejection(t) == \E e \in trail : e.by # t /\ e.status = "rejected"
Counts ==
    /\ row.status \in Human => row.by # NoRequest
    /\ \A t \in Request :
        /\ stage[t] \in {"updating", "updated", "recorded", "committed"} =>
               (snap[t] = "human-rejected" => Rejection(t))
        /\ stage[t] \in {"updated", "recorded", "committed"} => snap[t] \in Eligible
        /\ stage[t] = "committed" /\ writes = 0 => row.by # NoRequest

LEMMA CountsInit == Init => Counts
BY ReviewAssumption, BeforeAssumption DEF Init, Counts, Human

LEMMA CountsStatement ==
    ASSUME IInv, Counts, NEW t \in Request, Statement(t)
    PROVE  Counts'
<1>1. row' = row /\ trail' = trail /\ writes' = writes /\ stage[t] = "begun"
    BY DEF Statement, Goto
<1>2. row.status = "human-rejected" => Rejection(t)
    <2> SUFFICES ASSUME row.status = "human-rejected" PROVE Rejection(t)
        OBVIOUS
    <2>1. Audited(row) \in trail
        BY DEF Counts, IInv, DecisionsAudited, Human
    <2>2. Audited(row).status = "rejected"
        BY DEF Audited, IInv, TypeOK
    <2>3. Audited(row).by # t
        BY <1>1, <2>1 DEF IInv, DecisionsAudited
    <2> QED
        BY <2>1, <2>2, <2>3 DEF Rejection
<1> QED
    BY <1>1, <1>2 DEF Statement, Goto, Counts, Rejection, IInv, TypeOK

LEMMA CountsQuiet ==
    ASSUME IInv, Counts, NEW t \in Request,
           \/ \E v \in Human : Begin(t, v)
           \/ Update(t) \/ Refuse(t) \/ Disambiguate(t) \/ Record(t) \/ Abort(t)
           \/ Refetch(t) \/ RefetchFails(t)
    PROVE  Counts'
<1>1. row' = row /\ trail' = trail /\ writes' = writes /\ snap' = snap
    BY DEF Begin, Update, Refuse, Disambiguate, Record, Abort, Refetch, RefetchFails
<1>2. \A u \in Request : u # t => stage'[u] = stage[u]
    BY DEF Begin, Update, Refuse, Disambiguate, Record, Abort, Refetch, RefetchFails,
           Goto, IInv, TypeOK
<1>3. \/ stage'[t] \notin {"updating", "updated", "recorded", "committed"}
      \/ stage[t] = "updating" /\ stage'[t] = "updated" /\ snap[t] \in Eligible
      \/ stage[t] = "updated" /\ stage'[t] = "recorded"
    BY DEF Begin, Update, Matches, Refuse, Disambiguate, Record, Abort, Refetch, RefetchFails,
           Goto, IInv, TypeOK
<1> QED
    BY <1>1, <1>2, <1>3 DEF Counts, Rejection

LEMMA CountsApply ==
    ASSUME IInv, Counts, NEW t \in Request, Commit(t) \/ CommitAckLost(t)
    PROVE  Counts'
<1>1. /\ row'.by = t /\ snap' = snap /\ trail \subseteq trail' /\ stage[t] = "recorded"
      /\ \A u \in Request : u # t => stage'[u] = stage[u]
    BY DEF Commit, CommitAckLost, Apply, Decided, Goto, IInv, TypeOK
<1>2. \A u \in Request : Rejection(u) => Rejection(u)'
    BY <1>1 DEF Rejection
<1> QED
    BY <1>1, <1>2, ReviewAssumption DEF Counts

LEMMA CountsOthers ==
    ASSUME IInv, Counts,
           \/ \E s \in {"auto-approved", "auto-rejected", "human-review"} : AgentWrites(s)
           \/ DeletePending
           \/ UNCHANGED vars
    PROVE  Counts'
<1>1. CASE \E s \in {"auto-approved", "auto-rejected", "human-review"} : AgentWrites(s)
    BY <1>1 DEF AgentWrites, requests, Counts, Rejection, Human, IInv, TypeOK
<1>2. CASE DeletePending
    BY <1>2 DEF DeletePending, requests, Counts, Rejection, Human, IInv, TypeOK
<1>3. CASE UNCHANGED vars
    BY <1>3 DEF vars, requests, Counts, Rejection
<1> QED
    BY <1>1, <1>2, <1>3

\* put_reimbursement: what a transition is counted from and to.
THEOREM TransitionsCounted == Spec => []TransitionsFollowReviews
<1>1. ASSUME IInv, Counts, [Next]_vars PROVE Counts'
    BY <1>1, CountsStatement, CountsQuiet, CountsApply, CountsOthers DEF Next, Step
<1>2. IInv /\ Counts => TransitionsFollowReviews
    BY DEF IInv, Settled, Counts, Rejection, TransitionsFollowReviews, Transition
<1> QED
    BY <1>1, <1>2, CountsInit, Inductive, PTL DEF Spec

(***************************************************************************)
(* Linearizability.  Each step of a request is a step of the atomic one or *)
(* stutters; what has to be known of the state is that a commit finds the  *)
(* row it holds eligible, and a read after it finds the row.               *)
(***************************************************************************)
Outcomes == [t \in Request |-> Outcome(t)]
Trail == {[by |-> e.by, status |-> e.status] : e \in trail}
AtomicVars == <<row.status, Trail, verdict, Outcomes>>

LEMMA OutcomeMoves ==
    ASSUME NEW t \in Request, \A u \in Request \ {t} : stage'[u] = stage[u] /\ snap'[u] = snap[u]
    PROVE  Outcomes' = [Outcomes EXCEPT ![t] = Outcome(t)']
<1> SUFFICES ASSUME NEW u \in Request
             PROVE  Outcome(u)' = [Outcomes EXCEPT ![t] = Outcome(t)'][u]
    BY DEF Outcomes
<1>1. CASE u = t
    BY <1>1 DEF Outcomes
<1>2. CASE u # t
    <2>1. stage'[u] = stage[u] /\ snap'[u] = snap[u]
        BY <1>2
    <2>2. Outcome(u)' = Outcome(u)
        BY <2>1 DEF Outcome
    <2> QED
        BY <1>2, <2>2 DEF Outcomes
<1> QED
    BY <1>1, <1>2

\* A request whose outcome stays or becomes what the atomic one's may become, in a
\* step that leaves row and trail alone.
LEMMA QuietOutcome ==
    ASSUME NEW t \in Request, \A u \in Request \ {t} : stage'[u] = stage[u] /\ snap'[u] = snap[u],
           row'.status = row.status, trail' = trail,
           \/ Outcome(t)' = Outcome(t) /\ verdict' = verdict
           \/ /\ Outcome(t) = "none" /\ Outcome(t)' = "open"
              /\ \E v \in Human : verdict' = [verdict EXCEPT ![t] = v]
           \/ /\ Outcome(t) = "open" /\ Outcome(t)' = "refused"
              /\ row.status \notin Eligible /\ verdict' = verdict
           \/ /\ Outcome(t) \in {"open", "decided", "refused"} /\ Outcome(t)' = "failed"
              /\ verdict' = verdict
    PROVE  Atomic!Next \/ UNCHANGED AtomicVars
<1>1. Outcomes' = [Outcomes EXCEPT ![t] = Outcome(t)'] /\ Outcomes[t] = Outcome(t) /\ Trail' = Trail
    BY OutcomeMoves DEF Outcomes, Trail
<1>2. CASE Outcome(t)' = Outcome(t) /\ verdict' = verdict
    BY <1>1, <1>2 DEF AtomicVars, Outcomes
<1>3. CASE /\ Outcome(t) = "none" /\ Outcome(t)' = "open"
           /\ \E v \in Human : verdict' = [verdict EXCEPT ![t] = v]
    BY <1>1, <1>3 DEF Atomic!Next, Atomic!Ask, Atomic!Becomes, Atomic!Human, Human, Outcomes, Trail
<1>4. CASE /\ Outcome(t) = "open" /\ Outcome(t)' = "refused"
           /\ row.status \notin Eligible /\ verdict' = verdict
    BY <1>1, <1>4 DEF Atomic!Next, Atomic!Refuse, Atomic!Becomes, Atomic!Eligible, Eligible,
       Outcomes, Trail
<1>5. CASE /\ Outcome(t) \in {"open", "decided", "refused"} /\ Outcome(t)' = "failed"
           /\ verdict' = verdict
    BY <1>1, <1>5 DEF Atomic!Next, Atomic!Fail, Atomic!Becomes, Outcomes, Trail
<1> QED
    BY <1>2, <1>3, <1>4, <1>5

\* The steps of a request other than its commit.
LEMMA AtomicQuiet ==
    ASSUME IInv, NEW t \in Request,
           \/ \E v \in Human : Begin(t, v)
           \/ Statement(t) \/ Update(t) \/ Refuse(t) \/ Disambiguate(t) \/ Record(t)
           \/ Abort(t) \/ Refetch(t) \/ RefetchFails(t)
    PROVE  Atomic!Next \/ UNCHANGED AtomicVars
<1> USE DEF IInv, TypeOK, Goto
<1>1. /\ row' = row /\ trail' = trail
      /\ \A u \in Request \ {t} : stage'[u] = stage[u] /\ snap'[u] = snap[u]
    BY DEF Begin, Statement, Update, Refuse, Disambiguate, Record, Abort, Refetch, RefetchFails
<1>2. CASE \E v \in Human : Begin(t, v)
    <2>1. Outcome(t) = "none" /\ Outcome(t)' = "open"
        BY <1>2 DEF Begin, Outcome
    <2> QED
        BY <1>1, <1>2, <2>1, QuietOutcome DEF Begin
<1>3. CASE Statement(t)
    <2>1. /\ Outcome(t) = "open" /\ verdict' = verdict
          /\ Outcome(t)' = IF row.status \in Eligible THEN "open" ELSE "refused"
        BY <1>3 DEF Statement, Outcome
    <2> QED
        BY <1>1, <2>1, QuietOutcome
<1>4. CASE Update(t) \/ Record(t)
    <2>1. Outcome(t) = "open" /\ Outcome(t)' = "open" /\ verdict' = verdict
        BY <1>4 DEF Update, Matches, Record, Outcome
    <2> QED
        BY <1>1, <2>1, QuietOutcome
<1>5. CASE Refuse(t)
    <2>1. /\ Outcome(t)' = "refused" /\ verdict' = verdict
          /\ \/ Outcome(t) = "refused"
             \/ Outcome(t) = "open" /\ row.status \notin Eligible
        BY <1>5 DEF Refuse, Matches, Outcome
    <2> QED
        BY <1>1, <2>1, QuietOutcome
<1>6. CASE Disambiguate(t)
    <2>1. Outcome(t) = "refused" /\ Outcome(t)' = "refused" /\ verdict' = verdict
        BY <1>6 DEF Disambiguate, Outcome
    <2> QED
        BY <1>1, <2>1, QuietOutcome
<1>7. CASE Abort(t)
    <2>1. Outcome(t) \in {"open", "refused"} /\ Outcome(t)' = "failed" /\ verdict' = verdict
        BY <1>7 DEF Abort, Outcome
    <2> QED
        BY <1>1, <2>1, QuietOutcome
<1>8. CASE Refetch(t)
    <2>1. row.status # "absent"
        BY <1>8 DEF Refetch, Settled
    <2>2. Outcome(t) = "decided" /\ Outcome(t)' = "decided" /\ verdict' = verdict
        BY <1>8, <2>1 DEF Refetch, Outcome
    <2> QED
        BY <1>1, <2>2, QuietOutcome
<1>9. CASE RefetchFails(t)
    <2>1. Outcome(t) = "decided" /\ Outcome(t)' = "failed" /\ verdict' = verdict
        BY <1>9 DEF RefetchFails, Outcome
    <2> QED
        BY <1>1, <2>1, QuietOutcome
<1> QED
    BY <1>2, <1>3, <1>4, <1>5, <1>6, <1>7, <1>8, <1>9

\* The commit is the instant of the decision.
LEMMA AtomicApply ==
    ASSUME IInv, NEW t \in Request, Commit(t) \/ CommitAckLost(t)
    PROVE  Atomic!Decide(t)
<1>1. row.status \in Eligible
    BY ApplyStep
<1>2. /\ Apply(t) /\ snap' = snap /\ stage[t] = "recorded"
      /\ \E to \in {"committed", "failed"} : stage' = [stage EXCEPT ![t] = to]
    BY DEF Commit, CommitAckLost, Apply, Goto
<1>3. Outcomes' = [Outcomes EXCEPT ![t] = Outcome(t)'] /\ Outcomes[t] = Outcome(t)
    BY <1>2, OutcomeMoves DEF Outcomes, IInv, TypeOK
<1>4. Outcome(t) = "open" /\ Outcome(t)' \in {"decided", "failed"}
    BY <1>2 DEF Outcome, IInv, TypeOK
<1>5. row'.status = verdict[t] /\ verdict' = verdict
    BY <1>2 DEF Apply, Decided
<1>6. Trail' = Trail \cup {[by |-> t, status |-> Atomic!Spelled(verdict[t])]}
    <2>1. /\ trail' = trail \cup {Audited(Decided(t))} /\ Audited(Decided(t)).by = t
          /\ Audited(Decided(t)).status = Atomic!Spelled(verdict[t])
        BY <1>2 DEF Apply, Audited, Decided, Atomic!Spelled
    <2> QED
        BY <2>1 DEF Trail
<1> QED
    BY <1>1, <1>3, <1>4, <1>5, <1>6
    DEF Atomic!Decide, Atomic!Becomes, Atomic!Eligible, Eligible, Outcomes, Trail

LEMMA AtomicOthers ==
    ASSUME IInv,
           \/ \E s \in {"auto-approved", "auto-rejected", "human-review"} : AgentWrites(s)
           \/ DeletePending
    PROVE  Atomic!Next
<1>0. stage' = stage /\ snap' = snap /\ trail' = trail /\ verdict' = verdict
    BY DEF AgentWrites, DeletePending, requests
<1>1. Outcomes' = Outcomes /\ Trail' = Trail /\ verdict' = verdict
    <2>1. \A t \in Request : Outcome(t)' = Outcome(t)
        BY <1>0 DEF Outcome
    <2> QED
        BY <1>0, <2>1 DEF Outcomes, Trail
<1>2. CASE \E s \in {"auto-approved", "auto-rejected", "human-review"} : AgentWrites(s)
    <2>1. row.status # "absent" /\ row'.status \in Atomic!Verdict
        BY <1>2 DEF AgentWrites, Atomic!Verdict
    <2> QED
        BY <1>1, <2>1 DEF Atomic!Next, Atomic!Overwrite, Outcomes, Trail
<1>3. CASE DeletePending
    <2>1. row.status = "pending" /\ row'.status = "absent"
        BY <1>3 DEF DeletePending, IInv, TypeOK
    <2> QED
        BY <1>1, <2>1 DEF Atomic!Next, Atomic!Remove, Outcomes, Trail
<1> QED
    BY <1>2, <1>3

\* review_reimbursement without SELECT ... FOR UPDATE: for any number of reviewers
\* the transactions are as good as requests decided one at a time.
THEOREM ReviewsAtomic == Spec => ReviewIsAtomic
<1>1. Init => Atomic!Init
    BY DEF Init, Atomic!Init, Outcome, Trail
<1>2. IInv /\ [Next]_vars => [Atomic!Next]_AtomicVars
    <2>1. ASSUME UNCHANGED vars PROVE UNCHANGED AtomicVars
        BY <2>1 DEF vars, requests, AtomicVars, Outcomes, Outcome, Trail
    <2>2. ASSUME NEW t \in Request, Atomic!Decide(t) PROVE Atomic!Next
        BY <2>2 DEF Atomic!Next
    <2> QED
        BY <2>1, <2>2, AtomicQuiet, AtomicApply, AtomicOthers DEF Next, Step
<1> QED
    BY <1>1, <1>2, Inductive, PTL
    DEF Spec, ReviewIsAtomic, Atomic!Spec, AtomicVars, Outcomes, Trail
==============================================================================
