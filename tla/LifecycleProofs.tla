--------------------------- MODULE LifecycleProofs ---------------------------
(* What follows from the life of a row, for every service that implements it. *)
EXTENDS Lifecycle, TLAPS

TypeOK == status \in [Uuid -> Status] /\ struck \subseteq Uuid

\* A step changes one row at most, and that as its status allows.
Stay(u) == status'[u] = status[u]
LEMMA Changes ==
    ASSUME TypeOK, [Next]_<<status, struck>>, NEW u \in Uuid, ~Stay(u)
    PROVE  \/ status[u] = "absent" /\ status'[u] \in {"pending", "human-review"}
           \/ status[u] = "pending" /\ status'[u] \in {"absent"} \cup Verdict
           \/ u \in struck /\ status[u] \in Decided /\ status'[u] \in Verdict
           \/ status[u] \in Eligible /\ status'[u] \in Human
<1>1. PICK v \in Uuid : Move(v)
    BY DEF Next, Stay
<1>2. ASSUME NEW From, NEW To, Moves(v, From, To)
      PROVE  u = v /\ status[u] \in From /\ status'[u] \in To
    BY <1>2 DEF Moves, Stay, TypeOK
<1>3. CASE Submit(v) \/ Escalate(v) \/ Withdraw(v)
    BY <1>2, <1>3 DEF Submit, Escalate, Withdraw
<1>4. CASE Decide(v) \/ Overwrite(v)
    BY <1>2, <1>4 DEF Decide, Overwrite
<1>5. CASE Review(v)
    BY <1>2, <1>5 DEF Review
<1> QED
    BY <1>1, <1>3, <1>4, <1>5 DEF Move

LEMMA Typed == Spec => []TypeOK
<1>1. Init => TypeOK
    BY DEF Init, TypeOK, Status
<1>2. ASSUME TypeOK, [Next]_<<status, struck>> PROVE TypeOK'
    <2>1. CASE UNCHANGED <<status, struck>>
        BY <1>2, <2>1 DEF TypeOK
    <2>2. CASE Next
        <3>1. status' \in [Uuid -> Status]
            BY <1>2, <2>2 DEF TypeOK, Next, Move, Moves, Submit, Escalate, Withdraw, Decide,
               Overwrite, Review, Status, Decided, Human, Verdict
        <3>2. struck' \subseteq Uuid
            BY <1>2, <2>2 DEF TypeOK, Next
        <3> QED
            BY <3>1, <3>2 DEF TypeOK
    <2> QED
        BY <1>2, <2>1, <2>2
<1> QED
    BY <1>1, <1>2, PTL DEF Spec

\* Approved is final for every row that no fault has struck.
THEOREM LifeApprovalsStand == Spec => ApprovalsStand
<1> DEFINE Stands == \A u \in Uuid \ struck : status[u] \in Approved => status'[u] = status[u]
<1>1. TypeOK /\ [Next]_<<status, struck>> => [Stands]_<<status, struck>>
    BY Changes DEF Stay, Approved, Eligible
<1> QED
    BY <1>1, Typed, PTL DEF Spec, ApprovalsStand

\* No row that was decided is withdrawn or becomes undecided, faults or not.
THEOREM LifeVerdictsStay == Spec => VerdictsStay
<1> DEFINE Stays == \A u \in Uuid : status[u] \in Decided => status'[u] \in Decided
<1>1. TypeOK /\ [Next]_<<status, struck>> => [Stays]_<<status, struck>>
    BY Changes DEF Stay, Decided, Human, Verdict
<1> QED
    BY <1>1, Typed, PTL DEF Spec, VerdictsStay

\* After its decision a row that no fault has struck is the reviewers'.
THEOREM LifeOnlyReviewed == Spec => OnlyReviewed
<1> DEFINE Reviewed ==
        \A u \in Uuid \ struck : status[u] \in Decided /\ status'[u] # status[u] =>
            status[u] \in Eligible /\ status'[u] \in Human
<1>1. TypeOK /\ [Next]_<<status, struck>> => [Reviewed]_<<status, struck>>
    BY Changes DEF Stay, Decided, Human, Verdict
<1> QED
    BY <1>1, Typed, PTL DEF Spec, OnlyReviewed
==============================================================================
