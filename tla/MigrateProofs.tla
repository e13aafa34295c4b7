---------------------------- MODULE MigrateProofs ----------------------------
(* What Migrate promises for any number of runners, migrations and faults.  *)
EXTENDS Migrate, TLAPS

\* A name for three variables, expanded everywhere.
USE DEF history

(***************************************************************************)
(* The base: who has the lock is at work or has been killed; what is not   *)
(* yet applied is on the list of every runner that has made one.           *)
(***************************************************************************)
Holding == \A r \in Runner : holder = r => r \in held /\ stage[r] \in Working \cup {"killed"}
Listed == \A r \in Runner :
    /\ stage[r] \in {"planned", "applying"} => Migration \ ledger \subseteq todo[r]
    /\ stage[r] \in {"applied", "done"} => ledger = Migration
IInv == TypeOK /\ Holding /\ Listed /\ AppliedInOrder

LEMMA InitIInv == Init => IInv
<1> SUFFICES ASSUME Init PROVE IInv
    OBVIOUS
<1>1. Last \in Nat
    BY MigrateAssumption DEF MigrateAssumption
<1>2. PICK n \in 0..Last : ledger = 1..n
    BY DEF Init
<1>3. ledger \subseteq Migration /\ AppliedInOrder
    BY <1>1, <1>2 DEF Migration, AppliedInOrder
<1>4. TypeOK
    BY <1>3 DEF Init, TypeOK, Stage
<1> QED
    BY <1>3, <1>4, MigrateAssumption DEF Init, IInv, Holding, Listed, Working, MigrateAssumption

\* An exit leaves lists and ledger alone and gives up what the runner had.
LEMMA ExitIInv ==
    ASSUME IInv, NEW r \in Runner, NEW outcome \in Ended \ {"done"}, Exit(r, outcome)
    PROVE  IInv'
<1>1. TypeOK'
    BY DEF Exit, IInv, TypeOK, Stage
<1>2. Holding'
    BY MigrateAssumption DEF Exit, IInv, TypeOK, Holding, MigrateAssumption
<1>3. Listed' /\ AppliedInOrder'
    BY DEF Exit, IInv, TypeOK, Listed, AppliedInOrder, Ended
<1> QED
    BY <1>1, <1>2, <1>3 DEF IInv

\* Every step to another stage that changes neither list nor ledger.
LEMMA MoveIInv ==
    ASSUME IInv, NEW r \in Runner, NEW to \in {"waiting", "locked", "timed-out", "cleared", "killed"},
           stage' = [stage EXCEPT ![r] = to], UNCHANGED <<todo, ledger>>,
           holder' = holder \/ holder' = r, holder = r \/ holder' = r => to \in Working \cup {"killed"},
           held' = held \/ held' = held \cup {r}, holder' = r => r \in held',
           mark' \in {mark, NoRunner}, kills' \in Nat, drops' \in Nat
    PROVE  IInv'
<1>1. TypeOK'
    BY DEF IInv, TypeOK, Stage, Working, Ended
<1>2. Holding'
    BY DEF IInv, TypeOK, Holding
<1>3. Listed' /\ AppliedInOrder'
    BY DEF IInv, TypeOK, Listed, AppliedInOrder
<1> QED
    BY <1>1, <1>2, <1>3 DEF IInv

LEMMA ApplyIInv ==
    ASSUME IInv, NEW r \in Runner, NEW m \in Migration, Apply(r, m)
    PROVE  IInv'
<1>1. TypeOK'
    BY DEF Apply, IInv, TypeOK
<1>2. Holding'
    BY DEF Apply, IInv, Holding
<1>3. Listed'
    BY DEF Apply, IInv, TypeOK, Listed
<1>4. ASSUME NEW k \in 1..m PROVE k \in ledger'
    <2>1. k \in Migration /\ k <= m
        BY MigrateAssumption DEF MigrateAssumption, Migration
    <2>2. k \in ledger \/ k \in todo[r]
        BY <2>1 DEF Apply, IInv, Listed
    <2>3. k \in todo[r] => m <= k
        BY DEF Apply, FirstOf
    <2> QED
        BY <2>1, <2>2, <2>3, MigrateAssumption DEF Apply, MigrateAssumption, Migration
<1>5. AppliedInOrder'
    BY <1>4 DEF Apply, IInv, AppliedInOrder
<1> QED
    BY <1>1, <1>2, <1>3, <1>5 DEF IInv

LEMMA StepIInv ==
    ASSUME IInv, NEW r \in Runner, Step(r) \/ Raise(r) \/ Kill(r) \/ Notice(r) \/ Drop(r)
    PROVE  IInv'
<1>1. CASE Connect(r) \/ TryAcquire(r) \/ GiveUp(r) \/ BreakLock(r) \/ Kill(r)
    BY <1>1, MoveIInv, MigrateAssumption
    DEF Connect, TryAcquire, GiveUp, BreakLock, Kill, Goto, IInv, TypeOK, Holding, Working, MigrateAssumption
<1>2. CASE Plan(r)
    <2>1. todo' = [todo EXCEPT ![r] = Migration \ ledger] /\ stage' = [stage EXCEPT ![r] = "planned"]
          /\ stage[r] = "cleared" /\ UNCHANGED <<holder, mark, ledger, history>>
        BY <1>2 DEF Plan, Goto
    <2>2. TypeOK'
        BY <2>1 DEF IInv, TypeOK, Stage, Working
    <2>3. Holding'
        BY <2>1 DEF IInv, TypeOK, Holding, Working
    <2>4. Listed' /\ AppliedInOrder'
        BY <2>1 DEF IInv, TypeOK, Listed, AppliedInOrder
    <2> QED
        BY <2>2, <2>3, <2>4 DEF IInv
<1>3. CASE TakeMark(r) \/ Applied(r)
    <2>1. PICK to \in {"applying", "applied"} :
             /\ stage' = [stage EXCEPT ![r] = to]
             /\ stage[r] \in {"planned", "applying"}
             /\ to = "applied" => todo[r] = {}
             /\ mark' \in {mark, r, NoRunner} /\ UNCHANGED <<holder, todo, ledger, history>>
        BY <1>3 DEF TakeMark, Applied, Goto
    <2>2. TypeOK'
        BY <2>1 DEF IInv, TypeOK, Stage, Working
    <2>3. Holding'
        BY <2>1 DEF IInv, TypeOK, Holding, Working
    <2>4. to = "applied" => ledger = Migration
        BY <2>1 DEF IInv, TypeOK, Listed
    <2>5. Listed' /\ AppliedInOrder'
        BY <2>1, <2>4 DEF IInv, TypeOK, Listed, AppliedInOrder
    <2> QED
        BY <2>2, <2>3, <2>5 DEF IInv
<1>4. CASE MarkTimeout(r) \/ (\E m \in Migration : Collide(r, m)) \/ Raise(r)
    BY <1>4, ExitIInv DEF MarkTimeout, Collide, Raise, Ended
<1>5. CASE Done(r)
    <2>1. /\ stage' = [stage EXCEPT ![r] = "done"] /\ stage[r] = "applied"
          /\ mark' \in {mark, NoRunner} /\ UNCHANGED <<todo, ledger, history>>
          /\ holder' = IF holder = r THEN NoRunner ELSE holder
        BY <1>5 DEF Done, Exit
    <2>2. TypeOK'
        BY <2>1 DEF IInv, TypeOK, Stage, Ended
    <2>3. Holding'
        BY <2>1, MigrateAssumption DEF IInv, TypeOK, Holding, MigrateAssumption
    <2>4. Listed' /\ AppliedInOrder'
        BY <2>1 DEF IInv, TypeOK, Listed, AppliedInOrder
    <2> QED
        BY <2>2, <2>3, <2>4 DEF IInv
<1>6. CASE Notice(r) \/ Drop(r)
    BY <1>6, MigrateAssumption
    DEF Notice, Drop, IInv, TypeOK, Holding, Listed, AppliedInOrder, MigrateAssumption
<1> QED
    BY <1>1, <1>2, <1>3, <1>4, <1>5, <1>6, ApplyIInv DEF Step

LEMMA Inductive == Spec => []IInv
<1>1. IInv /\ [Next]_vars => IInv'
    <2> SUFFICES ASSUME IInv, [Next]_vars PROVE IInv'
        OBVIOUS
    <2>1. CASE UNCHANGED vars
        BY <2>1 DEF vars, IInv, TypeOK, Holding, Listed, AppliedInOrder
    <2> QED
        BY <2>1, StepIInv DEF Next
<1> QED
    BY <1>1, InitIInv, PTL DEF Spec

\* Every variable keeps its type, whatever the constants.
THEOREM TypeCorrect == Spec => []TypeOK
<1> QED
    BY Inductive, PTL DEF IInv

\* Whatever breaks and whoever is killed, migrations are applied in order.
THEOREM InOrder == Spec => []AppliedInOrder
<1> QED
    BY Inductive, PTL DEF IInv

\* A runner reports success over a complete schema only.
THEOREM SuccessIsReal == Spec => []SuccessMeansMigrated
<1>1. IInv => SuccessMeansMigrated
    BY DEF IInv, Listed, SuccessMeansMigrated
<1> QED
    BY <1>1, Inductive, PTL

(***************************************************************************)
(* Time-outs.  Who has the lock when another gives up is the witness.  It  *)
(* stays one to its end, unless it is done, and then the schema is         *)
(* complete, and stays so.                                                 *)
(***************************************************************************)
Tried == ledger = Migration \/ \E q \in held : stage[q] \in Working \cup {"collided", "raised", "killed"}

LEMMA TriedStays ==
    ASSUME IInv, Tried, NEW r \in Runner, Step(r) \/ Raise(r) \/ Kill(r) \/ Notice(r) \/ Drop(r)
    PROVE  Tried'
<1> USE DEF IInv, TypeOK
<1>1. held \subseteq held' /\ ledger \subseteq ledger' /\ ledger' \subseteq Migration
    BY DEF Step, Connect, TryAcquire, GiveUp, BreakLock, Plan, TakeMark, MarkTimeout,
       Apply, Collide, Applied, Done, Raise, Kill, Notice, Drop, Exit, Goto
<1>2. CASE ledger = Migration
    BY <1>1, <1>2 DEF Tried
<1>3. ASSUME NEW q \in held, stage[q] \in Working \cup {"collided", "raised", "killed"}
      PROVE  Tried'
    <2>1. CASE Done(r) /\ q = r
        BY <2>1 DEF Done, Exit, Listed, Tried
    <2>2. CASE ~(Done(r) /\ q = r)
        <3>1. stage'[q] \in Working \cup {"collided", "raised", "killed"}
            BY <1>3, <2>2 DEF Step, Connect, TryAcquire, GiveUp, BreakLock, Plan, TakeMark, MarkTimeout,
               Apply, Collide, Applied, Done, Raise, Kill, Notice, Drop, Exit, Goto, Working
        <3> QED
            BY <1>1, <1>3, <3>1 DEF Tried
    <2> QED
        BY <2>1, <2>2
<1> QED
    BY <1>2, <1>3 DEF Tried

\* advisory_lock's deadline: whatever breaks and whoever is killed, a runner that
\* gives up leaves a complete schema, or a runner that has had its turn and is at
\* work or has failed.
THEOREM TimeoutsJustified == Spec => []TimeoutsExplained
<1>1. Init => TimeoutsExplained
    BY DEF Init, TimeoutsExplained
<1>2. ASSUME IInv, TimeoutsExplained, [Next]_vars PROVE TimeoutsExplained'
    <2>1. ASSUME NEW r \in Runner, Step(r) \/ Raise(r) \/ Kill(r) \/ Notice(r) \/ Drop(r)
          PROVE  TimeoutsExplained'
        <3>1. CASE GiveUp(r)
            <4>1. holder \in held /\ stage[holder] \in Working \cup {"killed"}
                BY <1>2, <3>1 DEF GiveUp, IInv, TypeOK, Holding
            <4>2. Tried
                BY <4>1 DEF Tried
            <4> QED
                BY <1>2, <2>1, <4>2, TriedStays DEF TimeoutsExplained, Tried
        <3>2. CASE ~GiveUp(r)
            <4>1. \A q \in Runner : stage'[q] = "timed-out" => stage[q] = "timed-out"
                BY <1>2, <2>1, <3>2 DEF Step, Connect, TryAcquire, BreakLock, Plan, TakeMark,
                   MarkTimeout, Apply, Collide, Applied, Done, Raise, Kill, Notice, Drop, Exit,
                   Goto, IInv, TypeOK
            <4>2. (\E q \in Runner : stage'[q] = "timed-out") => Tried
                BY <1>2, <4>1 DEF TimeoutsExplained, Tried
            <4> QED
                BY <1>2, <2>1, <4>2, TriedStays DEF TimeoutsExplained, Tried
        <3> QED
            BY <3>1, <3>2
    <2>2. CASE UNCHANGED vars
        BY <1>2, <2>2 DEF vars, TimeoutsExplained
    <2> QED
        BY <1>2, <2>1, <2>2 DEF Next
<1> QED
    BY <1>1, <1>2, Inductive, PTL DEF Spec

(***************************************************************************)
(* Mutual exclusion, until a lock connection breaks: who works has the     *)
(* lock, so nobody else's lock row or migration is in the way.             *)
(***************************************************************************)
Alone ==
    /\ \A r \in Runner : stage[r] \in Working => holder = r
    /\ \A r \in Runner : stage[r] \in {"cleared", "planned"} => mark = NoRunner
    /\ \A r \in Runner : stage[r] \in {"planned", "applying"} => todo[r] \cap ledger = {}
Excludes == drops = 0 => Alone /\ NoCollision

LEMMA StepAlone ==
    ASSUME IInv, Alone, NoCollision, drops = 0, drops' = 0,
           NEW r \in Runner, Step(r) \/ Raise(r) \/ Kill(r) \/ Notice(r) \/ Drop(r)
    PROVE  Alone' /\ NoCollision'
<1> USE DEF IInv, TypeOK, Working, NoCollision, Goto
<1>1. CASE Connect(r) \/ TryAcquire(r) \/ GiveUp(r) \/ BreakLock(r) \/ Kill(r)
    BY <1>1, MigrateAssumption DEF Connect, TryAcquire, GiveUp, BreakLock, Kill, Alone, MigrateAssumption
<1>2. CASE Plan(r)
    BY <1>2 DEF Plan, Alone
<1>3. CASE TakeMark(r) \/ Applied(r)
    BY <1>3 DEF TakeMark, Applied, Alone
<1>4. ASSUME NEW m \in Migration PROVE ~Collide(r, m)
    BY <1>4 DEF Collide, FirstOf, Alone
<1>5. ~MarkTimeout(r)
    BY DEF MarkTimeout, Alone
<1>6. ASSUME NEW m \in Migration, Apply(r, m) PROVE Alone' /\ NoCollision'
    <2>1. \A q \in Runner : stage[q] \in {"planned", "applying"} => q = r
        BY <1>6 DEF Apply, Alone
    <2> QED
        BY <1>6, <2>1 DEF Apply, Alone
<1>7. CASE Done(r) \/ Raise(r)
    <2>1. PICK outcome \in {"done", "raised"} : Exit(r, outcome)
        BY <1>7 DEF Done, Raise
    <2> QED
        BY <2>1, MigrateAssumption DEF Exit, Alone, MigrateAssumption
<1>8. CASE Notice(r)
    BY <1>8 DEF Notice, Alone
<1>9. ~Drop(r)
    BY DEF Drop
<1> QED
    BY <1>1, <1>2, <1>3, <1>4, <1>5, <1>6, <1>7, <1>8, <1>9 DEF Step

\* However many runners are started at once and killed anywhere, none runs into
\* another, as long as no lock connection has broken.
THEOREM RunnersSerialised == Spec => []NoCollision
<1>1. Init => Excludes
    BY DEF Init, Excludes, Alone, NoCollision, Working
<1>2. ASSUME IInv, Excludes, [Next]_vars PROVE Excludes'
    <2>1. CASE UNCHANGED vars
        BY <1>2, <2>1 DEF vars, Excludes, Alone, NoCollision
    <2>2. ASSUME NEW r \in Runner, Step(r) \/ Raise(r) \/ Kill(r) \/ Notice(r) \/ Drop(r), drops' = 0
          PROVE  drops = 0
        BY <1>2, <2>2 DEF Step, Connect, TryAcquire, GiveUp, BreakLock, Plan, TakeMark, MarkTimeout,
           Apply, Collide, Applied, Done, Raise, Kill, Notice, Drop, Exit, IInv, TypeOK
    <2> QED
        BY <1>2, <2>1, <2>2, StepAlone DEF Next, Excludes
<1>3. Excludes => NoCollision
    BY DEF Excludes, NoCollision
<1> QED
    BY <1>1, <1>2, <1>3, Inductive, PTL DEF Spec
==============================================================================
