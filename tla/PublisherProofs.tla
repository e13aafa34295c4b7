--------------------------- MODULE PublisherProofs ---------------------------
(* What Publisher promises for every number of items, replicas and faults.  *)
EXTENDS Publisher, FiniteSetTheorems, TLAPS

\* What an append leaves alone, and what it adds.
LEMMA Appended ==
    ASSUME NEW r \in Envelope, log \in Seq(Envelope)
    PROVE  /\ Append(log, r) \in Seq(Envelope)
           /\ Len(Append(log, r)) = Len(log) + 1
           /\ \A n \in 1..Len(log) : Append(log, r)[n] = log[n]
           /\ Append(log, r)[Len(log) + 1] = r
    OBVIOUS

LEMMA FaultsCounted ==
    ASSUME faults \in [Fault -> Nat], NEW tookEffect, Fails(tookEffect)
    PROVE  faults' \in [Fault -> Nat]
BY DEF Fails, Strike, Fault

(***************************************************************************)
(* The steps of a unit of work fall into four kinds: those that leave the  *)
(* table alone, those that store a row and let go of it, the insert that   *)
(* holds on to its row, and those that act on the row they hold.           *)
(***************************************************************************)
Settles(w, i, from, to) ==
    /\ Goto(w, i, from, to)
    /\ committed' = committed /\ job' = job /\ posted' = posted /\ moved' = moved
    /\ reported \subseteq reported' /\ reported' \subseteq reported \cup {i}
    /\ faults' \in [Fault -> Nat]

Quiet(w, i) ==
    /\ \/ \E to \in {"requeueing", "settled"} : Settles(w, i, "queued", to) /\ log' = log
       \/ Settles(w, i, "requeueing", "settled") /\ log' \in {log, Retried(w, i)}
    /\ stage'[w][i] = "settled" =>
          HasRow(KeyOf[i]) \/ i \in reported' \/ log' = Retried(w, i)
    /\ UNCHANGED <<row, status, content, published, undeleted, cause>>

LetsGo(w, i, u) ==
    /\ \E to \in {"requeueing", "settled"} : Settles(w, i, "queued", to)
    /\ \/ Store(u, i, "pending") /\ cause' = [cause EXCEPT ![u] = "lost-commit"]
       \/ Store(u, i, "human-review") /\ cause' = cause
    /\ UNCHANGED <<log, row, published, undeleted>>

Acts(w, i) == \/ Publish(w, i) \/ PublishUnreleased(w, i) \/ Compensate(w, i)
              \/ \E flag \in BOOLEAN : PublishFails(w, i, flag) \/ CompensateFails(w, i, flag)

LEMMA UnitKinds ==
    ASSUME NEW w \in Worker, NEW i \in Item, TypeOK, Unit(w, i)
    PROVE  \/ Quiet(w, i) \/ Acts(w, i)
           \/ \E u \in Uuid : Insert(w, i, u) \/ LetsGo(w, i, u)
<1> USE DEF Settles, Process, Escalating, Enter, Fails, Strike, Fault, TypeOK,
            topic, table, sinks, past, history
<1>1. CASE \E u \in Uuid : Insert(w, i, u) \/ InsertCommitLost(w, i, u)
                           \/ Escalate(w, i, u) \/ EscalateCommitLost(w, i, u)
    <2>1. ASSUME NEW u \in Uuid, InsertCommitLost(w, i, u) PROVE LetsGo(w, i, u)
        BY <2>1 DEF LetsGo, InsertCommitLost
    <2>2. ASSUME NEW u \in Uuid, Escalate(w, i, u) PROVE LetsGo(w, i, u)
        BY <2>2 DEF LetsGo, Escalate
    <2>3. ASSUME NEW u \in Uuid, EscalateCommitLost(w, i, u) PROVE LetsGo(w, i, u)
        BY <2>3 DEF LetsGo, EscalateCommitLost
    <2> QED
        BY <1>1, <2>1, <2>2, <2>3
<1>2. CASE Publish(w, i) \/ PublishUnreleased(w, i) \/ Compensate(w, i)
           \/ \E flag \in BOOLEAN : PublishFails(w, i, flag) \/ CompensateFails(w, i, flag)
    BY <1>2 DEF Acts
<1>3. CASE Reject(w, i) \/ InsertDuplicate(w, i) \/ InsertFails(w, i)
           \/ EscalateDuplicate(w, i) \/ EscalateFails(w, i)
    <2>1. CASE Reject(w, i)
        BY <2>1 DEF Quiet, Reject
    <2>2. CASE InsertDuplicate(w, i)
        BY <2>2 DEF Quiet, InsertDuplicate
    <2>3. CASE InsertFails(w, i)
        BY <2>3 DEF Quiet, InsertFails, Goto
    <2>4. CASE EscalateDuplicate(w, i)
        BY <2>4 DEF Quiet, EscalateDuplicate
    <2>5. CASE EscalateFails(w, i)
        BY <2>5 DEF Quiet, EscalateFails
    <2> QED
        BY <1>3, <2>1, <2>2, <2>3, <2>4, <2>5
<1>4. CASE Requeue(w, i) \/ \E flag \in BOOLEAN : RequeueFails(w, i, flag)
    <2>1. CASE Requeue(w, i)
        BY <2>1 DEF Quiet, Requeue
    <2>2. ASSUME NEW flag \in BOOLEAN, RequeueFails(w, i, flag) PROVE Quiet(w, i)
        <3>1. faults' \in [Fault -> Nat]
            <4>1. Fails(flag) /\ faults \in [Fault -> Nat]
                BY <2>2 DEF RequeueFails
            <4> QED
                BY <4>1, FaultsCounted
        <3>2. log' \in {log, Retried(w, i)}
            BY <2>2 DEF RequeueFails
        <3> QED
            BY <2>2, <3>1, <3>2 DEF Quiet, RequeueFails
    <2> QED
        BY <1>4, <2>1, <2>2
<1> QED
    BY <1>1, <1>2, <1>3, <1>4, Unit(w, i) DEF Unit

(***************************************************************************)
(* The inductive invariant under every result below: a replica works on    *)
(* exactly the items of its record, and a unit of work that has inserted a *)
(* row and not finished with it is the only one to hold that row.          *)
(***************************************************************************)
Assigned == \A w \in Worker, i \in Item :
    stage[w][i] # "idle" <=> (job[w] # 0 /\ i \in log[job[w]].payload)
Holding == \A w \in Worker, i \in Item :
    row[w][i] # NoRow <=> stage[w][i] \in {"publishing", "compensating"}
HeldRows ==
    /\ \A w \in Worker, i \in Item : row[w][i] # NoRow =>
          status[row[w][i]] \in {"pending", "decided"} /\ content[row[w][i]] = i
    /\ \A v, w \in Worker, i, j \in Item :
          row[v][i] = row[w][j] /\ row[v][i] # NoRow => v = w
IInv == TypeOK /\ Assigned /\ Holding /\ HeldRows

LEMMA InitIInv == Init => IInv
<1> SUFFICES ASSUME Init PROVE IInv
    OBVIOUS
<1>1. log \in Seq(Envelope) /\ Len(log) = 0
    BY DEF Init
<1>2. (CHOOSE i \in Item : TRUE) \in Item
    BY PublisherAssumption DEF PublisherAssumption
<1>3. content \in [Uuid -> Item]
    BY <1>2 DEF Init
<1>4. TypeOK
    BY <1>1, <1>3 DEF Init, TypeOK, Stage, Status, Cause, Fault
<1> QED
    BY <1>4 DEF Init, IInv, Assigned, Holding, HeldRows

LEMMA PostIInv == ASSUME NEW b \in Batch, IInv, Post(b) PROVE IInv'
<1>1. [retry |-> 0, payload |-> b] \in Envelope
    BY PublisherAssumption DEF PublisherAssumption, Envelope
<1>2. TypeOK'
    BY <1>1, Appended, PublisherAssumption
    DEF Post, units, table, sinks, PublisherAssumption, IInv, TypeOK
<1>3. Assigned'
    BY <1>1, Appended DEF Post, units, IInv, TypeOK, Assigned
<1> QED
    BY <1>2, <1>3 DEF Post, units, table, IInv, Holding, HeldRows

LEMMA TakeIInv ==
    ASSUME NEW w \in Worker, NEW n \in 1..Len(log), IInv, Consume(w, n) \/ Redeliver(w, n)
    PROVE  IInv'
<1> USE DEF IInv, TypeOK
<1>1. Take(w, n) /\ faults' \in [Fault -> Nat]
    BY DEF Consume, Redeliver, Strike, Fault
<1>2. job' \in [Worker -> Nat] /\ \A v \in Worker : job'[v] <= Len(log)
    BY <1>1 DEF Take
<1>3. stage' \in [Worker -> [Item -> Stage]]
    BY <1>1 DEF Take, Stage
<1>8. moved' \subseteq {KeyOf[i] : i \in Item}
    <2>1. log[n].payload \subseteq Item
        <3>1. log[n] \in Envelope
            OBVIOUS
        <3> QED
            BY <3>1 DEF Envelope
    <2>2. moved' \subseteq moved \cup {KeyOf[i] : i \in log[n].payload}
        BY DEF Consume, Redeliver
    <2> QED
        BY <2>1, <2>2
<1>4. TypeOK'
    BY <1>1, <1>2, <1>3, <1>8 DEF Take, topic, table, sinks
<1>5. Assigned'
    BY <1>1 DEF Take, topic, Assigned
<1>6. Holding'
    BY <1>1 DEF Take, Holding, Assigned
<1>7. HeldRows'
    BY <1>1 DEF Take, table, HeldRows
<1> QED
    BY <1>4, <1>5, <1>6, <1>7

LEMMA LeaveIInv ==
    ASSUME NEW w \in Worker, IInv, Commit(w) \/ Crash(w)
    PROVE  IInv'
<1> USE DEF IInv, TypeOK
<1>1. Leave(w) /\ log' = log /\ committed' \subseteq committed \cup {job[w]} /\ job[w] \in 1..Len(log)
      /\ status' = status /\ content' = content
    BY DEF Commit, Crash, table, topic
<1>2. job' \in [Worker -> Nat] /\ \A v \in Worker : job'[v] <= Len(log)
    BY <1>1 DEF Leave
<1>3. stage' \in [Worker -> [Item -> Stage]] /\ row' \in [Worker -> [Item -> Uuid \cup {NoRow}]]
    BY <1>1 DEF Leave, Stage
<1>4. published' = published /\ reported' = reported /\ undeleted' = undeleted /\ posted' = posted
      /\ moved' = moved /\ cause' \in [Uuid -> Cause] /\ faults' \in [Fault -> Nat]
    <2>1. cause \in [Uuid -> Cause] /\ faults \in [Fault -> Nat]
        OBVIOUS
    <2>2. CASE Commit(w)
        BY <2>1, <2>2 DEF Commit, sinks, past, history
    <2>3. CASE Crash(w)
        <3>1. /\ UNCHANGED <<published, reported, undeleted, posted, moved>>
              /\ faults' = [faults EXCEPT !["crash"] = @ + 1]
            BY <2>3 DEF Crash, Strike, sinks, past
        <3>2. cause' \in [Uuid -> Cause]
            BY <2>1, <2>3 DEF Crash, Cause
        <3> QED
            BY <2>1, <3>1, <3>2 DEF Fault
    <2> QED
        BY <2>2, <2>3
<1>5. TypeOK'
    BY <1>1, <1>2, <1>3, <1>4
<1>6. Assigned' /\ Holding' /\ HeldRows'
    BY <1>1 DEF Leave, Assigned, Holding, HeldRows
<1> QED
    BY <1>5, <1>6

LEMMA UnitIInv ==
    ASSUME NEW w \in Worker, NEW i \in Item, IInv, Unit(w, i)
    PROVE  IInv'
<1> USE DEF IInv, TypeOK
<1>1. stage[w][i] # "idle" => /\ job[w] \in 1..Len(log)
                              /\ Retried(w, i) \in Seq(Envelope)
                              /\ Len(Retried(w, i)) = Len(log) + 1
                              /\ \A n \in 1..Len(log) : Retried(w, i)[n] = log[n]
    <2> SUFFICES ASSUME stage[w][i] # "idle"
                 PROVE  /\ job[w] \in 1..Len(log)
                        /\ Retried(w, i) \in Seq(Envelope)
                        /\ Len(Retried(w, i)) = Len(log) + 1
                        /\ \A n \in 1..Len(log) : Retried(w, i)[n] = log[n]
        OBVIOUS
    <2>1. job[w] \in 1..Len(log)
        BY DEF Assigned
    <2>2. log[job[w]].retry \in Nat
        <3>1. log[job[w]] \in Envelope
            BY <2>1
        <3> QED
            BY <3>1 DEF Envelope
    <2>3. [retry |-> log[job[w]].retry + 1, payload |-> {i}] \in Envelope
        BY <2>2 DEF Envelope
    <2> QED
        BY <2>1, <2>3, Appended DEF Retried
<1>2. CASE Quiet(w, i)
    <2>1. \E to \in {"requeueing", "settled"} :
             stage[w][i] \in {"queued", "requeueing"} /\ stage' = [stage EXCEPT ![w][i] = to]
        BY <1>2 DEF Quiet, Settles, Goto
    <2>2. log' \in {log, Retried(w, i)} /\ committed' = committed /\ job' = job
          /\ posted' = posted /\ moved' = moved /\ reported' \subseteq Item
          /\ faults' \in [Fault -> Nat] /\ UNCHANGED <<row, status, content, published, undeleted, cause>>
        BY <1>2 DEF Quiet, Settles
    <2>3. stage' \in [Worker -> [Item -> Stage]]
        BY <2>1 DEF Stage
    <2>4. TypeOK'
        BY <1>1, <2>1, <2>2, <2>3
    <2>5. Assigned'
        BY <1>1, <2>1, <2>2 DEF Assigned
    <2>6. Holding' /\ HeldRows'
        BY <2>1, <2>2 DEF Holding, HeldRows
    <2> QED
        BY <2>4, <2>5, <2>6
<1>3. ASSUME NEW u \in Uuid, LetsGo(w, i, u) PROVE IInv'
    <2>1. \E to \in {"requeueing", "settled"} :
             stage[w][i] = "queued" /\ stage' = [stage EXCEPT ![w][i] = to]
        BY <1>3 DEF LetsGo, Settles, Goto
    <2>2. /\ log' = log /\ committed' = committed /\ job' = job
          /\ posted' = posted /\ moved' = moved /\ reported' \subseteq Item /\ faults' \in [Fault -> Nat]
          /\ UNCHANGED <<row, published, undeleted>>
        BY <1>3 DEF LetsGo, Settles
    <2>3. /\ status[u] = "none" /\ content' = [content EXCEPT ![u] = i]
          /\ \E s \in {"pending", "human-review"} : status' = [status EXCEPT ![u] = s]
          /\ cause' \in [Uuid -> Cause]
        BY <1>3 DEF LetsGo, Store, Cause
    <2>4. TypeOK'
        BY <2>1, <2>2, <2>3 DEF Stage, Status, Stored
    <2>5. Assigned' /\ Holding'
        BY <2>1, <2>2 DEF Assigned, Holding
    <2>6. HeldRows'
        BY <2>2, <2>3 DEF HeldRows
    <2> QED
        BY <2>4, <2>5, <2>6
<1>4. ASSUME NEW u \in Uuid, Insert(w, i, u) PROVE IInv'
    <2>1. stage[w][i] = "queued" /\ stage' = [stage EXCEPT ![w][i] = "publishing"]
        BY <1>4 DEF Insert, Process, Enter, Goto
    <2>2. /\ status[u] = "none" /\ content' = [content EXCEPT ![u] = i]
          /\ status' = [status EXCEPT ![u] = "pending"]
          /\ row' = [row EXCEPT ![w][i] = u]
          /\ UNCHANGED <<log, committed, job, published, reported, undeleted, posted, moved, cause, faults>>
        BY <1>4 DEF Insert, Store, topic, sinks, past, history
    <2>3. TypeOK'
        BY <2>1, <2>2 DEF Stage, Status, Stored
    <2>4. Assigned' /\ Holding'
        BY <2>1, <2>2, PublisherAssumption DEF Assigned, Holding, PublisherAssumption
    <2>5. HeldRows'
        BY <2>2 DEF HeldRows
    <2> QED
        BY <2>3, <2>4, <2>5
<1>5. CASE Acts(w, i)
    <2>1. stage[w][i] \in {"publishing", "compensating"} /\ row[w][i] \in Uuid /\ row[w][i] # NoRow
        BY <1>5 DEF Acts, Publish, PublishUnreleased, PublishFails, Compensate, CompensateFails, Goto, Holding
    <2>2. /\ UNCHANGED <<log, committed, job, content, reported, posted, moved>>
          /\ faults' \in [Fault -> Nat]
          /\ cause' \in [Uuid -> Cause]
          /\ published' \subseteq Uuid /\ undeleted' \subseteq Uuid
        <3>1. CASE Publish(w, i)
            BY <2>1, <3>1 DEF Publish, topic, table, past, history
        <3>5. CASE PublishUnreleased(w, i)
            BY <2>1, <3>5 DEF PublishUnreleased, Strike, Fault, topic, table, past
        <3>2. ASSUME NEW flag \in BOOLEAN, PublishFails(w, i, flag) PROVE <2>2!:
            BY <2>1, <3>2 DEF PublishFails, Fails, Strike, Fault, topic, table, past
        <3>3. CASE Compensate(w, i)
            BY <2>1, <3>3 DEF Compensate, topic, sinks, past, history
        <3>4. ASSUME NEW flag \in BOOLEAN, CompensateFails(w, i, flag) PROVE <2>2!:
            BY <2>1, <3>4 DEF CompensateFails, Fails, Strike, Fault, Cause, topic, past
        <3> QED
            BY <1>5, <3>1, <3>2, <3>3, <3>4, <3>5 DEF Acts
    <2>3. \/ row' = row /\ stage' = [stage EXCEPT ![w][i] = "compensating"]
          \/ row' = [row EXCEPT ![w][i] = NoRow]
             /\ \E to \in {"requeueing", "settled"} : stage' = [stage EXCEPT ![w][i] = to]
        BY <1>5 DEF Acts, Publish, PublishUnreleased, PublishFails, Compensate, CompensateFails, Goto
    <2>4. \/ status' = status
          \/ status' = [status EXCEPT ![row[w][i]] = "deleted"] /\ row' = [row EXCEPT ![w][i] = NoRow]
        BY <1>5 DEF Acts, Publish, PublishUnreleased, PublishFails, Compensate, CompensateFails, DeletePending, table
    <2>5. /\ \E to \in Stage \ {"idle"} : stage' = [stage EXCEPT ![w][i] = to]
          /\ stage' \in [Worker -> [Item -> Stage]]
          /\ row' \in [Worker -> [Item -> Uuid \cup {NoRow}]]
          /\ status' \in [Uuid -> Status]
        <3>1. \E to \in Stage \ {"idle"} : stage' = [stage EXCEPT ![w][i] = to]
            <4>1. {"compensating", "requeueing", "settled"} \subseteq Stage \ {"idle"}
                BY DEF Stage
            <4> QED
                BY <2>3, <4>1
        <3>2. stage' \in [Worker -> [Item -> Stage]]
            BY <3>1
        <3>3. row' \in [Worker -> [Item -> Uuid \cup {NoRow}]]
            <4>1. CASE row' = row
                BY <4>1
            <4>2. CASE row' = [row EXCEPT ![w][i] = NoRow]
                BY <4>2
            <4> QED
                BY <2>3, <4>1, <4>2
        <3>4. status' \in [Uuid -> Status]
            BY <2>1, <2>4 DEF Status
        <3> QED
            BY <3>1, <3>2, <3>3, <3>4
    <2>6. TypeOK'
        BY <2>2, <2>5
    <2>7. Assigned'
        BY <2>1, <2>2, <2>5 DEF Assigned
    <2>8. CASE row' = row /\ stage' = [stage EXCEPT ![w][i] = "compensating"]
        BY <2>1, <2>2, <2>4, <2>6, <2>7, <2>8 DEF Holding, HeldRows
    <2>9. CASE /\ row' = [row EXCEPT ![w][i] = NoRow]
               /\ \E to \in {"requeueing", "settled"} : stage' = [stage EXCEPT ![w][i] = to]
        <3>1. Holding'
            BY <2>1, <2>9 DEF Holding
        <3>2. \A v \in Worker, j \in Item : row'[v][j] # NoRow =>
                 row'[v][j] = row[v][j] /\ status'[row[v][j]] = status[row[v][j]]
            BY <2>1, <2>4, <2>9 DEF HeldRows
        <3>3. HeldRows'
            BY <2>2, <3>2 DEF HeldRows
        <3> QED
            BY <2>6, <2>7, <3>1, <3>3
    <2> QED
        BY <2>3, <2>8, <2>9
<1> QED
    BY <1>2, <1>3, <1>4, <1>5, UnitKinds

LEMMA NextIInv == IInv /\ [Next]_vars => IInv'
<1> SUFFICES ASSUME IInv, [Next]_vars PROVE IInv'
    OBVIOUS
<1>1. ASSUME NEW u \in Uuid, AgentDecides(u) PROVE IInv'
    BY <1>1 DEF AgentDecides, Status, Stored, topic, units, sinks, past, history,
                IInv, TypeOK, Assigned, Holding, HeldRows
<1>2. CASE UNCHANGED vars
    BY <1>2 DEF vars, topic, units, table, sinks, past, history,
                IInv, TypeOK, Assigned, Holding, HeldRows
<1> QED
    BY <1>1, <1>2, PostIInv, TakeIInv, LeaveIInv, UnitIInv DEF Next

LEMMA Inductive == Spec => []IInv
<1> QED
    BY InitIInv, NextIInv, PTL DEF Spec

\* Every variable keeps its type, whatever the constants.
THEOREM TypeCorrect == Spec => []TypeOK
<1>1. IInv => TypeOK
    BY DEF IInv
<1> QED
    BY <1>1, Inductive, PTL

(***************************************************************************)
(* NothingLost, for the requests whose record no rebalance has handed out  *)
(* twice.  The invariant is strengthened: a record vouches for a request   *)
(* only by an item that the replica holding the record has not settled     *)
(* yet.  Without that, two settled items could vouch for each other and be *)
(* committed in turn.                                                      *)
(***************************************************************************)
Moved(n) == \A i \in log[n].payload : KeyOf[i] \in moved

Exclusive ==
    /\ \A w \in Worker : job[w] # 0 => job[w] \in Pending \/ Moved(job[w])
    /\ \A v, w \in Worker : job[v] = job[w] /\ job[v] # 0 => v = w \/ Moved(job[w])

Vouches(n, i) == \A w \in Worker : job[w] = n => stage[w][i] # "settled"
Open(k) == \E n \in Pending : \E i \in log[n].payload : KeyOf[i] = k /\ Vouches(n, i)
Secure == \A k \in Keys \ moved : HasRow(k) \/ Reported(k) \/ Open(k)
SInv == Exclusive /\ Secure

\* A unit of work that is still running keeps its request open.
LEMMA RunningIsOpen ==
    ASSUME IInv, Exclusive, NEW w \in Worker, NEW i \in Item,
           stage[w][i] \notin {"idle", "settled"}, KeyOf[i] \notin moved
    PROVE  Open(KeyOf[i])
<1>1. job[w] \in Pending /\ i \in log[job[w]].payload
    BY DEF IInv, Assigned, Exclusive, Moved
<1>2. Vouches(job[w], i)
    <2>1. job[w] # 0
        BY DEF IInv, Assigned
    <2> QED
        BY <1>1, <2>1 DEF Vouches, Exclusive, Moved
<1> QED
    BY <1>1, <1>2 DEF Open

\* A unit's step leaves every record it does not settle as it was: requests
\* of other keys stay open, and so do those the unit has not settled.
LEMMA StillOpen ==
    ASSUME IInv, NEW w \in Worker, NEW i \in Item, NEW to \in Stage,
           stage' = [stage EXCEPT ![w][i] = to], job' = job, committed' = committed,
           \/ log' = log
           \/ \E r \in Envelope : log' = Append(log, r),
           NEW k, Open(k), to # "settled" \/ KeyOf[i] # k
    PROVE  Open(k)'
<1>1. PICK n \in Pending : \E j \in log[n].payload : KeyOf[j] = k /\ Vouches(n, j)
    BY DEF Open
<1>2. PICK j \in log[n].payload : KeyOf[j] = k /\ Vouches(n, j)
    BY <1>1
<1>3. n \in Pending' /\ log'[n] = log[n]
    BY Appended DEF Pending, IInv, TypeOK
<1>4. j \in Item
    <2>1. log[n] \in Envelope
        BY DEF IInv, TypeOK, Pending
    <2> QED
        BY <2>1, <1>2 DEF Envelope
<1>5. Vouches(n, j)'
    BY <1>2, <1>4 DEF Vouches, IInv, TypeOK
<1> QED
    BY <1>2, <1>3, <1>5 DEF Open

\* No step takes back that a record was moved, or changes what it carries.
LEMMA StillMoved ==
    ASSUME moved \subseteq moved', NEW n, log'[n] = log[n], Moved(n)
    PROVE  Moved(n)'
BY DEF Moved

LEMMA TakeSInv ==
    ASSUME IInv, SInv, NEW w \in Worker, NEW n \in 1..Len(log), Consume(w, n) \/ Redeliver(w, n)
    PROVE  SInv' /\ \A k : Open(k) => Open(k)'
<1>1. /\ Take(w, n) /\ moved \subseteq moved'
      /\ (\A v \in Worker : job[v] # n) \/ Moved(n)'
    BY DEF Consume, Redeliver, Take, topic, Moved
<1>2. /\ job' = [job EXCEPT ![w] = n] /\ n \in Pending /\ job[w] = 0
      /\ log' = log /\ committed' = committed
    BY <1>1 DEF Take, topic
<1>3. Exclusive'
    <2>0. \A m \in 1..Len(log) : log'[m] = log[m] /\ (Moved(m) => Moved(m)')
        BY <1>1, <1>2, StillMoved
    <2>1. ASSUME NEW v \in Worker, NEW m, m = job'[v], m # 0
          PROVE  m \in Pending' \/ Moved(m)'
        <3>1. CASE v = w
            BY <1>2, <2>1, <3>1 DEF IInv, TypeOK, Pending
        <3>2. CASE v # w
            <4>1. m = job[v] /\ m \in 1..Len(log)
                BY <1>2, <2>1, <3>2 DEF IInv, TypeOK
            <4> QED
                BY <1>2, <2>0, <2>1, <4>1 DEF SInv, Exclusive, Pending
        <3> QED
            BY <3>1, <3>2
    <2>2. ASSUME NEW u \in Worker, NEW v \in Worker, NEW m, m = job'[v], job'[u] = m, m # 0, u # v
          PROVE  Moved(m)'
        <3>1. CASE u = w \/ v = w
            <4>1. m = n /\ ((u # w /\ job[u] = n) \/ (v # w /\ job[v] = n))
                BY <1>2, <2>2, <3>1 DEF IInv, TypeOK
            <4> QED
                BY <1>1, <4>1
        <3>2. CASE u # w /\ v # w
            <4>1. job[u] = m /\ job[v] = m /\ m \in 1..Len(log)
                BY <1>2, <2>2, <3>2 DEF IInv, TypeOK
            <4> QED
                BY <2>0, <2>2, <4>1 DEF SInv, Exclusive
        <3> QED
            BY <3>1, <3>2
    <2> QED
        BY <2>1, <2>2 DEF Exclusive, Moved
<1>4. ASSUME NEW k, Open(k) PROVE Open(k)'
    <2>1. PICK m \in Pending : \E j \in log[m].payload : KeyOf[j] = k /\ Vouches(m, j)
        BY <1>4 DEF Open
    <2>2. PICK j \in log[m].payload : KeyOf[j] = k /\ Vouches(m, j)
        BY <2>1
    <2>3. j \in Item
        <3>1. log[m] \in Envelope
            BY DEF IInv, TypeOK, Pending
        <3> QED
            BY <3>1, <2>2 DEF Envelope
    <2>4. Vouches(m, j)'
        BY <1>1, <2>2, <2>3 DEF Take, Vouches, IInv, TypeOK
    <2> QED
        BY <1>2, <2>2, <2>4 DEF Open, Pending
<1> QED
    BY <1>1, <1>3, <1>4 DEF Take, table, sinks, SInv, Secure, Keys, HasRow, RowFor, Reported

LEMMA LeaveSInv ==
    ASSUME IInv, SInv, NEW w \in Worker, Commit(w) \/ Crash(w)
    PROVE  SInv' /\ \A k : Open(k) => Open(k)'
<1>1. /\ Leave(w) /\ job[w] # 0 /\ log' = log /\ posted' = posted /\ moved' = moved
      /\ UNCHANGED <<status, content, reported>>
    BY DEF Commit, Crash, table, sinks, topic, past, history
<1>2. \/ committed' = committed
      \/ /\ committed' = committed \cup {job[w]}
         /\ \A i \in log[job[w]].payload : stage[w][i] = "settled"
    BY DEF Commit, Crash, topic
<1>4. Exclusive'
    BY <1>1, <1>2, StillMoved DEF Leave, SInv, Exclusive, Moved, IInv, TypeOK, Pending
<1>5. ASSUME NEW k, Open(k) PROVE Open(k)'
    <2>1. PICK n \in Pending : \E i \in log[n].payload : KeyOf[i] = k /\ Vouches(n, i)
        BY <1>5 DEF Open
    <2>2. PICK i \in log[n].payload : KeyOf[i] = k /\ Vouches(n, i)
        BY <2>1
    <2>3. i \in Item
        <3>1. log[n] \in Envelope
            BY DEF IInv, TypeOK, Pending
        <3> QED
            BY <3>1, <2>2 DEF Envelope
    <2>4. n \in Pending'
        BY <1>1, <1>2, <2>2 DEF Vouches, Pending
    <2>5. Vouches(n, i)'
        BY <1>1, <2>2, <2>3 DEF Leave, Vouches, IInv, TypeOK, Pending
    <2> QED
        BY <1>1, <2>2, <2>4, <2>5 DEF Open
<1> QED
    BY <1>1, <1>4, <1>5 DEF SInv, Secure, Keys, HasRow, RowFor, Reported

LEMMA PostSInv ==
    ASSUME IInv, SInv, NEW b \in Batch, Post(b)
    PROVE  SInv' /\ \A k : Open(k) => Open(k)'
<1>1. /\ log' = Append(log, [retry |-> 0, payload |-> b])
      /\ [retry |-> 0, payload |-> b] \in Envelope /\ b \subseteq Item
      /\ posted' = posted \cup b
      /\ UNCHANGED <<committed, job, stage, status, content, reported, moved>>
    BY PublisherAssumption DEF Post, units, table, sinks, Envelope, PublisherAssumption
<1>2. /\ Len(log') = Len(log) + 1 /\ log'[Len(log) + 1].payload = b
      /\ \A n \in 1..Len(log) : log'[n] = log[n]
      /\ Pending' = Pending \cup {Len(log) + 1}
    BY <1>1, Appended DEF IInv, TypeOK, Pending
<1>3. Exclusive'
    <2>1. \A w \in Worker : job[w] # 0 => job[w] \in 1..Len(log)
        BY DEF IInv, TypeOK
    <2> QED
        BY <1>1, <1>2, <2>1, StillMoved DEF SInv, Exclusive, Moved
<1>4. ASSUME NEW i \in b PROVE Open(KeyOf[i])'
    <2>1. PICK n \in Pending' : n = Len(log) + 1
        BY <1>2
    <2>2. Vouches(n, i)'
        BY <1>1, <2>1 DEF Vouches, IInv, TypeOK
    <2> QED
        BY <1>2, <2>1, <2>2 DEF Open
<1>5. ASSUME NEW k, Open(k) PROVE Open(k)'
    BY <1>1, <1>2, <1>5 DEF Open, Vouches, Pending
<1> QED
    BY <1>1, <1>3, <1>4, <1>5 DEF SInv, Secure, Keys, HasRow, RowFor, Reported

LEMMA UnitSInv ==
    ASSUME IInv, SInv, NEW w \in Worker, NEW i \in Item, Unit(w, i)
    PROVE  SInv'
<1>0. \A v \in Worker : job[v] # 0 => job[v] \in 1..Len(log)
    BY DEF IInv, TypeOK
<1>1. stage[w][i] # "idle" => /\ job[w] \in 1..Len(log)
                              /\ [retry |-> log[job[w]].retry + 1, payload |-> {i}] \in Envelope
    <2>1. ASSUME stage[w][i] # "idle" PROVE job[w] \in 1..Len(log) /\ log[job[w]] \in Envelope
        BY <1>0, <2>1 DEF IInv, TypeOK, Assigned
    <2> QED
        BY <2>1 DEF Envelope
<1>2. CASE Quiet(w, i)
    <2>1. PICK to \in {"requeueing", "settled"} :
             stage[w][i] \in {"queued", "requeueing"} /\ stage' = [stage EXCEPT ![w][i] = to]
        BY <1>2 DEF Quiet, Settles, Goto
    <2>2. /\ log' \in {log, Retried(w, i)}
          /\ UNCHANGED <<committed, job, posted, moved, status, content>>
          /\ reported \subseteq reported'
          /\ to = "settled" => HasRow(KeyOf[i]) \/ i \in reported' \/ log' = Retried(w, i)
        BY <1>2, <2>1 DEF Quiet, Settles, IInv, TypeOK
    <2>3. \E r \in Envelope : Retried(w, i) = Append(log, r) /\ r.payload = {i}
        BY <1>1, <2>1 DEF Retried
    <2>4. Exclusive'
        <3>1. \A n \in 1..Len(log) : log'[n] = log[n] /\ (n \in Pending => n \in Pending')
            BY <2>2, <2>3, Appended DEF Pending, IInv, TypeOK
        <3> QED
            BY <1>0, <2>2, <3>1, StillMoved DEF SInv, Exclusive, Moved
    <2>5. ASSUME log' = Retried(w, i) PROVE Open(KeyOf[i])'
        <3>1. PICK n \in Pending' : n = Len(log) + 1 /\ log'[n].payload = {i}
            <4>1. PICK r \in Envelope : log' = Append(log, r) /\ r.payload = {i}
                BY <2>3, <2>5
            <4>2. log \in Seq(Envelope) /\ committed \subseteq 1..Len(log) /\ Len(log) \in Nat
                BY DEF IInv, TypeOK
            <4>3. Len(log') = Len(log) + 1 /\ log'[Len(log) + 1].payload = {i}
                BY <4>1, <4>2, Appended
            <4>4. Len(log) + 1 \in (1..Len(log')) \ committed
                BY <4>2, <4>3
            <4> QED
                BY <2>2, <4>3, <4>4 DEF Pending
        <3>2. Vouches(n, i)'
            BY <2>2, <3>1 DEF Vouches, IInv, TypeOK
        <3> QED
            BY <3>1, <3>2 DEF Open
    <2>6. ASSUME NEW k, Open(k) PROVE (HasRow(k) \/ Reported(k) \/ Open(k))'
        <3>1. CASE to = "settled" /\ KeyOf[i] = k
            BY <2>2, <2>5, <3>1 DEF HasRow, RowFor, Reported
        <3>2. CASE to # "settled" \/ KeyOf[i] # k
            BY <2>1, <2>2, <2>3, <2>6, <3>2, StillOpen DEF SInv, Stage
        <3> QED
            BY <3>1, <3>2
    <2> QED
        BY <2>2, <2>4, <2>6 DEF SInv, Secure, Keys, HasRow, RowFor, Reported
<1>3. ASSUME NEW u \in Uuid, Insert(w, i, u) \/ LetsGo(w, i, u) PROVE SInv'
    <2>1. PICK to \in {"publishing", "requeueing", "settled"} : stage' = [stage EXCEPT ![w][i] = to]
        BY <1>3 DEF Insert, LetsGo, Settles, Process, Enter, Goto
    <2>2. /\ UNCHANGED <<log, committed, job, posted, moved>>
          /\ reported \subseteq reported'
          /\ status[u] = "none" /\ content' = [content EXCEPT ![u] = i]
          /\ \E s \in {"pending", "human-review"} : status' = [status EXCEPT ![u] = s]
        BY <1>3 DEF Insert, LetsGo, Settles, Store, topic, sinks, past, history
    <2>3. Exclusive'
        BY <2>2, StillMoved DEF SInv, Exclusive, Moved, Pending
    <2>4. HasRow(KeyOf[i])' /\ \A k : HasRow(k) => HasRow(k)'
        BY <2>2 DEF HasRow, RowFor, Stored, IInv, TypeOK
    <2>5. ASSUME NEW k \in Keys, Open(k), KeyOf[i] # k PROVE Open(k)'
        BY <2>1, <2>2, <2>5, StillOpen DEF SInv, Stage
    <2> QED
        BY <2>2, <2>3, <2>4, <2>5 DEF SInv, Secure, Keys, Reported
<1>4. CASE Acts(w, i)
    <2>1. /\ stage[w][i] \in {"publishing", "compensating"}
          /\ UNCHANGED <<log, committed, job, content, reported, posted, moved>>
        BY <1>4 DEF Acts, Publish, PublishUnreleased, PublishFails, Compensate, CompensateFails, Goto,
           topic, table, sinks, past, history
    <2>2. PICK to \in {"compensating", "requeueing", "settled"} :
             /\ stage' = [stage EXCEPT ![w][i] = to]
             /\ to = "settled" => status' = status
        BY <1>4 DEF Acts, Publish, PublishUnreleased, PublishFails, Compensate, CompensateFails, Goto, table
    <2>3. row[w][i] \in Uuid /\ status[row[w][i]] \in {"pending", "decided"} /\ content[row[w][i]] = i
        BY <2>1 DEF IInv, TypeOK, Holding, HeldRows
    <2>4. status' = status \/ status' = [status EXCEPT ![row[w][i]] = "deleted"]
        BY <1>4 DEF Acts, Publish, PublishUnreleased, PublishFails, Compensate, CompensateFails, DeletePending, table
    <2>5. Exclusive'
        BY <2>1, StillMoved DEF SInv, Exclusive, Moved, Pending
    <2>6. ASSUME NEW k, Open(k), to # "settled" \/ KeyOf[i] # k PROVE Open(k)'
        BY <2>1, <2>2, <2>6, StillOpen DEF SInv, Stage
    <2>7. ASSUME to = "settled" PROVE HasRow(KeyOf[i])'
        BY <2>1, <2>2, <2>3, <2>7 DEF HasRow, RowFor, Stored
    <2>8. ASSUME to # "settled", KeyOf[i] \notin moved PROVE Open(KeyOf[i])'
        BY <2>1, <2>6, <2>8, RunningIsOpen DEF SInv
    <2>9. ASSUME NEW k, HasRow(k), k # KeyOf[i] PROVE HasRow(k)'
        BY <2>1, <2>3, <2>4, <2>9 DEF HasRow, RowFor, IInv, TypeOK
    <2> QED
        BY <2>1, <2>5, <2>6, <2>7, <2>8, <2>9 DEF SInv, Secure, Keys, Reported
<1> QED
    BY <1>2, <1>3, <1>4, UnitKinds DEF IInv

LEMMA DecideSInv ==
    ASSUME IInv, SInv, NEW u \in Uuid, AgentDecides(u)
    PROVE  SInv' /\ \A k : Open(k) => Open(k)'
<1>1. /\ UNCHANGED <<log, committed, job, stage, content, reported, posted, moved>>
      /\ \A v \in Uuid : status[v] \in Stored => status'[v] \in Stored
    BY DEF AgentDecides, topic, units, sinks, past, history, Stored, IInv, TypeOK
<1>2. \A k : HasRow(k) => HasRow(k)'
    BY <1>1 DEF HasRow, RowFor
<1>3. \A k : Open(k) => Open(k)'
    BY <1>1 DEF Open, Vouches, Pending
<1> QED
    BY <1>1, <1>2, <1>3 DEF SInv, Exclusive, Moved, Secure, Keys, Reported, Pending

LEMMA SInductive == Spec => []SInv
<1>1. Init => SInv
    <2>1. Init => Keys = {}
        BY DEF Init, Keys
    <2> QED
        BY <2>1 DEF Init, SInv, Secure, Exclusive
<1>2. ASSUME IInv, SInv, [Next]_vars PROVE SInv'
    <2>1. CASE UNCHANGED vars
        <3>1. Exclusive'
            BY <1>2, <2>1 DEF vars, topic, units, past, history, SInv, Exclusive, Moved, Pending
        <3>2. /\ Keys' = Keys /\ moved' = moved
              /\ \A k : (HasRow(k)' <=> HasRow(k)) /\ (Reported(k)' <=> Reported(k))
            BY <2>1 DEF vars, table, sinks, past, history, Keys, HasRow, RowFor, Reported
        <3>3. \A k : Open(k) => Open(k)'
            BY <2>1 DEF vars, topic, units, Open, Vouches, Pending
        <3> QED
            BY <1>2, <3>1, <3>2, <3>3 DEF SInv, Secure
    <2> QED
        BY <1>2, <2>1, PostSInv, TakeSInv, LeaveSInv, UnitSInv, DecideSInv DEF Next
<1> QED
    BY <1>1, <1>2, Inductive, PTL DEF Spec

\* However many items, replicas, crashes, rebalances and lost acknowledgements
\* there are, a request that entered the topic is in it, in the table or in the
\* failure log, unless its own record was handed to a second replica.
THEOREM NoRequestLost == Spec => []NothingLost
<1>1. SInv => NothingLost
    BY DEF SInv, Secure, NothingLost, Open, Carries
<1> QED
    BY <1>1, SInductive, PTL

(***************************************************************************)
(* Orphaned rows.  No assumption on the faults: the only ways out of a unit *)
(* of work that leave its pending row unannounced are the recorded ones.    *)
(***************************************************************************)
LEMMA OrphansStep ==
    ASSUME IInv, OrphansHaveACause, [Next]_vars
    PROVE  OrphansHaveACause'
<1> USE DEF IInv, TypeOK
<1>1. ASSUME UNCHANGED <<row, status, published, cause>> PROVE OrphansHaveACause'
    BY <1>1 DEF OrphansHaveACause, Orphan, Held
<1>2. ASSUME NEW w \in Worker, Crash(w) PROVE OrphansHaveACause'
    <2>1. /\ row' = [row EXCEPT ![w] = [i \in Item |-> NoRow]]
          /\ UNCHANGED <<status, published>>
        BY <1>2 DEF Crash, Leave, table, sinks
    <2>2. ASSUME NEW u \in Uuid PROVE /\ (\E i \in Item : row[w][i] = u) => cause'[u] # "none"
                                      /\ cause[u] # "none" => cause'[u] # "none"
        BY <1>2 DEF Crash
    <2>3. ASSUME NEW u \in Uuid, Held(u), ~Held(u)' PROVE \E i \in Item : row[w][i] = u
        BY <2>1, <2>3 DEF Held
    <2> QED
        BY <2>1, <2>2, <2>3 DEF OrphansHaveACause, Orphan
<1>3. ASSUME NEW w \in Worker, Commit(w) PROVE OrphansHaveACause'
    <2>1. /\ UNCHANGED <<status, published, cause>>
          /\ row' = [row EXCEPT ![w] = [i \in Item |-> NoRow]]
        BY <1>3 DEF Commit, Leave, table, sinks, past, history
    <2>2. \A i \in Item : row[w][i] = NoRow
        BY <1>3 DEF Commit, Holding, Assigned
    <2>3. \A u \in Uuid : Held(u) => Held(u)'
        BY <2>1, <2>2, PublisherAssumption DEF Held, PublisherAssumption
    <2> QED
        BY <2>1, <2>3 DEF OrphansHaveACause, Orphan
<1>4. ASSUME NEW w \in Worker, NEW i \in Item, Unit(w, i) PROVE OrphansHaveACause'
    <2>1. CASE Quiet(w, i)
        BY <1>1, <2>1 DEF Quiet
    <2>2. ASSUME NEW u \in Uuid, LetsGo(w, i, u) PROVE OrphansHaveACause'
        <3>1. /\ row' = row /\ published' = published
              /\ \/ status' = [status EXCEPT ![u] = "pending"]
                    /\ cause' = [cause EXCEPT ![u] = "lost-commit"]
                 \/ status' = [status EXCEPT ![u] = "human-review"] /\ cause' = cause
            BY <2>2 DEF LetsGo, Store
        <3> QED
            BY <3>1 DEF OrphansHaveACause, Orphan, Held
    <2>3. ASSUME NEW u \in Uuid, Insert(w, i, u) PROVE OrphansHaveACause'
        <3>1. /\ stage[w][i] = "queued" /\ row' = [row EXCEPT ![w][i] = u]
              /\ status' = [status EXCEPT ![u] = "pending"]
              /\ UNCHANGED <<published, cause>>
            BY <2>3 DEF Insert, Process, Enter, Goto, Store, sinks, past, history
        <3>2. row[w][i] = NoRow
            BY <3>1 DEF Holding
        <3>3. Held(u)' /\ \A v \in Uuid : Held(v) => Held(v)'
            BY <3>1, <3>2, PublisherAssumption DEF Held, PublisherAssumption
        <3> QED
            BY <3>1, <3>3 DEF OrphansHaveACause, Orphan
    <2>4. CASE Acts(w, i)
        <3>1. row[w][i] \in Uuid
            BY <2>4 DEF Acts, Publish, PublishUnreleased, PublishFails, Compensate, CompensateFails, Goto, Holding
        <3>2. /\ row' = row \/ row' = [row EXCEPT ![w][i] = NoRow]
              /\ published \subseteq published'
              /\ status' = status \/ status' = [status EXCEPT ![row[w][i]] = "deleted"]
              /\ cause' = cause \/ cause' = [cause EXCEPT ![row[w][i]] = "delete-failed"]
            BY <2>4 DEF Acts, Publish, PublishUnreleased, PublishFails, Compensate, CompensateFails, DeletePending,
                        table, sinks, past, history
        <3>3. row' = row \/ status'[row[w][i]] # "pending" \/ row[w][i] \in published'
              \/ cause'[row[w][i]] # "none"
            BY <2>4, <3>1 DEF Acts, Publish, PublishUnreleased, PublishFails, Compensate, CompensateFails, DeletePending
        <3>4. \A v \in Uuid \ {row[w][i]} : Held(v) => Held(v)'
            <4>1. \A x \in Worker, j \in Item : row[x][j] # row[w][i] => row'[x][j] = row[x][j]
                <5>1. CASE row' = row
                    BY <5>1
                <5>2. CASE row' = [row EXCEPT ![w][i] = NoRow]
                    BY <5>2
                <5> QED
                    BY <3>2, <5>1, <5>2
            <4> QED
                BY <4>1 DEF Held
        <3>5. row' = row => \A v \in Uuid : Held(v) => Held(v)'
            BY DEF Held
        <3> QED
            BY <3>1, <3>2, <3>3, <3>4, <3>5 DEF OrphansHaveACause, Orphan
    <2> QED
        BY <1>4, <2>1, <2>2, <2>3, <2>4, UnitKinds
<1>5. ASSUME NEW u \in Uuid, AgentDecides(u) PROVE OrphansHaveACause'
    BY <1>5 DEF AgentDecides, units, sinks, past, history, OrphansHaveACause, Orphan, Held
<1>6. CASE (\E b \in Batch : Post(b)) \/ UNCHANGED vars
    BY <1>1, <1>6 DEF Post, vars, units, table, sinks, past, history
<1>7. ASSUME NEW w \in Worker, NEW n \in 1..Len(log), Consume(w, n) \/ Redeliver(w, n)
      PROVE  OrphansHaveACause'
    BY <1>1, <1>7 DEF Consume, Redeliver, Take, table, sinks
<1> QED
    BY <1>2, <1>3, <1>4, <1>5, <1>6, <1>7 DEF Next

\* Whatever fails, in whatever order, across any number of replicas and
\* rebalances: a pending row that nobody holds and no message announces was
\* left by a crash, a lost COMMIT acknowledgement or a failed delete.
THEOREM OrphansExplained == Spec => []OrphansHaveACause
<1>1. Init => OrphansHaveACause
    BY DEF Init, OrphansHaveACause, Orphan
<1>2. IInv /\ OrphansHaveACause /\ [Next]_vars => OrphansHaveACause'
    BY OrphansStep
<1> QED
    BY <1>1, <1>2, Inductive, PTL DEF Spec

\* No step of any replica, the compensating delete least of all, changes a row
\* the Agent has decided or one that was escalated.
THEOREM DecisionsSurvive == Spec => DecidedRowsSurvive
<1> DEFINE Survive == \A u \in Uuid :
               status[u] \in {"decided", "human-review"} => status'[u] = status[u]
<1>1. ASSUME IInv, [Next]_vars PROVE Survive
    <2> USE DEF IInv, TypeOK
    <2>1. CASE status' = status
        BY <2>1
    <2>2. ASSUME NEW u \in Uuid, status[u] = "none",
                 NEW s, status' = [status EXCEPT ![u] = s]
          PROVE  Survive
        BY <2>2
    <2>3. ASSUME NEW w \in Worker, NEW i \in Item, Unit(w, i) PROVE Survive
        <3>1. ASSUME NEW u \in Uuid, LetsGo(w, i, u) \/ Insert(w, i, u) PROVE Survive
            BY <2>2, <3>1 DEF LetsGo, Insert, Store
        <3>2. CASE Acts(w, i)
            <4>1. status' = status \/ DeletePending(row[w][i])
                BY <3>2 DEF Acts, Publish, PublishUnreleased, PublishFails, Compensate, CompensateFails, table
            <4> QED
                BY <1>1, <4>1 DEF DeletePending
        <3>3. CASE Quiet(w, i)
            BY <2>1, <3>3 DEF Quiet
        <3> QED
            BY <1>1, <2>3, <3>1, <3>2, <3>3, UnitKinds
    <2>4. ASSUME NEW u \in Uuid, AgentDecides(u) PROVE Survive
        BY <2>4 DEF AgentDecides
    <2>5. CASE \/ \E b \in Batch : Post(b)
               \/ \E w \in Worker : Commit(w) \/ Crash(w)
               \/ UNCHANGED vars
        BY <2>1, <2>5 DEF Post, Commit, Crash, vars, table
    <2>6. CASE \E w \in Worker, n \in 1..Len(log) : Consume(w, n) \/ Redeliver(w, n)
        BY <2>1, <2>6 DEF Consume, Redeliver, Take, table
    <2> QED
        BY <1>1, <2>3, <2>4, <2>5, <2>6 DEF Next
<1>2. IInv /\ [Next]_vars => [Survive]_vars
    BY <1>1
<1> QED
    BY <1>2, Inductive, PTL DEF Spec, DecidedRowsSurvive

(***************************************************************************)
(* SettledIsAnswered.  A dropped duplicate rests on somebody else's row:   *)
(* that row has been announced, or its own unit of work is still running   *)
(* and keeps the request open, or it is an orphan and has its cause, which *)
(* is a recorded fault or a reported compensating delete.                  *)
(***************************************************************************)
DeletesReported == \A u \in Uuid : cause[u] = "delete-failed" => u \in undeleted

LEMMA DeletesReportedAlways == Spec => []DeletesReported
<1>1. Init => DeletesReported
    BY DEF Init, DeletesReported
<1>2. ASSUME IInv, DeletesReported, [Next]_vars PROVE DeletesReported'
    <2> USE DEF IInv, TypeOK
    <2>1. ASSUME UNCHANGED <<cause, undeleted>> PROVE DeletesReported'
        BY <1>2, <2>1 DEF DeletesReported
    <2>2. ASSUME NEW w \in Worker, NEW i \in Item, Unit(w, i) PROVE DeletesReported'
        <3>1. CASE Quiet(w, i)
            BY <2>1, <3>1 DEF Quiet
        <3>2. ASSUME NEW u \in Uuid, Insert(w, i, u) \/ LetsGo(w, i, u) PROVE DeletesReported'
            BY <1>2, <3>2 DEF Insert, LetsGo, sinks, past, history, DeletesReported
        <3>3. CASE \/ Publish(w, i) \/ PublishUnreleased(w, i) \/ Compensate(w, i)
                   \/ \E flag \in BOOLEAN : PublishFails(w, i, flag)
            BY <2>1, <3>3 DEF Publish, PublishUnreleased, Compensate, PublishFails, sinks, past,
                history
        <3>4. ASSUME NEW flag \in BOOLEAN, CompensateFails(w, i, flag) PROVE DeletesReported'
            BY <1>2, <3>4 DEF CompensateFails, DeletesReported
        <3> QED
            BY <1>2, <2>2, <3>1, <3>2, <3>3, <3>4, UnitKinds DEF Acts
    <2>3. ASSUME NEW w \in Worker, Crash(w) PROVE DeletesReported'
        BY <1>2, <2>3 DEF Crash, sinks, DeletesReported
    <2>4. CASE \/ \E b \in Batch : Post(b)
               \/ \E w \in Worker : Commit(w)
               \/ \E u \in Uuid : AgentDecides(u)
               \/ UNCHANGED vars
        BY <2>1, <2>4 DEF Post, Commit, AgentDecides, vars, sinks, past, history
    <2>5. CASE \E w \in Worker, n \in 1..Len(log) : Consume(w, n) \/ Redeliver(w, n)
        BY <2>1, <2>5 DEF Consume, Redeliver, Take, sinks
    <2> QED
        BY <1>2, <2>2, <2>3, <2>4, <2>5 DEF Next
<1> QED
    BY <1>1, <1>2, Inductive, PTL DEF Spec

\* A request with a row that a unit of work still holds is open.
LEMMA HeldIsOpen ==
    ASSUME IInv, Exclusive, NEW k, k \notin moved, NEW u \in Uuid, RowFor(k, u), Held(u)
    PROVE  Open(k)
<1>1. PICK w \in Worker, i \in Item : row[w][i] = u
    BY DEF Held
<1>2. row[w][i] # NoRow
    BY <1>1, PublisherAssumption DEF PublisherAssumption
<1>3. KeyOf[i] = k /\ stage[w][i] \notin {"idle", "settled"}
    <2>1. content[row[w][i]] = i
        BY <1>2 DEF IInv, HeldRows
    <2>2. stage[w][i] \in {"publishing", "compensating"}
        BY <1>2 DEF IInv, Holding
    <2> QED
        BY <1>1, <2>1, <2>2 DEF RowFor
<1> QED
    BY <1>3, RunningIsOpen

\* Whatever fails, every request is queued, announced to the Agent, decided,
\* escalated or reported, unless a fault struck its own row or record: a dropped
\* duplicate and a committed offset never rest on work that is given up.
THEOREM RequestsAnswered == Spec => []SettledIsAnswered
<1>1. ASSUME IInv, SInv, OrphansHaveACause, DeletesReported PROVE SettledIsAnswered
    <2> SUFFICES ASSUME NEW k \in Keys \ moved
                 PROVE  Answered(k) \/ CutOff(k) \/ \E n \in Pending : Carries(n, k)
        BY DEF SettledIsAnswered, CutOff
    <2>1. CASE Reported(k) \/ Open(k)
        BY <2>1 DEF Answered, Open, Carries
    <2>2. ASSUME NEW u \in Uuid, RowFor(k, u), Held(u)
          PROVE  \E n \in Pending : Carries(n, k)
        BY <1>1, <2>2, HeldIsOpen DEF SInv, Open, Carries
    <2>3. ASSUME NEW u \in Uuid, RowFor(k, u), ~Held(u) PROVE Answered(k) \/ CutOff(k)
        <3>1. CASE status[u] # "pending" \/ u \in published \cup undeleted
            BY <2>3, <3>1 DEF Answered
        <3>2. CASE status[u] = "pending" /\ u \notin published \cup undeleted
            <4>1. cause[u] \in Cause \ {"none", "delete-failed"}
                BY <1>1, <2>3, <3>2 DEF OrphansHaveACause, Orphan, DeletesReported, IInv, TypeOK
            <4> QED
                BY <2>3, <4>1 DEF CutOff
        <3> QED
            BY <3>1, <3>2
    <2> QED
        BY <1>1, <2>1, <2>2, <2>3 DEF SInv, Secure, HasRow
<1> QED
    BY <1>1, Inductive, SInductive, OrphansExplained, DeletesReportedAlways, PTL

(***************************************************************************)
(* RetriesEnd, the ceiling.  It is tested when the unit of work starts and *)
(* the retry is counted when it ends, several steps later: what carries    *)
(* the test over is that a running unit's record has not reached it.       *)
(***************************************************************************)
Ceiling == \A n \in 1..Len(log) : log[n].retry <= MaxRetry + 1
RunsBelow == \A w \in Worker, i \in Item :
    stage[w][i] \in Running => log[job[w]].retry <= MaxRetry

LEMMA UnitBelow ==
    ASSUME IInv, RunsBelow, Ceiling, NEW w \in Worker, NEW i \in Item, Unit(w, i)
    PROVE  RunsBelow' /\ Ceiling'
<1> USE DEF IInv, TypeOK
<1>1. \/ log[job[w]].retry <= MaxRetry
      \/ stage' = [stage EXCEPT ![w][i] = "settled"] /\ log' = log
    <2>1. CASE \/ InsertDuplicate(w, i) \/ InsertFails(w, i)
               \/ \E u \in Uuid : Insert(w, i, u) \/ InsertCommitLost(w, i, u)
        BY <2>1 DEF InsertDuplicate, InsertFails, Insert, InsertCommitLost, Process
    <2>2. CASE \/ Publish(w, i) \/ PublishUnreleased(w, i) \/ Compensate(w, i) \/ Requeue(w, i)
               \/ \E flag \in BOOLEAN : \/ PublishFails(w, i, flag)
                                        \/ CompensateFails(w, i, flag)
                                        \/ RequeueFails(w, i, flag)
        <3>1. stage[w][i] \in Running
            BY <2>2 DEF Publish, PublishUnreleased, Compensate, Requeue, PublishFails, CompensateFails, RequeueFails,
               Goto, Running
        <3> QED
            BY <3>1 DEF RunsBelow
    <2>3. CASE \/ Reject(w, i) \/ EscalateDuplicate(w, i) \/ EscalateFails(w, i)
               \/ \E u \in Uuid : Escalate(w, i, u) \/ EscalateCommitLost(w, i, u)
        BY <2>3 DEF Reject, EscalateDuplicate, EscalateFails, Escalate, EscalateCommitLost,
           Escalating, Enter, Goto, topic
    <2> QED
        BY <2>1, <2>2, <2>3, Unit(w, i) DEF Unit
<1>2. /\ stage[w][i] # "idle" /\ job' = job
      /\ \E to \in Stage : stage' = [stage EXCEPT ![w][i] = to]
      /\ log' \in {log, Retried(w, i)}
    <2>1. CASE Quiet(w, i)
        BY <2>1 DEF Quiet, Settles, Goto, Stage
    <2>2. ASSUME NEW u \in Uuid, LetsGo(w, i, u) \/ Insert(w, i, u) PROVE <1>2!:
        BY <2>2 DEF LetsGo, Settles, Insert, Process, Enter, Goto, Stage, topic
    <2>3. CASE Acts(w, i)
        BY <2>3 DEF Acts, Publish, PublishUnreleased, Compensate, PublishFails, CompensateFails, Goto, Stage, topic
    <2> QED
        BY <2>1, <2>2, <2>3, UnitKinds
<1>3. /\ job[w] \in 1..Len(log) /\ log[job[w]] \in Envelope
      /\ \A n \in 1..Len(log) : log[n] \in Envelope
    BY <1>2 DEF Assigned
<1>4. [retry |-> log[job[w]].retry + 1, payload |-> {i}] \in Envelope
    BY <1>3 DEF Envelope
<1>5. log' # log => /\ Len(log') = Len(log) + 1 /\ \A n \in 1..Len(log) : log'[n] = log[n]
                    /\ log'[Len(log) + 1].retry = log[job[w]].retry + 1
    <2>1. log \in Seq(Envelope)
        OBVIOUS
    <2> QED
        BY <1>2, <1>4, <2>1, Appended DEF Retried
<1>6. Ceiling'
    <2>1. CASE log' = log
        BY <2>1 DEF Ceiling
    <2>2. CASE log' = Retried(w, i) /\ log' # log
        <3>1. log[job[w]].retry <= MaxRetry /\ log[job[w]].retry \in Nat
            BY <1>1, <1>3, <2>2 DEF Envelope
        <3>2. SUFFICES ASSUME NEW n \in 1..Len(log') PROVE log'[n].retry <= MaxRetry + 1
            BY DEF Ceiling
        <3>3. n \in 1..Len(log) \/ n = Len(log) + 1
            BY <1>5, <2>2
        <3>4. CASE n \in 1..Len(log)
            BY <1>5, <2>2, <3>4 DEF Ceiling
        <3>5. CASE n = Len(log) + 1
            BY <1>5, <2>2, <3>1, <3>5, PublisherAssumption DEF PublisherAssumption
        <3> QED
            BY <3>3, <3>4, <3>5
    <2> QED
        BY <1>2, <2>1, <2>2
<1>7. RunsBelow'
    <2> SUFFICES ASSUME NEW v \in Worker, NEW j \in Item, stage'[v][j] \in Running
                 PROVE  log'[job'[v]].retry <= MaxRetry
        BY DEF RunsBelow
    <2>1. CASE v = w /\ j = i
        BY <1>1, <1>2, <1>3, <1>5, <2>1 DEF Running
    <2>2. CASE ~(v = w /\ j = i)
        <3>1. stage[v][j] \in Running
            BY <1>2, <2>2
        <3>2. job[v] \in 1..Len(log)
            BY <3>1 DEF Assigned, Running
        <3> QED
            BY <1>2, <1>5, <3>1, <3>2 DEF RunsBelow
    <2> QED
        BY <2>1, <2>2
<1> QED
    BY <1>6, <1>7

LEMMA CeilingHolds == Spec => []Ceiling
<1>1. Init => RunsBelow /\ Ceiling
    BY DEF Init, RunsBelow, Ceiling, Running
<1>2. ASSUME IInv, RunsBelow, Ceiling, [Next]_vars PROVE RunsBelow' /\ Ceiling'
    <2> USE DEF IInv, TypeOK
    <2>1. ASSUME log' = log, \A w \in Worker, i \in Item :
                     stage'[w][i] \in Running => stage'[w][i] = stage[w][i] /\ job'[w] = job[w]
          PROVE  RunsBelow' /\ Ceiling'
        BY <1>2, <2>1 DEF RunsBelow, Ceiling
    <2>2. ASSUME NEW w \in Worker, NEW n \in 1..Len(log), Consume(w, n) \/ Redeliver(w, n)
          PROVE  RunsBelow' /\ Ceiling'
        <3>1. /\ log' = log /\ \A v \in Worker \ {w} : job'[v] = job[v] /\ stage'[v] = stage[v]
              /\ \A i \in Item : stage'[w][i] \in {"queued", "idle"}
            BY <1>2, <2>2 DEF Consume, Redeliver, Take, topic
        <3> QED
            BY <2>1, <3>1 DEF Running
    <2>3. ASSUME NEW w \in Worker, Commit(w) \/ Crash(w) PROVE RunsBelow' /\ Ceiling'
        <3>1. /\ log' = log /\ \A v \in Worker \ {w} : job'[v] = job[v] /\ stage'[v] = stage[v]
              /\ \A i \in Item : stage'[w][i] = "idle"
            BY <1>2, <2>3 DEF Commit, Crash, Leave, topic
        <3> QED
            BY <2>1, <3>1 DEF Running
    <2>4. ASSUME NEW b \in Batch, Post(b) PROVE RunsBelow' /\ Ceiling'
        <3>1. [retry |-> 0, payload |-> b] \in Envelope
            BY PublisherAssumption DEF PublisherAssumption, Envelope
        <3>2. /\ Len(log') = Len(log) + 1 /\ log'[Len(log) + 1].retry = 0
              /\ \A n \in 1..Len(log) : log'[n] = log[n]
            BY <2>4, <3>1, Appended DEF Post
        <3>3. Ceiling'
            <4> SUFFICES ASSUME NEW n \in 1..Len(log') PROVE log'[n].retry <= MaxRetry + 1
                BY DEF Ceiling
            <4>1. CASE n \in 1..Len(log)
                BY <1>2, <3>2, <4>1 DEF Ceiling
            <4>2. CASE n = Len(log) + 1
                BY <3>2, <4>2, PublisherAssumption DEF PublisherAssumption
            <4> QED
                BY <3>2, <4>1, <4>2
        <3>4. \A w \in Worker, i \in Item : stage[w][i] \in Running => job[w] \in 1..Len(log)
            BY <1>2 DEF Assigned, Running
        <3>5. RunsBelow'
            BY <1>2, <2>4, <3>2, <3>4 DEF Post, units, RunsBelow
        <3> QED
            BY <3>3, <3>5
    <2>5. CASE (\E u \in Uuid : AgentDecides(u)) \/ UNCHANGED vars
        BY <2>1, <2>5 DEF AgentDecides, vars, topic, units
    <2> QED
        BY <1>2, <2>2, <2>3, <2>4, <2>5, UnitBelow DEF Next
<1> QED
    BY <1>1, <1>2, Inductive, PTL DEF Spec

(***************************************************************************)
(* RetriesEnd, the copies.  A record that carries the item pays for one    *)
(* requeue: by one that is on the topic, by a unit of work that has not    *)
(* settled, or by waiting to be consumed.  A crash and a rebalance, which  *)
(* start a unit of work again, pay for one more each.                      *)
(***************************************************************************)
Runs(i, c) == {w \in Worker : job[w] \in Copies(i, c) /\ stage[w][i] # "settled"}
Waits(i, c) == {n \in Copies(i, c) \ committed : \A w \in Worker : job[w] # n}
Budget(i, c) ==
    /\ IsFiniteSet(Runs(i, c))
    /\ Cardinality(Copies(i, c + 1)) + Cardinality(Runs(i, c)) + Cardinality(Waits(i, c))
          <= Cardinality(Copies(i, c)) + Restarts
Budgets == \A i \in Item, c \in Nat : Budget(i, c)

LEMMA AtMostOneMore ==
    ASSUME NEW S, NEW T, NEW x, IsFiniteSet(S), T \subseteq S \cup {x}
    PROVE  /\ IsFiniteSet(T) /\ Cardinality(T) \in Nat
           /\ Cardinality(T) <= Cardinality(S) + 1
<1>1. /\ IsFiniteSet(S \cup {x})
      /\ Cardinality(S \cup {x}) = Cardinality(S) \/ Cardinality(S \cup {x}) = Cardinality(S) + 1
    BY FS_AddElement
<1>2. IsFiniteSet(T) /\ Cardinality(T) <= Cardinality(S \cup {x})
    BY <1>1, FS_Subset
<1>3. Cardinality(S) \in Nat /\ Cardinality(T) \in Nat
    BY <1>2, FS_CardinalityType
<1> QED
    BY <1>1, <1>2, <1>3

LEMMA OneLess ==
    ASSUME NEW S, NEW T, NEW x \in S, IsFiniteSet(S), T \subseteq S \ {x}
    PROVE  /\ IsFiniteSet(T) /\ Cardinality(T) \in Nat
           /\ Cardinality(T) <= Cardinality(S) - 1
<1>1. IsFiniteSet(S \ {x}) /\ Cardinality(S \ {x}) = Cardinality(S) - 1
    BY FS_RemoveElement
<1>2. IsFiniteSet(T) /\ Cardinality(T) <= Cardinality(S \ {x})
    BY <1>1, FS_Subset
<1>3. Cardinality(T) \in Nat
    BY <1>2, FS_CardinalityType
<1> QED
    BY <1>1, <1>2, <1>3

LEMMA NoMore ==
    ASSUME NEW S, NEW T, IsFiniteSet(S), T \subseteq S
    PROVE  /\ IsFiniteSet(T) /\ Cardinality(T) \in Nat /\ Cardinality(S) \in Nat
           /\ Cardinality(T) <= Cardinality(S)
<1>1. IsFiniteSet(T) /\ Cardinality(T) <= Cardinality(S)
    BY FS_Subset
<1> QED
    BY <1>1, FS_CardinalityType

LEMMA CopiesFinite ==
    ASSUME TypeOK, NEW i, NEW c
    PROVE  /\ IsFiniteSet(Copies(i, c)) /\ Cardinality(Copies(i, c)) \in Nat
           /\ IsFiniteSet(Waits(i, c)) /\ Cardinality(Waits(i, c)) \in Nat
<1>1. Len(log) \in Nat
    BY DEF TypeOK
<1>2. IsFiniteSet(1..Len(log))
    BY <1>1, FS_Interval
<1>3. Copies(i, c) \subseteq 1..Len(log) /\ Waits(i, c) \subseteq 1..Len(log)
    BY DEF Copies, Waits
<1> QED
    BY <1>2, <1>3, NoMore

LEMMA RestartsCounted == ASSUME TypeOK PROVE Restarts \in Nat
BY DEF TypeOK, Restarts, Fault

\* The ways a step may change who pays: nobody new; a record is consumed, or handed
\* out again; a unit of work is cut off; a record arrives; an item is requeued.
Frees(i, c) ==
    /\ Copies(i, c)' = Copies(i, c) /\ Copies(i, c + 1)' = Copies(i, c + 1)
    /\ Runs(i, c)' \subseteq Runs(i, c) /\ Waits(i, c)' \subseteq Waits(i, c)
    /\ Restarts' = Restarts
Starts(i, c) ==
    /\ Copies(i, c)' = Copies(i, c) /\ Copies(i, c + 1)' = Copies(i, c + 1)
    /\ \E w : Runs(i, c)' \subseteq Runs(i, c) \cup {w}
    /\ \/ Restarts' = Restarts /\ \E n \in Waits(i, c) : Waits(i, c)' \subseteq Waits(i, c) \ {n}
       \/ Restarts' = Restarts + 1 /\ Waits(i, c)' \subseteq Waits(i, c)
CutsOff(i, c) ==
    /\ Copies(i, c)' = Copies(i, c) /\ Copies(i, c + 1)' = Copies(i, c + 1)
    /\ Runs(i, c)' \subseteq Runs(i, c)
    /\ \E n : Waits(i, c)' \subseteq Waits(i, c) \cup {n}
    /\ Restarts' = Restarts + 1
Arrives(i, c) ==
    /\ \E n : /\ n \notin Copies(i, c) /\ Copies(i, c)' = Copies(i, c) \cup {n}
              /\ Waits(i, c)' \subseteq Waits(i, c) \cup {n}
    /\ Copies(i, c + 1)' = Copies(i, c + 1)
    /\ Runs(i, c)' \subseteq Runs(i, c)
    /\ Restarts' = Restarts
Requeued(i, c) ==
    /\ Copies(i, c)' = Copies(i, c)
    /\ \E n : Copies(i, c + 1)' \subseteq Copies(i, c + 1) \cup {n}
    /\ \E w \in Runs(i, c) : Runs(i, c)' \subseteq Runs(i, c) \ {w}
    /\ Waits(i, c)' \subseteq Waits(i, c)
    /\ Restarts' = Restarts

LEMMA BudgetKept ==
    ASSUME TypeOK, NEW i, NEW c, Budget(i, c),
           \/ Frees(i, c) \/ Starts(i, c) \/ CutsOff(i, c) \/ Arrives(i, c) \/ Requeued(i, c)
    PROVE  Budget(i, c)'
<1> DEFINE C == Copies(i, c)       D == Copies(i, c + 1)
           R == Runs(i, c)         W == Waits(i, c)
<1>1. /\ IsFiniteSet(C) /\ IsFiniteSet(D) /\ IsFiniteSet(R) /\ IsFiniteSet(W)
      /\ Cardinality(D) + Cardinality(R) + Cardinality(W) <= Cardinality(C) + Restarts
      /\ Restarts \in Nat
    BY CopiesFinite, RestartsCounted DEF Budget
<1>2. /\ Cardinality(C) \in Nat /\ Cardinality(D) \in Nat
      /\ Cardinality(R) \in Nat /\ Cardinality(W) \in Nat
    BY <1>1, FS_CardinalityType
<1>3. SUFFICES /\ IsFiniteSet(R')
               /\ Cardinality(D') + Cardinality(R') + Cardinality(W') <= Cardinality(C') + Restarts'
    BY DEF Budget
<1> HIDE DEF C, D, R, W
<1>4. CASE Frees(i, c)
    <2>1. /\ C' = C /\ D' = D /\ R' \subseteq R /\ W' \subseteq W /\ Restarts' = Restarts
        BY <1>4 DEF Frees, C, D, R, W
    <2>2. IsFiniteSet(R') /\ Cardinality(R') \in Nat /\ Cardinality(R') <= Cardinality(R)
        BY <1>1, <2>1, NoMore
    <2>3. Cardinality(W') \in Nat /\ Cardinality(W') <= Cardinality(W)
        BY <1>1, <2>1, NoMore
    <2> QED
        BY <1>1, <1>2, <2>1, <2>2, <2>3
<1>5. CASE Starts(i, c)
    <2>1. C' = C /\ D' = D
        BY <1>5 DEF Starts, C, D
    <2>2. PICK w : R' \subseteq R \cup {w}
        BY <1>5 DEF Starts, R
    <2>3. IsFiniteSet(R') /\ Cardinality(R') \in Nat /\ Cardinality(R') <= Cardinality(R) + 1
        BY <1>1, <2>2, AtMostOneMore
    <2>4. CASE Restarts' = Restarts /\ \E n \in W : W' \subseteq W \ {n}
        <3>1. Cardinality(W') \in Nat /\ Cardinality(W') <= Cardinality(W) - 1
            BY <1>1, <2>4, OneLess
        <3> QED
            BY <1>1, <1>2, <2>1, <2>3, <2>4, <3>1
    <2>5. CASE Restarts' = Restarts + 1 /\ W' \subseteq W
        <3>1. Cardinality(W') \in Nat /\ Cardinality(W') <= Cardinality(W)
            BY <1>1, <2>5, NoMore
        <3> QED
            BY <1>1, <1>2, <2>1, <2>3, <2>5, <3>1
    <2> QED
        BY <1>5, <2>4, <2>5 DEF Starts, W
<1>6. CASE CutsOff(i, c)
    <2>1. C' = C /\ D' = D /\ R' \subseteq R /\ Restarts' = Restarts + 1
        BY <1>6 DEF CutsOff, C, D, R
    <2>2. PICK n : W' \subseteq W \cup {n}
        BY <1>6 DEF CutsOff, W
    <2>3. Cardinality(W') \in Nat /\ Cardinality(W') <= Cardinality(W) + 1
        BY <1>1, <2>2, AtMostOneMore
    <2>4. IsFiniteSet(R') /\ Cardinality(R') \in Nat /\ Cardinality(R') <= Cardinality(R)
        BY <1>1, <2>1, NoMore
    <2> QED
        BY <1>1, <1>2, <2>1, <2>3, <2>4
<1>7. CASE Arrives(i, c)
    <2>1. D' = D /\ R' \subseteq R /\ Restarts' = Restarts
        BY <1>7 DEF Arrives, D, R
    <2>2. PICK n : n \notin C /\ C' = C \cup {n} /\ W' \subseteq W \cup {n}
        BY <1>7 DEF Arrives, C, W
    <2>3. Cardinality(C') = Cardinality(C) + 1
        BY <1>1, <2>2, FS_AddElement
    <2>4. Cardinality(W') \in Nat /\ Cardinality(W') <= Cardinality(W) + 1
        BY <1>1, <2>2, AtMostOneMore
    <2>5. IsFiniteSet(R') /\ Cardinality(R') \in Nat /\ Cardinality(R') <= Cardinality(R)
        BY <1>1, <2>1, NoMore
    <2> QED
        BY <1>1, <1>2, <2>1, <2>3, <2>4, <2>5
<1>8. CASE Requeued(i, c)
    <2>1. C' = C /\ W' \subseteq W /\ Restarts' = Restarts
        BY <1>8 DEF Requeued, C, W
    <2>2. PICK n : D' \subseteq D \cup {n}
        BY <1>8 DEF Requeued, D
    <2>3. PICK w \in R : R' \subseteq R \ {w}
        BY <1>8 DEF Requeued, R
    <2>4. Cardinality(D') \in Nat /\ Cardinality(D') <= Cardinality(D) + 1
        BY <1>1, <2>2, AtMostOneMore
    <2>5. IsFiniteSet(R') /\ Cardinality(R') \in Nat /\ Cardinality(R') <= Cardinality(R) - 1
        BY <1>1, <2>3, OneLess
    <2>6. Cardinality(W') \in Nat /\ Cardinality(W') <= Cardinality(W)
        BY <1>1, <2>1, NoMore
    <2> QED
        BY <1>1, <1>2, <2>1, <2>4, <2>5, <2>6
<1> QED
    BY <1>4, <1>5, <1>6, <1>7, <1>8

LEMMA CopiesAppended ==
    ASSUME TypeOK, NEW r \in Envelope, log' = Append(log, r), NEW i, NEW c
    PROVE  /\ Copies(i, c)' = IF r.retry = c /\ i \in r.payload
                              THEN Copies(i, c) \cup {Len(log) + 1} ELSE Copies(i, c)
           /\ Len(log) + 1 \notin Copies(i, c)
<1>1. log \in Seq(Envelope) /\ Len(log) \in Nat
    BY DEF TypeOK
<1>2. /\ Len(log') = Len(log) + 1 /\ log'[Len(log) + 1] = r
      /\ \A n \in 1..Len(log) : log'[n] = log[n]
    BY <1>1, Appended
<1>3. 1..Len(log') = 1..Len(log) \cup {Len(log) + 1} /\ Len(log) + 1 \notin 1..Len(log)
    BY <1>1, <1>2
<1> QED
    BY <1>2, <1>3 DEF Copies

LEMMA BudgetAfterPost ==
    ASSUME IInv, NEW b \in Batch, Post(b), NEW i \in Item, NEW c \in Nat
    PROVE  Frees(i, c) \/ Arrives(i, c)
<1> USE DEF IInv, TypeOK
<1>1. [retry |-> 0, payload |-> b] \in Envelope
    BY PublisherAssumption DEF PublisherAssumption, Envelope
<1>2. /\ log' = Append(log, [retry |-> 0, payload |-> b])
      /\ committed' = committed /\ job' = job /\ stage' = stage /\ faults' = faults
    BY DEF Post, units
<1>3. /\ Copies(i, c)' = IF 0 = c /\ i \in b THEN Copies(i, c) \cup {Len(log) + 1} ELSE Copies(i, c)
      /\ Copies(i, c + 1)' = Copies(i, c + 1)
      /\ Len(log) + 1 \notin Copies(i, c)
    <2> DEFINE r == [retry |-> 0, payload |-> b]
    <2>1. r.retry = 0 /\ r.payload = b /\ r \in Envelope /\ log' = Append(log, r)
        BY <1>1, <1>2
    <2> HIDE DEF r
    <2>2. \A d : /\ Copies(i, d)' = IF r.retry = d /\ i \in r.payload
                                   THEN Copies(i, d) \cup {Len(log) + 1} ELSE Copies(i, d)
                 /\ Len(log) + 1 \notin Copies(i, d)
        BY <2>1, CopiesAppended
    <2>3. c + 1 # 0
        OBVIOUS
    <2> QED
        BY <2>1, <2>2, <2>3
<1>4. \A w \in Worker : job[w] # Len(log) + 1
    OBVIOUS
<1>5. Runs(i, c)' \subseteq Runs(i, c)
    BY <1>2, <1>3, <1>4 DEF Runs
<1>6. CASE 0 = c /\ i \in b
    BY <1>2, <1>3, <1>5, <1>6 DEF Arrives, Waits, Restarts
<1>7. CASE ~(0 = c /\ i \in b)
    BY <1>2, <1>3, <1>5, <1>7 DEF Frees, Waits, Restarts
<1> QED
    BY <1>6, <1>7

LEMMA BudgetAfterTake ==
    ASSUME IInv, NEW w \in Worker, NEW n \in 1..Len(log), Consume(w, n) \/ Redeliver(w, n),
           NEW i \in Item, NEW c \in Nat
    PROVE  Frees(i, c) \/ Starts(i, c)
<1> USE DEF IInv, TypeOK
<1>1. /\ job[w] = 0 /\ n \notin committed /\ job' = [job EXCEPT ![w] = n]
      /\ \A v \in Worker \ {w} : stage'[v] = stage[v]
      /\ log' = log /\ committed' = committed
    BY DEF Consume, Redeliver, Take, Pending, topic
<1>2. \A d : Copies(i, d)' = Copies(i, d) /\ 0 \notin Copies(i, d)
    BY <1>1 DEF Copies
<1>3. Runs(i, c)' \subseteq Runs(i, c) \cup {w} /\ (n \notin Copies(i, c) => Runs(i, c)' \subseteq Runs(i, c))
    BY <1>1, <1>2 DEF Runs
<1>4. Waits(i, c)' \subseteq Waits(i, c) \ {n}
    BY <1>1, <1>2 DEF Waits
<1>5. CASE Consume(w, n)
    <2>1. Restarts' = Restarts /\ (\A v \in Worker : job[v] # n)
        BY <1>5 DEF Consume, Restarts
    <2>2. CASE n \in Copies(i, c)
        <3>1. n \in Waits(i, c)
            BY <1>1, <2>1, <2>2 DEF Waits
        <3> QED
            BY <1>2, <1>3, <1>4, <2>1, <3>1 DEF Starts
    <2>3. CASE n \notin Copies(i, c)
        BY <1>2, <1>3, <1>4, <2>1, <2>3 DEF Frees
    <2> QED
        BY <2>2, <2>3
<1>6. CASE Redeliver(w, n)
    <2>1. Restarts' = Restarts + 1
        BY <1>6 DEF Redeliver, Strike, Restarts, Fault
    <2> QED
        BY <1>2, <1>3, <1>4, <2>1 DEF Starts
<1> QED
    BY <1>5, <1>6

LEMMA BudgetAfterLeave ==
    ASSUME IInv, NEW w \in Worker, Commit(w) \/ Crash(w), NEW i \in Item, NEW c \in Nat
    PROVE  Frees(i, c) \/ CutsOff(i, c)
<1> USE DEF IInv, TypeOK
<1>1. /\ job' = [job EXCEPT ![w] = 0] /\ log' = log
      /\ \A v \in Worker \ {w} : stage'[v] = stage[v]
    BY DEF Commit, Crash, Leave, topic
<1>2. \A d : Copies(i, d)' = Copies(i, d) /\ 0 \notin Copies(i, d)
    BY <1>1 DEF Copies
<1>3. Runs(i, c)' \subseteq Runs(i, c)
    BY <1>1, <1>2 DEF Runs
<1>4. CASE Commit(w)
    <2>1. committed' = committed \cup {job[w]} /\ faults' = faults
        BY <1>4 DEF Commit, history
    <2>2. Waits(i, c)' \subseteq Waits(i, c)
        BY <1>1, <1>2, <2>1 DEF Waits
    <2> QED
        BY <1>2, <1>3, <2>1, <2>2 DEF Frees, Restarts
<1>5. CASE Crash(w)
    <2>1. committed' = committed /\ Restarts' = Restarts + 1
        BY <1>5 DEF Crash, Strike, Restarts, Fault, topic
    <2>2. Waits(i, c)' \subseteq Waits(i, c) \cup {job[w]}
        BY <1>1, <1>2, <2>1 DEF Waits
    <2> QED
        BY <1>2, <1>3, <2>1, <2>2 DEF CutsOff
<1> QED
    BY <1>4, <1>5

\* No step of a unit of work starts another again.
LEMMA UnitRestartsNothing ==
    ASSUME TypeOK, NEW w \in Worker, NEW j \in Item, Unit(w, j)
    PROVE  Restarts' = Restarts
<1>1. SUFFICES \/ faults' = faults
               \/ Strike("lost-commit") \/ Strike("false-negative")
    BY DEF Strike, Restarts, TypeOK, Fault
<1>2. CASE \/ \E flag \in BOOLEAN : \/ PublishFails(w, j, flag) \/ CompensateFails(w, j, flag)
                                    \/ RequeueFails(w, j, flag)
           \/ PublishUnreleased(w, j)
    BY <1>2 DEF PublishFails, CompensateFails, RequeueFails, PublishUnreleased, Fails
<1>3. CASE \E u \in Uuid : \/ Insert(w, j, u) \/ InsertCommitLost(w, j, u)
                           \/ Escalate(w, j, u) \/ EscalateCommitLost(w, j, u)
    BY <1>3 DEF Insert, InsertCommitLost, Escalate, EscalateCommitLost, history
<1>4. CASE \/ Reject(w, j) \/ InsertDuplicate(w, j) \/ InsertFails(w, j)
           \/ Publish(w, j) \/ Compensate(w, j) \/ Requeue(w, j)
           \/ EscalateDuplicate(w, j) \/ EscalateFails(w, j)
    BY <1>4 DEF Reject, InsertDuplicate, InsertFails, Publish, Compensate, Requeue,
       EscalateDuplicate, EscalateFails, history
<1> QED
    BY <1>2, <1>3, <1>4, Unit(w, j) DEF Unit

\* A unit of work appends to the topic as it settles, and only then.
Progress(w, j) ==
    /\ stage[w][j] \notin {"idle", "settled"} /\ job' = job /\ committed' = committed
    /\ \E to : /\ stage' = [stage EXCEPT ![w][j] = to]
               /\ log' = log \/ (log' = Retried(w, j) /\ to = "settled")

LEMMA UnitProgress ==
    ASSUME TypeOK, NEW w \in Worker, NEW j \in Item, Unit(w, j)
    PROVE  Progress(w, j)
<1> USE DEF Progress
<1>1. CASE Quiet(w, j)
    BY <1>1 DEF Quiet, Settles, Goto
<1>2. ASSUME NEW u \in Uuid, LetsGo(w, j, u) \/ Insert(w, j, u) PROVE Progress(w, j)
    BY <1>2 DEF LetsGo, Settles, Insert, Process, Enter, Goto, topic
<1>3. CASE Acts(w, j)
    BY <1>3 DEF Acts, Publish, PublishUnreleased, Compensate, PublishFails, CompensateFails, Goto, topic
<1> QED
    BY <1>1, <1>2, <1>3, UnitKinds

LEMMA BudgetAfterUnit ==
    ASSUME IInv, NEW w \in Worker, NEW j \in Item, Unit(w, j), NEW i \in Item, NEW c \in Nat
    PROVE  Frees(i, c) \/ Arrives(i, c) \/ Requeued(i, c)
<1> USE DEF IInv, TypeOK
<1>1. Restarts' = Restarts
    BY UnitRestartsNothing
<1>2. /\ stage[w][j] \notin {"idle", "settled"} /\ job' = job /\ committed' = committed
      /\ \E to : /\ stage' = [stage EXCEPT ![w][j] = to]
                 /\ log' = log \/ (log' = Retried(w, j) /\ to = "settled")
    BY UnitProgress DEF Progress
<1>3. /\ job[w] \in 1..Len(log) /\ j \in log[job[w]].payload /\ log[job[w]].retry \in Nat
    <2>1. job[w] # 0 /\ j \in log[job[w]].payload
        BY <1>2 DEF Assigned
    <2>2. job[w] \in 1..Len(log)
        BY <2>1
    <2>3. log[job[w]] \in Envelope
        BY <2>2
    <2> QED
        BY <2>1, <2>2, <2>3 DEF Envelope
<1>4. \A v \in Worker, k \in Item : stage'[v][k] # "settled" => stage[v][k] # "settled"
    BY <1>2
<1>5. CASE log' = log
    <2>1. \A d : Copies(i, d)' = Copies(i, d)
        BY <1>5 DEF Copies
    <2>2. Runs(i, c)' \subseteq Runs(i, c) /\ Waits(i, c)' \subseteq Waits(i, c)
        BY <1>2, <1>4, <2>1 DEF Runs, Waits
    <2> QED
        BY <1>1, <2>1, <2>2 DEF Frees
<1>6. CASE log' = Retried(w, j) /\ stage' = [stage EXCEPT ![w][j] = "settled"]
    <2> DEFINE r == [retry |-> log[job[w]].retry + 1, payload |-> {j}]
    <2>1. r \in Envelope /\ log' = Append(log, r)
        BY <1>3, <1>6 DEF Envelope, Retried
    <2>2. \A d : /\ Copies(i, d)' = IF r.retry = d /\ i \in r.payload
                                   THEN Copies(i, d) \cup {Len(log) + 1} ELSE Copies(i, d)
                 /\ Len(log) + 1 \notin Copies(i, d)
        BY <2>1, CopiesAppended
    <2>3. r.retry = log[job[w]].retry + 1 /\ r.payload = {j}
        OBVIOUS
    <2> HIDE DEF r
    <2>4. \A v \in Worker : job[v] # Len(log) + 1
        OBVIOUS
    <2>9. ASSUME NEW v \in Worker, job'[v] \in Copies(i, c)' PROVE job[v] \in Copies(i, c)
        <3>1. job' = job
            BY <1>2
        <3>2. job[v] \in Copies(i, c)'
            BY <2>9, <3>1, Zenon
        <3>3. Copies(i, c)' = Copies(i, c) \/ Copies(i, c)' = Copies(i, c) \cup {Len(log) + 1}
            BY <2>2, Zenon
        <3>4. job[v] # Len(log) + 1
            BY <2>4
        <3> HIDE DEF IInv, TypeOK
        <3> QED
            BY <3>2, <3>3, <3>4, Zenon
    <2>5. Runs(i, c)' \subseteq Runs(i, c)
        BY <1>4, <2>9 DEF Runs
    <2>6. CASE i # j
        BY <1>1, <1>2, <2>2, <2>3, <2>5, <2>6 DEF Frees, Waits
    <2>7. CASE i = j /\ log[job[w]].retry = c
        <3>1. Copies(i, c)' = Copies(i, c) /\ Copies(i, c + 1)' = Copies(i, c + 1) \cup {Len(log) + 1}
            BY <2>2, <2>3, <2>7
        <3>2. w \in Runs(i, c)
            BY <1>2, <1>3, <2>7 DEF Runs, Copies
        <3>3. stage'[w][i] = "settled"
            BY <1>6, <2>7
        <3>4. Runs(i, c)' \subseteq Runs(i, c) \ {w}
            BY <2>5, <3>3 DEF Runs
        <3>5. Waits(i, c)' \subseteq Waits(i, c)
            BY <1>2, <3>1 DEF Waits
        <3> QED
            BY <1>1, <3>1, <3>2, <3>4, <3>5 DEF Requeued
    <2>8. CASE i = j /\ log[job[w]].retry # c
        <3>1. Copies(i, c + 1)' = Copies(i, c + 1)
            BY <1>3, <2>2, <2>3, <2>8
        <3>2. CASE c = log[job[w]].retry + 1
            <4>1. Copies(i, c)' = Copies(i, c) \cup {Len(log) + 1} /\ Len(log) + 1 \notin Copies(i, c)
                BY <2>2, <2>3, <2>8, <3>2
            <4>2. Waits(i, c)' \subseteq Waits(i, c) \cup {Len(log) + 1}
                BY <1>2, <4>1 DEF Waits
            <4> QED
                BY <1>1, <2>5, <3>1, <4>1, <4>2 DEF Arrives
        <3>3. CASE c # log[job[w]].retry + 1
            <4>1. Copies(i, c)' = Copies(i, c)
                BY <2>2, <2>3, <3>3
            <4>2. Waits(i, c)' \subseteq Waits(i, c)
                BY <1>2, <4>1 DEF Waits
            <4> QED
                BY <1>1, <2>5, <3>1, <4>1, <4>2 DEF Frees
        <3> QED
            BY <3>2, <3>3
    <2> QED
        BY <2>6, <2>7, <2>8
<1> QED
    BY <1>2, <1>5, <1>6

LEMMA BudgetsHold == Spec => []Budgets
<1>1. Init => Budgets
    <2> SUFFICES ASSUME Init, NEW i \in Item, NEW c \in Nat PROVE Budget(i, c)
        BY DEF Budgets
    <2>1. Copies(i, c) = {} /\ Copies(i, c + 1) = {} /\ Runs(i, c) = {} /\ Waits(i, c) = {}
        BY DEF Init, Copies, Runs, Waits
    <2>2. Restarts = 0
        BY DEF Init, Restarts, Fault
    <2> QED
        BY <2>1, <2>2, FS_EmptySet DEF Budget
<1>2. ASSUME IInv, Budgets, [Next]_vars PROVE Budgets'
    <2> SUFFICES ASSUME NEW i \in Item, NEW c \in Nat PROVE Budget(i, c)'
        BY DEF Budgets
    <2>1. Budget(i, c) /\ TypeOK
        BY <1>2 DEF Budgets, IInv
    <2>2. CASE (\E u \in Uuid : AgentDecides(u)) \/ UNCHANGED vars
        <3>1. UNCHANGED <<log, committed, job, stage, faults>>
            BY <2>2 DEF AgentDecides, vars, topic, units, history
        <3>2. Frees(i, c)
            BY <3>1 DEF Frees, Copies, Runs, Waits, Restarts
        <3> QED
            BY <2>1, <3>2, BudgetKept
    <2>3. CASE Next /\ ~\E u \in Uuid : AgentDecides(u)
        <3>1. Frees(i, c) \/ Starts(i, c) \/ CutsOff(i, c) \/ Arrives(i, c) \/ Requeued(i, c)
            BY <1>2, <2>3, BudgetAfterPost, BudgetAfterTake, BudgetAfterLeave, BudgetAfterUnit DEF Next
        <3> QED
            BY <2>1, <3>1, BudgetKept
    <2> QED
        BY <1>2, <2>2, <2>3
<1> QED
    BY <1>1, <1>2, Inductive, PTL DEF Spec

\* _requeue and the choice of a handler by the retry count: whatever fails and
\* whatever is delivered again, no record is past the ceiling by more than one, and
\* an item is requeued once for each record that carried it and each crash and
\* rebalance, at most.
THEOREM RetriesBounded == Spec => []RetriesEnd
<1>1. ASSUME IInv, Ceiling, Budgets PROVE RetriesEnd
    <2> SUFFICES ASSUME NEW i \in Item, NEW c \in 0..MaxRetry
                 PROVE  Cardinality(Copies(i, c + 1)) <= Cardinality(Copies(i, c)) + Restarts
        BY <1>1 DEF RetriesEnd, Ceiling
    <2>1. c \in Nat
        OBVIOUS
    <2>2. Budget(i, c)
        BY <1>1, <2>1 DEF Budgets
    <2>3. Cardinality(Runs(i, c)) \in Nat
        BY <2>2, FS_CardinalityType DEF Budget
    <2>4. /\ Cardinality(Copies(i, c)) \in Nat /\ Cardinality(Copies(i, c + 1)) \in Nat
          /\ Cardinality(Waits(i, c)) \in Nat /\ Restarts \in Nat
        BY <1>1, CopiesFinite, RestartsCounted DEF IInv
    <2> QED
        BY <2>2, <2>3, <2>4 DEF Budget
<1> QED
    BY <1>1, Inductive, CeilingHolds, BudgetsHold, PTL

(***************************************************************************)
(* What a composition with the Agent rests on: how the table may change.   *)
(***************************************************************************)
Same == status' = status /\ published' = published
Stores(u) == /\ status[u] = "none" /\ published' = published
             /\ \E s \in {"pending", "human-review"} : status' = [status EXCEPT ![u] = s]
Announces(u) == /\ status[u] \in {"pending", "decided"} /\ status' = status
                /\ published' = published \cup {u}
Deletes(u) == /\ status[u] = "pending" /\ status' = [status EXCEPT ![u] = "deleted"]
              /\ published' = published

LEMMA TableSteps ==
    ASSUME IInv, NEW w \in Worker, NEW i \in Item, Unit(w, i)
    PROVE  Same \/ \E u \in Uuid : Stores(u) \/ Announces(u) \/ Deletes(u)
<1>1. CASE Quiet(w, i)
    BY <1>1 DEF Quiet, Same
<1>2. ASSUME NEW u \in Uuid, LetsGo(w, i, u) \/ Insert(w, i, u) PROVE Stores(u)
    BY <1>2 DEF LetsGo, Insert, Store, Stores, sinks
<1>3. CASE Acts(w, i)
    <2>1. row[w][i] \in Uuid /\ status[row[w][i]] \in {"pending", "decided"}
        <3>1. stage[w][i] \in {"publishing", "compensating"}
            BY <1>3 DEF Acts, Publish, PublishUnreleased, PublishFails, Compensate, CompensateFails, Goto
        <3> QED
            BY <3>1 DEF IInv, TypeOK, Holding, HeldRows
    <2>2. PICK u \in Uuid : u = row[w][i]
        BY <2>1
    <2>3. CASE Publish(w, i) \/ PublishUnreleased(w, i) \/ \E flag \in BOOLEAN : PublishFails(w, i, flag)
        BY <2>1, <2>2, <2>3 DEF Publish, PublishUnreleased, PublishFails, table, Same, Announces
    <2>4. CASE Compensate(w, i) \/ \E flag \in BOOLEAN : CompensateFails(w, i, flag)
        BY <2>1, <2>2, <2>4 DEF Compensate, CompensateFails, DeletePending, sinks, Same, Deletes
    <2> QED
        BY <1>3, <2>3, <2>4 DEF Acts
<1> QED
    BY <1>1, <1>2, <1>3, UnitKinds DEF IInv

\* The key of a row that is gone is free again, and only then.
OneRowPerKey == \A u, v \in Uuid :
    status[u] \in Stored /\ RowFor(KeyOf[content[u]], v) => u = v

LEMMA KeysUnique == Spec => []OneRowPerKey
<1>1. Init => OneRowPerKey
    BY DEF Init, OneRowPerKey, Stored
<1>2. ASSUME IInv, OneRowPerKey, [Next]_vars PROVE OneRowPerKey'
    <2> USE DEF IInv, TypeOK
    <2>1. ASSUME content' = content, \A u \in Uuid : status'[u] \in Stored => status[u] \in Stored
          PROVE  OneRowPerKey'
        BY <1>2, <2>1 DEF OneRowPerKey, RowFor
    <2>2. ASSUME NEW w \in Worker, NEW i \in Item, Unit(w, i) PROVE OneRowPerKey'
        <3>1. CASE Quiet(w, i)
            BY <2>1, <3>1 DEF Quiet
        <3>2. ASSUME NEW u \in Uuid, Insert(w, i, u) \/ LetsGo(w, i, u) PROVE OneRowPerKey'
            <4>1. /\ ~HasRow(KeyOf[i]) /\ content' = [content EXCEPT ![u] = i]
                  /\ \E s \in {"pending", "human-review"} : status' = [status EXCEPT ![u] = s]
                BY <3>2 DEF Insert, LetsGo, Store
            <4> QED
                BY <1>2, <4>1 DEF OneRowPerKey, HasRow, RowFor
        <3>3. CASE Acts(w, i)
            <4>1. content' = content /\ (status' = status \/ DeletePending(row[w][i]))
                BY <3>3 DEF Acts, Publish, PublishUnreleased, PublishFails, Compensate, CompensateFails, table
            <4>2. \A u \in Uuid : status'[u] \in Stored => status[u] \in Stored
                BY <1>2, <4>1 DEF DeletePending, Stored
            <4> QED
                BY <2>1, <4>1, <4>2
        <3> QED
            BY <1>2, <2>2, <3>1, <3>2, <3>3, UnitKinds
    <2>3. ASSUME NEW u \in Uuid, AgentDecides(u) PROVE OneRowPerKey'
        BY <1>2, <2>1, <2>3 DEF AgentDecides, Stored
    <2>4. CASE \/ \E b \in Batch : Post(b)
               \/ \E w \in Worker : Commit(w) \/ Crash(w)
               \/ UNCHANGED vars
        BY <2>1, <2>4 DEF Post, Commit, Crash, vars, table
    <2>5. CASE \E w \in Worker, n \in 1..Len(log) : Consume(w, n) \/ Redeliver(w, n)
        BY <2>1, <2>5 DEF Consume, Redeliver, Take, table
    <2> QED
        BY <1>2, <2>2, <2>3, <2>4, <2>5 DEF Next
<1> QED
    BY <1>1, <1>2, Inductive, PTL DEF Spec
==============================================================================
