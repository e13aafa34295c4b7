---------------------------- MODULE PipelineProofs ----------------------------
(***************************************************************************)
(* What the services promise together, from what each promises alone: the  *)
(* composition adds no behaviour to either of them, their views of the     *)
(* table agree, and so the theorems of both hold of one system.            *)
(***************************************************************************)
EXTENDS Pipeline, AgentProofs

PP == INSTANCE PublisherProofs WITH
        log <- pLog, committed <- pCommitted, job <- pJob, stage <- pStage, row <- pRow,
        status <- pStatus, reported <- pReported,
        MaxCrashes <- PublisherCrashes, MaxRebalances <- PublisherRebalances,
        MaxLostCommits <- PublisherLostCommits

LEMMA Constants == PP!PublisherAssumption
BY PipelineAssumption, AgentAssumption DEF PipelineAssumption, AgentAssumption, PP!PublisherAssumption

\* The two names of the publisher's module stand for one specification.
LEMMA SameUnit ==
    ASSUME NEW w \in Worker, NEW i \in Item
    PROVE  P!Unit(w, i) <=> PP!Unit(w, i)
<1> USE DEF P!Enter, PP!Enter, P!Goto, PP!Goto, P!Process, PP!Process, P!Escalating,
            PP!Escalating, P!Store, PP!Store, P!HasRow, PP!HasRow, P!RowFor, PP!RowFor,
            P!Stored, PP!Stored, P!DeletePending, PP!DeletePending, P!Retried,
            PP!Retried, P!Fails, PP!Fails, P!Strike, PP!Strike, P!MaxFaults,
            PP!MaxFaults, P!Running, PP!Running, P!topic, PP!topic, P!table, PP!table,
            P!sinks, PP!sinks, P!past, PP!past, P!history, PP!history, P!Cardinality, PP!Cardinality
<1>1. P!Reject(w, i) <=> PP!Reject(w, i)
    BY DEF P!Reject, PP!Reject
<1>2. P!InsertDuplicate(w, i) <=> PP!InsertDuplicate(w, i)
    BY DEF P!InsertDuplicate, PP!InsertDuplicate
<1>3. P!InsertFails(w, i) <=> PP!InsertFails(w, i)
    BY DEF P!InsertFails, PP!InsertFails
<1>4. P!Publish(w, i) <=> PP!Publish(w, i)
    BY DEF P!Publish, PP!Publish
<1>5. P!Compensate(w, i) <=> PP!Compensate(w, i)
    BY DEF P!Compensate, PP!Compensate
<1>6. P!Requeue(w, i) <=> PP!Requeue(w, i)
    BY DEF P!Requeue, PP!Requeue
<1>7. P!EscalateDuplicate(w, i) <=> PP!EscalateDuplicate(w, i)
    BY DEF P!EscalateDuplicate, PP!EscalateDuplicate
<1>8. P!EscalateFails(w, i) <=> PP!EscalateFails(w, i)
    BY DEF P!EscalateFails, PP!EscalateFails
<1>9. \A u \in Uuid : P!Insert(w, i, u) <=> PP!Insert(w, i, u)
    BY DEF P!Insert, PP!Insert
<1>10. \A u \in Uuid : P!InsertCommitLost(w, i, u) <=> PP!InsertCommitLost(w, i, u)
    BY DEF P!InsertCommitLost, PP!InsertCommitLost
<1>11. \A u \in Uuid : P!Escalate(w, i, u) <=> PP!Escalate(w, i, u)
    BY DEF P!Escalate, PP!Escalate
<1>12. \A u \in Uuid : P!EscalateCommitLost(w, i, u) <=> PP!EscalateCommitLost(w, i, u)
    BY DEF P!EscalateCommitLost, PP!EscalateCommitLost
<1>13. \A flag \in BOOLEAN : P!PublishFails(w, i, flag) <=> PP!PublishFails(w, i, flag)
    BY DEF P!PublishFails, PP!PublishFails
<1>14. \A flag \in BOOLEAN : P!CompensateFails(w, i, flag) <=> PP!CompensateFails(w, i, flag)
    BY DEF P!CompensateFails, PP!CompensateFails
<1>15. \A flag \in BOOLEAN : P!RequeueFails(w, i, flag) <=> PP!RequeueFails(w, i, flag)
    BY DEF P!RequeueFails, PP!RequeueFails
<1>16. P!PublishUnreleased(w, i) <=> PP!PublishUnreleased(w, i)
    BY DEF P!PublishUnreleased, PP!PublishUnreleased
<1> QED
    BY <1>1, <1>2, <1>3, <1>4, <1>5, <1>6, <1>7, <1>8, <1>9, <1>10, <1>11, <1>12, <1>13, <1>14,
       <1>15, <1>16 DEF P!Unit, PP!Unit

LEMMA SameInit == P!Init <=> PP!Init
BY DEF P!Init, PP!Init, P!Fault, PP!Fault

\* The steps of the consumer loop, which touch neither the table nor the messages.
Loops == \/ \E b \in Batch : PP!Post(b)
         \/ \E w \in Worker, n \in 1..Len(pLog) : PP!Consume(w, n) \/ PP!Redeliver(w, n)
         \/ \E w \in Worker : PP!Commit(w) \/ PP!Crash(w)

LEMMA PublisherMoves ==
    ASSUME PublisherStep
    PROVE  /\ AgentSees
           /\ Loops \/ \E w \in Worker, i \in Item : PP!Unit(w, i)
<1> USE DEF P!topic, PP!topic, P!units, PP!units, P!table, PP!table, P!sinks, PP!sinks,
            P!Pending, PP!Pending, P!Take, PP!Take, P!Leave, PP!Leave, P!Strike, PP!Strike,
            P!MaxFaults, PP!MaxFaults, P!past, PP!past, P!history, PP!history
<1>1. \A b \in Batch : P!Post(b) <=> PP!Post(b)
    BY DEF P!Post, PP!Post, P!Cardinality, PP!Cardinality
<1>2. \A w \in Worker, n \in 1..Len(pLog) : P!Consume(w, n) <=> PP!Consume(w, n)
    BY DEF P!Consume, PP!Consume
<1>3. \A w \in Worker, n \in 1..Len(pLog) : P!Redeliver(w, n) <=> PP!Redeliver(w, n)
    BY DEF P!Redeliver, PP!Redeliver
<1>4. \A w \in Worker : P!Commit(w) <=> PP!Commit(w)
    BY DEF P!Commit, PP!Commit
<1>5. \A w \in Worker : P!Crash(w) <=> PP!Crash(w)
    BY DEF P!Crash, PP!Crash
<1> QED
    BY <1>1, <1>2, <1>3, <1>4, <1>5, SameUnit DEF PublisherStep, Loops

LEMMA AgentMoves ==
    ASSUME AgentStep
    PROVE  /\ \/ \E u \in Uuid, s \in {"human-approved", "human-rejected"} : Review(u, s)
              \/ \E r \in Replica, n \in 1..Len(log) : Consume(r, n) \/ Redeliver(r, n)
              \/ \E r \in Replica : Commit(r) \/ Crash(r) \/ Handle(r)
           /\ \/ \E u \in Uuid : Judged(u) /\ PP!AgentDecides(u)
              \/ (\A u \in Uuid : ~Judged(u)) /\ UNCHANGED pVars
BY DEF AgentStep, PublisherSees, P!AgentDecides, PP!AgentDecides, P!topic, PP!topic,
   P!units, PP!units, P!sinks, PP!sinks, P!past, PP!past, P!history, PP!history

LEMMA SameVars == UNCHANGED pVars <=> UNCHANGED PP!vars
BY DEF pVars, PP!vars, PP!topic, PP!units, PP!table, PP!sinks, PP!past, PP!history

(***************************************************************************)
(* The composition is a behaviour of each service's specification.         *)
(***************************************************************************)
\* The publisher in the pipeline does what it does alone.
THEOREM PipelineRunsPublisher == PipelineSpec => PP!Spec
<1>1. PipelineInit => PP!Init
    BY SameInit DEF PipelineInit
<1>2. ASSUME [PipelineNext]_allVars PROVE [PP!Next]_PP!vars
    <2>1. CASE PublisherStep
        BY <2>1, PublisherMoves DEF Loops, PP!Next
    <2>2. CASE AgentStep
        BY <2>2, AgentMoves, SameVars DEF PP!Next
    <2>3. CASE UNCHANGED allVars
        BY <2>3, SameVars DEF allVars
    <2> QED
        BY <1>2, <2>1, <2>2, <2>3 DEF PipelineNext
<1> QED
    BY <1>1, <1>2, PTL DEF PipelineSpec, PP!Spec

\* The Agent and the reviewers in the pipeline do what they do in front of an
\* arbitrary publisher.
THEOREM PipelineRunsAgent == PipelineSpec => Spec
<1>1. PipelineInit => Init
    BY DEF PipelineInit
<1>2. ASSUME [PipelineNext]_allVars PROVE [Next]_vars
    <2>1. CASE PublisherStep
        BY <2>1 DEF PublisherStep, AgentSees, Next
    <2>2. CASE AgentStep
        BY <2>2, AgentMoves DEF Next
    <2>3. CASE UNCHANGED allVars
        BY <2>3 DEF allVars
    <2> QED
        BY <1>2, <2>1, <2>2, <2>3 DEF PipelineNext
<1> QED
    BY <1>1, <1>2, PTL DEF PipelineSpec, Spec

(***************************************************************************)
(* The two views of the table.  Each service changes a row in few ways,    *)
(* and each of them is one the other sees.                                 *)
(***************************************************************************)
LEMMA PublisherTable ==
    ASSUME PP!IInv, PublisherStep
    PROVE  PP!Same \/ \E u \in Uuid : PP!Stores(u) \/ PP!Announces(u) \/ PP!Deletes(u)
<1>1. CASE Loops
    BY <1>1 DEF Loops, PP!Post, PP!Consume, PP!Redeliver, PP!Take, PP!Commit, PP!Crash, PP!Same,
       PP!table, PP!sinks
<1>2. CASE \E w \in Worker, i \in Item : PP!Unit(w, i)
    BY <1>2, Constants, PP!TableSteps
<1> QED
    BY <1>1, <1>2, PublisherMoves

Writing(u) ==
    \/ \E s \in Verdict : status[u] \in Present /\ status' = [status EXCEPT ![u] = s]
    \/ \E s \in {"human-approved", "human-rejected"} :
          status[u] \in Eligible /\ status' = [status EXCEPT ![u] = s]

LEMMA AgentTable ==
    ASSUME IInv, AgentStep
    PROVE  status' = status \/ \E u \in Uuid : Writing(u)
<1>1. CASE \E u \in Uuid, s \in {"human-approved", "human-rejected"} : Review(u, s)
    BY <1>1 DEF Review, Write, Writing
<1>2. CASE \/ \E r \in Replica, n \in 1..Len(log) : Consume(r, n) \/ Redeliver(r, n)
           \/ \E r \in Replica : Commit(r) \/ Crash(r)
    BY <1>2 DEF Consume, Redeliver, Commit, Crash, Take, table
<1>3. ASSUME NEW r \in Replica, Handle(r) PROVE status' = status \/ \E u \in Uuid : Writing(u)
    <2>1. CASE Writes(r)
        <3>1. Message(r).uuid \in Uuid
            BY <2>1, InHand DEF Writes, Advances
        <3> QED
            BY <2>1, <3>1 DEF Writes, Write, Writing
    <2>2. CASE Quiet(r) \/ Requeues(r)
        BY <2>2 DEF Quiet, Requeues, table
    <2> QED
        BY <1>3, <2>1, <2>2, HandleKinds DEF IInv
<1> QED
    BY <1>1, <1>2, <1>3, AgentMoves

LEMMA AgreesAfterPublisher ==
    ASSUME PP!IInv, IInv, TableAgrees, PublisherStep
    PROVE  TableAgrees'
<1> USE DEF TableAgrees, IInv, TypeOK, PP!IInv, PP!TypeOK
<1>1. AgentSees
    BY DEF PublisherStep
<1>2. CASE PP!Same
    <2>1. status' = status
        BY <1>1, <1>2 DEF PP!Same, AgentSees, Withdrawn, vars, table
    <2> QED
        BY <1>2, <2>1 DEF PP!Same
<1>3. ASSUME NEW u \in Uuid, PP!Stores(u) PROVE TableAgrees'
    <2>1. status' = status
        BY <1>1, <1>3 DEF PP!Stores, AgentSees, Withdrawn, vars, table
    <2> QED
        BY <1>3, <2>1 DEF PP!Stores
<1>4. ASSUME NEW u \in Uuid, PP!Announces(u) PROVE TableAgrees'
    <2>1. CASE u \in published
        <3>1. status' = status
            BY <1>1, <1>4, <2>1 DEF PP!Announces, AgentSees, Withdrawn, vars, table
        <3> QED
            BY <1>4, <2>1, <3>1 DEF PP!Announces
    <2>2. CASE u \notin published
        <3>1. Announce(u)
            BY <1>1, <1>4, <2>2 DEF PP!Announces, AgentSees, Withdrawn
        <3> QED
            BY <1>4, <2>2, <3>1 DEF PP!Announces, Announce
    <2> QED
        BY <2>1, <2>2
<1>5. ASSUME NEW u \in Uuid, PP!Deletes(u) PROVE TableAgrees'
    <2>1. CASE u \notin published
        <3>1. status' = status
            BY <1>1, <1>5, <2>1 DEF PP!Deletes, AgentSees, Withdrawn, vars, table
        <3> QED
            BY <1>5, <2>1, <3>1 DEF PP!Deletes
    <2>2. CASE u \in published
        <3>1. Withdraw(u)
            BY <1>1, <1>5, <2>2 DEF PP!Deletes, AgentSees, Withdrawn
        <3> QED
            BY <1>5, <2>2, <3>1 DEF PP!Deletes, Withdraw
    <2> QED
        BY <2>1, <2>2
<1> QED
    BY <1>2, <1>3, <1>4, <1>5, PublisherTable

LEMMA AgreesAfterAgent ==
    ASSUME PP!IInv, IInv, TableAgrees, AgentStep
    PROVE  TableAgrees'
<1> USE DEF TableAgrees, IInv, TypeOK, PP!IInv, PP!TypeOK
<1>1. CASE status' = status
    BY <1>1, AgentMoves DEF Judged, pVars
<1>2. ASSUME NEW u \in Uuid, Writing(u) PROVE TableAgrees'
    <2>1. /\ status[u] \in Present /\ status'[u] \in Present \ {"pending"}
          /\ \A v \in Uuid : v # u => status'[v] = status[v]
        BY <1>2 DEF Writing, Present, Verdict, Eligible
    <2>2. CASE Judged(u)
        <3>1. PP!AgentDecides(u)
            BY <2>1, <2>2, AgentMoves DEF Judged
        <3> QED
            BY <2>1, <2>2, <3>1 DEF PP!AgentDecides, PP!sinks, Judged
    <2>3. CASE ~Judged(u)
        <3>1. UNCHANGED pVars
            BY <2>1, <2>3, AgentMoves DEF Judged
        <3> QED
            BY <2>1, <2>3, <3>1 DEF pVars, Judged, Present, Verdict, Eligible
    <2> QED
        BY <2>2, <2>3
<1> QED
    BY <1>1, <1>2, AgentTable

LEMMA BothInductive == PipelineSpec => [](PP!IInv /\ IInv)
<1>1. PP!Spec => []PP!IInv
    BY Constants, PP!Inductive
<1> QED
    BY <1>1, PipelineRunsPublisher, PipelineRunsAgent, Inductive, PTL

\* Publisher and Agent never disagree about a row: an announced row is known to
\* both, and a row that is decided for one is neither pending nor deleted for the
\* other, however their steps interleave.
THEOREM ViewsAgree == PipelineSpec => []TableAgrees
<1>1. PipelineInit => TableAgrees
    BY DEF PipelineInit, Init, P!Init, TableAgrees
<1>2. PP!IInv /\ IInv /\ TableAgrees /\ [PipelineNext]_allVars => TableAgrees'
    BY AgreesAfterPublisher, AgreesAfterAgent DEF PipelineNext, allVars, vars, table, pVars, TableAgrees
<1> QED
    BY <1>1, <1>2, BothInductive, PTL DEF PipelineSpec

\* No accepted request falls through between the services, but for the row a crash or
\* a lost COMMIT strands and the record a rebalance hands out twice: the publisher's
\* SettledIsAnswered hands it to the table, TableAgrees to the Agent, and
\* PendingIsQueued to a message or a failure log.
THEOREM RequestsNeverFallThrough == PipelineSpec => []RequestsHeld
<1>1. ASSUME PP!SettledIsAnswered, PendingIsQueued, TableAgrees PROVE RequestsHeld
    <2> SUFFICES ASSUME NEW k \in P!Keys \ moved
                 PROVE  \/ Answered(k) \/ Stranded(k)
                        \/ \E n \in P!Pending : P!Carries(n, k)
                        \/ \E u \in Uuid, n \in Pending : P!RowFor(k, u) /\ log[n].uuid = u
        BY DEF RequestsHeld
    <2>1. PP!Answered(k) \/ PP!CutOff(k) \/ \E n \in PP!Pending : PP!Carries(n, k)
        BY <1>1 DEF PP!SettledIsAnswered, P!Keys, PP!Keys
    <2>2. CASE PP!Reported(k)
        BY <2>2 DEF PP!Reported, P!Reported, Answered
    <2>3. CASE \E n \in PP!Pending : PP!Carries(n, k)
        BY <2>3 DEF PP!Pending, P!Pending, PP!Carries, P!Carries
    <2>4. ASSUME NEW u \in Uuid, PP!RowFor(k, u),
                 \/ pStatus[u] # "pending" \/ u \in published \cup undeleted
                 \/ cause[u] \in PP!Cause \ {"none", "delete-failed"}
          PROVE  \/ Answered(k) \/ Stranded(k)
                 \/ \E n \in Pending : P!RowFor(k, u) /\ log[n].uuid = u
        <3>1. P!RowFor(k, u)
            BY <2>4 DEF P!RowFor, PP!RowFor, P!Stored, PP!Stored
        <3>2. CASE pStatus[u] # "pending" \/ u \in undeleted
            BY <3>1, <3>2 DEF Answered
        <3>3. CASE pStatus[u] = "pending" /\ u \in published
            <4>1. status[u] = "pending"
                BY <1>1, <3>3 DEF TableAgrees
            <4> QED
                BY <1>1, <3>1, <4>1 DEF PendingIsQueued, Answered
        <3>4. CASE pStatus[u] = "pending" /\ u \notin published /\ u \notin undeleted
            BY <2>4, <3>1, <3>4 DEF Stranded, P!Cause, PP!Cause
        <3> QED
            BY <3>2, <3>3, <3>4
    <2> QED
        BY <2>1, <2>2, <2>3, <2>4 DEF PP!Answered, PP!CutOff
<1>2. PP!Spec => []PP!SettledIsAnswered
    BY Constants, PP!RequestsAnswered
<1> QED
    BY <1>1, <1>2, PipelineRunsPublisher, PipelineRunsAgent, NoRowForgotten, ViewsAgree, PTL

\* The table lets a key have one row at a time, and neither service takes back a
\* row that has a verdict: so of all the rows a request ever had, one is judged at
\* most (and more than once only if a fault of the Agent struck it: DecidesOnce).
THEOREM OneRowIsJudged == PipelineSpec => []OneRowJudged
<1>1. ASSUME PP!OneRowPerKey, TableAgrees PROVE OneRowJudged
    <2>1. ASSUME NEW u \in Uuid, Judgement(u) PROVE pStatus[u] \in PP!Stored
        BY <1>1, <2>1 DEF TableAgrees, Judgement, WholeRow, Row, Present, Verdict, Eligible, PP!Stored
    <2> QED
        BY <1>1, <2>1 DEF OneRowJudged, PP!OneRowPerKey, PP!RowFor
<1>2. PP!Spec => []PP!OneRowPerKey
    BY Constants, PP!KeysUnique
<1> QED
    BY <1>1, <1>2, PipelineRunsPublisher, ViewsAgree, PTL

(***************************************************************************)
(* The life of a row, of the table as a whole.                             *)
(***************************************************************************)
LEMMA WholeMoves ==
    ASSUME NEW u \in Uuid, \A v \in Uuid \ {u} : WholeRow(v)' = WholeRow(v)
    PROVE  WholeRows' = [WholeRows EXCEPT ![u] = WholeRow(u)']
<1> SUFFICES ASSUME NEW v \in Uuid
             PROVE  WholeRow(v)' = [WholeRows EXCEPT ![u] = WholeRow(u)'][v]
    BY DEF WholeRows
<1>1. CASE v = u
    BY <1>1 DEF WholeRows
<1>2. CASE v # u
    BY <1>2 DEF WholeRows
<1> QED
    BY <1>1, <1>2

\* A step that moves one row, in a way a row may move, whether a fault strikes it or not.
LEMMA WholeStep ==
    ASSUME NEW u \in Uuid, \A v \in Uuid \ {u} : WholeRow(v)' = WholeRow(v),
           struck' \in {struck, struck \cup {u}},
           \/ WholeRow(u)' = WholeRow(u)
           \/ WholeRow(u) = "absent" /\ WholeRow(u)' \in {"pending", "human-review"}
           \/ WholeRow(u) = "pending" /\ WholeRow(u)' \in {"absent"} \cup Verdict
           \/ /\ u \in struck /\ WholeRow(u) \in Present \ {"pending"}
              /\ WholeRow(u)' \in Verdict
           \/ WholeRow(u) \in Eligible /\ WholeRow(u)' \in {"human-approved", "human-rejected"}
    PROVE  Whole!Next
<1>1. WholeRows' = [WholeRows EXCEPT ![u] = WholeRow(u)'] /\ WholeRows[u] = WholeRow(u)
    BY WholeMoves DEF WholeRows
<1>2. Whole!Move(u) \/ UNCHANGED WholeRows
    <2>1. CASE WholeRow(u)' = WholeRow(u)
        BY <1>1, <2>1 DEF WholeRows
    <2>2. CASE WholeRow(u) = "absent" /\ WholeRow(u)' \in {"pending", "human-review"}
        BY <1>1, <2>2 DEF Whole!Move, Whole!Submit, Whole!Escalate, Whole!Moves
    <2>3. CASE WholeRow(u) = "pending" /\ WholeRow(u)' \in {"absent"} \cup Verdict
        BY <1>1, <2>3 DEF Whole!Move, Whole!Withdraw, Whole!Decide, Whole!Moves,
           Whole!Verdict, Verdict
    <2>4. CASE /\ u \in struck /\ WholeRow(u) \in Present \ {"pending"}
               /\ WholeRow(u)' \in Verdict
        BY <1>1, <2>4 DEF Whole!Move, Whole!Overwrite, Whole!Moves, Whole!Decided,
           Whole!Human, Whole!Verdict, Verdict, Present, Eligible
    <2>5. CASE WholeRow(u) \in Eligible /\ WholeRow(u)' \in {"human-approved", "human-rejected"}
        BY <1>1, <2>5 DEF Whole!Move, Whole!Review, Whole!Moves, Whole!Human,
           Whole!Eligible, Eligible
    <2> QED
        BY <2>1, <2>2, <2>3, <2>4, <2>5
<1> QED
    BY <1>2 DEF Whole!Next

LEMMA LifeOfPublisherStep ==
    ASSUME PP!IInv, IInv, TableAgrees, PublisherStep
    PROVE  Whole!Next \/ UNCHANGED <<WholeRows, struck>>
<1> USE DEF TableAgrees, IInv, TypeOK, PP!IInv, PP!TypeOK, WholeRow, Row
<1>1. AgentSees
    BY DEF PublisherStep
<1>6. struck' = struck
    BY <1>1 DEF AgentSees, Announce, Withdraw, vars, history
<1>2. CASE PP!Same
    <2>1. status' = status
        BY <1>1, <1>2 DEF PP!Same, AgentSees, Withdrawn, vars, table
    <2>2. \A u \in Uuid : WholeRow(u)' = WholeRow(u)
        BY <1>2, <2>1 DEF PP!Same
    <2> QED
        BY <1>6, <2>2 DEF WholeRows
<1>3. ASSUME NEW u \in Uuid, PP!Stores(u) PROVE Whole!Next \/ UNCHANGED <<WholeRows, struck>>
    <2>1. status' = status /\ published' = published /\ u \notin published
        BY <1>1, <1>3 DEF PP!Stores, AgentSees, Withdrawn, vars, table
    <2>2. \A v \in Uuid \ {u} : WholeRow(v)' = WholeRow(v)
        BY <1>3, <2>1 DEF PP!Stores
    <2>3. WholeRow(u) = "absent" /\ WholeRow(u)' \in {"pending", "human-review"}
        BY <1>3, <2>1 DEF PP!Stores
    <2> QED
        BY <1>6, <2>2, <2>3, WholeStep
<1>4. ASSUME NEW u \in Uuid, PP!Announces(u) PROVE Whole!Next \/ UNCHANGED <<WholeRows, struck>>
    <2>1. CASE u \in published
        <3>1. status' = status /\ published' = published /\ pStatus' = pStatus
            BY <1>1, <1>4, <2>1 DEF PP!Announces, AgentSees, Withdrawn, vars, table
        <3>2. \A v \in Uuid : WholeRow(v)' = WholeRow(v)
            BY <3>1
        <3> QED
            BY <1>6, <3>2 DEF WholeRows
    <2>2. CASE u \notin published
        <3>1. Announce(u) /\ pStatus[u] = "pending" /\ pStatus' = pStatus /\ published' = published \cup {u}
            BY <1>1, <1>4, <2>2 DEF PP!Announces, AgentSees, Withdrawn
        <3>2. \A v \in Uuid \ {u} : WholeRow(v)' = WholeRow(v)
            BY <3>1 DEF Announce
        <3>3. WholeRow(u)' = WholeRow(u)
            BY <2>2, <3>1 DEF Announce, Present
        <3> QED
            BY <1>6, <3>2, <3>3, WholeStep
    <2> QED
        BY <2>1, <2>2
<1>5. ASSUME NEW u \in Uuid, PP!Deletes(u) PROVE Whole!Next \/ UNCHANGED <<WholeRows, struck>>
    <2>1. /\ \A v \in Uuid \ {u} : status'[v] = status[v]
          /\ u \in published => status[u] = "pending" /\ status'[u] = "deleted"
          /\ published' = published
        BY <1>1, <1>5 DEF PP!Deletes, AgentSees, Withdrawn, Withdraw, vars, table
    <2>2. \A v \in Uuid \ {u} : WholeRow(v)' = WholeRow(v)
        BY <1>5, <2>1 DEF PP!Deletes
    <2>3. WholeRow(u) = "pending" /\ WholeRow(u)' = "absent"
        BY <1>5, <2>1 DEF PP!Deletes, Present, Verdict, Eligible
    <2> QED
        BY <1>6, <2>2, <2>3, WholeStep
<1> QED
    BY <1>2, <1>3, <1>4, <1>5, PublisherTable

\* What a step of the Agent or of a reviewer makes of the table, and of the rows struck.
LEMMA AgentTableStruck ==
    ASSUME CInv, AgentStep
    PROVE  \/ UNCHANGED <<status, struck>>
           \/ \E u \in Uuid : status' = status /\ struck' = struck \cup {u}
           \/ \E u \in Uuid, s \in Verdict :
                 /\ status[u] = "pending" \/ (u \in struck /\ status[u] \in Present \ {"pending"})
                 /\ status' = [status EXCEPT ![u] = s]
                 /\ struck' \in {struck, struck \cup {u}}
           \/ \E u \in Uuid, s \in {"human-approved", "human-rejected"} :
                 /\ status[u] \in Eligible /\ status' = [status EXCEPT ![u] = s]
                 /\ struck' = struck
<1> USE DEF history, table, Strikes
<1>1. CASE \E u \in Uuid, s \in {"human-approved", "human-rejected"} : Review(u, s)
    BY <1>1 DEF Review, Happens, Write
<1>2. CASE \E r \in Replica, n \in 1..Len(log) : Consume(r, n) \/ Redeliver(r, n)
    BY <1>2, Enveloped DEF Consume, Redeliver, Take, CInv, IInv, TypeOK
<1>3. CASE \E r \in Replica : Commit(r) \/ Crash(r)
    BY <1>3, InHand DEF Commit, Crash, CInv
<1>4. ASSUME NEW r \in Replica, Handle(r), Writes(r)
      PROVE  \E u \in Uuid, s \in Verdict :
                 /\ status[u] = "pending" \/ (u \in struck /\ status[u] \in Present \ {"pending"})
                 /\ status' = [status EXCEPT ![u] = s]
                 /\ struck' \in {struck, struck \cup {u}}
    <2>1. PICK s \in Verdict : Write(Message(r).uuid, s)
        BY <1>4 DEF Writes
    <2> QED
        BY <1>4, <2>1, WrittenRow DEF Write, Writes
<1>5. ASSUME NEW r \in Replica, Handle(r), ~Writes(r) PROVE UNCHANGED <<status, struck>>
    BY <1>5, HandleKinds DEF Quiet, Requeues, CInv, IInv
<1> QED
    BY <1>1, <1>2, <1>3, <1>4, <1>5, AgentMoves

LEMMA LifeOfAgentStep ==
    ASSUME PP!IInv, CInv, TableAgrees, AgentStep
    PROVE  Whole!Next \/ UNCHANGED <<WholeRows, struck>>
<1> USE DEF TableAgrees, CInv, IInv, TypeOK, PP!IInv, PP!TypeOK, WholeRow, Row
<1>1. ASSUME status' = status PROVE \A u \in Uuid : WholeRow(u)' = WholeRow(u)
    <2>1. pStatus' = pStatus /\ published' = published
        BY <1>1, AgentMoves DEF Judged, pVars
    <2> QED
        BY <1>1, <2>1
<1>2. CASE UNCHANGED <<status, struck>>
    BY <1>1, <1>2 DEF WholeRows
<1>3. ASSUME NEW u \in Uuid, status' = status, struck' = struck \cup {u} PROVE Whole!Next
    BY <1>1, <1>3, WholeStep
<1>4. ASSUME NEW u \in Uuid, NEW s \in Verdict \cup {"human-approved", "human-rejected"},
             status' = [status EXCEPT ![u] = s], struck' \in {struck, struck \cup {u}},
             \/ status[u] = "pending" /\ s \in Verdict
             \/ u \in struck /\ status[u] \in Present \ {"pending"} /\ s \in Verdict
             \/ status[u] \in Eligible /\ s \in {"human-approved", "human-rejected"}
      PROVE  Whole!Next
    <2>1. status[u] \in Present /\ s \in Present \ {"pending"} /\ u \in published
        BY <1>4 DEF Present, Verdict, Eligible
    <2>2. published' = published /\ \A v \in Uuid \ {u} : pStatus'[v] = pStatus[v]
        BY <1>4, AgentMoves DEF Judged, pVars, PP!AgentDecides, PP!sinks
    <2>3. \A v \in Uuid \ {u} : WholeRow(v)' = WholeRow(v)
        BY <1>4, <2>2
    <2>4. WholeRow(u) = status[u] /\ WholeRow(u)' = s
        BY <1>4, <2>1, <2>2
    <2> HIDE DEF TableAgrees, CInv, IInv, TypeOK, PP!IInv, PP!TypeOK, WholeRow, Row
    <2> QED
        BY <1>4, <2>3, <2>4, WholeStep
<1> QED
    BY <1>2, <1>3, <1>4, AgentTableStruck

\* The services together take every row through its life, whatever the faults of
\* either; those of the Agent cost only the rows they strike.
THEOREM PipelineLife == PipelineSpec => PipelineImplementsLifecycle
<1>1. PipelineInit => Whole!Init
    BY DEF PipelineInit, Init, P!Init, Whole!Init, WholeRows, WholeRow
<1>2. PP!IInv /\ CInv /\ TableAgrees /\ [PipelineNext]_allVars =>
          [Whole!Next]_<<WholeRows, struck>>
    <2>1. ASSUME UNCHANGED allVars PROVE UNCHANGED <<WholeRows, struck>>
        BY <2>1 DEF allVars, vars, history, table, pVars, WholeRows, WholeRow, Row
    <2> QED
        BY <2>1, LifeOfPublisherStep, LifeOfAgentStep DEF PipelineNext, CInv
<1> QED
    BY <1>1, <1>2, BothInductive, ViewsAgree, OnceInductive, PipelineRunsAgent, PTL
    DEF PipelineSpec, PipelineImplementsLifecycle, Whole!Spec

\* The two names of the life stand for one specification, so that what follows from
\* it holds of the table of the whole system.
WL == INSTANCE LifecycleProofs WITH status <- WholeRows

LEMMA SameLife == Whole!Spec <=> WL!Spec
<1>1. Whole!Init <=> WL!Init
    BY DEF Whole!Init, WL!Init
<1>2. Whole!Next <=> WL!Next
    BY DEF Whole!Next, WL!Next, Whole!Move, WL!Move, Whole!Moves, WL!Moves, Whole!Submit,
       WL!Submit, Whole!Escalate, WL!Escalate, Whole!Withdraw, WL!Withdraw, Whole!Decide,
       WL!Decide, Whole!Overwrite, WL!Overwrite, Whole!Review, WL!Review, Whole!Verdict,
       WL!Verdict, Whole!Human, WL!Human, Whole!Eligible, WL!Eligible, Whole!Decided, WL!Decided
<1> QED
    BY <1>1, <1>2, PTL DEF Whole!Spec, WL!Spec

\* End to end, approved is final and a decided row the reviewers', for every row whose
\* message no fault of the Agent has struck; whatever its own or the publisher's
\* replicas suffer otherwise.
THEOREM ApprovalsStandEndToEnd ==
    PipelineSpec => WL!ApprovalsStand /\ WL!OnlyReviewed
BY PipelineLife, SameLife, WL!LifeApprovalsStand, WL!LifeOnlyReviewed, PTL
DEF PipelineImplementsLifecycle

\* End to end, no fault of any service takes a verdict back: a request that has one
\* has one for good.
THEOREM VerdictsStayEndToEnd == PipelineSpec => WL!VerdictsStay
BY PipelineLife, SameLife, WL!LifeVerdictsStay, PTL DEF PipelineImplementsLifecycle
===============================================================================
