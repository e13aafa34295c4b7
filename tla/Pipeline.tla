------------------------------- MODULE Pipeline -------------------------------
(***************************************************************************)
(* The publisher, the Agent and the reviewers over one reimbursement       *)
(* table.  A step of the system is a step of one of them.  Where it        *)
(* concerns a row the other service knows, it is at the same time the step *)
(* the other's model makes of it: a message that reaches the Reimbursement *)
(* topic is the Agent's Announce, the compensating delete of an announced  *)
(* row its Withdraw, and the Agent's first write to a row the publisher's  *)
(* AgentDecides.                                                           *)
(*                                                                         *)
(* Names without a prefix are the Agent's; the publisher's are P!...       *)
(***************************************************************************)
EXTENDS Agent

CONSTANTS
    Item, KeyOf, Malformed, Unstorable, Batch, Worker, NoRow, Concurrency, MaxPosts,
    \* bounds: faults of the publisher's replicas
    PublisherCrashes, PublisherRebalances, PublisherLostCommits

ASSUME PipelineAssumption ==
    /\ Batch \subseteq SUBSET Item
    /\ Item # {} /\ NoRow \notin Uuid
    /\ Concurrency \in Nat \ {0}
    /\ {MaxPosts, PublisherCrashes, PublisherRebalances, PublisherLostCommits} \subseteq Nat

VARIABLES
    \* the publisher's topic, units of work and view of the table
    pLog, pCommitted, pJob, pStage, pRow, pStatus, content, pReported,
    published, undeleted, posted, moved, cause, faults

P == INSTANCE Publisher WITH
        log <- pLog, committed <- pCommitted, job <- pJob, stage <- pStage, row <- pRow,
        status <- pStatus, reported <- pReported,
        MaxCrashes <- PublisherCrashes, MaxRebalances <- PublisherRebalances,
        MaxLostCommits <- PublisherLostCommits

pVars == <<pLog, pCommitted, pJob, pStage, pRow, pStatus, content, pReported,
           published, undeleted, posted, moved, cause, faults>>
allVars == <<vars, pVars>>

PipelineInit == Init /\ P!Init

\* What a step of the publisher is to the Agent and the reviewers.
Withdrawn(u) == u \in published /\ pStatus[u] = "pending" /\ pStatus'[u] = "deleted"
AgentSees ==
    \/ \E u \in Uuid : u \in published' \ published /\ Announce(u)
    \/ \E u \in Uuid : Withdrawn(u) /\ Withdraw(u)
    \/ published' = published /\ (\A u \in Uuid : ~Withdrawn(u)) /\ UNCHANGED vars

PublisherStep ==
    /\ \/ \E b \in Batch : P!Post(b)
       \/ \E w \in Worker, n \in 1..Len(pLog) : P!Consume(w, n) \/ P!Redeliver(w, n)
       \/ \E w \in Worker : P!Commit(w) \/ P!Crash(w)
       \/ \E w \in Worker, i \in Item : P!Unit(w, i)
    /\ AgentSees

\* What a step of the Agent or of a reviewer is to the publisher.
Judged(u) == status[u] = "pending" /\ status'[u] # "pending"
PublisherSees ==
    \/ \E u \in Uuid : Judged(u) /\ P!AgentDecides(u)
    \/ (\A u \in Uuid : ~Judged(u)) /\ UNCHANGED pVars

AgentStep ==
    /\ \/ \E u \in Uuid, s \in {"human-approved", "human-rejected"} : Review(u, s)
       \/ \E r \in Replica, n \in 1..Len(log) : Consume(r, n) \/ Redeliver(r, n)
       \/ \E r \in Replica : Commit(r) \/ Crash(r) \/ Handle(r)
    /\ PublisherSees

PipelineNext == PublisherStep \/ AgentStep

PipelineSpec == PipelineInit /\ [][PipelineNext]_allVars

\* The fairness of each service: a replica that is up polls and runs on.
PipelineFairSpec ==
    /\ PipelineSpec
    /\ \A w \in Worker :
        /\ WF_allVars((\E n \in 1..Len(pLog) : P!Consume(w, n)) /\ AgentSees)
        /\ WF_allVars(P!Commit(w) /\ AgentSees)
        /\ \A i \in Item : WF_allVars(P!Unit(w, i) /\ AgentSees)
    /\ \A r \in Replica :
        /\ WF_allVars((\E n \in 1..Len(log) : Consume(r, n)) /\ PublisherSees)
        /\ WF_allVars(Commit(r) /\ PublisherSees)
        /\ WF_allVars(Handle(r) /\ PublisherSees)

------------------------------------------------------------------------------
(* Properties. *)

\* Both services' views of the one table agree, whatever races between them: the
\* Agent knows the rows that were announced, a row it has decided was there to
\* decide and is never taken back, and one taken back is gone for both.
TableAgrees ==
    \A u \in Uuid :
        \/ u \notin published /\ status[u] = "none" /\ pStatus[u] # "decided"
        \/ u \in published /\ pStatus[u] \in {"pending", "deleted"} /\ status[u] = pStatus[u]
        \/ u \in published /\ pStatus[u] = "decided" /\ status[u] \in Present \ {"pending"}

\* Who answers for a request: a failure log, or a row that has a verdict, is before
\* a person, or is named by a record of either service's failure log.
Answered(k) ==
    \/ P!Reported(k)
    \/ \E u \in Uuid : /\ P!RowFor(k, u)
                       /\ pStatus[u] # "pending" \/ u \in undeleted \cup reported

\* The row a crash or a lost COMMIT of the publisher cut off from its message: it is
\* pending, nobody knows of it, and its key keeps the request from being taken again.
Stranded(k) ==
    \E u \in Uuid : /\ P!RowFor(k, u) /\ pStatus[u] = "pending" /\ u \notin published
                    /\ cause[u] \in P!Cause \ {"none", "delete-failed"}

\* End to end: between the offset of the one topic, the row, the message on the
\* other and both failure logs an accepted request never falls through, whoever
\* crashes or retries, unless a rebalance of the publisher hands its record out twice
\* or a crash or a lost COMMIT strands its row.
RequestsHeld ==
    \A k \in P!Keys \ moved :
        \/ Answered(k) \/ Stranded(k)
        \/ \E n \in P!Pending : P!Carries(n, k)
        \/ \E u \in Uuid, n \in Pending : P!RowFor(k, u) /\ log[n].uuid = u

\* A row as the whole system has it.
WholeRow(u) ==
    IF u \in published THEN Row(u)
    ELSE IF pStatus[u] \in {"pending", "human-review"} THEN pStatus[u] ELSE "absent"

\* End to end, at most one row of a request is ever given a verdict.  A request
\* that is sent again, redelivered or requeued gets a new row when the compensating
\* delete has freed its key, while the message of the old row may still be on its
\* way to the Agent.  How often that one row is judged is the matter of DecidesOnce:
\* more than once, if a fault of the Agent struck it.
Judgement(u) == WholeRow(u) \notin {"absent", "pending"}
OneRowJudged ==
    \A u, v \in Uuid :
        Judgement(u) /\ Judgement(v) /\ KeyOf[content[u]] = KeyOf[content[v]] => u = v

\* End to end: what the API accepted gets in the end a verdict, a person or a line
\* in a failure log, though a withdrawn row makes it start again.  The exceptions
\* may get none of the three: a stranded row stays pending for ever, and a request
\* whose record a rebalance of the publisher handed out twice may be lost.
EveryRequestAnswered ==
    \A i \in Item : (i \in posted) ~>
        (Answered(KeyOf[i]) \/ Stranded(KeyOf[i]) \/ KeyOf[i] \in moved)

\* The two services and the reviewers together take a row through its abstract
\* life: neither of them enforces it.
WholeRows == [u \in Uuid |-> WholeRow(u)]
Whole == INSTANCE Lifecycle WITH status <- WholeRows
PipelineImplementsLifecycle == Whole!Spec
==============================================================================
