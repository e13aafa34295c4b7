------------------------------ MODULE Publisher ------------------------------
(***************************************************************************)
(* The publisher service: replicas of one consumer group read the Request  *)
(* topic, fan the items of a record out under a semaphore, insert a        *)
(* pending row for each, publish its Reimbursement message, undo the       *)
(* insert when that publish fails, requeue what failed and, past the retry *)
(* ceiling, leave the item to a human.  A record's offset is committed     *)
(* once all of its items have settled.                                     *)
(*                                                                         *)
(* The environment is modelled by what the code can observe of it: any     *)
(* statement may fail, a COMMIT may take effect and still report a         *)
(* failure, a publish may be delivered and still report one, a replica may *)
(* die between any two steps, and a rebalance may hand a record to a       *)
(* second replica while the first is still at work on it.                  *)
(***************************************************************************)
EXTENDS Integers, Sequences, FiniteSets

CONSTANTS
    Item,          \* request items as clients send them
    KeyOf,         \* item -> (request_id, lower(submitted_by)), the dedup key
    Malformed,     \* items that are no ReimbursementRequest
    Unstorable,    \* valid items that a CHECK of the table refuses
    Batch,         \* payloads a Request record may carry (a set of sets of items)
    Worker,        \* replicas of the publisher
    Uuid, NoRow,   \* row identities, and the absence of one
    MaxRetry,      \* shared.config.MAX_RETRY
    Concurrency,   \* PublisherConfig.item_concurrency
    MaxPosts,      \* bound: records the API puts on the topic
    \* bounds: faults of each kind
    MaxCrashes, MaxRebalances, MaxLostCommits, MaxFalseNegatives

ASSUME PublisherAssumption ==
    /\ Batch \subseteq SUBSET Item
    /\ Item # {} /\ NoRow \notin Uuid
    /\ MaxRetry \in Nat /\ Concurrency \in Nat \ {0}
    /\ {MaxPosts, MaxCrashes, MaxRebalances, MaxLostCommits, MaxFalseNegatives} \subseteq Nat

VARIABLES
    log,        \* Request topic: every record ever appended
    committed,  \* offsets the consumer group has committed
    job,        \* worker -> offset it is processing, 0 when it is polling
    stage,      \* worker -> item -> where its unit of work stands
    row,        \* worker -> item -> row its unit of work inserted
    status,     \* reimbursement table: uuid -> status
    content,    \* reimbursement table: uuid -> item it was inserted from
    published,  \* uuids with a message on the Reimbursement topic
    reported,   \* items with a record in the failure log
    undeleted,  \* uuids with a compensating_delete_failed record there
    posted,     \* history: items some Request record has carried
    moved,      \* history: keys of the records handed to a second replica
    cause,      \* history: uuid -> what cut its unit of work short
    faults      \* history: how often each fault has struck

topic == <<log, committed>>
units == <<job, stage, row>>
table == <<status, content>>
sinks == <<published, reported, undeleted>>
past == <<posted, moved>>
history == <<past, cause, faults>>
vars == <<topic, units, table, sinks, history>>

Stage == {"idle", "queued", "publishing", "compensating", "requeueing", "settled"}
Running == {"publishing", "compensating", "requeueing"}
Stored == {"pending", "decided", "human-review"}
Status == Stored \cup {"none", "deleted"}
Cause == {"none", "lost-commit", "crash-publishing", "crash-compensating", "delete-failed"}
Fault == {"crash", "rebalance", "lost-commit", "false-negative"}
MaxFaults(f) == CASE f = "crash"     -> MaxCrashes
                  [] f = "rebalance" -> MaxRebalances
                  [] f = "lost-commit" -> MaxLostCommits
                  [] f = "false-negative" -> MaxFalseNegatives
Envelope == [retry : Nat, payload : SUBSET Item]

Pending == (1..Len(log)) \ committed
RowFor(k, u) == status[u] \in Stored /\ KeyOf[content[u]] = k
HasRow(k) == \E u \in Uuid : RowFor(k, u)

Init ==
    /\ log = <<>> /\ committed = {}
    /\ job = [w \in Worker |-> 0]
    /\ stage = [w \in Worker |-> [i \in Item |-> "idle"]]
    /\ row = [w \in Worker |-> [i \in Item |-> NoRow]]
    /\ status = [u \in Uuid |-> "none"]
    /\ content \in [Uuid -> {CHOOSE i \in Item : TRUE}]
    /\ published = {} /\ reported = {} /\ undeleted = {}
    /\ posted = {} /\ moved = {}
    /\ cause = [u \in Uuid |-> "none"]
    /\ faults = [f \in Fault |-> 0]

Strike(f) == /\ faults[f] < MaxFaults(f)
             /\ faults' = [faults EXCEPT ![f] = @ + 1]
\* A call that fails, or took effect and is still reported as failed.
Fails(tookEffect) == IF tookEffect THEN Strike("false-negative") ELSE UNCHANGED faults

------------------------------------------------------------------------------
(* The consumer loop. *)

\* The API publishes an accepted batch; a client that saw a 500 may send the
\* same batch again.  An empty payload also stands for a tombstone or a
\* record that does not parse: no item of it reaches a handler.
Post(b) ==
    /\ Cardinality({n \in 1..Len(log) : log[n].retry = 0}) < MaxPosts
    /\ log' = Append(log, [retry |-> 0, payload |-> b])
    /\ posted' = posted \cup b
    /\ UNCHANGED <<committed, units, table, sinks, moved, cause, faults>>

Take(w, n) ==
    /\ job[w] = 0
    /\ n \in Pending
    /\ job' = [job EXCEPT ![w] = n]
    /\ stage' = [stage EXCEPT ![w] =
                    [i \in Item |-> IF i \in log[n].payload THEN "queued" ELSE "idle"]]
    /\ UNCHANGED <<topic, row, table, sinks, posted, cause>>

\* consume(num_messages = 1) from an assigned partition.
Consume(w, n) ==
    /\ \A v \in Worker : job[v] # n
    /\ Take(w, n)
    /\ UNCHANGED <<moved, faults>>

\* The same record, after a rebalance moved its partition away from a
\* replica that has not committed it and goes on with its units of work.
Redeliver(w, n) ==
    /\ \E v \in Worker : job[v] = n
    /\ Take(w, n)
    /\ moved' = moved \cup {KeyOf[i] : i \in log[n].payload}
    /\ Strike("rebalance")

Leave(w) ==
    /\ job' = [job EXCEPT ![w] = 0]
    /\ stage' = [stage EXCEPT ![w] = [i \in Item |-> "idle"]]
    /\ row' = [row EXCEPT ![w] = [i \in Item |-> NoRow]]

\* Mutants of Commit: the offset moves before the items have settled; it is
\* the position after the record instead of the record.
CommitUnsettled(w) ==
    /\ job[w] # 0
    /\ committed' = committed \cup {job[w]}
    /\ Leave(w)
    /\ UNCHANGED <<log, table, sinks, history>>

CommitNextOffset(w) ==
    /\ job[w] # 0
    /\ \A i \in log[job[w]].payload : stage[w][i] = "settled"
    /\ committed' = committed \cup {job[w] + 1}
    /\ Leave(w)
    /\ UNCHANGED <<log, table, sinks, history>>

\* gather has returned: every item settled, the offset moves.
Commit(w) ==
    /\ job[w] # 0
    /\ \A i \in log[job[w]].payload : stage[w][i] = "settled"
    /\ committed' = committed \cup {job[w]}
    /\ Leave(w)
    /\ UNCHANGED <<log, table, sinks, history>>

\* The process dies, or its commit raises out of the loop and ends it.
Crash(w) ==
    /\ job[w] # 0
    /\ Leave(w)
    /\ cause' = [u \in Uuid |->
                    IF \E i \in Item : row[w][i] = u
                    THEN IF \E i \in Item : row[w][i] = u /\ stage[w][i] = "publishing"
                         THEN "crash-publishing" ELSE "crash-compensating"
                    ELSE cause[u]]
    /\ Strike("crash")
    /\ UNCHANGED <<topic, table, sinks, past>>

------------------------------------------------------------------------------
(* One item's unit of work. *)

Goto(w, i, from, to) ==
    /\ stage[w][i] = from
    /\ stage' = [stage EXCEPT ![w][i] = to]

\* The item obtains the semaphore; a step that ends in a Running stage keeps it.
Enter(w, i, to) ==
    /\ Cardinality({j \in Item : stage[w][j] \in Running}) < Concurrency
    /\ Goto(w, i, "queued", to)

\* Mutant of Process: the handler is not picked by the retry count.
ProcessAnyway(w, i, to) == i \notin Malformed /\ Enter(w, i, to)

\* handle_message picks the handler once, from the envelope's retry count.
Process(w, i, to) ==
    i \notin Malformed /\ Enter(w, i, to) /\ log[job[w]].retry =< MaxRetry
Escalating(w, i) ==
    i \notin Malformed /\ Enter(w, i, "settled") /\ log[job[w]].retry > MaxRetry

Store(u, i, s) ==
    /\ i \notin Unstorable
    /\ ~HasRow(KeyOf[i])
    /\ status[u] = "none"
    /\ status' = [status EXCEPT ![u] = s]
    /\ content' = [content EXCEPT ![u] = i]

\* _accepts refuses the item: no retry can mend it.
Reject(w, i) ==
    /\ i \in Malformed
    /\ Enter(w, i, "settled")
    /\ reported' = reported \cup {i}
    /\ UNCHANGED <<topic, job, row, table, published, undeleted, history>>

Insert(w, i, u) ==
    /\ Process(w, i, "publishing")
    /\ Store(u, i, "pending")
    /\ row' = [row EXCEPT ![w][i] = u]
    /\ UNCHANGED <<topic, job, sinks, history>>

InsertDuplicate(w, i) ==
    /\ i \notin Unstorable
    /\ HasRow(KeyOf[i])
    /\ Process(w, i, "settled")
    /\ UNCHANGED <<topic, job, row, table, sinks, history>>

\* No connection in time, a timed-out statement, a CHECK.
InsertFails(w, i) ==
    /\ Process(w, i, "requeueing")
    /\ UNCHANGED <<topic, job, row, table, sinks, history>>

\* COMMIT took effect and its acknowledgement was lost.
InsertCommitLost(w, i, u) ==
    /\ Process(w, i, "requeueing")
    /\ Store(u, i, "pending")
    /\ cause' = [cause EXCEPT ![u] = "lost-commit"]
    /\ Strike("lost-commit")
    /\ UNCHANGED <<topic, job, row, sinks, past>>

Publish(w, i) ==
    /\ Goto(w, i, "publishing", "settled")
    /\ published' = published \cup {row[w][i]}
    /\ row' = [row EXCEPT ![w][i] = NoRow]
    /\ UNCHANGED <<topic, job, table, reported, undeleted, history>>

\* The connection fails to return to the pool after the publish: the item is
\* announced and requeued all the same, to be dropped as its own duplicate.
PublishUnreleased(w, i) ==
    /\ Goto(w, i, "publishing", "requeueing")
    /\ published' = published \cup {row[w][i]}
    /\ row' = [row EXCEPT ![w][i] = NoRow]
    /\ Strike("false-negative")
    /\ UNCHANGED <<topic, job, table, reported, undeleted, past, cause>>

\* PublishFailed, which does not mean the broker has not delivered.
PublishFails(w, i, delivered) ==
    /\ Goto(w, i, "publishing", "compensating")
    /\ published' = IF delivered THEN published \cup {row[w][i]} ELSE published
    /\ Fails(delivered)
    /\ UNCHANGED <<topic, job, row, table, reported, undeleted, past, cause>>

\* Mutant of DeletePending: DELETE ... WHERE uuid = $1.
DeleteRow(u) == status' = [status EXCEPT ![u] = "deleted"]

\* DELETE ... WHERE uuid = $1 AND status = 'pending'.
DeletePending(u) ==
    status' = IF status[u] = "pending" THEN [status EXCEPT ![u] = "deleted"] ELSE status

\* Mutant of Compensate: the insert is not undone.
CompensateNothing(w, i) ==
    /\ Goto(w, i, "compensating", "requeueing")
    /\ row' = [row EXCEPT ![w][i] = NoRow]
    /\ UNCHANGED <<topic, job, table, sinks, history>>

Compensate(w, i) ==
    /\ Goto(w, i, "compensating", "requeueing")
    /\ DeletePending(row[w][i])
    /\ row' = [row EXCEPT ![w][i] = NoRow]
    /\ UNCHANGED <<topic, job, content, sinks, history>>

\* Mutant of CompensateFails: the row it could not delete is not reported.
CompensateFailsUnseen(w, i, deleted) ==
    /\ Goto(w, i, "compensating", "requeueing")
    /\ IF deleted THEN DeletePending(row[w][i]) ELSE UNCHANGED status
    /\ row' = [row EXCEPT ![w][i] = NoRow]
    /\ Fails(deleted)
    /\ UNCHANGED <<topic, job, content, sinks, past, cause>>

CompensateFails(w, i, deleted) ==
    /\ Goto(w, i, "compensating", "requeueing")
    /\ IF deleted THEN DeletePending(row[w][i]) ELSE UNCHANGED status
    /\ undeleted' = undeleted \cup {row[w][i]}
    /\ cause' = [cause EXCEPT ![row[w][i]] = "delete-failed"]
    /\ row' = [row EXCEPT ![w][i] = NoRow]
    /\ Fails(deleted)
    /\ UNCHANGED <<topic, job, content, published, reported, past>>

Retried(w, i) == Append(log, [retry |-> log[job[w]].retry + 1, payload |-> {i}])

Requeue(w, i) ==
    /\ Goto(w, i, "requeueing", "settled")
    /\ log' = Retried(w, i)
    /\ UNCHANGED <<committed, job, row, table, sinks, history>>

\* Mutants of RequeueFails: the item starts over instead of being reported; the
\* requeue itself is tried again.
RequeueFailsRestart(w, i, delivered) ==
    /\ Goto(w, i, "requeueing", "queued")
    /\ UNCHANGED <<topic, job, row, table, sinks, history>>

RequeueFailsAgain(w, i, delivered) ==
    /\ Goto(w, i, "requeueing", "requeueing")
    /\ log' = IF delivered THEN Retried(w, i) ELSE log
    /\ Fails(delivered)
    /\ UNCHANGED <<committed, job, row, table, sinks, past, cause>>

RequeueFails(w, i, delivered) ==
    /\ Goto(w, i, "requeueing", "settled")
    /\ log' = IF delivered THEN Retried(w, i) ELSE log
    /\ reported' = reported \cup {i}
    /\ Fails(delivered)
    /\ UNCHANGED <<committed, job, row, table, published, undeleted, past, cause>>

Escalate(w, i, u) ==
    /\ Escalating(w, i)
    /\ Store(u, i, "human-review")
    /\ UNCHANGED <<topic, job, row, sinks, history>>

EscalateDuplicate(w, i) ==
    /\ i \notin Unstorable
    /\ HasRow(KeyOf[i])
    /\ Escalating(w, i)
    /\ UNCHANGED <<topic, job, row, table, sinks, history>>

\* Mutant of EscalateFails: no last-resort record.
EscalateFailsUnseen(w, i) ==
    /\ Escalating(w, i)
    /\ UNCHANGED <<topic, job, row, table, sinks, history>>

EscalateFails(w, i) ==
    /\ Escalating(w, i)
    /\ reported' = reported \cup {i}
    /\ UNCHANGED <<topic, job, row, table, published, undeleted, history>>

\* The row is committed and the connection fails, on the COMMIT or on its release.
EscalateCommitLost(w, i, u) ==
    /\ Escalating(w, i)
    /\ Store(u, i, "human-review")
    /\ reported' = reported \cup {i}
    /\ Strike("lost-commit")
    /\ UNCHANGED <<topic, job, row, published, undeleted, past, cause>>

\* The consumer of the Reimbursement topic writes a status other than pending.
AgentDecides(u) ==
    /\ u \in published
    /\ status[u] = "pending"
    /\ status' = [status EXCEPT ![u] = "decided"]
    /\ UNCHANGED <<topic, units, content, sinks, history>>

------------------------------------------------------------------------------
Unit(w, i) ==
    \/ Reject(w, i)
    \/ InsertDuplicate(w, i) \/ InsertFails(w, i)
    \/ \E u \in Uuid : \/ Insert(w, i, u) \/ InsertCommitLost(w, i, u)
                       \/ Escalate(w, i, u) \/ EscalateCommitLost(w, i, u)
    \/ Publish(w, i) \/ PublishUnreleased(w, i) \/ Compensate(w, i) \/ Requeue(w, i)
    \/ \E flag \in BOOLEAN : \/ PublishFails(w, i, flag)
                             \/ CompensateFails(w, i, flag)
                             \/ RequeueFails(w, i, flag)
    \/ EscalateDuplicate(w, i) \/ EscalateFails(w, i)

Next ==
    \/ \E b \in Batch : Post(b)
    \/ \E w \in Worker, n \in 1..Len(log) : Consume(w, n) \/ Redeliver(w, n)
    \/ \E w \in Worker : Commit(w) \/ Crash(w)
    \/ \E w \in Worker, i \in Item : Unit(w, i)
    \/ \E u \in Uuid : AgentDecides(u)

Spec == Init /\ [][Next]_vars

\* A replica that is up keeps polling and its event loop keeps running the
\* items of its record (every await in them is bounded by a timeout).
FairSpec ==
    /\ Spec
    /\ \A w \in Worker :
        /\ WF_vars(\E n \in 1..Len(log) : Consume(w, n))
        /\ WF_vars(Commit(w))
        /\ \A i \in Item : WF_vars(Unit(w, i))

------------------------------------------------------------------------------
(* Properties. *)

TypeOK ==
    /\ log \in Seq(Envelope)
    /\ committed \subseteq 1..Len(log)
    /\ job \in [Worker -> Nat] /\ \A w \in Worker : job[w] <= Len(log)
    /\ stage \in [Worker -> [Item -> Stage]]
    /\ row \in [Worker -> [Item -> Uuid \cup {NoRow}]]
    /\ status \in [Uuid -> Status]
    /\ content \in [Uuid -> Item]
    /\ published \subseteq Uuid /\ reported \subseteq Item /\ undeleted \subseteq Uuid
    /\ posted \subseteq Item /\ moved \subseteq {KeyOf[i] : i \in Item}
    /\ cause \in [Uuid -> Cause]
    /\ faults \in [Fault -> Nat]

Keys == {KeyOf[i] : i \in posted}
Carries(n, k) == \E i \in log[n].payload : KeyOf[i] = k
Reported(k) == \E i \in reported : KeyOf[i] = k

\* No request is lost: whatever has entered the Request topic is in a record
\* still to be committed, in the table, or in the failure log.  Processing is
\* at-least-once, a duplicate is dropped on the strength of another unit's row,
\* and that unit may yet delete it, so no single handler can promise this.  It
\* holds through crashes and lost acknowledgements; a rebalance breaks it for the
\* requests of the record it hands out a second time and for no other.
NothingLost ==
    \A k \in Keys \ moved : HasRow(k) \/ Reported(k) \/ \E n \in Pending : Carries(n, k)

\* docs/SCOPE.md, Key Decisions: "Never lose a reimbursement, send to Human Review if
\* anything fails in the process, fallback to logs".  Weaker than NothingLost:
\* a request that only a unit of work in some replica's memory holds counts.
InHand(k) == \E w \in Worker, i \in Item :
                KeyOf[i] = k /\ stage[w][i] \notin {"idle", "settled"}
NeverLose == \A k \in Keys : \/ HasRow(k) \/ Reported(k) \/ InHand(k)
                             \/ \E n \in Pending : Carries(n, k)

Held(u) == \E w \in Worker, i \in Item : row[w][i] = u
Orphan(u) == status[u] = "pending" /\ u \notin published /\ ~Held(u)

\* A pending row that no unit of work owns and no message announces was cut
\* off by a crash, a lost COMMIT acknowledgement or a failed compensating
\* delete: there is no fourth way for publish_pending to leave one behind.
OrphansHaveACause == \A u \in Uuid : Orphan(u) => cause[u] # "none"

\* docs/RISKS.md, R-001: an orphaned pending row "is possible only if the
\* process crashes in the specific window between a publish failure being
\* detected and the compensating DELETE completing".
OrphansOnlyFromDeleteWindow ==
    \A u \in Uuid : Orphan(u) => cause[u] \in {"crash-compensating", "delete-failed"}

\* A dropped duplicate, a settled item and a committed offset all leave the
\* request with somebody: unless it is still queued or in the failure log, its
\* row has been announced to the Agent, decided, or reported as undeletable.  A
\* crash and a lost COMMIT acknowledgement cost no request but the one whose row
\* they cut off, a rebalance none but those of the record it hands out again.
Answered(k) ==
    \/ Reported(k)
    \/ \E u \in Uuid : RowFor(k, u) /\ (status[u] # "pending" \/ u \in published \cup undeleted)
CutOff(k) ==
    \/ k \in moved
    \/ \E u \in Uuid : RowFor(k, u) /\ cause[u] \in Cause \ {"none", "delete-failed"}
SettledIsAnswered ==
    \A k \in Keys : Answered(k) \/ CutOff(k) \/ \E n \in Pending : Carries(n, k)

\* The compensating delete races the Agent, which may have the message of a
\* publish that was reported as failed: a decided row is never removed and
\* never becomes pending again, nor does an escalated one.
DecidedRowsSurvive ==
    [][\A u \in Uuid : status[u] \in {"decided", "human-review"} => status'[u] = status[u]]_vars

\* The retry ceiling, the failure log and redelivery together drain the topic:
\* whatever fails, every record's offset is committed in the end.
TopicDrains == <>[](committed = 1..Len(log))

\* What a retry costs.  The ceiling ends the retries of an item, and an item whose
\* units of work fail, publish in vain or compensate is requeued at most once for
\* each record that carries it: it is at every retry count as often as at the one
\* before, but for the units of work that were started again.  A crash and a
\* rebalance of the publisher start one again each, and nothing else does.
Copies(i, c) == {n \in 1..Len(log) : log[n].retry = c /\ i \in log[n].payload}
Restarts == faults["crash"] + faults["rebalance"]
RetriesEnd ==
    /\ \A n \in 1..Len(log) : log[n].retry <= MaxRetry + 1
    /\ \A i \in Item, c \in 0..MaxRetry :
          Cardinality(Copies(i, c + 1)) <= Cardinality(Copies(i, c)) + Restarts

\* Every request the API accepted is in the end announced, escalated or
\* reported, or cut off by one of those faults.
EveryRequestAnswered ==
    \A i \in Item : (i \in posted) ~> (Answered(KeyOf[i]) \/ CutOff(KeyOf[i]))
==============================================================================
