-------------------------------- MODULE Agent --------------------------------
(***************************************************************************)
(* The agent service: replicas of one consumer group read the              *)
(* Reimbursement topic one message at a time, resolve the row it announces, *)
(* decide it and write the decision; what cannot be resolved is published  *)
(* again with its retry count raised, what cannot be decided or is past the *)
(* retry ceiling goes to a human.  Reviewers meanwhile approve and reject  *)
(* rows through the API.                                                   *)
(*                                                                         *)
(* A message is ignored when the row is younger than the message.  Both    *)
(* stamps are taken from one logical clock: the publisher's and the        *)
(* database's clocks are assumed to agree.                                 *)
(***************************************************************************)
EXTENDS Integers, Sequences, FiniteSets

CONSTANTS
    Uuid,        \* rows the publisher announces
    Replica,     \* replicas of the agent
    MaxRetry,    \* shared.config.MAX_RETRY
    \* bounds: faults of each kind, and decisions of human reviewers
    MaxCrashes, MaxRebalances, MaxLostAcks, MaxFalseNegatives, MaxReviews

ASSUME AgentAssumption ==
    {MaxRetry, MaxCrashes, MaxRebalances, MaxLostAcks, MaxFalseNegatives, MaxReviews} \subseteq Nat

VARIABLES
    log,        \* Reimbursement topic: every message ever appended
    committed,  \* offsets the consumer group has committed
    clock,      \* the latest time stamp given out
    status,     \* reimbursement table: uuid -> status
    updated,    \* reimbursement table: uuid -> updated_at
    job,        \* replica -> offset it is handling, 0 when it is polling
    stage,      \* replica -> where its handler stands
    reported,   \* uuids with a record in the agent's failure log
    counts,     \* history: how often each fault, and a review, has happened
    struck      \* history: uuids whose message was in hand when a fault struck

topic == <<log, committed>>
table == <<status, updated>>
history == <<counts, struck>>
vars == <<topic, clock, table, job, stage, reported, history>>

Stage == {"polling", "received", "deciding", "escalating", "requeueing", "handled"}
Verdict == {"auto-approved", "auto-rejected", "human-review"}
Eligible == {"human-review", "auto-rejected", "human-rejected"}
Present == {"pending", "human-approved"} \cup Verdict \cup Eligible
Status == Present \cup {"none", "deleted"}
Event == {"crash", "rebalance", "lost-ack", "false-negative", "review"}
MaxEvents(e) == CASE e = "crash"     -> MaxCrashes
                  [] e = "rebalance" -> MaxRebalances
                  [] e = "lost-ack"  -> MaxLostAcks
                  [] e = "false-negative" -> MaxFalseNegatives
                  [] e = "review"    -> MaxReviews
Envelope == [uuid : Uuid, retry : Nat, at : Nat]

Pending == (1..Len(log)) \ committed
Message(r) == log[job[r]]

Init ==
    /\ log = <<>> /\ committed = {} /\ clock = 0
    /\ status = [u \in Uuid |-> "none"]
    /\ updated = [u \in Uuid |-> 0]
    /\ job = [r \in Replica |-> 0]
    /\ stage = [r \in Replica |-> "polling"]
    /\ reported = {}
    /\ counts = [e \in Event |-> 0]
    /\ struck = {}

Count(e) == /\ counts[e] < MaxEvents(e)
            /\ counts' = [counts EXCEPT ![e] = @ + 1]
Happens(e) == Count(e) /\ UNCHANGED struck

\* A fault that strikes while the message of u is being handled.
Strikes(e, u) == Count(e) /\ struck' = struck \cup {u}

\* UPDATE ... SET status = s, updated_at = now(), of a row that exists.
Write(u, s) ==
    /\ status[u] \in Present
    /\ clock' = clock + 1
    /\ status' = [status EXCEPT ![u] = s]
    /\ updated' = [updated EXCEPT ![u] = clock + 1]

------------------------------------------------------------------------------
(* The other parties. *)

\* Mutant of Announce: the message is stamped before the row is inserted.
AnnounceEarly(u) ==
    /\ status[u] = "none"
    /\ clock' = clock + 2
    /\ status' = [status EXCEPT ![u] = "pending"]
    /\ updated' = [updated EXCEPT ![u] = clock + 2]
    /\ log' = Append(log, [uuid |-> u, retry |-> 0, at |-> clock + 1])
    /\ UNCHANGED <<committed, job, stage, reported, history>>

\* publish_pending: INSERT, then the message stamped with the time of its making.
Announce(u) ==
    /\ status[u] = "none"
    /\ clock' = clock + 2
    /\ status' = [status EXCEPT ![u] = "pending"]
    /\ updated' = [updated EXCEPT ![u] = clock + 1]
    /\ log' = Append(log, [uuid |-> u, retry |-> 0, at |-> clock + 2])
    /\ UNCHANGED <<committed, job, stage, reported, history>>

\* The compensating delete after a publish that was delivered and still failed.
Withdraw(u) ==
    /\ status[u] = "pending"
    /\ status' = [status EXCEPT ![u] = "deleted"]
    /\ UNCHANGED <<topic, clock, updated, job, stage, reported, history>>

\* Mutant of Review: the UPDATE is not gated on the status.
ReviewAny(u, s) ==
    /\ Write(u, s)
    /\ Happens("review")
    /\ UNCHANGED <<topic, job, stage, reported>>

\* PUT /api/v1/reimbursement/{uuid}: UPDATE ... AND status = ANY(eligible).
Review(u, s) ==
    /\ status[u] \in Eligible
    /\ Write(u, s)
    /\ Happens("review")
    /\ UNCHANGED <<topic, job, stage, reported>>

------------------------------------------------------------------------------
(* The consumer loop. *)

Take(r, n) ==
    /\ job[r] = 0
    /\ n \in Pending
    /\ job' = [job EXCEPT ![r] = n]
    /\ stage' = [stage EXCEPT ![r] = "received"]
    /\ UNCHANGED <<topic, clock, table, reported>>

Consume(r, n) ==
    /\ \A q \in Replica : job[q] # n
    /\ Take(r, n)
    /\ UNCHANGED history

\* The same message, after a rebalance, while the first replica goes on with it.
Redeliver(r, n) ==
    /\ \E q \in Replica : job[q] = n
    /\ Take(r, n)
    /\ Strikes("rebalance", log[n].uuid)

Leave(r) ==
    /\ job' = [job EXCEPT ![r] = 0]
    /\ stage' = [stage EXCEPT ![r] = "polling"]

\* Mutant of Commit: the position after the message.
CommitNextOffset(r) ==
    /\ stage[r] = "handled"
    /\ committed' = committed \cup {job[r] + 1}
    /\ Leave(r)
    /\ UNCHANGED <<log, clock, table, reported, history>>

Commit(r) ==
    /\ stage[r] = "handled"
    /\ committed' = committed \cup {job[r]}
    /\ Leave(r)
    /\ UNCHANGED <<log, clock, table, reported, history>>

Crash(r) ==
    /\ stage[r] # "polling"
    /\ Leave(r)
    /\ Strikes("crash", Message(r).uuid)
    /\ UNCHANGED <<topic, clock, table, reported>>

------------------------------------------------------------------------------
(* One message. *)

Goto(r, from, to) ==
    /\ stage[r] = from
    /\ stage' = [stage EXCEPT ![r] = to]

\* get_by_uuid, while the retry count allows it.
Resolving(r, to) ==
    /\ Goto(r, "received", to)
    /\ Message(r).retry =< MaxRetry

\* No row: a ghost, dropped.
Ghost(r) ==
    /\ Resolving(r, "handled")
    /\ status[Message(r).uuid] \notin Present
    /\ UNCHANGED <<topic, clock, table, job, reported, history>>

Outdated(r) == Message(r).at < updated[Message(r).uuid]

Stale(r) ==
    /\ Resolving(r, "handled")
    /\ status[Message(r).uuid] \in Present
    /\ Outdated(r)
    /\ UNCHANGED <<topic, clock, table, job, reported, history>>

\* The row is read, and the connection released before the graph decides.
Resolve(r) ==
    /\ Resolving(r, "deciding")
    /\ status[Message(r).uuid] \in Present
    /\ ~Outdated(r)
    /\ UNCHANGED <<topic, clock, table, job, reported, history>>

ResolveFails(r) ==
    /\ Resolving(r, "requeueing")
    /\ UNCHANGED <<topic, clock, table, job, reported, history>>

Retried(r) ==
    Append(log, [uuid |-> Message(r).uuid, retry |-> Message(r).retry + 1, at |-> clock + 1])

\* Mutant of Requeue: the replica tries the message again itself, too.
RequeueAndRetry(r) ==
    /\ Goto(r, "requeueing", "received")
    /\ clock' = clock + 1
    /\ log' = Retried(r)
    /\ UNCHANGED <<committed, table, job, reported, history>>

Requeue(r) ==
    /\ Goto(r, "requeueing", "handled")
    /\ clock' = clock + 1
    /\ log' = Retried(r)
    /\ UNCHANGED <<committed, table, job, reported, history>>

RequeueFails(r, delivered) ==
    /\ Goto(r, "requeueing", "handled")
    /\ clock' = clock + 1
    /\ reported' = reported \cup {Message(r).uuid}
    /\ IF delivered THEN log' = Retried(r) /\ Happens("false-negative")
                    ELSE UNCHANGED <<log, history>>
    /\ UNCHANGED <<committed, table, job>>

\* apply_decision, not gated on the row's status: whatever it is by now.
Decide(r, s) ==
    /\ Goto(r, "deciding", "handled")
    /\ Write(Message(r).uuid, s)
    /\ UNCHANGED <<topic, job, reported, history>>

\* The row was deleted since it was resolved: no row updated, none persisted.
DecideNothing(r) ==
    /\ Goto(r, "deciding", "handled")
    /\ status[Message(r).uuid] \notin Present
    /\ UNCHANGED <<topic, clock, table, job, reported, history>>

\* The model, the payload or the write fails.
DecideFails(r) ==
    /\ Goto(r, "deciding", "escalating")
    /\ reported' = reported \cup {Message(r).uuid}
    /\ UNCHANGED <<topic, clock, table, job, history>>

\* The write took effect and its acknowledgement was lost.
DecideAckLost(r, s) ==
    /\ Goto(r, "deciding", "escalating")
    /\ Write(Message(r).uuid, s)
    /\ reported' = reported \cup {Message(r).uuid}
    /\ Strikes("lost-ack", Message(r).uuid)
    /\ UNCHANGED <<topic, job>>

\* Past the ceiling at once, or after a failed decision.
Escalating(r) ==
    \/ Goto(r, "escalating", "handled")
    \/ Goto(r, "received", "handled") /\ Message(r).retry > MaxRetry

\* escalate_existing: neither the stamps nor the row's status are looked at.
Escalate(r) ==
    /\ Escalating(r)
    /\ Write(Message(r).uuid, "human-review")
    /\ UNCHANGED <<topic, job, reported, history>>

EscalateNothing(r) ==
    /\ Escalating(r)
    /\ status[Message(r).uuid] \notin Present
    /\ reported' = reported \cup {Message(r).uuid}
    /\ UNCHANGED <<topic, clock, table, job, history>>

\* Mutant of EscalateFails: no last-resort record.
EscalateFailsUnseen(r) ==
    /\ Escalating(r)
    /\ UNCHANGED <<topic, clock, table, job, reported, history>>

EscalateFails(r) ==
    /\ Escalating(r)
    /\ reported' = reported \cup {Message(r).uuid}
    /\ UNCHANGED <<topic, clock, table, job, history>>

EscalateAckLost(r) ==
    /\ Escalating(r)
    /\ Write(Message(r).uuid, "human-review")
    /\ reported' = reported \cup {Message(r).uuid}
    /\ Strikes("lost-ack", Message(r).uuid)
    /\ UNCHANGED <<topic, job>>

------------------------------------------------------------------------------
Handle(r) ==
    \/ Ghost(r) \/ Stale(r) \/ Resolve(r) \/ ResolveFails(r)
    \/ Requeue(r) \/ \E delivered \in BOOLEAN : RequeueFails(r, delivered)
    \/ \E s \in Verdict : Decide(r, s) \/ DecideAckLost(r, s)
    \/ DecideNothing(r) \/ DecideFails(r)
    \/ Escalate(r) \/ EscalateNothing(r) \/ EscalateFails(r) \/ EscalateAckLost(r)

Next ==
    \/ \E u \in Uuid : Announce(u) \/ Withdraw(u)
    \/ \E u \in Uuid, s \in {"human-approved", "human-rejected"} : Review(u, s)
    \/ \E r \in Replica, n \in 1..Len(log) : Consume(r, n) \/ Redeliver(r, n)
    \/ \E r \in Replica : Commit(r) \/ Crash(r) \/ Handle(r)

Spec == Init /\ [][Next]_vars

\* A replica that is up polls, and its handler runs on: each of its awaits is
\* bounded by a timeout of the pool, the model client or the producer.
FairSpec ==
    /\ Spec
    /\ \A r \in Replica :
        /\ WF_vars(\E n \in 1..Len(log) : Consume(r, n))
        /\ WF_vars(Commit(r))
        /\ WF_vars(Handle(r))

------------------------------------------------------------------------------
(* Properties. *)

TypeOK ==
    /\ log \in Seq(Envelope)
    /\ committed \subseteq 1..Len(log)
    /\ clock \in Nat
    /\ status \in [Uuid -> Status] /\ updated \in [Uuid -> Nat]
    /\ job \in [Replica -> Nat] /\ \A r \in Replica : job[r] <= Len(log)
    /\ stage \in [Replica -> Stage]
    /\ reported \subseteq Uuid
    /\ counts \in [Event -> Nat]
    /\ struck \subseteq Uuid

\* The staleness guard never drops the message of an undecided row, nor does a
\* requeue, a crash or a second replica lose it: a pending row has a message
\* still to be committed or a record in the failure log.
PendingIsQueued ==
    \A u \in Uuid : status[u] = "pending" =>
        u \in reported \/ \E n \in Pending : log[n].uuid = u

\* .specs/STATE.md, AD-027: approved is final, "money already disbursed cannot be
\* clawed back".  No late, replayed or escalating message undoes an approval.
Approved(s) == s \in {"auto-approved", "human-approved"}
ApprovalsStand ==
    [][\A u \in Uuid : Approved(status[u]) => status'[u] = status[u]]_vars

\* apply_decision.py: the Agent "only ever writes a status-changing decision onto
\* a row that started at pending".  Once decided, a row changes by a reviewer's
\* decision only, although neither write of the Agent looks at the status.  Faults
\* are contained: this fails only for rows whose own message a replica had in hand
\* when it died, lost an acknowledgement or lost its partition.
DecidesOnce ==
    [][\A u \in Uuid \ struck : status[u] # "pending" /\ status'[u] # status[u] =>
            status[u] = "none" \/ counts'["review"] = counts["review"] + 1]_vars

\* The table as a reader of the Agent's rows sees it goes through the abstract
\* life of a row, withdrawn rows being as absent as those never inserted: a row
\* is decided from pending and reviewed while it may be, and decided once more only
\* after a fault has struck it.
Row(u) == IF status[u] \in Present THEN status[u] ELSE "absent"
Rows == [u \in Uuid |-> Row(u)]
Life == INSTANCE Lifecycle WITH status <- Rows
ImplementsLifecycle == Life!Spec

\* Every announced row is in the end decided, withdrawn or reported, whatever
\* fails on the way and however often its message is delivered.
AnnouncedIsDecided ==
    \A u \in Uuid : status[u] = "pending" ~> (status[u] # "pending" \/ u \in reported)
==============================================================================
