# Reimbursement analyzer: TLA+ models, checks and proofs

The system takes batches of reimbursement requests over HTTP, stores each request once, lets
an agent decide it and lets people review what the agent does not decide or rejects. This
directory models its stateful parts and two of them composed, checks them with TLC and proves
their safety properties with TLAPS. Paths below are relative to the repository.

## 1. The system

| Part | State it keeps | Operations | Talks to |
|---|---|---|---|
| API, POST (`packages/api/.../create`) | none | validate a batch, publish it | `Request` topic |
| Publisher (`packages/publisher`, `shared/.../publish_pending.py`) | the consumer group's offsets, units of work in memory | consume, fan out, insert, publish, compensate, requeue, escalate, commit | both topics, `reimbursement` table, failure log |
| Agent (`packages/reimbursement`) | offsets, one message in memory | resolve, ignore, requeue, decide, escalate, commit | `Reimbursement` topic, table, failure log |
| Decision graph (`reimbursement/agent`) | the graph's state during one run | extract, validate, apply policies, analyse, write | language models, table |
| API, PUT (`packages/api/.../update`, `review_reimbursement.py`) | one transaction | update the row, append the audit record, re-fetch | `reimbursement`, `human_review` |
| API, GET | none | list, detail | the tables, read-only |
| API, metrics (`api/metrics.py`) | the gauge and when it was last refreshed | scrape, refresh | the table, read-only, over the pool of the other routes |
| Migration runner (`api/migrate.py`) | an advisory lock, yoyo's lock row and ledger | lock, clear, plan, apply | Postgres, through yoyo |
| Repository and migrations (`shared/.../repository.py`, `api/migrations`) | the tables, their CHECKs and the unique key | the SQL the others run | Postgres |
| Failure log (`shared/failure_log.py`) | a log stream | write | – |
| Tracing, logging, other metrics, configuration | see section 8 | | |

Two topics and one table connect the services. Every Kafka hand-over is at-least-once: the
offset is committed by hand after the work, so a crash redelivers. No transaction spans the
database and Kafka: the publisher inserts, then publishes, and undoes the insert by a
compensating delete if the publish fails. The agent's writes are conditional on the row's
uuid only; the reviewers' writes are conditional on its status.

What is hard: interleavings of replicas after a rebalance; a duplicate that is dropped
because of a row somebody else is about to delete; crashes between the insert, the publish
and the commit; calls that take effect and are reported as failed; a staleness guard that
compares stamps of two machines and is read before the write; READ COMMITTED transactions
without explicit locks; a retry ceiling that must end every loop; migration runners that are
killed between two locks of different lifetimes; gauge refreshes that outlive their interval. `PROJECT.json` lists each
of these hazards at its line with the properties that would catch it.

What makes each part correct:

- Publisher: no request is lost; one row per request; an announced row is not deleted once
  decided; what it leaves unannounced has a known cause; an item is requeued once for each
  record that carried it, but for crashes and rebalances, and the topic drains.
- Agent: an undecided row keeps its message; an approval is never undone; a row is decided
  once; every announced row is decided or reported in the end; a fault costs only the row whose
  message it struck.
- Decision: the verdict is the one the policy allows, with ages by the server's clock; a run
  leaves its verdict, a human and its failure in the log, or, if the escalation fails as well,
  both failures in the log; a later run erases nothing an earlier one resolved.
- Review: concurrent requests look as if decided one at a time; approvals are final; row and
  audit trail change together; a refusal has its cause; what the transition metric counts is
  backed by reviews.
- Services together: their views of the table agree; a request never falls through between
  them, but for the row a crash or a lost COMMIT strands; of all the rows it ever had one is
  judged at most (a row a fault has struck may be judged again); a row lives the life of
  `Lifecycle`.
- Migrations: applied in order and one runner at a time; success means all are applied; no
  runner waits for ever, or times out on runners none of which has had the lock.
- Gauge: bounded load however often it is scraped; after a refresh that succeeded, counts as
  old as the interval, or by a late refresh its timeouts older.

## 2. Modules

| Module | Models | Runs |
|---|---|---|
| `Publisher` | `publisher/processing.py`, `publisher/consumer.py`, `publish_pending.py`, `shared/producer.py`, the POST route as environment | `PublisherRace`, `PublisherBatch`, `PublisherOrphan`, `PublisherRebalance` |
| `Agent` | `reimbursement/validation.py`, `reimbursement/consumer.py`, the UPDATE statements of `repository.py` | `AgentFaults`, `AgentReplay` |
| `Decision` | `reimbursement/agent/`, the write it ends in and the escalation of a failed run | `DecisionPolicy` |
| `Review` | `review_reimbursement.py`, the PUT route, `human_review` | `ReviewRace`, `ReviewLatest` |
| `AtomicReview` | what the PUT route promises: each request decided in one instant | – |
| `Lifecycle` | the abstract life of a row: what its writers together do to its status | – |
| `Pipeline` | `Publisher` and `Agent` over one table and both topics | `Pipeline` |
| `Migrate` | `api/migrate.py`, and yoyo as it uses it | `MigrateRunners` |
| `Gauge` | the refresh of `reimbursement_status_count` in `api/metrics.py`, GET /metrics | `GaugeScrapes` |
| `MC...` | values of the constants and symmetry sets for TLC | |
| `PublisherProofs`, `AgentProofs`, `DecisionProofs`, `ReviewProofs`, `LifecycleProofs`, `PipelineProofs`, `MigrateProofs`, `GaugeProofs` | theorems about each, see section 5 | |

Definitions named as mutants in a comment (`CommitUnsettled`, `ReviewAny`, ...) are the code
with one plausible bug. No specification uses them: each is substituted for the definition
below it to show that a property can tell the two apart.

### Publisher

`log` is the Request topic with every record ever appended, `committed` the group's offsets
as a set (so that several partitions, hence several replicas, need no further state). A
replica has the offset it works on (`job`), and per item of the record the stage of its unit
of work and the row that unit inserted. The stages are the awaits of `process_item` and
`escalate_item`: `queued` (waiting for the semaphore), `publishing` (the row is committed),
`compensating` (the publish failed), `requeueing`, `settled`. A step of the model is what
happens between two awaits, with one action per outcome: an insert succeeds, meets a
duplicate, fails, or commits and loses its acknowledgement. `PublishUnreleased` is a publish
that was delivered and a connection that could not be given back: the item is requeued
although its message is out, and counts as a false negative (`faults`). `HasRow` is the unique index on
`(request_id, lower(submitted_by))`, `KeyOf` the key, `Malformed` the items `_accepts`
refuses, `Unstorable` those that pass it and are refused by a CHECK (a request_id of 65 to
128 characters, a submission date in the future). An empty payload stands for every record
none of whose items reaches a handler. `AgentDecides` is what the publisher can see of the
agent. `posted`, `moved`, `cause` and `faults` are history: `moved` has the keys of the records a
rebalance handed to a second replica, `cause` what cut the unit of work of a row short.

### Agent

A message holds the uuid, the retry count and the stamp the staleness guard reads. A replica
handles one message; its stages are the awaits of `handle_message`: the row is read
(`received` to `deciding`), and written later without another look. `Decide` stands for the
whole graph and its write, which `Decision` opens up. Escalation after a failed decision and
escalation past the ceiling are the same action from two stages, as `_escalate_row` is one
function. `Announce` and `Withdraw` are the publisher's side, `Review` the reviewers'. One
logical clock stamps rows and messages, so the clocks of publisher and database are assumed
to agree; `AnnounceEarly` shows that `PendingIsQueued` needs it. `counts` and `struck` are
history: `struck` has the rows whose message was in a replica's hand when it died, lost an
acknowledgement or lost its partition.

### Decision

The five nodes, their edges, and `Fail` for whatever raises in any of them; a failed run is
logged (`Raise`) and its row escalated (`Escalate`), and if that fails too (`EscalateFails`) it
is logged again and the row stays what it was. A write may be committed and raise all the same.
`logged` is the failure log. Amounts are cents
(`AUTO_APPROVE_CEILING`, `HUMAN_REVIEW_FLOOR`), dates are day numbers, `Submission` that of `submitted_at`, which only properties read: the code
takes a receipt's age from `Today`. A row may be decided
again, as the agent's redelivery does. `Storable` is the pair of CHECKs a write can break;
an amount beyond `NUMERIC(14,2)` is a further one and is covered by `Fail`. `writer` is
history. That no row was there to update is the matter of `Agent` (`DecideNothing`).

### Review

One row, several transactions. `Statement` takes the UPDATE's snapshot; `Update` waits for
the row's holder and checks the WHERE clause again on what it committed, as READ COMMITTED
does; `Refuse` is its negation. `Commit` publishes row and audit record at once, both stamped
with the start of the transaction (`now()`). A failure anywhere before it is `Abort`; one
that only hides the COMMIT is `CommitAckLost`. `Transition` is the pair of labels a reply
counts: the status in the statement's snapshot, and the row as read back.

### AtomicReview

The docstring of `review_reimbursement.py` says that two concurrent transitions are mutually
exclusive without an explicit lock. `AtomicReview` states this as a specification: a request is
asked, then in one step decided (the status is eligible, and row and audit trail take the
decision) or refused (it is not), then answered; an error answer leaves open which. `Review`
implements it (`ReviewIsAtomic`) with `Outcome` for what has become of a request: the commit is
the instant of a decision, and the instant of a refusal is the statement's snapshot or the
second look at the row, whichever saw a status that is not eligible.

### Lifecycle

The status column, and the six ways it may change: submitted, escalated at the door, withdrawn
while pending, decided while pending, reviewed while eligible, and decided again if a fault of
the Agent has struck the row (`struck`, `Overwrite`). No service enforces this: the Agent's
UPDATE looks at no status. `Agent` implements it with `Rows` for the column, and `Pipeline` with
`WholeRows`, which adds the rows the publisher has not announced. The end of the module states
what such a life promises (`ApprovalsStand`, `VerdictsStay`, `OnlyReviewed`).

### Pipeline

`Pipeline` extends `Agent` and instantiates `Publisher` (`P!...`) with variables of its own. A
step of the system is a step of one service; where it concerns a row both know, it is at the
same time the step the other's model makes of it. So `Announce`, `Withdraw` and `AgentDecides`,
which each module leaves open to its environment, are here taken exactly when the other
service takes them: the publish of a message, the compensating delete, the Agent's first write
(`AgentSees`, `PublisherSees`). The publisher knows a row as `decided` from then on, whatever
reviewers make of it. A row the publisher escalates itself has no message, is not in
the Agent's view, and is not reviewed in this composition; `Review` covers it. `Answered` is a verdict, a person or a record in a failure log; a row
that a crash or a lost COMMIT left pending and unannounced is `Stranded`, has none of the three and
never will, and the end-to-end properties name it as the exception it is.

### Migrate

A runner's stages follow `apply_migrations`: connect, poll for the advisory lock until a
deadline, clear yoyo's lock table, plan, take yoyo's lock, apply one migration after the other,
leave. yoyo is not in the repository; its steps are modelled from the calls: it puts a row in
its lock table, waiting for it if need be, and removes it in a `finally`, all inside
`apply_migrations` (`migrate.py` calls no `lock` of yoyo), and it applies and records a migration
in one transaction (`.specs/features/db-schema-migrations/spec.md` relies on this for a runner killed
midway). `Kill` runs no `finally`; `Notice` is Postgres finding the connection closed, which
may take its time; `Drop` is a lock connection that breaks under a runner that goes on with
its other connection. The comment at `migrate.py:84` ("Holding the advisory lock proves no
other runner exists") is true of killed runners and no longer after a `Drop`, hence the premise
of `NoCollision`; what holds after it as well is `SuccessMeansMigrated` and `AppliedInOrder`.
`held` is history: the runners that have had the advisory lock, which `TimeoutsExplained` needs to tell a
runner that failed at work from one that failed before its turn.

### Gauge

Time in ticks. `Claim` is the check and the mark of `_last_refreshed_at`, with no await in
between; `Count` is the query on a connection of the pool, told apart by the moment it runs;
`Set` is the loop over the statuses and the answer, again without an await. `Patience` is what
the timeouts of acquiring, querying and releasing let a refresh take, and `Tick` does not pass
it: timeouts are taken to fire on time. The gauge starts with no counts, and on a host booted
less than an interval ago, where `time.monotonic()` is below the interval, the first scrapes
are served without. `claim` (what became of the refresh that claimed the interval) and `late` (an
older one has set the gauge since) are history. `AnswersAreFresh` bounds the age of what a scrape
relying on a refresh that succeeded is served, in either case. Of a refresh that failed it says
nothing: the interval stays claimed and the gauge keeps what it had, as the code has it.

## 3. Runs and what they show

| Run | Instance | Shows |
|---|---|---|
| `PublisherRace` | 2 replicas, 1 item posted twice, ceiling 0, each fault once | `TypeOK`, `NothingLost`, `SettledIsAnswered`, `OrphansHaveACause`, `RetriesEnd`, `DecidedRowsSurvive` |
| `PublisherBatch` | 1 replica, batches of duplicates, a malformed and an unstorable item, ceiling 1, 2 units at a time, 1 lost COMMIT, 1 false negative, fair | `RetriesEnd`, `EveryRequestAnswered`, `TopicDrains` |
| `PublisherOrphan` | 1 replica, 1 crash | violates `OrphansOnlyFromDeleteWindow` |
| `PublisherRebalance` | 2 replicas, 1 rebalance, 1 crash | violates `NeverLose` |
| `Pipeline` | 1 publisher replica with a crash, a lost COMMIT and a false negative, 2 Agent replicas with a lost acknowledgement, 1 review, 1 item, 2 uuids, ceiling 0, fair | `TableAgrees`, `RequestsHeld`, `OneRowJudged`, `EveryRequestAnswered`, `DecidesOnce`, `PipelineImplementsLifecycle` |
| `AgentFaults` | 1 row, 2 replicas, ceiling 0, 2 crashes, every other fault once, 1 review, fair | `TypeOK`, `PendingIsQueued`, `AnnouncedIsDecided`, `ImplementsLifecycle` |
| `AgentReplay` | 1 row, 1 replica, ceiling 0, 1 crash, 1 review | violates `ApprovalsStand` |
| `ReviewRace` | 3 requests, every initial status, 1 agent write | `TypeOK`, `ApprovalFinal`, `DecisionsAudited`, `NeverVanishes`, `RefusedForCause`, `TransitionsFollowReviews`, `ReviewIsAtomic` |
| `ReviewLatest` | 2 requests | violates `LastReviewIsShown` |
| `DecisionPolicy` | amounts -0.01, 200.00, 200.01, 2000.00, 2000.01, receipts 91, 90, 0 and -1 days old, submission a day ahead, 2 runs | `TypeOK`, `VerdictFollowsPolicy`, `RunsAccounted`, `BackfillNeverErases` |
| `MigrateRunners` | 3 runners, 3 migrations, any number of them applied before, 2 kills, 1 broken lock connection, fair | `TypeOK`, `NoCollision`, `SuccessMeansMigrated`, `AppliedInOrder`, `TimeoutsExplained`, `EveryRunnerEnds` |
| `GaugeScrapes` | 4 scrapes at a time, interval 2, timeouts adding up to 5, 12 ticks | `TypeOK`, `BoundedLoad`, `AnswersAreFresh` |

Bounds. Two replicas are what a rebalance needs. A request posted twice gives the duplicate
that is dropped on another unit's row, the hazard `NothingLost` is about. The retry ceiling is
3 in the code; 0 and 1 pass it with every kind of failure on the way, and nothing in the
handlers depends on the count but its comparison with the ceiling. One fault of each kind is
enough for every finding; the proofs remove these bounds for the safety properties. In
`Pipeline` two uuids let a withdrawn row be stored again under another, which is what
`OneRowJudged` is about, and the one lost acknowledgement of the Agent strikes one of them. Crashes
and rebalances of the Agent are in `AgentFaults`. What a fault or a rebalance costs is said per
row and per key (`struck`, `moved`, `CutOff`); that it costs no other row or key needs a second
one: `Pipeline` has two rows, and for keys it is the theorems that say it. The
liveness of the publisher through a crash is checked in `Pipeline`. Three reviewers let a third
begin while two race. Three runners let one be killed, one clean up after it and a third time
out. Four scrapes are one more than the three refreshes 5 and 2 ticks allow at once. A uuid is
never used twice, so the number of uuids bounds the inserts: when they have run out an insert can
only fail or meet a duplicate. In `PublisherRace` three are two inserts and one after a withdrawal. Deadlock is
not checked: every instance stops when the bounded environment has nothing left to send.

Symmetry is used for uuids, replicas, requests and scrapes, in runs without liveness only: the actions
treat them alike, and the initial states do not tell them apart.

Fairness. `FairSpec` assumes that a replica that is up keeps consuming, that its event loop
keeps running the units of work it holds, and that it commits. The code justifies it: every
await has a timeout (`acquire_timeout_seconds`, `command_timeout`, `publish_timeout_seconds`,
the model client's timeout), after which the failing branch is the step taken. Nothing is
assumed about which outcome a step has, so a service that fails for ever is among the
behaviours, and no fairness is put on crashes, reviewers, or the API. A crashed replica
consumes again: the orchestrator restarts it or the group gives its partitions to another.
`PipelineFairSpec` assumes the same of both services, and nothing of the reviewers.
`Migrate`'s `FairSpec` assumes that a runner that has not been killed runs on, as the deadline
and the statements of a live session let it; it assumes no failure of a runner and nothing of
when Postgres notices that one is gone.

## 4. Findings

Four documented statements are refuted by a run; `PROJECT.json` quotes them.

1. `PublisherOrphan`. docs/RISKS.md R-001 names one crash window that orphans a pending row.
   There is a second, wider one: between the committed insert and the publish.
2. `PublisherRebalance`. "Never lose a reimbursement" fails when a replica that lost its
   partition deletes the row on whose strength the other dropped the item, and then dies.
   `NothingLost` and `RequestsHeld` therefore except the keys of the very record that was
   handed out twice, and no others. docs/SCOPE.md:48 accepts a loss between publisher and agent
   for want of an outbox; this one is between two publishers.
3. `AgentReplay`. A redelivered message whose resolve fails is stamped anew, escapes the
   staleness guard and escalates an approved row. What holds instead is that this
   costs only the row whose own message was in hand when the fault struck (`struck`): all others
   keep their approval, which `ApprovalsNotUndone` proves.
4. `ReviewLatest`. The review shown as the last is the one whose transaction began last.
   The same trace shows the later committer succeed, where the docstring of
   `review_reimbursement.py` has the loser of a race match no row.

A fifth disagreement is deliberate and has no run. docs/SCOPE.md:27 and the feature's
specification (.specs/features/agent-decide-reimbursement/spec.md:72 and 146-160) count the 90
days of a receipt from its submission. The code counts them from the day of the decision
(`apply_policies.py:42-47`), since `submitted_at` is the requester's own claim; docs/METRICS.md:43
and docs/codebase/CONCERNS.md:25 record the change, the two other documents were not changed with it. So
a request that waits is rejected for a receipt that was recent enough when it was submitted: 81
days old then and 91 at the decision, say. `VerdictFollowsPolicy` states the rule by the server's
clock, and that what is approved obeys the rule by submission as well, but for the day by which
`submitted_at` may be ahead; of what is rejected it says nothing by submission, because it fails.

Two more comments are narrower than what the code does, and the models follow the code.
`repository.py:98-100` says that `old` "reliably reads the pre-update row": it reads the
snapshot of the statement, and for a reviewer who waited for another the row has changed since.
`TransitionsFollowReviews` is what is left of it. `docs/METRICS.md:18` has the gauge "refreshed
each scrape"; it is refreshed once an interval, and `AnswersAreFresh` says what a scrape shows.

## 5. What is proved

Every theorem holds for all values of the constants, the bounds on faults and retries
included, and none has a premise on what fails: where a fault costs something, the property
itself names the rows or keys it costs. They rest on the one named assumption of its module (`PublisherAssumption`,
`AgentAssumption`, `DecisionAssumption`, `PipelineAssumption`, `MigrateAssumption`,
`GaugeAssumption`; `ReviewAssumption` and `BeforeAssumption`), which say no more than what kind
of thing each constant is.

| Module | Theorem | States |
|---|---|---|
| `PublisherProofs` | `TypeCorrect` | `Spec => []TypeOK` |
| | `NoRequestLost` | `Spec => []NothingLost` |
| | `OrphansExplained` | `Spec => []OrphansHaveACause` |
| | `DecisionsSurvive` | `Spec => DecidedRowsSurvive` |
| | `RequestsAnswered` | `Spec => []SettledIsAnswered` |
| | `RetriesBounded` | `Spec => []RetriesEnd` |
| `AgentProofs` | `TypeCorrect` | `Spec => []TypeOK` |
| | `NoRowForgotten` | `Spec => []PendingIsQueued` |
| | `ApprovalsNotUndone` | `Spec => SparedApprovalsStand`: `ApprovalsStand` for every row not in `struck` |
| | `AgentDecidesOnce` | `Spec => DecidesOnce` |
| | `AgentImplementsLifecycle` | `Spec => ImplementsLifecycle` |
| `DecisionProofs` | `TypeCorrect` | `Spec => []TypeOK` |
| | `PolicyKept` | `Spec => []VerdictFollowsPolicy` |
| | `EveryRunAccounted` | `Spec => []RunsAccounted` |
| | `FieldsKept` | `Spec => BackfillNeverErases` |
| `ReviewProofs` | `TypeCorrect` | `Spec => []TypeOK` |
| | `ApprovalsFinal` | `Spec => ApprovalFinal` |
| | `ReviewsAudited` | `Spec => []DecisionsAudited` |
| | `ReviewsReadBack` | `Spec => []NeverVanishes` |
| | `RefusalsJust` | `Spec => []RefusedForCause` |
| | `TransitionsCounted` | `Spec => []TransitionsFollowReviews` |
| | `ReviewsAtomic` | `Spec => ReviewIsAtomic` |
| `LifecycleProofs` | `LifeApprovalsStand`, `LifeVerdictsStay`, `LifeOnlyReviewed` | `Spec` implies `ApprovalsStand`, `VerdictsStay`, `OnlyReviewed` of `Lifecycle` |
| `PipelineProofs` | `PipelineRunsPublisher`, `PipelineRunsAgent` | `PipelineSpec` implies the publisher's and the Agent's `Spec` |
| | `ViewsAgree` | `PipelineSpec => []TableAgrees` |
| | `RequestsNeverFallThrough` | `PipelineSpec => []RequestsHeld` |
| | `OneRowIsJudged` | `PipelineSpec => []OneRowJudged` |
| | `PipelineLife` | `PipelineSpec => PipelineImplementsLifecycle` |
| | `ApprovalsStandEndToEnd`, `VerdictsStayEndToEnd` | `PipelineSpec` implies `Lifecycle`'s `ApprovalsStand`, `OnlyReviewed` and `VerdictsStay` of the whole table |
| `MigrateProofs` | `TypeCorrect` | `Spec => []TypeOK` |
| | `InOrder` | `Spec => []AppliedInOrder` |
| | `SuccessIsReal` | `Spec => []SuccessMeansMigrated` |
| | `TimeoutsJustified` | `Spec => []TimeoutsExplained` |
| | `RunnersSerialised` | `Spec => []NoCollision` |
| `GaugeProofs` | `TypeCorrect` | `Spec => []TypeOK` |
| | `LoadBounded` | `Spec => []BoundedLoad` |
| | `AnswersFresh` | `Spec => []AnswersAreFresh` |

### Publisher

The base is `IInv`: `TypeOK`; a replica works on a record of the log and only items of that
record have a unit of work (`Assigned`); a unit holds a row exactly in the stages between its
insert and its settling, and no two units hold one row (`Holding`); a held row was inserted
from that item (`HeldRows`). It is inductive without any assumption on faults.

`NothingLost` is not inductive: a dropped duplicate leaves the request to another unit's row.
`SInv` adds that each request not `moved` has a row, a report, or an uncommitted record with an
item of that key which the replica at work on it has not settled (`Secure`, `Open`, `Vouches`):
without the last clause two records whose settled items vouch for each other could be committed in
turn. The other half of `SInv`, `Exclusive`, says where that may be relied on: two replicas work on
one record, or on a record that is committed, only if all keys of that record are in `moved`.

`SettledIsAnswered` needs no induction of its own. By `SInv` a request is reported, open, or has
a row; a row that a unit of work still holds makes the request open (`HeldIsOpen`); one that
nobody holds is announced, past pending, or an orphan, and `OrphansHaveACause` gives the orphan a
cause: a fault of its own, which is `CutOff`, or a failed compensating delete, which is
reported (`DeletesReported`). `RetriesEnd` has two halves. No record is more than one past the ceiling,
because the ceiling is tested when a unit of work starts and counted when it ends: the record of
a running unit is below it (`RunsBelow`, `Ceiling`). And an item is requeued once for each record
that carried it: the count of the copies at the next number, of the units of work that have not settled and
of the copies that wait to be consumed is never above that of the copies there are (`Budget`),
but for the units that a crash or a rebalance starts again, one each (`Restarts`).
`KeysUnique`, which no run checks, is the unique index as an invariant of the steps that free a
key and take it again; `OneRowJudged` uses it.

### Agent

A handler's step is one of three kinds (`HandleKinds`): it leaves topic and table alone, it
publishes the message again, or it writes a verdict. `PendingIsQueued` is not inductive,
because a message a replica has finished with is committed next: `Kept` asks for a message
that no replica has finished with. The staleness guard would still drop it, but for `Fresh`: no
message of a pending row is older than the row. `Fresh` rests on the single clock and on the
insert being stamped before the message, and on no verdict ever making a row pending again.

The theorems on decided rows add, each for the rows not in `struck`: `Exclusive` (no two replicas
have one message), `OnHand` (what a replica has is uncommitted), `Single` (one unfinished
message per row) and `Unwritten` (the row of an unfinished message is pending or deleted). So
the writes, which look at no status, meet a pending row or one in `struck` (`WrittenRow`). Each
kind of fault breaks one of these parts for the row in hand, and puts it in `struck`: a rebalance
`Exclusive`, a crash or a lost acknowledgement `Unwritten`. `AgentReplay` shows what follows for
such a row; that the invariant survives for all others shows that nothing follows for them.

The refinement follows from the same invariant: a step names the one row it changes
(`RowMoves`), and where that is a write of the Agent the row is pending, the guard of
`Lifecycle`'s `Decide`, or struck, that of `Overwrite`. `Announce` maps to `Submit`, `Withdraw` to
`Withdraw`, `Review` to `Review`, every other step to one that leaves the table alone.

### Decision

`Routed` says what each node may rely on: at `apply_policies` the extraction is complete; at
`analysis`, and wherever a model's approval waits to be written, no rule applied to it. Every
write is thus of a verdict `Allowed` by the policy (`RuleFollowsPolicy`), including the run
run after a run, as the extraction it is judged by is the one it is written with.
`SubmissionFollows` is the arithmetic that takes an approval from today to the day of submission.
`RunsAccounted` is kept by `Logged`: a run that has failed and not yet ended is in the log, so
whatever the escalation does, what it leaves is accounted for.

### Review

`Holder` ties the row's lock to the transaction between UPDATE and COMMIT, and says the row is
then still reviewable; it is why the WHERE clause, checked once, holds at the commit, and all
of `ApprovalFinal`. `Settled` (a decided row is not pending) keeps the compensating delete off
it; `Refusals` carries the refusal from the snapshot that caused it. `Counts`, inductive
on top of these, keeps for each request the rejection its snapshot may have seen.

`ReviewsAtomic` maps each step to one of `AtomicReview` or to a stutter. Two steps carry the
argument: the commit, where `Holder` gives the eligible status `Decide` asks for although the
clause was checked some steps before, and the refusals, where either the statement's snapshot is
the row itself or the row is looked at again.

### Lifecycle

A step changes one row at most (`Changes`), and each promise is read off the four ways a row may
change. They are proved of the abstract specification once and hold of everything that implements it.

### Pipeline

The proof is compositional. The composition adds no behaviour to either service
(`PipelineRunsPublisher`, `PipelineRunsAgent`), so all that is proved of each alone holds of it,
in its own variables. `TableAgrees` joins the two views: both services' inductive invariants
(`BothInductive`) make it inductive, with one lemma on what a step of each may do to the table
(`PublisherTable`, `AgentTable`). `RequestsHeld` is then put together without another induction.
From the publisher's `SettledIsAnswered` a request is
queued, reported, or has a row that is announced, decided, stranded, or left by a failed delete, which is reported; `TableAgrees` makes an
announced row the Agent's; `PendingIsQueued` gives a pending one its message or its record in
the failure log. `OneRowJudged` joins the publisher's `OneRowPerKey` to
`TableAgrees`: a row with a verdict is still there for the publisher, so its key is not free.
`PipelineLife` takes the Agent's invariant on struck rows and the fact that a step moves at most one
row (`WholeStep`). `ApprovalsStandEndToEnd` and `VerdictsStayEndToEnd` are then the theorems of
`LifecycleProofs`, instantiated with the rows of the whole table.

### Migrate

`IInv`: who has the advisory lock is at work or killed (`Holding`); what is not yet applied is on
the list of every runner that has made one, and a runner that is through leaves nothing
(`Listed`); the ledger is a prefix. This survives a broken lock connection, since a second
runner's list can only be too long. `NoCollision` needs, until then, that everybody at
work has the lock, that the yoyo row is the holder's own or a dead runner's not yet cleared,
and that the list of the runner at work is exactly what is missing. `TimeoutsExplained` follows a
runner from its turn on (`Tried`, `TriedStays`): who has had the lock is at work, has failed, or
has left a complete schema behind, and the deadline is passed only while somebody has it.

### Gauge

`IInv`: refreshes under way claimed the interval at moments an interval apart (`Spaced`), none is
older than `Patience`, and one that is not of the last claim has outlived its interval
(`UnderWay`). Counts are never older than their claim, hence `Fresh`. The bound on the load follows by counting: ages divided by the interval
are different numbers up to `Patience \div Interval` (`FewUnderWay`).

## 6. What is model-checked only

Liveness (`EveryRequestAnswered`, `TopicDrains`, `AnnouncedIsDecided`, `EveryRunnerEnds`) rests
on fairness, which the prover does not handle, and stays with TLC. So do the four findings: a counterexample is an
instance. Every safety property that a passing run checks is proved, among them
the three refinements (`ImplementsLifecycle`, `PipelineImplementsLifecycle`, `ReviewIsAtomic`).

The refinement mappings cover the safety part of the abstract specifications, which state no
fairness. That what a recursive definition computes is right for every input is not claimed
anywhere: no module has one.

## 7. Plan

1. Done: `Publisher`, `Agent`, `Review`, `Decision`, `Lifecycle`, `AtomicReview`, `Pipeline`,
   `Migrate`, `Gauge` with their runs and proofs.
2. `AtomicReview` as the reviewers of `Pipeline`, which would take its reviews of rows the
   publisher escalates, and an abstract specification of `Migrate` and of `Gauge`.
3. Pages of GET as a walk over a table that changes between requests.

## 8. Not modelled

- GET routes, except which review they show: read-only, and each answer one snapshot.
- The counters and histograms other than the reviewers' transitions.
- Payload validation and size caps of POST and PUT: they precede every state change.
- Tracing, logging, prompts: they change no state the properties see.
- Truncation in the failure log and the loss of its records: a write is taken to arrive.
- A null-valued or unparsable `Reimbursement` record: nothing in the repository produces one.
- Start-up checks, and signals, which end a loop between two messages: a replica that stops
  polling. The bounded pool: a connection that is not to be had in time is a failed step.
- Amounts are exact; the code's floats and `NUMERIC(14,2)` rounding are not modelled.
