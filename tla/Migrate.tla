------------------------------- MODULE Migrate -------------------------------
(***************************************************************************)
(* python -m api.migrate: runners that bring the schema up to date, each   *)
(* under a session-scoped advisory lock, which Postgres drops with the     *)
(* connection that took it.  yoyo has a lock of its own, a table row that  *)
(* outlives a killed runner; whoever has the advisory lock clears it.      *)
(*                                                                         *)
(* A runner may be killed anywhere, a statement of it may fail, and its    *)
(* lock connection, idle while it migrates, may break without the runner   *)
(* taking notice.  Postgres need not notice at once that a runner is gone. *)
(***************************************************************************)
EXTENDS Integers, FiniteSets

CONSTANTS
    Runner, NoRunner,  \* processes, and nobody
    Last,              \* migrations 1..Last, each depending on the one before
    MaxKills, MaxDrops \* bounds: runners killed, lock connections broken

ASSUME MigrateAssumption ==
    /\ NoRunner \notin Runner
    /\ {Last, MaxKills, MaxDrops} \subseteq Nat

VARIABLES
    stage,   \* runner -> where it stands
    holder,  \* the runner whose session has the advisory lock
    mark,    \* the runner whose row is in yoyo's lock table
    todo,    \* runner -> migrations it has found to apply
    ledger,  \* migrations applied and recorded
    held,         \* history: runners that have had the lock
    kills, drops  \* history

history == <<held, kills, drops>>
vars == <<stage, holder, mark, todo, ledger, history>>

Migration == 1..Last
Working == {"locked", "cleared", "planned", "applying", "applied"}
Ended == {"done", "timed-out", "collided", "raised", "killed"}
Stage == {"starting", "waiting"} \cup Working \cup Ended

Init ==
    /\ stage = [r \in Runner |-> "starting"]
    /\ holder = NoRunner /\ mark = NoRunner
    /\ todo = [r \in Runner |-> {}]
    /\ ledger \in {1..n : n \in 0..Last}
    /\ held = {} /\ kills = 0 /\ drops = 0

Goto(r, from, to) ==
    /\ stage[r] = from
    /\ stage' = [stage EXCEPT ![r] = to]

\* get_backend, read_migrations, and the connection that is to hold the lock.
Connect(r) ==
    /\ Goto(r, "starting", "waiting")
    /\ UNCHANGED <<holder, mark, todo, ledger, history>>

\* pg_try_advisory_lock.
TryAcquire(r) ==
    /\ Goto(r, "waiting", "locked")
    /\ holder = NoRunner
    /\ holder' = r
    /\ held' = held \cup {r}
    /\ UNCHANGED <<mark, todo, ledger, kills, drops>>

\* Mutants of GiveUp: the deadline is checked before the lock is tried; there
\* is no deadline.
GiveUpUntried(r) ==
    /\ Goto(r, "waiting", "timed-out")
    /\ UNCHANGED <<holder, mark, todo, ledger, history>>

GiveUpNever(r) == FALSE /\ UNCHANGED vars

\* Another session has the lock still, and the deadline has passed.
GiveUp(r) ==
    /\ Goto(r, "waiting", "timed-out")
    /\ holder # NoRunner
    /\ UNCHANGED <<holder, mark, todo, ledger, history>>

\* Mutant of BreakLock: a row found there is left to whoever put it there.
BreakNoLock(r) ==
    /\ Goto(r, "locked", "cleared")
    /\ UNCHANGED <<holder, mark, todo, ledger, history>>

BreakLock(r) ==
    /\ Goto(r, "locked", "cleared")
    /\ mark' = NoRunner
    /\ UNCHANGED <<holder, todo, ledger, history>>

\* Mutants of Plan: nothing but the newest; whatever comes after one applied.
PlanNewest(r) ==
    /\ Goto(r, "cleared", "planned")
    /\ todo' = [todo EXCEPT ![r] = {Last} \ ledger]
    /\ UNCHANGED <<holder, mark, ledger, history>>

PlanSuccessors(r) ==
    /\ Goto(r, "cleared", "planned")
    /\ todo' = [todo EXCEPT ![r] = {m + 1 : m \in ledger \cup {0}} \ ledger]
    /\ UNCHANGED <<holder, mark, ledger, history>>

\* to_apply.
Plan(r) ==
    /\ Goto(r, "cleared", "planned")
    /\ todo' = [todo EXCEPT ![r] = Migration \ ledger]
    /\ UNCHANGED <<holder, mark, ledger, history>>

------------------------------------------------------------------------------
(* backend.apply_migrations: yoyo's part.  migrate.py:86-89 clears yoyo's lock and
   calls apply_migrations, and never calls lock(): that yoyo takes its row in there,
   and that it records a migration in the transaction that applies it, is taken of
   yoyo. *)

\* The yoyo lock: a row is put in the table, or is there already and stays.
TakeMark(r) ==
    /\ Goto(r, "planned", "applying")
    /\ todo[r] # {}
    /\ mark = NoRunner
    /\ mark' = r
    /\ UNCHANGED <<holder, todo, ledger, history>>

\* The process ends: its sessions close, and yoyo's `finally` removes its row.
Exit(r, outcome) ==
    /\ stage' = [stage EXCEPT ![r] = outcome]
    /\ mark' = IF mark = r THEN NoRunner ELSE mark
    /\ holder' = IF holder = r THEN NoRunner ELSE holder
    /\ UNCHANGED <<todo, ledger, history>>

MarkTimeout(r) ==
    /\ stage[r] = "planned" /\ todo[r] # {}
    /\ mark # NoRunner
    /\ Exit(r, "collided")

FirstOf(m, S) == m \in S /\ \A n \in S : m <= n

\* Mutant of Apply: in any order.
ApplyAny(r, m) ==
    /\ stage[r] = "applying"
    /\ m \in todo[r]
    /\ m \notin ledger
    /\ ledger' = ledger \cup {m}
    /\ todo' = [todo EXCEPT ![r] = @ \ {m}]
    /\ UNCHANGED <<stage, holder, mark, history>>

\* One migration and its record in the ledger, in a transaction.
Apply(r, m) ==
    /\ stage[r] = "applying"
    /\ FirstOf(m, todo[r])
    /\ m \notin ledger
    /\ ledger' = ledger \cup {m}
    /\ todo' = [todo EXCEPT ![r] = @ \ {m}]
    /\ UNCHANGED <<stage, holder, mark, history>>

\* What the migration creates is there already.
Collide(r, m) ==
    /\ stage[r] = "applying"
    /\ FirstOf(m, todo[r])
    /\ m \in ledger
    /\ Exit(r, "collided")

\* apply_migrations returns, at once when there was nothing to apply.
Applied(r) ==
    /\ \/ Goto(r, "applying", "applied") \/ Goto(r, "planned", "applied")
    /\ todo[r] = {}
    /\ mark' = IF mark = r THEN NoRunner ELSE mark
    /\ UNCHANGED <<holder, todo, ledger, history>>

------------------------------------------------------------------------------
\* The lock connection is closed, and with it the lock.
Done(r) ==
    /\ stage[r] = "applied"
    /\ Exit(r, "done")

\* A connection cannot be had, or a statement fails.
Raise(r) ==
    /\ stage[r] \in {"starting", "waiting"} \cup Working
    /\ Exit(r, "raised")

\* SIGKILL, or the host goes: no `finally` runs.
Kill(r) ==
    /\ stage[r] \in {"starting", "waiting"} \cup Working
    /\ kills < MaxKills
    /\ kills' = kills + 1
    /\ stage' = [stage EXCEPT ![r] = "killed"]
    /\ UNCHANGED <<holder, mark, todo, ledger, held, drops>>

\* Postgres finds the connection of a killed runner closed.
Notice(r) ==
    /\ stage[r] = "killed"
    /\ holder = r
    /\ holder' = NoRunner
    /\ UNCHANGED <<stage, mark, todo, ledger, history>>

\* The lock connection breaks; the runner, at work on the other one, goes on.
Drop(r) ==
    /\ stage[r] \in Working
    /\ holder = r
    /\ drops < MaxDrops
    /\ drops' = drops + 1
    /\ holder' = NoRunner
    /\ UNCHANGED <<stage, mark, todo, ledger, held, kills>>

Step(r) ==
    \/ Connect(r) \/ TryAcquire(r) \/ GiveUp(r) \/ BreakLock(r) \/ Plan(r)
    \/ TakeMark(r) \/ MarkTimeout(r)
    \/ \E m \in Migration : Apply(r, m) \/ Collide(r, m)
    \/ Applied(r) \/ Done(r)

Next == \E r \in Runner : Step(r) \/ Raise(r) \/ Kill(r) \/ Notice(r) \/ Drop(r)

Spec == Init /\ [][Next]_vars

\* A runner that has not been killed runs on.  Nothing is assumed about when
\* Postgres notices that one has gone: the deadline is there for that.
FairSpec == Spec /\ \A r \in Runner : WF_vars(Step(r))

------------------------------------------------------------------------------
(* Properties. *)

TypeOK ==
    /\ stage \in [Runner -> Stage]
    /\ holder \in Runner \cup {NoRunner} /\ mark \in Runner \cup {NoRunner}
    /\ todo \in [Runner -> SUBSET Migration]
    /\ ledger \subseteq Migration
    /\ held \subseteq Runner /\ kills \in Nat /\ drops \in Nat

\* "Holding the advisory lock proves no other runner exists": until a lock
\* connection breaks, no runner runs into another's migration or lock row, be
\* that one killed at any point; so two started at once both succeed.
NoCollision == drops = 0 => \A r \in Runner : stage[r] # "collided"

\* A runner that reports success leaves the whole schema behind, whoever has
\* applied it and whatever broke meanwhile: the services start on the strength
\* of that.
SuccessMeansMigrated == (\E r \in Runner : stage[r] = "done") => ledger = Migration

\* Migrations are applied in the order of their dependencies, by all runners
\* taken together, killed and overlapping ones included.
AppliedInOrder == \A m \in ledger : 1..m \subseteq ledger

\* A time-out is never all there is: the schema is complete, or a runner that has had
\* the lock is still at work or has failed on its own account.  So runners never all
\* time out on each other, or on the lock row of one that is no more, and leave the
\* services waiting for a schema that nobody has tried to complete.
TimeoutsExplained ==
    (\E r \in Runner : stage[r] = "timed-out") =>
        \/ ledger = Migration
        \/ \E q \in held : stage[q] \in Working \cup {"collided", "raised", "killed"}

\* No runner waits for ever, not even on one whose death goes unnoticed.
EveryRunnerEnds == \A r \in Runner : stage[r] = "waiting" ~> stage[r] \in Ended
==============================================================================
