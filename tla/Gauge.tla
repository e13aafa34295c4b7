-------------------------------- MODULE Gauge --------------------------------
(***************************************************************************)
(* GET /metrics and the gauge of rows per status.  A scrape counts the     *)
(* rows, unless another began to within the interval: then it serves the   *)
(* gauge as it stands.  The interval is claimed before the counting, which *)
(* waits for a connection, for the query and for the connection's release, *)
(* each with its timeout; so a refresh may well outlive the interval, and  *)
(* several be under way in one event loop.                                 *)
(*                                                                         *)
(* Counts are told apart by the moment at which they were true.            *)
(***************************************************************************)
EXTENDS Integers, FiniteSets

CONSTANTS
    Scrape,    \* scrapes that may be under way at once
    Interval,  \* _GAUGE_REFRESH_MIN_INTERVAL_SECONDS
    Patience,  \* sum of the timeouts a refresh may spend
    MaxTime    \* bound: end of time

ASSUME GaugeAssumption ==
    /\ IsFiniteSet(Scrape)
    /\ Interval \in Nat \ {0}
    /\ Patience \in Nat /\ MaxTime \in Nat

VARIABLES
    clock,   \* time.monotonic()
    last,    \* _last_refreshed_at
    stage,   \* scrape -> where it stands
    began,   \* scrape -> when it claimed the interval
    counts,  \* scrape -> moment of the counts it has read
    shown,   \* reimbursement_status_count: moment of its counts, 0 before any
    claim,   \* history: what became of the last claim
    late     \* history: since that claim an older refresh has set the gauge

refreshes == <<stage, began, counts>>
vars == <<clock, last, refreshes, shown, claim, late>>

InFlight == {s \in Scrape : stage[s] # "idle"}
Age(s) == clock - began[s]

\* The host may have booted less than an interval before the service.
Init ==
    /\ clock \in 1 .. Interval
    /\ last = 0
    /\ stage = [s \in Scrape |-> "idle"]
    /\ began = [s \in Scrape |-> 0]
    /\ counts = [s \in Scrape |-> 0]
    /\ shown = 0
    /\ claim = "none" /\ late = FALSE

\* Time passes; the timeouts end a refresh that has used up its patience.
Tick ==
    /\ clock < MaxTime
    /\ \A s \in InFlight : Age(s) < Patience
    /\ clock' = clock + 1
    /\ UNCHANGED <<last, refreshes, shown, claim, late>>

\* Mutant of Skip: every scrape is noted, not only those that refresh.
SkipMarked(s) ==
    /\ stage[s] = "idle"
    /\ clock - last < Interval
    /\ last' = clock
    /\ UNCHANGED <<clock, refreshes, shown, claim, late>>

\* A scrape within the interval: the gauge is served as it is.
Skip(s) ==
    /\ stage[s] = "idle"
    /\ clock - last < Interval
    /\ UNCHANGED vars

Claims(s) ==
    /\ stage[s] = "idle"
    /\ clock - last >= Interval
    /\ stage' = [stage EXCEPT ![s] = "waiting"]
    /\ began' = [began EXCEPT ![s] = clock]
    /\ claim' = "flying" /\ late' = FALSE
    /\ UNCHANGED <<clock, counts, shown>>

\* Mutants: the interval is claimed by the refresh that ends, or kept as the
\* moment from which the next one is allowed.
ClaimUnmarked(s) == Claims(s) /\ last' = last
ClaimAhead(s) == Claims(s) /\ last' = clock + Interval

Claim(s) == Claims(s) /\ last' = clock

\* count_by_status on a connection of the pool: what is true when the query runs.
Count(s) ==
    /\ stage[s] = "waiting"
    /\ stage' = [stage EXCEPT ![s] = "counted"]
    /\ counts' = [counts EXCEPT ![s] = clock]
    /\ UNCHANGED <<clock, last, began, shown, claim, late>>

Ends(s, outcome) ==
    /\ stage' = [stage EXCEPT ![s] = "idle"]
    /\ began' = [began EXCEPT ![s] = 0]
    /\ counts' = [counts EXCEPT ![s] = 0]
    /\ claim' = IF began[s] = last THEN outcome ELSE claim
    /\ late' = (late \/ (outcome = "set" /\ began[s] # last))
    /\ UNCHANGED <<clock, last>>

\* Every status is set, and the scrape answered, without another await.
Set(s) ==
    /\ stage[s] = "counted"
    /\ shown' = counts[s]
    /\ Ends(s, "set")

\* No connection in time, a failed query or release: the old counts are served.
Fail(s) ==
    /\ stage[s] \in {"waiting", "counted"}
    /\ Ends(s, "failed")
    /\ UNCHANGED shown

Next ==
    \/ Tick
    \/ \E s \in Scrape : Skip(s) \/ Claim(s) \/ Count(s) \/ Set(s) \/ Fail(s)

Spec == Init /\ [][Next]_vars

------------------------------------------------------------------------------
(* Properties. *)

TypeOK ==
    /\ clock \in Nat
    /\ last \in 0 .. clock /\ shown \in 0 .. clock
    /\ stage \in [Scrape -> {"idle", "waiting", "counted"}]
    /\ began \in [Scrape -> 0 .. clock]
    /\ counts \in [Scrape -> 0 .. clock]
    /\ claim \in {"none", "flying", "set", "failed"}
    /\ late \in BOOLEAN

\* However many scrapes there are and however slow the database is, the gauge
\* takes no more of the pool than the interval allows: the refreshes under way,
\* and so the connections they hold or wait for, are bounded.
BoundedLoad == Cardinality(InFlight) <= Patience \div Interval + 1

\* A scrape that does not count relies on the refresh that claimed the interval.
\* If that one has set the gauge, the counts served are younger than the interval,
\* or, where an older refresh came late and has put its own counts over them,
\* older by no more than a refresh may take.  Of a claim whose query failed
\* nothing is said: the gauge keeps what it had, however old.
AnswersAreFresh ==
    claim = "set" /\ clock - last < Interval =>
        clock - shown < Interval + (IF late THEN Patience ELSE 0)
==============================================================================
