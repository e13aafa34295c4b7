------------------------------ MODULE Decision -------------------------------
(***************************************************************************)
(* agent.decide: the graph that turns a row into a decision.  A model      *)
(* extracts the receipt's fields, validate routes incomplete ones to a     *)
(* human, apply_policies decides by rule where it can, a second model      *)
(* judges the rest, and the node that holds the verdict writes it.  A      *)
(* failure of a model or of the write is logged and escalates the row; a   *)
(* failure of that is logged too, and ends the run.  A row may be decided  *)
(* more than once, when its message is delivered again.                    *)
(*                                                                         *)
(* The models are the environment: an extraction is any value of Value,    *)
(* any day of Day and any Currency, or none.                               *)
(***************************************************************************)
EXTENDS Integers

CONSTANTS
    Value,     \* amounts the extraction may find, in cents
    Day,       \* receipt dates it may find
    Currency,  \* currencies it may find
    Iso,       \* those that are three capital letters
    Null,      \* a field that is absent
    Today,     \* datetime.now(UTC).date(), and the database's CURRENT_DATE
    Submission, \* the day of submitted_at, as the requester gives it
    MaxRuns    \* bound: how often the row is decided

ASSUME DecisionAssumption ==
    /\ Value \subseteq Int /\ Day \subseteq Int /\ Today \in Int
    /\ Iso \subseteq Currency
    /\ Null \notin Value /\ Null \notin Day /\ Null \notin Currency
    /\ Submission \in Int /\ Submission =< Today + 1 \* CHECK: at most an hour ahead
    /\ MaxRuns \in Nat

RejectThresholdDays == 90
AutoApproveCeiling == 200 * 100
HumanReviewFloor == 2000 * 100

VARIABLES
    node,    \* the node of the graph that runs next
    found,   \* state["extracted"]
    status,  \* state["status"], Null before a node decides
    row,     \* the reimbursement row
    logged,  \* the failure log: <<run, event>>
    writer,  \* history: what the run that last wrote the row had extracted
    runs     \* history: number of runs

vars == <<node, found, status, row, logged, writer, runs>>

Fields == [value : Value \cup {Null}, day : Day \cup {Null}, currency : Currency \cup {Null}]
Blank == [value |-> Null, day |-> Null, currency |-> Null]
Decided == {"auto-approved", "auto-rejected", "human-review"}
Node == {"idle", "extract_fields", "validate", "apply_policies", "analysis",
         "apply_agent_decision", "failed"}
Event == {"decision_failed", "escalation_failed"}
Row == [status : Decided \cup {"pending"}, value : Value \cup {Null},
        day : Day \cup {Null}, currency : Currency \cup {Null}]

Init ==
    /\ node = "idle" /\ found = Blank /\ status = Null
    /\ row = [status |-> "pending", value |-> Null, day |-> Null, currency |-> Null]
    /\ logged = {} /\ writer = Blank /\ runs = 0

Start ==
    /\ node = "idle" /\ runs < MaxRuns
    /\ node' = "extract_fields"
    /\ found' = Blank /\ status' = Null
    /\ runs' = runs + 1
    /\ UNCHANGED <<row, logged, writer>>

ExtractFields(f) ==
    /\ node = "extract_fields"
    /\ found' = f
    /\ node' = "validate"
    /\ UNCHANGED <<status, row, logged, writer, runs>>

\* The currency is not asked for.
Missing(f) == {k \in {"value", "day"} : f[k] = Null}

Validate ==
    /\ node = "validate"
    /\ IF Missing(found) = {}
       THEN node' = "apply_policies" /\ status' = status
       ELSE node' = "apply_agent_decision" /\ status' = "human-review"
    /\ UNCHANGED <<found, row, logged, writer, runs>>

\* Mutant of Rule: the ceiling is tried before the age.
RuleApproveFirst(f) ==
    CASE f.value =< AutoApproveCeiling -> "auto-approved"
      [] f.value > AutoApproveCeiling /\ Today - f.day > RejectThresholdDays -> "auto-rejected"
      [] OTHER -> IF f.value > HumanReviewFloor THEN "human-review" ELSE "none"

\* Reject first, then the two rules on the amount; "none" leaves it to the model.
Rule(f) ==
    CASE Today - f.day > RejectThresholdDays -> "auto-rejected"
      [] Today - f.day =< RejectThresholdDays /\ f.value =< AutoApproveCeiling -> "auto-approved"
      [] Today - f.day =< RejectThresholdDays /\ f.value > HumanReviewFloor -> "human-review"
      [] OTHER -> "none"

\* Mutant of Backfill: SET receipts_value = $4, without COALESCE.
Overwrite(new, old) == new

Backfill(new, old) == IF new = Null THEN old ELSE new

\* A negative amount is not stored; the columns' CHECKs refuse the rest.
Storable(f) ==
    /\ f.day # Null => f.day =< Today
    /\ f.currency \in Iso \cup {Null}

Amount(f) == IF f.value # Null /\ f.value >= 0 THEN f.value ELSE Null

\* The handler logs what the graph raises before it escalates the row.
Raise ==
    /\ node' = "failed"
    /\ logged' = logged \cup {<<runs, "decision_failed">>}

\* The UPDATE commits; its acknowledgement may not arrive, and then raises.
Write(s) ==
    /\ Storable(found)
    /\ row' = [status   |-> s,
               value    |-> Backfill(Amount(found), row.value),
               day      |-> Backfill(found.day, row.day),
               currency |-> Backfill(found.currency, row.currency)]
    /\ writer' = found
    /\ \/ node' = "idle" /\ UNCHANGED logged
       \/ Raise

\* A deterministic rule fires and the same node writes its verdict.
ApplyPolicies ==
    /\ node = "apply_policies"
    /\ Rule(found) # "none"
    /\ Write(Rule(found))
    /\ status' = Rule(found)
    /\ UNCHANGED <<found, runs>>

RequireJudgment ==
    /\ node = "apply_policies"
    /\ Rule(found) = "none"
    /\ node' = "analysis"
    /\ UNCHANGED <<found, status, row, logged, writer, runs>>

\* Mutant of Analysis: approval in the spelling of the review payload.
AnalysisApproved(s) ==
    /\ node = "analysis"
    /\ s \in {"auto-approved", "human-review"}
    /\ status' = IF s = "auto-approved" THEN "approved" ELSE s
    /\ node' = "apply_agent_decision"
    /\ UNCHANGED <<found, row, logged, writer, runs>>

\* The judge's schema lets it approve or pass the row on, never reject it.
Analysis(s) ==
    /\ node = "analysis"
    /\ s \in {"auto-approved", "human-review"}
    /\ status' = s
    /\ node' = "apply_agent_decision"
    /\ UNCHANGED <<found, row, logged, writer, runs>>

ApplyAgentDecision ==
    /\ node = "apply_agent_decision"
    /\ Write(status)
    /\ UNCHANGED <<found, status, runs>>

\* A model call raises, no connection in time, the write is refused.
Fail ==
    /\ \/ node \in {"extract_fields", "analysis", "apply_agent_decision"}
       \/ node = "apply_policies" /\ Rule(found) # "none"
    /\ Raise
    /\ UNCHANGED <<found, status, row, writer, runs>>

\* escalate_existing passes no receipt fields: those of the row stay.
Escalate ==
    /\ node = "failed"
    /\ row' = [row EXCEPT !.status = "human-review"]
    /\ node' = "idle"
    /\ UNCHANGED <<found, status, logged, writer, runs>>

\* Mutant of EscalateFails: it is only logged to the console.
EscalateFailsUnseen ==
    /\ node = "failed"
    /\ row' = row
    /\ node' = "idle"
    /\ UNCHANGED <<found, status, logged, writer, runs>>

\* The escalation raises: the row is as it was, or the UPDATE has been committed.
EscalateFails ==
    /\ node = "failed"
    /\ row' \in {row, [row EXCEPT !.status = "human-review"]}
    /\ logged' = logged \cup {<<runs, "escalation_failed">>}
    /\ node' = "idle"
    /\ UNCHANGED <<found, status, writer, runs>>

Next ==
    \/ Start
    \/ \E f \in Fields : ExtractFields(f)
    \/ Validate \/ ApplyPolicies \/ RequireJudgment
    \/ \E s \in {"auto-approved", "human-review"} : Analysis(s)
    \/ ApplyAgentDecision \/ Fail \/ Escalate \/ EscalateFails

Spec == Init /\ [][Next]_vars

------------------------------------------------------------------------------
(* Properties. *)

TypeOK ==
    /\ node \in Node /\ found \in Fields /\ status \in Decided \cup {Null}
    /\ row \in Row /\ logged \subseteq Nat \X Event
    /\ writer \in Fields /\ runs \in Nat

\* Nobody is paid or refused against the policy, whatever route the graph took.
\* docs/SCOPE.md:25-26: above 2000, or with the amount or the date unknown, no
\* model's approval stands.  docs/METRICS.md:43: a receipt more than 90 days old by
\* the server's clock is rejected, and none other.  docs/SCOPE.md:27 has it rejected
\* by the day of submission, which apply_policies.py:42-47 no longer reads: what is
\* approved obeys that as well, but for the day by which submitted_at may be ahead;
\* what is rejected does not, if the request has waited.
Complete(f) == f.value # Null /\ f.day # Null
Old(f) == Today - f.day > 90
VerdictFollowsPolicy ==
    /\ row.status = "auto-rejected" => Complete(writer) /\ Old(writer)
    /\ row.status = "auto-approved" =>
          /\ Complete(writer) /\ ~Old(writer) /\ writer.value <= 2000 * 100
          /\ Submission - writer.day <= 90 + 1

\* What is left of a run that has ended: the verdict it reached, stored with what it
\* extracted; or a human, and the failure in the log; or two failures in the log,
\* of the decision and of the escalation, and a row that may still be pending or
\* show an earlier verdict.  A receipt dated in the future or in a malformed
\* currency is never the first.
RunsAccounted == node = "idle" /\ runs > 0 =>
    \/ status \in Decided /\ row.status = status /\ writer = found /\ Storable(found)
    \/ row.status = "human-review" /\ <<runs, "decision_failed">> \in logged
    \/ {runs} \X Event \subseteq logged

\* The COALESCE of the UPDATE: what an earlier run stored is not erased by one that
\* found less.  It may be replaced, field by field, by what a later one found.
BackfillNeverErases ==
    [][\A k \in {"value", "day", "currency"} : row[k] # Null => row'[k] # Null]_vars
==============================================================================
