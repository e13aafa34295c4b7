---------------------------- MODULE DecisionProofs ----------------------------
(* What Decision promises for every extraction, every date and any number of runs. *)
EXTENDS Decision, TLAPS

(***************************************************************************)
(* The policy speaks of the row; the code decides at one node and writes   *)
(* at another.  Routed is what each node may rely on about what an earlier *)
(* one has established, and so what makes the write follow the policy.     *)
(***************************************************************************)
Judged == Complete(found) /\ Rule(found) = "none"

Routed ==
    /\ node = "apply_policies" => Complete(found)
    /\ node = "analysis" => Judged
    /\ node = "apply_agent_decision" =>
          status = "human-review" \/ (status = "auto-approved" /\ Judged)

\* A failure is in the log before it is escalated.
Logged == node = "failed" => <<runs, "decision_failed">> \in logged

IInv == TypeOK /\ Routed /\ Logged /\ VerdictFollowsPolicy /\ RunsAccounted

\* A complete extraction has a value and a day that can be compared.
LEMMA CompleteIsNumeric ==
    ASSUME NEW f \in Fields, Complete(f)
    PROVE  f.value \in Int /\ f.day \in Int
BY DecisionAssumption DEF Fields, Complete

\* The rules are total, and each verdict is what the policy allows.
LEMMA RuleFollowsPolicy ==
    ASSUME NEW f \in Fields, Complete(f)
    PROVE  /\ Rule(f) \in Decided \cup {"none"}
           /\ Rule(f) = "auto-rejected" => Old(f)
           /\ Rule(f) = "auto-approved" => ~Old(f) /\ f.value <= 2000 * 100
           /\ Rule(f) = "none" => ~Old(f) /\ f.value <= 2000 * 100
<1>1. f.value \in Int /\ f.day \in Int /\ Today \in Int
    BY CompleteIsNumeric, DecisionAssumption
<1>2. CASE Today - f.day > 90
    BY <1>1, <1>2 DEF Rule, Old, Decided, RejectThresholdDays
<1>3. CASE ~(Today - f.day > 90)
    <2>1. CASE f.value <= 20000
        BY <1>1, <1>3, <2>1 DEF Rule, Old, Decided, RejectThresholdDays, AutoApproveCeiling,
            HumanReviewFloor
    <2>2. CASE f.value > 200000
        BY <1>1, <1>3, <2>2 DEF Rule, Old, Decided, RejectThresholdDays, AutoApproveCeiling,
            HumanReviewFloor
    <2>3. CASE f.value > 20000 /\ f.value <= 200000
        BY <1>1, <1>3, <2>3 DEF Rule, Old, Decided, RejectThresholdDays, AutoApproveCeiling,
            HumanReviewFloor
    <2> QED
        BY <1>1, <2>1, <2>2, <2>3
<1> QED
    BY <1>2, <1>3

\* The verdict s is one that the policy allows of the extraction in hand.
Allowed(s) ==
    /\ s \in Decided
    /\ s = "auto-rejected" => Complete(found) /\ Old(found)
    /\ s = "auto-approved" => Complete(found) /\ ~Old(found) /\ found.value <= 2000 * 100

\* Submitted no later than tomorrow, a receipt that is not old is not old then.
LEMMA SubmissionFollows ==
    ASSUME NEW f \in Fields, Complete(f), ~Old(f)
    PROVE  Submission - f.day <= 90 + 1
BY CompleteIsNumeric, DecisionAssumption DEF Old

LEMMA WriteStep ==
    ASSUME IInv, NEW s, Allowed(s), Write(s), status' = s,
           found' = found, runs' = runs
    PROVE  IInv'
<1>1. /\ row'.status = s
      /\ writer' = found /\ node' \in {"idle", "failed"} /\ Storable(found)
    BY DEF Write, Raise
<1>2. row' \in Row
    BY DEF Write, Allowed, Row, Backfill, Amount, IInv, TypeOK, Fields
<1>3. logged' \subseteq Nat \X Event
    BY DEF Write, Raise, IInv, TypeOK, Event
<1>4. TypeOK'
    BY <1>1, <1>2, <1>3 DEF IInv, TypeOK, Node, Allowed
<1>5. Routed'
    BY <1>1 DEF Routed
<1>6. Logged'
    BY DEF Write, Raise, Logged
<1>7. VerdictFollowsPolicy'
    <2>1. found \in Fields
        BY DEF IInv, TypeOK
    <2>2. s = "auto-approved" => Submission - found.day <= 90 + 1
        BY <2>1, SubmissionFollows DEF Allowed
    <2> QED
        BY <1>1, <2>2 DEF Allowed, VerdictFollowsPolicy, Complete, Old
<1>8. RunsAccounted'
    BY <1>1 DEF Allowed, RunsAccounted, Storable
<1> QED
    BY <1>4, <1>5, <1>6, <1>7, <1>8 DEF IInv

LEMMA InitIInv == Init => IInv
BY DEF Init, IInv, TypeOK, Routed, Logged, VerdictFollowsPolicy, RunsAccounted, Blank, Fields,
    Row, Node, Decided, Event

\* The steps that hand the extraction on and leave the row alone.
LEMMA RoutingStep ==
    ASSUME IInv,
           \/ Start
           \/ \E f \in Fields : ExtractFields(f)
           \/ Validate \/ RequireJudgment
           \/ \E s \in {"auto-approved", "human-review"} : Analysis(s)
           \/ Fail
    PROVE  IInv'
<1> USE DEF IInv, TypeOK, Routed, Node, Decided
<1>1. row' = row /\ writer' = writer /\ node' # "idle"
    BY DEF Start, ExtractFields, Validate, RequireJudgment, Analysis, Fail, Raise
<1>2. VerdictFollowsPolicy' /\ RunsAccounted'
    BY <1>1 DEF VerdictFollowsPolicy, RunsAccounted
<1>3. Logged' /\ logged' \subseteq Nat \X Event
    BY DEF Logged, Start, ExtractFields, Validate, RequireJudgment, Analysis, Fail, Raise, Event
<1>4. CASE Start
    BY <1>1, <1>2, <1>3, <1>4 DEF Start, Blank, Fields
<1>5. CASE \E f \in Fields : ExtractFields(f)
    BY <1>1, <1>2, <1>3, <1>5 DEF ExtractFields
<1>6. CASE Validate
    BY <1>1, <1>2, <1>3, <1>6 DEF Validate, Missing, Complete
<1>7. CASE RequireJudgment
    BY <1>1, <1>2, <1>3, <1>7 DEF RequireJudgment, Judged, Complete, Rule
<1>8. CASE \E s \in {"auto-approved", "human-review"} : Analysis(s)
    BY <1>1, <1>2, <1>3, <1>8 DEF Analysis, Judged, Complete, Rule
<1>9. CASE Fail
    BY <1>1, <1>2, <1>3, <1>9 DEF Fail, Raise
<1> QED
    BY <1>4, <1>5, <1>6, <1>7, <1>8, <1>9

LEMMA PoliciesStep ==
    ASSUME IInv, ApplyPolicies
    PROVE  IInv'
<1>1. found \in Fields /\ Complete(found) /\ Rule(found) # "none"
    BY DEF ApplyPolicies, IInv, TypeOK, Routed
<1>2. Rule(found) \in Decided /\ Allowed(Rule(found))
    BY <1>1, RuleFollowsPolicy DEF Allowed
<1> QED
    BY <1>2, WriteStep DEF ApplyPolicies

LEMMA DecisionStep ==
    ASSUME IInv, ApplyAgentDecision
    PROVE  IInv'
<1>1. /\ found \in Fields
      /\ status = "human-review" \/ (status = "auto-approved" /\ Judged)
    BY DEF ApplyAgentDecision, IInv, TypeOK, Routed
<1>2. Allowed(status)
    BY <1>1, RuleFollowsPolicy DEF Allowed, Judged, Decided
<1> QED
    BY <1>2, WriteStep DEF ApplyAgentDecision, Allowed

LEMMA EscalateStep ==
    ASSUME IInv, Escalate \/ EscalateFails
    PROVE  IInv'
<1>1. /\ node = "failed" /\ node' = "idle"
      /\ row' \in {row, [row EXCEPT !.status = "human-review"]}
      /\ UNCHANGED <<found, status, writer, runs>>
      /\ logged \subseteq logged' /\ logged' \subseteq Nat \X Event
    BY DEF Escalate, EscalateFails, IInv, TypeOK, Event
<1>2. row' \in Row /\ row'.status \in {row.status, "human-review"}
    BY <1>1 DEF IInv, TypeOK, Row, Decided
<1>3. TypeOK' /\ Routed' /\ Logged'
    BY <1>1, <1>2 DEF IInv, TypeOK, Node, Routed, Logged
<1>4. VerdictFollowsPolicy'
    BY <1>1, <1>2 DEF IInv, VerdictFollowsPolicy, Complete, Old
<1>5. RunsAccounted'
    <2>1. <<runs', "decision_failed">> \in logged'
        BY <1>1 DEF IInv, Logged
    <2>2. row'.status = "human-review" \/ <<runs', "escalation_failed">> \in logged'
        BY <1>1, <1>2 DEF Escalate, EscalateFails, IInv, TypeOK, Row
    <2> QED
        BY <2>1, <2>2 DEF RunsAccounted, Event
<1> QED
    BY <1>3, <1>4, <1>5 DEF IInv

LEMMA Inductive == Spec => []IInv
<1>1. ASSUME IInv, [Next]_vars PROVE IInv'
    <2>1. CASE Next
        BY <1>1, <2>1, RoutingStep, PoliciesStep, DecisionStep, EscalateStep DEF Next
    <2>2. CASE UNCHANGED vars
        BY <1>1, <2>2 DEF vars, IInv, TypeOK, Routed, Logged, Judged, Complete, Rule,
            VerdictFollowsPolicy, Old, RunsAccounted, Storable
    <2> QED
        BY <1>1, <2>1, <2>2
<1> QED
    BY <1>1, InitIInv, PTL DEF Spec

\* Whatever the models answer, the row stays a row of the table.
THEOREM TypeCorrect == Spec => []TypeOK
<1>1. IInv => TypeOK
    BY DEF IInv
<1> QED
    BY <1>1, Inductive, PTL

\* agent.decide: no route through the graph and no number of runs writes a verdict
\* the policy does not allow of the receipt, for every amount and every date, and
\* for every day of submission the table takes.
THEOREM PolicyKept == Spec => []VerdictFollowsPolicy
<1>1. IInv => VerdictFollowsPolicy
    BY DEF IInv
<1> QED
    BY <1>1, Inductive, PTL

\* agent.decide, _decide and _escalate_row: a run leaves its own verdict, a human
\* with the failure in the log, or both failures in the log, whatever fails.
THEOREM EveryRunAccounted == Spec => []RunsAccounted
<1>1. IInv => RunsAccounted
    BY DEF IInv
<1> QED
    BY <1>1, Inductive, PTL

\* apply_decision's COALESCE: no run forgets a field an earlier one has stored.
THEOREM FieldsKept == Spec => BackfillNeverErases
<1> DEFINE Kept == \A k \in {"value", "day", "currency"} : row[k] # Null => row'[k] # Null
<1>1. ASSUME IInv, [Next]_vars PROVE Kept
    <2>1. CASE \E s \in Decided \cup {Null, "none"} : Write(s)
        BY <2>1 DEF Write, Backfill
    <2>2. CASE Escalate \/ EscalateFails
        BY <1>1, <2>2 DEF Escalate, EscalateFails, IInv, TypeOK, Row
    <2>3. CASE row' = row
        BY <2>3
    <2>4. \/ row' = row \/ Escalate \/ EscalateFails
          \/ \E s \in Decided \cup {Null, "none"} : Write(s)
        <3>1. CASE ApplyPolicies
            BY <1>1, <3>1, RuleFollowsPolicy DEF ApplyPolicies, IInv, TypeOK, Routed
        <3>2. CASE ApplyAgentDecision
            BY <1>1, <3>2 DEF ApplyAgentDecision, IInv, TypeOK
        <3> QED
            BY <1>1, <3>1, <3>2
            DEF Next, vars, Start, ExtractFields, Validate, RequireJudgment, Analysis, Fail
    <2> QED
        BY <2>1, <2>2, <2>3, <2>4
<1>2. IInv /\ [Next]_vars => [Kept]_vars
    BY <1>1
<1> QED
    BY <1>2, Inductive, PTL DEF Spec, BackfillNeverErases
==============================================================================
