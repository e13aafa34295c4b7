----------------------------- MODULE GaugeProofs -----------------------------
(* What the gauge promises for every number of scrapes and every timeout. *)
EXTENDS Gauge, FiniteSetTheorems, TLAPS

(***************************************************************************)
(* The inductive invariant.  Claims are an interval apart because each is  *)
(* made without an await between the check and the mark, so the refreshes  *)
(* under way are spaced by it, and one that is not the last to claim has   *)
(* outlived its interval.                                                  *)
(***************************************************************************)
Apart(x, y) == x + Interval <= y \/ y + Interval <= x

Spaced == \A s, t \in InFlight : s # t => Apart(began[s], began[t])

UnderWay(s) ==
    /\ Age(s) <= Patience
    /\ began[s] = last \/ began[s] + Interval <= last
    /\ stage[s] = "counted" => began[s] <= counts[s]

\* Counts are read after the claim they belong to, and that is no older than
\* Patience when the gauge is set.
Fresh == claim = "set" => last <= shown + (IF late THEN Patience ELSE 0)

IInv == TypeOK /\ Spaced /\ (\A s \in InFlight : UnderWay(s)) /\ Fresh

LEMMA InitIInv == Init => IInv
<1> SUFFICES ASSUME Init PROVE IInv
    OBVIOUS
<1>1. TypeOK
    <2>1. clock \in Nat /\ 0 \in 0 .. clock
        BY GaugeAssumption DEF Init
    <2> QED
        BY <2>1 DEF Init, TypeOK
<1>2. InFlight = {} /\ claim # "set"
    BY DEF Init, InFlight
<1> QED
    BY <1>1, <1>2 DEF IInv, Spaced, Fresh

LEMMA TickStep ==
    ASSUME IInv, Tick
    PROVE  IInv'
<1> USE GaugeAssumption DEF Tick, refreshes, InFlight, Age
<1>1. TypeOK'
    BY DEF IInv, TypeOK
<1>2. Spaced'
    BY DEF IInv, Spaced, Apart
<1>3. \A s \in InFlight' : UnderWay(s)'
    BY DEF IInv, TypeOK, UnderWay
<1>4. Fresh'
    BY DEF IInv, Fresh
<1> QED
    BY <1>1, <1>2, <1>3, <1>4 DEF IInv

LEMMA ClaimStep ==
    ASSUME IInv, NEW s \in Scrape, Claim(s)
    PROVE  IInv'
<1> USE GaugeAssumption DEF Claim, Claims, InFlight, Age
<1>1. TypeOK'
    <2>1. late' \in BOOLEAN /\ claim' = "flying"
        OBVIOUS
    <2>2. last' \in 0 .. clock' /\ shown' \in 0 .. clock' /\ clock' \in Nat
        BY DEF IInv, TypeOK
    <2>3. stage' \in [Scrape -> {"idle", "waiting", "counted"}]
        BY DEF IInv, TypeOK
    <2>4. began' \in [Scrape -> 0 .. clock'] /\ counts' \in [Scrape -> 0 .. clock']
        BY DEF IInv, TypeOK
    <2> QED
        BY <2>1, <2>2, <2>3, <2>4 DEF TypeOK
<1>2. \A t \in InFlight : t # s /\ began'[t] = began[t] /\ began[t] + Interval <= clock
    BY DEF IInv, TypeOK, UnderWay
<1>3. InFlight' = InFlight \cup {s} /\ began'[s] = clock
    BY DEF IInv, TypeOK
<1>4. Spaced'
    <2>1. \A t, u \in InFlight' : t # u => Apart(began'[t], began'[u])
        BY <1>2, <1>3 DEF IInv, Spaced, Apart
    <2> QED
        BY <2>1 DEF Spaced, Apart
<1>5. \A t \in InFlight' : UnderWay(t)'
    BY <1>2, <1>3 DEF IInv, TypeOK, UnderWay
<1>6. Fresh'
    BY DEF Fresh
<1> QED
    BY <1>1, <1>4, <1>5, <1>6 DEF IInv

LEMMA CountStep ==
    ASSUME IInv, NEW s \in Scrape, Count(s)
    PROVE  IInv'
<1> USE GaugeAssumption DEF Count, InFlight, Age
<1>1. TypeOK'
    BY DEF IInv, TypeOK
<1>2. Spaced'
    BY DEF IInv, TypeOK, Spaced, Apart
<1>3. \A t \in InFlight' : UnderWay(t)'
    BY DEF IInv, TypeOK, UnderWay
<1>4. Fresh'
    BY DEF IInv, Fresh
<1> QED
    BY <1>1, <1>2, <1>3, <1>4 DEF IInv

\* The end of a refresh, with the counts it has set or those that stay.
LEMMA EndStep ==
    ASSUME IInv, NEW s \in InFlight, NEW outcome \in {"set", "failed"}, Ends(s, outcome),
           IF outcome = "set" THEN stage[s] = "counted" /\ shown' = counts[s] ELSE shown' = shown
    PROVE  IInv'
<1> USE GaugeAssumption DEF Ends, Age
<1>1. TypeOK'
    BY DEF IInv, TypeOK, InFlight
<1>2. InFlight' = InFlight \ {s} /\ \A t \in InFlight' : began'[t] = began[t]
    BY DEF IInv, TypeOK, InFlight
<1>3. Spaced'
    BY <1>2 DEF IInv, Spaced, Apart
<1>4. \A t \in InFlight' : UnderWay(t)'
    BY <1>2 DEF IInv, TypeOK, UnderWay, InFlight
<1>5. Fresh'
    <2>1. CASE began[s] = last
        <3>1. late' = late
            BY <2>1, Zenon DEF IInv, TypeOK
        <3> QED
            BY <2>1, <3>1 DEF IInv, TypeOK, UnderWay, Fresh, InFlight
    <2>2. CASE began[s] + Interval <= last
        <3>1. CASE outcome = "failed"
            <4>1. late' = late
                <5>1. late \in BOOLEAN /\ outcome # "set"
                    BY <3>1 DEF IInv, TypeOK
                <5> QED
                    BY <5>1, Zenon
            <4> QED
                BY <2>2, <3>1, <4>1 DEF IInv, TypeOK, UnderWay, Fresh, InFlight
        <3>2. CASE outcome = "set"
            <4>1. began[s] # last
                BY <2>2 DEF IInv, TypeOK, InFlight
            <4>2. late'
                BY <3>2, <4>1, Zenon
            <4>3. last <= counts[s] + Patience
                BY <3>2 DEF IInv, TypeOK, UnderWay, InFlight
            <4> QED
                BY <3>2, <4>2, <4>3 DEF Fresh
        <3> QED
            BY <3>1, <3>2
    <2> QED
        BY <2>1, <2>2 DEF IInv, UnderWay
<1> QED
    BY <1>1, <1>3, <1>4, <1>5 DEF IInv

LEMMA Inductive == Spec => []IInv
<1>1. ASSUME IInv, [Next]_vars PROVE IInv'
    <2>1. CASE Tick
        BY <1>1, <2>1, TickStep
    <2>2. CASE UNCHANGED vars
        BY <1>1, <2>2
        DEF vars, refreshes, IInv, TypeOK, Spaced, Apart, UnderWay, InFlight, Age, Fresh
    <2>3. ASSUME NEW s \in Scrape, Skip(s) \/ Claim(s) \/ Count(s) PROVE IInv'
        BY <1>1, <2>2, <2>3, ClaimStep, CountStep DEF Skip
    <2>4. ASSUME NEW s \in Scrape, Set(s) \/ Fail(s) PROVE IInv'
        <3>1. s \in InFlight
            BY <2>4 DEF Set, Fail, InFlight
        <3> QED
            BY <1>1, <2>4, <3>1, EndStep DEF Set, Fail
    <2> QED
        BY <1>1, <2>1, <2>2, <2>3, <2>4 DEF Next
<1> QED
    BY <1>1, InitIInv, PTL DEF Spec

\* The refreshes under way fall into slots of an interval, counted back from now,
\* and no two share one.
LEMMA FewUnderWay == IInv => BoundedLoad
<1> SUFFICES ASSUME IInv PROVE BoundedLoad
    OBVIOUS
<1> DEFINE Slot == [s \in InFlight |-> Age(s) \div Interval]
           Last == Patience \div Interval
<1> USE GaugeAssumption
<1>1. \A s \in InFlight : Age(s) \in 0 .. Patience
    BY DEF IInv, TypeOK, UnderWay, InFlight, Age
<1>2. \A s \in InFlight : Age(s) \div Interval \in 0 .. Last
    BY <1>1
<1>3. Slot \in Injection(InFlight, 0 .. Last)
    <2>1. ASSUME NEW s \in InFlight, NEW t \in InFlight, Slot[s] = Slot[t] PROVE s = t
        <3>1. SUFFICES ASSUME s # t PROVE FALSE
            OBVIOUS
        <3>2. Age(s) + Interval <= Age(t) \/ Age(t) + Interval <= Age(s)
            BY <3>1 DEF IInv, TypeOK, Spaced, Apart, Age, InFlight
        <3>3. \A x, y \in 0 .. Patience : x + Interval <= y => x \div Interval # y \div Interval
            OBVIOUS
        <3> QED
            BY <1>1, <2>1, <3>2, <3>3
    <2> QED
        BY <1>2, <2>1 DEF Injection, IsInjective
<1>4. IsFiniteSet(InFlight) /\ IsFiniteSet(0 .. Last) /\ Cardinality(0 .. Last) = Last + 1
    <2>1. InFlight \in SUBSET Scrape /\ Last \in Nat
        BY DEF InFlight
    <2>2. IsFiniteSet(InFlight)
        BY <2>1, FS_Subset
    <2> HIDE DEF Last
    <2>3. IsFiniteSet(0 .. Last) /\ Cardinality(0 .. Last) = Last + 1
        <3>1. 0 \in Int /\ Last \in Int /\ ~(0 > Last) /\ Last - 0 + 1 = Last + 1
            BY <2>1
        <3>2. /\ IsFiniteSet(0 .. Last)
              /\ Cardinality(0 .. Last) = IF 0 > Last THEN 0 ELSE Last - 0 + 1
            BY <3>1, FS_Interval
        <3> QED
            BY <3>1, <3>2
    <2> QED
        BY <2>2, <2>3
<1>5. Cardinality(InFlight) <= Cardinality(0 .. Last)
    BY <1>3, <1>4, FS_Injection
<1> QED
    BY <1>4, <1>5 DEF BoundedLoad

\* Every state of the endpoint is well typed, and no claim, count or value shown
\* is of the future.
THEOREM TypeCorrect == Spec => []TypeOK
<1>1. IInv => TypeOK
    BY DEF IInv
<1> QED
    BY <1>1, Inductive, PTL

\* refresh_status_gauge: any number of scrapes takes a bounded part of the pool.
THEOREM LoadBounded == Spec => []BoundedLoad
BY FewUnderWay, Inductive, PTL

\* refresh_status_gauge: a scrape that relies on a refresh which succeeded serves
\* counts of the interval, or after a late refresh of an interval and a refresh ago.
THEOREM AnswersFresh == Spec => []AnswersAreFresh
<1>1. IInv => AnswersAreFresh
    BY GaugeAssumption DEF IInv, TypeOK, Fresh, AnswersAreFresh
<1> QED
    BY <1>1, Inductive, PTL
==============================================================================
