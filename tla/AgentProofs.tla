----------------------------- MODULE AgentProofs ------------------------------
(* What Agent promises for every number of rows, replicas, retries and faults. *)
EXTENDS Agent, TLAPS

\* What an append leaves alone, and what it adds.
LEMMA Appended ==
    ASSUME NEW m \in Envelope, log \in Seq(Envelope)
    PROVE  /\ Append(log, m) \in Seq(Envelope)
           /\ Len(Append(log, m)) = Len(log) + 1
           /\ \A n \in 1..Len(log) : Append(log, m)[n] = log[n]
           /\ Append(log, m)[Len(log) + 1] = m
    OBVIOUS

(***************************************************************************)
(* The steps of a handler fall into three kinds: those that leave topic    *)
(* and table alone, those that publish the message again, and those that   *)
(* write a verdict to the row.                                             *)
(***************************************************************************)
Advances(r, to) ==
    /\ stage[r] \in Stage \ {"polling", "handled"}
    /\ stage' = [stage EXCEPT ![r] = to]
    /\ job' = job /\ committed' = committed
    /\ reported' \in {reported, reported \cup {Message(r).uuid}}

Quiet(r) ==
    /\ \E to \in Stage \ {"polling"} : Advances(r, to)
    /\ stage'[r] = "handled" =>
          \/ Message(r).uuid \in reported'
          \/ status[Message(r).uuid] \notin Present
          \/ Outdated(r)
    /\ UNCHANGED <<log, clock, table, history>>

Requeues(r) ==
    /\ Advances(r, "handled")
    /\ clock' = clock + 1
    /\ log' = Retried(r) \/ (log' = log /\ Message(r).uuid \in reported')
    /\ counts' \in [Event -> Nat]
    /\ UNCHANGED <<table, struck>>

Writes(r) ==
    /\ \E to \in {"handled", "escalating"} : Advances(r, to)
    /\ stage'[r] = "handled" \/ Message(r).uuid \in struck'
    /\ struck' \in {struck, struck \cup {Message(r).uuid}}
    /\ \E s \in Verdict : Write(Message(r).uuid, s)
    /\ counts' \in [Event -> Nat]
    /\ log' = log

LEMMA HandleKinds ==
    ASSUME NEW r \in Replica, TypeOK, Handle(r)
    PROVE  Quiet(r) \/ Requeues(r) \/ Writes(r)
<1> USE DEF TypeOK, Goto, Stage, topic, table, history, Happens, Strikes, Advances
<1>1. CASE Ghost(r) \/ Stale(r) \/ Resolve(r) \/ ResolveFails(r)
    BY <1>1 DEF Ghost, Stale, Resolve, ResolveFails, Resolving, Quiet
<1>2. CASE DecideNothing(r) \/ DecideFails(r)
    BY <1>2 DEF DecideNothing, DecideFails, Quiet
<1>3. CASE EscalateNothing(r) \/ EscalateFails(r)
    BY <1>3 DEF EscalateNothing, EscalateFails, Escalating, Quiet
<1>4. CASE Requeue(r) \/ \E delivered \in BOOLEAN : RequeueFails(r, delivered)
    BY <1>4 DEF Requeue, RequeueFails, Requeues, Count, Event
<1>5. CASE \E s \in Verdict : Decide(r, s) \/ DecideAckLost(r, s)
    <2>1. ASSUME NEW s \in Verdict, Decide(r, s) PROVE Writes(r)
        BY <2>1 DEF Decide, Writes
    <2>2. ASSUME NEW s \in Verdict, DecideAckLost(r, s) PROVE Writes(r)
        BY <2>2 DEF DecideAckLost, Writes, Count, Event
    <2> QED
        BY <1>5, <2>1, <2>2
<1>6. CASE Escalate(r) \/ EscalateAckLost(r)
    <2>1. "human-review" \in Verdict
        BY DEF Verdict
    <2> QED
        BY <1>6, <2>1 DEF Escalate, EscalateAckLost, Escalating, Writes, Count, Event
<1> QED
    BY <1>1, <1>2, <1>3, <1>4, <1>5, <1>6 DEF Handle

(***************************************************************************)
(* The inductive invariant.  PendingIsQueued by itself is not inductive: a *)
(* message that a replica has finished with is about to be committed, so   *)
(* the one that keeps the row alive must be one that nobody has finished   *)
(* with.  And the staleness guard spares a pending row because no message  *)
(* of such a row is older than the row.                                    *)
(***************************************************************************)
Working == \A r \in Replica : stage[r] # "polling" <=> job[r] # 0
Announced == \A n \in 1..Len(log) : status[log[n].uuid] # "none"
Clocked == \A u \in Uuid : updated[u] <= clock
Fresh == \A n \in 1..Len(log) :
    status[log[n].uuid] = "pending" => updated[log[n].uuid] <= log[n].at

Undone(n) == n \in Pending /\ \A r \in Replica : job[r] = n => stage[r] # "handled"
Kept == \A u \in Uuid : status[u] = "pending" =>
    u \in reported \/ \E n \in 1..Len(log) : Undone(n) /\ log[n].uuid = u

IInv == TypeOK /\ Working /\ Announced /\ Clocked /\ Fresh /\ Kept

\* The topic holds envelopes.
LEMMA Enveloped ==
    ASSUME log \in Seq(Envelope), NEW n \in 1..Len(log)
    PROVE  /\ log[n] \in Envelope
           /\ log[n].uuid \in Uuid /\ log[n].retry \in Nat /\ log[n].at \in Nat
<1>1. log[n] \in Envelope
    OBVIOUS
<1> QED
    BY <1>1 DEF Envelope

LEMMA InitIInv == Init => IInv
<1> SUFFICES ASSUME Init PROVE IInv
    OBVIOUS
<1>1. log \in Seq(Envelope) /\ Len(log) = 0
    BY DEF Init
<1> QED
    BY <1>1 DEF Init, IInv, TypeOK, Working, Announced, Clocked, Fresh, Kept, Status, Present,
        Stage, Event

\* The message that a busy replica has in hand.
LEMMA InHand ==
    ASSUME IInv, NEW r \in Replica, stage[r] # "polling"
    PROVE  /\ job[r] \in 1..Len(log)
           /\ Message(r) \in Envelope
           /\ Message(r).uuid \in Uuid /\ Message(r).retry \in Nat /\ Message(r).at \in Nat
           /\ status[Message(r).uuid] # "none"
<1>1. job[r] \in 1..Len(log)
    BY DEF IInv, TypeOK, Working
<1> QED
    BY <1>1, Enveloped DEF IInv, TypeOK, Announced, Message

LEMMA AnnounceStep == ASSUME IInv, NEW u \in Uuid, Announce(u) PROVE IInv'
<1> DEFINE m == [uuid |-> u, retry |-> 0, at |-> clock + 2]
<1>0. PICK k : k \in Nat /\ k = Len(log) + 1
    BY DEF IInv, TypeOK
<1>1. m \in Envelope /\ log' = Append(log, m)
    BY DEF Announce, Envelope, IInv, TypeOK
<1> HIDE DEF m
<1>2. /\ log' \in Seq(Envelope) /\ Len(log') = k /\ k \in Nat /\ Len(log) \in Nat
      /\ \A n \in 1..Len(log) : log'[n] = log[n] /\ log[n].uuid \in Uuid /\ log[n].uuid # u
      /\ log'[k] = m /\ m.uuid = u /\ m.at = clock + 2
    <2>1. log \in Seq(Envelope) /\ Len(log) \in Nat
        BY DEF IInv, TypeOK
    <2>2. /\ log' \in Seq(Envelope) /\ Len(log') = k /\ log'[k] = m
          /\ \A n \in 1..Len(log) : log'[n] = log[n]
        BY <1>0, <1>1, <2>1, Appended
    <2>3. \A n \in 1..Len(log) : log[n].uuid \in Uuid /\ log[n].uuid # u
        BY <2>1, Enveloped DEF Announce, IInv, Announced
    <2> QED
        BY <1>0, <2>1, <2>2, <2>3 DEF m
<1>3. /\ status' = [status EXCEPT ![u] = "pending"] /\ updated' = [updated EXCEPT ![u] = clock + 1]
      /\ clock' = clock + 2 /\ committed' = committed /\ job' = job /\ stage' = stage
      /\ reported' = reported /\ counts' = counts /\ struck' = struck
    BY DEF Announce, history
<1>4. TypeOK'
    BY <1>0, <1>2, <1>3 DEF IInv, TypeOK, Status, Present
<1>5. Working' /\ Clocked'
    BY <1>3 DEF IInv, TypeOK, Working, Clocked
<1>6. Announced' /\ Fresh'
    <2>1. \A n \in 1..Len(log') : n \in 1..Len(log) \/ n = k
        BY <1>0, <1>2
    <2>2. /\ status'[u] = "pending" /\ updated'[u] = clock + 1 /\ clock + 1 <= clock + 2
          /\ \A v \in Uuid : v # u => status'[v] = status[v] /\ updated'[v] = updated[v]
        BY <1>3 DEF IInv, TypeOK
    <2> QED
        BY <1>2, <2>1, <2>2 DEF IInv, Announced, Fresh
<1>7. Undone(k)'
    <2>1. k \in (1..Len(log')) \ committed' /\ \A r \in Replica : job[r] # k
        BY <1>0, <1>2, <1>3 DEF IInv, TypeOK
    <2> QED
        BY <1>3, <2>1 DEF Undone, Pending
<1>8. \A n \in 1..Len(log) : Undone(n) => Undone(n)'
    <2>1. \A n \in 1..Len(log) : n \in 1..Len(log')
        BY <1>0, <1>2
    <2> QED
        BY <1>3, <2>1 DEF Undone, Pending
<1>9. Kept'
    <2>1. \A v \in Uuid : v # u => status'[v] = status[v]
        BY <1>3 DEF IInv, TypeOK
    <2>2. k \in 1..Len(log') /\ \A n \in 1..Len(log) : n \in 1..Len(log')
        BY <1>0, <1>2
    <2> QED
        BY <1>2, <1>3, <1>7, <1>8, <2>1, <2>2 DEF IInv, Kept
<1> QED
    BY <1>4, <1>5, <1>6, <1>9 DEF IInv

\* The steps of the other parties and of the loop that leave the topic's log alone,
\* give no row back and finish with no message.
LEMMA OtherStep ==
    ASSUME IInv,
           log' = log, TypeOK', Working', Clocked',
           \A u \in Uuid : status'[u] \in {status[u]} \cup (Status \ {"none", "pending"}),
           \A u \in Uuid : status'[u] = "pending" => updated'[u] = updated[u],
           \A n \in 1..Len(log) : Undone(n) => Undone(n)',
           reported \subseteq reported'
    PROVE  IInv'
<1>1. \A n \in 1..Len(log) : log[n].uuid \in Uuid
    BY Enveloped DEF IInv, TypeOK
<1>2. Announced'
    BY <1>1 DEF IInv, Announced
<1>3. Fresh'
    BY <1>1 DEF IInv, Fresh
<1>4. Kept'
    BY <1>1 DEF IInv, Kept
<1> QED
    BY <1>2, <1>3, <1>4 DEF IInv

LEMMA PartiesStep ==
    ASSUME IInv,
           \/ \E u \in Uuid : Withdraw(u)
           \/ \E u \in Uuid, s \in {"human-approved", "human-rejected"} : Review(u, s)
    PROVE  IInv'
<1> USE DEF topic, table, history, Count, Happens, Event
<1>1. /\ log' = log /\ committed' = committed /\ job' = job /\ stage' = stage
      /\ reported' = reported
    BY DEF Withdraw, Review
<1>2. TypeOK' /\ Working' /\ Clocked'
    <2>1. CASE \E u \in Uuid : Withdraw(u)
        BY <2>1 DEF Withdraw, IInv, TypeOK, Working, Clocked, Status
    <2>2. CASE \E u \in Uuid, s \in {"human-approved", "human-rejected"} : Review(u, s)
        BY <2>2 DEF Review, Write, IInv, TypeOK, Working, Clocked, Status, Present, Eligible
    <2> QED
        BY <2>1, <2>2
<1>3. /\ \A u \in Uuid : status'[u] \in {status[u]} \cup (Status \ {"none", "pending"})
      /\ \A u \in Uuid : status'[u] = "pending" => updated'[u] = updated[u]
    BY DEF Withdraw, Review, Write, IInv, TypeOK, Status, Present, Eligible
<1>4. \A n \in 1..Len(log) : Undone(n) => Undone(n)'
    BY <1>1 DEF Undone, Pending
<1> QED
    BY <1>1, <1>2, <1>3, <1>4, OtherStep

LEMMA LoopStep ==
    ASSUME IInv,
           \/ \E r \in Replica, n \in 1..Len(log) : Consume(r, n) \/ Redeliver(r, n)
           \/ \E r \in Replica : Commit(r) \/ Crash(r)
    PROVE  IInv'
<1> USE DEF topic, table, history, Count, Strikes, Event, Leave, Take
<1>1. log' = log /\ clock' = clock /\ status' = status /\ updated' = updated /\ reported' = reported
    BY DEF Consume, Redeliver, Commit, Crash
<1>2. /\ TypeOK' /\ Working'
      /\ \A n \in 1..Len(log) : Undone(n) => Undone(n)'
    <2>1. CASE \E r \in Replica, n \in 1..Len(log) : Consume(r, n) \/ Redeliver(r, n)
        <3>1. PICK r \in Replica, n \in 1..Len(log) : Consume(r, n) \/ Redeliver(r, n)
            BY <2>1
        <3>2. /\ n \in Nat \ {0} /\ n <= Len(log) /\ Len(log) \in Nat
              /\ counts' \in [Event -> Nat] /\ struck' \subseteq Uuid
            <4>1. log[n].uuid \in Uuid
                BY Enveloped DEF IInv, TypeOK
            <4>2. counts \in [Event -> Nat] /\ struck \subseteq Uuid /\ Len(log) \in Nat
                BY DEF IInv, TypeOK
            <4>3. counts' \in [Event -> Nat] /\ struck' \subseteq Uuid
                BY <3>1, <4>1, <4>2 DEF Consume, Redeliver
            <4> QED
                BY <4>2, <4>3
        <3>3. /\ job' = [job EXCEPT ![r] = n]
              /\ stage' = [stage EXCEPT ![r] = "received"] /\ committed' = committed
            BY <3>1 DEF Consume, Redeliver
        <3>4. TypeOK' /\ Working'
            <4>1. /\ job \in [Replica -> Nat] /\ stage \in [Replica -> Stage]
                  /\ "received" \in Stage /\ n \in Nat
                BY <3>2 DEF IInv, TypeOK, Stage
            <4>2. /\ job' \in [Replica -> Nat] /\ stage' \in [Replica -> Stage]
                BY <3>3, <4>1
            <4>3. TypeOK'
                BY <1>1, <3>2, <3>3, <4>2 DEF IInv, TypeOK
            <4>4. Working'
                BY <3>2, <3>3, <4>1 DEF IInv, Working
            <4> QED
                BY <4>3, <4>4
        <3>5. \A k \in 1..Len(log) : Undone(k) => Undone(k)'
            BY <1>1, <3>3 DEF IInv, TypeOK, Undone, Pending
        <3> QED
            BY <3>4, <3>5
    <2>2. CASE \E r \in Replica : Commit(r)
        <3>1. PICK r \in Replica : Commit(r)
            BY <2>2
        <3>2. job[r] \in 1..Len(log)
            BY <3>1, InHand DEF Commit
        <3>3. /\ job' = [job EXCEPT ![r] = 0] /\ stage' = [stage EXCEPT ![r] = "polling"]
              /\ committed' \subseteq 1..Len(log) /\ history' = history /\ Len(log) \in Nat
            <4>1. committed' = committed \cup {job[r]} /\ committed \subseteq 1..Len(log)
                BY <3>1 DEF Commit, IInv, TypeOK
            <4>2. Len(log) \in Nat
                BY DEF IInv, TypeOK
            <4> QED
                BY <3>1, <3>2, <4>1, <4>2 DEF Commit
        <3>4. TypeOK' /\ Working'
            BY <1>1, <3>3 DEF IInv, TypeOK, Working, Stage
        <3>5. \A n \in 1..Len(log) : Undone(n) => Undone(n)'
            BY <3>1, <3>2 DEF Commit, IInv, TypeOK, Undone, Pending
        <3> QED
            BY <3>5, <3>4
    <2>3. CASE \E r \in Replica : Crash(r)
        <3>1. PICK r \in Replica : Crash(r)
            BY <2>3
        <3>2. struck' \subseteq Uuid
            BY <3>1, InHand DEF Crash, IInv, TypeOK
        <3> QED
            BY <3>1, <3>2 DEF Crash, IInv, TypeOK, Working, Stage, Undone, Pending
    <2> QED
        BY <2>1, <2>2, <2>3
<1>3. Clocked'
    BY <1>1 DEF IInv, Clocked
<1> QED
    BY <1>1, <1>2, <1>3, OtherStep DEF IInv, TypeOK

\* A handler that finishes with a message finishes with no other.
LEMMA OthersUndone ==
    ASSUME IInv, NEW r \in Replica, NEW to \in Stage, Advances(r, to),
           NEW n \in 1..Len(log), Undone(n), Len(log') \in {Len(log), Len(log) + 1},
           n # job[r] \/ to # "handled"
    PROVE  Undone(n)'
BY DEF Advances, Undone, Pending, IInv, TypeOK

LEMMA QuietStep ==
    ASSUME IInv, NEW r \in Replica, Quiet(r)
    PROVE  IInv'
<1>1. PICK to \in Stage \ {"polling"} : Advances(r, to)
    BY DEF Quiet
<1>2. /\ Message(r).uuid \in Uuid /\ Message(r).at \in Nat /\ job[r] \in 1..Len(log)
      /\ Message(r) = log[job[r]]
    BY <1>1, InHand DEF Advances, Message
<1>3. /\ log' = log /\ committed' = committed /\ clock' = clock /\ status' = status
      /\ updated' = updated /\ job' = job /\ history' = history /\ reported \subseteq reported'
    BY <1>1 DEF Quiet, Advances, table, history
<1>4. TypeOK' /\ Working'
    BY <1>1, <1>2, <1>3 DEF Advances, IInv, TypeOK, Working, history
<1>5. Announced' /\ Clocked' /\ Fresh'
    BY <1>3 DEF IInv, Announced, Clocked, Fresh
<1>6. ASSUME NEW u \in Uuid, status'[u] = "pending"
      PROVE  u \in reported' \/ \E n \in 1..Len(log') : Undone(n)' /\ log'[n].uuid = u
    <2>1. CASE u \in reported
        BY <1>3, <2>1
    <2>2. CASE \E n \in 1..Len(log) : Undone(n) /\ log[n].uuid = u
        <3>1. PICK n \in 1..Len(log) : Undone(n) /\ log[n].uuid = u
            BY <2>2
        <3>2. CASE n = job[r] /\ to = "handled"
            <4>1. stage'[r] = "handled" /\ u = Message(r).uuid
                BY <1>1, <1>2, <3>1, <3>2 DEF Advances, IInv, TypeOK
            <4>2. status[u] \in Present /\ ~Outdated(r)
                BY <1>2, <1>3, <1>6, <4>1 DEF IInv, TypeOK, Fresh, Outdated, Present
            <4> QED
                BY <4>1, <4>2 DEF Quiet
        <3>3. CASE n # job[r] \/ to # "handled"
            BY <1>1, <1>3, <3>1, <3>3, OthersUndone DEF IInv, TypeOK
        <3> QED
            BY <3>2, <3>3
    <2> QED
        BY <1>3, <1>6, <2>1, <2>2 DEF IInv, Kept
<1>7. Kept'
    BY <1>6 DEF Kept
<1> QED
    BY <1>4, <1>5, <1>7 DEF IInv

LEMMA RequeueStep ==
    ASSUME IInv, NEW r \in Replica, Requeues(r)
    PROVE  IInv'
<1>1. Advances(r, "handled") /\ "handled" \in Stage
    BY DEF Requeues, Stage
<1>2. /\ Message(r).uuid \in Uuid /\ Message(r).retry \in Nat /\ job[r] \in 1..Len(log)
      /\ status[Message(r).uuid] # "none" /\ Message(r) = log[job[r]]
    BY <1>1, InHand DEF Advances, Message
<1>3. /\ committed' = committed /\ clock' = clock + 1 /\ status' = status /\ updated' = updated
      /\ job' = job /\ counts' \in [Event -> Nat] /\ reported \subseteq reported'
      /\ reported' \subseteq Uuid /\ struck' = struck
    BY <1>1, <1>2 DEF Requeues, Advances, table, IInv, TypeOK
<1> DEFINE m == [uuid |-> Message(r).uuid, retry |-> Message(r).retry + 1, at |-> clock + 1]
<1>0. PICK k : k \in Nat /\ k = Len(log) + 1
    BY DEF IInv, TypeOK
<1>4. \/ log' = log /\ Message(r).uuid \in reported'
      \/ log' = Append(log, m)
    BY DEF Requeues, Retried
<1>5. m \in Envelope /\ m.uuid = Message(r).uuid /\ m.at = clock + 1
    BY <1>2 DEF Envelope, IInv, TypeOK
<1> HIDE DEF m
<1>6. /\ log' \in Seq(Envelope) /\ Len(log) \in Nat
      /\ log' = log \/ (Len(log') = k /\ log'[k] = m)
      /\ Len(log') \in {Len(log), k}
      /\ \A n \in 1..Len(log) : log'[n] = log[n]
    <2>1. log \in Seq(Envelope) /\ Len(log) \in Nat
        BY DEF IInv, TypeOK
    <2> QED
        BY <1>0, <1>4, <1>5, <2>1, Appended
<1>7. \A n \in 1..Len(log') : n \in 1..Len(log) \/ (n = k /\ log'[n] = m)
    BY <1>0, <1>6
<1>8. \A n \in 1..Len(log) : log[n].uuid \in Uuid /\ log[n].at \in Nat
    BY Enveloped DEF IInv, TypeOK
<1>9. TypeOK' /\ Working'
    BY <1>0, <1>1, <1>3, <1>6 DEF Advances, IInv, TypeOK, Working, Stage
<1>10. Announced' /\ Clocked'
    <2>1. Announced'
        BY <1>2, <1>3, <1>5, <1>6, <1>7 DEF IInv, Announced
    <2>2. Clocked'
        BY <1>3 DEF IInv, TypeOK, Clocked
    <2> QED
        BY <2>1, <2>2
<1>11. Fresh'
    <2>1. \A u \in Uuid : updated[u] <= clock + 1
        BY DEF IInv, TypeOK, Clocked
    <2> QED
        BY <1>2, <1>3, <1>5, <1>6, <1>7, <2>1 DEF IInv, Fresh
<1>12. ASSUME NEW u \in Uuid, status'[u] = "pending"
       PROVE  u \in reported' \/ \E n \in 1..Len(log') : Undone(n)' /\ log'[n].uuid = u
    <2>1. CASE u \in reported
        BY <1>3, <2>1
    <2>2. CASE u = Message(r).uuid
        <3>1. CASE log' = log
            BY <1>4, <1>6, <2>2, <3>1 DEF Requeues
        <3>2. CASE Len(log') = k /\ log'[k] = m
            <4>1. k \in (1..Len(log')) \ committed' /\ \A q \in Replica : job[q] # k
                BY <1>0, <1>3, <1>6, <3>2 DEF IInv, TypeOK
            <4>2. Undone(k)' /\ log'[k].uuid = u
                BY <1>3, <1>5, <2>2, <3>2, <4>1 DEF Undone, Pending
            <4> QED
                BY <4>1, <4>2
        <3> QED
            BY <1>6, <3>1, <3>2
    <2>3. CASE u # Message(r).uuid /\ \E n \in 1..Len(log) : Undone(n) /\ log[n].uuid = u
        <3>1. PICK n \in 1..Len(log) : Undone(n) /\ log[n].uuid = u
            BY <2>3
        <3>2. n # job[r]
            BY <1>2, <2>3, <3>1
        <3>3. Undone(n)'
            BY <1>0, <1>1, <1>6, <3>1, <3>2, OthersUndone
        <3> QED
            BY <1>0, <1>6, <3>1, <3>3
    <2> QED
        BY <1>3, <1>12, <2>1, <2>2, <2>3 DEF IInv, Kept
<1>13. Kept'
    BY <1>12 DEF Kept
<1> QED
    BY <1>9, <1>10, <1>11, <1>13 DEF IInv

LEMMA WriteStep ==
    ASSUME IInv, NEW r \in Replica, Writes(r)
    PROVE  IInv'
<1>1. PICK to \in {"handled", "escalating"} : Advances(r, to)
    BY DEF Writes
<1>2. to \in Stage \ {"polling"}
    BY DEF Stage
<1>3. PICK s \in Verdict : Write(Message(r).uuid, s)
    BY DEF Writes
<1> DEFINE u == Message(r).uuid
<1>4. u \in Uuid /\ job[r] \in 1..Len(log) /\ u = log[job[r]].uuid
    BY <1>1, InHand DEF Advances, Message
<1>5. s \in Status \ {"none", "pending"}
    BY DEF Verdict, Status, Present
<1>6. /\ log' = log /\ committed' = committed /\ clock' = clock + 1 /\ job' = job
      /\ status' = [status EXCEPT ![u] = s] /\ updated' = [updated EXCEPT ![u] = clock + 1]
      /\ counts' \in [Event -> Nat] /\ reported \subseteq reported' /\ reported' \subseteq Uuid
      /\ struck' \subseteq Uuid
    BY <1>1, <1>3, <1>4 DEF Writes, Write, Advances, IInv, TypeOK
<1>7. TypeOK' /\ Working'
    <2>1. status' \in [Uuid -> Status] /\ updated' \in [Uuid -> Nat] /\ clock' \in Nat
        BY <1>4, <1>5, <1>6 DEF IInv, TypeOK
    <2>2. stage' \in [Replica -> Stage]
        BY <1>1, <1>2 DEF Advances, IInv, TypeOK
    <2>3. TypeOK'
        BY <1>6, <2>1, <2>2 DEF IInv, TypeOK
    <2>4. Working'
        BY <1>1, <1>2, <1>4, <1>6 DEF Advances, IInv, TypeOK, Working
    <2> QED
        BY <2>3, <2>4
<1>8. Announced' /\ Clocked' /\ Fresh'
    <2>1. /\ \A n \in 1..Len(log) : log[n].uuid \in Uuid
          /\ status \in [Uuid -> Status] /\ updated \in [Uuid -> Nat] /\ clock \in Nat
        BY Enveloped DEF IInv, TypeOK
    <2>2. status'[u] = s /\ \A v \in Uuid \ {u} : status'[v] = status[v] /\ updated'[v] = updated[v]
        BY <1>4, <1>6, <2>1
    <2>3. Announced'
        BY <1>4, <1>5, <1>6, <2>1, <2>2 DEF IInv, Announced
    <2>4. Clocked'
        BY <1>4, <1>6, <2>1 DEF IInv, Clocked
    <2>5. Fresh'
        BY <1>4, <1>5, <1>6, <2>1, <2>2 DEF IInv, Fresh
    <2> QED
        BY <2>3, <2>4, <2>5
<1>9. ASSUME NEW v \in Uuid, status'[v] = "pending"
      PROVE  v \in reported' \/ \E n \in 1..Len(log') : Undone(n)' /\ log'[n].uuid = v
    <2>1. v # u /\ status[v] = "pending"
        BY <1>4, <1>5, <1>6, <1>9 DEF IInv, TypeOK
    <2>2. CASE v \in reported
        BY <1>6, <2>2
    <2>3. CASE \E n \in 1..Len(log) : Undone(n) /\ log[n].uuid = v
        <3>1. PICK n \in 1..Len(log) : Undone(n) /\ log[n].uuid = v
            BY <2>3
        <3>2. n # job[r]
            BY <1>4, <2>1, <3>1
        <3>3. Undone(n)'
            BY <1>1, <1>2, <1>6, <3>1, <3>2, OthersUndone
        <3> QED
            BY <1>6, <3>1, <3>3
    <2> QED
        BY <2>1, <2>2, <2>3 DEF IInv, Kept
<1>10. Kept'
    BY <1>9 DEF Kept
<1> QED
    BY <1>7, <1>8, <1>10 DEF IInv

LEMMA Inductive == Spec => []IInv
<1>1. ASSUME IInv, [Next]_vars PROVE IInv'
    <2>1. CASE \E u \in Uuid : Announce(u)
        BY <1>1, <2>1, AnnounceStep
    <2>2. CASE \/ \E u \in Uuid : Withdraw(u)
               \/ \E u \in Uuid, s \in {"human-approved", "human-rejected"} : Review(u, s)
        BY <1>1, <2>2, PartiesStep
    <2>3. CASE \/ \E r \in Replica, n \in 1..Len(log) : Consume(r, n) \/ Redeliver(r, n)
               \/ \E r \in Replica : Commit(r) \/ Crash(r)
        BY <1>1, <2>3, LoopStep
    <2>4. CASE \E r \in Replica : Handle(r)
        BY <1>1, <2>4, HandleKinds, QuietStep, RequeueStep, WriteStep DEF IInv
    <2>5. CASE UNCHANGED vars
        BY <1>1, <2>5 DEF vars, topic, table, history, IInv, TypeOK, Working, Announced, Clocked,
            Fresh, Kept, Undone, Pending
    <2> QED
        BY <1>1, <2>1, <2>2, <2>3, <2>4, <2>5 DEF Next
<1> QED
    BY <1>1, InitIInv, PTL DEF Spec

\* Every state of the agent is well typed; a replica's offset in particular
\* always names a message of the topic.
THEOREM TypeCorrect == Spec => []TypeOK
<1>1. IInv => TypeOK
    BY DEF IInv
<1> QED
    BY <1>1, Inductive, PTL

\* agent.main and agent.validate: with any number of replicas, crashes,
\* rebalances and lost acknowledgements, no undecided row is ever left without
\* a message to decide it or a record that it needs a human's attention.
THEOREM NoRowForgotten == Spec => []PendingIsQueued
<1>1. IInv => PendingIsQueued
    BY DEF IInv, TypeOK, Kept, Undone, PendingIsQueued
<1> QED
    BY <1>1, Inductive, PTL

(***************************************************************************)
(* Neither of the agent's writes looks at the status it overwrites.  What  *)
(* protects a decided row is the protocol: each message is in one          *)
(* replica's hand, a row has at most one message that is not done with,    *)
(* and that one has not been written yet.  A crash, a rebalance or a lost  *)
(* acknowledgement ends this for the row whose message it strikes; that it *)
(* does so for no other row is what has to be carried through every step.  *)
(***************************************************************************)
Spared(n) == log[n].uuid \notin struck

Exclusive == \A q, r \in Replica :
    job[q] = job[r] /\ job[r] # 0 /\ Spared(job[r]) => q = r
OnHand == \A r \in Replica : job[r] # 0 /\ Spared(job[r]) => job[r] \in Pending
Unwritten == \A n \in 1..Len(log) :
    Undone(n) /\ Spared(n) => status[log[n].uuid] \in {"pending", "deleted"}
Single == \A m, n \in 1..Len(log) :
    Undone(m) /\ Undone(n) /\ log[m].uuid = log[n].uuid /\ Spared(n) => m = n

CInv == IInv /\ Exclusive /\ OnHand /\ Unwritten /\ Single
Once == Exclusive /\ OnHand /\ Unwritten /\ Single

LEMMA InitCInv == Init => CInv
<1>1. Init => Len(log) = 0 /\ \A r \in Replica : job[r] = 0
    BY DEF Init
<1> QED
    BY <1>1, InitIInv DEF CInv, Exclusive, OnHand, Unwritten, Single

\* The message in a busy handler's hand is the only one of its row.
LEMMA InHandAlone ==
    ASSUME CInv, NEW r \in Replica, stage[r] \notin {"polling", "handled"},
           Message(r).uuid \notin struck
    PROVE  /\ job[r] \in 1..Len(log) /\ Undone(job[r])
           /\ status[Message(r).uuid] \in {"pending", "deleted"}
           /\ \A n \in 1..Len(log) :
                 Undone(n) /\ log[n].uuid = Message(r).uuid => n = job[r]
<1>1. job[r] \in 1..Len(log) /\ job[r] # 0 /\ job[r] \in Pending
    BY InHand DEF CInv, OnHand, IInv, Working, Message, Spared
<1>2. Undone(job[r])
    BY <1>1 DEF CInv, Exclusive, Undone, Message, Spared
<1> QED
    BY <1>1, <1>2 DEF CInv, Unwritten, Single, Message, Spared

\* A step that appends nothing and, of the rows it spares, gives back no message that
\* was done with and writes none that has a message undone.
LEMMA NoneUndone ==
    ASSUME CInv, log' = log, struck \subseteq struck', Exclusive', OnHand',
           \A n \in 1..Len(log) : Undone(n)' /\ Spared(n)' =>
               Undone(n) /\ status'[log[n].uuid] \in {status[log[n].uuid], "deleted"}
    PROVE  Once'
BY DEF CInv, Once, Unwritten, Single, Spared

LEMMA OnceAnnounce == ASSUME CInv, NEW u \in Uuid, Announce(u) PROVE Once'
<1> DEFINE m == [uuid |-> u, retry |-> 0, at |-> clock + 2]
<1>0. PICK k : k \in Nat /\ k = Len(log) + 1
    BY DEF CInv, IInv, TypeOK
<1>1. m \in Envelope /\ log' = Append(log, m) /\ m.uuid = u
    BY DEF Announce, Envelope, CInv, IInv, TypeOK
<1> HIDE DEF m
<1>2. log \in Seq(Envelope) /\ Len(log) \in Nat
    BY DEF CInv, IInv, TypeOK
<1>3. /\ Len(log') = k /\ log'[k].uuid = u
      /\ \A n \in 1..Len(log) : log'[n] = log[n]
    BY <1>0, <1>1, <1>2, Appended
<1>4. \A n \in 1..Len(log) : log[n].uuid \in Uuid /\ log[n].uuid # u
    BY <1>2, Enveloped DEF Announce, CInv, IInv, Announced
<1>5. /\ status'[u] = "pending" /\ \A v \in Uuid : v # u => status'[v] = status[v]
      /\ committed' = committed /\ job' = job /\ stage' = stage /\ struck' = struck
    BY DEF Announce, CInv, IInv, TypeOK, history
<1>6. /\ \A n \in 1..Len(log') : n \in 1..Len(log) \/ n = k
      /\ \A n \in 1..Len(log) : n \in 1..Len(log')
    BY <1>0, <1>2, <1>3
<1>7. \A n \in 1..Len(log) : Undone(n)' => Undone(n)
    BY <1>5 DEF Undone, Pending
<1>8. Exclusive' /\ OnHand'
    <2>1. \A q \in Replica : job[q] # 0 => job[q] \in 1..Len(log)
        BY DEF CInv, IInv, TypeOK
    <2> QED
        BY <1>3, <1>5, <1>6, <2>1 DEF CInv, Exclusive, OnHand, Pending, Spared
<1>9. Unwritten' /\ Single'
    BY <1>3, <1>4, <1>5, <1>6, <1>7 DEF CInv, Unwritten, Single, Spared
<1> QED
    BY <1>8, <1>9 DEF Once

LEMMA OnceParties ==
    ASSUME CInv,
           \/ \E u \in Uuid : Withdraw(u)
           \/ \E u \in Uuid, s \in {"human-approved", "human-rejected"} : Review(u, s)
    PROVE  Once'
<1>1. /\ log' = log /\ committed' = committed /\ job' = job /\ stage' = stage
      /\ struck' = struck
    BY DEF Withdraw, Review, Happens, topic, history
<1>2. \A n \in 1..Len(log) :
          /\ log[n].uuid \in Uuid
          /\ Undone(n) /\ Spared(n) => status[log[n].uuid] \notin Eligible
    BY Enveloped DEF CInv, IInv, TypeOK, Unwritten, Eligible
<1>3. \A n \in 1..Len(log) : Undone(n) /\ Spared(n) =>
          status'[log[n].uuid] \in {status[log[n].uuid], "deleted"}
    <2>1. CASE \E u \in Uuid : Withdraw(u)
        BY <1>2, <2>1 DEF Withdraw, CInv, IInv, TypeOK
    <2>2. CASE \E u \in Uuid, s \in {"human-approved", "human-rejected"} : Review(u, s)
        BY <1>2, <2>2 DEF Review, Write, CInv, IInv, TypeOK
    <2> QED
        BY <2>1, <2>2
<1>4. \A n \in 1..Len(log) : Undone(n)' => Undone(n)
    BY <1>1 DEF Undone, Pending
<1>5. Exclusive' /\ OnHand'
    BY <1>1 DEF CInv, Exclusive, OnHand, Pending, Spared
<1> QED
    BY <1>1, <1>3, <1>4, <1>5, NoneUndone DEF Spared

LEMMA OnceLoop ==
    ASSUME CInv,
           \/ \E r \in Replica, n \in 1..Len(log) : Consume(r, n) \/ Redeliver(r, n)
           \/ \E r \in Replica : Commit(r) \/ Crash(r)
    PROVE  Once'
<1> USE DEF topic, table, history, Strikes
<1>1. log' = log /\ status' = status /\ struck \subseteq struck'
    BY DEF Consume, Redeliver, Commit, Crash, Take
<1>2. /\ Exclusive' /\ OnHand'
      /\ \A n \in 1..Len(log) : Undone(n)' /\ Spared(n)' => Undone(n)
    <2>1. CASE \E r \in Replica, n \in 1..Len(log) : Consume(r, n) \/ Redeliver(r, n)
        <3>1. PICK r \in Replica, n \in 1..Len(log) : Consume(r, n) \/ Redeliver(r, n)
            BY <2>1
        <3>2. /\ job' = [job EXCEPT ![r] = n] /\ stage' = [stage EXCEPT ![r] = "received"]
              /\ committed' = committed /\ job[r] = 0
              /\ n \in Pending
              /\ (\A q \in Replica : job[q] # n) \/ ~Spared(n)'
            BY <1>1, <3>1 DEF Consume, Redeliver, Take, Spared
        <3>3. Exclusive'
            BY <1>1, <3>2 DEF CInv, IInv, TypeOK, Exclusive, Spared
        <3>4. OnHand'
            BY <1>1, <3>2 DEF CInv, IInv, TypeOK, OnHand, Pending, Spared
        <3>5. ASSUME NEW k \in 1..Len(log), Undone(k)', Spared(k)', NEW q \in Replica, job[q] = k
              PROVE  stage[q] # "handled"
            <4>1. q # r /\ job'[q] = k
                BY <3>2, <3>5 DEF CInv, IInv, TypeOK
            <4> QED
                BY <3>2, <3>5, <4>1 DEF CInv, IInv, TypeOK, Undone
        <3>6. \A k \in 1..Len(log) : Undone(k)' /\ Spared(k)' => Undone(k)
            BY <1>1, <3>2, <3>5 DEF Undone, Pending
        <3> QED
            BY <3>3, <3>4, <3>6
    <2>2. CASE \E r \in Replica : Commit(r)
        <3>1. PICK r \in Replica : Commit(r)
            BY <2>2
        <3>2. /\ job' = [job EXCEPT ![r] = 0] /\ stage' = [stage EXCEPT ![r] = "polling"]
              /\ committed' = committed \cup {job[r]}
            BY <3>1 DEF Commit, Leave
        <3>3. Exclusive'
            BY <1>1, <3>2 DEF CInv, IInv, TypeOK, Exclusive, Spared
        <3>4. OnHand'
            BY <1>1, <3>2 DEF CInv, IInv, TypeOK, Exclusive, OnHand, Pending, Spared
        <3>5. \A n \in 1..Len(log) : Undone(n)' => Undone(n)
            BY <1>1, <3>2 DEF CInv, IInv, TypeOK, Undone, Pending
        <3> QED
            BY <3>3, <3>4, <3>5
    <2>3. CASE \E r \in Replica : Crash(r)
        <3>1. PICK r \in Replica : Crash(r)
            BY <2>3
        <3>2. /\ job' = [job EXCEPT ![r] = 0] /\ stage' = [stage EXCEPT ![r] = "polling"]
              /\ committed' = committed /\ log[job[r]].uuid \in struck'
            BY <1>1, <3>1 DEF Crash, Leave, Message
        <3>3. Exclusive' /\ OnHand'
            BY <1>1, <3>2 DEF CInv, IInv, TypeOK, Exclusive, OnHand, Pending, Spared
        <3>4. \A n \in 1..Len(log) : Undone(n)' /\ Spared(n)' => Undone(n)
            BY <1>1, <3>2 DEF CInv, IInv, TypeOK, Undone, Pending, Spared
        <3> QED
            BY <3>3, <3>4
    <2> QED
        BY <2>1, <2>2, <2>3
<1> QED
    BY <1>1, <1>2, NoneUndone

\* A handler's step revives no message, and the one it finishes with is done with.
LEMMA Advancing ==
    ASSUME CInv, NEW r \in Replica, NEW to \in Stage, Advances(r, to),
           struck \subseteq struck', \A n \in 1..Len(log) : log'[n] = log[n]
    PROVE  /\ Exclusive'
           /\ \A n \in 1..Len(log) : Undone(n)' => Undone(n)
           /\ to = "handled" => ~Undone(job[r])'
           /\ stage[r] \notin {"polling", "handled"}
<1>1. Exclusive' /\ stage[r] \notin {"polling", "handled"}
    <2>1. \A q \in Replica : job[q] # 0 => job[q] \in 1..Len(log)
        BY DEF CInv, IInv, TypeOK
    <2> QED
        BY <2>1 DEF Advances, CInv, Exclusive, Spared
<1>2. \A n \in 1..Len(log) : Undone(n)' => Undone(n)
    BY <1>1 DEF Advances, CInv, IInv, TypeOK, Undone, Pending
<1>3. to = "handled" => ~Undone(job[r])'
    BY DEF Advances, CInv, IInv, TypeOK, Undone
<1> QED
    BY <1>1, <1>2, <1>3

LEMMA OnceQuiet == ASSUME CInv, NEW r \in Replica, Quiet(r) PROVE Once'
<1>1. PICK to \in Stage \ {"polling"} : Advances(r, to)
    BY DEF Quiet
<1>2. log' = log /\ status' = status /\ struck' = struck /\ OnHand'
    BY <1>1 DEF Quiet, Advances, table, history, CInv, OnHand, Pending, Spared
<1> QED
    BY <1>1, <1>2, Advancing, NoneUndone

LEMMA OnceWrites == ASSUME CInv, NEW r \in Replica, Writes(r) PROVE Once'
<1>1. PICK to \in {"handled", "escalating"} : Advances(r, to)
    BY DEF Writes
<1>2. to \in Stage /\ (to = "handled" \/ Message(r).uuid \in struck')
    BY <1>1 DEF Writes, Advances, CInv, IInv, TypeOK, Stage
<1>3. log' = log /\ struck \subseteq struck' /\ OnHand'
    BY <1>1 DEF Writes, Advances, CInv, OnHand, Pending, Spared
<1>4. \A n \in 1..Len(log) : log[n].uuid \in Uuid
    BY Enveloped DEF CInv, IInv, TypeOK
<1>5. ASSUME NEW n \in 1..Len(log), Undone(n)', Spared(n)'
      PROVE  Undone(n) /\ status'[log[n].uuid] = status[log[n].uuid]
    <2>1. Undone(n) /\ (to = "handled" => n # job[r])
        BY <1>1, <1>2, <1>3, <1>5, Advancing DEF Advances
    <2>2. log[n].uuid # Message(r).uuid
        BY <1>1, <1>2, <1>3, <1>5, <2>1, Advancing, InHandAlone DEF Spared
    <2> QED
        BY <1>4, <2>1, <2>2 DEF Writes, Write, CInv, IInv, TypeOK
<1> QED
    BY <1>1, <1>2, <1>3, <1>5, Advancing, NoneUndone

LEMMA OnceRequeues == ASSUME CInv, NEW r \in Replica, Requeues(r) PROVE Once'
<1> DEFINE m == [uuid |-> Message(r).uuid, retry |-> Message(r).retry + 1, at |-> clock + 1]
<1>0. PICK k : k \in Nat /\ k = Len(log) + 1
    BY DEF CInv, IInv, TypeOK
<1>1. Advances(r, "handled") /\ "handled" \in Stage /\ status' = status /\ struck' = struck
    BY DEF Requeues, Stage, table
<1>2. stage[r] \notin {"polling", "handled"} /\ Message(r).uuid \in Uuid /\ Message(r).retry \in Nat
    BY <1>1, InHand DEF Advances, CInv
<1>3. log \in Seq(Envelope) /\ Len(log) \in Nat
    BY DEF CInv, IInv, TypeOK
<1>4. m \in Envelope /\ m.uuid = Message(r).uuid
    BY <1>2 DEF Envelope, CInv, IInv, TypeOK
<1>5. log' = log \/ log' = Append(log, m)
    BY DEF Requeues, Retried
<1> HIDE DEF m
<1>6. /\ \A n \in 1..Len(log) : log'[n] = log[n]
      /\ log' = log \/ (Len(log') = k /\ log'[k].uuid = Message(r).uuid)
    BY <1>0, <1>3, <1>4, <1>5, Appended
<1>7. /\ Exclusive' /\ ~Undone(job[r])'
      /\ \A n \in 1..Len(log) : Undone(n)' => Undone(n)
    BY <1>1, <1>6, Advancing
<1>8. CASE log' = log
    BY <1>1, <1>7, <1>8, NoneUndone DEF Advances, CInv, OnHand, Pending, Spared
<1>9. CASE Len(log') = k /\ log'[k].uuid = Message(r).uuid
    <2>1. /\ \A n \in 1..Len(log') : n \in 1..Len(log) \/ n = k
          /\ \A n \in 1..Len(log) : n \in 1..Len(log')
        BY <1>0, <1>3, <1>9
    <2>2. \A n \in 1..Len(log) : Undone(n)' /\ Spared(n) =>
              Undone(n) /\ log[n].uuid # Message(r).uuid
        <3>1. job' = job
            BY <1>1 DEF Advances
        <3> QED
            BY <1>2, <1>7, <3>1, InHandAlone DEF Spared
    <2>3. Message(r).uuid \in struck \/ status[Message(r).uuid] \in {"pending", "deleted"}
        BY <1>2, InHandAlone
    <2>4. OnHand'
        <3>1. \A q \in Replica : job[q] # 0 => job[q] \in 1..Len(log)
            BY DEF CInv, IInv, TypeOK
        <3> QED
            BY <1>1, <1>6, <2>1, <3>1 DEF Advances, CInv, OnHand, Pending, Spared
    <2>5. Unwritten' /\ Single'
        BY <1>1, <1>6, <1>7, <1>9, <2>1, <2>2, <2>3 DEF CInv, Unwritten, Single, Spared
    <2> QED
        BY <1>7, <2>4, <2>5 DEF Once
<1> QED
    BY <1>6, <1>8, <1>9

LEMMA OnceInductive == Spec => []CInv
<1>1. ASSUME CInv, [Next]_vars PROVE Once'
    <2>1. CASE \E u \in Uuid : Announce(u)
        BY <1>1, <2>1, OnceAnnounce
    <2>2. CASE \/ \E u \in Uuid : Withdraw(u)
               \/ \E u \in Uuid, s \in {"human-approved", "human-rejected"} : Review(u, s)
        BY <1>1, <2>2, OnceParties
    <2>3. CASE \/ \E r \in Replica, n \in 1..Len(log) : Consume(r, n) \/ Redeliver(r, n)
               \/ \E r \in Replica : Commit(r) \/ Crash(r)
        BY <1>1, <2>3, OnceLoop
    <2>4. CASE \E r \in Replica : Handle(r)
        BY <1>1, <2>4, HandleKinds, OnceQuiet, OnceRequeues, OnceWrites DEF CInv, IInv
    <2>5. CASE UNCHANGED vars
        BY <1>1, <2>5 DEF vars, topic, table, history, CInv, Once, Exclusive, OnHand, Unwritten,
            Single, Undone, Pending, Spared
    <2> QED
        BY <1>1, <2>1, <2>2, <2>3, <2>4, <2>5 DEF Next
<1>2. IInv' /\ Once' => CInv'
    BY DEF CInv, Once
<1>3. CInv => Exclusive /\ OnHand /\ Unwritten /\ Single
    BY DEF CInv
<1> QED
    BY <1>1, <1>2, InitCInv, Inductive, PTL DEF Spec

\* What a step may do to the status of a row that no fault has struck.
LEMMA SparedStatus ==
    ASSUME CInv, [Next]_vars, NEW u \in Uuid \ struck, status'[u] # status[u]
    PROVE  \/ status[u] \in {"none", "pending"}
           \/ status[u] \in Eligible /\ counts'["review"] = counts["review"] + 1
<1> USE DEF CInv, IInv, TypeOK, topic, table
<1>1. CASE \E v \in Uuid : Announce(v) \/ Withdraw(v)
    BY <1>1 DEF Announce, Withdraw
<1>2. CASE \E v \in Uuid, s \in {"human-approved", "human-rejected"} : Review(v, s)
    BY <1>2 DEF Review, Write, Happens, Count, Event
<1>3. CASE \/ \E r \in Replica, n \in 1..Len(log) : Consume(r, n) \/ Redeliver(r, n)
           \/ \E r \in Replica : Commit(r) \/ Crash(r)
    BY <1>3 DEF Consume, Redeliver, Commit, Crash, Take
<1>4. CASE \E r \in Replica : Handle(r)
    <2>1. PICK r \in Replica : Handle(r)
        BY <1>4
    <2>2. Writes(r)
        BY <2>1, HandleKinds DEF Quiet, Requeues
    <2>3. stage[r] \notin {"polling", "handled"}
        BY <2>2 DEF Writes, Advances
    <2>4. u = Message(r).uuid
        BY <2>2 DEF Writes, Write
    <2>5. status[Message(r).uuid] = "pending"
        BY <2>2, <2>3, <2>4, InHandAlone DEF Writes, Write, Present, Verdict, Eligible
    <2> QED
        BY <2>4, <2>5
<1>5. CASE UNCHANGED vars
    BY <1>5 DEF vars
<1> QED
    BY <1>1, <1>2, <1>3, <1>4, <1>5 DEF Next

\* AD-027 for the rows that the Agent's faults spare.
SparedApprovalsStand ==
    [][\A u \in Uuid \ struck : Approved(status[u]) => status'[u] = status[u]]_vars

\* agent.main and the repository's unconditional UPDATEs: however many replicas,
\* requeues, reviewers and faults there are, an approval is undone only for a row
\* whose own message was in a replica's hand when a fault struck.
THEOREM ApprovalsNotUndone == Spec => SparedApprovalsStand
<1> DEFINE Stand == \A u \in Uuid \ struck : Approved(status[u]) => status'[u] = status[u]
<1>1. ASSUME CInv, [Next]_vars PROVE Stand
    BY <1>1, SparedStatus DEF Approved, Eligible
<1>2. CInv /\ [Next]_vars => [Stand]_vars
    BY <1>1
<1> QED
    BY <1>2, OnceInductive, PTL DEF Spec, SparedApprovalsStand

\* apply_decision: the Agent decides a row once, and what changes it afterwards is
\* a reviewer, unless a fault struck that row's own message.
THEOREM AgentDecidesOnce == Spec => DecidesOnce
<1> DEFINE Decides == \A u \in Uuid \ struck : status[u] # "pending" /\ status'[u] # status[u] =>
            status[u] = "none" \/ counts'["review"] = counts["review"] + 1
<1>1. ASSUME CInv, [Next]_vars PROVE Decides
    BY <1>1, SparedStatus
<1>2. CInv /\ [Next]_vars => [Decides]_vars
    BY <1>1
<1> QED
    BY <1>2, OnceInductive, PTL DEF Spec, DecidesOnce

(***************************************************************************)
(* The refinement.  A row changes by a step that names it, so the table    *)
(* changes at one row, and where it does a step of the abstract life is    *)
(* taken.                                                                  *)
(***************************************************************************)
LEMMA RowMoves ==
    ASSUME status \in [Uuid -> Status], NEW u \in Uuid, NEW s \in Status,
           status' = [status EXCEPT ![u] = s]
    PROVE  Rows' = [Rows EXCEPT ![u] = IF s \in Present THEN s ELSE "absent"]
BY DEF Rows, Row

\* A verdict is written to a pending row, or to one that a fault has struck.
LEMMA WrittenRow ==
    ASSUME CInv, NEW r \in Replica, Writes(r)
    PROVE  /\ Message(r).uuid \in Uuid
           /\ \/ status[Message(r).uuid] = "pending"
              \/ status[Message(r).uuid] \in Present /\ Message(r).uuid \in struck
<1>1. stage[r] \notin {"polling", "handled"}
    BY DEF Writes, Advances
<1>2. Message(r).uuid \in Uuid /\ status[Message(r).uuid] \in Present
    BY <1>1, InHand DEF Writes, Write, CInv
<1> QED
    BY <1>1, <1>2, InHandAlone DEF Present, Verdict, Eligible

LEMMA LifeOfStep ==
    ASSUME CInv, [Next]_vars
    PROVE  Life!Next \/ UNCHANGED <<Rows, struck>>
<1> USE DEF CInv, IInv, TypeOK, topic, table, history
<1>0. \A u \in Uuid : Rows[u] = Row(u)
    BY DEF Rows
<1>1. ASSUME NEW u \in Uuid, Announce(u) PROVE Life!Next
    <2>1. Rows' = [Rows EXCEPT ![u] = "pending"] /\ Rows[u] = "absent" /\ struck' = struck
        BY <1>0, <1>1, RowMoves DEF Announce, Row, Status, Present, Verdict, Eligible
    <2> QED
        BY <2>1 DEF Life!Next, Life!Move, Life!Submit, Life!Moves
<1>2. ASSUME NEW u \in Uuid, Withdraw(u) PROVE Life!Next
    <2>1. Rows' = [Rows EXCEPT ![u] = "absent"] /\ Rows[u] = "pending" /\ struck' = struck
        BY <1>0, <1>2, RowMoves DEF Withdraw, Row, Status, Present, Verdict, Eligible
    <2> QED
        BY <2>1 DEF Life!Next, Life!Move, Life!Withdraw, Life!Moves
<1>3. ASSUME NEW u \in Uuid, NEW s \in {"human-approved", "human-rejected"}, Review(u, s)
      PROVE  Life!Next
    <2>1. s \in Status /\ s \in Present /\ struck' = struck
        BY <1>3 DEF Review, Happens, Status, Present, Eligible
    <2>2. Rows' = [Rows EXCEPT ![u] = s]
        BY <1>3, <2>1, RowMoves DEF Review, Write
    <2>3. Rows[u] \in Eligible
        BY <1>0, <1>3 DEF Review, Write, Row
    <2> QED
        BY <2>1, <2>2, <2>3 DEF Life!Next, Life!Move, Life!Review, Life!Moves, Life!Human,
           Life!Eligible, Eligible
<1>4. ASSUME status' = status PROVE Rows' = Rows
    BY <1>4 DEF Rows, Row
<1>5. ASSUME NEW r \in Replica, Writes(r) PROVE Life!Next
    <2>1. PICK s \in Verdict : Write(Message(r).uuid, s)
        BY <1>5 DEF Writes
    <2>2. PICK u \in Uuid : u = Message(r).uuid
        BY <1>5, WrittenRow
    <2>3. s \in Status /\ s \in Present
        BY DEF Status, Present
    <2>4. Rows' = [Rows EXCEPT ![u] = s] /\ struck' \in {struck, struck \cup {u}}
        BY <1>5, <2>1, <2>2, <2>3, RowMoves DEF Write, Writes
    <2>5. Rows[u] = "pending" \/ (u \in struck /\ Rows[u] \in Present \ {"pending"})
        BY <1>0, <1>5, <2>2, WrittenRow DEF Row, Present
    <2>6. Life!Decide(u) \/ Life!Overwrite(u)
        BY <2>4, <2>5 DEF Life!Decide, Life!Overwrite, Life!Moves, Life!Verdict, Life!Decided,
           Life!Human, Verdict, Present, Eligible
    <2> QED
        BY <2>4, <2>6 DEF Life!Next, Life!Move
<1>6. ASSUME NEW r \in Replica, Handle(r) PROVE Life!Next \/ UNCHANGED <<Rows, struck>>
    <2>1. CASE Writes(r)
        BY <1>5, <2>1
    <2>2. CASE Quiet(r) \/ Requeues(r)
        BY <1>4, <2>2 DEF Quiet, Requeues
    <2> QED
        BY <1>6, <2>1, <2>2, HandleKinds
<1>7. ASSUME NEW u \in Uuid, struck' = struck \cup {u}, status' = status PROVE Life!Next
    BY <1>4, <1>7 DEF Life!Next
<1>8. CASE \E r \in Replica, n \in 1..Len(log) : Consume(r, n) \/ Redeliver(r, n)
    BY <1>4, <1>7, <1>8, Enveloped DEF Consume, Redeliver, Strikes, Take
<1>9. CASE \E r \in Replica : Commit(r) \/ Crash(r)
    BY <1>4, <1>7, <1>9, InHand DEF Commit, Crash, Strikes
<1>10. CASE UNCHANGED vars
    BY <1>4, <1>10 DEF vars
<1> QED
    BY <1>1, <1>2, <1>3, <1>6, <1>8, <1>9, <1>10 DEF Next

\* The Agent, in front of a publisher and of reviewers, implements the life of a
\* row, whatever its faults; what they can cost is in that specification too.
THEOREM AgentImplementsLifecycle == Spec => ImplementsLifecycle
<1>1. Init => Life!Init
    BY DEF Init, Life!Init, Rows, Row, Present, Verdict, Eligible
<1>2. CInv /\ [Next]_vars => [Life!Next]_<<Rows, struck>>
    BY LifeOfStep
<1> QED
    BY <1>1, <1>2, OnceInductive, PTL DEF Spec, ImplementsLifecycle, Life!Spec
==============================================================================
