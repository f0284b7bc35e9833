--------------------------- MODULE Telemetry_proofs ---------------------------
(***************************************************************************)
(* Proofs about the telemetry path, for every length of the queues, every *)
(* set of pump tasks and every bound on the sequence numbers.              *)
(***************************************************************************)
EXTENDS Telemetry, LeadsToRules, SequenceTheorems, TLAPS

-----------------------------------------------------------------------------
(* What the steps of a queue do to the set of its messages *)

LEMMA ContentEmpty == Content(<<>>) = {}
  BY DEF Content

LEMMA ContentOne == ASSUME NEW n PROVE Content(<<n>>) = {n}
  BY DEF Content

LEMMA ContentAdd ==
    ASSUME NEW S, NEW s \in Seq(S), NEW n \in S
    PROVE  /\ s \o <<n>> \in Seq(S)
           /\ Len(s \o <<n>>) = Len(s) + 1
           /\ Content(s \o <<n>>) = Content(s) \cup {n}
  <1> DEFINE t == s \o <<n>>
  <1>1. t \in Seq(S) /\ Len(t) = Len(s) + 1
    OBVIOUS
  <1>2. \A i \in 1..Len(s) : t[i] = s[i]
    OBVIOUS
  <1>3. t[Len(s) + 1] = n
    OBVIOUS
  <1>4. 1..Len(t) = 1..Len(s) \cup {Len(s) + 1}
    BY <1>1
  <1> QED
    BY <1>1, <1>2, <1>3, <1>4 DEF Content

LEMMA ContentTake ==
    ASSUME NEW S, NEW s \in Seq(S), s # <<>>
    PROVE  /\ Head(s) \in S
           /\ Tail(s) \in Seq(S)
           /\ Len(Tail(s)) = Len(s) - 1
           /\ Content(s) = {Head(s)} \cup Content(Tail(s))
  <1> DEFINE t == Tail(s)
  <1>1. Len(s) \in Nat \ {0} /\ Head(s) = s[1] /\ s[1] \in S
    OBVIOUS
  <1>2. t \in Seq(S) /\ Len(t) = Len(s) - 1
    OBVIOUS
  <1>3. \A i \in 1..Len(t) : t[i] = s[i + 1]
    OBVIOUS
  <1>4. Content(t) \subseteq Content(s) /\ Head(s) \in Content(s)
    <2>1. \A i \in 1..Len(t) : i + 1 \in 1..Len(s)
      BY <1>1, <1>2
    <2> QED
      BY <1>1, <1>2, <1>3, <2>1 DEF Content
  <1>5. ASSUME NEW x \in Content(s), x # Head(s) PROVE x \in Content(t)
    <2>1. PICK i \in 1..Len(s) : x = s[i]
      BY <1>5 DEF Content
    <2>2. i # 1
      BY <2>1, <1>5, <1>1
    <2>3. i - 1 \in 1..Len(t) /\ t[i - 1] = s[i]
      BY <2>2, <1>1, <1>2, <1>3
    <2> QED
      BY <2>1, <2>3 DEF Content
  <1> QED
    BY <1>1, <1>2, <1>4, <1>5

LEMMA IncreasingAdd ==
    ASSUME NEW s \in Seq(Nat), NEW n \in Nat, Increasing(s),
           \A m \in Content(s) : m < n
    PROVE  Increasing(s \o <<n>>)
  <1> DEFINE t == s \o <<n>>
  <1>1. Len(t) = Len(s) + 1 /\ Len(s) \in Nat
    OBVIOUS
  <1>2. \A i \in 1..Len(s) : t[i] = s[i] /\ s[i] < n
    BY DEF Content
  <1>3. t[Len(s) + 1] = n
    OBVIOUS
  <1> QED
    BY <1>1, <1>2, <1>3 DEF Increasing

LEMMA IncreasingTake ==
    ASSUME NEW s \in Seq(Nat), s # <<>>, Increasing(s)
    PROVE  /\ Increasing(Tail(s))
           /\ \A m \in Content(Tail(s)) : Head(s) < m
  <1> DEFINE t == Tail(s)
  <1>1. Len(s) \in Nat \ {0} /\ Len(t) = Len(s) - 1 /\ Head(s) = s[1]
    OBVIOUS
  <1>2. \A i \in 1..Len(t) : t[i] = s[i + 1] /\ i + 1 \in 1..Len(s)
    BY <1>1
  <1> QED
    BY <1>1, <1>2 DEF Increasing, Content

LEMMA SlotFacts ==
    ASSUME NEW k \in Nat
    PROVE  /\ <<>> \in Slot(k)
           /\ \A n \in 1..k : <<n>> \in Slot(k) /\ <<n>> # <<>>
           /\ Slot(k) \subseteq Slot(k + 1)
           /\ \A s \in Slot(k) \ {<<>>} :
                s[1] \in 1..k /\ s = <<s[1]>> /\ Content(s) = {s[1]}
           /\ \A s \in Slot(k) : Content(s) \in SUBSET (1..k)
  BY ContentEmpty, ContentOne DEF Slot

-----------------------------------------------------------------------------
(* The types hold at the start, and each task keeps them. *)

LEMMA TypeInit == Init => TypeOK
  <1> SUFFICES ASSUME Init PROVE TypeOK
    OBVIOUS
  <1>1. s_seq \in Nat /\ <<>> \in Slot(s_seq) /\ <<>> \in Seq(1..s_seq) /\ Len(<<>>) = 0
    BY SlotFacts DEF Init
  <1>2. Len(sample_q) <= SampleCap /\ Len(telemetry_q) <= TelemetryCap
    BY <1>1, SampleCapAssumption, TelemetryCapAssumption DEF Init
  <1>3. lost \in SUBSET (1..s_seq) /\ s_sensor_cache \in 0..s_seq
    BY DEF Init
  <1>4. held \in [Pumps -> Slot(s_seq)] /\ pump \in [Pumps -> PumpPc]
        /\ \A p \in Pumps : held[p] # <<>> <=> pump[p] \in {"check", "publish"}
    BY <1>1 DEF Init, PumpPc
  <1> QED
    BY <1>1, <1>2, <1>3, <1>4 DEF Init, TypeOK, MqttState, SensorPc, ProcPc

LEMMA TypeNext == TypeOK /\ [Next]_vars => TypeOK'
  <1> SUFFICES ASSUME TypeOK, [Next]_vars PROVE TypeOK'
    OBVIOUS
  <1> USE SampleCapAssumption, TelemetryCapAssumption, MaxSeqAssumption
      DEF sensorVars, procVars, mqttVars, pumpVars, SensorPc, ProcPc, PumpPc, MqttState
  <1>0. s_seq \in Nat
    BY DEF TypeOK
  <1>1. CASE SensorCheck
    BY <1>1 DEF TypeOK, SensorCheck
  <1>2. CASE SensorWake
    <2>1. s_seq' = s_seq + 1 /\ s_seq' \in Nat /\ s_seq + 1 \in 1..s_seq'
          /\ 1..s_seq \subseteq 1..s_seq' /\ 0..s_seq \subseteq 0..s_seq'
      BY <1>0, <1>2 DEF SensorWake
    <2>2. Slot(s_seq) \subseteq Slot(s_seq') /\ <<s_seq + 1>> \in Slot(s_seq')
          /\ <<s_seq + 1>> # <<>> /\ <<>> \in Slot(s_seq')
      BY <1>0, <2>1, SlotFacts
    <2>3. \A s \in Seq(1..s_seq) : s \in Seq(1..s_seq')
      BY <2>1, SeqMonotonic
    <2>4. (msg \in Slot(s_seq) /\ (msg # <<>> <=> sensor = "send") /\ sensor \in SensorPc)'
      BY <1>2, <2>2 DEF TypeOK, SensorWake
    <2>5. lost' \in SUBSET (1..s_seq')
      BY <1>2, <2>1 DEF TypeOK, SensorWake
    <2>6. (held \in [Pumps -> Slot(s_seq)] /\ out \in Slot(s_seq))'
      BY <1>2, <2>2 DEF TypeOK, SensorWake
    <2> QED
      BY <1>2, <2>1, <2>3, <2>4, <2>5, <2>6 DEF TypeOK, SensorWake
  <1>3. CASE SensorSend
    <2>1. PICK n \in 1..s_seq : msg = <<n>>
      BY <1>0, <1>3, SlotFacts DEF SensorSend, TypeOK
    <2>2. sample_q \o <<n>> \in Seq(1..s_seq) /\ Len(sample_q \o <<n>>) = Len(sample_q) + 1
      BY ContentAdd DEF TypeOK
    <2>3. Content(msg) \subseteq 1..s_seq /\ <<>> \in Slot(s_seq)
      BY <1>0, <2>1, ContentOne, SlotFacts
    <2>4. (sample_q \in Seq(1..s_seq) /\ Len(sample_q) <= SampleCap)'
      <3>1. CASE sample_q' = sample_q
        BY <1>3, <3>1 DEF TypeOK, SensorSend
      <3>2. CASE sample_q' = sample_q \o <<n>> /\ Len(sample_q) < SampleCap
        BY <1>3, <2>2, <3>2 DEF TypeOK, SensorSend
      <3> QED
        BY <1>3, <2>1, <3>1, <3>2 DEF SensorSend
    <2>5. lost' \in SUBSET (1..s_seq')
      BY <1>3, <2>3 DEF TypeOK, SensorSend
    <2> QED
      BY <1>3, <2>3, <2>4, <2>5 DEF TypeOK, SensorSend
  <1>4. CASE ProcCheck
    BY <1>4 DEF TypeOK, ProcCheck
  <1>5. CASE ProcRecv
    <2>1. CASE sample_q # <<>>
      <3>1. Head(sample_q) \in 1..s_seq /\ Tail(sample_q) \in Seq(1..s_seq)
            /\ Len(Tail(sample_q)) = Len(sample_q) - 1
        BY <2>1, ContentTake DEF TypeOK
      <3>2. <<Head(sample_q)>> \in Slot(s_seq) /\ <<Head(sample_q)>> # <<>>
        BY <1>0, <3>1, SlotFacts
      <3>3. (sample_q \in Seq(1..s_seq) /\ Len(sample_q) <= SampleCap)'
        <4>1. sample_q' = Tail(sample_q) /\ s_seq' = s_seq
          BY <1>5, <2>1 DEF ProcRecv
        <4>2. Len(sample_q) \in Nat /\ Len(sample_q) <= SampleCap
          BY DEF TypeOK
        <4> QED
          BY <3>1, <4>1, <4>2
      <3>4. (out \in Slot(s_seq) /\ (out # <<>> <=> proc \in {"notify", "send"})
             /\ proc \in ProcPc)'
        BY <1>5, <2>1, <3>2 DEF TypeOK, ProcRecv
      <3> QED
        BY <1>5, <3>3, <3>4 DEF TypeOK, ProcRecv
    <2>2. CASE sample_q = <<>>
      BY <1>5, <2>2 DEF TypeOK, ProcRecv
    <2> QED
      BY <2>1, <2>2
  <1>6. CASE ProcNotify
    <2>1. out[1] \in 0..s_seq
      BY <1>0, <1>6, SlotFacts DEF ProcNotify, TypeOK
    <2> QED
      BY <1>6, <2>1 DEF TypeOK, ProcNotify
  <1>7. CASE ProcSend
    <2>1. PICK n \in 1..s_seq : out = <<n>>
      BY <1>0, <1>7, SlotFacts DEF ProcSend, TypeOK
    <2>2. telemetry_q \o <<n>> \in Seq(1..s_seq)
          /\ Len(telemetry_q \o <<n>>) = Len(telemetry_q) + 1
      BY ContentAdd DEF TypeOK
    <2>3. Content(out) \subseteq 1..s_seq /\ <<>> \in Slot(s_seq)
      BY <1>0, <2>1, ContentOne, SlotFacts
    <2>4. (telemetry_q \in Seq(1..s_seq) /\ Len(telemetry_q) <= TelemetryCap)'
      <3>1. CASE telemetry_q' = telemetry_q
        BY <1>7, <3>1 DEF TypeOK, ProcSend
      <3>2. CASE telemetry_q' = telemetry_q \o <<n>> /\ Len(telemetry_q) < TelemetryCap
        BY <1>7, <2>2, <3>2 DEF TypeOK, ProcSend
      <3> QED
        BY <1>7, <2>1, <3>1, <3>2 DEF ProcSend
    <2>5. lost' \in SUBSET (1..s_seq')
      BY <1>7, <2>3 DEF TypeOK, ProcSend
    <2> QED
      BY <1>7, <2>3, <2>4, <2>5 DEF TypeOK, ProcSend
  <1>8. ASSUME NEW p \in Pumps, PumpRecv(p) PROVE TypeOK'
    <2>1. Head(telemetry_q) \in 1..s_seq /\ Tail(telemetry_q) \in Seq(1..s_seq)
          /\ Len(Tail(telemetry_q)) = Len(telemetry_q) - 1
      BY <1>8, ContentTake DEF TypeOK, PumpRecv
    <2>2. <<Head(telemetry_q)>> \in Slot(s_seq) /\ <<Head(telemetry_q)>> # <<>>
      BY <1>0, <2>1, SlotFacts
    <2>3. (telemetry_q \in Seq(1..s_seq) /\ Len(telemetry_q) <= TelemetryCap)'
      BY <1>8, <2>1 DEF TypeOK, PumpRecv
    <2> QED
      BY <1>8, <2>2, <2>3 DEF TypeOK, PumpRecv
  <1>9. ASSUME NEW p \in Pumps, PumpCheck(p) PROVE TypeOK'
    <2>1. Content(held[p]) \in SUBSET (1..s_seq) /\ <<>> \in Slot(s_seq)
      BY <1>0, SlotFacts DEF TypeOK
    <2> QED
      BY <1>9, <2>1 DEF TypeOK, PumpCheck
  <1>10. ASSUME NEW p \in Pumps, PumpPublish(p) PROVE TypeOK'
    <2>1. PICK n \in 1..s_seq : held[p] = <<n>>
      BY <1>0, <1>10, SlotFacts DEF PumpPublish, TypeOK
    <2>2. published \o <<n>> \in Seq(1..s_seq)
      BY ContentAdd DEF TypeOK
    <2>3. Content(held[p]) \subseteq 1..s_seq /\ <<>> \in Slot(s_seq)
      BY <1>0, <2>1, ContentOne, SlotFacts
    <2>4. published' \in Seq(1..s_seq') /\ lost' \in SUBSET (1..s_seq')
      BY <1>10, <2>1, <2>2, <2>3 DEF TypeOK, PumpPublish
    <2> QED
      BY <1>10, <2>3, <2>4 DEF TypeOK, PumpPublish
  <1>11. ASSUME NEW p \in Pumps, MqttStart(p) PROVE TypeOK'
    BY <1>11 DEF TypeOK, MqttStart
  <1>12. CASE MqttEvent
    BY <1>12 DEF TypeOK, MqttEvent
  <1>13. CASE RequestShutdown
    BY <1>13 DEF TypeOK, RequestShutdown
  <1>14. CASE ShutdownEvent
    BY <1>14 DEF TypeOK, ShutdownEvent
  <1>15. CASE UNCHANGED vars
    BY <1>15 DEF TypeOK, vars
  <1> QED
    BY <1>1, <1>2, <1>3, <1>4, <1>5, <1>6, <1>7, <1>8, <1>9, <1>10, <1>11,
       <1>12, <1>13, <1>14, <1>15
    DEF Next, SensorStep, ProcStep, PumpStep

(* Type correctness: no queue ever holds more than its length, and each     *)
(* task holds a message exactly between its receive and its send.           *)
THEOREM TypeCorrect == Spec => []TypeOK
  BY TypeInit, TypeNext, PTL DEF Spec
-----------------------------------------------------------------------------
(* The inductive invariant.  Samples are numbered in the order they enter   *)
(* the path and no place lets one overtake another, so whatever is further  *)
(* on is older: this is why a message moved or dropped is in no other       *)
(* place.  Past collects what has left telemetry_q and is not lost.         *)

Before(A, B) == \A m \in A, n \in B : m < n

Past == AtHand \cup Content(published)

Ordered ==
    /\ Increasing(sample_q)
    /\ Increasing(telemetry_q)
    /\ Before(Past, Content(telemetry_q))
    /\ Before(Past \cup Content(telemetry_q), Content(out))
    /\ Before(Past \cup Content(telemetry_q) \cup Content(out), Content(sample_q))
    /\ Before(Past \cup Content(telemetry_q) \cup Content(out) \cup Content(sample_q),
              Content(msg))

LEMMA HandPut ==
    ASSUME NEW P, NEW X, NEW h \in [P -> X], NEW p \in P, NEW v,
           Content(h[p]) = {}
    PROVE  Holding([h EXCEPT ![p] = v], P) = Content(v) \cup Holding(h, P)
  <1> DEFINE g == [h EXCEPT ![p] = v]
  <1>1. \A q \in P : Content(g[q]) = IF q = p THEN Content(v) ELSE Content(h[q])
    OBVIOUS
  <1> HIDE DEF g
  <1> QED
    BY <1>1 DEF g, Holding

LEMMA HandDrop ==
    ASSUME NEW P, NEW X, NEW h \in [P -> X], NEW p \in P
    PROVE  Holding([h EXCEPT ![p] = <<>>], P) = Holding(h, P \ {p})
  <1> DEFINE g == [h EXCEPT ![p] = <<>>]
  <1>1. \A q \in P : Content(g[q]) = IF q = p THEN {} ELSE Content(h[q])
    BY ContentEmpty
  <1> HIDE DEF g
  <1> QED
    BY <1>1 DEF g, Holding

LEMMA HandSplit ==
    ASSUME NEW P, NEW h, NEW p \in P
    PROVE  Holding(h, P) = Content(h[p]) \cup Holding(h, P \ {p})
  BY DEF Holding

LEMMA Numbers ==
    ASSUME TypeOK
    PROVE  /\ s_seq \in Nat
           /\ Content(msg) \in SUBSET (1..s_seq)
           /\ Content(sample_q) \in SUBSET (1..s_seq)
           /\ Content(out) \in SUBSET (1..s_seq)
           /\ Content(telemetry_q) \in SUBSET (1..s_seq)
           /\ AtHand \in SUBSET (1..s_seq)
           /\ Content(published) \in SUBSET (1..s_seq)
           /\ sample_q \in Seq(Nat) /\ telemetry_q \in Seq(Nat) /\ published \in Seq(Nat)
  <1>1. s_seq \in Nat /\ 1..s_seq \subseteq Nat
    BY DEF TypeOK
  <1>2. \A s \in Seq(1..s_seq) : Content(s) \in SUBSET (1..s_seq) /\ s \in Seq(Nat)
    BY <1>1, SeqMonotonic DEF Content
  <1>3. \A p \in Pumps : Content(held[p]) \in SUBSET (1..s_seq)
    BY <1>1, SlotFacts DEF TypeOK
  <1> QED
    BY <1>1, <1>2, <1>3, SlotFacts DEF TypeOK, AtHand, Holding

(* What each step that moves a message does, seen as sets of messages. *)

LEMMA WakeEffect ==
    ASSUME TypeOK, SensorWake
    PROVE  /\ s_seq' = s_seq + 1
           /\ \/ msg' = <<s_seq + 1>> /\ Content(msg') = {s_seq + 1} /\ lost' = lost
              \/ msg' = msg /\ lost' = lost \cup {s_seq + 1}
           /\ Content(msg) = {}
           /\ UNCHANGED <<sample_q, out, telemetry_q, held, published, proc, s_sensor_cache, pump>>
  BY ContentEmpty, ContentOne DEF SensorWake, TypeOK, procVars, pumpVars

LEMMA SensorSendEffect ==
    ASSUME TypeOK, SensorSend
    PROVE  \E n \in 1..s_seq :
             /\ msg = <<n>> /\ Content(msg) = {n} /\ Content(msg') = {}
             /\ \/ sample_q' = sample_q \o <<n>> /\ lost' = lost
                   /\ Content(sample_q') = Content(sample_q) \cup {n}
                \/ sample_q' = sample_q /\ lost' = lost \cup {n}
             /\ UNCHANGED <<s_seq, out, telemetry_q, held, published, proc, s_sensor_cache, pump>>
  <1>1. PICK n \in 1..s_seq : msg = <<n>> /\ Content(msg) = {n}
    BY SlotFacts DEF SensorSend, TypeOK
  <1>2. Content(sample_q \o <<n>>) = Content(sample_q) \cup {n}
    BY ContentAdd DEF TypeOK
  <1>3. UNCHANGED <<s_seq, out, telemetry_q, held, published, proc, s_sensor_cache, pump>>
    BY DEF SensorSend, procVars, pumpVars
  <1> QED
    BY <1>1, <1>2, <1>3, ContentEmpty DEF SensorSend

LEMMA ProcRecvEffect ==
    ASSUME TypeOK, ProcRecv, sample_q # <<>>
    PROVE  /\ Head(sample_q) \in 1..s_seq
           /\ out' = <<Head(sample_q)>> /\ proc' = "notify"
           /\ Content(out) = {} /\ Content(out') = {Head(sample_q)}
           /\ sample_q' = Tail(sample_q)
           /\ Content(sample_q) = {Head(sample_q)} \cup Content(sample_q')
           /\ UNCHANGED <<s_seq, msg, telemetry_q, held, published, lost, s_sensor_cache, pump>>
  <1>1. Head(sample_q) \in 1..s_seq
        /\ Content(sample_q) = {Head(sample_q)} \cup Content(Tail(sample_q))
    BY ContentTake DEF TypeOK
  <1>2. out = <<>> /\ out' = <<Head(sample_q)>>
    BY DEF ProcRecv, TypeOK
  <1> QED
    BY <1>1, <1>2, ContentEmpty, ContentOne DEF ProcRecv, sensorVars, pumpVars

LEMMA ProcSendEffect ==
    ASSUME TypeOK, ProcSend
    PROVE  \E n \in 1..s_seq :
             /\ out = <<n>> /\ Content(out) = {n} /\ Content(out') = {}
             /\ \/ telemetry_q' = telemetry_q \o <<n>> /\ lost' = lost
                   /\ Content(telemetry_q') = Content(telemetry_q) \cup {n}
                \/ telemetry_q' = telemetry_q /\ lost' = lost \cup {n}
             /\ proc = "send" /\ proc' = "check"
             /\ UNCHANGED <<s_seq, msg, sample_q, held, published, s_sensor_cache, pump>>
  <1>1. PICK n \in 1..s_seq : out = <<n>> /\ Content(out) = {n}
    BY SlotFacts DEF ProcSend, TypeOK
  <1>2. Content(telemetry_q \o <<n>>) = Content(telemetry_q) \cup {n}
    BY ContentAdd DEF TypeOK
  <1>3. UNCHANGED <<s_seq, msg, sample_q, held, published, s_sensor_cache, pump>>
    BY DEF ProcSend, sensorVars, pumpVars
  <1> QED
    BY <1>1, <1>2, <1>3, ContentEmpty DEF ProcSend

LEMMA PumpRecvEffect ==
    ASSUME TypeOK, NEW p \in Pumps, PumpRecv(p)
    PROVE  /\ Head(telemetry_q) \in 1..s_seq
           /\ telemetry_q # <<>> /\ telemetry_q' = Tail(telemetry_q)
           /\ Content(telemetry_q) = {Head(telemetry_q)} \cup Content(telemetry_q')
           /\ Content(held[p]) = {} /\ Content(held'[p]) = {Head(telemetry_q)}
           /\ \A q \in Pumps \ {p} : held'[q] = held[q]
           /\ AtHand' = {Head(telemetry_q)} \cup AtHand
           /\ Started' = Started /\ p \in Started
           /\ UNCHANGED <<s_seq, msg, sample_q, out, published, lost, proc, s_sensor_cache>>
  <1> DEFINE n == Head(telemetry_q)
  <1>1. n \in 1..s_seq /\ Content(telemetry_q) = {n} \cup Content(Tail(telemetry_q))
    BY ContentTake DEF PumpRecv, TypeOK
  <1>2. held[p] = <<>> /\ held \in [Pumps -> Slot(s_seq)] /\ held' = [held EXCEPT ![p] = <<n>>]
    BY DEF PumpRecv, TypeOK
  <1>3. Content(held[p]) = {} /\ Content(<<n>>) = {n} /\ held'[p] = <<n>>
    BY <1>2, ContentEmpty, ContentOne
  <1>4. \A q \in Pumps \ {p} : held'[q] = held[q]
    BY <1>2
  <1>5. Started' = Started /\ p \in Started
    BY DEF PumpRecv, TypeOK, Started
  <1>6. UNCHANGED <<s_seq, msg, sample_q, out, published, lost, proc, s_sensor_cache>>
        /\ telemetry_q # <<>> /\ telemetry_q' = Tail(telemetry_q)
    BY DEF PumpRecv, sensorVars, procVars
  <1> HIDE DEF n
  <1>7. Holding([held EXCEPT ![p] = <<n>>], Pumps) = Content(<<n>>) \cup Holding(held, Pumps)
    BY <1>2, <1>3, HandPut
  <1>8. AtHand' = {n} \cup AtHand
    BY <1>2, <1>3, <1>7 DEF AtHand
  <1> QED
    BY <1>1, <1>3, <1>4, <1>5, <1>6, <1>8 DEF n

(* A pump that gives up or hands over its message holds nothing any more. *)
LEMMA PumpDoneEffect ==
    ASSUME TypeOK, NEW p \in Pumps, PumpCheck(p) \/ PumpPublish(p), held' # held
    PROVE  \E n \in 1..s_seq :
             /\ held[p] = <<n>> /\ Content(held[p]) = {n} /\ Content(held'[p]) = {}
             /\ \A q \in Pumps \ {p} : held'[q] = held[q]
             /\ AtHand = {n} \cup Holding(held, Pumps \ {p})
             /\ AtHand' = Holding(held, Pumps \ {p})
             /\ \/ published' = published \o <<n>> /\ lost' = lost
                   /\ Content(published') = Content(published) \cup {n}
                \/ published' = published /\ lost' = lost \cup {n}
             /\ Started' = Started /\ p \in Started
             /\ UNCHANGED <<s_seq, msg, sample_q, out, telemetry_q, proc, s_sensor_cache>>
  <1>1. pump[p] \in {"check", "publish"} /\ held' = [held EXCEPT ![p] = <<>>]
        /\ held \in [Pumps -> Slot(s_seq)] /\ held[p] # <<>>
    BY DEF PumpCheck, PumpPublish, TypeOK
  <1>2. PICK n \in 1..s_seq : held[p] = <<n>> /\ Content(held[p]) = {n}
    BY <1>1, SlotFacts DEF TypeOK
  <1>3. Content(published \o <<n>>) = Content(published) \cup {n}
    <2>1. published \in Seq(1..s_seq) /\ s_seq \in Nat
      BY DEF TypeOK
    <2> QED
      BY <2>1, ContentAdd
  <1>4. Content(held'[p]) = {} /\ \A q \in Pumps \ {p} : held'[q] = held[q]
    BY <1>1, ContentEmpty
  <1>5. AtHand' = Holding(held, Pumps \ {p})
    <2>1. Holding([held EXCEPT ![p] = <<>>], Pumps) = Holding(held, Pumps \ {p})
      BY <1>1, HandDrop
    <2> QED
      BY <1>1, <2>1 DEF AtHand
  <1>6. AtHand = {n} \cup Holding(held, Pumps \ {p})
    <2>1. Holding(held, Pumps) = Content(held[p]) \cup Holding(held, Pumps \ {p})
      BY HandSplit
    <2> QED
      BY <1>2, <2>1 DEF AtHand
  <1>7. \/ published' = published \o <<n>> /\ lost' = lost
        \/ published' = published /\ lost' = lost \cup {n}
    BY <1>1, <1>2 DEF PumpCheck, PumpPublish
  <1>8. Started' = Started /\ p \in Started
    BY <1>1 DEF PumpCheck, PumpPublish, TypeOK, Started
  <1>9. UNCHANGED <<s_seq, msg, sample_q, out, telemetry_q, proc, s_sensor_cache>>
    BY DEF PumpCheck, PumpPublish, sensorVars, procVars
  <1> QED
    BY <1>2, <1>3, <1>4, <1>5, <1>6, <1>7, <1>8, <1>9

LEMMA OrderedInit == Init => Ordered
  BY ContentEmpty DEF Init, Ordered, Increasing, Before, Past, AtHand, Holding

LEMMA OrderedNext == TypeOK /\ Ordered /\ [Next]_vars => Ordered'
  <1> SUFFICES ASSUME TypeOK, Ordered, [Next]_vars PROVE Ordered'
    OBVIOUS
  <1>1. ASSUME UNCHANGED <<msg, sample_q, out, telemetry_q, held, published>>
        PROVE  Ordered'
    BY <1>1 DEF Ordered, Before, Past, AtHand, Increasing
  <1>2. CASE SensorWake
    <2>1. CASE msg' = msg
      BY <1>1, <1>2, <2>1, WakeEffect
    <2>2. CASE Content(msg') = {s_seq + 1}
      <3>1. \A n \in Past \cup Content(telemetry_q) \cup Content(out) \cup Content(sample_q) :
              n < s_seq + 1
        BY Numbers DEF Past
      <3>2. UNCHANGED <<Past, Content(sample_q), Content(out), Content(telemetry_q),
                        sample_q, telemetry_q>>
        BY <1>2, WakeEffect DEF Past, AtHand
      <3> QED
        BY <2>2, <3>1, <3>2 DEF Ordered, Before, Increasing
    <2> QED
      BY <1>2, <2>1, <2>2, WakeEffect
  <1>3. CASE SensorSend
    <2>1. ASSUME NEW n \in Content(msg) PROVE Increasing(sample_q \o <<n>>)
      <3>1. sample_q \in Seq(Nat) /\ n \in Nat /\ Increasing(sample_q)
        BY Numbers DEF Ordered
      <3>2. \A m \in Content(sample_q) : m < n
        BY DEF Ordered, Before
      <3> QED
        BY <3>1, <3>2, IncreasingAdd
    <2>2. UNCHANGED <<Past, Content(telemetry_q), Content(out), telemetry_q>>
      BY <1>3, SensorSendEffect DEF Past, AtHand
    <2> QED
      BY <1>3, <2>1, <2>2, SensorSendEffect DEF Ordered, Before, Increasing
  <1>4. CASE ProcRecv
    <2>1. CASE sample_q = <<>>
      BY <1>1, <1>4, <2>1 DEF ProcRecv, sensorVars, pumpVars
    <2>2. CASE sample_q # <<>>
      <3>1. Increasing(Tail(sample_q))
            /\ \A m \in Content(Tail(sample_q)) : Head(sample_q) < m
        BY <2>2, Numbers, IncreasingTake DEF Ordered
      <3>2. UNCHANGED <<Past, Content(telemetry_q), Content(msg), telemetry_q>>
        BY <1>4, <2>2, ProcRecvEffect DEF Past, AtHand
      <3> QED
        BY <1>4, <2>2, <3>1, <3>2, ProcRecvEffect DEF Ordered, Before, Increasing
    <2> QED
      BY <2>1, <2>2
  <1>5. CASE ProcSend
    <2>1. ASSUME NEW n \in Content(out) PROVE Increasing(telemetry_q \o <<n>>)
      <3>1. telemetry_q \in Seq(Nat) /\ n \in Nat /\ Increasing(telemetry_q)
        BY Numbers DEF Ordered
      <3>2. \A m \in Content(telemetry_q) : m < n
        BY DEF Ordered, Before
      <3> QED
        BY <3>1, <3>2, IncreasingAdd
    <2>2. UNCHANGED <<Past, Content(sample_q), Content(msg), sample_q>>
      BY <1>5, ProcSendEffect DEF Past, AtHand
    <2> QED
      BY <1>5, <2>1, <2>2, ProcSendEffect DEF Ordered, Before, Increasing
  <1>6. ASSUME NEW p \in Pumps, PumpRecv(p) PROVE Ordered'
    <2>1. Increasing(Tail(telemetry_q))
          /\ \A m \in Content(Tail(telemetry_q)) : Head(telemetry_q) < m
      BY <1>6, Numbers, IncreasingTake, PumpRecvEffect DEF Ordered
    <2>2. UNCHANGED <<Content(published), Content(sample_q), Content(msg), Content(out), sample_q>>
      BY <1>6, PumpRecvEffect
    <2> QED
      BY <1>6, <2>1, <2>2, PumpRecvEffect DEF Ordered, Before, Increasing, Past
  <1>7. ASSUME NEW p \in Pumps, PumpCheck(p) \/ PumpPublish(p) PROVE Ordered'
    <2>1. CASE held' = held
      BY <1>1, <1>7, <2>1 DEF PumpCheck, PumpPublish, TypeOK, sensorVars, procVars
    <2>2. CASE held' # held
      <3>1. Past' \subseteq Past
        BY <1>7, <2>2, PumpDoneEffect DEF Past
      <3>2. UNCHANGED <<sample_q, telemetry_q, Content(telemetry_q), Content(sample_q),
                        Content(msg), Content(out)>>
        BY <1>7, <2>2, PumpDoneEffect
      <3> QED
        BY <3>1, <3>2 DEF Ordered, Before, Increasing
    <2> QED
      BY <2>1, <2>2
  <1> QED
    BY <1>1, <1>2, <1>3, <1>4, <1>5, <1>6, <1>7
    DEF Next, SensorStep, ProcStep, PumpStep, vars, SensorCheck, ProcCheck, ProcNotify,
        MqttStart, MqttEvent, RequestShutdown, ShutdownEvent, sensorVars, procVars, pumpVars

(* No overtaking: queues and tasks keep the samples in the order in which   *)
(* the sensor task numbered them, up to telemetry_q and the pumps.          *)
THEOREM OrderedAlways == Spec => []Ordered
  BY TypeCorrect, OrderedInit, OrderedNext, PTL DEF Spec
-----------------------------------------------------------------------------
(* InOrder is not inductive: with one pump created, what that pump holds    *)
(* must be newer than what was published.                                   *)
OneOrdered ==
    (\A p, q \in Started : p = q) =>
        Increasing(published) /\ Before(Content(published), AtHand)

LEMMA OneHand ==
    ASSUME TypeOK, \A p, q \in Started : p = q, NEW p \in Started
    PROVE  Holding(held, Pumps \ {p}) = {}
  <1>1. \A q \in Pumps \ {p} : Content(held[q]) = {}
    BY ContentEmpty DEF TypeOK, Started
  <1> QED
    BY <1>1 DEF Holding

LEMMA OneOrderedNext ==
    TypeOK /\ Ordered /\ OneOrdered /\ [Next]_vars => OneOrdered'
  <1> SUFFICES ASSUME TypeOK, Ordered, OneOrdered, [Next]_vars,
                      \A p, q \in Started' : p = q
               PROVE  Increasing(published') /\ Before(Content(published'), AtHand')
    BY DEF OneOrdered
  <1>1. ASSUME UNCHANGED <<held, published>>, Started \subseteq Started'
        PROVE  Increasing(published') /\ Before(Content(published'), AtHand')
    BY <1>1 DEF OneOrdered, AtHand
  <1>2. ASSUME UNCHANGED pumpVars
        PROVE  Increasing(published') /\ Before(Content(published'), AtHand')
    BY <1>1, <1>2 DEF pumpVars, Started
  <1>3. ASSUME NEW p \in Pumps, PumpRecv(p)
        PROVE  Increasing(published') /\ Before(Content(published'), AtHand')
    <2>1. Started' = Started /\ p \in Started
      BY <1>3, PumpRecvEffect
    <2>2. Increasing(published) /\ Before(Content(published), AtHand)
      BY <2>1 DEF OneOrdered
    <2>3. Before(Content(published), {Head(telemetry_q)})
      BY <1>3, PumpRecvEffect DEF Ordered, Past, Before
    <2>4. published' = published /\ AtHand' = {Head(telemetry_q)} \cup AtHand
      BY <1>3, PumpRecvEffect
    <2> QED
      BY <2>2, <2>3, <2>4 DEF Before
  <1>4. ASSUME NEW p \in Pumps, PumpCheck(p) \/ PumpPublish(p)
        PROVE  Increasing(published') /\ Before(Content(published'), AtHand')
    <2>1. CASE held' = held
      <3>1. published' = published /\ Started' = Started
        BY <1>4, <2>1 DEF PumpCheck, PumpPublish, TypeOK, Started
      <3> QED
        BY <1>1, <2>1, <3>1
    <2>2. CASE held' # held
      <3>1. Started' = Started /\ p \in Started
        BY <1>4, <2>2, PumpDoneEffect
      <3>2. Increasing(published) /\ Before(Content(published), AtHand)
        BY <3>1 DEF OneOrdered
      <3>3. Holding(held, Pumps \ {p}) = {}
        BY <3>1, OneHand
      <3>4. AtHand' = {}
        BY <1>4, <2>2, <3>3, PumpDoneEffect
      <3>5. ASSUME NEW n \in AtHand PROVE Increasing(published \o <<n>>)
        <4>1. published \in Seq(Nat) /\ n \in Nat
          BY Numbers
        <4> QED
          BY <3>2, <4>1, IncreasingAdd DEF Before
      <3>6. Increasing(published')
        <4>1. PICK n \in AtHand : published' \in {published \o <<n>>, published}
          BY <1>4, <2>2, PumpDoneEffect
        <4> QED
          BY <3>2, <3>5, <4>1
      <3> QED
        BY <3>4, <3>6 DEF Before
    <2> QED
      BY <2>1, <2>2
  <1>5. ASSUME NEW p \in Pumps, MqttStart(p)
        PROVE  Increasing(published') /\ Before(Content(published'), AtHand')
    <2>1. UNCHANGED <<held, published>> /\ Started \subseteq Started'
      BY <1>5 DEF MqttStart, TypeOK, Started
    <2> QED
      BY <1>1, <2>1
  <1> QED
    BY <1>2, <1>3, <1>4, <1>5
    DEF Next, SensorStep, ProcStep, PumpStep, vars, SensorCheck, SensorWake, SensorSend,
        ProcCheck, ProcRecv, ProcNotify, ProcSend, MqttEvent, RequestShutdown, ShutdownEvent

(* Order: one pump publishes the samples in the order they were taken, for *)
(* every length of sample_q and telemetry_q and over every reconnection.    *)
THEOREM InOrderAlways == Spec => []InOrder
  <1>1. Init => OneOrdered
    BY DEF Init, OneOrdered, Increasing, Before, Content
  <1>2. Spec => []OneOrdered
    BY <1>1, OneOrderedNext, TypeCorrect, OrderedAlways, PTL DEF Spec
  <1>3. OneOrdered => InOrder
    BY DEF OneOrdered, InOrder
  <1> QED
    BY <1>2, <1>3, PTL
-----------------------------------------------------------------------------
(* BleInStep needs to know where the cache is while proc_task has a message. *)
CacheInStep ==
    /\ BleInStep
    /\ \A n \in Content(out) :
         IF proc = "notify" THEN s_sensor_cache < n ELSE s_sensor_cache = n

LEMMA CacheNext ==
    TypeOK /\ Ordered /\ CacheInStep /\ [Next]_vars => CacheInStep'
  <1> SUFFICES ASSUME TypeOK, Ordered, CacheInStep, [Next]_vars PROVE CacheInStep'
    OBVIOUS
  <1>0. s_seq \in Nat /\ s_sensor_cache \in Nat /\ s_sensor_cache <= s_seq
    BY DEF TypeOK
  <1>1. ASSUME UNCHANGED <<msg, sample_q, out, telemetry_q, held, published, proc,
                           s_sensor_cache>>
        PROVE  CacheInStep'
    BY <1>1 DEF CacheInStep, BleInStep, AtHand
  <1>2. CASE SensorWake
    <2>1. UNCHANGED <<AtHand, sample_q, out, telemetry_q, published, proc, s_sensor_cache>>
      BY <1>2, WakeEffect DEF AtHand
    <2>2. \A n \in Content(msg') : n > s_sensor_cache
      BY <1>0, <1>2, WakeEffect
    <2> QED
      BY <2>1, <2>2 DEF CacheInStep, BleInStep
  <1>3. CASE SensorSend
    <2>1. UNCHANGED <<AtHand, out, telemetry_q, published, proc, s_sensor_cache>>
      BY <1>3, SensorSendEffect DEF AtHand
    <2>2. Content(sample_q') \cup Content(msg') \subseteq Content(sample_q) \cup Content(msg)
      BY <1>3, SensorSendEffect
    <2> QED
      BY <2>1, <2>2 DEF CacheInStep, BleInStep
  <1>4. CASE ProcRecv
    <2>1. CASE sample_q = <<>>
      <3>1. out = <<>> /\ out' = <<>>
        BY <1>4, <2>1 DEF ProcRecv, TypeOK
      <3>2. UNCHANGED <<AtHand, sample_q, msg, telemetry_q, published, s_sensor_cache>>
        BY <1>4, <2>1 DEF ProcRecv, AtHand, sensorVars, pumpVars
      <3> QED
        BY <3>1, <3>2, ContentEmpty DEF CacheInStep, BleInStep
    <2>2. CASE sample_q # <<>>
      <3>1. UNCHANGED <<AtHand, msg, telemetry_q, published, s_sensor_cache>>
        BY <1>4, <2>2, ProcRecvEffect DEF AtHand
      <3>2. Content(sample_q') \cup Content(out') \subseteq Content(sample_q)
            /\ proc' = "notify"
        BY <1>4, <2>2, ProcRecvEffect
      <3>3. \A n \in Content(sample_q) : n \in Nat /\ s_sensor_cache < n
        BY <1>0, Numbers DEF CacheInStep, BleInStep
      <3> QED
        BY <3>1, <3>2, <3>3 DEF CacheInStep, BleInStep
    <2> QED
      BY <2>1, <2>2
  <1>5. CASE ProcNotify
    <2>1. PICK n \in 1..s_seq : out = <<n>> /\ Content(out) = {n}
      BY <1>0, <1>5, SlotFacts DEF ProcNotify, TypeOK
    <2>2. s_sensor_cache' = n /\ proc' = "send"
          /\ UNCHANGED <<AtHand, msg, sample_q, out, telemetry_q, published>>
      BY <1>5, <2>1 DEF ProcNotify, AtHand, sensorVars, pumpVars
    <2>3. /\ \A m \in Content(telemetry_q) \cup AtHand \cup Content(published) : m <= n
          /\ \A m \in Content(sample_q) \cup Content(msg) : m > n
      <3>1. \A m \in Content(telemetry_q) \cup Past : m < n
        BY <2>1 DEF Ordered, Before
      <3>2. \A m \in Content(sample_q) \cup Content(msg) : n < m
        BY <2>1 DEF Ordered, Before
      <3>3. \A m \in Content(telemetry_q) \cup Past \cup Content(sample_q) \cup Content(msg) :
              m \in Nat
        BY Numbers DEF Past
      <3> QED
        BY <3>1, <3>2, <3>3, <2>1 DEF Past
    <2> QED
      BY <2>1, <2>2, <2>3 DEF CacheInStep, BleInStep
  <1>6. CASE ProcSend
    <2>1. UNCHANGED <<AtHand, msg, sample_q, published, s_sensor_cache>>
      BY <1>6, ProcSendEffect DEF AtHand
    <2>2. Content(telemetry_q') \subseteq Content(telemetry_q) \cup Content(out)
          /\ Content(out') = {} /\ proc = "send"
      BY <1>6, ProcSendEffect
    <2>3. \A n \in Content(out) : n <= s_sensor_cache
      BY <1>0, <2>2 DEF CacheInStep
    <2> QED
      BY <2>1, <2>2, <2>3 DEF CacheInStep, BleInStep
  <1>7. ASSUME NEW p \in Pumps, PumpRecv(p) PROVE CacheInStep'
    BY <1>7, PumpRecvEffect DEF CacheInStep, BleInStep
  <1>8. ASSUME NEW p \in Pumps, PumpCheck(p) \/ PumpPublish(p) PROVE CacheInStep'
    <2>1. CASE held' = held
      BY <1>1, <1>8, <2>1 DEF PumpCheck, PumpPublish, TypeOK, sensorVars, procVars
    <2>2. CASE held' # held
      <3>1. AtHand' \cup Content(published') \subseteq AtHand \cup Content(published)
        BY <1>8, <2>2, PumpDoneEffect
      <3>2. UNCHANGED <<msg, sample_q, out, telemetry_q, proc, s_sensor_cache>>
        BY <1>8, <2>2, PumpDoneEffect
      <3> QED
        BY <3>1, <3>2 DEF CacheInStep, BleInStep
    <2> QED
      BY <2>1, <2>2
  <1>9. CASE ProcCheck
    <2>1. out = <<>> /\ out' = <<>>
      BY <1>9 DEF ProcCheck, TypeOK
    <2>2. UNCHANGED <<AtHand, sample_q, msg, telemetry_q, published, s_sensor_cache>>
      BY <1>9 DEF ProcCheck, AtHand, sensorVars, pumpVars
    <2> QED
      BY <2>1, <2>2, ContentEmpty DEF CacheInStep, BleInStep
  <1> QED
    BY <1>1, <1>2, <1>3, <1>4, <1>5, <1>6, <1>7, <1>8, <1>9
    DEF Next, SensorStep, ProcStep, PumpStep, vars, SensorCheck,
        MqttStart, MqttEvent, RequestShutdown, ShutdownEvent, sensorVars, procVars, pumpVars

(* FF02 is never behind MQTT: iot_ble_notify_sensor has cached a message    *)
(* before telemetry_q can have it, and the cache never goes back.           *)
THEOREM BleInStepAlways == Spec => []BleInStep
  <1>1. Init => CacheInStep
    BY ContentEmpty DEF Init, CacheInStep, BleInStep, AtHand, Holding
  <1>2. Spec => []CacheInStep
    BY <1>1, CacheNext, TypeCorrect, OrderedAlways, PTL DEF Spec
  <1>3. CacheInStep => BleInStep
    BY DEF CacheInStep
  <1> QED
    BY <1>2, <1>3, PTL

(* Towards MQTT and towards BLE a message never overtakes an earlier one,   *)
(* whatever is dropped, refused or reconnected on the way.                  *)
THEOREM OrderAlways == Spec => []OrderIsKept
  BY InOrderAlways, BleInStepAlways, PTL DEF OrderIsKept
-----------------------------------------------------------------------------
(* Conservation and the abstract stream.  Every step either numbers one new *)
(* sample, or takes one message out of the path and publishes or loses it,  *)
(* or leaves the messages on the path as they are.                          *)

Taken(n) == n \in InFlight /\ InFlight' = InFlight \ {n}

LEMMA Moves ==
    ASSUME TypeOK, Ordered, Accounted, [Next]_vars
    PROVE  \/ /\ s_seq' = s_seq + 1 /\ published' = published
              /\ \/ InFlight' = InFlight \cup {s_seq + 1} /\ lost' = lost
                 \/ InFlight' = InFlight /\ lost' = lost \cup {s_seq + 1}
           \/ /\ s_seq' = s_seq
              /\ \E n \in 1..s_seq :
                   /\ Taken(n)
                   /\ \/ published' = published \o <<n>> /\ lost' = lost
                         /\ Content(published') = Content(published) \cup {n}
                      \/ published' = published /\ lost' = lost \cup {n}
           \/ UNCHANGED <<s_seq, InFlight, published, lost>>
  <1>0. s_seq \in Nat
    BY DEF TypeOK
  <1>1. ASSUME UNCHANGED <<s_seq, msg, sample_q, out, telemetry_q, held, published, lost>>
        PROVE  UNCHANGED <<s_seq, InFlight, published, lost>>
    BY <1>1 DEF InFlight, AtHand
  <1>2. CASE SensorWake
    BY <1>2, WakeEffect DEF InFlight, AtHand
  <1>3. CASE SensorSend
    <2>1. PICK n \in 1..s_seq :
             /\ msg = <<n>> /\ Content(msg) = {n} /\ Content(msg') = {}
             /\ \/ sample_q' = sample_q \o <<n>> /\ lost' = lost
                   /\ Content(sample_q') = Content(sample_q) \cup {n}
                \/ sample_q' = sample_q /\ lost' = lost \cup {n}
             /\ UNCHANGED <<s_seq, out, telemetry_q, held, published, proc, s_sensor_cache, pump>>
      BY <1>3, SensorSendEffect
    <2>2. UNCHANGED <<s_seq, Content(out), Content(telemetry_q), AtHand, published>>
      BY <2>1 DEF AtHand
    <2>3. n \notin Content(sample_q) \cup Content(out) \cup Content(telemetry_q) \cup AtHand
      BY <2>1 DEF Ordered, Before, Past
    <2> QED
      BY <2>1, <2>2, <2>3 DEF InFlight, Taken
  <1>4. CASE ProcRecv
    <2>1. CASE sample_q = <<>>
      BY <1>1, <1>4, <2>1 DEF ProcRecv, sensorVars, pumpVars
    <2>2. CASE sample_q # <<>>
      BY <1>4, <2>2, ProcRecvEffect DEF InFlight, AtHand
    <2> QED
      BY <2>1, <2>2
  <1>5. CASE ProcSend
    <2>1. PICK n \in 1..s_seq :
             /\ out = <<n>> /\ Content(out) = {n} /\ Content(out') = {}
             /\ \/ telemetry_q' = telemetry_q \o <<n>> /\ lost' = lost
                   /\ Content(telemetry_q') = Content(telemetry_q) \cup {n}
                \/ telemetry_q' = telemetry_q /\ lost' = lost \cup {n}
             /\ proc = "send" /\ proc' = "check"
             /\ UNCHANGED <<s_seq, msg, sample_q, held, published, s_sensor_cache, pump>>
      BY <1>5, ProcSendEffect
    <2>2. UNCHANGED <<s_seq, Content(msg), Content(sample_q), AtHand, published>>
      BY <2>1 DEF AtHand
    <2>3. n \notin Content(sample_q) \cup Content(msg) \cup Content(telemetry_q) \cup AtHand
      BY <2>1 DEF Ordered, Before, Past
    <2> QED
      BY <2>1, <2>2, <2>3 DEF InFlight, Taken
  <1>6. ASSUME NEW p \in Pumps, PumpRecv(p)
        PROVE  UNCHANGED <<s_seq, InFlight, published, lost>>
    BY <1>6, PumpRecvEffect DEF InFlight
  <1>7. ASSUME NEW p \in Pumps, PumpCheck(p) \/ PumpPublish(p), held' # held
        PROVE  /\ s_seq' = s_seq
               /\ \E n \in 1..s_seq :
                    /\ Taken(n)
                    /\ \/ published' = published \o <<n>> /\ lost' = lost
                          /\ Content(published') = Content(published) \cup {n}
                       \/ published' = published /\ lost' = lost \cup {n}
    <2>1. PICK n \in 1..s_seq :
             /\ Content(held[p]) = {n}
             /\ AtHand = {n} \cup Holding(held, Pumps \ {p})
             /\ AtHand' = Holding(held, Pumps \ {p})
             /\ \/ published' = published \o <<n>> /\ lost' = lost
                   /\ Content(published') = Content(published) \cup {n}
                \/ published' = published /\ lost' = lost \cup {n}
             /\ UNCHANGED <<s_seq, msg, sample_q, out, telemetry_q, proc, s_sensor_cache>>
      BY <1>7, PumpDoneEffect
    <2>2. n \notin Holding(held, Pumps \ {p})
      BY <2>1 DEF Accounted, Holding
    <2>3. n \notin Content(sample_q) \cup Content(msg) \cup Content(telemetry_q) \cup Content(out)
      BY <2>1 DEF Ordered, Before, Past
    <2>4. UNCHANGED <<s_seq, Content(msg), Content(sample_q), Content(out), Content(telemetry_q)>>
      BY <2>1
    <2>5. Taken(n)
      BY <2>1, <2>2, <2>3, <2>4 DEF InFlight, Taken
    <2> QED
      BY <2>1, <2>5
  <1>8. ASSUME NEW p \in Pumps, PumpCheck(p) \/ PumpPublish(p), held' = held
        PROVE  UNCHANGED <<s_seq, InFlight, published, lost>>
    BY <1>1, <1>8 DEF PumpCheck, PumpPublish, TypeOK, sensorVars, procVars
  <1> QED
    BY <1>1, <1>2, <1>3, <1>4, <1>5, <1>6, <1>7, <1>8
    DEF Next, SensorStep, ProcStep, PumpStep, vars, SensorCheck, ProcCheck, ProcNotify,
        MqttStart, MqttEvent, RequestShutdown, ShutdownEvent, sensorVars, procVars, pumpVars

(* The conjuncts of Accounted, apart from those each proof step is about. *)
Whole ==
    /\ InFlight \cup Content(published) \cup lost = 1..s_seq
    /\ InFlight \cap Content(published) = {}
    /\ InFlight \cap lost = {}
    /\ Content(published) \cap lost = {}

Apart == \A p, q \in Pumps : p # q => Content(held[p]) \cap Content(held[q]) = {}

Once == \A i, j \in 1..Len(published) : published[i] = published[j] => i = j

LEMMA OnceAdd ==
    ASSUME NEW S, NEW s \in Seq(S), NEW n, n \notin Content(s),
           \A i, j \in 1..Len(s) : s[i] = s[j] => i = j
    PROVE  \A i, j \in 1..Len(s \o <<n>>) :
             (s \o <<n>>)[i] = (s \o <<n>>)[j] => i = j
  <1> DEFINE t == s \o <<n>>
  <1>1. Len(t) = Len(s) + 1 /\ Len(s) \in Nat
    OBVIOUS
  <1>2. \A i \in 1..Len(s) : t[i] = s[i] /\ s[i] # n
    BY DEF Content
  <1>3. t[Len(s) + 1] = n
    OBVIOUS
  <1> QED
    BY <1>1, <1>2, <1>3

LEMMA ApartNext == TypeOK /\ Ordered /\ Apart /\ [Next]_vars => Apart'
  <1> SUFFICES ASSUME TypeOK, Ordered, Apart, [Next]_vars PROVE Apart'
    OBVIOUS
  <1>1. ASSUME held' = held PROVE Apart'
    BY <1>1 DEF Apart
  <1>2. ASSUME NEW p \in Pumps, PumpRecv(p) PROVE Apart'
    <2>1. Head(telemetry_q) \notin AtHand
      <3>1. Head(telemetry_q) \in Content(telemetry_q) /\ Head(telemetry_q) \in Nat
        BY <1>2, PumpRecvEffect, Numbers
      <3>2. \A m \in AtHand, n \in Content(telemetry_q) : m < n
        BY DEF Ordered, Before, Past
      <3> QED
        BY <3>1, <3>2
    <2>2. \A q \in Pumps : Head(telemetry_q) \notin Content(held[q])
      BY <2>1 DEF AtHand, Holding
    <2>3. Content(held'[p]) = {Head(telemetry_q)}
          /\ \A q \in Pumps \ {p} : held'[q] = held[q]
      BY <1>2, PumpRecvEffect
    <2> QED
      BY <2>2, <2>3 DEF Apart
  <1>3. ASSUME NEW p \in Pumps, PumpCheck(p) \/ PumpPublish(p), held' # held PROVE Apart'
    <2>1. Content(held'[p]) = {} /\ \A q \in Pumps \ {p} : held'[q] = held[q]
      BY <1>3, PumpDoneEffect
    <2> QED
      BY <2>1 DEF Apart
  <1>4. CASE UNCHANGED vars
    BY <1>1, <1>4 DEF vars, pumpVars
  <1>5. CASE SensorStep
    BY <1>1, <1>5 DEF SensorStep, SensorCheck, SensorWake, SensorSend, pumpVars
  <1>6. CASE ProcStep
    BY <1>1, <1>6 DEF ProcStep, ProcCheck, ProcRecv, ProcNotify, ProcSend, pumpVars
  <1>7. ASSUME NEW p \in Pumps, PumpStep(p) PROVE Apart'
    BY <1>1, <1>2, <1>3, <1>7, Zenon DEF PumpStep
  <1>8. ASSUME NEW p \in Pumps, MqttStart(p) PROVE Apart'
    BY <1>1, <1>8 DEF MqttStart
  <1>9. CASE MqttEvent \/ RequestShutdown \/ ShutdownEvent
    BY <1>1, <1>9 DEF MqttEvent, RequestShutdown, ShutdownEvent, pumpVars
  <1> QED
    BY <1>4, <1>5, <1>6, <1>7, <1>8, <1>9, Zenon DEF Next

LEMMA AccountedNext == TypeOK /\ Ordered /\ Accounted /\ [Next]_vars => Accounted'
  <1> SUFFICES ASSUME TypeOK, Ordered, Accounted, [Next]_vars PROVE Accounted'
    OBVIOUS
  <1>0. Whole /\ Apart /\ Once /\ s_seq \in Nat /\ published \in Seq(1..s_seq)
    BY DEF Accounted, Whole, Apart, Once, TypeOK
  <1>1. Apart'
    BY <1>0, ApartNext
  <1>2. CASE /\ s_seq' = s_seq + 1 /\ published' = published
             /\ \/ InFlight' = InFlight \cup {s_seq + 1} /\ lost' = lost
                \/ InFlight' = InFlight /\ lost' = lost \cup {s_seq + 1}
    <2>1. 1..s_seq' = 1..s_seq \cup {s_seq + 1} /\ s_seq + 1 \notin 1..s_seq
      BY <1>0, <1>2
    <2>2. Content(published') = Content(published)
      BY <1>2
    <2>3. InFlight \subseteq 1..s_seq /\ Content(published) \subseteq 1..s_seq
          /\ lost \subseteq 1..s_seq
      BY <1>0 DEF Whole
    <2>4. Whole'
      BY <1>0, <1>2, <2>1, <2>2, <2>3 DEF Whole
    <2>5. Once'
      BY <1>0, <1>2 DEF Once
    <2> QED
      BY <1>1, <2>4, <2>5 DEF Accounted, Whole, Apart, Once
  <1>3. ASSUME s_seq' = s_seq, NEW n \in 1..s_seq, Taken(n),
               \/ published' = published \o <<n>> /\ lost' = lost
                  /\ Content(published') = Content(published) \cup {n}
               \/ published' = published /\ lost' = lost \cup {n}
        PROVE  Accounted'
    <2>1. n \in InFlight /\ n \notin Content(published) /\ n \notin lost
      BY <1>0, <1>3 DEF Taken, Whole
    <2>2. CASE /\ published' = published \o <<n>> /\ lost' = lost
               /\ Content(published') = Content(published) \cup {n}
      <3>1. Once'
        BY <1>0, <2>1, <2>2, OnceAdd DEF Once
      <3>2. Whole'
        BY <1>0, <1>3, <2>1, <2>2 DEF Whole, Taken
      <3> QED
        BY <1>1, <3>1, <3>2 DEF Accounted, Whole, Apart, Once
    <2>3. CASE published' = published /\ lost' = lost \cup {n}
      <3>1. Whole' /\ Once'
        BY <1>0, <1>3, <2>1, <2>3 DEF Whole, Once, Taken
      <3> QED
        BY <1>1, <3>1 DEF Accounted, Whole, Apart, Once
    <2> QED
      BY <1>3, <2>2, <2>3
  <1>4. CASE UNCHANGED <<s_seq, InFlight, published, lost>>
    BY <1>0, <1>1, <1>4 DEF Accounted, Whole, Apart, Once
  <1> QED
    BY <1>2, <1>3, <1>4, Moves

LEMMA AccountedInit == Init => Accounted
  <1> SUFFICES ASSUME Init PROVE Accounted
    OBVIOUS
  <1>1. InFlight = {} /\ Content(published) = {} /\ lost = {} /\ 1..s_seq = {}
    BY ContentEmpty DEF Init, InFlight, AtHand, Holding
  <1>2. \A p \in Pumps : Content(held[p]) = {}
    BY ContentEmpty DEF Init
  <1>3. Len(published) = 0
    BY DEF Init
  <1> QED
    BY <1>1, <1>2, <1>3 DEF Accounted

(* Conservation: no queue, task or reconnection loses a sample unnoticed,   *)
(* duplicates one or publishes one twice, with any number of pump tasks.    *)
THEOREM AccountedAlways == Spec => []Accounted
  BY AccountedInit, AccountedNext, TypeCorrect, OrderedAlways, PTL DEF Spec

LEMMA StreamStep ==
    TypeOK /\ Ordered /\ Accounted /\ [Next]_vars => [Stream!Next]_(Stream!vars)
  <1> SUFFICES ASSUME TypeOK, Ordered, Accounted, [Next]_vars
               PROVE  [Stream!Next]_(Stream!vars)
    OBVIOUS
  <1>1. CASE /\ s_seq' = s_seq + 1 /\ published' = published
             /\ \/ InFlight' = InFlight \cup {s_seq + 1} /\ lost' = lost
                \/ InFlight' = InFlight /\ lost' = lost \cup {s_seq + 1}
    BY <1>1 DEF Stream!Next, Stream!Sample, Stream!SampleFails
  <1>2. ASSUME s_seq' = s_seq, NEW n \in 1..s_seq, Taken(n),
               \/ published' = published \o <<n>> /\ lost' = lost
                  /\ Content(published') = Content(published) \cup {n}
               \/ published' = published /\ lost' = lost \cup {n}
        PROVE  Stream!Next
    <2>1. published \o <<n>> = Append(published, n)
      BY DEF TypeOK
    <2>2. Stream!Deliver(n) \/ Stream!Lose(n)
      BY <1>2, <2>1 DEF Stream!Deliver, Stream!Lose, Taken
    <2> QED
      BY <1>2, <2>2 DEF Stream!Next, Taken
  <1>3. CASE UNCHANGED <<s_seq, InFlight, published, lost>>
    BY <1>3 DEF Stream!vars
  <1> QED
    BY <1>1, <1>2, <1>3, Moves

(* The telemetry path implements the stream: every step of a task numbers a *)
(* sample, delivers one, loses one or is invisible.                         *)
THEOREM PathImplementsStream == Spec => StreamSpec
  <1>1. Init => Stream!Init
    BY ContentEmpty DEF Init, Stream!Init, InFlight, AtHand, Holding
  <1> QED
    BY <1>1, StreamStep, TypeCorrect, OrderedAlways, AccountedAlways, PTL
    DEF Spec, StreamSpec, Stream!Spec
-----------------------------------------------------------------------------
(* Shutdown.  After the request only a sensor task already past its check   *)
(* of the flag takes a sample; Bounded(n) is that allowance, spent or not.  *)
Bounded(n) ==
    /\ s_shutdown
    /\ s_seq <= n + 1
    /\ sensor = "take" => s_seq <= n

LEMMA BoundedNext ==
    ASSUME NEW n \in Nat
    PROVE  TypeOK /\ Bounded(n) /\ [Next]_vars => Bounded(n)'
  <1> SUFFICES ASSUME TypeOK, Bounded(n), [Next]_vars PROVE Bounded(n)'
    OBVIOUS
  <1>1. CASE SensorWake
    BY <1>1 DEF SensorWake, Bounded, TypeOK
  <1>2. CASE SensorCheck
    BY <1>2 DEF SensorCheck, Bounded
  <1>3. CASE SensorSend
    BY <1>3 DEF SensorSend, Bounded
  <1>4. CASE RequestShutdown
    BY <1>4 DEF RequestShutdown, Bounded, sensorVars
  <1>5. ASSUME UNCHANGED <<s_shutdown, s_seq, sensor>> PROVE Bounded(n)'
    BY <1>5 DEF Bounded
  <1> QED
    BY <1>1, <1>2, <1>3, <1>4, <1>5
    DEF Next, SensorStep, ProcStep, PumpStep, vars, ProcCheck, ProcRecv, ProcNotify,
        ProcSend, PumpRecv, PumpCheck, PumpPublish, MqttStart, MqttEvent, ShutdownEvent,
        sensorVars

(* Shutdown stops sampling: iot_tasks_request_shutdown only sets a flag, yet *)
(* the sensor task takes at most one more sample after it.                   *)
THEOREM ShutdownStopsSampling == Spec => OneSampleAfterShutdown
  <1> SUFFICES ASSUME NEW n \in 0..MaxSeq
               PROVE  Spec => []((s_shutdown /\ s_seq = n) => [](s_seq <= n + 1))
    BY DEF OneSampleAfterShutdown
  <1>1. n \in Nat
    BY MaxSeqAssumption
  <1>2. TypeOK /\ Bounded(n) /\ [Next]_vars => Bounded(n)'
    BY <1>1, BoundedNext
  <1>3. TypeOK /\ s_shutdown /\ s_seq = n => Bounded(n)
    BY <1>1 DEF Bounded
  <1>4. Bounded(n) => s_seq <= n + 1
    BY DEF Bounded
  <1> QED
    BY <1>2, <1>3, <1>4, TypeCorrect, PTL DEF Spec
-----------------------------------------------------------------------------
(* How near a sample is to its end: the rank behind EverySampleSettles.     *)
(* Each place has the task that takes the sample on, the messages before it *)
(* and what that task has still to do before it takes the next.             *)

Settled(n) == halted \/ n \in lost \/ n \in Content(published)

ToRecv == [recv |-> 1, check |-> 2, send |-> 3, notify |-> 4]
ToTake == [recv |-> 1, publish |-> 2, check |-> 3]

WithProc(n, k) ==
    \/ n \in Content(out) /\ k = IF proc = "notify" THEN 2 ELSE 1
    \/ \E i \in 1..Len(sample_q) : sample_q[i] = n /\ k = 4 * (i - 1) + ToRecv[proc] + 2

AwaitsPump(n, p, k) ==
    /\ pump[p] # "none"
    /\ \E i \in 1..Len(telemetry_q) :
         telemetry_q[i] = n /\ k = 3 * (i - 1) + ToTake[pump[p]]

HeldBy(n, p) == n \in Content(held[p])

Held(n) == \E p \in Pumps : HeldBy(n, p)

(* The sensor task sends what it has numbered.                              *)
SensorNears(n) ==
    n \in Content(msg) =>
        \/ n \in Content(msg)' /\ ~SensorStep
        \/ n \in Content(sample_q)' \/ Settled(n)'

(* A step of proc_task brings what it has or what waits for it nearer to    *)
(* telemetry_q, and nobody puts it back.                                    *)
ProcNears(n) ==
    \A k \in Nat : WithProc(n, k) =>
        \/ \E j \in 1..k : (j = k => ~ProcStep) /\ WithProc(n, j)'
        \/ n \in Content(telemetry_q)' \/ Settled(n)'

(* A step of any one pump brings what is in telemetry_q nearer to a pump,   *)
(* and the other pumps can only help.                                       *)
PumpNears(n) ==
    \A p \in Pumps, k \in Nat : AwaitsPump(n, p, k) =>
        \/ \E j \in 1..k : (j = k => ~PumpStep(p)) /\ AwaitsPump(n, p, j)'
        \/ Held(n)' \/ Settled(n)'

(* What a pump has taken it gives to the MQTT client or gives up.           *)
HandNears(n) ==
    \A q \in Pumps : n \in Content(held[q]) =>
        \/ n \in Content(held[q])' /\ pump'[q] = pump[q] /\ ~PumpStep(q)
        \/ n \in Content(held[q])' /\ pump[q] = "check" /\ pump'[q] = "publish"
        \/ Settled(n)'

SampleNears(n) == SensorNears(n) /\ ProcNears(n) /\ PumpNears(n) /\ HandNears(n)

LEMMA QueueTake ==
    ASSUME NEW S, NEW s \in Seq(S), s # <<>>
    PROVE  /\ Len(s) \in Nat /\ Len(Tail(s)) = Len(s) - 1 /\ Head(s) = s[1]
           /\ \A i \in 1..Len(s) : i # 1 => i - 1 \in 1..Len(Tail(s)) /\ Tail(s)[i - 1] = s[i]
  <1>1. /\ Len(s) \in Nat \ {0} /\ Len(Tail(s)) = Len(s) - 1 /\ Head(s) = s[1]
        /\ \A i \in 1..Len(Tail(s)) : Tail(s)[i] = s[i + 1]
    OBVIOUS
  <1>2. ASSUME NEW i \in 1..Len(s), i # 1
        PROVE  i - 1 \in 1..Len(Tail(s)) /\ Tail(s)[i - 1] = s[i]
    <2>1. i - 1 \in 1..Len(Tail(s)) /\ (i - 1) + 1 = i
      BY <1>1, <1>2
    <2> QED
      BY <1>1, <2>1
  <1> QED
    BY <1>1, <1>2

LEMMA QueueAdd ==
    ASSUME NEW S, NEW s \in Seq(S), NEW n \in S
    PROVE  \A i \in 1..Len(s) : i \in 1..Len(s \o <<n>>) /\ (s \o <<n>>)[i] = s[i]
  <1>1. Len(s) \in Nat /\ Len(s \o <<n>>) = Len(s) + 1
    OBVIOUS
  <1>2. \A i \in 1..Len(s) : (s \o <<n>>)[i] = s[i]
    OBVIOUS
  <1> QED
    BY <1>1, <1>2

(* Who changes what. *)
LEMMA Owners ==
    ASSUME TypeOK, [Next]_vars
    PROVE  /\ SensorStep \/ (UNCHANGED <<sensor, msg>> /\ (ProcRecv \/ sample_q' = sample_q))
           /\ ProcStep \/ (UNCHANGED <<proc, out>> /\ (SensorSend \/ sample_q' = sample_q))
           /\ \A p \in Pumps :
                PumpStep(p) \/ (/\ held'[p] = held[p]
                                /\ pump'[p] = pump[p] \/ (pump[p] = "none" /\ pump'[p] = "recv"))
           /\ \/ ProcSend
              \/ \E p \in Pumps : PumpRecv(p)
              \/ telemetry_q' = telemetry_q
  <1>1. pump \in [Pumps -> PumpPc] /\ held \in [Pumps -> Slot(s_seq)]
    BY DEF TypeOK
  <1>2. CASE SensorStep
    <2>1. UNCHANGED <<proc, out, pump, held, telemetry_q>> /\ (SensorSend \/ sample_q' = sample_q)
      BY <1>2 DEF SensorStep, SensorCheck, SensorWake, SensorSend, procVars, pumpVars
    <2> QED
      BY <1>2, <2>1
  <1>3. CASE ProcStep
    <2>1. /\ UNCHANGED <<sensor, msg, pump, held>>
          /\ ProcRecv \/ sample_q' = sample_q
          /\ ProcSend \/ telemetry_q' = telemetry_q
      BY <1>3 DEF ProcStep, ProcCheck, ProcRecv, ProcNotify, ProcSend, sensorVars, pumpVars
    <2> QED
      BY <1>3, <2>1
  <1>4. ASSUME NEW q \in Pumps, PumpStep(q)
        PROVE  /\ UNCHANGED <<sensor, msg, proc, out, sample_q>>
               /\ PumpRecv(q) \/ telemetry_q' = telemetry_q
               /\ \A p \in Pumps : p = q \/ (held'[p] = held[p] /\ pump'[p] = pump[p])
    BY <1>1, <1>4 DEF PumpStep, PumpRecv, PumpCheck, PumpPublish, sensorVars, procVars
  <1>5. CASE \E q \in Pumps : PumpStep(q)
    <2>1. PICK q \in Pumps : PumpStep(q)
      BY <1>5
    <2>2. /\ UNCHANGED <<sensor, msg, proc, out, sample_q>>
          /\ PumpRecv(q) \/ telemetry_q' = telemetry_q
          /\ \A p \in Pumps : p = q \/ (held'[p] = held[p] /\ pump'[p] = pump[p])
      BY <1>4, <2>1
    <2> QED
      BY <2>1, <2>2
  <1>6. CASE \E q \in Pumps : MqttStart(q)
    <2>1. /\ UNCHANGED <<sensor, msg, proc, out, sample_q, telemetry_q, held>>
          /\ \A p \in Pumps : pump'[p] = pump[p] \/ (pump[p] = "none" /\ pump'[p] = "recv")
      BY <1>1, <1>6 DEF MqttStart, sensorVars, procVars
    <2> QED
      BY <2>1
  <1>7. CASE MqttEvent \/ RequestShutdown \/ ShutdownEvent \/ UNCHANGED vars
    <2>1. UNCHANGED <<sensor, msg, proc, out, sample_q, telemetry_q, held, pump>>
      BY <1>7 DEF MqttEvent, RequestShutdown, ShutdownEvent, vars, sensorVars, procVars, pumpVars
    <2> QED
      BY <2>1
  <1> QED
    BY <1>2, <1>3, <1>5, <1>6, <1>7 DEF Next

LEMMA SensorNearsNext ==
    ASSUME TypeOK, [Next]_vars, NEW n PROVE SensorNears(n)
  <1> SUFFICES ASSUME n \in Content(msg)
               PROVE  \/ n \in Content(msg)' /\ ~SensorStep
                      \/ n \in Content(sample_q)' \/ Settled(n)'
    BY DEF SensorNears
  <1>1. CASE ~SensorStep
    BY <1>1, Owners DEF Content
  <1>2. msg # <<>> /\ sensor = "send"
    <2>1. msg # <<>>
      BY ContentEmpty
    <2> QED
      BY <2>1 DEF TypeOK
  <1>3. CASE SensorStep
    <2>1. SensorSend
      BY <1>2, <1>3 DEF SensorStep, SensorCheck, SensorWake
    <2> QED
      BY <2>1, SensorSendEffect DEF Settled
  <1> QED
    BY <1>1, <1>3

LEMMA ProcNearsNext ==
    ASSUME TypeOK, [Next]_vars, NEW n PROVE ProcNears(n)
  <1> SUFFICES ASSUME NEW k \in Nat, WithProc(n, k)
               PROVE  \/ \E j \in 1..k : (j = k => ~ProcStep) /\ WithProc(n, j)'
                      \/ n \in Content(telemetry_q)' \/ Settled(n)'
    BY DEF ProcNears
  <1>0. /\ sample_q \in Seq(1..s_seq) /\ Len(sample_q) \in Nat /\ proc \in ProcPc
        /\ out # <<>> <=> proc \in {"notify", "send"}
    BY DEF TypeOK
  <1>1. CASE n \in Content(out) /\ k = IF proc = "notify" THEN 2 ELSE 1
    <2>1. out # <<>> /\ proc \in {"notify", "send"}
      BY <1>0, <1>1, ContentEmpty
    <2>2. CASE ~ProcStep
      <3>1. WithProc(n, k)' /\ k \in 1..k
        BY <1>1, <2>2, Owners DEF WithProc, Content
      <3> QED
        BY <2>2, <3>1
    <2>3. CASE ProcNotify
      <3>1. proc = "notify" /\ proc' = "send" /\ out' = out
        BY <2>3 DEF ProcNotify
      <3>2. WithProc(n, 1)' /\ 1 \in 1..k /\ k # 1
        BY <1>1, <3>1 DEF WithProc, Content
      <3> QED
        BY <3>2
    <2>4. CASE ProcSend
      BY <1>1, <2>4, ProcSendEffect DEF Settled
    <2> QED
      BY <2>1, <2>2, <2>3, <2>4 DEF ProcStep, ProcCheck, ProcRecv
  <1>2. CASE \E i \in 1..Len(sample_q) : sample_q[i] = n /\ k = 4 * (i - 1) + ToRecv[proc] + 2
    <2>1. PICK i \in 1..Len(sample_q) : sample_q[i] = n /\ k = 4 * (i - 1) + ToRecv[proc] + 2
      BY <1>2
    <2>2. PICK m \in Nat : i = m + 1
      <3>1. i - 1 \in Nat /\ i = (i - 1) + 1
        BY <1>0
      <3> QED
        BY <3>1
    <2>3. ToRecv[proc] \in 1..4 /\ k = 4 * m + ToRecv[proc] + 2
      BY <1>0, <2>1, <2>2 DEF ProcPc, ToRecv
    (* The sample stays where it is while the task goes on its way. *)
    <2>4. ASSUME i \in 1..Len(sample_q'), sample_q'[i] = n, ToRecv[proc'] \in 1..4,
                 IF ProcStep THEN ToRecv[proc'] < ToRecv[proc] ELSE proc' = proc
          PROVE  \E j \in 1..k : (j = k => ~ProcStep) /\ WithProc(n, j)'
      <3>1. PICK r \in 1..4 : r = ToRecv[proc']
        BY <2>4
      <3>2. PICK q \in 1..4 : q = ToRecv[proc]
        BY <2>3
      <3>3. r <= q /\ (ProcStep => r < q) /\ k = 4 * m + q + 2
        BY <2>3, <2>4, <3>1, <3>2
      <3>4. 4 * m + r + 2 \in 1..k /\ (4 * m + r + 2 = k => ~ProcStep)
        BY <3>3
      <3>5. WithProc(n, 4 * m + r + 2)'
        <4>1. 4 * m + r + 2 = 4 * (i - 1) + r + 2
          BY <2>2
        <4> QED
          BY <2>4, <3>1, <4>1 DEF WithProc
      <3> QED
        BY <3>4, <3>5
    <2>5. CASE ~ProcStep
      <3>1. proc' = proc /\ (SensorSend \/ sample_q' = sample_q)
        BY <2>5, Owners
      <3>2. i \in 1..Len(sample_q') /\ sample_q'[i] = n
        <4>1. CASE sample_q' = sample_q
          BY <2>1, <4>1
        <4>2. ASSUME NEW x \in 1..s_seq, sample_q' = sample_q \o <<x>>
              PROVE  i \in 1..Len(sample_q') /\ sample_q'[i] = n
          BY <1>0, <2>1, <4>2, QueueAdd
        <4> QED
          BY <3>1, <4>1, <4>2, SensorSendEffect
      <3> QED
        BY <2>3, <2>4, <2>5, <3>1, <3>2
    <2>6. CASE ProcCheck \/ ProcNotify \/ ProcSend
      <3>1. sample_q' = sample_q
        BY <2>6 DEF ProcCheck, ProcNotify, ProcSend
      <3>2. \/ halted'
            \/ proc = "check" /\ proc' = "recv"
            \/ proc = "notify" /\ proc' = "send"
            \/ proc = "send" /\ proc' = "check"
        BY <2>6 DEF ProcCheck, ProcNotify, ProcSend
      <3>3. halted' \/ (ToRecv[proc'] \in 1..4 /\ ToRecv[proc'] < ToRecv[proc])
        BY <3>2 DEF ToRecv
      <3>4. ProcStep
        BY <2>6 DEF ProcStep
      <3> QED
        BY <2>1, <2>4, <3>1, <3>3, <3>4 DEF Settled
    <2>7. CASE ProcRecv
      <3>0. sample_q # <<>>
        BY <1>0, <2>1
      <3>1. /\ proc = "recv" /\ proc' = "notify"
            /\ sample_q' = Tail(sample_q) /\ out' = <<Head(sample_q)>>
            /\ ToRecv[proc] = 1 /\ ToRecv[proc'] = 4
        BY <2>7, <3>0 DEF ProcRecv, ToRecv
      <3>2. CASE i = 1
        <4>1. n \in Content(out)'
          BY <1>0, <2>1, <3>0, <3>1, <3>2, QueueTake, ContentOne DEF Content
        <4>2. 2 \in 1..k /\ 2 # k
          BY <2>3, <3>1
        <4>3. WithProc(n, 2)'
          BY <3>1, <4>1 DEF WithProc
        <4> QED
          BY <4>2, <4>3
      <3>3. CASE i # 1
        <4>1. i - 1 \in 1..Len(sample_q') /\ sample_q'[i - 1] = n
          BY <1>0, <2>1, <3>0, <3>1, <3>3, QueueTake
        <4>2. 4 * m + 2 = 4 * ((i - 1) - 1) + 4 + 2 /\ 4 * m + 2 \in 1..k /\ 4 * m + 2 # k
          BY <2>2, <2>3, <3>1
        <4>3. WithProc(n, 4 * m + 2)'
          BY <3>1, <4>1, <4>2 DEF WithProc
        <4> QED
          BY <4>2, <4>3
      <3> QED
        BY <3>2, <3>3
    <2> QED
      BY <2>5, <2>6, <2>7 DEF ProcStep
  <1> QED
    BY <1>1, <1>2 DEF WithProc

LEMMA PumpNearsNext ==
    ASSUME TypeOK, [Next]_vars, NEW n PROVE PumpNears(n)
  <1> SUFFICES ASSUME NEW p \in Pumps, NEW k \in Nat, AwaitsPump(n, p, k)
               PROVE  \/ \E j \in 1..k : (j = k => ~PumpStep(p)) /\ AwaitsPump(n, p, j)'
                      \/ Held(n)' \/ Settled(n)'
    BY DEF PumpNears
  <1>0. /\ telemetry_q \in Seq(1..s_seq) /\ Len(telemetry_q) \in Nat
        /\ pump \in [Pumps -> PumpPc]
    BY DEF TypeOK
  <1>1. PICK i \in 1..Len(telemetry_q) :
            telemetry_q[i] = n /\ k = 3 * (i - 1) + ToTake[pump[p]]
    BY DEF AwaitsPump
  <1>2. PICK m \in Nat : i = m + 1
    <2>1. i - 1 \in Nat /\ i = (i - 1) + 1
      BY <1>0
    <2> QED
      BY <2>1
  <1>3. PICK q \in 1..3 : q = ToTake[pump[p]] /\ k = 3 * m + q
    <2>1. pump[p] \in {"recv", "check", "publish"}
      BY <1>0 DEF AwaitsPump, PumpPc
    <2>2. ToTake[pump[p]] \in 1..3
      BY <2>1 DEF ToTake
    <2> QED
      BY <1>1, <1>2, <2>2
  (* What the queue does with the message. *)
  <1>4. ASSUME NEW x \in Pumps, PumpRecv(x)
        PROVE  Held(n)' \/ (i # 1 /\ i - 1 \in 1..Len(telemetry_q') /\ telemetry_q'[i - 1] = n)
    <2>1. telemetry_q # <<>> /\ telemetry_q' = Tail(telemetry_q)
          /\ Content(held'[x]) = {Head(telemetry_q)}
      BY <1>4, PumpRecvEffect
    <2>2. CASE i = 1
      BY <1>0, <1>1, <2>1, <2>2, QueueTake DEF Held, HeldBy, Content
    <2>3. CASE i # 1
      BY <1>0, <1>1, <2>1, <2>3, QueueTake
    <2> QED
      BY <2>2, <2>3
  <1>5. ASSUME ~\E x \in Pumps : PumpRecv(x)
        PROVE  i \in 1..Len(telemetry_q') /\ telemetry_q'[i] = n
    <2>1. CASE telemetry_q' = telemetry_q
      BY <1>1, <2>1
    <2>2. ASSUME NEW x \in 1..s_seq, telemetry_q' = telemetry_q \o <<x>>
          PROVE  i \in 1..Len(telemetry_q') /\ telemetry_q'[i] = n
      BY <1>0, <1>1, <2>2, QueueAdd
    <2> QED
      BY <1>5, <2>1, <2>2, Owners, ProcSendEffect
  <1>6. CASE PumpRecv(p)
    <2>1. pump[p] = "recv" /\ pump'[p] = "check"
      BY <1>0, <1>6 DEF PumpRecv
    <2>2. ASSUME i # 1, i - 1 \in 1..Len(telemetry_q'), telemetry_q'[i - 1] = n
          PROVE  \E j \in 1..k : j # k /\ AwaitsPump(n, p, j)'
      <3>1. q = 1 /\ ToTake[pump'[p]] = 3
        BY <1>3, <2>1 DEF ToTake
      <3>2. 3 * m = 3 * ((i - 1) - 1) + 3 /\ 3 * m \in 1..k /\ 3 * m # k
        BY <1>2, <1>3, <2>2, <3>1
      <3>3. AwaitsPump(n, p, 3 * m)'
        BY <2>1, <2>2, <3>1, <3>2 DEF AwaitsPump
      <3> QED
        BY <3>2, <3>3
    <2> QED
      BY <1>4, <1>6, <2>2
  <1>7. CASE PumpCheck(p) \/ PumpPublish(p)
    <2>1. \/ pump[p] = "check" /\ pump'[p] = "publish"
          \/ pump[p] \in {"check", "publish"} /\ pump'[p] = "recv"
      BY <1>0, <1>7 DEF PumpCheck, PumpPublish
    <2>2. telemetry_q' = telemetry_q
      BY <1>7 DEF PumpCheck, PumpPublish
    <2>3. PICK r \in 1..3 : r = ToTake[pump'[p]] /\ r < q
      BY <1>3, <2>1 DEF ToTake
    <2>4. 3 * m + r = 3 * (i - 1) + r /\ 3 * m + r \in 1..k /\ 3 * m + r # k
      BY <1>2, <1>3, <2>3
    <2>5. AwaitsPump(n, p, 3 * m + r)'
      BY <1>1, <2>1, <2>2, <2>3, <2>4 DEF AwaitsPump
    <2> QED
      BY <2>4, <2>5
  <1>8. CASE ~PumpStep(p)
    <2>1. pump'[p] = pump[p] /\ pump[p] # "none"
      BY <1>8, Owners DEF AwaitsPump
    <2>2. ToTake[pump'[p]] = q
      BY <1>3, <2>1
    <2>3. ASSUME i # 1, i - 1 \in 1..Len(telemetry_q'), telemetry_q'[i - 1] = n
          PROVE  \E j \in 1..k : j # k /\ AwaitsPump(n, p, j)'
      <3>1. PICK l \in Nat : m = l + 1
        <4>1. m - 1 \in Nat /\ m = (m - 1) + 1
          BY <1>0, <1>2, <2>3
        <4> QED
          BY <4>1
      <3>2. 3 * l + q = 3 * ((i - 1) - 1) + q /\ 3 * l + q \in 1..k /\ 3 * l + q # k
        BY <1>2, <1>3, <3>1
      <3>3. AwaitsPump(n, p, 3 * l + q)'
        BY <2>1, <2>2, <2>3, <3>2 DEF AwaitsPump
      <3> QED
        BY <3>2, <3>3
    <2>4. ASSUME i \in 1..Len(telemetry_q'), telemetry_q'[i] = n
          PROVE  k \in 1..k /\ AwaitsPump(n, p, k)'
      <3>1. k = 3 * (i - 1) + q /\ k \in 1..k
        BY <1>2, <1>3
      <3> QED
        BY <2>1, <2>2, <2>4, <3>1 DEF AwaitsPump
    <2> QED
      BY <1>4, <1>5, <1>8, <2>3, <2>4
  <1> QED
    BY <1>6, <1>7, <1>8 DEF PumpStep

LEMMA HandNearsNext ==
    ASSUME TypeOK, [Next]_vars, NEW n PROVE HandNears(n)
  <1> SUFFICES ASSUME NEW q \in Pumps, n \in Content(held[q])
               PROVE  \/ n \in Content(held[q])' /\ pump'[q] = pump[q] /\ ~PumpStep(q)
                      \/ n \in Content(held[q])' /\ pump[q] = "check" /\ pump'[q] = "publish"
                      \/ Settled(n)'
    BY DEF HandNears
  <1>1. held[q] # <<>> /\ pump[q] \in {"check", "publish"} /\ pump \in [Pumps -> PumpPc]
    <2>1. held[q] # <<>>
      BY ContentEmpty
    <2> QED
      BY <2>1 DEF TypeOK
  <1>2. CASE ~PumpStep(q)
    <2>1. held'[q] = held[q] /\ pump'[q] = pump[q]
      BY <1>1, <1>2, Owners
    <2> QED
      BY <1>2, <2>1 DEF Content
  <1>3. CASE PumpCheck(q) \/ PumpPublish(q)
    <2>1. CASE held' = held
      <3>1. pump[q] = "check" /\ pump'[q] = "publish"
        <4>1. CASE PumpCheck(q)
          BY <1>1, <2>1, <4>1 DEF PumpCheck, TypeOK
        <4>2. CASE PumpPublish(q)
          BY <1>1, <2>1, <4>2 DEF PumpPublish, TypeOK
        <4> QED
          BY <1>3, <4>1, <4>2
      <3> QED
        BY <2>1, <3>1 DEF Content
    <2>2. CASE held' # held
      BY <1>3, <2>2, PumpDoneEffect DEF Settled
    <2> QED
      BY <2>1, <2>2
  <1>4. CASE PumpRecv(q)
    BY <1>1, <1>4 DEF PumpRecv
  <1> QED
    BY <1>2, <1>3, <1>4 DEF PumpStep

(* A sample never goes back: whatever reconnects, overflows or is created   *)
(* meanwhile, the step of the task that has it or is to take it brings it   *)
(* nearer, and no step of another task puts it off.                         *)
THEOREM SampleComesNearer == Spec => [][\A n \in Nat \ {0} : SampleNears(n)]_vars
  <1>1. TypeOK /\ [Next]_vars => \A n \in Nat \ {0} : SampleNears(n)
    BY SensorNearsNext, ProcNearsNext, PumpNearsNext, HandNearsNext DEF SampleNears
  <1> QED
    BY <1>1, TypeCorrect, PTL DEF Spec
-----------------------------------------------------------------------------
(* From the rank to EverySampleSettles, place by place. *)

HandRule(n) == CaseRule(Pumps, LAMBDA p : HeldBy(n, p), Settled(n))

PumpRule(n, p) ==
    LatticeRule(LAMBDA k : AwaitsPump(n, p, k), Held(n) \/ Settled(n))

ProcRule(n) ==
    LatticeRule(LAMBDA k : WithProc(n, k), n \in Content(telemetry_q) \/ Settled(n))

Numbered(n, p) == n \in 1..s_seq /\ pump[p] # "none"

StartRule(n) == CaseRule(Pumps, LAMBDA p : Numbered(n, p), Settled(n))

SettleRules(n) ==
    /\ HandRule(n)
    /\ \A p \in Pumps : PumpRule(n, p)
    /\ ProcRule(n)
    /\ StartRule(n)

HandLeads(n, p) == HeldBy(n, p) ~> Settled(n)
PumpDue(n, p) == \E k \in Nat : AwaitsPump(n, p, k)
PumpLeads(n, p) == PumpDue(n, p) ~> (Held(n) \/ Settled(n))
SampleLeads(n, p) == Numbered(n, p) ~> Settled(n)

LEMMA PumpsAreFair == FairSpec => \A p \in Pumps : PumpIsFair(p)
  BY PTL DEF FairSpec, Fairness

(* A pump settles what it has taken. *)
LEMMA HandSettles ==
    ASSUME NEW n, NEW p \in Pumps
    PROVE  FairSpec /\ []TasksCanRun => HandLeads(n, p)
  <1> DEFINE Here(l) == n \in Content(held[p]) /\ pump[p] = l
  <1>1. TypeOK /\ HeldBy(n, p) => Here("check") \/ Here("publish")
    BY ContentEmpty DEF TypeOK, HeldBy
  <1>2. TypeOK /\ [Next]_vars /\ Here("check") =>
            Here("check")' \/ Here("publish")' \/ Settled(n)'
    BY HandNearsNext DEF HandNears
  <1>3. TypeOK /\ [Next]_vars /\ Here("publish") => Here("publish")' \/ Settled(n)'
    BY HandNearsNext DEF HandNears
  <1>4. PumpStep(p) => [Next]_vars
    BY DEF Next
  <1>5. TypeOK /\ <<PumpStep(p)>>_vars /\ Here("check") => Here("publish")' \/ Settled(n)'
    BY <1>4, HandNearsNext DEF HandNears
  <1>6. TypeOK /\ <<PumpStep(p)>>_vars /\ Here("publish") => Settled(n)'
    BY <1>4, HandNearsNext DEF HandNears
  <1>7. TasksCanRun /\ (Here("check") \/ Here("publish")) =>
            Settled(n) \/ ENABLED <<PumpStep(p)>>_vars
    <2>1. TasksCanRun => halted \/ PumpCanRun(p)
      BY DEF TasksCanRun
    <2> QED
      BY <2>1 DEF PumpCanRun, Settled
  <1>8. FairSpec => PumpIsFair(p)
    BY PumpsAreFair
  <1> HIDE DEF Here
  <1> QED
    BY <1>1, <1>2, <1>3, <1>5, <1>6, <1>7, <1>8, TypeCorrect, PTL
    DEF FairSpec, Spec, PumpIsFair, HandLeads

LEMMA PumpOneNearer ==
    ASSUME NEW n, NEW p \in Pumps, NEW k \in Nat
    PROVE  FairSpec /\ []TasksCanRun =>
               (AwaitsPump(n, p, k) ~>
                   ((Held(n) \/ Settled(n)) \/ \E j \in 1..k - 1 : AwaitsPump(n, p, j)))
  <1> DEFINE Goal == Held(n) \/ Settled(n) \/ \E j \in 1..k - 1 : AwaitsPump(n, p, j)
  <1>1. TypeOK /\ [Next]_vars /\ AwaitsPump(n, p, k) => AwaitsPump(n, p, k)' \/ Goal'
    <2> SUFFICES ASSUME TypeOK, [Next]_vars, AwaitsPump(n, p, k)
                 PROVE  AwaitsPump(n, p, k)' \/ Goal'
      OBVIOUS
    <2>1. ASSUME NEW j \in 1..k, AwaitsPump(n, p, j)'
          PROVE  AwaitsPump(n, p, k)' \/ Goal'
      BY <2>1
    <2> QED
      BY <2>1, PumpNearsNext DEF PumpNears
  <1>2. TypeOK /\ <<PumpStep(p)>>_vars /\ AwaitsPump(n, p, k) => Goal'
    <2> SUFFICES ASSUME TypeOK, PumpStep(p), AwaitsPump(n, p, k) PROVE Goal'
      OBVIOUS
    <2>1. ASSUME NEW j \in 1..k, j # k, AwaitsPump(n, p, j)' PROVE Goal'
      BY <2>1
    <2>2. [Next]_vars
      BY DEF Next
    <2> QED
      BY <2>1, <2>2, PumpNearsNext DEF PumpNears
  <1>3. TypeOK /\ TasksCanRun /\ AwaitsPump(n, p, k) =>
            Goal \/ ENABLED <<PumpStep(p)>>_vars
    <2>1. TypeOK /\ AwaitsPump(n, p, k) =>
              pump[p] \in {"check", "publish"} \/ (pump[p] = "recv" /\ telemetry_q # <<>>)
      BY DEF TypeOK, PumpPc, AwaitsPump
    <2>2. TasksCanRun => halted \/ PumpCanRun(p)
      BY DEF TasksCanRun
    <2> QED
      BY <2>1, <2>2 DEF PumpCanRun, Settled
  <1>4. FairSpec => PumpIsFair(p)
    BY PumpsAreFair
  <1> QED
    BY <1>1, <1>2, <1>3, <1>4, TypeCorrect, PTL DEF FairSpec, Spec, PumpIsFair

LEMMA ProcOneNearer ==
    ASSUME NEW n, NEW k \in Nat
    PROVE  FairSpec /\ []TasksCanRun =>
               (WithProc(n, k) ~>
                   ((n \in Content(telemetry_q) \/ Settled(n))
                    \/ \E j \in 1..k - 1 : WithProc(n, j)))
  <1> DEFINE Goal == \/ n \in Content(telemetry_q) \/ Settled(n)
                     \/ \E j \in 1..k - 1 : WithProc(n, j)
  <1>1. TypeOK /\ [Next]_vars /\ WithProc(n, k) => WithProc(n, k)' \/ Goal'
    <2> SUFFICES ASSUME TypeOK, [Next]_vars, WithProc(n, k)
                 PROVE  WithProc(n, k)' \/ Goal'
      OBVIOUS
    <2>1. ASSUME NEW j \in 1..k, WithProc(n, j)' PROVE WithProc(n, k)' \/ Goal'
      BY <2>1
    <2> QED
      BY <2>1, ProcNearsNext DEF ProcNears
  <1>2. TypeOK /\ <<ProcStep>>_vars /\ WithProc(n, k) => Goal'
    <2> SUFFICES ASSUME TypeOK, ProcStep, WithProc(n, k) PROVE Goal'
      OBVIOUS
    <2>1. ASSUME NEW j \in 1..k, j # k, WithProc(n, j)' PROVE Goal'
      BY <2>1
    <2>2. [Next]_vars
      BY DEF Next
    <2> QED
      BY <2>1, <2>2, ProcNearsNext DEF ProcNears
  <1>3. TasksCanRun => Goal \/ ENABLED <<ProcStep>>_vars
    BY DEF TasksCanRun, Settled
  <1> QED
    BY <1>1, <1>2, <1>3, TypeCorrect, PTL DEF FairSpec, Fairness, Spec

(* A sample in sample_q or telemetry_q has a rank. *)
LEMMA RankExists ==
    ASSUME TypeOK, NEW n
    PROVE  /\ n \in Content(sample_q) \cup Content(out) => \E k \in Nat : WithProc(n, k)
           /\ \A p \in Pumps : pump[p] # "none" /\ n \in Content(telemetry_q) =>
                  \E k \in Nat : AwaitsPump(n, p, k)
  <1>1. Len(sample_q) \in Nat /\ Len(telemetry_q) \in Nat
    BY DEF TypeOK
  <1>2. ASSUME n \in Content(out) PROVE \E k \in Nat : WithProc(n, k)
    BY <1>2 DEF WithProc
  <1>3. ASSUME n \in Content(sample_q) PROVE \E k \in Nat : WithProc(n, k)
    <2>1. PICK i \in 1..Len(sample_q) : sample_q[i] = n
      BY <1>3 DEF Content
    <2>2. ToRecv[proc] \in 1..4
      BY DEF TypeOK, ProcPc, ToRecv
    <2>3. 4 * (i - 1) + ToRecv[proc] + 2 \in Nat
      BY <1>1, <2>2
    <2> QED
      BY <2>1, <2>3 DEF WithProc
  <1>4. ASSUME NEW p \in Pumps, pump[p] # "none", n \in Content(telemetry_q)
        PROVE  \E k \in Nat : AwaitsPump(n, p, k)
    <2>1. PICK i \in 1..Len(telemetry_q) : telemetry_q[i] = n
      BY <1>4 DEF Content
    <2>2. ToTake[pump[p]] \in 1..3
      BY <1>4 DEF TypeOK, PumpPc, ToTake
    <2>3. 3 * (i - 1) + ToTake[pump[p]] \in Nat
      BY <1>1, <2>2
    <2> QED
      BY <1>4, <2>1, <2>3 DEF AwaitsPump
  <1> QED
    BY <1>2, <1>3, <1>4

(* From each place to the next. *)
LEMMA FromHand ==
    ASSUME NEW n
    PROVE  FairSpec /\ []TasksCanRun /\ HandRule(n) => (Held(n) ~> Settled(n))
  <1>1. FairSpec /\ []TasksCanRun => \A p \in Pumps : HandLeads(n, p)
    BY HandSettles
  <1> QED
    BY <1>1, PTL DEF HandLeads, HandRule, CaseRule, Held

LEMMA FromPump ==
    ASSUME NEW n, NEW p \in Pumps
    PROVE  FairSpec /\ []TasksCanRun /\ PumpRule(n, p) => PumpLeads(n, p)
  <1>1. FairSpec /\ []TasksCanRun =>
            \A k \in Nat :
                AwaitsPump(n, p, k) ~>
                    ((Held(n) \/ Settled(n)) \/ \E j \in 1..k - 1 : AwaitsPump(n, p, j))
    BY PumpOneNearer
  <1> QED
    BY <1>1, PTL DEF PumpLeads, PumpRule, LatticeRule, PumpDue

LEMMA FromProc ==
    ASSUME NEW n
    PROVE  FairSpec /\ []TasksCanRun /\ ProcRule(n) =>
               ((\E k \in Nat : WithProc(n, k)) ~> (n \in Content(telemetry_q) \/ Settled(n)))
  <1>1. FairSpec /\ []TasksCanRun =>
            \A k \in Nat :
                WithProc(n, k) ~>
                    ((n \in Content(telemetry_q) \/ Settled(n))
                     \/ \E j \in 1..k - 1 : WithProc(n, j))
    BY ProcOneNearer
  <1> QED
    BY <1>1, PTL DEF ProcRule, LatticeRule

LEMMA FromSensor ==
    ASSUME NEW n
    PROVE  FairSpec /\ []TasksCanRun =>
               (n \in Content(msg) ~> (n \in Content(sample_q) \/ Settled(n)))
  <1> DEFINE Goal == n \in Content(sample_q) \/ Settled(n)
  <1>1. TypeOK /\ [Next]_vars /\ n \in Content(msg) => (n \in Content(msg))' \/ Goal'
    BY SensorNearsNext DEF SensorNears
  <1>2. TypeOK /\ <<SensorStep>>_vars /\ n \in Content(msg) => Goal'
    <2>1. SensorStep => [Next]_vars
      BY DEF Next
    <2> QED
      BY <2>1, SensorNearsNext DEF SensorNears
  <1>3. TypeOK /\ TasksCanRun /\ n \in Content(msg) => Goal \/ ENABLED <<SensorStep>>_vars
    <2>1. TypeOK /\ n \in Content(msg) => sensor = "send"
      BY ContentEmpty DEF TypeOK
    <2> QED
      BY <2>1 DEF TasksCanRun, Settled
  <1> QED
    BY <1>1, <1>2, <1>3, TypeCorrect, PTL DEF FairSpec, Fairness, Spec

(* With pump p created, every sample settles. *)
LEMMA SettlesWith ==
    ASSUME NEW n, NEW q \in Pumps
    PROVE  FairSpec /\ []TasksCanRun /\ HandRule(n) /\ PumpRule(n, q) /\ ProcRule(n) =>
               SampleLeads(n, q)
  <1> DEFINE On == pump[q] # "none"
             Mine == \E k \in Nat : WithProc(n, k)
  <1>1. TypeOK /\ [Next]_vars /\ On => On'
    <2>1. TypeOK /\ [Next]_vars /\ On /\ ~PumpStep(q) => On'
      BY Owners
    <2>2. TypeOK /\ PumpStep(q) => On'
      BY DEF TypeOK, PumpStep, PumpRecv, PumpCheck, PumpPublish
    <2> QED
      BY <2>1, <2>2
  <1>2. TypeOK /\ On /\ n \in Content(telemetry_q) => PumpDue(n, q)
    BY RankExists DEF PumpDue
  <1>3. TypeOK /\ n \in Content(sample_q) => Mine
    BY RankExists
  <1>4. TypeOK /\ Accounted /\ n \in 1..s_seq =>
            \/ Settled(n) \/ Held(n) \/ n \in Content(telemetry_q)
            \/ n \in Content(msg) \/ Mine
    <2> SUFFICES ASSUME TypeOK, Accounted, n \in 1..s_seq
                 PROVE  \/ Settled(n) \/ Held(n) \/ n \in Content(telemetry_q)
                        \/ n \in Content(msg) \/ Mine
      OBVIOUS
    <2>1. n \in InFlight \cup Content(published) \cup lost
      BY DEF Accounted
    <2>2. n \in AtHand => Held(n)
      BY DEF AtHand, Holding, Held, HeldBy
    <2> QED
      BY <2>1, <2>2, RankExists DEF InFlight, Settled
  <1>5. FairSpec /\ []TasksCanRun /\ HandRule(n) => (Held(n) ~> Settled(n))
    BY FromHand
  <1>6. FairSpec /\ []TasksCanRun /\ PumpRule(n, q) => PumpLeads(n, q)
    BY FromPump
  <1>7. FairSpec /\ []TasksCanRun /\ ProcRule(n) =>
            (Mine ~> (n \in Content(telemetry_q) \/ Settled(n)))
    BY FromProc
  <1>8. FairSpec /\ []TasksCanRun =>
            (n \in Content(msg) ~> (n \in Content(sample_q) \/ Settled(n)))
    BY FromSensor
  <1>9. Numbered(n, q) => n \in 1..s_seq /\ On
    BY DEF Numbered
  <1> HIDE DEF On, Mine
  <1> QED
    BY <1>1, <1>2, <1>3, <1>4, <1>5, <1>6, <1>7, <1>8, <1>9,
       TypeCorrect, AccountedAlways, PTL
    DEF FairSpec, Spec, PumpLeads, SampleLeads

(* Nothing is stuck: whatever the number of pumps and the lengths of the    *)
(* queues, a sample is published, lost or ended with the firmware once a    *)
(* pump runs.  The hypotheses are the invariant about ENABLED that TLC      *)
(* checks, and instances of the rules of LeadsToRules, truths of logic.     *)
THEOREM EverySampleSettlesByRank ==
    FairSpec /\ []TasksCanRun /\ (\A n \in Nat \ {0} : SettleRules(n)) => EverySampleSettles
  <1>1. ASSUME NEW n \in Nat \ {0}
        PROVE  FairSpec /\ []TasksCanRun /\ SettleRules(n) =>
                   ((n <= s_seq /\ Started # {}) ~> Settled(n))
    <2>1. FairSpec /\ []TasksCanRun /\ SettleRules(n) =>
              \A p \in Pumps : SampleLeads(n, p)
      BY SettlesWith DEF SettleRules
    <2>2. FairSpec /\ []TasksCanRun /\ SettleRules(n) =>
              ((\E p \in Pumps : Numbered(n, p)) ~> Settled(n))
      BY <2>1, PTL DEF SettleRules, StartRule, CaseRule, SampleLeads
    <2>3. TypeOK /\ n <= s_seq /\ Started # {} =>
              \E p \in Pumps : Numbered(n, p)
      BY DEF TypeOK, Started, Numbered
    <2> QED
      BY <2>2, <2>3, TypeCorrect, PTL DEF FairSpec
  <1>2. 1..MaxSeq \subseteq Nat \ {0}
    BY MaxSeqAssumption
  <1> SUFFICES ASSUME FairSpec, []TasksCanRun, \A n \in Nat \ {0} : SettleRules(n),
                      NEW n \in 1..MaxSeq
               PROVE  (n <= s_seq /\ Started # {}) ~> Settled(n)
    BY DEF EverySampleSettles, Settled
  <1> QED
    BY <1>1, <1>2
=============================================================================
