--------------------------- MODULE Commands_proofs ---------------------------
(***************************************************************************)
(* Proofs about the command path, for every length of the buffer, of a     *)
(* fragment and of command_q, for both ways the profile's handler goes on. *)
(***************************************************************************)
EXTENDS Commands, LeadsToRules, SequenceTheorems, TLAPS

-----------------------------------------------------------------------------
(* Types *)

(* What Post adds is a command, and the queue keeps its length. *)
LEMMA PostType ==
    ASSUME TypeOK, NEW o \in Opcode, NEW k \in Kind, NEW n \in Nat, NEW p \in Seq(Piece),
           Post(o, k, n, p)
    PROVE  /\ command_q' \in Seq(Command) /\ Len(command_q') <= CommandCap
           /\ sent' \in Nat
           /\ dropped' \in SUBSET [id : 1..sent', opcode : Opcode]
           /\ \A i \in 1..sent : i \in 1..sent'
           /\ sent + 1 \in 1..sent'
  <1> DEFINE c == [id |-> sent + 1, opcode |-> o, kind |-> k, payload_len |-> n, payload |-> p]
  <1>1. sent \in Nat /\ sent' = sent + 1
    BY DEF TypeOK, Post
  <1>2. c \in Command
    BY <1>1 DEF Command
  <1>3. (\A i \in 1..sent : i \in 1..sent') /\ sent + 1 \in 1..sent'
    BY <1>1
  <1>4. dropped \in SUBSET [id : 1..sent', opcode : Opcode]
    BY <1>3 DEF TypeOK
  <1>5. CASE Len(command_q) < CommandCap /\ command_q' = Append(command_q, c) /\ dropped' = dropped
    <2>1. command_q \in Seq(Command) /\ CommandCap \in Nat
      BY CommandCapAssumption DEF TypeOK
    <2>2. command_q' \in Seq(Command) /\ Len(command_q') = Len(command_q) + 1
      BY <1>2, <1>5, <2>1, AppendProperties
    <2>3. Len(command_q) \in Nat
      BY <2>1
    <2> QED
      BY <1>1, <1>3, <1>4, <1>5, <2>1, <2>2, <2>3
  <1>6. CASE dropped' = dropped \cup {[id |-> sent + 1, opcode |-> o]} /\ command_q' = command_q
    <2>1. [id |-> sent + 1, opcode |-> o] \in [id : 1..sent', opcode : Opcode]
      BY <1>3
    <2> QED
      BY <1>1, <1>3, <1>4, <1>6, <2>1 DEF TypeOK
  <1> QED
    BY <1>5, <1>6 DEF Post

(* The buffer with one more fragment. *)
LEMMA FilledType ==
    ASSUME TypeOK, NEW f \in Fragment
    PROVE  /\ Filled(f) \in Seq(Piece)
           /\ Len(Filled(f)) = Len(s_provision_buf) + 1
           /\ Filled(f) # <<>>
           /\ \A i \in 1..Len(s_provision_buf) : Filled(f)[i] = s_provision_buf[i]
           /\ Last(Filled(f)) = [len |-> f.len, open |-> f.open, close |-> f.close,
                                 at |-> s_provision_len, write |-> writes + 1]
  <1> DEFINE c == [len |-> f.len, open |-> f.open, close |-> f.close,
                   at |-> s_provision_len, write |-> writes + 1]
  <1>1. s_provision_len \in Nat /\ writes \in Nat /\ s_provision_buf \in Seq(Piece)
    BY BufLenAssumption DEF TypeOK
  <1>2. c \in Piece
    BY <1>1 DEF Piece, Fragment
  <1>3. Filled(f) = Append(s_provision_buf, c)
    BY DEF Filled
  <1> HIDE DEF c
  <1>4. /\ Filled(f) \in Seq(Piece)
        /\ Len(Filled(f)) = Len(s_provision_buf) + 1
        /\ \A i \in 1..Len(s_provision_buf) : Filled(f)[i] = s_provision_buf[i]
        /\ Filled(f)[Len(s_provision_buf) + 1] = c
    BY <1>1, <1>2, <1>3, AppendProperties
  <1>5. Filled(f) # <<>> /\ Last(Filled(f)) = c
    BY <1>1, <1>4 DEF Last
  <1> QED
    BY <1>4, <1>5 DEF c

(* A 16-bit number is its own remainder. *)
LEMMA Unwrapped ==
    ASSUME NEW n \in Int, 0 <= n, n < 65536
    PROVE  n % 65536 = n
  BY SMT

(* A fragment that fits leaves room for the terminator. *)
LEMMA RoomBound ==
    ASSUME TypeOK, NEW f \in Fragment, f.len <= Room
    PROVE  s_provision_len + f.len \in 0..BufLen - 1
  <1>1. s_provision_len \in 0..BufLen - 1
    BY DEF TypeOK
  <1>2. f.len \in Nat
    BY MaxFragmentAssumption DEF Fragment
  <1>3. BufLen \in Nat /\ 1 <= BufLen /\ BufLen < 65536
    BY BufLenAssumption
  <1>4. Room = BufLen - 1 - s_provision_len
    <2> DEFINE n == BufLen - 1 - s_provision_len
    <2>1. n \in Int /\ 0 <= n /\ n < 65536
      BY <1>1, <1>3
    <2> HIDE DEF n
    <2>2. n % 65536 = n
      BY <2>1, Unwrapped
    <2> QED
      BY <2>2 DEF Room, n
  <1> QED
    BY <1>1, <1>2, <1>3, <1>4

LEMMA TypeInit == Init => TypeOK
  <1> SUFFICES ASSUME Init PROVE TypeOK
    OBVIOUS
  <1>1. s_provision_len \in 0..BufLen - 1
    BY BufLenAssumption DEF Init
  <1>2. Len(<<>>) = 0 /\ CommandCap \in Nat /\ 0 <= CommandCap
    BY CommandCapAssumption
  <1>3. /\ s_provision_buf \in Seq(Piece) /\ command_q \in Seq(Command) /\ cmd \in Seq(Command)
        /\ executed \in Seq([id : Nat \ {0}, by : Outcome])
    BY DEF Init
  <1>4. dropped \in SUBSET [id : 1..sent, opcode : Opcode] /\ refused \in SUBSET (1..sent)
    BY DEF Init
  <1>5. Len(command_q) <= CommandCap /\ Len(cmd) <= 1 /\ (cmd = <<>> <=> at = "recv")
    BY <1>2 DEF Init
  <1>6. writes \in Nat /\ sent \in Nat
    BY DEF Init
  <1>7. booting \in BOOLEAN /\ adv_failed \in BOOLEAN /\ s_connected \in BOOLEAN
        /\ halted \in BOOLEAN /\ dispatching \in BOOLEAN
    BY DEF Init
  <1>8. /\ radio \in {"off", "advertising", "connected", "silent"}
        /\ s_state \in {"IDLE", "ADVERTISING", "CONNECTED"}
        /\ at \in Place
    BY DEF Init, Place
  <1> QED
    BY <1>1, <1>3, <1>4, <1>5, <1>6, <1>7, <1>8 DEF TypeOK

(* A write of FF01 and its answer. *)
LEMMA ConfigWriteType ==
    ASSUME TypeOK, NEW f \in Fragment, ConfigWrite(f) PROVE TypeOK'
  <1>1. writes' \in Nat
    BY DEF TypeOK, ConfigWrite, ConfigRejected, ConfigBadStart, ConfigPart, ConfigWhole,
           Fits, Written
  <1>2. 0 \in 0..BufLen - 1 /\ <<>> \in Seq(Piece)
    BY BufLenAssumption
  <1>3. CASE ConfigRejected(f)
    BY <1>1, <1>2, <1>3 DEF TypeOK, ConfigRejected, ResetBuffer, gapVars, queueVars, taskVars
  <1>4. CASE ConfigBadStart(f)
    BY <1>1, <1>2, <1>4 DEF TypeOK, ConfigBadStart, ResetBuffer, gapVars, queueVars, taskVars
  <1>5. CASE ConfigPart(f)
    <2>1. s_provision_buf' \in Seq(Piece) /\ s_provision_len' \in 0..BufLen - 1
      BY <1>5, FilledType, RoomBound DEF ConfigPart, Fits
    <2> QED
      BY <1>1, <1>5, <2>1 DEF TypeOK, ConfigPart, gapVars, queueVars, taskVars
  <1>6. CASE ConfigWhole(f)
    <2>1. s_provision_buf' = <<>> /\ s_provision_len' = 0
      BY <1>6 DEF ConfigWhole, ResetBuffer
    <2>2. /\ command_q' \in Seq(Command) /\ Len(command_q') <= CommandCap
          /\ sent' \in Nat
          /\ dropped' \in SUBSET [id : 1..sent', opcode : Opcode]
          /\ \A i \in 1..sent : i \in 1..sent'
          /\ sent + 1 \in 1..sent'
      <3>1. s_provision_len + f.len \in Nat
        BY <1>6, RoomBound DEF ConfigWhole, Fits
      <3>2. Post("FF01", "provision", s_provision_len + f.len, Filled(f))
        BY <1>6 DEF ConfigWhole
      <3>3. "FF01" \in Opcode /\ "provision" \in Kind
        BY DEF Opcode, Kind
      <3> QED
        BY <3>1, <3>2, <3>3, FilledType, PostType
    <2>3. refused' \in SUBSET (1..sent')
      BY <1>6, <2>2 DEF TypeOK, ConfigWhole
    <2> QED
      BY <1>1, <1>2, <1>6, <2>1, <2>2, <2>3 DEF TypeOK, ConfigWhole, gapVars, taskVars
  <1> QED
    BY <1>3, <1>4, <1>5, <1>6 DEF ConfigWrite

(* The other two senders. *)
LEMMA ControlType ==
    ASSUME TypeOK, ControlWrite \/ MqttData PROVE TypeOK'
  <1>1. /\ \E o \in Opcode, k \in Kind : Post(o, k, 0, <<>>)
        /\ UNCHANGED <<gapVars, bufVars, refused, taskVars>>
    BY DEF ControlWrite, MqttData, Opcode
  <1>2. PICK o \in Opcode, k \in Kind : Post(o, k, 0, <<>>)
    BY <1>1
  <1>3. /\ command_q' \in Seq(Command) /\ Len(command_q') <= CommandCap
        /\ sent' \in Nat
        /\ dropped' \in SUBSET [id : 1..sent', opcode : Opcode]
        /\ \A i \in 1..sent : i \in 1..sent'
    <2>1. 0 \in Nat /\ <<>> \in Seq(Piece)
      OBVIOUS
    <2> QED
      BY <1>2, <2>1, PostType
  <1> QED
    BY <1>1, <1>3 DEF TypeOK, gapVars, bufVars, taskVars

(* A sequence of at most one element. *)
LEMMA SlotOf ==
    ASSUME NEW S, NEW s \in Seq(S), Len(s) <= 1, s # <<>>
    PROVE  Len(s) = 1 /\ s[1] \in S /\ s = <<s[1]>>
  <1>1. Len(s) = 1
    <2>1. Len(s) \in Nat \ {0}
      BY EmptySeq
    <2> QED
      BY <2>1
  <1>2. s[1] \in S
    BY <1>1
  <1>3. <<s[1]>> \in Seq(S) /\ Len(<<s[1]>>) = 1 /\ <<s[1]>>[1] = s[1]
    BY <1>2
  <1> QED
    BY <1>1, <1>2, <1>3, SeqEqual

(* A command that is done with. *)
LEMMA FinishType ==
    ASSUME TypeOK, at # "recv",
           NEW b \in Outcome, Finish(b)
    PROVE  /\ cmd # <<>> /\ Len(cmd) = 1 /\ cmd[1] \in Command
           /\ executed' \in Seq([id : Nat \ {0}, by : Outcome])
           /\ at' = "recv" /\ cmd' = <<>> /\ halted' = halted /\ dispatching' = dispatching
  <1>1. cmd \in Seq(Command) /\ Len(cmd) <= 1 /\ cmd # <<>>
    BY DEF TypeOK
  <1>2. Len(cmd) = 1 /\ cmd[1] \in Command
    BY <1>1, SlotOf
  <1>3. [id |-> cmd[1].id, by |-> b]
            \in [id : Nat \ {0}, by : Outcome]
    BY <1>2 DEF Command
  <1> QED
    BY <1>1, <1>2, <1>3, AppendProperties DEF TypeOK, Finish

LEMMA CmdStepType ==
    ASSUME TypeOK, CmdStep PROVE TypeOK'
  <1> USE DEF TypeOK, gapVars, bufVars, queueVars, Place
  <1>1. CASE CmdRecv
    <2>1. Head(command_q) \in Command /\ Tail(command_q) \in Seq(Command)
          /\ Len(Tail(command_q)) = Len(command_q) - 1
      BY <1>1, HeadTailProperties DEF CmdRecv
    <2>2. <<Head(command_q)>> \in Seq(Command) /\ Len(<<Head(command_q)>>) = 1
          /\ <<Head(command_q)>> # <<>>
      BY <2>1
    <2>3. Len(Tail(command_q)) <= CommandCap
      BY <2>1, CommandCapAssumption
    <2> QED
      BY <1>1, <2>1, <2>2, <2>3 DEF CmdRecv
  <1>2. CASE at # "recv" /\ UNCHANGED <<gapVars, bufVars, queueVars>>
             /\ \E b \in Outcome : Finish(b)
    <2>1. PICK b \in Outcome : Finish(b)
      BY <1>2
    <2>2. /\ executed' \in Seq([id : Nat \ {0}, by : Outcome])
          /\ at' = "recv" /\ cmd' = <<>> /\ halted' = halted /\ dispatching' = dispatching
      BY <1>2, <2>1, FinishType
    <2>3. cmd' \in Seq(Command) /\ Len(cmd') <= 1
      BY <2>2
    <2> QED
      BY <1>2, <2>2, <2>3
  <1>3. CASE at # "recv" /\ UNCHANGED <<gapVars, bufVars, queueVars>>
             /\ \E l \in Place \ {"recv"} : Goto(l)
    BY <1>3 DEF Goto
  <1>4. CASE UNCHANGED <<gapVars, bufVars, queueVars>> /\ Halt
    BY <1>4 DEF Halt
  <1> QED
    BY <1>1, <1>2, <1>3, <1>4 DEF CmdStep, CmdHook, CmdProfile, CmdServices, CmdProvision, Outcome

LEMMA TypeNext == TypeOK /\ [Next]_vars => TypeOK'
  <1> SUFFICES ASSUME TypeOK, [Next]_vars PROVE TypeOK'
    OBVIOUS
  <1>1. CASE GapStep
    BY <1>1 DEF TypeOK, GapStep, BleInitReturns, OnSync, GapConnect, GapConnectFails,
                GapDisconnect, StartAdvertising, bufVars, queueVars, taskVars
  <1>2. CASE UNCHANGED vars
    BY <1>2 DEF TypeOK, vars, gapVars, bufVars, queueVars, taskVars
  <1> QED
    BY <1>1, <1>2, ConfigWriteType, ControlType, CmdStepType DEF Next

(* Every variable keeps its type, the accumulated length leaves room for    *)
(* the terminator and command_q keeps its length.                           *)
THEOREM TypeCorrect == Spec => []TypeOK
  BY TypeInit, TypeNext, PTL DEF Spec

-----------------------------------------------------------------------------
(* What a step does to the commands that wait *)

(* The callbacks that send nothing, and the inside of a handler. *)
Keeps ==
    /\ Waiting' = Waiting
    /\ UNCHANGED <<sent, dropped, refused, executed>>

(* Command c is sent, and taken by the queue or dropped from a full one. *)
Sends(c) ==
    /\ c.id = sent + 1
    /\ c.opcode = "FF01" => c.kind = "provision"
    /\ sent' = sent + 1
    /\ executed' = executed
    /\ \/ /\ Len(Waiting) <= CommandCap
          /\ Waiting' = Append(Waiting, c) /\ UNCHANGED <<dropped, refused>>
       \/ /\ Len(Waiting) >= CommandCap
          /\ Waiting' = Waiting
          /\ dropped' = dropped \cup {[id |-> c.id, opcode |-> c.opcode]}
          /\ refused' = IF c.opcode = "FF01" THEN refused \cup {c.id} ELSE refused

(* The first one is done with. *)
Handles ==
    /\ Waiting # <<>>
    /\ Waiting' = Tail(Waiting)
    /\ \E b \in Outcome : executed' = Append(executed, [id |-> Waiting[1].id, by |-> b])
    /\ UNCHANGED <<sent, dropped, refused>>

LEMMA WaitingType == ASSUME TypeOK PROVE Waiting \in Seq(Command)
  BY ConcatProperties DEF TypeOK, Waiting

LEMMA PostSends ==
    ASSUME TypeOK, NEW o \in Opcode, NEW k \in Kind, NEW n \in Nat, NEW p \in Seq(Piece),
           Post(o, k, n, p), UNCHANGED taskVars, o = "FF01" => k = "provision",
           refused' = IF o = "FF01" /\ Len(command_q) = CommandCap
                      THEN refused \cup {sent + 1} ELSE refused
    PROVE  \E c \in Command : /\ Sends(c)
                              /\ c.opcode = o /\ c.payload_len = n /\ c.payload = p
  <1> DEFINE c == [id |-> sent + 1, opcode |-> o, kind |-> k, payload_len |-> n, payload |-> p]
  <1>1. sent \in Nat /\ sent' = sent + 1 /\ executed' = executed /\ cmd' = cmd
    BY DEF TypeOK, Post, taskVars
  <1>2. c \in Command
    BY <1>1 DEF Command
  <1>3. c.id = sent + 1 /\ c.opcode = o /\ c.kind = k /\ c.payload_len = n /\ c.payload = p
    OBVIOUS
  <1>4. /\ command_q \in Seq(Command) /\ cmd \in Seq(Command)
        /\ Len(command_q) \in Nat /\ CommandCap \in Nat
    BY CommandCapAssumption DEF TypeOK
  <1>5. /\ Len(command_q) < CommandCap => Len(Waiting) <= CommandCap
        /\ Len(command_q) = CommandCap => Len(Waiting) >= CommandCap
    <2>1. Len(cmd) \in Nat /\ Len(cmd) <= 1
      BY <1>4 DEF TypeOK
    <2>2. Len(Waiting) = Len(cmd) + Len(command_q)
      BY <1>4, ConcatProperties DEF Waiting
    <2>3. ASSUME NEW m \in Nat, m <= 1, NEW q \in Nat, NEW w, w = m + q
          PROVE  /\ q < CommandCap => w <= CommandCap
                 /\ q = CommandCap => w >= CommandCap
      BY <1>4, <2>3
    <2> QED
      BY <1>4, <2>1, <2>2, <2>3
  <1> HIDE DEF c
  <1>6. CASE Len(command_q) < CommandCap /\ command_q' = Append(command_q, c) /\ dropped' = dropped
    <2>1. refused' = refused
      BY <1>4, <1>6
    <2>2. cmd \o Append(command_q, c) = Append(cmd \o command_q, c)
      BY <1>2, <1>4
    <2>3. Waiting' = Append(Waiting, c)
      BY <1>1, <1>6, <2>2 DEF Waiting
    <2>4. Len(Waiting) <= CommandCap
      BY <1>5, <1>6
    <2>5. Sends(c)
      BY <1>1, <1>3, <1>6, <2>1, <2>3, <2>4 DEF Sends
    <2> QED
      BY <1>2, <1>3, <2>5
  <1>7. CASE /\ Len(command_q) = CommandCap
             /\ dropped' = dropped \cup {[id |-> sent + 1, opcode |-> o]}
             /\ command_q' = command_q
    <2>1. Waiting' = Waiting
      BY <1>1, <1>7 DEF Waiting
    <2>2. refused' = IF o = "FF01" THEN refused \cup {sent + 1} ELSE refused
      BY <1>7
    <2>3. Len(Waiting) >= CommandCap
      BY <1>5, <1>7
    <2>4. Sends(c)
      BY <1>1, <1>3, <1>7, <2>1, <2>2, <2>3 DEF Sends
    <2> QED
      BY <1>2, <1>3, <2>4
  <1> QED
    BY <1>6, <1>7 DEF Post, c

(* A complete JSON is sent with what is in the buffer. *)
LEMMA ConfigWholeSends ==
    ASSUME TypeOK, NEW f \in Fragment, ConfigWhole(f)
    PROVE  \E c \in Command : /\ Sends(c)
                              /\ c.opcode = "FF01"
                              /\ c.payload_len = s_provision_len + f.len
                              /\ c.payload = Filled(f)
  <1>1. s_provision_len + f.len \in Nat
    BY RoomBound DEF ConfigWhole, Fits
  <1>2. /\ Post("FF01", "provision", s_provision_len + f.len, Filled(f))
        /\ refused' = IF Len(command_q) = CommandCap THEN refused \cup {sent + 1} ELSE refused
        /\ UNCHANGED taskVars
    BY DEF ConfigWhole
  <1>3. "FF01" \in Opcode /\ "provision" \in Kind /\ Filled(f) \in Seq(Piece)
    BY FilledType DEF Opcode, Kind
  <1> QED
    BY <1>1, <1>2, <1>3, PostSends

(* The other senders do not touch the buffer, nor tell of a full queue. *)
LEMMA ControlSends ==
    ASSUME TypeOK, ControlWrite \/ MqttData
    PROVE  /\ UNCHANGED bufVars
           /\ \E c \in Command : Sends(c) /\ c.opcode # "FF01"
  <1>1. /\ \E o \in {"FF03", "MQ"}, k \in Kind : Post(o, k, 0, <<>>)
        /\ refused' = refused
        /\ UNCHANGED bufVars
        /\ UNCHANGED taskVars
    BY DEF ControlWrite, MqttData
  <1>2. 0 \in Nat /\ <<>> \in Seq(Piece)
    OBVIOUS
  <1>3. PICK o \in {"FF03", "MQ"}, k \in Kind, n \in Nat, p \in Seq(Piece) : Post(o, k, n, p)
    BY <1>1, <1>2
  <1>4. o \in Opcode /\ o # "FF01"
    BY DEF Opcode
  <1>5. refused' = IF o = "FF01" /\ Len(command_q) = CommandCap
                   THEN refused \cup {sent + 1} ELSE refused
    BY <1>1, <1>4
  <1>6. UNCHANGED taskVars
    BY <1>1
  <1>7. \E c \in Command : /\ Sends(c)
                           /\ c.opcode = o /\ c.payload_len = n /\ c.payload = p
    BY <1>3, <1>4, <1>5, <1>6, PostSends
  <1> QED
    BY <1>1, <1>4, <1>7

LEMMA CmdStepWaiting ==
    ASSUME TypeOK, CmdStep
    PROVE  (Keeps \/ Handles) /\ UNCHANGED bufVars
  <1>0. cmd \in Seq(Command) /\ command_q \in Seq(Command) /\ Len(cmd) <= 1
    BY DEF TypeOK
  <1>1. CASE CmdRecv
    <2>1. cmd = <<>> /\ command_q # <<>>
      BY <1>1 DEF TypeOK, CmdRecv
    <2>2. <<Head(command_q)>> \o Tail(command_q) = command_q /\ cmd \o command_q = command_q
      BY <1>0, <2>1
    <2> QED
      BY <1>1, <2>2 DEF CmdRecv, Waiting, Keeps, gapVars, bufVars
  <1>2. ASSUME at # "recv", UNCHANGED <<gapVars, bufVars, queueVars>>,
               NEW b \in Outcome, Finish(b)
        PROVE  Handles
    <2>0. cmd # <<>>
      BY <1>2 DEF TypeOK
    <2>1. Len(cmd) = 1 /\ cmd[1] \in Command /\ cmd = <<cmd[1]>>
      BY <2>0, SlotOf DEF TypeOK
    <2> DEFINE c == cmd[1]
    <2>2. /\ Waiting = <<c>> \o command_q
          /\ Waiting' = <<>> \o command_q
      BY <1>2, <2>1 DEF Waiting, Finish, queueVars
    <2>3. <<>> \o command_q = command_q
      BY <1>0
    <2> HIDE DEF c
    <2>4. c \in Command
      BY <2>1 DEF c
    <2>5. <<c>> \o command_q # <<>> /\ Tail(<<c>> \o command_q) = command_q
          /\ (<<c>> \o command_q)[1] = c
      BY <1>0, <2>4
    <2>6. executed' = Append(executed, [id |-> Waiting[1].id, by |-> b])
      BY <1>2, <2>2, <2>5 DEF Finish, c
    <2> QED
      BY <1>2, <2>2, <2>3, <2>5, <2>6 DEF Handles, queueVars
  <1>3. CASE UNCHANGED <<gapVars, bufVars, queueVars>> /\ (Halt \/ \E l \in Place : Goto(l))
    BY <1>3 DEF Halt, Goto, Keeps, Waiting, queueVars
  <1>4. CASE CmdHook
    <2>1. UNCHANGED <<gapVars, bufVars, queueVars>> /\ \E l \in Place : Goto(l)
      BY <1>4 DEF CmdHook, Place
    <2> QED
      BY <1>3, <2>1 DEF bufVars
  <1>5. CASE CmdProfile
    <2>1. at # "recv" /\ UNCHANGED <<gapVars, bufVars, queueVars>>
      BY <1>5 DEF CmdProfile
    <2>2. (\E b \in Outcome : Finish(b)) \/ Halt \/ \E l \in Place : Goto(l)
      BY <1>5 DEF CmdProfile, Place, Outcome
    <2> QED
      BY <1>2, <1>3, <2>1, <2>2 DEF bufVars
  <1>6. CASE CmdServices
    <2>1. at # "recv" /\ UNCHANGED <<gapVars, bufVars, queueVars>>
      BY <1>6 DEF CmdServices
    <2>2. (\E b \in Outcome : Finish(b)) \/ Halt \/ \E l \in Place : Goto(l)
      BY <1>6 DEF CmdServices, Place, Outcome
    <2> QED
      BY <1>2, <1>3, <2>1, <2>2 DEF bufVars
  <1>7. CASE CmdProvision
    <2>1. at # "recv" /\ UNCHANGED <<gapVars, bufVars, queueVars>>
      BY <1>7 DEF CmdProvision
    <2>2. (\E b \in Outcome : Finish(b)) \/ Halt \/ \E l \in Place : Goto(l)
      BY <1>7 DEF CmdProvision, Place, Outcome
    <2> QED
      BY <1>2, <1>3, <2>1, <2>2 DEF bufVars
  <1> QED
    BY <1>1, <1>4, <1>5, <1>6, <1>7 DEF CmdStep

(* The buffer, with its last fragment, becomes the payload. *)
FromBuffer(c) ==
    \E f \in Fragment :
        ConfigWhole(f) /\ c.payload_len = s_provision_len + f.len /\ c.payload = Filled(f)

LEMMA NextWaiting ==
    ASSUME TypeOK, [Next]_vars
    PROVE  \/ Keeps
           \/ Handles
           \/ \E c \in Command : Sends(c) /\ (c.opcode = "FF01" => FromBuffer(c))
  <1>1. CASE GapStep
    BY <1>1 DEF GapStep, BleInitReturns, OnSync, GapConnect, GapConnectFails, GapDisconnect,
                Keeps, Waiting, queueVars, taskVars
  <1>2. ASSUME NEW f \in Fragment, ConfigRejected(f) \/ ConfigBadStart(f) \/ ConfigPart(f)
        PROVE  Keeps
    BY <1>2 DEF ConfigRejected, ConfigBadStart, ConfigPart, Keeps, Waiting, queueVars, taskVars
  <1>3. ASSUME NEW f \in Fragment, ConfigWhole(f)
        PROVE  \E c \in Command : Sends(c) /\ FromBuffer(c)
    BY <1>3, ConfigWholeSends DEF FromBuffer
  <1>4. CASE UNCHANGED vars
    BY <1>4 DEF vars, Keeps, Waiting, queueVars, taskVars
  <1> QED
    BY <1>1, <1>2, <1>3, <1>4, ControlSends, CmdStepWaiting DEF Next, ConfigWrite

-----------------------------------------------------------------------------
(* What is in the reassembly buffer, and in a JSON that was queued *)

(* The buffer holds the beginning of a JSON, up to the last write. *)
BufferInv ==
    /\ Tiles(s_provision_buf, s_provision_len)
    /\ s_provision_buf # <<>> =>
         ~Last(s_provision_buf).close /\ Last(s_provision_buf).write = writes

(* One more fragment continues what is in the buffer. *)
LEMMA FilledTiles ==
    ASSUME TypeOK, BufferInv, NEW f \in Fragment, Filled(f)[1].open
    PROVE  /\ Tiles(Filled(f), s_provision_len + f.len)
           /\ Last(Filled(f)).close = f.close
           /\ Last(Filled(f)).write = writes + 1
           /\ Filled(f)[1].write =
                IF s_provision_buf = <<>> THEN writes + 1 ELSE s_provision_buf[1].write
  <1> DEFINE t == Filled(f)
             s == s_provision_buf
  <1>1. /\ t \in Seq(Piece) /\ Len(t) = Len(s) + 1 /\ t # <<>>
        /\ \A i \in 1..Len(s) : t[i] = s[i]
        /\ Last(t) = [len |-> f.len, open |-> f.open, close |-> f.close,
                      at |-> s_provision_len, write |-> writes + 1]
    BY FilledType
  <1>2. s \in Seq(Piece) /\ Len(s) \in Nat /\ (s # <<>> => Len(s) >= 1)
    BY EmptySeq DEF TypeOK
  <1>3. t[1].open
    OBVIOUS
  <1>4. BufferInv
    OBVIOUS
  <1> HIDE DEF t, s
  <1>5. /\ Last(t).len = f.len /\ Last(t).close = f.close
        /\ Last(t).at = s_provision_len /\ Last(t).write = writes + 1
    BY <1>1
  <1>6. CASE s = <<>>
    <2>1. Len(t) = 1 /\ t[1] = Last(t) /\ s_provision_len = 0
      BY <1>1, <1>4, <1>6 DEF Last, BufferInv, Tiles, s
    <2>2. Tiles(t, s_provision_len + f.len)
      <3>1. s_provision_len + f.len = Last(t).at + Last(t).len /\ t[1].at = 0
        BY <1>5, <2>1
      <3>2. \A i \in 1..Len(t) - 1 : FALSE
        BY <2>1
      <3> QED
        BY <1>1, <1>3, <3>1, <3>2 DEF Tiles
    <2> QED
      BY <1>5, <1>6, <2>1, <2>2 DEF s, t
  <1>7. CASE s # <<>>
    <2>1. /\ s[1].at = 0 /\ s_provision_len = Last(s).at + Last(s).len
          /\ \A i \in 1..Len(s) - 1 :
               /\ s[i + 1].at = s[i].at + s[i].len
               /\ s[i + 1].write = s[i].write + 1
               /\ ~s[i].close
          /\ ~Last(s).close /\ Last(s).write = writes
      BY <1>4, <1>7 DEF BufferInv, Tiles, s
    <2>2. t[1] = s[1]
      BY <1>1, <1>2, <1>7
    <2>3. ASSUME NEW i \in 1..Len(t) - 1
          PROVE  /\ t[i + 1].at = t[i].at + t[i].len
                 /\ t[i + 1].write = t[i].write + 1
                 /\ ~t[i].close
      <3>1. i \in 1..Len(s) /\ t[i] = s[i]
        BY <1>1, <1>2
      <3>2. CASE i = Len(s)
        <4>1. t[i + 1] = Last(t) /\ t[i] = Last(s)
          BY <1>1, <3>1, <3>2 DEF Last
        <4> QED
          BY <1>5, <2>1, <4>1
      <3>3. CASE i # Len(s)
        <4>1. i \in 1..Len(s) - 1 /\ i + 1 \in 1..Len(s) /\ t[i + 1] = s[i + 1]
          BY <1>1, <1>2, <3>1, <3>3
        <4> QED
          BY <2>1, <3>1, <4>1
      <3> QED
        BY <3>2, <3>3
    <2>4. Tiles(t, s_provision_len + f.len)
      BY <1>1, <1>3, <1>5, <2>1, <2>2, <2>3 DEF Tiles
    <2> QED
      BY <1>5, <1>7, <2>2, <2>4 DEF s, t
  <1> QED
    BY <1>6, <1>7

LEMMA BufferInit == Init => BufferInv
  BY DEF Init, BufferInv, Tiles

LEMMA BufferNext == TypeOK /\ BufferInv /\ [Next]_vars => BufferInv'
  <1> SUFFICES ASSUME TypeOK, BufferInv, [Next]_vars PROVE BufferInv'
    OBVIOUS
  <1>1. ASSUME UNCHANGED bufVars PROVE BufferInv'
    BY <1>1 DEF BufferInv, Tiles, bufVars
  <1>2. ASSUME ResetBuffer PROVE BufferInv'
    BY <1>2 DEF ResetBuffer, BufferInv, Tiles
  <1>3. ASSUME NEW f \in Fragment, ConfigWrite(f) PROVE BufferInv'
    <2>1. CASE ConfigPart(f)
      <3>1. /\ Filled(f)[1].open /\ ~f.close
            /\ s_provision_buf' = Filled(f)
            /\ s_provision_len' = s_provision_len + f.len
            /\ writes' = writes + 1
        BY <2>1 DEF ConfigPart, Fits, Written
      <3> QED
        BY <3>1, FilledTiles DEF BufferInv
    <2> QED
      BY <1>2, <1>3, <2>1 DEF ConfigWrite, ConfigRejected, ConfigBadStart, ConfigWhole
  <1>4. CASE GapStep
    BY <1>1, <1>4 DEF GapStep, BleInitReturns, OnSync, GapConnect, GapConnectFails, GapDisconnect
  <1>5. CASE UNCHANGED vars
    BY <1>1, <1>5 DEF vars
  <1> QED
    BY <1>1, <1>3, <1>4, <1>5, ControlSends, CmdStepWaiting DEF Next

(* A property of every waiting command, which the sent ones have. *)
LEMMA WaitingAppend ==
    ASSUME TypeOK, NEW c \in Command, Waiting' = Append(Waiting, c)
    PROVE  /\ Len(Waiting') = Len(Waiting) + 1
           /\ Len(Waiting) \in Nat
           /\ \A i \in 1..Len(Waiting) : Waiting'[i] = Waiting[i]
           /\ Waiting'[Len(Waiting) + 1] = c
  <1>1. Waiting \in Seq(Command)
    BY WaitingType
  <1> QED
    BY <1>1, AppendProperties

LEMMA WaitingTail ==
    ASSUME TypeOK, Handles
    PROVE  /\ Len(Waiting) \in Nat \ {0}
           /\ Len(Waiting') = Len(Waiting) - 1
           /\ \A i \in 1..Len(Waiting') : i + 1 \in 1..Len(Waiting) /\ Waiting'[i] = Waiting[i + 1]
  <1>1. Waiting \in Seq(Command) /\ Waiting # <<>> /\ Waiting' = Tail(Waiting)
    BY WaitingType DEF Handles
  <1>2. Len(Waiting) \in Nat \ {0}
    BY <1>1, EmptySeq
  <1>3. Len(Waiting') = Len(Waiting) - 1 /\ \A i \in 1..Len(Waiting') : Waiting'[i] = Waiting[i + 1]
    BY <1>1, HeadTailProperties
  <1> QED
    BY <1>2, <1>3

(* A JSON that is sent is complete, and its last fragment is the latest write. *)
LEMMA SentJson ==
    ASSUME TypeOK, BufferInv, NEW c \in Command, FromBuffer(c)
    PROVE  /\ Whole(c)
           /\ Last(c.payload).write = writes'
           /\ c.payload[1].write =
                IF s_provision_buf = <<>> THEN writes + 1 ELSE s_provision_buf[1].write
           /\ s_provision_buf' = <<>>
  <1>1. PICK f \in Fragment :
            ConfigWhole(f) /\ c.payload_len = s_provision_len + f.len /\ c.payload = Filled(f)
    BY DEF FromBuffer
  <1>2. /\ f.len <= Room /\ Filled(f)[1].open /\ f.close
        /\ writes' = writes + 1 /\ s_provision_buf' = <<>>
    BY <1>1 DEF ConfigWhole, Fits, Written, ResetBuffer
  <1>3. s_provision_len + f.len < BufLen
    BY <1>2, RoomBound, BufLenAssumption
  <1>4. Filled(f) # <<>>
    BY FilledType
  <1> QED
    BY <1>1, <1>2, <1>3, <1>4, FilledTiles DEF Whole

LEMMA WholeNext == TypeOK /\ BufferInv /\ WholeJson /\ [Next]_vars => WholeJson'
  <1> SUFFICES ASSUME TypeOK, BufferInv, WholeJson, [Next]_vars,
                      NEW i \in 1..Len(Waiting'), Waiting'[i].opcode = "FF01"
               PROVE  Whole(Waiting'[i])
    BY DEF WholeJson, Whole, Tiles, Last
  <1>1. CASE Keeps
    BY <1>1 DEF Keeps, WholeJson
  <1>2. CASE Handles
    BY <1>2, WaitingTail DEF WholeJson
  <1>3. ASSUME NEW c \in Command, Sends(c), c.opcode = "FF01" => FromBuffer(c)
        PROVE  Whole(Waiting'[i])
    <2>1. CASE Waiting' = Waiting
      BY <2>1 DEF WholeJson
    <2>2. CASE Waiting' = Append(Waiting, c)
      <3>1. i \in 1..Len(Waiting) \/ i = Len(Waiting) + 1
        BY <2>2, WaitingAppend
      <3> QED
        BY <1>3, <2>2, <3>1, WaitingAppend, SentJson DEF WholeJson
    <2> QED
      BY <1>3, <2>1, <2>2 DEF Sends
  <1> QED
    BY <1>1, <1>2, <1>3, NextWaiting

(* Every JSON that waits in command_q, or is being handled, is one that was *)
(* written to FF01 without gap or overlap, complete and within the buffer,  *)
(* whatever the length of the buffer and of the fragments.                  *)
THEOREM WholeJsonAlways == Spec => []WholeJson
  <1>1. Init => WholeJson
    BY DEF Init, WholeJson, Waiting
  <1> QED
    BY <1>1, TypeInit, TypeNext, BufferInit, BufferNext, WholeNext, PTL DEF Spec

-----------------------------------------------------------------------------
(* No write is used twice. *)

(* What waits was written before. *)
Older ==
    \A i \in 1..Len(Waiting) :
        Waiting[i].opcode = "FF01" => Last(Waiting[i].payload).write <= writes

(* The writes of a JSON are numbers. *)
LEMMA LastWrite ==
    ASSUME TypeOK, NEW c \in Command, c.payload # <<>>
    PROVE  Last(c.payload).write \in Nat /\ c.payload[1].write \in Nat
  <1>1. c.payload \in Seq(Piece) /\ Len(c.payload) \in Nat \ {0}
    BY EmptySeq DEF Command
  <1>2. Last(c.payload) \in Piece /\ c.payload[1] \in Piece
    BY <1>1, ElementOfSeq DEF Last
  <1> QED
    BY <1>2 DEF Piece

(* The first fragment in the buffer stays, or is a new write. *)
Continues ==
    /\ writes <= writes'
    /\ s_provision_buf' # <<>> =>
         \/ s_provision_buf # <<>> /\ s_provision_buf'[1].write = s_provision_buf[1].write
         \/ s_provision_buf'[1].write = writes + 1

LEMMA BufferStep ==
    ASSUME TypeOK, BufferInv, [Next]_vars
    PROVE  writes \in Nat /\ writes' \in Nat /\ Continues
  <1>0. writes \in Nat /\ writes' \in Nat
    BY TypeNext DEF TypeOK
  <1>1. ASSUME UNCHANGED bufVars PROVE Continues
    BY <1>0, <1>1 DEF bufVars, Continues
  <1>2. ASSUME NEW f \in Fragment, ConfigWrite(f) PROVE Continues
    <2>1. writes <= writes'
      BY <1>0, <1>2 DEF ConfigWrite, ConfigRejected, ConfigBadStart, ConfigPart, ConfigWhole,
                        Fits, Written
    <2>2. CASE ConfigPart(f)
      BY <2>1, <2>2, FilledTiles DEF ConfigPart, Continues
    <2>3. ASSUME ResetBuffer PROVE Continues
      BY <2>1, <2>3 DEF ResetBuffer, Continues
    <2> QED
      BY <1>2, <2>2, <2>3 DEF ConfigWrite, ConfigRejected, ConfigBadStart, ConfigWhole
  <1>3. CASE GapStep
    <2>1. UNCHANGED bufVars
      BY <1>3 DEF GapStep, BleInitReturns, OnSync, GapConnect, GapConnectFails, GapDisconnect
    <2> QED
      BY <1>0, <1>1, <2>1
  <1>4. CASE UNCHANGED vars
    <2>1. UNCHANGED bufVars
      BY <1>4 DEF vars
    <2> QED
      BY <1>0, <1>1, <2>1
  <1>5. Continues
    BY <1>1, <1>2, <1>3, <1>4, ControlSends, CmdStepWaiting DEF Next
  <1> QED
    BY <1>0, <1>5

LEMMA OlderNext ==
    TypeOK /\ BufferInv /\ WholeJson /\ Older /\ [Next]_vars => Older'
  <1> SUFFICES ASSUME TypeOK, BufferInv, WholeJson, Older, [Next]_vars,
                      NEW i \in 1..Len(Waiting'), Waiting'[i].opcode = "FF01"
               PROVE  Last(Waiting'[i].payload).write <= writes'
    BY DEF Older, Last
  <1>1. writes \in Nat /\ writes' \in Nat /\ writes <= writes'
    BY BufferStep DEF Continues
  <1>2. ASSUME NEW j \in 1..Len(Waiting), Waiting'[i] = Waiting[j]
        PROVE  Last(Waiting'[i].payload).write <= writes'
    <2>1. Waiting[j] \in Command
      BY WaitingType, ElementOfSeq
    <2>2. Waiting[j].payload # <<>> /\ Last(Waiting[j].payload).write <= writes
      BY <1>2 DEF WholeJson, Whole, Older
    <2> QED
      BY <1>1, <1>2, <2>1, <2>2, LastWrite
  <1>3. CASE Keeps
    BY <1>2, <1>3 DEF Keeps
  <1>4. CASE Handles
    BY <1>2, <1>4, WaitingTail
  <1>5. ASSUME NEW c \in Command, Sends(c), c.opcode = "FF01" => FromBuffer(c)
        PROVE  Last(Waiting'[i].payload).write <= writes'
    <2>1. CASE Waiting' = Waiting
      BY <1>2, <2>1
    <2>2. CASE Waiting' = Append(Waiting, c)
      <3>1. i \in 1..Len(Waiting) \/ i = Len(Waiting) + 1
        BY <2>2, WaitingAppend
      <3> QED
        BY <1>1, <1>2, <1>5, <2>2, <3>1, WaitingAppend, SentJson
    <2> QED
      BY <1>5, <2>1, <2>2 DEF Sends
  <1> QED
    BY <1>3, <1>4, <1>5, NextWaiting

(* What waits is in the order in which it was written, and before the buffer. *)
LEMMA OnceNext ==
    TypeOK /\ BufferInv /\ WholeJson /\ Older /\ WritesUsedOnce /\ [Next]_vars => WritesUsedOnce'
  <1> DEFINE Before(d, e) ==
        d.opcode = "FF01" /\ e.opcode = "FF01" => Last(d.payload).write < e.payload[1].write
  <1> DEFINE Ahead(d, b) ==
        d.opcode = "FF01" /\ b # <<>> => Last(d.payload).write < b[1].write
  <1> SUFFICES ASSUME TypeOK, BufferInv, WholeJson, Older, WritesUsedOnce, [Next]_vars
               PROVE  WritesUsedOnce'
    OBVIOUS
  <1>1. writes \in Nat /\ writes' \in Nat
        /\ (s_provision_buf' # <<>> =>
              \/ s_provision_buf # <<>> /\ s_provision_buf'[1].write = s_provision_buf[1].write
              \/ s_provision_buf'[1].write = writes + 1)
    BY BufferStep DEF Continues
  <1>2. \A i, j \in 1..Len(Waiting) : i < j => Before(Waiting[i], Waiting[j])
    <2>1. Len(Waiting) \in Nat
      BY WaitingType
    <2> QED
      BY <2>1 DEF WritesUsedOnce
  <1>3. ASSUME NEW i \in 1..Len(Waiting), Waiting[i].opcode = "FF01"
        PROVE  /\ Last(Waiting[i].payload).write \in Nat
               /\ Last(Waiting[i].payload).write <= writes
               /\ s_provision_buf # <<>> =>
                    Last(Waiting[i].payload).write < s_provision_buf[1].write
    <2>1. Waiting[i] \in Command
      BY WaitingType, ElementOfSeq
    <2>2. Waiting[i].payload # <<>>
      BY <1>3 DEF WholeJson, Whole
    <2> QED
      BY <1>3, <2>1, <2>2, LastWrite DEF Older, WritesUsedOnce
  <1>4. ASSUME NEW i \in 1..Len(Waiting) PROVE Ahead(Waiting[i], s_provision_buf')
    BY <1>1, <1>3
  <1>5. ASSUME /\ \A i, j \in 1..Len(Waiting') : i < j => Before(Waiting'[i], Waiting'[j])
               /\ \A i \in 1..Len(Waiting') : Ahead(Waiting'[i], s_provision_buf')
        PROVE  WritesUsedOnce'
    <2>1. Len(Waiting') \in Nat
      <3>1. (Waiting \in Seq(Command))'
        BY TypeNext, WaitingType, PTL
      <3> QED
        BY <3>1
    <2> QED
      BY <1>5, <2>1 DEF WritesUsedOnce, Last
  <1>6. CASE Waiting' = Waiting
    BY <1>2, <1>4, <1>5, <1>6
  <1>7. CASE Handles
    <2>1. /\ Len(Waiting) \in Nat \ {0}
          /\ Len(Waiting') = Len(Waiting) - 1
          /\ \A i \in 1..Len(Waiting') : i + 1 \in 1..Len(Waiting) /\ Waiting'[i] = Waiting[i + 1]
      BY <1>7, WaitingTail
    <2>2. ASSUME NEW i \in 1..Len(Waiting'), NEW j \in 1..Len(Waiting'), i < j
          PROVE  Before(Waiting'[i], Waiting'[j])
      <3>1. i + 1 \in 1..Len(Waiting) /\ j + 1 \in 1..Len(Waiting) /\ i + 1 < j + 1
        BY <2>1, <2>2
      <3>2. Before(Waiting[i + 1], Waiting[j + 1])
        BY <1>2, <3>1
      <3> QED
        BY <2>1, <3>2
    <2>3. ASSUME NEW i \in 1..Len(Waiting') PROVE Ahead(Waiting'[i], s_provision_buf')
      BY <1>4, <2>1
    <2> QED
      BY <1>5, <2>2, <2>3
  <1>8. ASSUME NEW c \in Command, Waiting' = Append(Waiting, c),
               c.opcode = "FF01" => FromBuffer(c)
        PROVE  WritesUsedOnce'
    <2>1. /\ Len(Waiting') = Len(Waiting) + 1 /\ Len(Waiting) \in Nat
          /\ \A i \in 1..Len(Waiting) : Waiting'[i] = Waiting[i]
          /\ Waiting'[Len(Waiting) + 1] = c
      BY <1>8, WaitingAppend
    <2>2. ASSUME NEW i \in 1..Len(Waiting) PROVE Before(Waiting[i], c)
      BY <1>1, <1>3, <1>8, SentJson
    <2>3. Ahead(c, s_provision_buf')
      BY <1>8, SentJson
    <2>4. ASSUME NEW i \in 1..Len(Waiting'), NEW j \in 1..Len(Waiting'), i < j
          PROVE  Before(Waiting'[i], Waiting'[j])
      <3>1. i \in 1..Len(Waiting) /\ Waiting'[i] = Waiting[i]
        BY <2>1, <2>4
      <3>2. CASE j = Len(Waiting) + 1
        BY <2>1, <2>2, <3>1, <3>2
      <3>3. CASE j # Len(Waiting) + 1
        <4>1. j \in 1..Len(Waiting) /\ Waiting'[j] = Waiting[j]
          BY <2>1, <3>3
        <4> QED
          BY <1>2, <2>4, <3>1, <4>1
      <3> QED
        BY <3>2, <3>3
    <2>5. ASSUME NEW i \in 1..Len(Waiting') PROVE Ahead(Waiting'[i], s_provision_buf')
      <3>1. i \in 1..Len(Waiting) \/ i = Len(Waiting) + 1
        BY <2>1
      <3> QED
        BY <1>4, <2>1, <2>3, <3>1
    <2> QED
      BY <1>5, <2>4, <2>5
  <1> QED
    BY <1>6, <1>7, <1>8, NextWaiting DEF Keeps, Sends

(* No write of FF01 is part of two provisioning commands, and commands and  *)
(* buffer are in the order of the writes.                                   *)
THEOREM WritesUsedOnceAlways == Spec => []WritesUsedOnce
  <1>1. Init => WholeJson /\ Older /\ WritesUsedOnce
    BY DEF Init, WholeJson, Older, WritesUsedOnce, Waiting
  <1> QED
    BY <1>1, TypeInit, TypeNext, BufferInit, BufferNext, WholeNext, OlderNext, OnceNext, PTL
    DEF Spec

(* What provisioning gets from FF01 is whole, and no write of it is used    *)
(* twice, whatever the buffer, the fragments and the queue.                 *)
THEOREM JsonsAlways == Spec => []JsonsAreSound
  <1>1. WholeJson /\ WritesUsedOnce => JsonsAreSound
    BY DEF JsonsAreSound
  <1> QED
    BY <1>1, WholeJsonAlways, WritesUsedOnceAlways, PTL

-----------------------------------------------------------------------------
(* Every command is accounted for. *)

LEMMA IdsAdd ==
    ASSUME NEW S, NEW s \in Seq(S), NEW c \in S
    PROVE  /\ Ids(Append(s, c)) = Ids(s) \cup {c.id}
           /\ Len(Append(s, c)) = Len(s) + 1 /\ Len(s) \in Nat
           /\ \A i \in 1..Len(s) : Append(s, c)[i] = s[i]
           /\ Append(s, c)[Len(s) + 1] = c
  <1> DEFINE t == Append(s, c)
  <1>1. /\ Len(t) = Len(s) + 1 /\ Len(s) \in Nat
        /\ \A i \in 1..Len(s) : t[i] = s[i]
        /\ t[Len(s) + 1] = c
    BY AppendProperties
  <1> HIDE DEF t
  <1>2. 1..Len(t) = 1..Len(s) \cup {Len(s) + 1}
    BY <1>1
  <1>3. Ids(t) = Ids(s) \cup {c.id}
    BY <1>1, <1>2 DEF Ids
  <1> QED
    BY <1>1, <1>3 DEF t

LEMMA IdsTake ==
    ASSUME NEW S, NEW s \in Seq(S), s # <<>>
    PROVE  /\ Ids(s) = {s[1].id} \cup Ids(Tail(s))
           /\ s[1] \in S
  <1> DEFINE t == Tail(s)
  <1>1. Len(s) \in Nat \ {0}
    BY EmptySeq
  <1>2. /\ Len(t) = Len(s) - 1
        /\ \A i \in 1..Len(t) : t[i] = s[i + 1]
    BY HeadTailProperties
  <1> HIDE DEF t
  <1>3. s[1] \in S
    BY <1>1, ElementOfSeq
  <1>4. Ids(t) \subseteq Ids(s) /\ s[1].id \in Ids(s)
    <2>1. \A i \in 1..Len(t) : i + 1 \in 1..Len(s)
      BY <1>1, <1>2
    <2> QED
      BY <1>1, <1>2, <2>1 DEF Ids
  <1>5. ASSUME NEW x \in Ids(s), x # s[1].id PROVE x \in Ids(t)
    <2>1. PICK i \in 1..Len(s) : x = s[i].id
      BY DEF Ids
    <2>2. i - 1 \in 1..Len(t) /\ (i - 1) + 1 = i
      BY <1>1, <1>2, <1>5, <2>1
    <2>3. t[i - 1] = s[i]
      BY <1>2, <2>2
    <2> QED
      BY <2>1, <2>2, <2>3 DEF Ids
  <1> QED
    BY <1>3, <1>4, <1>5 DEF t

(* The order of what was done and what waits. *)
Ordered ==
    /\ \A i, j \in 1..Len(executed) : i < j => executed[i].id < executed[j].id
    /\ \A i, j \in 1..Len(Waiting) : i < j => Waiting[i].id < Waiting[j].id
    /\ \A i \in 1..Len(executed), j \in 1..Len(Waiting) : executed[i].id < Waiting[j].id

Outcomes == [id : Nat \ {0}, by : Outcome]

LEMMA ExecutedType == ASSUME TypeOK PROVE executed \in Seq(Outcomes) /\ Len(executed) \in Nat
  BY DEF TypeOK, Outcomes

LEMMA HandledFacts ==
    ASSUME TypeOK, Handles
    PROVE  /\ Ids(executed') \cup Ids(Waiting') = Ids(executed) \cup Ids(Waiting)
           /\ Len(executed') = Len(executed) + 1
           /\ \A i \in 1..Len(executed) : executed'[i] = executed[i]
           /\ executed'[Len(executed) + 1].id = Waiting[1].id
  <1>1. Waiting \in Seq(Command) /\ Waiting # <<>> /\ Waiting' = Tail(Waiting)
    BY WaitingType DEF Handles
  <1>2. Ids(Waiting) = {Waiting[1].id} \cup Ids(Waiting') /\ Waiting[1] \in Command
    BY <1>1, IdsTake
  <1>3. PICK b \in Outcome : executed' = Append(executed, [id |-> Waiting[1].id, by |-> b])
    BY DEF Handles
  <1> DEFINE e == [id |-> Waiting[1].id, by |-> b]
  <1>4. e \in Outcomes /\ e.id = Waiting[1].id
    BY <1>2 DEF Outcomes, Command
  <1>5. executed' = Append(executed, e)
    BY <1>3
  <1> HIDE DEF e
  <1>6. /\ Ids(executed') = Ids(executed) \cup {e.id}
        /\ Len(executed') = Len(executed) + 1
        /\ \A i \in 1..Len(executed) : executed'[i] = executed[i]
        /\ executed'[Len(executed) + 1] = e
    BY <1>4, <1>5, ExecutedType, IdsAdd
  <1> QED
    BY <1>2, <1>4, <1>6

LEMMA OrderedHandles ==
    ASSUME TypeOK, Ordered, Handles PROVE Ordered'
  <1> DEFINE n == Len(executed)
  <1>1. n \in Nat /\ Len(executed') = n + 1
        /\ (\A i \in 1..n : executed'[i] = executed[i])
        /\ executed'[n + 1].id = Waiting[1].id
    BY ExecutedType, HandledFacts
  <1>2. /\ Len(Waiting) \in Nat \ {0}
        /\ Len(Waiting') = Len(Waiting) - 1
        /\ \A i \in 1..Len(Waiting') : i + 1 \in 1..Len(Waiting) /\ Waiting'[i] = Waiting[i + 1]
    BY WaitingTail
  <1>3. \A i \in 1..n : executed[i].id < Waiting[1].id
    BY <1>2 DEF Ordered
  <1>4. \A j \in 1..Len(Waiting') : Waiting[1].id < Waiting'[j].id
    <2>1. ASSUME NEW j \in 1..Len(Waiting') PROVE Waiting[1].id < Waiting'[j].id
      <3>1. j + 1 \in 1..Len(Waiting) /\ 1 \in 1..Len(Waiting) /\ 1 < j + 1
        BY <1>2
      <3> QED
        BY <1>2, <3>1 DEF Ordered
    <2> QED
      BY <2>1
  <1>5. ASSUME NEW i \in 1..n + 1 PROVE i \in 1..n \/ i = n + 1
    BY <1>1
  <1>6. ASSUME NEW i \in 1..n + 1, NEW j \in 1..n + 1, i < j
        PROVE  executed'[i].id < executed'[j].id
    <2>1. i \in 1..n
      BY <1>1, <1>6
    <2> QED
      BY <1>1, <1>3, <1>5, <1>6, <2>1 DEF Ordered
  <1>7. ASSUME NEW i \in 1..Len(Waiting'), NEW j \in 1..Len(Waiting'), i < j
        PROVE  Waiting'[i].id < Waiting'[j].id
    <2>1. i + 1 \in 1..Len(Waiting) /\ j + 1 \in 1..Len(Waiting) /\ i + 1 < j + 1
      BY <1>2, <1>7
    <2> QED
      BY <1>2, <2>1 DEF Ordered
  <1>8. ASSUME NEW i \in 1..n + 1, NEW j \in 1..Len(Waiting')
        PROVE  executed'[i].id < Waiting'[j].id
    <2>1. CASE i = n + 1
      BY <1>1, <1>4, <2>1
    <2>2. CASE i \in 1..n
      BY <1>1, <1>2, <2>2 DEF Ordered
    <2> QED
      BY <1>5, <2>1, <2>2
  <1> QED
    BY <1>1, <1>6, <1>7, <1>8 DEF Ordered

LEMMA OrderedAppends ==
    ASSUME TypeOK, Ordered, NEW c \in Command, Waiting' = Append(Waiting, c),
           executed' = executed,
           \A x \in Ids(executed) \cup Ids(Waiting) : x < c.id
    PROVE  Ordered'
  <1>1. /\ Len(Waiting') = Len(Waiting) + 1 /\ Len(Waiting) \in Nat
        /\ \A i \in 1..Len(Waiting) : Waiting'[i] = Waiting[i]
        /\ Waiting'[Len(Waiting) + 1] = c
    BY WaitingAppend
  <1>2. /\ \A i \in 1..Len(executed) : executed[i].id < c.id
        /\ \A i \in 1..Len(Waiting) : Waiting[i].id < c.id
    BY DEF Ids
  <1>3. \A j \in 1..Len(Waiting') : j \in 1..Len(Waiting) \/ j = Len(Waiting) + 1
    BY <1>1
  <1>4. ASSUME NEW i \in 1..Len(Waiting'), NEW j \in 1..Len(Waiting'), i < j
        PROVE  Waiting'[i].id < Waiting'[j].id
    <2>1. i \in 1..Len(Waiting)
      BY <1>1, <1>4
    <2> QED
      BY <1>1, <1>2, <1>3, <1>4, <2>1 DEF Ordered
  <1>5. ASSUME NEW i \in 1..Len(executed), NEW j \in 1..Len(Waiting')
        PROVE  executed[i].id < Waiting'[j].id
    BY <1>1, <1>2, <1>3 DEF Ordered
  <1> QED
    BY <1>4, <1>5 DEF Ordered

LEMMA AccountedNext == TypeOK /\ CommandsAccounted /\ [Next]_vars => CommandsAccounted'
  <1> DEFINE gone == {d.id : d \in dropped}
             here == Ids(executed) \cup Ids(Waiting)
  <1> SUFFICES ASSUME TypeOK, CommandsAccounted, [Next]_vars PROVE CommandsAccounted'
    OBVIOUS
  <1>1. /\ here \cup gone = 1..sent
        /\ \A d \in dropped : d.id \notin here
        /\ Ordered
        /\ \A d \in dropped : d.opcode = "FF01" <=> d.id \in refused
    BY DEF CommandsAccounted, Ordered
  <1>2. sent \in Nat /\ refused \in SUBSET (1..sent)
    BY DEF TypeOK
  <1>3. ASSUME here' \cup gone' = 1..sent',
               \A d \in dropped' : d.id \notin here',
               Ordered',
               \A d \in dropped' : d.opcode = "FF01" <=> d.id \in refused'
        PROVE  CommandsAccounted'
    BY <1>3 DEF CommandsAccounted, Ordered
  <1>4. CASE Keeps
    <2>1. here' = here /\ gone' = gone /\ Ordered'
      BY <1>1, <1>4 DEF Keeps, Ordered, Ids
    <2> QED
      BY <1>1, <1>3, <1>4, <2>1 DEF Keeps
  <1>5. CASE Handles
    <2>1. here' = here /\ gone' = gone
      BY <1>5, HandledFacts DEF Handles
    <2>2. Ordered'
      BY <1>1, <1>5, OrderedHandles
    <2> QED
      BY <1>1, <1>3, <1>5, <2>1, <2>2 DEF Handles
  <1>6. ASSUME NEW c \in Command, Sends(c) PROVE CommandsAccounted'
    <2>1. c.id = sent + 1 /\ sent' = sent + 1 /\ executed' = executed
      BY <1>6 DEF Sends
    <2>2. /\ 1..sent' = 1..sent \cup {c.id}
          /\ \A x \in here \cup gone \cup refused : x < c.id /\ x # c.id
      <3>1. 1..sent' = 1..sent \cup {c.id}
        BY <1>2, <2>1
      <3>2. \A x \in 1..sent : x < c.id /\ x # c.id
        BY <1>2, <2>1
      <3>3. here \cup gone \cup refused \subseteq 1..sent
        BY <1>1, <1>2
      <3> QED
        BY <3>1, <3>2, <3>3
    <2>3. CASE Waiting' = Append(Waiting, c) /\ UNCHANGED <<dropped, refused>>
      <3>1. here' = here \cup {c.id}
        BY <2>1, <2>3, WaitingType, IdsAdd
      <3>2. gone' = gone
        BY <2>3
      <3>3. Ordered'
        BY <1>1, <2>1, <2>2, <2>3, OrderedAppends
      <3>4. \A d \in dropped : d.id # c.id
        BY <2>2
      <3> QED
        BY <1>1, <1>3, <2>2, <2>3, <3>1, <3>2, <3>3, <3>4
    <2>4. CASE /\ Waiting' = Waiting
               /\ dropped' = dropped \cup {[id |-> c.id, opcode |-> c.opcode]}
               /\ refused' = IF c.opcode = "FF01" THEN refused \cup {c.id} ELSE refused
      <3>1. here' = here /\ gone' = gone \cup {c.id} /\ Ordered'
        <4>1. here' = here
          BY <2>1, <2>4 DEF Ids
        <4>2. gone' = gone \cup {c.id}
          <5>1. [id |-> c.id, opcode |-> c.opcode].id = c.id
            OBVIOUS
          <5> QED
            BY <2>4, <5>1
        <4>3. Ordered'
          BY <1>1, <2>1, <2>4 DEF Ordered
        <4> QED
          BY <4>1, <4>2, <4>3
      <3>2. \A d \in dropped : d.id # c.id
        BY <2>2
      <3>3. c.id \notin here /\ c.id \notin refused
        BY <2>2
      <3>4. \A d \in dropped' : d.id \notin here'
        BY <1>1, <2>4, <3>1, <3>3
      <3>5. \A d \in dropped' : d.opcode = "FF01" <=> d.id \in refused'
        <4>1. ASSUME NEW d \in dropped PROVE d.opcode = "FF01" <=> d.id \in refused'
          BY <1>1, <2>4, <3>2
        <4>2. c.opcode = "FF01" <=> c.id \in refused'
          BY <2>4, <3>3
        <4> QED
          BY <2>4, <4>1, <4>2
      <3> QED
        BY <1>1, <1>3, <2>2, <3>1, <3>4, <3>5
    <2> QED
      BY <1>6, <2>3, <2>4 DEF Sends
  <1> QED
    BY <1>4, <1>5, <1>6, NextWaiting

(* Every command that BLE or MQTT sends is waiting, handled or dropped, and *)
(* only one of these; commands are handled once, in the order in which they *)
(* were sent; and a refusal is reported exactly for provisioning.           *)
THEOREM CommandsAccountedAlways == Spec => []CommandsAccounted
  <1>1. Init => CommandsAccounted
    <2> SUFFICES ASSUME Init PROVE CommandsAccounted
      OBVIOUS
    <2>1. executed = <<>> /\ Waiting = <<>> /\ dropped = {} /\ 1..sent = {}
      BY DEF Init, Waiting
    <2>2. Len(<<>>) = 0 /\ Ids(<<>>) = {}
      BY DEF Ids
    <2> QED
      BY <2>1, <2>2 DEF CommandsAccounted
  <1> QED
    BY <1>1, TypeInit, TypeNext, AccountedNext, PTL DEF Spec

-----------------------------------------------------------------------------
(* The stream of CommandStream *)

Request(c) == [id |-> c.id, opcode |-> c.opcode, kind |-> c.kind]

LEMMA RequestsAre ==
    ASSUME NEW s \in Seq(Command)
    PROVE  /\ Requests(s) \in Seq([id : Nat, opcode : Opcode, kind : Kind])
           /\ Len(Requests(s)) = Len(s)
           /\ \A i \in 1..Len(s) : Requests(s)[i] = Request(s[i])
  <1>1. Len(s) \in Nat /\ \A i \in 1..Len(s) : s[i] \in Command
    OBVIOUS
  <1>2. ASSUME NEW i \in 1..Len(s)
        PROVE  Request(s[i]) \in [id : Nat, opcode : Opcode, kind : Kind]
    BY <1>1 DEF Command, Request
  <1>3. Requests(s) = [i \in 1..Len(s) |-> Request(s[i])]
    BY DEF Requests, Request
  <1> QED
    BY <1>1, <1>2, <1>3, IsASeq

LEMMA RequestsAdd ==
    ASSUME NEW s \in Seq(Command), NEW c \in Command
    PROVE  Requests(Append(s, c)) = Append(Requests(s), Request(c))
  <1> DEFINE R == [id : Nat, opcode : Opcode, kind : Kind]
  <1>1. Request(c) \in R
    BY DEF Command, Request
  <1>2. /\ Append(s, c) \in Seq(Command) /\ Len(s) \in Nat
        /\ Len(Append(s, c)) = Len(s) + 1
        /\ \A i \in 1..Len(s) : Append(s, c)[i] = s[i]
        /\ Append(s, c)[Len(s) + 1] = c
    BY AppendProperties
  <1> DEFINE r == Requests(s)
             q == Requests(Append(s, c))
             t == Append(r, Request(c))
  <1>3. /\ r \in Seq(R) /\ Len(r) = Len(s)
        /\ \A i \in 1..Len(s) : r[i] = Request(s[i])
    BY RequestsAre
  <1>4. /\ q \in Seq(R) /\ Len(q) = Len(s) + 1
        /\ \A i \in 1..Len(s) + 1 : q[i] = Request(Append(s, c)[i])
    BY <1>2, RequestsAre
  <1> HIDE DEF r, q, R
  <1>5. /\ t \in Seq(R) /\ Len(t) = Len(s) + 1
        /\ \A i \in 1..Len(s) : t[i] = r[i]
        /\ t[Len(s) + 1] = Request(c)
    BY <1>1, <1>3, AppendProperties
  <1>6. ASSUME NEW i \in 1..Len(s) + 1 PROVE q[i] = t[i]
    BY <1>2, <1>3, <1>4, <1>5, i \in 1..Len(s) \/ i = Len(s) + 1
  <1> HIDE DEF t
  <1>7. q = t
    BY <1>4, <1>5, <1>6, SeqEqual
  <1> QED
    BY <1>7 DEF q, t, r

LEMMA RequestsTake ==
    ASSUME NEW s \in Seq(Command), s # <<>>
    PROVE  /\ Requests(s) # <<>>
           /\ Head(Requests(s)) = Request(s[1])
           /\ Requests(Tail(s)) = Tail(Requests(s))
  <1> DEFINE R == [id : Nat, opcode : Opcode, kind : Kind]
             r == Requests(s)
             q == Requests(Tail(s))
             t == Tail(r)
  <1>1. Len(s) \in Nat \ {0}
    BY EmptySeq
  <1>2. /\ Tail(s) \in Seq(Command) /\ Len(Tail(s)) = Len(s) - 1
        /\ \A i \in 1..Len(Tail(s)) : Tail(s)[i] = s[i + 1]
    BY HeadTailProperties
  <1>3. /\ r \in Seq(R) /\ Len(r) = Len(s)
        /\ \A i \in 1..Len(s) : r[i] = Request(s[i])
    BY RequestsAre
  <1>4. /\ q \in Seq(R) /\ Len(q) = Len(s) - 1
        /\ \A i \in 1..Len(s) - 1 : q[i] = Request(Tail(s)[i])
    BY <1>2, RequestsAre
  <1> HIDE DEF r, q, R
  <1>5. r # <<>> /\ Head(r) = r[1]
    BY <1>1, <1>3
  <1>6. /\ t \in Seq(R) /\ Len(t) = Len(s) - 1
        /\ \A i \in 1..Len(s) - 1 : t[i] = r[i + 1]
    BY <1>3, <1>5, HeadTailProperties
  <1>7. ASSUME NEW i \in 1..Len(s) - 1 PROVE q[i] = t[i]
    <2>1. i + 1 \in 1..Len(s) /\ i \in 1..Len(Tail(s))
      BY <1>1, <1>2
    <2> QED
      BY <1>2, <1>3, <1>4, <1>6, <2>1
  <1> HIDE DEF t
  <1>8. q = t
    BY <1>4, <1>6, <1>7, SeqEqual
  <1>9. Head(r) = Request(s[1])
    BY <1>1, <1>3, <1>5
  <1> QED
    BY <1>5, <1>8, <1>9 DEF q, t, r

(* The dispatch takes a command only where it belongs. *)
Destined ==
    /\ \A i \in 1..Len(Waiting) : Waiting[i].opcode = "FF01" => Waiting[i].kind = "provision"
    /\ at = "services" => cmd[1].kind # "own"
    /\ at = "provision" => cmd[1].kind = "provision"

LEMMA AtHand ==
    ASSUME TypeOK, at # "recv"
    PROVE  Len(Waiting) \in Nat \ {0} /\ Waiting[1] = cmd[1] /\ cmd[1] \in Command
  <1>1. cmd \in Seq(Command) /\ command_q \in Seq(Command) /\ Len(cmd) = 1 /\ cmd[1] \in Command
    BY SlotOf DEF TypeOK
  <1> QED
    BY <1>1, ConcatProperties DEF Waiting

LEMMA DestinedNext == TypeOK /\ Destined /\ [Next]_vars => Destined'
  <1> SUFFICES ASSUME TypeOK, Destined, [Next]_vars PROVE Destined'
    OBVIOUS
  <1>1. \A i \in 1..Len(Waiting') : Waiting'[i].opcode = "FF01" => Waiting'[i].kind = "provision"
    <2>1. CASE Keeps
      BY <2>1 DEF Keeps, Destined
    <2>2. CASE Handles
      BY <2>2, WaitingTail DEF Destined
    <2>3. ASSUME NEW c \in Command, Sends(c)
          PROVE  \A i \in 1..Len(Waiting') : Waiting'[i].opcode = "FF01" => Waiting'[i].kind = "provision"
      <3>1. CASE Waiting' = Waiting
        BY <3>1 DEF Destined
      <3>2. CASE Waiting' = Append(Waiting, c)
        <4>1. /\ Len(Waiting') = Len(Waiting) + 1 /\ Len(Waiting) \in Nat
              /\ \A i \in 1..Len(Waiting) : Waiting'[i] = Waiting[i]
              /\ Waiting'[Len(Waiting) + 1] = c
          BY <3>2, WaitingAppend
        <4>2. c.opcode = "FF01" => c.kind = "provision"
          BY <2>3 DEF Sends
        <4>3. ASSUME NEW i \in 1..Len(Waiting') PROVE i \in 1..Len(Waiting) \/ i = Len(Waiting) + 1
          BY <4>1
        <4> QED
          BY <4>1, <4>2, <4>3 DEF Destined
      <3> QED
        BY <2>3, <3>1, <3>2 DEF Sends
    <2> QED
      BY <2>1, <2>2, <2>3, NextWaiting
  <1>2. CASE CmdHook
    <2>1. Waiting[1] = cmd[1] /\ 1 \in 1..Len(Waiting) /\ cmd' = cmd
          /\ at' = IF cmd[1].opcode = "FF01" THEN "provision" ELSE "profile"
      BY <1>2, AtHand DEF CmdHook, Goto
    <2>2. cmd[1].opcode = "FF01" => cmd[1].kind = "provision"
      BY <2>1 DEF Destined
    <2> QED
      BY <1>1, <2>1, <2>2 DEF Destined
  <1>3. CASE CmdProfile \/ CmdServices \/ CmdProvision \/ CmdRecv
    BY <1>1, <1>3 DEF CmdProfile, CmdServices, CmdProvision, CmdRecv, Finish, Goto, Halt, Destined
  <1>4. ASSUME UNCHANGED taskVars PROVE Destined'
    BY <1>1, <1>4 DEF taskVars, Destined
  <1> QED
    BY <1>2, <1>3, <1>4
    DEF Next, CmdStep, GapStep, BleInitReturns, OnSync, GapConnect, GapConnectFails, GapDisconnect,
        ConfigWrite, ConfigRejected, ConfigBadStart, ConfigPart, ConfigWhole, ControlWrite,
        MqttData, vars

LEMMA HandlerIs ==
    ASSUME NEW k
    PROVE  /\ k = "own" => Stream!Handler(k) = "own"
           /\ k = "invalid" => Stream!Handler(k) = "rejected"
           /\ k = "uc" => Stream!Handler(k) = "uc"
           /\ k = "ota" => Stream!Handler(k) = "ota"
           /\ k = "other" => Stream!Handler(k) = "none"
           /\ k = "provision" => Stream!Handler(k) = "provision"
  BY DEF Stream!Handler

(* What is done with is done with by what it is for. *)
LEMMA HandledRight ==
    ASSUME TypeOK, Destined, CmdStep, executed' # executed
    PROVE  executed' = Append(executed, [id |-> Waiting[1].id,
                                         by |-> Stream!Handler(Waiting[1].kind)])
  <1> DEFINE h == Stream!Handler(cmd[1].kind)
             kind == cmd[1].kind
  <1>1. at # "recv" /\ Waiting[1] = cmd[1]
    BY AtHand DEF CmdStep, CmdRecv, CmdHook, CmdProfile, CmdServices, CmdProvision
  <1>2. /\ kind = "own" => h = "own"
        /\ kind = "invalid" => h = "rejected"
        /\ kind = "uc" => h = "uc"
        /\ kind = "ota" => h = "ota"
        /\ kind = "other" => h = "none"
        /\ kind = "provision" => h = "provision"
    BY HandlerIs
  <1> HIDE DEF h
  <1>3. ASSUME CmdProfile PROVE executed' = Append(executed, [id |-> cmd[1].id, by |-> h])
    <2>1. kind = "own" /\ Finish("own")
      BY <1>3 DEF CmdProfile, Goto, Halt
    <2> QED
      BY <1>2, <2>1 DEF Finish
  <1>4. ASSUME CmdServices PROVE executed' = Append(executed, [id |-> cmd[1].id, by |-> h])
    <2>1. CASE kind = "invalid" /\ Finish("rejected")
      BY <1>2, <2>1 DEF Finish
    <2>2. CASE kind = "uc" /\ Finish("uc")
      BY <1>2, <2>2 DEF Finish
    <2>3. CASE kind = "ota" /\ Finish("ota")
      BY <1>2, <2>3 DEF Finish
    <2>4. CASE kind = "other" /\ Finish("none")
      BY <1>2, <2>4 DEF Finish
    <2> QED
      BY <1>4, <2>1, <2>2, <2>3, <2>4 DEF CmdServices, Goto, Halt
  <1>5. ASSUME CmdProvision PROVE executed' = Append(executed, [id |-> cmd[1].id, by |-> h])
    <2>1. kind = "provision" /\ Finish("provision")
      BY <1>5 DEF CmdProvision, Destined
    <2> QED
      BY <1>2, <2>1 DEF Finish
  <1>6. ASSUME CmdHook \/ CmdRecv PROVE executed' = Append(executed, [id |-> cmd[1].id, by |-> h])
    BY <1>6 DEF CmdHook, CmdRecv, Goto
  <1>7. executed' = Append(executed, [id |-> cmd[1].id, by |-> h])
    BY <1>3, <1>4, <1>5, <1>6 DEF CmdStep
  <1> QED
    BY <1>1, <1>7 DEF h

LEMMA StreamStep == TypeOK /\ Destined /\ [Next]_vars => [Stream!Next]_(Stream!vars)
  <1> SUFFICES ASSUME TypeOK, Destined, [Next]_vars PROVE [Stream!Next]_(Stream!vars)
    OBVIOUS
  <1>1. Waiting \in Seq(Command)
    BY WaitingType
  <1>2. Len(Requests(Waiting)) = Len(Waiting)
    BY <1>1, RequestsAre
  <1>3. CASE Keeps
    <2>1. Requests(Waiting)' = Requests(Waiting)
      BY <1>3 DEF Keeps, Requests
    <2> QED
      BY <1>3, <2>1 DEF Keeps, Stream!vars
  <1>4. CASE Handles
    <2>1. Waiting # <<>> /\ Waiting' = Tail(Waiting) /\ UNCHANGED <<sent, dropped, refused>>
      BY <1>4 DEF Handles
    <2>2. executed' # executed
      BY <1>4, HandledFacts, ExecutedType
    <2>3. CmdStep
      BY <2>2 DEF Next, GapStep, BleInitReturns, OnSync, GapConnect, GapConnectFails,
         GapDisconnect, ConfigWrite, ConfigRejected, ConfigBadStart, ConfigPart, ConfigWhole,
         ControlWrite, MqttData, vars, taskVars
    <2>4. executed' = Append(executed, [id |-> Waiting[1].id,
                                        by |-> Stream!Handler(Waiting[1].kind)])
      BY <2>2, <2>3, HandledRight
    <2>5. /\ Requests(Waiting) # <<>>
          /\ Head(Requests(Waiting)) = Request(Waiting[1])
          /\ Requests(Waiting)' = Tail(Requests(Waiting))
      <3>1. Requests(Waiting)' = Requests(Tail(Waiting))
        BY <2>1 DEF Requests
      <3> QED
        BY <1>1, <2>1, <3>1, RequestsTake
    <2>6. Head(Requests(Waiting)).id = Waiting[1].id /\ Head(Requests(Waiting)).kind = Waiting[1].kind
      BY <2>5 DEF Request
    <2> QED
      BY <2>1, <2>4, <2>5, <2>6 DEF Stream!Next, Stream!Handle
  <1>5. ASSUME NEW c \in Command, Sends(c) PROVE [Stream!Next]_(Stream!vars)
    <2>1. /\ c.id = sent + 1 /\ sent' = sent + 1 /\ executed' = executed
          /\ c.opcode = "FF01" => c.kind = "provision"
          /\ c.opcode \in Opcode /\ c.kind \in Kind
      BY <1>5 DEF Sends, Command
    <2>2. CASE /\ Len(Waiting) <= CommandCap
               /\ Waiting' = Append(Waiting, c) /\ UNCHANGED <<dropped, refused>>
      <3>1. Requests(Waiting)' = Append(Requests(Waiting), Request(c))
        <4>1. Requests(Waiting)' = Requests(Append(Waiting, c))
          BY <2>2 DEF Requests
        <4> QED
          BY <1>1, <4>1, RequestsAdd
      <3>2. Stream!Accept(c.opcode, c.kind)
        BY <1>2, <2>1, <2>2, <3>1 DEF Stream!Accept, Request
      <3> QED
        BY <2>1, <3>2 DEF Stream!Next
    <2>3. CASE /\ Len(Waiting) >= CommandCap
               /\ Waiting' = Waiting
               /\ dropped' = dropped \cup {[id |-> c.id, opcode |-> c.opcode]}
               /\ refused' = IF c.opcode = "FF01" THEN refused \cup {c.id} ELSE refused
      <3>1. Requests(Waiting)' = Requests(Waiting)
        BY <2>3 DEF Requests
      <3>2. Stream!Drop(c.opcode)
        BY <1>2, <2>1, <2>3, <3>1 DEF Stream!Drop
      <3> QED
        BY <2>1, <3>2 DEF Stream!Next
    <2> QED
      BY <1>5, <2>2, <2>3 DEF Sends
  <1> QED
    BY <1>3, <1>4, <1>5, NextWaiting

(* The way of a command through BLE or MQTT, the queue and the dispatch is  *)
(* the stream of CommandStream, for every length of the queue, every        *)
(* interleaving of the senders and both kinds of product.                   *)
THEOREM CommandsAreStream == Spec => StreamSpec
  <1>1. Init => Destined /\ Stream!Init
    <2> SUFFICES ASSUME Init PROVE Destined /\ Stream!Init
      OBVIOUS
    <2>1. Waiting = <<>> /\ at = "recv"
      BY DEF Init, Waiting
    <2>2. Len(<<>>) = 0 /\ <<>> \in Seq(Command)
      OBVIOUS
    <2>3. Requests(Waiting) = <<>>
      BY <2>1, <2>2, RequestsAre, EmptySeq
    <2> QED
      BY <2>1, <2>2, <2>3 DEF Init, Destined, Stream!Init
  <1> QED
    BY <1>1, TypeCorrect, DestinedNext, StreamStep, PTL DEF Spec, StreamSpec, Stream!Spec

-----------------------------------------------------------------------------
(* The radio and what the module says of it *)

LEMMA DiscoverableNext == Discoverable /\ [Next]_vars => Discoverable'
  <1> SUFFICES ASSUME Discoverable, [Next]_vars PROVE Discoverable'
    OBVIOUS
  <1> USE DEF Discoverable
  <1>1. ASSUME UNCHANGED gapVars PROVE Discoverable'
    BY <1>1 DEF gapVars
  <1>2. CASE BleInitReturns
    BY <1>2 DEF BleInitReturns
  <1>3. CASE OnSync
    BY <1>3 DEF OnSync, StartAdvertising
  <1>4. CASE GapConnect
    BY <1>4 DEF GapConnect
  <1>5. CASE GapConnectFails
    BY <1>5 DEF GapConnectFails, StartAdvertising
  <1>6. CASE GapDisconnect
    BY <1>6 DEF GapDisconnect, StartAdvertising
  <1>7. ASSUME NEW f \in Fragment, ConfigWrite(f) PROVE UNCHANGED gapVars
    BY <1>7 DEF ConfigWrite, ConfigRejected, ConfigBadStart, ConfigPart, ConfigWhole
  <1>8. CASE ControlWrite \/ MqttData \/ CmdStep \/ UNCHANGED vars
    <2>1. UNCHANGED gapVars
      BY <1>8 DEF ControlWrite, MqttData, CmdStep, CmdRecv, CmdHook, CmdProfile, CmdServices,
                  CmdProvision, vars
    <2> QED
      BY <1>1, <2>1
  <1> QED
    BY <1>1, <1>2, <1>3, <1>4, <1>5, <1>6, <1>7, <1>8 DEF Next, GapStep

(* The device is connected or advertises unless advertising failed, and     *)
(* s_connected and s_state never claim a connection that is not there.      *)
THEOREM DiscoverableAlways == Spec => []Discoverable
  <1>1. Init => Discoverable
    BY DEF Init, Discoverable
  <1> QED
    BY <1>1, DiscoverableNext, PTL DEF Spec

-----------------------------------------------------------------------------
(* How near a waiting command is to its handler: the commands before it,    *)
(* and the steps that the one at hand has left.  The rank behind            *)
(* QueuedIsHandled.                                                         *)

StepsLeft == [recv |-> 5, hook |-> 4, profile |-> 3, services |-> 2, provision |-> 1]

Near(n, k) ==
    \E i \in 1..Len(Waiting) : Waiting[i].id = n /\ k = 5 * (i - 1) + StepsLeft[at]

(* Unless the product's handler calls the dispatcher back, no step puts a   *)
(* waiting command off: it comes no later in its turn, a step of the        *)
(* command task brings it nearer, and it leaves the queue only to its       *)
(* handler.                                                                 *)
ComesNearer ==
    \A n \in Nat \ {0}, k \in Nat : Near(n, k) /\ ~dispatching =>
        \/ \E j \in 1..k : (j = k => ~CmdStep) /\ Near(n, j)'
        \/ n \in Ids(executed)'
        \/ halted'

(* Where a step of the command task leaves it. *)
LEMMA CmdStepGoes ==
    ASSUME TypeOK, CmdStep, ~dispatching
    PROVE  \/ halted'
           \/ Keeps /\ StepsLeft[at'] < StepsLeft[at]
           \/ Handles /\ at' = "recv"
  <1>1. CASE CmdRecv
    <2>1. cmd = <<>> /\ command_q # <<>>
      BY <1>1 DEF TypeOK, CmdRecv
    <2>2. <<Head(command_q)>> \o Tail(command_q) = command_q /\ cmd \o command_q = command_q
      BY <2>1 DEF TypeOK
    <2>3. Keeps
      BY <1>1, <2>2 DEF CmdRecv, Waiting, Keeps
    <2>4. at = "recv" /\ at' = "hook"
      BY <1>1 DEF CmdRecv
    <2> QED
      BY <2>3, <2>4 DEF StepsLeft
  <1>2. ASSUME UNCHANGED queueVars, NEW l \in Place, Goto(l)
        PROVE  Keeps /\ at' = l
    BY <1>2 DEF Goto, Keeps, Waiting, queueVars
  <1>3. ASSUME at # "recv", NEW b \in Outcome, Finish(b)
        PROVE  at' = "recv" /\ ~(Keeps)
    <2>1. executed' = Append(executed, [id |-> cmd[1].id, by |-> b]) /\ at' = "recv"
      BY <1>3 DEF Finish
    <2>2. cmd # <<>> /\ Len(cmd) = 1 /\ cmd[1] \in Command
      BY <1>3, FinishType
    <2>3. [id |-> cmd[1].id, by |-> b] \in Outcomes
      BY <2>2 DEF Outcomes, Command
    <2>4. Len(executed') = Len(executed) + 1 /\ Len(executed) \in Nat
      BY <2>1, <2>3, ExecutedType, AppendProperties
    <2> QED
      BY <2>1, <2>4 DEF Keeps
  <1>4. CASE CmdHook
    <2>1. \E l \in {"provision", "profile"} : Goto(l)
      BY <1>4 DEF CmdHook
    <2>2. at = "hook" /\ UNCHANGED queueVars
      BY <1>4 DEF CmdHook
    <2> QED
      BY <1>2, <2>1, <2>2 DEF StepsLeft, Place
  <1>5. CASE CmdProfile
    <2>1. at = "profile" /\ UNCHANGED queueVars /\ (Finish("own") \/ Goto("services"))
      BY <1>5 DEF CmdProfile
    <2>2. CASE Goto("services")
      BY <1>2, <2>1, <2>2 DEF StepsLeft, Place
    <2>3. CASE Finish("own")
      BY <1>3, <2>1, <2>3, CmdStepWaiting DEF Outcome
    <2> QED
      BY <2>1, <2>2, <2>3
  <1>6. CASE CmdServices
    <2>1. at = "services" /\ UNCHANGED queueVars
          /\ ((\E b \in Outcome : Finish(b)) \/ Halt \/ Goto("provision"))
      BY <1>6 DEF CmdServices, Outcome
    <2>2. CASE Goto("provision")
      BY <1>2, <2>1, <2>2 DEF StepsLeft, Place
    <2>3. ASSUME NEW b \in Outcome, Finish(b) PROVE Handles /\ at' = "recv"
      BY <1>3, <2>1, <2>3, CmdStepWaiting
    <2> QED
      BY <2>1, <2>2, <2>3 DEF Halt
  <1>7. CASE CmdProvision
    <2>1. at = "provision" /\ Finish("provision")
      BY <1>7 DEF CmdProvision
    <2> QED
      BY <1>3, <2>1, CmdStepWaiting DEF Outcome
  <1> QED
    BY <1>1, <1>4, <1>5, <1>6, <1>7 DEF CmdStep

(* A step of another task. *)
LEMMA OthersGo ==
    ASSUME TypeOK, [Next]_vars, ~CmdStep
    PROVE  /\ at' = at
           /\ Keeps \/ \E c \in Command : Sends(c)
  <1>1. at' = at /\ executed' = executed
    BY DEF Next, GapStep, BleInitReturns, OnSync, GapConnect, GapConnectFails, GapDisconnect,
           ConfigWrite, ConfigRejected, ConfigBadStart, ConfigPart, ConfigWhole,
           ControlWrite, MqttData, taskVars, vars
  <1>2. ~Handles
    <2>1. SUFFICES ASSUME Handles PROVE FALSE
      OBVIOUS
    <2>2. Len(executed') = Len(executed) + 1 /\ Len(executed) \in Nat
      BY <2>1, HandledFacts, ExecutedType
    <2> QED
      BY <1>1, <2>2
  <1> QED
    BY <1>1, <1>2, NextWaiting

LEMMA NearerNext == TypeOK /\ [Next]_vars => ComesNearer
  <1> SUFFICES ASSUME TypeOK, [Next]_vars, ~dispatching,
                      NEW n \in Nat \ {0}, NEW k \in Nat, Near(n, k)
               PROVE  \/ \E j \in 1..k : (j = k => ~CmdStep) /\ Near(n, j)'
                      \/ n \in Ids(executed)'
                      \/ halted'
    BY DEF ComesNearer
  <1>1. PICK i \in 1..Len(Waiting) : Waiting[i].id = n /\ k = 5 * (i - 1) + StepsLeft[at]
    BY DEF Near
  <1>2. Len(Waiting) \in Nat /\ i \in Nat \ {0}
    BY WaitingType
  <1>3. StepsLeft[at] \in 1..5 /\ StepsLeft[at'] \in 1..5
    <2>1. TypeOK'
      BY TypeNext
    <2>2. at \in Place /\ at' \in Place
      BY <2>1 DEF TypeOK
    <2> QED
      BY <2>2 DEF Place, StepsLeft
  <1>4. PICK s \in 1..5 : s = StepsLeft[at']
    BY <1>3
  <1>5. CASE CmdStep
    <2>1. CASE Keeps /\ StepsLeft[at'] < StepsLeft[at]
      <3>1. Near(n, 5 * (i - 1) + s)'
        BY <1>1, <1>4, <2>1 DEF Near, Keeps
      <3>2. 5 * (i - 1) + s \in 1..k /\ 5 * (i - 1) + s # k
        <4>1. s < StepsLeft[at] /\ i - 1 \in Nat
          BY <1>2, <1>4, <2>1
        <4>2. 5 * (i - 1) \in Nat
          BY <4>1
        <4> QED
          BY <1>1, <1>3, <4>1, <4>2
      <3> QED
        BY <3>1, <3>2
    <2>2. CASE Handles /\ at' = "recv" /\ i = 1
      <3>1. executed'[Len(executed) + 1].id = n /\ Len(executed') = Len(executed) + 1
        BY <1>1, <2>2, HandledFacts
      <3>2. Len(executed) \in Nat
        BY ExecutedType
      <3>3. Len(executed) + 1 \in 1..Len(executed')
        BY <3>1, <3>2
      <3> QED
        BY <3>1, <3>3 DEF Ids
    <2>3. CASE Handles /\ at' = "recv" /\ i # 1
      <3>1. /\ Len(Waiting') = Len(Waiting) - 1
            /\ \A m \in 1..Len(Waiting') : Waiting'[m] = Waiting[m + 1]
        BY <2>3, WaitingTail
      <3>2. i - 1 \in 1..Len(Waiting') /\ (i - 1) + 1 = i
        BY <1>2, <2>3, <3>1
      <3>3. Waiting'[i - 1].id = n
        BY <1>1, <3>1, <3>2
      <3>4. StepsLeft[at'] = 5
        BY <2>3 DEF StepsLeft
      <3>5. 5 * (i - 2) + 5 = 5 * ((i - 1) - 1) + 5 /\ 5 * (i - 2) + 5 \in 1..k
            /\ 5 * (i - 2) + 5 # k
        BY <1>1, <1>2, <1>3, <3>2
      <3>6. Near(n, 5 * (i - 2) + 5)'
        BY <3>2, <3>3, <3>4, <3>5 DEF Near
      <3> QED
        BY <3>5, <3>6
    <2> QED
      BY <1>5, <2>1, <2>2, <2>3, CmdStepGoes
  <1>6. CASE ~CmdStep
    <2>1. at' = at /\ (Keeps \/ \E c \in Command : Sends(c))
      BY <1>6, OthersGo
    <2>2. i \in 1..Len(Waiting') /\ Waiting'[i] = Waiting[i]
      <3>1. CASE Waiting' = Waiting
        BY <3>1
      <3>2. ASSUME NEW c \in Command, Waiting' = Append(Waiting, c)
            PROVE  i \in 1..Len(Waiting') /\ Waiting'[i] = Waiting[i]
        BY <1>2, <3>2, WaitingAppend
      <3> QED
        BY <2>1, <3>1, <3>2 DEF Keeps, Sends
    <2>3. Near(n, k)'
      BY <1>1, <2>1, <2>2 DEF Near
    <2>4. k \in 1..k
      BY <1>1, <1>2, <1>3
    <2> QED
      BY <1>6, <2>3, <2>4
  <1> QED
    BY <1>5, <1>6

(* A command that waits comes to its handler: nothing is put in front of    *)
(* it, nothing keeps the command task on the one before it, and every step  *)
(* of that task counts.                                                     *)
THEOREM QueuedComesNearer == Spec => [][ComesNearer]_vars
  BY NearerNext, TypeCorrect, PTL DEF Spec
-----------------------------------------------------------------------------
(* From the rank to QueuedIsHandled *)

(* A command that waits can be gone on with.  The cases of CmdStep cover    *)
(* every place of the task, so this holds by their guards; it is a          *)
(* hypothesis below because the provers do not expand ENABLED.              *)
CmdCanRun == Waiting # <<>> /\ ~halted => ENABLED <<CmdStep>>_vars

Settled(n) == halted \/ dispatching \/ n \in Ids(executed)

Descends(n) == LatticeRule(LAMBDA k : Near(n, k), Settled(n))

LEMMA ComesOneNearer ==
    ASSUME NEW n \in Nat \ {0}, NEW k \in Nat
    PROVE  FairSpec /\ []CmdCanRun =>
               (Near(n, k) ~> (Settled(n) \/ \E j \in 1..k - 1 : Near(n, j)))
  <1> DEFINE Nearer == \E j \in 1..k - 1 : Near(n, j)
  <1>1. TypeOK /\ [Next]_vars /\ Near(n, k) =>
            Settled(n) \/ (Near(n, k) \/ Settled(n) \/ Nearer)'
    <2> SUFFICES ASSUME TypeOK, [Next]_vars, Near(n, k), ~dispatching
                 PROVE  (Near(n, k) \/ Settled(n) \/ Nearer)'
      BY DEF Settled
    <2>1. CASE \E j \in 1..k : Near(n, j)'
      BY <2>1
    <2> QED
      BY <2>1, NearerNext DEF ComesNearer, Settled
  <1>2. TypeOK /\ <<CmdStep>>_vars /\ Near(n, k) => Settled(n) \/ (Settled(n) \/ Nearer)'
    <2> SUFFICES ASSUME TypeOK, CmdStep, Near(n, k), ~dispatching
                 PROVE  (Settled(n) \/ Nearer)'
      BY DEF Settled
    <2>1. ASSUME NEW j \in 1..k, j # k, Near(n, j)' PROVE Nearer'
      BY <2>1
    <2>2. [Next]_vars
      BY DEF Next
    <2> QED
      BY <2>1, <2>2, NearerNext DEF ComesNearer, Settled
  <1>3. TypeOK /\ CmdCanRun /\ Near(n, k) => Settled(n) \/ ENABLED <<CmdStep>>_vars
    <2>1. TypeOK /\ Near(n, k) => Waiting # <<>>
      BY EmptySeq, WaitingType DEF Near
    <2> QED
      BY <2>1 DEF Settled, CmdCanRun
  <1> QED
    BY <1>1, <1>2, <1>3, TypeCorrect, PTL DEF FairSpec, Spec

LEMMA QueuedIsNear ==
    ASSUME NEW n PROVE TypeOK /\ n \in Ids(command_q) => \E k \in Nat : Near(n, k)
  <1> SUFFICES ASSUME TypeOK, n \in Ids(command_q) PROVE \E k \in Nat : Near(n, k)
    OBVIOUS
  <1>1. PICK j \in 1..Len(command_q) : command_q[j].id = n
    BY DEF Ids
  <1>2. cmd \in Seq(Command) /\ command_q \in Seq(Command) /\ at \in Place
    BY DEF TypeOK
  <1>3. Len(cmd) + j \in 1..Len(Waiting) /\ Waiting[Len(cmd) + j] = command_q[j]
    BY <1>2, ConcatProperties DEF Waiting
  <1>4. Len(cmd) + j - 1 \in Nat
    BY <1>2
  <1>5. 5 * (Len(cmd) + j - 1) + StepsLeft[at] \in Nat
    BY <1>2, <1>4 DEF Place, StepsLeft
  <1> QED
    BY <1>1, <1>3, <1>5 DEF Near

LEMMA QueuedSettles ==
    ASSUME NEW n \in Nat \ {0}
    PROVE  FairSpec /\ []CmdCanRun /\ Descends(n) => (n \in Ids(command_q) ~> Settled(n))
  <1>1. FairSpec /\ []CmdCanRun =>
            \A k \in Nat : Near(n, k) ~> (Settled(n) \/ \E j \in 1..k - 1 : Near(n, j))
    BY ComesOneNearer
  <1> QED
    BY <1>1, QueuedIsNear, TypeCorrect, PTL DEF Descends, LatticeRule, FairSpec

(* Every command that reaches command_q is handled, for any length of the   *)
(* queue and any number of commands.  The hypotheses are CmdCanRun, which   *)
(* the guards of the command task's steps give, and instances of a rule of  *)
(* LeadsToRules, a truth of logic.                                          *)
THEOREM QueuedIsHandledByRank ==
    FairSpec /\ []CmdCanRun /\ (\A n \in Nat \ {0} : Descends(n)) => QueuedIsHandled
  <1> SUFFICES ASSUME FairSpec, []CmdCanRun, \A n \in Nat \ {0} : Descends(n),
                      NEW n \in 1..MaxCommands + MaxWrites
               PROVE  n \in Ids(command_q) ~> Settled(n)
    BY DEF QueuedIsHandled, Settled
  <1>1. n \in Nat \ {0}
    BY BoundsAssumption
  <1> QED
    BY <1>1, QueuedSettles
===============================================================================
