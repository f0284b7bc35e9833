------------------------------- MODULE Commands -------------------------------
(***************************************************************************)
(* How a command gets in and to its handler: the BLE host task with the    *)
(* GATT and GAP callbacks of iot_ble.c, the MQTT DATA event, command_q,     *)
(* and the command task with the dispatch through the profile (iot_profile) *)
(* and iot_services.                                                        *)
(*                                                                          *)
(* A GATT or GAP callback is one step: what it touches besides command_q    *)
(* belongs to the BLE host task.  A write of FF01 is a fragment of a JSON:  *)
(* its length and whether it begins with '{' and ends with '}'.  Once in    *)
(* the reassembly buffer it is a piece, which also says where it was copied *)
(* to and which write it was.                                               *)
(*                                                                          *)
(* Not here: what a use case or a download does.  A download reboots from a *)
(* task of its own and ends the behaviour wherever it is.                   *)
(***************************************************************************)
EXTENDS Naturals, Sequences

CONSTANTS
    BufLen,          \* sizeof(s_provision_buf), also of cmd.payload (256)
    MaxFragment,     \* the longest write a central can make
    CommandCap,      \* length of command_q (8 in the code)
    MaxWrites,       \* bound on the writes of FF01, for model checking
    MaxCommands      \* no control write or MQTT command after so many commands

ASSUME BufLenAssumption == BufLen \in Nat \ {0} /\ BufLen < 65536
ASSUME MaxFragmentAssumption == MaxFragment \in Nat \ {0} /\ MaxFragment < 65536
ASSUME CommandCapAssumption == CommandCap \in Nat \ {0}
ASSUME BoundsAssumption == MaxWrites \in Nat /\ MaxCommands \in Nat

VARIABLES
    booting,          \* app_main is still in iot_ble_init
    radio,            \* what the BLE controller does
    adv_failed,       \* the last ble_gap_adv_start failed
    s_connected,
    s_state,          \* s_state of iot_ble.c
    s_provision_len,
    s_provision_buf,  \* the pieces in the buffer
    writes,           \* how many fragments were written to FF01
    command_q,
    sent,             \* how many commands were sent to command_q
    dropped,          \* number and opcode of those that found it full
    refused,          \* the numbers of those whose central was told so
    dispatching,      \* the product's command handler calls the dispatcher back
    at,               \* where the command task is
    cmd,              \* its command, <<>> before the first receive and after each
    executed,         \* the commands that were handled, and by what
    halted            \* a handler, or an endless dispatch, has ended the boot

gapVars == <<booting, radio, adv_failed, s_connected, s_state>>
bufVars == <<s_provision_len, s_provision_buf, writes>>
queueVars == <<command_q, sent, dropped, refused>>
taskVars == <<dispatching, at, cmd, executed, halted>>
vars == <<gapVars, bufVars, queueVars, taskVars>>

Fragment == [len : 1..MaxFragment, open : BOOLEAN, close : BOOLEAN]
Piece == [len : 1..MaxFragment, open : BOOLEAN, close : BOOLEAN,
          at : Nat, write : Nat \ {0}]

(* What becomes of a command in the dispatch: "own" is one the profile's    *)
(* handler answers itself, "invalid" one that validation rejects.           *)
Kind == {"provision", "uc", "ota", "own", "invalid", "other"}
Opcode == {"FF01", "FF03", "MQ"}
Place == {"recv", "hook", "profile", "services", "provision"}
Outcome == {"provision", "uc", "ota", "own", "rejected", "none"}
Command == [id : Nat \ {0}, opcode : Opcode, kind : Kind, payload_len : Nat,
            payload : Seq(Piece)]

(* A central connects only after the host task's first synchronisation.     *)
Init ==
    /\ booting = TRUE
    /\ radio = "off"
    /\ adv_failed = FALSE
    /\ s_connected = FALSE
    /\ s_state = "IDLE"
    /\ s_provision_len = 0
    /\ s_provision_buf = <<>>
    /\ writes = 0
    /\ command_q = <<>>
    /\ sent = 0
    /\ dropped = {}
    /\ refused = {}
    /\ dispatching \in BOOLEAN
    /\ at = "recv"
    /\ cmd = <<>>
    /\ executed = <<>>
    /\ halted = FALSE
-----------------------------------------------------------------------------
(* iot_ble_init, ble_on_sync and gap_event *)

(* iot_ble_start_advertising, which sets the state only when it succeeds.   *)
StartAdvertising(st) ==
    \/ radio' = "advertising" /\ adv_failed' = FALSE /\ s_state' = "ADVERTISING"
    \/ radio' = "silent" /\ adv_failed' = TRUE /\ s_state' = st

(* app_main comes back from starting the host task, of higher priority,     *)
(* which may have got far by then.                                          *)
BleInitReturns ==
    /\ ~halted
    /\ booting
    /\ booting' = FALSE
    /\ s_state' = "ADVERTISING"
    /\ UNCHANGED <<radio, adv_failed, s_connected, bufVars, queueVars, taskVars>>

OnSync ==
    /\ ~halted
    /\ radio = "off"
    /\ StartAdvertising(s_state)
    /\ UNCHANGED <<booting, s_connected, bufVars, queueVars, taskVars>>

GapConnect ==
    /\ ~halted
    /\ radio = "advertising"
    /\ radio' = "connected"
    /\ s_connected' = TRUE
    /\ s_state' = "CONNECTED"
    /\ UNCHANGED <<booting, adv_failed, bufVars, queueVars, taskVars>>

(* The connection could not be made; advertising had stopped for it. *)
GapConnectFails ==
    /\ ~halted
    /\ radio = "advertising"
    /\ StartAdvertising("ADVERTISING")
    /\ UNCHANGED <<booting, s_connected, bufVars, queueVars, taskVars>>

(* A slip: advertising is left to somebody else. *)
GapDisconnectQuiet ==
    /\ ~halted
    /\ radio = "connected"
    /\ s_connected' = FALSE
    /\ s_state' = "ADVERTISING"
    /\ radio' = "silent"
    /\ UNCHANGED <<booting, adv_failed, bufVars, queueVars, taskVars>>

(* The reassembly buffer keeps what the connection has left in it. *)
GapDisconnect ==
    /\ ~halted
    /\ radio = "connected"
    /\ s_connected' = FALSE
    /\ StartAdvertising("ADVERTISING")
    /\ UNCHANGED <<booting, bufVars, queueVars, taskVars>>
-----------------------------------------------------------------------------
(* iot_queue_send(command_q, ..., 0) *)

Post(opcode, kind, len, payload) ==
    /\ sent' = sent + 1
    /\ \/ /\ Len(command_q) < CommandCap
          /\ command_q' = Append(command_q, [id |-> sent + 1, opcode |-> opcode, kind |-> kind,
                                             payload_len |-> len, payload |-> payload])
          /\ UNCHANGED dropped
       \/ /\ Len(command_q) = CommandCap
          /\ dropped' = dropped \cup {[id |-> sent + 1, opcode |-> opcode]}
          /\ UNCHANGED command_q

(* gatt_access, a write of FF01 *)

(* A slip: no room is kept for the terminator. *)
RoomNoTerminator == (BufLen - s_provision_len) % 65536

(* The subtraction is one of 16-bit unsigned numbers. *)
Room == (BufLen - 1 - s_provision_len) % 65536

ResetBuffer == s_provision_len' = 0 /\ s_provision_buf' = <<>>

Written ==
    /\ ~halted
    /\ radio = "connected"
    /\ writes < MaxWrites
    /\ writes' = writes + 1

(* The buffer with fragment f copied in. *)
Filled(f) ==
    Append(s_provision_buf,
           [len |-> f.len, open |-> f.open, close |-> f.close,
            at |-> s_provision_len, write |-> writes + 1])

Fits(f) == Written /\ f.len <= Room

(* Too long, or the copy fails: the transaction is cleared. *)
ConfigRejected(f) ==
    /\ Written
    /\ ResetBuffer
    /\ UNCHANGED <<gapVars, queueVars, taskVars>>

ConfigBadStart(f) ==
    /\ Fits(f)
    /\ ~Filled(f)[1].open
    /\ ResetBuffer
    /\ UNCHANGED <<gapVars, queueVars, taskVars>>

ConfigPart(f) ==
    /\ Fits(f)
    /\ Filled(f)[1].open
    /\ ~f.close
    /\ s_provision_buf' = Filled(f)
    /\ s_provision_len' = s_provision_len + f.len
    /\ UNCHANGED <<gapVars, queueVars, taskVars>>

(* A slip: the buffer is not reset. *)
ConfigWholeNoReset(f) ==
    /\ Fits(f)
    /\ Filled(f)[1].open
    /\ f.close
    /\ s_provision_buf' = Filled(f)
    /\ s_provision_len' = s_provision_len + f.len
    /\ Post("FF01", "provision", s_provision_len + f.len, Filled(f))
    /\ refused' = IF Len(command_q) = CommandCap THEN refused \cup {sent + 1} ELSE refused
    /\ UNCHANGED <<gapVars, taskVars>>

(* The last fragment's answer says whether the JSON was queued. *)
ConfigWhole(f) ==
    /\ Fits(f)
    /\ Filled(f)[1].open
    /\ f.close
    /\ ResetBuffer
    /\ Post("FF01", "provision", s_provision_len + f.len, Filled(f))
    /\ refused' = IF Len(command_q) = CommandCap THEN refused \cup {sent + 1} ELSE refused
    /\ UNCHANGED <<gapVars, taskVars>>

(* Any other write (of FF03) is answered with success in every case.  Its   *)
(* payload does not matter here: its length stands as 0.                    *)
ControlWrite ==
    /\ ~halted
    /\ radio = "connected"
    /\ sent < MaxCommands
    /\ \E k \in Kind \ {"provision"} : Post("FF03", k, 0, <<>>)
    /\ UNCHANGED <<gapVars, bufVars, refused, taskVars>>

(* mqtt_event, MQTT_EVENT_DATA, on the task of an MQTT client *)
MqttData ==
    /\ ~halted
    /\ sent < MaxCommands
    /\ \E k \in Kind : Post("MQ", k, 0, <<>>)
    /\ UNCHANGED <<gapVars, bufVars, refused, taskVars>>
-----------------------------------------------------------------------------
(* cmd_task.  The shutdown flag it polls is set by a handler of its own,    *)
(* plt.shutdown, which ends the boot at once (see RequestShutdown and       *)
(* ShutdownEvent of Telemetry): the flag is never seen set.                 *)

(* A slip: the command stays in the queue until it was handled. *)
CmdRecvPeek ==
    /\ ~halted
    /\ at = "recv"
    /\ command_q # <<>>
    /\ cmd' = <<Head(command_q)>>
    /\ at' = "hook"
    /\ UNCHANGED <<gapVars, bufVars, queueVars, dispatching, executed, halted>>

CmdRecv ==
    /\ ~halted
    /\ at = "recv"
    /\ command_q # <<>>
    /\ cmd' = <<Head(command_q)>>
    /\ command_q' = Tail(command_q)
    /\ at' = "hook"
    /\ UNCHANGED <<gapVars, bufVars, sent, dropped, refused, dispatching, executed, halted>>

(* The command is done with: handled by what "by" names. *)
Finish(by) ==
    /\ executed' = Append(executed, [id |-> cmd[1].id, by |-> by])
    /\ cmd' = <<>>
    /\ at' = "recv"
    /\ UNCHANGED <<dispatching, halted>>

Goto(label) == at' = label /\ UNCHANGED <<dispatching, cmd, executed, halted>>

Halt == halted' = TRUE /\ UNCHANGED <<dispatching, at, cmd, executed>>

(* profile_cmd_hook *)
CmdHook ==
    /\ ~halted
    /\ at = "hook"
    /\ Goto(IF cmd[1].opcode = "FF01" THEN "provision" ELSE "profile")
    /\ UNCHANGED <<gapVars, bufVars, queueVars>>

(* A slip: a handler that serves its commands asks the dispatcher instead. *)
CmdProfileDispatches ==
    /\ ~halted
    /\ at = "profile"
    /\ IF cmd[1].kind = "own" THEN Finish("own") ELSE Goto("hook")
    /\ UNCHANGED <<gapVars, bufVars, queueVars>>

(* The handler of the profile.  Five of the ten call the dispatcher, which  *)
(* calls them: until the stack or the watchdog's patience ends.             *)
CmdProfile ==
    /\ ~halted
    /\ at = "profile"
    /\ \/ cmd[1].kind = "own" /\ Finish("own")
       \/ cmd[1].kind # "own" /\ ~dispatching /\ Goto("services")
       \/ cmd[1].kind # "own" /\ dispatching /\ Goto("hook")
       \/ cmd[1].kind # "own" /\ dispatching /\ Halt
    /\ UNCHANGED <<gapVars, bufVars, queueVars>>

(* iot_services_handle_command; a use case may be plt.shutdown. *)
CmdServices ==
    /\ ~halted
    /\ at = "services"
    /\ \/ cmd[1].kind = "invalid" /\ Finish("rejected")
       \/ cmd[1].kind = "uc" /\ (Finish("uc") \/ Halt)
       \/ cmd[1].kind = "provision" /\ Goto("provision")
       \/ cmd[1].kind = "ota" /\ Finish("ota")
       \/ cmd[1].kind = "other" /\ Finish("none")
    /\ UNCHANGED <<gapVars, bufVars, queueVars>>

(* iot_provision_apply_json, which returns in the end (CommandReturns of    *)
(* Connectivity); until then the queue fills.                               *)
CmdProvision ==
    /\ ~halted
    /\ at = "provision"
    /\ Finish("provision")
    /\ UNCHANGED <<gapVars, bufVars, queueVars>>
-----------------------------------------------------------------------------
GapStep == BleInitReturns \/ OnSync \/ GapConnect \/ GapConnectFails \/ GapDisconnect
ConfigWrite(f) == ConfigRejected(f) \/ ConfigBadStart(f) \/ ConfigPart(f) \/ ConfigWhole(f)
CmdStep == CmdRecv \/ CmdHook \/ CmdProfile \/ CmdServices \/ CmdProvision

Next ==
    \/ GapStep
    \/ \E f \in Fragment : ConfigWrite(f)
    \/ ControlWrite
    \/ MqttData
    \/ CmdStep

Spec == Init /\ [][Next]_vars

(* The command task runs whenever it is ready.  Nothing is assumed of the  *)
(* centrals, the broker or the radio.                                       *)
FairSpec == Spec /\ WF_vars(CmdStep)
-----------------------------------------------------------------------------
Last(s) == s[Len(s)]

(* Pieces that lie in the buffer without gap or overlap, fill n bytes, and  *)
(* are consecutive writes of FF01.                                          *)
Tiles(s, n) ==
    /\ s = <<>> => n = 0
    /\ s # <<>> => s[1].at = 0 /\ s[1].open /\ n = Last(s).at + Last(s).len
    /\ \A i \in 1..Len(s) - 1 :
         /\ s[i + 1].at = s[i].at + s[i].len
         /\ s[i + 1].write = s[i].write + 1
         /\ ~s[i].close

Waiting == cmd \o command_q

Ids(s) == {s[i].id : i \in 1..Len(s)}

(* Every variable has its type; the accumulated length leaves room for the *)
(* terminator and the queue respects its length.                            *)
TypeOK ==
    /\ booting \in BOOLEAN
    /\ radio \in {"off", "advertising", "connected", "silent"}
    /\ adv_failed \in BOOLEAN
    /\ s_connected \in BOOLEAN
    /\ s_state \in {"IDLE", "ADVERTISING", "CONNECTED"}
    /\ s_provision_len \in 0..BufLen - 1
    /\ s_provision_buf \in Seq(Piece)
    /\ writes \in Nat
    /\ command_q \in Seq(Command) /\ Len(command_q) <= CommandCap
    /\ sent \in Nat
    /\ dropped \in SUBSET [id : 1..sent, opcode : Opcode]
    /\ refused \in SUBSET (1..sent)
    /\ dispatching \in BOOLEAN
    /\ at \in Place
    /\ cmd \in Seq(Command) /\ Len(cmd) <= 1
    /\ cmd = <<>> <=> at = "recv"
    /\ executed \in Seq([id : Nat \ {0}, by : Outcome])
    /\ halted \in BOOLEAN

(* What provisioning gets is one JSON as the central wrote it: consecutive  *)
(* writes, complete, in place, from the first '{' to the first fragment     *)
(* that ends in '}', with room for the terminator; whatever was rejected,   *)
(* failed or interleaved with other writes before.                          *)
Whole(c) ==
    /\ c.payload # <<>>
    /\ Tiles(c.payload, c.payload_len)
    /\ Last(c.payload).close
    /\ c.payload_len < BufLen

WholeJson ==
    \A i \in 1..Len(Waiting) : Waiting[i].opcode = "FF01" => Whole(Waiting[i])

(* No write is used twice: a later JSON is made of later writes, and what   *)
(* is in the buffer is later than every JSON queued.                        *)
WritesUsedOnce ==
    \A i \in 1..Len(Waiting) :
        Waiting[i].opcode = "FF01" =>
            /\ \A j \in i + 1..Len(Waiting) :
                 Waiting[j].opcode = "FF01" =>
                     Last(Waiting[i].payload).write < Waiting[j].payload[1].write
            /\ s_provision_buf # <<>> =>
                 Last(Waiting[i].payload).write < s_provision_buf[1].write

(* The two together: what provisioning gets was written so, and that once.  *)
JsonsAreSound == WholeJson /\ WritesUsedOnce

(* Every command sent is waiting, done or dropped, and only one of these;   *)
(* commands are handled in the order in which they were sent, each once;    *)
(* and a command that is dropped was refused to its central if and only if  *)
(* it is a provisioning JSON.                                               *)
CommandsAccounted ==
    /\ Ids(executed) \cup Ids(Waiting) \cup {d.id : d \in dropped} = 1..sent
    /\ \A d \in dropped : d.id \notin Ids(executed) \cup Ids(Waiting)
    /\ \A i, j \in 1..Len(executed) : i < j => executed[i].id < executed[j].id
    /\ \A i, j \in 1..Len(Waiting) : i < j => Waiting[i].id < Waiting[j].id
    /\ \A i \in 1..Len(executed), j \in 1..Len(Waiting) : executed[i].id < Waiting[j].id
    /\ \A d \in dropped : d.opcode = "FF01" <=> d.id \in refused

(* What the dispatch knows of a command. *)
Requests(s) ==
    [i \in 1..Len(s) |-> [id |-> s[i].id, opcode |-> s[i].opcode, kind |-> s[i].kind]]

(* The queue, the command task and the dispatch are the stream of            *)
(* CommandStream: nothing is lost but in a full queue, nothing overtakes,    *)
(* and no handler gets what another is for.                                  *)
Stream == INSTANCE CommandStream WITH waiting <- Requests(Waiting), handled <- executed

StreamSpec == Stream!Spec

(* The device is connected or can be found, unless starting to advertise   *)
(* failed, whatever connections are made, fail and end; s_connected, which  *)
(* decides on notifications, is the radio's state, and s_state never claims *)
(* a connection that is not there.                                          *)
Discoverable ==
    /\ radio = "silent" => adv_failed
    /\ s_connected <=> radio = "connected"
    /\ s_state = "CONNECTED" => s_connected

(* Every command that reaches command_q is handled, unless the boot ends or *)
(* the product's handler and the dispatcher call each other.                *)
QueuedIsHandled ==
    \A n \in 1..MaxCommands + MaxWrites :
        n \in Ids(command_q) ~> (halted \/ dispatching \/ n \in Ids(executed))

(* What docs/usecases says: payloads with a "uc" key are executed on the    *)
(* command task, after validation.  None ends the boot on its way there.    *)
UcIsExecuted ==
    \A i \in 1..Len(cmd) : halted /\ cmd[i].kind = "uc" => at = "services"
===============================================================================
