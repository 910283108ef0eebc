------------------------------- MODULE CtlApi --------------------------------
(***************************************************************************)
(* User tasks that run the calls of QcomApi, the driver task that runs the *)
(* handlers of CtlEvents, and the target, which answers commands in any    *)
(* order that keeps those of one kind.                                     *)
(*                                                                         *)
(* A task holds what remains of its program.  All user tasks wait on one   *)
(* event, userWakeEvent: a wait clears it, it is cleared once more, and    *)
(* the condition is tested again.                                          *)
(***************************************************************************)
EXTENDS CtlEvents, QcomApi, FiniteSets

CONSTANTS
  Users,      \* user tasks
  Driver,     \* the driver task
  Nobody,     \* no task
  NDevices,   \* the most devices there are
  Settings    \* a set of records: the number of devices, the calls of each
              \* user task, a bound on inbox, and what happens, of Hazards

Hazards ==
  {"send_fails",  \* wmi_cmd_start fails
   "late",        \* the target is later than a caller's time limit
   "tx",          \* transmit completions wake user tasks
   "p2p_events",  \* peers cause P2P events
   "lost_link",   \* connections are lost
   "tkip"}        \* and attacked

Devices == 0..(NDevices - 1)
Tasks == Users \cup {Driver}

ASSUME NumberAssumption == NDevices \in {1, 2}
ASSUME TaskAssumption ==
          Driver \notin Users /\ Nobody \notin Users \cup {Driver}
ASSUME SettingsAssumption ==
          \A s \in Settings :
            /\ s.devices \in 1..NDevices /\ DOMAIN s.calls = Users
            /\ s.inbox \in Nat \ {0} /\ s.happens \subseteq Hazards

VARIABLES
  task,    \* of each task: the rest of its program, and how it goes
  devId,   \* the driver's current device
  flag,    \* driver state that calls and handlers set and wait for
  conn,    \* driver state of each device
  place,   \* results that handlers leave for callers
  wake,    \* userWakeEvent
  wpsBuf,  \* "none", "held" (a buffer) or "freed" (but not yet NULL)
  badFree, \* wpsBuf was freed twice, or while it was read
  inbox,   \* commands the target has not answered
  target,  \* of each device: "off", "trying" to connect or "on"
  setting  \* of Settings, chosen at the start

vars == <<task, devId, flag, conn, place, wake, wpsBuf, badFree, inbox, target,
          setting>>

WLAN_NUM_OF_DEVICES == setting.devices
Happens == setting.happens
MaxInbox == setting.inbox     \* bound: unanswered commands when a call starts

Flags == {"rssiFlag", "temperatureValid", "countryCodeValid", "setparamValid",
          "pfmDone", "dset_op_done", "wps_init_key", "hb_challenge_done",
          "scanDone", "extended_scan", "wpsState", "wps_in_progress",
          "p2p_avail", "p2pEvtState", "p2pevtflag", "strrclInit",
          "strrclBlock", "tkipCountermeasures", "testResp", "asynchRequest"}
Places == {"rssi", "temperature", "countryCode", "setparamStatus", "wpaPmk",
           "pScanOut"}
Kinds == {"none", "stats", "reply", "set_param", "dset_op", "scan",
          "p2p_answer", "p2p_event", "test"}

\* For whom a task works: for the current call of "user", if it is live;
\* "dev" is the device of its event or call, "aim" that of its ioctl, "failed"
\* what went wrong last.  Ghosts: "on", the devices its call selects, and
\* "crossed", if a call that selects another was under way with it.
Idle(t) == [todo |-> <<>>, dev |-> 0, aim |-> 0, on |-> {}, crossed |-> FALSE,
            result |-> "ok", failed |-> "nothing",
            late |-> FALSE, blocked |-> "no", reading |-> FALSE,
            user |-> IF t = Driver THEN Nobody ELSE t, live |-> FALSE,
            cur |-> t # Driver]

Init ==
  /\ task = [t \in Tasks |-> Idle(t)]
  /\ devId = 0
  /\ flag = [f \in Flags |-> FALSE]
  /\ conn = [d \in Devices |-> [f \in DeviceFlags |-> FALSE]]
  /\ place = [p \in Places |-> [kind |-> "none", user |-> Nobody,
                                live |-> FALSE]]
  /\ wake = FALSE /\ wpsBuf = "none" /\ badFree = FALSE
  /\ inbox = <<>> /\ target = [d \in Devices |-> "off"]
  /\ setting \in Settings

-----------------------------------------------------------------------------
\* A handler works on its event's device, a call on the current one.
DeviceOf(t) == IF task[t].cur THEN devId ELSE task[t].dev

Holds(t, f) ==
  CASE f = "failed"      -> task[t].failed # "nothing"
    [] f = "timed out"   -> task[t].late
    [] f = "joined"      -> conn[DeviceOf(t)].isConnected
                              \/ conn[DeviceOf(t)].isConnectPending
    [] f = "current"     -> task[t].dev = devId
    [] f = "device 0"    -> task[t].dev = 0
    [] f = "two devices" -> WLAN_NUM_OF_DEVICES = 2
    [] f \in {"wps_init_key is A_TRUE", "countryCodeProgram"} -> FALSE
    [] f \in DeviceFlags -> conn[DeviceOf(t)][f]
    [] OTHER             -> flag[f]

Busy(t) == task[t].todo # <<>>
Now(t)  == Head(task[t].todo)
At(t, op) == Busy(t) /\ Now(t).op = op

\* task[t] after the next n instructions.
After(t, n) ==
  [task[t] EXCEPT !.todo = SubSeq(@, n + 1, Len(@)), !.blocked = "no"]
Finish(t, rec) == task' = [task EXCEPT ![t] =
                             IF rec.todo = <<>> /\ t = Driver
                             THEN Idle(Driver) ELSE rec]
Step(t, n) == Finish(t, After(t, n))
Fail(t) ==
  LET i == Now(t)
  IN  Finish(t, [After(t, 1 + i.skip) EXCEPT
                   !.failed = IF i.op = "send" THEN i.arg ELSE i.op,
                   !.result = IF i.report = "drop" THEN @ ELSE i.report])

-----------------------------------------------------------------------------
\* The instructions.
WmiUnchanged == UNCHANGED <<wpsBuf, badFree, target, setting>>

AnswerTo(cmd) == IF cmd \in DOMAIN Answers THEN Answers[cmd]
                 ELSE IF cmd \in DOMAIN ExtendedAnswers
                 THEN ExtendedAnswers[cmd] ELSE <<>>

\* The header of a command names the current device.
wmi_cmd_start(t) ==
  /\ At(t, "send")
  /\ \/ /\ Step(t, 1)
        /\ inbox' = IF AnswerTo(Now(t).arg) = <<>> THEN inbox
                    ELSE Append(inbox,
                           [cmd |-> Now(t).arg, dev |-> devId,
                            user |-> task[t].user, live |-> t # Driver])
     \/ "send_fails" \in Happens /\ Fail(t) /\ UNCHANGED inbox
  /\ UNCHANGED <<devId, flag, conn, place, wake>> /\ WmiUnchanged

Require(t) ==
  /\ \/ At(t, "need") /\ (IF Holds(t, Now(t).arg) = Now(t).val
                          THEN Step(t, 1) ELSE Fail(t))
     \/ At(t, "check") /\ (Step(t, 1) \/ Fail(t))
  /\ UNCHANGED <<devId, flag, conn, place, wake, inbox>> /\ WmiUnchanged

\* During WPS the device changes too, but the caller is told of an error;
\* whether it notices depends on the value of ENET_ERROR.
ATH_SET_DEVICE_ID(t) ==
  /\ At(t, "device")
  /\ LET d == IF Now(t).arg = "call" THEN task[t].dev ELSE Now(t).val
     IN /\ devId' = d
        /\ \/ Finish(t, [After(t, 1) EXCEPT !.aim = d])
           \/ d # devId /\ flag["wps_in_progress"] /\ Fail(t)
  /\ UNCHANGED <<flag, conn, place, wake, inbox>> /\ WmiUnchanged

Assign(t) ==
  /\ At(t, "set")
  /\ Step(t, 1)
  /\ IF Now(t).arg \in DeviceFlags
     THEN /\ conn' = [conn EXCEPT ![DeviceOf(t)][Now(t).arg] = Now(t).val]
          /\ UNCHANGED flag
     ELSE flag' = [flag EXCEPT ![Now(t).arg] = Now(t).val] /\ UNCHANGED conn
  /\ UNCHANGED <<devId, place, wake, inbox>> /\ WmiUnchanged

Branch(t) ==
  /\ \/ At(t, "skip") /\ Step(t, IF Holds(t, Now(t).arg) = Now(t).val[1]
                                 THEN 1 + Now(t).val[2] ELSE 1)
     \/ At(t, "maybe") /\ (Step(t, 1) \/ Step(t, 1 + Now(t).val))
     \/ At(t, "jump") /\ Step(t, 1 + Now(t).val)
     \/ At(t, "current") /\ Finish(t, [After(t, 1) EXCEPT !.cur = TRUE])
  /\ UNCHANGED <<devId, flag, conn, place, wake, inbox>> /\ WmiUnchanged

Result(t) ==
  /\ Step(t, 1)
  /\ \/ At(t, "put") /\ place' = [place EXCEPT ![Now(t).arg] =
                                    [kind |-> Now(t).val,
                                     user |-> task[t].user,
                                     live |-> task[t].live]]
     \/ At(t, "take") /\ UNCHANGED place
  /\ UNCHANGED <<devId, flag, conn, wake, inbox>> /\ WmiUnchanged

Wake(t) ==
  /\ At(t, "wake")
  /\ Step(t, 1)
  /\ wake' = (wake \/ Now(t).arg = "userWakeEvent")
  /\ UNCHANGED <<devId, flag, conn, place, inbox>> /\ WmiUnchanged

\* wpsBuf.  The event and ATH_START_WPS hold the driver's lock.
Freed == badFree' = (badFree \/ wpsBuf = "freed"
                             \/ \E u \in Users : task[u].reading)
WpsBuffer(t) ==
  /\ At(t, "wps")
  /\ \/ /\ Now(t).arg = "forget" /\ Step(t, 1)
        /\ IF wpsBuf = "none" THEN UNCHANGED badFree ELSE Freed
        /\ wpsBuf' = "none" /\ flag' = [flag EXCEPT !["wpsState"] = FALSE]
        /\ UNCHANGED wake
     \/ /\ Now(t).arg = "keep" /\ Step(t, 1)
        /\ IF wpsBuf = "none" THEN UNCHANGED badFree ELSE Freed
        /\ wpsBuf' = "held" /\ flag' = [flag EXCEPT !["wpsState"] = FALSE]
        /\ wake' = TRUE
     \/ /\ Now(t).arg = "use"
        /\ IF wpsBuf = "none" THEN Fail(t)
           ELSE Finish(t, [After(t, 1) EXCEPT !.reading = TRUE])
        /\ UNCHANGED <<wpsBuf, badFree, flag, wake>>
     \/ /\ Now(t).arg = "free" /\ Finish(t, [After(t, 1) EXCEPT
                                               !.reading = FALSE])
        /\ badFree' = (badFree \/ wpsBuf # "held") /\ wpsBuf' = "freed"
        /\ UNCHANGED <<flag, wake>>
     \/ /\ Now(t).arg = "null" /\ Step(t, 1) /\ wpsBuf' = "none"
        /\ UNCHANGED <<badFree, flag, wake>>
  /\ UNCHANGED <<devId, conn, place, inbox, target, setting>>

(***************************************************************************)
(* Waiting.  The target keeps the time limits unless "late" happens, so    *)
(* one passes only when nothing is owed to the caller.                     *)
(***************************************************************************)
Owed(u) == \/ \E k \in DOMAIN inbox : inbox[k].user = u /\ inbox[k].live
           \/ Busy(Driver) /\ task[Driver].user = u
Waits(t) == At(t, "await") \/ At(t, "awaitever")
Met(t)   == Holds(t, Now(t).arg) = Now(t).val


TimeLimit(t) ==
  /\ task[t].blocked = "wait"
  /\ \/ At(t, "await") /\ (Owed(t) => "late" \in Happens)
        /\ Finish(t, [After(t, 1) EXCEPT !.late = TRUE])
     \/ At(t, "awaitever") /\ Met(t)
        /\ task' = [task EXCEPT ![t].blocked = "no"]
  /\ UNCHANGED <<devId, flag, conn, place, wake, inbox>> /\ WmiUnchanged

Driver_WaitForCondition(t) ==
  /\ Waits(t)
  /\ \/ /\ task[t].blocked = "no"
        /\ IF Met(t) THEN Step(t, 1)
                     ELSE task' = [task EXCEPT ![t].blocked = "wait"]
        /\ UNCHANGED wake
     \/ /\ task[t].blocked = "wait" /\ wake
        /\ task' = [task EXCEPT ![t].blocked = "clear"] /\ wake' = FALSE
     \/ /\ task[t].blocked = "clear"
        /\ task' = [task EXCEPT ![t].blocked = "no"] /\ wake' = FALSE
  /\ UNCHANGED <<devId, flag, conn, place, inbox>> /\ WmiUnchanged

Instruction(t) ==
  \/ wmi_cmd_start(t) \/ Require(t) \/ ATH_SET_DEVICE_ID(t) \/ Assign(t)
  \/ Branch(t) \/ Result(t) \/ Wake(t) \/ WpsBuffer(t)
  \/ Driver_WaitForCondition(t)

-----------------------------------------------------------------------------
\* What was left of earlier calls is not an answer to this one.
Stale(u, r) == [r EXCEPT !.live = @ /\ r.user # u]

\* The devices a call selects.
Selects(prog, d) ==
  {IF prog[k].arg = "call" THEN d ELSE prog[k].val :
     k \in {j \in DOMAIN prog : prog[j].op = "device"}}

\* Who is busy with another device than these.
Crossing(u, on) ==
  {v \in Users \ {u} : Busy(v) /\ Cardinality(task[v].on \cup on) > 1}

Call(u) ==
  /\ ~Busy(u)
  /\ Len(inbox) < MaxInbox
  /\ \E prog \in setting.calls[u], d \in 0..(WLAN_NUM_OF_DEVICES - 1) :
       LET on == Selects(prog, d)
           mine == [Idle(u) EXCEPT !.todo = prog, !.dev = d, !.aim = d,
                      !.live = TRUE, !.on = on,
                      !.crossed = Crossing(u, on) # {}]
       IN task' = [t \in Tasks |->
                     CASE t = u      -> mine
                       [] t = Driver -> Stale(u, task[t])
                       [] OTHER      -> [task[t] EXCEPT
                                  !.crossed = @ \/ t \in Crossing(u, on)]]
  /\ inbox' = [k \in DOMAIN inbox |-> Stale(u, inbox[k])]
  /\ place' = [p \in Places |-> Stale(u, place[p])]
  /\ UNCHANGED <<devId, flag, conn, wake>> /\ WmiUnchanged

\* The driver task starts the handler of an event.
Handle(prog, d, u, live) ==
  /\ ~Busy(Driver)
  /\ task' = [task EXCEPT ![Driver] =
                [Idle(Driver) EXCEPT !.todo = prog, !.dev = d,
                                     !.user = u, !.live = live]]

Links == {"CONNECT", "DISCONNECT"}
Alike(c, e) == c.cmd = e.cmd \/ {c.cmd, e.cmd} \subseteq Links

\* The target may also be unable to connect: it leaves the network it was
\* in and goes on trying.
wmi_control_rx ==
  /\ \E k \in DOMAIN inbox :
       LET c == inbox[k]
       IN /\ \A j \in 1..(k - 1) : ~Alike(inbox[j], c)
          /\ inbox' = SubSeq(inbox, 1, k - 1)
                      \o SubSeq(inbox, k + 1, Len(inbox))
          /\ \/ /\ Handle(AnswerTo(c.cmd), c.dev, c.user, c.live)
                /\ target' = IF c.cmd \in Links
                             THEN [target EXCEPT ![c.dev] =
                                     IF c.cmd = "CONNECT" THEN "on" ELSE "off"]
                             ELSE target
             \/ /\ c.cmd = "CONNECT" /\ ~Busy(Driver)
                /\ target' = [target EXCEPT ![c.dev] = "trying"]
                /\ IF target[c.dev] = "on"
                   THEN Handle(Api_DisconnectEvent("NO_NETWORK_AVAIL"), c.dev,
                               Nobody, FALSE)
                   ELSE UNCHANGED task
  /\ UNCHANGED <<devId, flag, conn, place, wake, wpsBuf, badFree, setting>>

\* Events nobody asked for.
LinkEvent(d) ==
  /\ Len(inbox) < MaxInbox
  /\ \/ /\ "lost_link" \in Happens /\ target[d] = "on"
        /\ target' = [target EXCEPT ![d] = "trying"]
        /\ Handle(Api_DisconnectEvent("NO_NETWORK_AVAIL"), d, Nobody, FALSE)
     \/ /\ target[d] = "trying"
        /\ target' = [target EXCEPT ![d] = "on"]
        /\ Handle(Api_ConnectEvent, d, Nobody, FALSE)
     \/ /\ "tkip" \in Happens /\ target[d] = "on"
        /\ ~\E k \in DOMAIN inbox : inbox[k].user = Nobody
        /\ Handle(Api_TkipMicErrorEvent, d, Nobody, FALSE) /\ UNCHANGED target
  /\ UNCHANGED <<devId, flag, conn, place, wake, wpsBuf, badFree, inbox,
                 setting>>

P2pEventRx ==
  /\ "p2p_events" \in Happens
  /\ \E prog \in Unasked : Handle(prog, 0, Nobody, FALSE)
  /\ UNCHANGED <<devId, flag, conn, place, wake, inbox>> /\ WmiUnchanged

\* Every transmit completion wakes user tasks.
Api_TxComplete ==
  /\ "tx" \in Happens /\ ~Busy(Driver) /\ ~wake
  /\ wake' = TRUE
  /\ UNCHANGED <<task, devId, flag, conn, place, inbox>> /\ WmiUnchanged

\* The driver task runs the request it finds (the life cycle is elsewhere).
AsynchRequest ==
  /\ ~Busy(Driver) /\ flag["asynchRequest"]
  /\ flag' = [flag EXCEPT !["asynchRequest"] = FALSE]
  /\ UNCHANGED <<task, devId, conn, place, wake, inbox>> /\ WmiUnchanged

Next ==
  \/ \E u \in Users : Call(u) \/ TimeLimit(u)
  \/ \E t \in Tasks : Instruction(t)
  \/ wmi_control_rx \/ \E d \in Devices : LinkEvent(d)
  \/ P2pEventRx \/ Api_TxComplete \/ AsynchRequest

Spec == Init /\ [][Next]_vars

(***************************************************************************)
(* Tasks run, time passes and the target answers; the driver task takes    *)
(* events in the order in which they arrive, so none is passed over for    *)
(* ever.                                                                   *)
(***************************************************************************)
AnswerOldest == wmi_control_rx /\ inbox' = Tail(inbox)
Fairness == /\ \A t \in Tasks : WF_vars(Instruction(t))
            /\ \A u \in Users : WF_vars(TimeLimit(u))
            /\ SF_vars(AnswerOldest)
LiveSpec == Spec /\ Fairness

-----------------------------------------------------------------------------
OneCaller == Cardinality({u \in Users : setting.calls[u] # {}}) = 1

\* The driver waits for the answer to a command that was not sent: these
\* calls do not look at the result of wmi_cmd_start.
Unsent(u) == task[u].failed \in {"GET_STATISTICS", "PFM_GET", "DSET_OP"}

TypeOK ==
  /\ \A t \in Tasks : /\ task[t].dev \in Devices /\ task[t].aim \in Devices
                      /\ task[t].on \subseteq Devices
                      /\ task[t].result \in {"ok", "error", "any"}
                      /\ task[t].blocked \in {"no", "wait", "clear"}
                      /\ task[t].user \in Users \cup {Nobody}
  /\ devId \in Devices
  /\ flag \in [Flags -> BOOLEAN]
  /\ conn \in [Devices -> [DeviceFlags -> BOOLEAN]]
  /\ place \in [Places -> [kind : Kinds, user : Users \cup {Nobody},
                           live : BOOLEAN]]
  /\ wake \in BOOLEAN /\ badFree \in BOOLEAN
  /\ wpsBuf \in {"none", "held", "freed"}
  /\ target \in [Devices -> {"off", "trying", "on"}]

(***************************************************************************)
(* A caller that stopped waiting reads the answer to its own command: the  *)
(* handler stored it before it changed the flag, and nothing that was      *)
(* asked for earlier, by others or by another call, is taken for it        *)
(* (cust_api_ioctl.c:414 "block here until event arrives from wifi         *)
(* device").  The target is in time; the handlers of three answers change  *)
(* the flag first.                                                         *)
(***************************************************************************)
FlagFirst == {"temperature", "countryCode", "setparamStatus"}
AnswerIsForCall ==
  "late" \notin Happens => \A u \in Users :
    At(u, "take") /\ Now(u).arg \notin FlagFirst \cup {"pScanOut"}
      => place[Now(u).arg] = [kind |-> Now(u).val, user |-> u, live |-> TRUE]

(***************************************************************************)
(* pScanOut is shared by scans and P2P answers and events; what a caller   *)
(* finds in it is of the kind it asked for (driver_cxt.h:335 "pScanOut     *)
(* stores scan results in a buffer so that they can be retrieved           *)
(* aysnchronously by a User task"), unless a peer causes a P2P event.      *)
(***************************************************************************)
ScanBufferIntact ==
  "p2p_events" \notin Happens => \A u \in Users :
    At(u, "take") /\ Now(u).arg = "pScanOut"
      => place["pScanOut"].kind \in {"none", Now(u).val}

(***************************************************************************)
(* A task blocks only while something will wake it: an answer is owed, a   *)
(* handler is about to set userWakeEvent, or the event is set.  (With two  *)
(* tasks that wait, one clears the event the other was to see; and the     *)
(* command a task waits on may not have been sent, see Unsent.)  Unserved  *)
(* are the conditions with no such answer: wpsState is set after the       *)
(* command is sent, wps_init_key is compared with a value it never has,    *)
(* the event for dset_op_done wakes the driver task only, and              *)
(* countryCodeProgram ends with an asynchronous request (ChipBoot).        *)
(***************************************************************************)
WillWake == /\ Busy(Driver)
            /\ \E k \in DOMAIN task[Driver].todo :
                 \/ task[Driver].todo[k] = WakeUser
                 \/ task[Driver].todo[k] = Wps("keep")
Unserved == {"wpsState", "wps_init_key is A_TRUE", "dset_op_done",
             "countryCodeProgram"}
WaiterIsWoken ==
  OneCaller => \A u \in Users :
    Waits(u) /\ task[u].blocked = "wait" /\ Now(u).arg \notin Unserved
             /\ ~Unsent(u)
      => \/ wake \/ WillWake
         \/ ~Met(u) /\ inbox # <<>>

(***************************************************************************)
(* The commands of a call go to the device it names, though the device is  *)
(* global state, set by one ioctl and used by another (qcom_api.c:60),     *)
(* unless a call on another device was under way at the same time, which   *)
(* may set devId between the two.  Three calls take a device and do not    *)
(* set it; NoDevice are their commands.                                    *)
(***************************************************************************)
NoDevice == {"P2P_FW_PROV_DISC_REQ", "WPS_INIT_KEY", "HB_CHALLENGE"}
CommandOnNamedDevice ==
  \A u \in Users :
    At(u, "send") /\ Now(u).arg \notin NoDevice /\ ~task[u].crossed
      => devId = task[u].aim

(***************************************************************************)
(* When nothing is under way, the driver takes a device for connected      *)
(* exactly if the target has it connected, and not for connected or        *)
(* connecting if the target has given up (Api_DataTxStart sends only       *)
(* then), whatever calls, answers and losses of the link overlapped.       *)
(***************************************************************************)
Quiet == inbox = <<>> /\ \A t \in Tasks : ~Busy(t)
Joined(d) == conn[d].isConnected \/ conn[d].isConnectPending
ConnectedAgrees ==
  Quiet => \A d \in Devices : /\ conn[d].isConnected <=> target[d] = "on"
                              /\ target[d] = "off" => ~Joined(d)

(***************************************************************************)
(* While the device is being stored no command is sent                     *)
(* (api_ioctl.c:783 "if a strrcl command is in process all ioctl's and tx  *)
(* operations must be blocked/deferred until it completes").  Of two       *)
(* callers, one may be past the test of strrclBlock when the other sets it *)
(* (StoreRecall, "interleave").                                            *)
(***************************************************************************)
NothingSentWhileStoring ==
  OneCaller /\ flag["strrclBlock"] =>
    \A t \in Users : At(t, "send") => Now(t).arg = "STORERECALL_HOST_READY"

\* The WPS result is freed once, and not while a caller reads it.
WpsBufferFreedOnce == ~badFree

(***************************************************************************)
(* A call that could not send its command says so (cust_api_ioctl.c:103    *)
(* "Returned Value : ENET_OK or error code").  Unreported are the commands *)
(* whose ioctl drops the result of wmi_cmd_start.                          *)
(***************************************************************************)
Unreported == {"GET_PMK", "GET_STATISTICS", "PFM_GET", "EXTENSION",
               "ALLOW_AGGR", "AP_PARAM", "SET_APPIE"}
SaysSo(u) == ~Busy(u) /\ task[u].failed # "nothing"
               => task[u].result = "error"
FailureReported ==
  "send_fails" \in Happens =>
    \A u \in Users : task[u].failed \notin Unreported => SaysSo(u)

(***************************************************************************)
(* Every call returns, but for those that wait without a limit for what    *)
(* need not come: the end of WPS, the answer to a GET_STATISTICS that was  *)
(* not sent (cust_api_ioctl.c:401-406) or, while transmissions complete    *)
(* more often than the limit, to a PFM_GET that was not sent: the limit    *)
(* begins again at each wakeup (driver_main.c:680-690).                    *)
(***************************************************************************)
Stuck(u) ==
  /\ Waits(u)
  /\ \/ Now(u).arg = "wpsState"
     \/ Now(u).arg = "rssiFlag" /\ task[u].failed = "GET_STATISTICS"
     \/ Now(u).arg = "pfmDone" /\ task[u].failed = "PFM_GET"
                              /\ "tx" \in Happens

(***************************************************************************)
(* A task that waits will be woken, and what it reads then is the answer   *)
(* to its own call.                                                        *)
(***************************************************************************)
WaitsAnswered == WaiterIsWoken /\ AnswerIsForCall

(***************************************************************************)
(* What the driver keeps between calls and events stays right: the scan    *)
(* and WPS buffers have the owner their reader thinks, and connected means *)
(* connected.                                                              *)
(***************************************************************************)
StateKept ==
  TypeOK /\ ScanBufferIntact /\ WpsBufferFreedOnce /\ ConnectedAgrees

=============================================================================
