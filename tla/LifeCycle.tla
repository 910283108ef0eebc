----------------------------- MODULE LifeCycle -----------------------------
(***************************************************************************)
(* Opening and closing the driver: a user task in Custom_Api_Initialize or *)
(* Custom_Api_Shutdown (cust_api_init.c, api_init.c), the driver task it   *)
(* creates (driver_main.c, driver_init.c) and the target, which announces  *)
(* WMI_READY.                                                              *)
(*                                                                         *)
(* Memory is a set of blocks <<kind, n>>, n the session that allocated     *)
(* them; p_Global_Cxt and MAC_CONTEXT_PTR are session numbers, 0 is NULL,  *)
(* and may name a session whose blocks are freed.  The contents of a freed *)
(* context are taken to be as they were.                                   *)
(* The driver task has the highest priority: the user runs only while the  *)
(* driver task sleeps, in a delay or on its event.                         *)
(***************************************************************************)
EXTENDS Integers, Sequences

CONSTANTS
  MaxOpens,            \* bound: sessions
  RxBuffers,           \* NUM_RX_PCBS
  TaskDestruction,     \* QOSAL_TASK_DESTRUCTION
  WakeOnDeleted,       \* whether the system still wakes a task that waits on
                       \* a deleted event when that event is set
  Settings             \* what may go wrong, see the actions: a set of sets

ASSUME LifeAssumption == /\ MaxOpens \in Nat /\ RxBuffers \in Nat \ {0}
                         /\ {TaskDestruction, WakeOnDeleted} \subseteq BOOLEAN

VARIABLES
  p_Global_Cxt, MAC_CONTEXT_PTR,
  opens,      \* sessions so far
  heap,       \* blocks allocated, devices open, events and mutex created
  cxt,        \* of each session, the two driver contexts; and unlocked:
              \* its receive buffers were taken when the mutex was deleted
  task,       \* the driver task: atheros_wifi_task_id, where it is, its cxt;
              \* and set, the setting that was chosen at the start
  user,       \* the user task: where it is, what it waits for, its result
  target      \* the target: whether it is booted and what it was sent
vars == <<p_Global_Cxt, MAC_CONTEXT_PTR, opens, heap, cxt, task, user, target>>

Happens == task.set
Sessions == 1 .. MaxOpens
WmmAc == {"BE", "BK", "VI", "VO"}
Endpoints == 0 .. 5
Defaults == <<"stack_init", "scan", "strrcl", "aggr", "bssfilter">>

NoContext ==
  [driver_up |-> FALSE, wmiReady |-> FALSE, chipDown |-> TRUE,
   driverShutdown |-> FALSE, abi |-> TRUE, tx_complete_pend |-> FALSE,
   rxfree |-> 0, rxheld |-> 0, driverWake |-> "none", userWake |-> "none",
   serviceID |-> [e \in Endpoints |-> "none"],
   ac2Ep |-> [a \in WmmAc |-> 0], ep2Ac |-> [e \in Endpoints |-> "BE"],
   wmi_ep |-> 0, txq |-> <<>>, unlocked |-> FALSE]

NoUser == [at |-> "idle", wait |-> "none", cmd |-> 0, status |-> "ENET_OK"]
NoTarget == [up |-> FALSE, ready |-> FALSE, sent |-> <<>>, slept |-> FALSE]

Init == /\ p_Global_Cxt = 0 /\ MAC_CONTEXT_PTR = 0 /\ opens = 0
        /\ heap = {}
        /\ cxt = [n \in Sessions |-> NoContext]
        /\ \E s \in Settings :
             task = [id |-> 0, at |-> "none", cxt |-> 1, set |-> s]
        /\ user = NoUser /\ target = NoTarget

Own(kinds, n) == {<<k, n>> : k \in kinds}

\* The netbufs of the commands in a queue of session n.
Netbufs(q, n) == Own({q[i] : i \in DOMAIN q}, n)

-----------------------------------------------------------------------------
\* qosal_set_event: no effect on an event that was deleted, unless the
\* system allows it.
qosal_set_event(e) ==
  CASE e = "none" -> "none"
    [] e = "deleted" -> IF WakeOnDeleted THEN "woken" ELSE e
    [] OTHER -> "set"

qosal_create_event == "clear"
qosal_delete_event == "deleted"

\* qosal_wait_for_event leaves the event clear.
qosal_wait_for_event(e) == IF e = "set" THEN "clear" ELSE "deleted"

Driver_WakeDriver(c) == [c EXCEPT !.driverWake = qosal_set_event(@)]
Driver_WakeUser(c) == [c EXCEPT !.userWake = qosal_set_event(@)]

\* The user runs while the driver task sleeps.
DriverSleeps ==
  \/ task.at \in {"none", "suspended", "powerup", "powerdown", "recall"}
  \/ task.at = "wait" /\ cxt[task.cxt].driverWake # "set"

Idle == user.at = "idle"
UserAt(place) == user.at = place /\ DriverSleeps

-----------------------------------------------------------------------------
\* Custom_Api_Initialize: the branch for a second device, then the contexts
\* (Api_InitStart) and the driver task.
SecondDevice ==
  /\ p_Global_Cxt # 0
  /\ MAC_CONTEXT_PTR' = p_Global_Cxt
  /\ user' = NoUser
  /\ UNCHANGED <<p_Global_Cxt, opens, heap, cxt, task, target>>

\* Driver_ContextInit and Custom_Driver_ContextInit.
ContextInit(n) ==
  [cxt EXCEPT ![n] = [NoContext EXCEPT !.rxfree = RxBuffers]]

\* Driver_ContextInit's buffers, and socket_context_init.
ContextBlocks(n) == Own({"custom", "common", "pad", "temp"}, n)
socket_context_init(n) == Own({"sock", "sockcustom"}, n)

qosal_task_create(n) == [task EXCEPT !.id = n, !.at = "start", !.cxt = n]

\* A task that exists is not started again.
Driver_CreateThread(n) ==
  task' = IF task.id = 0 THEN qosal_task_create(n) ELSE task

Custom_Api_Initialize ==
  /\ UserAt("idle") /\ MAC_CONTEXT_PTR = 0 /\ opens < MaxOpens
  /\ \/ SecondDevice
     \/ /\ p_Global_Cxt = 0
        /\ LET n == opens + 1
           IN /\ opens' = n
              /\ heap' = heap \cup ContextBlocks(n) \cup socket_context_init(n)
              /\ p_Global_Cxt' = n /\ MAC_CONTEXT_PTR' = n
              /\ cxt' = ContextInit(n)
              /\ Driver_CreateThread(n)
              /\ user' = [NoUser EXCEPT !.at = "ready", !.wait = "test"]
              /\ target' = NoTarget

\* An allocation fails.  The first leaves nothing; without the common
\* context the error path frees the custom one; later ones are kept.
InitializeNoMemory ==
  /\ UserAt("idle") /\ MAC_CONTEXT_PTR = 0 /\ opens < MaxOpens
  /\ p_Global_Cxt = 0
  /\ LET n == opens + 1
     IN /\ opens' = n
        /\ \/ /\ "nocustom" \in Happens
              /\ UNCHANGED <<p_Global_Cxt, MAC_CONTEXT_PTR, heap, cxt>>
           \/ /\ "nocommon" \in Happens
              /\ p_Global_Cxt' = n
              /\ UNCHANGED <<MAC_CONTEXT_PTR, heap, cxt>>
           \/ /\ "notemp" \in Happens      \* Driver_ContextInit
              /\ p_Global_Cxt' = n /\ MAC_CONTEXT_PTR' = n
              /\ heap' = heap \cup Own({"pad"}, n)
              /\ UNCHANGED cxt
           \/ /\ "nosock" \in Happens      \* socket_context_init
              /\ p_Global_Cxt' = n /\ MAC_CONTEXT_PTR' = n
              /\ heap' = heap \cup Own({"pad", "temp", "sock"}, n)
              /\ cxt' = ContextInit(n)
  /\ user' = [user EXCEPT !.status = "ENET_ERROR"]
  /\ UNCHANGED <<task, target>>

\* The end of Custom_Api_Initialize with an error.
InitializeFails ==
  /\ heap' = heap \ Own({"custom", "common"}, p_Global_Cxt)
  /\ user' = [NoUser EXCEPT !.status = "ENET_ERROR"]
  /\ UNCHANGED <<p_Global_Cxt, MAC_CONTEXT_PTR, opens, cxt, task, target>>

-----------------------------------------------------------------------------
\* Driver_WaitForCondition of the user, for what its place asks.
Cur == cxt[MAC_CONTEXT_PTR]
Condition == CASE user.at = "ready" -> Cur.wmiReady
               [] user.at = "down" -> ~Cur.driver_up
               [] user.at = "pend" -> ~Cur.tx_complete_pend

WaitTest ==
  /\ user.at \in {"ready", "down", "pend"} /\ DriverSleeps
  /\ user.wait = "test"
  /\ user' = [user EXCEPT !.wait = IF Condition THEN "A_OK" ELSE "event"]
  /\ UNCHANGED <<p_Global_Cxt, MAC_CONTEXT_PTR, opens, heap, cxt, task,
                 target>>

\* The event comes and is cleared, or the wait ends with an error: the event
\* is deleted, or the time is over: the driver task has ended or sleeps in
\* Strrcl_Recall, its boot takes longer ("slow"), the target is not ready in
\* time ("mute"), or no command is on its way.
WaitEvent ==
  /\ user.wait = "event" /\ DriverSleeps
  /\ \/ /\ Cur.userWake \in {"set", "woken"}
        /\ cxt' = [cxt EXCEPT ![MAC_CONTEXT_PTR].userWake =
                     qosal_wait_for_event(@)]
        /\ user' = [user EXCEPT !.wait = "test"]
     \/ /\ Cur.userWake \notin {"set", "woken"}
        /\ \/ task.at \in {"none", "suspended", "recall"}
           \/ "slow" \in Happens /\ task.at = "powerup"
           \/ "mute" \in Happens /\ user.at = "ready" /\ task.at = "wait"
           \/ user.at = "pend" /\ Cur.txq = <<>>
        /\ user' = [user EXCEPT !.wait = "A_ERROR"]
        /\ UNCHANGED cxt
  /\ UNCHANGED <<p_Global_Cxt, MAC_CONTEXT_PTR, opens, heap, task, target>>

\* Api_InitFinish: the target is ready and has the ABI the driver knows.
Api_InitFinish ==
  /\ UserAt("ready")
  /\ \/ /\ user.wait = "A_OK" /\ Cur.abi
        /\ user' = [user EXCEPT !.at = "cmd", !.wait = "none", !.cmd = 1]
        /\ UNCHANGED <<p_Global_Cxt, MAC_CONTEXT_PTR, opens, heap, cxt, task,
                       target>>
     \/ /\ user.wait = "A_ERROR" \/ (user.wait = "A_OK" /\ ~Cur.abi)
        /\ InitializeFails

\* A request is queued and the driver task woken.
Driver_SubmitTxRequest(c, cmd) ==
  Driver_WakeDriver([c EXCEPT !.txq = Append(@, cmd)])

\* Api_WMIInitFinish: the default commands, one at a time.
Api_WMIInitFinish ==
  /\ UserAt("cmd")
  /\ \/ /\ cxt' = [cxt EXCEPT ![MAC_CONTEXT_PTR] =
                     Driver_SubmitTxRequest(@, Defaults[user.cmd])]
        /\ heap' = heap \cup Own({Defaults[user.cmd]}, MAC_CONTEXT_PTR)
        /\ user' = IF user.cmd = Len(Defaults) THEN NoUser
                   ELSE [user EXCEPT !.cmd = @ + 1]
     \/ /\ "nocmd" \in Happens /\ Cur.txq # <<>>
        /\ user' = [user EXCEPT !.at = IF user.cmd = 1 THEN "assert"
                                       ELSE "nomem"]
        /\ UNCHANGED <<heap, cxt>>
  /\ UNCHANGED <<p_Global_Cxt, MAC_CONTEXT_PTR, opens, task, target>>

MUT_wmi_cmd_process ==
  /\ DriverSleeps
  /\ \/ /\ user.at = "nomem"
        /\ cxt' = [cxt EXCEPT ![MAC_CONTEXT_PTR].tx_complete_pend = TRUE]
        /\ user' = [user EXCEPT !.at = "pend", !.wait = "test"]
     \/ /\ user.at = "pend" /\ user.wait \in {"A_OK", "A_ERROR"}
        /\ user' = [user EXCEPT !.wait = "none", !.cmd = @ - 1, !.at = "cmd"]
        /\ UNCHANGED cxt
  /\ UNCHANGED <<p_Global_Cxt, MAC_CONTEXT_PTR, opens, heap, task, target>>

\* wmi_cmd_process after A_NO_MEMORY; the command is not sent again, and
\* that of wmi_bssfilter_cmd is not looked at.
wmi_cmd_process ==
  /\ DriverSleeps
  /\ \/ /\ user.at = "nomem" /\ user.cmd < Len(Defaults)
        /\ cxt' = [cxt EXCEPT ![MAC_CONTEXT_PTR].tx_complete_pend = TRUE]
        /\ user' = [user EXCEPT !.at = "pend", !.wait = "test"]
     \/ /\ user.at = "nomem" /\ user.cmd = Len(Defaults)
        /\ user' = NoUser
        /\ UNCHANGED cxt
     \/ /\ user.at = "pend" /\ user.wait \in {"A_OK", "A_ERROR"}
        /\ user' = [user EXCEPT !.wait = "none", !.cmd = @ + 1,
                                !.at = IF user.wait = "A_OK" THEN "cmd"
                                       ELSE "assert"]
        /\ UNCHANGED cxt
  /\ UNCHANGED <<p_Global_Cxt, MAC_CONTEXT_PTR, opens, heap, task, target>>

-----------------------------------------------------------------------------
Driver_DestroyThread(c) ==
  Driver_WakeDriver([c EXCEPT !.driverShutdown = TRUE])

\* Custom_Api_Shutdown up to its wait.
Custom_Api_Shutdown ==
  /\ UserAt("idle") /\ MAC_CONTEXT_PTR # 0
  /\ cxt' = [cxt EXCEPT ![MAC_CONTEXT_PTR] = Driver_DestroyThread(@)]
  /\ user' = [NoUser EXCEPT !.at = "down", !.wait = "test"]
  /\ UNCHANGED <<p_Global_Cxt, MAC_CONTEXT_PTR, opens, heap, task, target>>

\* Driver_ContextDeInit frees the receive buffers of the free queue, the
\* temporary storage and the pad buffer.  Custom_GetRxRequest locks the mutex
\* for each buffer and does not look at what the lock returns: where the mutex
\* was deleted it takes the buffers unlocked.
Driver_ContextDeInit(c, n) ==
  [c EXCEPT !.rxfree = 0, !.unlocked = <<"utility_mutex", n>> \notin heap]

\* Api_DeInitFinish; what follows an error is the end of the shutdown.
Api_DeInitFinish ==
  /\ UserAt("down")
  /\ \/ /\ user.wait = "A_OK"
        /\ cxt' = [cxt EXCEPT ![MAC_CONTEXT_PTR] =
                     Driver_ContextDeInit(@, MAC_CONTEXT_PTR)]
        /\ heap' = heap \ Own({"temp", "pad"}, MAC_CONTEXT_PTR)
     \/ /\ user.wait = "A_ERROR"
        /\ UNCHANGED <<cxt, heap>>
  /\ user' = [user EXCEPT !.at = IF user.wait = "A_OK" THEN "sock"
                                 ELSE "free", !.wait = "none"]
  /\ user.wait \in {"A_OK", "A_ERROR"}
  /\ UNCHANGED <<p_Global_Cxt, MAC_CONTEXT_PTR, opens, task, target>>

\* socket_context_deinit frees the socket contexts, and then reads in them
\* where the custom contexts are.
socket_context_deinit ==
  /\ DriverSleeps
  /\ \/ /\ user.at = "sock"
        /\ heap' = heap \ Own({"sock"}, MAC_CONTEXT_PTR)
        /\ user' = [user EXCEPT !.at = "sockread"]
     \/ /\ user.at = "sockread"
        /\ heap' = heap \ Own({"sockcustom"}, MAC_CONTEXT_PTR)
        /\ user' = [user EXCEPT !.at = "free"]
  /\ UNCHANGED <<p_Global_Cxt, MAC_CONTEXT_PTR, opens, cxt, task, target>>

MUT_ShutdownEnds ==
  /\ UserAt("free")
  /\ heap' = heap \ Own({"custom", "common"}, MAC_CONTEXT_PTR)
  /\ p_Global_Cxt' = 0
  /\ user' = NoUser
  /\ UNCHANGED <<MAC_CONTEXT_PTR, opens, cxt, task, target>>

\* The end of Custom_Api_Shutdown.
ShutdownEnds ==
  /\ UserAt("free")
  /\ heap' = heap \ Own({"custom", "common"}, MAC_CONTEXT_PTR)
  /\ p_Global_Cxt' = 0 /\ MAC_CONTEXT_PTR' = 0
  /\ user' = NoUser
  /\ UNCHANGED <<opens, cxt, task, target>>

-----------------------------------------------------------------------------
\* The endpoint of a service when the target is not asked for one.
HTC_ConnectService(svc) ==
  CASE svc = "HTC_CTRL_RSVD_SVC" -> 0
    [] svc = "WMI_CONTROL_SVC" -> 1
    [] svc = "WMI_DATA_BE_SVC" -> 2
    [] svc = "WMI_DATA_BK_SVC" -> 3
    [] svc = "WMI_DATA_VI_SVC" -> 4
    [] svc = "WMI_DATA_VO_SVC" -> 5

AcOf(svc) == CASE svc = "WMI_DATA_BE_SVC" -> "BE"
               [] svc = "WMI_DATA_BK_SVC" -> "BK"
               [] svc = "WMI_DATA_VI_SVC" -> "VI"
               [] svc = "WMI_DATA_VO_SVC" -> "VO"

ConnectService(c, svc) ==
  LET e == HTC_ConnectService(svc)
      d == [c EXCEPT !.serviceID[e] = svc]
  IN IF svc = "WMI_CONTROL_SVC" THEN [d EXCEPT !.wmi_ep = e]
     ELSE [d EXCEPT !.ac2Ep[AcOf(svc)] = e, !.ep2Ac[e] = AcOf(svc)]

HTC_WaitTarget(c) == [c EXCEPT !.serviceID[0] = "HTC_CTRL_RSVD_SVC"]
SetupServices(c) ==
  LET control == ConnectService(HTC_WaitTarget(c), "WMI_CONTROL_SVC")
      be == ConnectService(control, "WMI_DATA_BE_SVC")
      bk == ConnectService(be, "WMI_DATA_BK_SVC")
      vi == ConnectService(bk, "WMI_DATA_VI_SVC")
  IN ConnectService(vi, "WMI_DATA_VO_SVC")

\* What Driver_Init opens and creates, and Driver_DeInit gives back.
Custom_HW_Init(n) == Own({"spi", "gpio_int", "gpio_pwd"}, n)
HW_PowerUpDown(n) == Own({"power"}, n)
wmi_init(n) == Own({"wmi"}, n)
Access(n) == Own({"utility_mutex", "events"}, n)

\* Driver_Init creates its events and mutex, opens the devices and powers the
\* chip up, which takes two delays.
Driver_Init ==
  /\ task.at = "start"
  /\ heap' = heap \cup Access(task.cxt) \cup Custom_HW_Init(task.cxt)
             \cup HW_PowerUpDown(task.cxt)
  /\ cxt' = [cxt EXCEPT ![task.cxt].driverWake = qosal_create_event,
                        ![task.cxt].userWake = qosal_create_event]
  /\ task' = [task EXCEPT !.at = "powerup"]
  /\ UNCHANGED <<p_Global_Cxt, MAC_CONTEXT_PTR, opens, user, target>>

\* The driver task ends, or sleeps for good where tasks cannot end.
TaskEnds ==
  task' = IF TaskDestruction THEN [task EXCEPT !.id = 0, !.at = "none"]
          ELSE [task EXCEPT !.at = "suspended"]

\* The rest of Driver_Init: it fails in Hcd_Init or Driver_BootComm, or the
\* chip is up, the services are connected and Driver_Main finds nothing.
DriverInitEnds ==
  /\ task.at = "powerup"
  /\ \/ /\ heap' = heap \cup wmi_init(task.cxt)
        /\ cxt' = [cxt EXCEPT ![task.cxt] =
                     [SetupServices(@) EXCEPT !.chipDown = FALSE,
                                              !.driver_up = TRUE]]
        /\ task' = [task EXCEPT !.at = "wait"]
        /\ target' = [target EXCEPT !.up = TRUE]
     \/ /\ "bootfail" \in Happens
        /\ TaskEnds
        /\ UNCHANGED <<heap, cxt, target>>
  /\ UNCHANGED <<p_Global_Cxt, MAC_CONTEXT_PTR, opens, user>>

\* The target announces that it is ready.
TargetReady ==
  /\ target.up /\ ~target.ready /\ task.at = "wait"
  /\ target' = [target EXCEPT !.ready = TRUE]
  /\ cxt' = [cxt EXCEPT ![task.cxt] = Driver_WakeDriver(@)]
  /\ UNCHANGED <<p_Global_Cxt, MAC_CONTEXT_PTR, opens, heap, task, user>>

MUT_Api_ReadyEvent(c, abi) == [c EXCEPT !.wmiReady = TRUE, !.abi = abi]

\* The handler of WMI_READY wakes the user.
Api_ReadyEvent(c, abi) ==
  Driver_WakeUser([c EXCEPT !.wmiReady = TRUE, !.abi = abi])

\* Driver_Main: the event of the target, and the commands that are queued;
\* a transmit that completes frees its netbuf and
\* wakes the user (Api_TxComplete).  The target
\* may have no credit for them ("credit").
Driver_Main ==
  LET c == cxt[task.cxt]
  IN /\ task.at = "wait" /\ c.driverWake = "set" /\ ~c.driverShutdown
     /\ \E abi \in IF "abi" \in Happens THEN BOOLEAN ELSE {TRUE} :
          LET woken == [c EXCEPT !.driverWake = "clear"]
              heard == IF target.ready /\ ~c.wmiReady
                       THEN Api_ReadyEvent(woken, abi) ELSE woken
          IN \/ /\ cxt' = [cxt EXCEPT ![task.cxt] =
                             IF c.txq = <<>> THEN heard
                             ELSE Driver_WakeUser([heard EXCEPT !.txq = <<>>,
                                                 !.tx_complete_pend = FALSE])]
                /\ heap' = heap \ Netbufs(c.txq, task.cxt)
                /\ target' = [target EXCEPT !.sent = @ \o c.txq]
             \/ /\ "credit" \in Happens /\ c.txq # <<>>
                /\ cxt' = [cxt EXCEPT ![task.cxt] = heard]
                /\ UNCHANGED <<heap, target>>
     /\ UNCHANGED <<p_Global_Cxt, MAC_CONTEXT_PTR, opens, task, user>>

\* A credit report wakes the driver.
TargetCredit ==
  /\ task.at = "wait" /\ target.up /\ cxt[task.cxt].txq # <<>>
  /\ cxt[task.cxt].driverWake = "clear"
  /\ cxt' = [cxt EXCEPT ![task.cxt] = Driver_WakeDriver(@)]
  /\ UNCHANGED <<p_Global_Cxt, MAC_CONTEXT_PTR, opens, heap, task, user,
                 target>>

\* A received packet takes a buffer; the application frees it.
Receive ==
  /\ task.at = "wait" /\ target.ready /\ "data" \in Happens
  /\ cxt[task.cxt].rxfree > 1
  /\ cxt' = [cxt EXCEPT ![task.cxt].rxfree = @ - 1,
                        ![task.cxt].rxheld = @ + 1]
  /\ UNCHANGED <<p_Global_Cxt, MAC_CONTEXT_PTR, opens, heap, task, user,
                 target>>

AppFrees ==
  /\ UserAt("idle") /\ MAC_CONTEXT_PTR # 0 /\ Cur.rxheld > 0
  /\ cxt' = [cxt EXCEPT ![MAC_CONTEXT_PTR].rxfree = @ + 1,
                        ![MAC_CONTEXT_PTR].rxheld = @ - 1]
  /\ UNCHANGED <<p_Global_Cxt, MAC_CONTEXT_PTR, opens, heap, task, user,
                 target>>

\* Strrcl_Recall sleeps in the driver task for as long as the target asked.
RecallSleeps ==
  /\ "recall" \in Happens
  /\ task.at = "wait" /\ Idle /\ target.sent # <<>> /\ ~target.slept
  /\ cxt[task.cxt].driverWake = "clear"
  /\ task' = [task EXCEPT !.at = "recall"]
  /\ target' = [target EXCEPT !.slept = TRUE]
  /\ UNCHANGED <<p_Global_Cxt, MAC_CONTEXT_PTR, opens, heap, cxt, user>>

RecallWakes ==
  /\ task.at = "recall"
  /\ task' = [task EXCEPT !.at = "wait"]
  /\ UNCHANGED <<p_Global_Cxt, MAC_CONTEXT_PTR, opens, heap, cxt, user,
                 target>>

\* Driver_DeInit up to the delays of the power down.
DriverShutsDown ==
  /\ task.at = "wait" /\ cxt[task.cxt].driverWake = "set"
  /\ cxt[task.cxt].driverShutdown
  /\ task' = [task EXCEPT !.at = "powerdown"]
  /\ cxt' = [cxt EXCEPT ![task.cxt].driverWake = "clear"]
  /\ target' = [target EXCEPT !.up = FALSE]
  /\ UNCHANGED <<p_Global_Cxt, MAC_CONTEXT_PTR, opens, heap, user>>

\* The rest of Driver_DeInit, which deletes the mutex and the events and
\* leaves txQueue as it is, and the wake of the user that follows it.
Driver_DeInit ==
  /\ task.at = "powerdown"
  /\ heap' = heap \ (Access(task.cxt) \cup Custom_HW_Init(task.cxt)
                     \cup HW_PowerUpDown(task.cxt) \cup wmi_init(task.cxt))
  /\ cxt' = [cxt EXCEPT ![task.cxt] = Driver_WakeUser(
               [@ EXCEPT !.driver_up = FALSE, !.userWake = qosal_delete_event,
                         !.driverWake = qosal_delete_event])]
  /\ TaskEnds
  /\ UNCHANGED <<p_Global_Cxt, MAC_CONTEXT_PTR, opens, user, target>>

-----------------------------------------------------------------------------
DriverStep == Driver_Init \/ DriverInitEnds \/ Driver_Main \/ DriverShutsDown
              \/ Driver_DeInit \/ RecallWakes
UserStep == WaitTest \/ WaitEvent \/ Api_InitFinish \/ Api_WMIInitFinish
            \/ wmi_cmd_process \/ Api_DeInitFinish \/ socket_context_deinit
            \/ ShutdownEnds

Next == \/ Custom_Api_Initialize \/ InitializeNoMemory \/ Custom_Api_Shutdown
        \/ UserStep \/ DriverStep
        \/ TargetReady \/ TargetCredit \/ Receive \/ AppFrees \/ RecallSleeps

Spec == Init /\ [][Next]_vars

\* The scheduler runs the driver task when it can run, and a user task again
\* and again while the driver task sleeps; a target that boots gets ready,
\* unless it is one that may keep silent.
FairSpec == /\ Spec /\ WF_vars(DriverStep) /\ SF_vars(UserStep)
            /\ WF_vars("mute" \notin Happens /\ TargetReady)

-----------------------------------------------------------------------------
Places == {"idle", "ready", "cmd", "nomem", "pend", "down", "sock",
           "sockread", "free", "assert"}
TaskRuns == task.at \notin {"none", "suspended"}

\* The time limits of the user are longer than what the driver task does.
Prompt == Happens \cap {"mute", "slow", "recall"} = {}

\* Every open that gets its memory succeeds.
OpensSucceed ==
  Happens \cap {"nocommon", "notemp", "nosock", "bootfail", "abi", "mute",
                "slow"} = {}

(* The pointers name sessions, and the places of the two tasks are those   *)
(* of the code: a wait is for a condition of the session that is open.     *)
TypeOK ==
  /\ {p_Global_Cxt, MAC_CONTEXT_PTR} \subseteq 0 .. opens
  /\ opens \in 0 .. MaxOpens
  /\ user.at \in Places
  /\ user.at \in {"ready", "down", "pend"}
       <=> user.wait \in {"test", "event", "A_OK", "A_ERROR"}
  /\ user.at \in Places \ {"idle"} => MAC_CONTEXT_PTR # 0
  /\ \A n \in Sessions : cxt[n].rxfree + cxt[n].rxheld <= RxBuffers

(* api_init.c: the user blocks "until driver thread is cleaned up", so the *)
(* contexts the driver task works on are never freed under it, where the   *)
(* user's time limits suffice and the target has the ABI the driver knows. *)
LiveContext ==
  (TaskRuns /\ Prompt /\ "abi" \notin Happens)
    => Own({"custom", "common"}, task.cxt) \subseteq heap

(* p_Global_Cxt tells Custom_Api_Initialize that "it is the second device  *)
(* which is getting initialised": an open that returned ENET_OK has a      *)
(* context that is allocated, as long as no earlier open failed after      *)
(* p_Global_Cxt was set.                                                   *)
OpenIsLive ==
  (OpensSucceed /\ Idle /\ user.status = "ENET_OK" /\ MAC_CONTEXT_PTR # 0)
    => Own({"custom", "common"}, MAC_CONTEXT_PTR) \subseteq heap

\* The netbufs of the commands that wait in the queue of an open driver, or
\* did when a driver was closed: nothing empties txQueue.
Queued == UNION {Netbufs(cxt[n].txq, n) : n \in Sessions}

(* Driver_DeInit "undoes any work performed by Driver_Init", as do the     *)
(* other DeInit functions: with no device open and no task running no      *)
(* device is open, the chip is off and nothing is allocated but the        *)
(* netbufs of commands for which the target had no credit before the close *)
(* (nothing at all where every command was sent).  The application         *)
(* holds no received packet, the opens before succeeded, and a user that   *)
(* waits for the end of the driver is woken although its event is gone.    *)
Clean ==
  (/\ OpensSucceed /\ Prompt /\ WakeOnDeleted /\ "data" \notin Happens
   /\ Idle /\ MAC_CONTEXT_PTR = 0 /\ ~TaskRuns)
    => /\ heap \subseteq Queued
       /\ \A n \in Sessions : cxt[n].rxfree + cxt[n].rxheld = 0

(* Custom_GetRxRequest takes the receive buffers of a driver that is       *)
(* closed after Driver_DeInit deleted the mutex of their queue: then the   *)
(* driver task, which uses the queue too, works on that session no more.   *)
FreedAlone ==
  \A n \in Sessions : cxt[n].unlocked /\ task.cxt = n => ~TaskRuns

(* The endpoint of a packet's access class and the access class of an      *)
(* endpoint are inverse of each other once the driver is up, and no two    *)
(* services share an endpoint (ac2EpMapping, ep2AcMapping).                *)
EndpointMaps ==
  \A n \in Sessions : cxt[n].driver_up =>
    /\ \A a \in WmmAc : cxt[n].ac2Ep[a] # 0
                        /\ cxt[n].ep2Ac[cxt[n].ac2Ep[a]] = a
    /\ \A e, f \in Endpoints :
         cxt[n].serviceID[e] = cxt[n].serviceID[f] => e = f
    /\ cxt[n].wmi_ep \notin {cxt[n].ac2Ep[a] : a \in WmmAc}

(* "sending default wmi commands to target" (api_init.c): when the driver  *)
(* was opened the target has, or will get, every default command, the      *)
(* start of its IP stack first; there was memory for each.                 *)
ConfigSent ==
  (/\ OpensSucceed /\ "nocmd" \notin Happens /\ target.up
   /\ Idle /\ user.status = "ENET_OK" /\ MAC_CONTEXT_PTR # 0)
    => target.sent \o Cur.txq = Defaults

(* The commands that reach the queue are in the order of the code, none    *)
(* twice, and none comes before the start of the IP stack, also when there *)
(* was no memory for some of them.                                         *)
StackFirst ==
  \A n \in Sessions :
    (task.cxt = n /\ target.up) =>
      LET all == target.sent \o cxt[n].txq
          Place(c) == CHOOSE i \in 1 .. Len(Defaults) : Defaults[i] = c
      IN /\ all # <<>> => all[1] = Defaults[1]
         /\ \A i, j \in 1 .. Len(all) : i < j => Place(all[i]) < Place(all[j])

(* Custom_Api_Initialize and Custom_Api_Shutdown return, whatever fails,   *)
(* unless there is no memory for a default command.                        *)
UserReturns == (~Idle /\ "nocmd" \notin Happens) ~> Idle

(* A device that is closed can be opened again: an open leads to a driver  *)
(* that is up ("create or restart the driver thread", cust_api_init.c),    *)
(* when nothing fails.                                                     *)
Reopens ==
  \A n \in Sessions :
    (Happens = {} /\ opens = n /\ user.at = "ready")
      ~> (cxt[n].wmiReady /\ Idle)

(***************************************************************************)
(* The driver's contexts live exactly as long as they are used: none is    *)
(* used when gone, an open device has them all, and a closed one has left  *)
(* nothing but commands it could not send; its receive buffers, which are  *)
(* freed without the mutex, are then used by no other task.                *)
(***************************************************************************)
ContextsSound == TypeOK /\ LiveContext /\ OpenIsLive /\ Clean /\ FreedAlone

(***************************************************************************)
(* An opened driver is set up: the endpoint tables are inverse, and the    *)
(* default commands were sent, the stack's first.                          *)
(***************************************************************************)
SetUpComplete == EndpointMaps /\ ConfigSent /\ StackFirst

(***************************************************************************)
(* Open and close return, and a closed device can be opened again.         *)
(***************************************************************************)
UsersGoOn == UserReturns /\ Reopens
=============================================================================
