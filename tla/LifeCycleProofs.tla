-------------------------- MODULE LifeCycleProofs --------------------------
(***************************************************************************)
(* Proofs about LifeCycle: contexts live as long as they are used and an   *)
(* opened driver is set up, for every number of sessions and of receive    *)
(* buffers, with tasks that can end or cannot, and for every set of things *)
(* that go wrong.                                                          *)
(***************************************************************************)
EXTENDS LifeCycle, SequenceTheorems, TLAPS

Commands == {Defaults[k] : k \in 1 .. 5}
Waits == {"test", "event", "A_OK", "A_ERROR"}
Events == {"none", "clear", "set", "deleted", "woken"}
ServiceIds ==
  {"none", "HTC_CTRL_RSVD_SVC", "WMI_CONTROL_SVC", "WMI_DATA_BE_SVC",
   "WMI_DATA_BK_SVC", "WMI_DATA_VI_SVC", "WMI_DATA_VO_SVC"}

Context ==
  [driver_up : BOOLEAN, wmiReady : BOOLEAN, chipDown : BOOLEAN,
   driverShutdown : BOOLEAN, abi : BOOLEAN, tx_complete_pend : BOOLEAN,
   rxfree : Nat, rxheld : Nat, driverWake : Events, userWake : Events,
   serviceID : [Endpoints -> ServiceIds], ac2Ep : [WmmAc -> Endpoints],
   ep2Ac : [Endpoints -> WmmAc], wmi_ep : Endpoints, txq : Seq(Commands),
   unlocked : BOOLEAN]

TypeInv ==
  /\ opens \in 0 .. MaxOpens
  /\ p_Global_Cxt \in 0 .. opens /\ MAC_CONTEXT_PTR \in 0 .. opens
  /\ cxt \in [Sessions -> Context]
  /\ \A n \in Sessions : cxt[n].rxfree + cxt[n].rxheld <= RxBuffers
  /\ task \in [id : Nat, cxt : Nat, set : Settings,
               at : {"none", "start", "powerup", "wait", "recall",
                     "powerdown", "suspended"}]
  /\ user \in [at : Places, wait : Waits \cup {"none"}, cmd : 0 .. 5,
               status : {"ENET_OK", "ENET_ERROR"}]
  /\ target \in [up : BOOLEAN, ready : BOOLEAN, slept : BOOLEAN,
                 sent : Seq(Commands)]

Starts == task.at \in {"start", "powerup"}
Serves == task.at \in {"wait", "recall"}
Opening == user.at \in {"ready", "cmd", "nomem", "pend", "assert"}
Leaving == user.at \in {"sock", "sockread", "free"}

(***************************************************************************)
(* The user: a wait is at one of three places, and one that opens the      *)
(* driver works on the last session; once past the first wait it has seen  *)
(* that session's WMI_READY.                                               *)
(***************************************************************************)
PlaceInv ==
  /\ user.at \in {"ready", "down", "pend"} <=> user.wait \in Waits
  /\ user.at # "idle" => MAC_CONTEXT_PTR # 0
  /\ Opening => /\ MAC_CONTEXT_PTR = opens /\ p_Global_Cxt = opens
                /\ user.status = "ENET_OK"
  /\ user.at \in {"cmd", "nomem", "pend"} => user.cmd # 0 /\ Cur.wmiReady
  /\ user.at \in {"nomem", "pend"} => user.cmd # 1
  /\ user.at = "pend" => user.cmd # 5
  /\ user.at = "ready" /\ user.wait = "A_OK" => Cur.wmiReady

(***************************************************************************)
(* The driver task: driver_up is its session's alone, from the end of      *)
(* Driver_Init to that of Driver_DeInit.  No session after its own was     *)
(* ever ready, and while it starts its own is not.                         *)
(***************************************************************************)
TaskInv ==
  /\ task.id = 0 <=> task.at = "none"
  /\ task.at # "none" => task.cxt \in 1 .. opens
  /\ task.cxt <= opens \/ (task.cxt = 1 /\ opens = 0)
  /\ \A n \in Sessions :
       /\ cxt[n].driver_up <=>
            n = task.cxt /\ (Serves \/ task.at = "powerdown")
       /\ cxt[n].wmiReady => n <= task.cxt /\ n <= opens
  /\ Starts => /\ ~cxt[task.cxt].wmiReady /\ cxt[task.cxt].txq = <<>>
               /\ target.sent = <<>>
  /\ target.up => Serves

(***************************************************************************)
(* With prompt tasks and a target whose ABI is known: a driver task that   *)
(* runs has the contexts of the open session, and the user does not end a  *)
(* wait, or go on to free anything, before the task is gone.               *)
(***************************************************************************)
Calm == Prompt /\ "abi" \notin Happens

LiveInv ==
  Calm =>
    /\ TaskRuns => /\ MAC_CONTEXT_PTR = task.cxt
                   /\ Own({"custom", "common"}, task.cxt) \subseteq heap
                   /\ ~Leaving
    /\ Starts => user.at = "ready"
    /\ task.at # "recall"
    /\ \A n \in Sessions : cxt[n].abi
    /\ user.at = "ready" /\ user.wait = "A_ERROR" => ~TaskRuns
    /\ user.at = "down" /\ user.wait \in {"A_OK", "A_ERROR"} => ~TaskRuns

OpenInv ==
  OpensSucceed =>
    /\ p_Global_Cxt = MAC_CONTEXT_PTR
    /\ (/\ user.status = "ENET_OK" /\ MAC_CONTEXT_PTR # 0
        /\ user.at # "down" /\ ~Leaving)
       => Own({"custom", "common"}, MAC_CONTEXT_PTR) \subseteq heap

(***************************************************************************)
(* A driver task that has got through Driver_Init has its mutex, so the    *)
(* buffers of its session are taken unlocked only after it; and nothing is *)
(* queued for a session to come.                                           *)
(***************************************************************************)
HasMutex == TaskRuns /\ task.at # "start"
              => <<"utility_mutex", task.cxt>> \in heap

SessionInv == /\ HasMutex /\ FreedAlone
              /\ \A n \in Sessions : n > opens => cxt[n].txq = <<>>

(***************************************************************************)
(* What is on the heap: the blocks that the user has not freed yet, what   *)
(* the driver task has opened, and the netbufs of queued commands.  A user *)
(* that waits for the driver to be gone is woken.                          *)
(***************************************************************************)
AllBlocks(n) == ContextBlocks(n) \cup socket_context_init(n)
Blocks(at, n) ==
  CASE n = 0 -> {}
    [] n # 0 /\ at = "sock" -> AllBlocks(n) \ Own({"temp", "pad"}, n)
    [] n # 0 /\ at = "sockread" -> AllBlocks(n) \ Own({"temp", "pad", "sock"}, n)
    [] n # 0 /\ at = "free" -> Own({"custom", "common"}, n)
    [] OTHER -> AllBlocks(n)
UserBlocks == Blocks(user.at, MAC_CONTEXT_PTR)

Opened(n) == Access(n) \cup Custom_HW_Init(n) \cup HW_PowerUpDown(n)
             \cup wmi_init(n)
DriverBlocks == IF TaskRuns THEN Opened(task.cxt) ELSE {}

CleanInv ==
  OpensSucceed /\ Prompt /\ WakeOnDeleted =>
    /\ heap \subseteq UserBlocks \cup DriverBlocks \cup Queued
    /\ user.at = "down" => /\ user.wait # "A_ERROR"
                           /\ user.wait = "event" =>
                                Cur.driver_up \/ Cur.userWake = "woken"
    /\ "data" \notin Happens =>
         \A n \in Sessions :
           /\ cxt[n].rxheld = 0
           /\ cxt[n].rxfree # 0 => n = MAC_CONTEXT_PTR /\ ~Leaving

(***************************************************************************)
(* The default commands: what the target was sent and what is queued.      *)
(***************************************************************************)
All == target.sent \o cxt[task.cxt].txq

ConfigInv ==
  OpensSucceed /\ "nocmd" \notin Happens =>
    /\ Starts => /\ user.at = "ready" /\ MAC_CONTEXT_PTR = task.cxt
                 /\ user.wait # "A_ERROR"
    /\ user.at \notin {"nomem", "pend", "assert"}
    /\ target.up /\ MAC_CONTEXT_PTR # 0 =>
         /\ MAC_CONTEXT_PTR = task.cxt
         /\ user.at = "ready" => All = <<>>
         /\ user.at = "cmd" => All = SubSeq(Defaults, 1, user.cmd - 1)
         /\ user.at = "idle" /\ user.status = "ENET_OK" => All = Defaults

\* The place of a command in the code.
Rank(c) == CHOOSE i \in 1 .. Len(Defaults) : Defaults[i] = c

StackInv ==
  target.up =>
    /\ All # <<>> => All[1] = Defaults[1]
    /\ \A i, j \in 1 .. Len(All) : i < j => Rank(All[i]) < Rank(All[j])
    /\ MAC_CONTEXT_PTR = task.cxt =>
         /\ user.at = "ready" => All = <<>>
         /\ user.at \in {"cmd", "nomem", "pend"} =>
              /\ \A i \in 1 .. Len(All) : Rank(All[i]) < user.cmd
              /\ user.cmd # 1 => All # <<>>

Base == TypeInv /\ PlaceInv /\ TaskInv
IInv == /\ Base /\ LiveInv /\ OpenInv /\ SessionInv /\ CleanInv
        /\ EndpointMaps /\ ConfigInv /\ StackInv

-----------------------------------------------------------------------------
(***************************************************************************)
(* What an action leaves of the contexts: all but the events, the queue    *)
(* and what no property asks for; the queues; the user's event.            *)
(***************************************************************************)
Alike(c, d) ==
  /\ d.driver_up = c.driver_up /\ d.wmiReady = c.wmiReady /\ d.abi = c.abi
  /\ d.rxfree = c.rxfree /\ d.rxheld = c.rxheld
  /\ d.serviceID = c.serviceID /\ d.wmi_ep = c.wmi_ep
  /\ d.ac2Ep = c.ac2Ep /\ d.ep2Ac = c.ep2Ac /\ d.unlocked = c.unlocked

LikeBefore == \A n \in Sessions : Alike(cxt[n], cxt'[n])
QueuesSame == \A n \in Sessions : cxt'[n].txq = cxt[n].txq
WakesSame == \A n \in Sessions : cxt'[n].userWake = cxt[n].userWake

LEMMA NoContextOk == /\ NoContext \in Context
                     /\ [NoContext EXCEPT !.rxfree = RxBuffers] \in Context
<1>1. /\ [e \in Endpoints |-> "none"] \in [Endpoints -> ServiceIds]
      /\ [a \in WmmAc |-> 0] \in [WmmAc -> Endpoints]
      /\ [e \in Endpoints |-> "BE"] \in [Endpoints -> WmmAc]
  BY DEF ServiceIds, Endpoints, WmmAc
<1>2. <<>> \in Seq(Commands) /\ 0 \in Endpoints
  BY DEF Endpoints
<1>3. NoContext \in Context
  BY <1>1, <1>2 DEF NoContext, Context, Events
<1>4. RxBuffers \in Nat
  BY LifeAssumption
<1> QED BY <1>3, <1>4 DEF NoContext, Context

LEMMA SetEvent ==
  ASSUME NEW e \in Events
  PROVE  /\ qosal_set_event(e) \in Events
         /\ e \in {"set", "clear"} => qosal_set_event(e) = "set"
         /\ e = "deleted" /\ WakeOnDeleted => qosal_set_event(e) = "woken"
         /\ e = "woken" => qosal_set_event(e) = "set"
BY DEF qosal_set_event, Events

LEMMA WakeDriver ==
  ASSUME NEW c \in Context
  PROVE  /\ Driver_WakeDriver(c) \in Context
         /\ Alike(c, Driver_WakeDriver(c))
         /\ Driver_WakeDriver(c).txq = c.txq
         /\ Driver_WakeDriver(c).userWake = c.userWake
<1>1. c.driverWake \in Events
  BY DEF Context
<1>2. qosal_set_event(c.driverWake) \in Events
  BY <1>1, SetEvent
<1> QED BY <1>2 DEF Driver_WakeDriver, Context, Alike

LEMMA WakeUser ==
  ASSUME NEW c \in Context
  PROVE  /\ Driver_WakeUser(c) \in Context
         /\ Alike(c, Driver_WakeUser(c))
         /\ Driver_WakeUser(c).txq = c.txq
         /\ Driver_WakeUser(c).userWake = qosal_set_event(c.userWake)
<1>1. c.userWake \in Events
  BY DEF Context
<1>2. qosal_set_event(c.userWake) \in Events
  BY <1>1, SetEvent
<1> QED BY <1>2 DEF Driver_WakeUser, Context, Alike

LEMMA AlikeTrans ==
  ASSUME NEW c, NEW d, NEW e, Alike(c, d), Alike(d, e)
  PROVE  Alike(c, e)
BY DEF Alike

LEMMA PointerIsSession ==
  ASSUME TypeInv, MAC_CONTEXT_PTR # 0
  PROVE  MAC_CONTEXT_PTR \in Sessions /\ Cur \in Context
BY LifeAssumption DEF TypeInv, Sessions, Cur

LEMMA TaskIsSession ==
  ASSUME Base, task.at # "none"
  PROVE  task.cxt \in Sessions /\ cxt[task.cxt] \in Context
BY LifeAssumption DEF Base, TypeInv, TaskInv, Sessions

\* One context changes.
LEMMA OneContext ==
  ASSUME cxt \in [Sessions -> Context], NEW m \in Sessions, NEW d \in Context,
         cxt' = [cxt EXCEPT ![m] = d]
  PROVE  /\ cxt' \in [Sessions -> Context] /\ cxt'[m] = d
         /\ \A n \in Sessions \ {m} : cxt'[n] = cxt[n]
OBVIOUS

LEMMA ContextLike ==
  ASSUME cxt \in [Sessions -> Context], NEW m \in Sessions, NEW d \in Context,
         cxt' = [cxt EXCEPT ![m] = d], Alike(cxt[m], d)
  PROVE  /\ cxt' \in [Sessions -> Context] /\ LikeBefore
         /\ d.txq = cxt[m].txq => QueuesSame
         /\ d.userWake = cxt[m].userWake => WakesSame
<1>1. /\ cxt' \in [Sessions -> Context] /\ cxt'[m] = d
      /\ \A n \in Sessions \ {m} : cxt'[n] = cxt[n]
  BY OneContext
<1>2. LikeBefore
  BY <1>1 DEF LikeBefore, Alike
<1> QED BY <1>1, <1>2 DEF QueuesSame, WakesSame

-----------------------------------------------------------------------------
(***************************************************************************)
(* What each action does to the contexts.                                  *)
(***************************************************************************)
ContextsAre == cxt' \in [Sessions -> Context]

Fresh(n) == [NoContext EXCEPT !.rxfree = RxBuffers]

LEMMA NewContext ==
  ASSUME Base, opens < MaxOpens, cxt' = ContextInit(opens + 1)
  PROVE  /\ opens + 1 \in Sessions /\ ContextsAre
         /\ cxt'[opens + 1] = Fresh(opens + 1)
         /\ \A n \in Sessions \ {opens + 1} : cxt'[n] = cxt[n]
<1>1. opens + 1 \in Sessions
  BY LifeAssumption DEF Base, TypeInv, Sessions
<1> QED
  BY <1>1, NoContextOk, OneContext
     DEF Base, TypeInv, ContextInit, ContextsAre, Fresh

LEMMA FreshIs ==
  ASSUME NEW n
  PROVE  /\ Fresh(n) \in Context
         /\ ~Fresh(n).driver_up /\ ~Fresh(n).wmiReady /\ Fresh(n).abi
         /\ Fresh(n).rxfree = RxBuffers /\ Fresh(n).rxheld = 0
         /\ Fresh(n).txq = <<>> /\ ~Fresh(n).unlocked
BY NoContextOk DEF Fresh, NoContext

LEMMA ShutdownBegins ==
  ASSUME Base, Custom_Api_Shutdown
  PROVE  ContextsAre /\ LikeBefore /\ QueuesSame /\ WakesSame
<1> DEFINE c == Cur
           d == [c EXCEPT !.driverShutdown = TRUE]
<1>1. MAC_CONTEXT_PTR \in Sessions /\ c \in Context
  BY PointerIsSession DEF Custom_Api_Shutdown, Base
<1>2. /\ d \in Context /\ Alike(c, d)
      /\ d.txq = c.txq /\ d.userWake = c.userWake
  BY <1>1 DEF Context, Alike
<1>3. cxt' = [cxt EXCEPT ![MAC_CONTEXT_PTR] = Driver_WakeDriver(d)]
  BY DEF Custom_Api_Shutdown, Driver_DestroyThread, Cur
<1>4. /\ Driver_WakeDriver(d) \in Context /\ Alike(c, Driver_WakeDriver(d))
      /\ Driver_WakeDriver(d).txq = c.txq
      /\ Driver_WakeDriver(d).userWake = c.userWake
  <2> HIDE DEF d
  <2> QED BY <1>2, WakeDriver, AlikeTrans
<1> QED
  BY <1>1, <1>3, <1>4, ContextLike DEF Base, TypeInv, ContextsAre, Cur

LEMMA EventComes ==
  ASSUME Base, WaitEvent
  PROVE  /\ ContextsAre /\ LikeBefore /\ QueuesSame
         /\ \A n \in Sessions \ {MAC_CONTEXT_PTR} : cxt'[n] = cxt[n]
<1>1. MAC_CONTEXT_PTR # 0
  BY DEF WaitEvent, Base, PlaceInv, TypeInv, Waits
<1>2. MAC_CONTEXT_PTR \in Sessions /\ Cur \in Context
  BY <1>1, PointerIsSession DEF Base
<1>3. CASE UNCHANGED cxt
  BY <1>3 DEF Base, TypeInv, ContextsAre, LikeBefore, QueuesSame, Alike
<1>4. CASE cxt' = [cxt EXCEPT ![MAC_CONTEXT_PTR].userWake =
                     qosal_wait_for_event(@)]
  <2> DEFINE d == [Cur EXCEPT !.userWake = qosal_wait_for_event(@)]
  <2>1. qosal_wait_for_event(Cur.userWake) \in Events
    BY DEF qosal_wait_for_event, Events
  <2>2. d \in Context /\ Alike(Cur, d) /\ d.txq = Cur.txq
    BY <1>2, <2>1 DEF Context, Alike
  <2>3. cxt' = [cxt EXCEPT ![MAC_CONTEXT_PTR] = d]
    BY <1>4 DEF Cur
  <2> HIDE DEF d
  <2> QED
    BY <1>2, <2>2, <2>3, ContextLike, OneContext
       DEF Base, TypeInv, ContextsAre, Cur
<1> QED BY <1>3, <1>4 DEF WaitEvent

LEMMA CommandQueued ==
  ASSUME Base, Api_WMIInitFinish
  PROVE  /\ ContextsAre /\ LikeBefore /\ WakesSame
         /\ \A n \in Sessions \ {MAC_CONTEXT_PTR} : cxt'[n] = cxt[n]
         /\ \/ UNCHANGED <<cxt, heap>>
            \/ /\ cxt'[MAC_CONTEXT_PTR].txq
                     = Append(Cur.txq, Defaults[user.cmd])
               /\ heap' = heap \cup Own({Defaults[user.cmd]}, MAC_CONTEXT_PTR)
<1>1. user.at = "cmd" /\ user.cmd \in 1 .. 5 /\ MAC_CONTEXT_PTR # 0
  BY DEF Api_WMIInitFinish, UserAt, Base, PlaceInv, TypeInv
<1>2. MAC_CONTEXT_PTR \in Sessions /\ Cur \in Context
  BY <1>1, PointerIsSession DEF Base
<1>3. CASE UNCHANGED <<cxt, heap>>
  BY <1>3 DEF Base, TypeInv, ContextsAre, LikeBefore, WakesSame, Alike
<1>4. CASE /\ cxt' = [cxt EXCEPT ![MAC_CONTEXT_PTR] =
                        Driver_SubmitTxRequest(@, Defaults[user.cmd])]
           /\ heap' = heap \cup Own({Defaults[user.cmd]}, MAC_CONTEXT_PTR)
  <2> DEFINE d == [Cur EXCEPT !.txq = Append(@, Defaults[user.cmd])]
  <2>1. Defaults[user.cmd] \in Commands
    BY <1>1 DEF Commands
  <2>2. Append(Cur.txq, Defaults[user.cmd]) \in Seq(Commands)
    BY <1>2, <2>1 DEF Context
  <2>3. /\ d \in Context /\ Alike(Cur, d) /\ d.userWake = Cur.userWake
        /\ d.txq = Append(Cur.txq, Defaults[user.cmd])
    BY <1>2, <2>2 DEF Context, Alike
  <2>4. cxt' = [cxt EXCEPT ![MAC_CONTEXT_PTR] = Driver_WakeDriver(d)]
    BY <1>4 DEF Cur, Driver_SubmitTxRequest
  <2> HIDE DEF d
  <2>5. /\ Driver_WakeDriver(d) \in Context
        /\ Alike(Cur, Driver_WakeDriver(d))
        /\ Driver_WakeDriver(d).txq = Append(Cur.txq, Defaults[user.cmd])
        /\ Driver_WakeDriver(d).userWake = Cur.userWake
    BY <2>3, WakeDriver, AlikeTrans
  <2> QED
    BY <1>2, <1>4, <2>4, <2>5, ContextLike, OneContext
       DEF Base, TypeInv, ContextsAre, Cur
<1> QED BY <1>3, <1>4 DEF Api_WMIInitFinish

LEMMA CommandWaits ==
  ASSUME Base, wmi_cmd_process
  PROVE  ContextsAre /\ LikeBefore /\ QueuesSame /\ WakesSame
<1>1. MAC_CONTEXT_PTR \in Sessions /\ Cur \in Context
  <2>1. user.at \in {"nomem", "pend"}
    BY DEF wmi_cmd_process
  <2> QED BY <2>1, PointerIsSession DEF Base, PlaceInv
<1>2. CASE UNCHANGED cxt
  BY <1>2 DEF Base, TypeInv, ContextsAre, LikeBefore, WakesSame, QueuesSame,
     Alike
<1>3. CASE cxt' = [cxt EXCEPT ![MAC_CONTEXT_PTR].tx_complete_pend = TRUE]
  <2> DEFINE d == [Cur EXCEPT !.tx_complete_pend = TRUE]
  <2>1. /\ d \in Context /\ Alike(Cur, d)
        /\ d.txq = Cur.txq /\ d.userWake = Cur.userWake
    BY <1>1 DEF Context, Alike
  <2>2. cxt' = [cxt EXCEPT ![MAC_CONTEXT_PTR] = d]
    BY <1>3 DEF Cur
  <2> HIDE DEF d
  <2> QED
    BY <1>1, <2>1, <2>2, ContextLike DEF Base, TypeInv, ContextsAre, Cur
<1> QED BY <1>2, <1>3 DEF wmi_cmd_process

Unlocked == <<"utility_mutex", MAC_CONTEXT_PTR>> \notin heap

LEMMA BuffersFreed ==
  ASSUME Base, Api_DeInitFinish
  PROVE  /\ ContextsAre /\ QueuesSame /\ WakesSame
         /\ \A n \in Sessions \ {MAC_CONTEXT_PTR} : cxt'[n] = cxt[n]
         /\ \/ UNCHANGED cxt
            \/ /\ user.wait = "A_OK"
               /\ cxt'[MAC_CONTEXT_PTR] = [Cur EXCEPT !.rxfree = 0,
                                                      !.unlocked = Unlocked]
<1>1. MAC_CONTEXT_PTR \in Sessions /\ Cur \in Context
  BY PointerIsSession DEF Api_DeInitFinish, UserAt, Base, PlaceInv
<1>2. CASE UNCHANGED cxt
  BY <1>2 DEF Base, TypeInv, ContextsAre, WakesSame, QueuesSame
<1>3. CASE /\ user.wait = "A_OK"
           /\ cxt' = [cxt EXCEPT ![MAC_CONTEXT_PTR] =
                        Driver_ContextDeInit(@, MAC_CONTEXT_PTR)]
  <2> DEFINE d == [Cur EXCEPT !.rxfree = 0, !.unlocked = Unlocked]
  <2>1. d \in Context /\ d.txq = Cur.txq /\ d.userWake = Cur.userWake
    <3>1. Unlocked \in BOOLEAN
      BY DEF Unlocked
    <3> QED BY <1>1, <3>1 DEF Context
  <2>2. cxt' = [cxt EXCEPT ![MAC_CONTEXT_PTR] = d]
    BY <1>3 DEF Cur, Driver_ContextDeInit, Unlocked
  <2>3. /\ ContextsAre /\ cxt'[MAC_CONTEXT_PTR] = d
        /\ \A n \in Sessions \ {MAC_CONTEXT_PTR} : cxt'[n] = cxt[n]
    <3> HIDE DEF d
    <3> QED
      BY <1>1, <2>1, <2>2, OneContext DEF Base, TypeInv, ContextsAre
  <2> QED BY <1>3, <2>1, <2>3 DEF QueuesSame, WakesSame, Cur
<1> QED BY <1>2, <1>3 DEF Api_DeInitFinish

\* A service is connected: its endpoint, and the maps of its access class.
Rest(c, d) ==
  /\ d.driver_up = c.driver_up /\ d.wmiReady = c.wmiReady /\ d.abi = c.abi
  /\ d.rxfree = c.rxfree /\ d.rxheld = c.rxheld
  /\ d.txq = c.txq /\ d.userWake = c.userWake /\ d.unlocked = c.unlocked

LEMMA DataService ==
  ASSUME NEW c \in Context,
         NEW svc \in {"WMI_DATA_BE_SVC", "WMI_DATA_BK_SVC", "WMI_DATA_VI_SVC",
                      "WMI_DATA_VO_SVC"}
  PROVE  LET d == ConnectService(c, svc)
             e == HTC_ConnectService(svc)
         IN /\ d \in Context /\ Rest(c, d) /\ d.wmi_ep = c.wmi_ep
            /\ d.serviceID = [c.serviceID EXCEPT ![e] = svc]
            /\ d.ac2Ep = [c.ac2Ep EXCEPT ![AcOf(svc)] = e]
            /\ d.ep2Ac = [c.ep2Ac EXCEPT ![e] = AcOf(svc)]
<1> DEFINE e == HTC_ConnectService(svc)
<1>1. e \in Endpoints /\ AcOf(svc) \in WmmAc
  BY DEF HTC_ConnectService, Endpoints, AcOf, WmmAc
<1>2. svc # "WMI_CONTROL_SVC" /\ svc \in ServiceIds
  BY DEF ServiceIds
<1>3. /\ [c.serviceID EXCEPT ![e] = svc] \in [Endpoints -> ServiceIds]
      /\ [c.ac2Ep EXCEPT ![AcOf(svc)] = e] \in [WmmAc -> Endpoints]
      /\ [c.ep2Ac EXCEPT ![e] = AcOf(svc)] \in [Endpoints -> WmmAc]
  BY <1>1, <1>2 DEF Context
<1>4. ConnectService(c, svc) =
        [c EXCEPT !.serviceID = [c.serviceID EXCEPT ![e] = svc],
                  !.ac2Ep = [c.ac2Ep EXCEPT ![AcOf(svc)] = e],
                  !.ep2Ac = [c.ep2Ac EXCEPT ![e] = AcOf(svc)]]
  BY <1>2 DEF ConnectService, Context
<1> HIDE DEF e
<1> QED BY <1>3, <1>4 DEF Context, Rest, e

LEMMA ControlService ==
  ASSUME NEW c \in Context
  PROVE  LET d == ConnectService(HTC_WaitTarget(c), "WMI_CONTROL_SVC")
         IN /\ d \in Context /\ Rest(c, d) /\ d.wmi_ep = 1
            /\ d.serviceID = [c.serviceID EXCEPT ![0] = "HTC_CTRL_RSVD_SVC",
                                                 ![1] = "WMI_CONTROL_SVC"]
            /\ d.ac2Ep = c.ac2Ep /\ d.ep2Ac = c.ep2Ac
<1>1. HTC_ConnectService("WMI_CONTROL_SVC") = 1
  BY DEF HTC_ConnectService
<1>2. [c.serviceID EXCEPT ![0] = "HTC_CTRL_RSVD_SVC",
                          ![1] = "WMI_CONTROL_SVC"]
        \in [Endpoints -> ServiceIds]
  BY DEF Context, Endpoints, ServiceIds
<1>3. ConnectService(HTC_WaitTarget(c), "WMI_CONTROL_SVC") =
        [c EXCEPT !.serviceID =
                    [c.serviceID EXCEPT ![0] = "HTC_CTRL_RSVD_SVC",
                                        ![1] = "WMI_CONTROL_SVC"],
                  !.wmi_ep = 1]
  BY <1>1 DEF ConnectService, HTC_WaitTarget, Context
<1>4. 1 \in Endpoints
  BY DEF Endpoints
<1> QED BY <1>2, <1>3, <1>4 DEF Context, Rest

\* The maps when all services are connected.
Connected(d) ==
  /\ d.serviceID[0] = "HTC_CTRL_RSVD_SVC" /\ d.serviceID[1] = "WMI_CONTROL_SVC"
  /\ d.serviceID[2] = "WMI_DATA_BE_SVC" /\ d.serviceID[3] = "WMI_DATA_BK_SVC"
  /\ d.serviceID[4] = "WMI_DATA_VI_SVC" /\ d.serviceID[5] = "WMI_DATA_VO_SVC"
  /\ d.ac2Ep["BE"] = 2 /\ d.ac2Ep["BK"] = 3
  /\ d.ac2Ep["VI"] = 4 /\ d.ac2Ep["VO"] = 5
  /\ d.ep2Ac[2] = "BE" /\ d.ep2Ac[3] = "BK"
  /\ d.ep2Ac[4] = "VI" /\ d.ep2Ac[5] = "VO"
  /\ d.wmi_ep = 1

LEMMA ServicesConnected ==
  ASSUME NEW c \in Context
  PROVE  /\ SetupServices(c) \in Context
         /\ Rest(c, SetupServices(c)) /\ Connected(SetupServices(c))
<1> DEFINE control == ConnectService(HTC_WaitTarget(c), "WMI_CONTROL_SVC")
           be == ConnectService(control, "WMI_DATA_BE_SVC")
           bk == ConnectService(be, "WMI_DATA_BK_SVC")
           vi == ConnectService(bk, "WMI_DATA_VI_SVC")
           vo == ConnectService(vi, "WMI_DATA_VO_SVC")
<1>1. SetupServices(c) = vo
  BY DEF SetupServices
<1>2. /\ HTC_ConnectService("WMI_DATA_BE_SVC") = 2
      /\ HTC_ConnectService("WMI_DATA_BK_SVC") = 3
      /\ HTC_ConnectService("WMI_DATA_VI_SVC") = 4
      /\ HTC_ConnectService("WMI_DATA_VO_SVC") = 5
      /\ AcOf("WMI_DATA_BE_SVC") = "BE" /\ AcOf("WMI_DATA_BK_SVC") = "BK"
      /\ AcOf("WMI_DATA_VI_SVC") = "VI" /\ AcOf("WMI_DATA_VO_SVC") = "VO"
  BY DEF HTC_ConnectService, AcOf
<1>3. /\ control \in Context /\ Rest(c, control) /\ control.wmi_ep = 1
      /\ control.serviceID = [c.serviceID EXCEPT
                                ![0] = "HTC_CTRL_RSVD_SVC",
                                ![1] = "WMI_CONTROL_SVC"]
  BY ControlService
<1> HIDE DEF control
<1>4. /\ be \in Context /\ Rest(control, be) /\ be.wmi_ep = control.wmi_ep
      /\ be.serviceID = [control.serviceID EXCEPT ![2] = "WMI_DATA_BE_SVC"]
      /\ be.ac2Ep = [control.ac2Ep EXCEPT !["BE"] = 2]
      /\ be.ep2Ac = [control.ep2Ac EXCEPT ![2] = "BE"]
  BY <1>2, <1>3, DataService
<1> HIDE DEF be
<1>5. /\ bk \in Context /\ Rest(be, bk) /\ bk.wmi_ep = be.wmi_ep
      /\ bk.serviceID = [be.serviceID EXCEPT ![3] = "WMI_DATA_BK_SVC"]
      /\ bk.ac2Ep = [be.ac2Ep EXCEPT !["BK"] = 3]
      /\ bk.ep2Ac = [be.ep2Ac EXCEPT ![3] = "BK"]
  BY <1>2, <1>4, DataService
<1> HIDE DEF bk
<1>6. /\ vi \in Context /\ Rest(bk, vi) /\ vi.wmi_ep = bk.wmi_ep
      /\ vi.serviceID = [bk.serviceID EXCEPT ![4] = "WMI_DATA_VI_SVC"]
      /\ vi.ac2Ep = [bk.ac2Ep EXCEPT !["VI"] = 4]
      /\ vi.ep2Ac = [bk.ep2Ac EXCEPT ![4] = "VI"]
  BY <1>2, <1>5, DataService
<1> HIDE DEF vi
<1>7. /\ vo \in Context /\ Rest(vi, vo) /\ vo.wmi_ep = vi.wmi_ep
      /\ vo.serviceID = [vi.serviceID EXCEPT ![5] = "WMI_DATA_VO_SVC"]
      /\ vo.ac2Ep = [vi.ac2Ep EXCEPT !["VO"] = 5]
      /\ vo.ep2Ac = [vi.ep2Ac EXCEPT ![5] = "VO"]
  BY <1>2, <1>6, DataService
<1> HIDE DEF vo
<1>8. Rest(c, vo)
  BY <1>3, <1>4, <1>5, <1>6, <1>7 DEF Rest
<1>9. /\ c.serviceID \in [Endpoints -> ServiceIds]
      /\ control.ac2Ep \in [WmmAc -> Endpoints]
      /\ control.ep2Ac \in [Endpoints -> WmmAc]
  BY <1>3 DEF Context
<1>10. vo.serviceID = [c.serviceID EXCEPT
         ![0] = "HTC_CTRL_RSVD_SVC", ![1] = "WMI_CONTROL_SVC",
         ![2] = "WMI_DATA_BE_SVC", ![3] = "WMI_DATA_BK_SVC",
         ![4] = "WMI_DATA_VI_SVC", ![5] = "WMI_DATA_VO_SVC"]
  BY <1>3, <1>4, <1>5, <1>6, <1>7
<1>11. /\ vo.ac2Ep = [control.ac2Ep EXCEPT !["BE"] = 2, !["BK"] = 3,
                                           !["VI"] = 4, !["VO"] = 5]
       /\ vo.ep2Ac = [control.ep2Ac EXCEPT ![2] = "BE", ![3] = "BK",
                                           ![4] = "VI", ![5] = "VO"]
       /\ vo.wmi_ep = 1
  BY <1>3, <1>4, <1>5, <1>6, <1>7
<1>12. Connected(vo)
  BY <1>9, <1>10, <1>11 DEF Connected, Endpoints, WmmAc
<1> QED BY <1>1, <1>7, <1>8, <1>12

LEMMA DriverInits ==
  ASSUME Base, Driver_Init
  PROVE  /\ ContextsAre /\ LikeBefore /\ QueuesSame
<1>1. task.cxt \in Sessions /\ cxt[task.cxt] \in Context
  BY TaskIsSession DEF Driver_Init
<1> DEFINE d == [cxt[task.cxt] EXCEPT !.driverWake = qosal_create_event,
                                      !.userWake = qosal_create_event]
<1>2. d \in Context /\ Alike(cxt[task.cxt], d) /\ d.txq = cxt[task.cxt].txq
  BY <1>1 DEF Context, Alike, qosal_create_event, Events
<1>3. cxt' = [cxt EXCEPT ![task.cxt] = d]
  BY <1>1 DEF Driver_Init, Base, TypeInv
<1> HIDE DEF d
<1> QED BY <1>1, <1>2, <1>3, ContextLike DEF Base, TypeInv, ContextsAre

LEMMA DriverIsUp ==
  ASSUME Base, DriverInitEnds, ~UNCHANGED cxt
  PROVE  /\ ContextsAre /\ QueuesSame /\ WakesSame
         /\ \A n \in Sessions \ {task.cxt} : cxt'[n] = cxt[n]
         /\ Connected(cxt'[task.cxt])
         /\ cxt'[task.cxt].driver_up
         /\ cxt'[task.cxt].wmiReady = cxt[task.cxt].wmiReady
         /\ cxt'[task.cxt].abi = cxt[task.cxt].abi
         /\ cxt'[task.cxt].rxfree = cxt[task.cxt].rxfree
         /\ cxt'[task.cxt].rxheld = cxt[task.cxt].rxheld
         /\ cxt'[task.cxt].unlocked = cxt[task.cxt].unlocked
         /\ task' = [task EXCEPT !.at = "wait"]
         /\ target' = [target EXCEPT !.up = TRUE]
         /\ heap' = heap \cup wmi_init(task.cxt)
<1> DEFINE c == cxt[task.cxt]
           s == SetupServices(c)
           d == [s EXCEPT !.chipDown = FALSE, !.driver_up = TRUE]
<1>1. task.cxt \in Sessions /\ c \in Context
  BY TaskIsSession DEF DriverInitEnds
<1>2. /\ cxt' = [cxt EXCEPT ![task.cxt] = d]
      /\ task' = [task EXCEPT !.at = "wait"]
      /\ target' = [target EXCEPT !.up = TRUE]
      /\ heap' = heap \cup wmi_init(task.cxt)
  BY DEF DriverInitEnds
<1>3. s \in Context /\ Rest(c, s) /\ Connected(s)
  BY <1>1, ServicesConnected
<1> HIDE DEF s
<1>4. /\ d \in Context /\ Connected(d) /\ d.driver_up
      /\ d.wmiReady = s.wmiReady /\ d.abi = s.abi /\ d.rxfree = s.rxfree
      /\ d.rxheld = s.rxheld /\ d.txq = s.txq /\ d.userWake = s.userWake
      /\ d.unlocked = s.unlocked
  BY <1>3 DEF Context, Connected
<1> HIDE DEF d
<1>5. /\ ContextsAre /\ cxt'[task.cxt] = d
      /\ \A n \in Sessions \ {task.cxt} : cxt'[n] = cxt[n]
  BY <1>1, <1>2, <1>4, OneContext DEF Base, TypeInv, ContextsAre
<1> QED BY <1>2, <1>3, <1>4, <1>5 DEF Rest, QueuesSame, WakesSame

LEMMA DriverWoken ==
  ASSUME Base, task.at # "none",
         cxt' = [cxt EXCEPT ![task.cxt] = Driver_WakeDriver(@)]
  PROVE  /\ ContextsAre /\ LikeBefore /\ QueuesSame /\ WakesSame
<1>1. task.cxt \in Sessions /\ cxt[task.cxt] \in Context
  BY TaskIsSession
<1> DEFINE d == Driver_WakeDriver(cxt[task.cxt])
<1>2. /\ d \in Context /\ Alike(cxt[task.cxt], d)
      /\ d.txq = cxt[task.cxt].txq /\ d.userWake = cxt[task.cxt].userWake
  BY <1>1, WakeDriver
<1>3. cxt' = [cxt EXCEPT ![task.cxt] = d]
  OBVIOUS
<1> HIDE DEF d
<1> QED BY <1>1, <1>2, <1>3, ContextLike DEF Base, TypeInv, ContextsAre

LEMMA MainLoop ==
  ASSUME Base, Driver_Main
  PROVE  /\ ContextsAre
         /\ \A n \in Sessions \ {task.cxt} : cxt'[n] = cxt[n]
         /\ cxt'[task.cxt].driver_up = cxt[task.cxt].driver_up
         /\ cxt[task.cxt].wmiReady => cxt'[task.cxt].wmiReady
         /\ "abi" \notin Happens =>
              (cxt[task.cxt].abi => cxt'[task.cxt].abi)
         /\ cxt'[task.cxt].rxfree = cxt[task.cxt].rxfree
         /\ cxt'[task.cxt].rxheld = cxt[task.cxt].rxheld
         /\ cxt'[task.cxt].unlocked = cxt[task.cxt].unlocked
         /\ cxt'[task.cxt].serviceID = cxt[task.cxt].serviceID
         /\ cxt'[task.cxt].ac2Ep = cxt[task.cxt].ac2Ep
         /\ cxt'[task.cxt].ep2Ac = cxt[task.cxt].ep2Ac
         /\ cxt'[task.cxt].wmi_ep = cxt[task.cxt].wmi_ep
         /\ target.up' = target.up
         /\ target' \in [up : BOOLEAN, ready : BOOLEAN, slept : BOOLEAN,
                         sent : Seq(Commands)]
         /\ All' = All
         /\ \/ UNCHANGED heap /\ QueuesSame
            \/ /\ cxt'[task.cxt].txq = <<>>
               /\ heap' = heap \ Netbufs(cxt[task.cxt].txq, task.cxt)
<1> DEFINE c == cxt[task.cxt]
           woken == [c EXCEPT !.driverWake = "clear"]
           heard(abi) == IF target.ready /\ ~c.wmiReady
                         THEN Api_ReadyEvent(woken, abi) ELSE woken
           done(abi) == IF c.txq = <<>> THEN heard(abi)
                        ELSE Driver_WakeUser([heard(abi) EXCEPT
                               !.txq = <<>>, !.tx_complete_pend = FALSE])
           Like(d) == /\ d \in Context /\ d.driver_up = c.driver_up
                      /\ c.wmiReady => d.wmiReady
                      /\ d.rxfree = c.rxfree /\ d.rxheld = c.rxheld
                      /\ d.serviceID = c.serviceID /\ d.ac2Ep = c.ac2Ep
                      /\ d.ep2Ac = c.ep2Ac /\ d.wmi_ep = c.wmi_ep
                      /\ d.unlocked = c.unlocked
<1>1. task.cxt \in Sessions /\ c \in Context
  BY TaskIsSession DEF Driver_Main
<1>2. PICK abi \in BOOLEAN :
        /\ abi \/ "abi" \in Happens
        /\ \/ /\ cxt' = [cxt EXCEPT ![task.cxt] = done(abi)]
              /\ target' = [target EXCEPT !.sent = @ \o c.txq]
              /\ heap' = heap \ Netbufs(c.txq, task.cxt)
           \/ /\ cxt' = [cxt EXCEPT ![task.cxt] = heard(abi)]
              /\ UNCHANGED <<heap, target>>
  BY DEF Driver_Main
<1>3. woken \in Context /\ Alike(c, woken) /\ woken.txq = c.txq
  BY <1>1 DEF Context, Alike, Events
<1> HIDE DEF woken
<1> DEFINE r == [woken EXCEPT !.wmiReady = TRUE, !.abi = abi]
<1>4. /\ r \in Context /\ r.driver_up = woken.driver_up /\ r.wmiReady
      /\ r.abi = abi /\ r.txq = woken.txq
      /\ r.rxfree = woken.rxfree /\ r.rxheld = woken.rxheld
      /\ r.serviceID = woken.serviceID /\ r.ac2Ep = woken.ac2Ep
      /\ r.ep2Ac = woken.ep2Ac /\ r.wmi_ep = woken.wmi_ep
      /\ r.unlocked = woken.unlocked
  BY <1>2, <1>3 DEF Context
<1>5. Api_ReadyEvent(woken, abi) = Driver_WakeUser(r)
  BY DEF Api_ReadyEvent
<1> HIDE DEF r
<1>6. /\ Like(Driver_WakeUser(r)) /\ Driver_WakeUser(r).abi = abi
      /\ Driver_WakeUser(r).txq = c.txq
  BY <1>3, <1>4, WakeUser DEF Alike
<1>7. Like(woken) /\ woken.abi = c.abi
  BY <1>3 DEF Alike
<1> DEFINE h == heard(abi)
<1>8. Like(h) /\ h.abi \in {c.abi, abi} /\ h.txq = c.txq
  BY <1>3, <1>5, <1>6, <1>7
<1>9. done(abi) = IF c.txq = <<>> THEN h
                  ELSE Driver_WakeUser([h EXCEPT !.txq = <<>>,
                                                 !.tx_complete_pend = FALSE])
  OBVIOUS
<1> HIDE DEF h, heard
<1> DEFINE t == [h EXCEPT !.txq = <<>>, !.tx_complete_pend = FALSE]
<1>10. Like(t) /\ t.abi = h.abi /\ t.txq = <<>>
  <2>1. h \in Context /\ <<>> \in Seq(Commands)
    BY <1>8
  <2>2. /\ t \in Context /\ t.driver_up = h.driver_up
        /\ t.wmiReady = h.wmiReady /\ t.abi = h.abi /\ t.txq = <<>>
        /\ t.rxfree = h.rxfree /\ t.rxheld = h.rxheld
        /\ t.serviceID = h.serviceID /\ t.ac2Ep = h.ac2Ep
        /\ t.ep2Ac = h.ep2Ac /\ t.wmi_ep = h.wmi_ep
        /\ t.unlocked = h.unlocked
    BY <2>1 DEF Context
  <2> HIDE DEF t, c
  <2> QED BY <1>8, <2>2
<1> HIDE DEF t
<1>11. /\ Like(Driver_WakeUser(t)) /\ Driver_WakeUser(t).abi = h.abi
       /\ Driver_WakeUser(t).txq = <<>>
  BY <1>10, WakeUser DEF Alike
<1> DEFINE d == done(abi)
<1>12. Like(d) /\ d.abi = h.abi /\ d.txq = <<>>
  BY <1>8, <1>9, <1>11 DEF t
<1> HIDE DEF d, done
<1>13. PICK e \in {d, h} : /\ cxt' = [cxt EXCEPT ![task.cxt] = e]
                           /\ \/ /\ e = d
                                 /\ target' = [target EXCEPT !.sent = @ \o c.txq]
                                 /\ heap' = heap \ Netbufs(c.txq, task.cxt)
                              \/ e = h /\ UNCHANGED <<heap, target>>
  BY <1>2 DEF d, h
<1>14. Like(e) /\ e.abi \in {c.abi, abi}
  BY <1>8, <1>12
<1>15. /\ ContextsAre /\ cxt'[task.cxt] = e
       /\ \A n \in Sessions \ {task.cxt} : cxt'[n] = cxt[n]
  BY <1>1, <1>13, <1>14, OneContext DEF Base, TypeInv, ContextsAre
<1>16. c.txq \in Seq(Commands) /\ target.sent \in Seq(Commands)
  BY <1>1 DEF Context, Base, TypeInv
<1>17. /\ target.up' = target.up
       /\ target' \in [up : BOOLEAN, ready : BOOLEAN, slept : BOOLEAN,
                       sent : Seq(Commands)]
  <2>1. target.sent \o c.txq \in Seq(Commands)
    BY <1>16
  <2>2. target \in [up : BOOLEAN, ready : BOOLEAN, slept : BOOLEAN,
                    sent : Seq(Commands)]
    BY DEF Base, TypeInv
  <2>3. CASE target' = [target EXCEPT !.sent = @ \o c.txq]
    BY <2>1, <2>2, <2>3
  <2>4. CASE UNCHANGED target
    BY <2>2, <2>4
  <2> QED BY <1>13, <2>3, <2>4
<1>18. UNCHANGED task
  BY DEF Driver_Main
<1>19. All' = All
  <2>1. CASE e = d /\ target' = [target EXCEPT !.sent = @ \o c.txq]
    <3>1. target.sent' = target.sent \o c.txq /\ cxt'[task.cxt].txq = <<>>
      BY <1>12, <1>15, <2>1 DEF Base, TypeInv
    <3> QED BY <1>16, <1>18, <3>1 DEF All
  <2>2. CASE e = h /\ UNCHANGED target
    BY <1>8, <1>15, <1>18, <2>2 DEF All
  <2> QED BY <1>13, <2>1, <2>2
<1>20. \/ UNCHANGED heap /\ QueuesSame
       \/ /\ cxt'[task.cxt].txq = <<>>
          /\ heap' = heap \ Netbufs(c.txq, task.cxt)
  <2>1. CASE e = h /\ UNCHANGED heap
    BY <1>8, <1>15, <2>1 DEF QueuesSame
  <2>2. CASE e = d /\ heap' = heap \ Netbufs(c.txq, task.cxt)
    BY <1>12, <1>15, <2>2
  <2> QED BY <1>13, <2>1, <2>2
<1> HIDE DEF c
<1> QED BY <1>2, <1>14, <1>15, <1>17, <1>19, <1>20 DEF c

LEMMA PacketReceived ==
  ASSUME Base, Receive
  PROVE  /\ ContextsAre /\ QueuesSame /\ WakesSame
         /\ \A n \in Sessions \ {task.cxt} : cxt'[n] = cxt[n]
         /\ cxt'[task.cxt] = [cxt[task.cxt] EXCEPT !.rxfree = @ - 1,
                                                   !.rxheld = @ + 1]
<1>1. task.cxt \in Sessions /\ cxt[task.cxt] \in Context
  BY TaskIsSession DEF Receive
<1> DEFINE c == cxt[task.cxt]
           d == [c EXCEPT !.rxfree = @ - 1, !.rxheld = @ + 1]
<1>2. c.rxfree - 1 \in Nat /\ c.rxheld + 1 \in Nat
  BY <1>1 DEF Receive, Context
<1>3. d \in Context /\ d.txq = c.txq /\ d.userWake = c.userWake
  BY <1>1, <1>2 DEF Context
<1>4. cxt' = [cxt EXCEPT ![task.cxt] = d]
  BY <1>1 DEF Receive, Base, TypeInv
<1> HIDE DEF d
<1>5. /\ ContextsAre /\ cxt'[task.cxt] = d
      /\ \A n \in Sessions \ {task.cxt} : cxt'[n] = cxt[n]
  BY <1>1, <1>3, <1>4, OneContext DEF Base, TypeInv, ContextsAre
<1> QED BY <1>3, <1>5 DEF d, QueuesSame, WakesSame

LEMMA PacketFreed ==
  ASSUME Base, AppFrees
  PROVE  /\ ContextsAre /\ QueuesSame /\ WakesSame
         /\ \A n \in Sessions \ {MAC_CONTEXT_PTR} : cxt'[n] = cxt[n]
         /\ cxt'[MAC_CONTEXT_PTR] = [Cur EXCEPT !.rxfree = @ + 1,
                                                !.rxheld = @ - 1]
<1>1. MAC_CONTEXT_PTR \in Sessions /\ Cur \in Context
  BY PointerIsSession DEF AppFrees, Base
<1> DEFINE d == [Cur EXCEPT !.rxfree = @ + 1, !.rxheld = @ - 1]
<1>2. Cur.rxfree + 1 \in Nat /\ Cur.rxheld - 1 \in Nat
  BY <1>1 DEF AppFrees, Context
<1>3. d \in Context /\ d.txq = Cur.txq /\ d.userWake = Cur.userWake
  BY <1>1, <1>2 DEF Context
<1>4. cxt' = [cxt EXCEPT ![MAC_CONTEXT_PTR] = d]
  BY <1>1 DEF AppFrees, Base, TypeInv, Cur
<1> HIDE DEF d
<1>5. /\ ContextsAre /\ cxt'[MAC_CONTEXT_PTR] = d
      /\ \A n \in Sessions \ {MAC_CONTEXT_PTR} : cxt'[n] = cxt[n]
  BY <1>1, <1>3, <1>4, OneContext DEF Base, TypeInv, ContextsAre
<1> QED BY <1>3, <1>5 DEF d, QueuesSame, WakesSame, Cur

LEMMA ShutsDown ==
  ASSUME Base, DriverShutsDown
  PROVE  ContextsAre /\ LikeBefore /\ QueuesSame /\ WakesSame
<1>1. task.cxt \in Sessions /\ cxt[task.cxt] \in Context
  BY TaskIsSession DEF DriverShutsDown
<1> DEFINE c == cxt[task.cxt]
           d == [c EXCEPT !.driverWake = "clear"]
<1>2. /\ d \in Context /\ Alike(c, d)
      /\ d.txq = c.txq /\ d.userWake = c.userWake
  BY <1>1 DEF Context, Alike, Events
<1>3. cxt' = [cxt EXCEPT ![task.cxt] = d]
  BY <1>1 DEF DriverShutsDown, Base, TypeInv
<1> HIDE DEF d
<1> QED BY <1>1, <1>2, <1>3, ContextLike DEF Base, TypeInv, ContextsAre

LEMMA DriverDeInits ==
  ASSUME Base, Driver_DeInit
  PROVE  /\ ContextsAre /\ QueuesSame
         /\ \A n \in Sessions \ {task.cxt} : cxt'[n] = cxt[n]
         /\ ~cxt'[task.cxt].driver_up
         /\ cxt'[task.cxt].wmiReady = cxt[task.cxt].wmiReady
         /\ cxt'[task.cxt].abi = cxt[task.cxt].abi
         /\ cxt'[task.cxt].rxfree = cxt[task.cxt].rxfree
         /\ cxt'[task.cxt].rxheld = cxt[task.cxt].rxheld
         /\ cxt'[task.cxt].unlocked = cxt[task.cxt].unlocked
         /\ WakeOnDeleted => cxt'[task.cxt].userWake = "woken"
<1>1. task.cxt \in Sessions /\ cxt[task.cxt] \in Context
  BY TaskIsSession DEF Driver_DeInit
<1> DEFINE c == cxt[task.cxt]
           s == [c EXCEPT !.driver_up = FALSE, !.userWake = "deleted",
                          !.driverWake = "deleted"]
           d == Driver_WakeUser(s)
<1>2. /\ s \in Context /\ ~s.driver_up /\ s.wmiReady = c.wmiReady
      /\ s.abi = c.abi /\ s.rxfree = c.rxfree /\ s.rxheld = c.rxheld
      /\ s.userWake = "deleted" /\ s.txq = c.txq /\ s.unlocked = c.unlocked
  BY <1>1 DEF Context, Events
<1>3. cxt' = [cxt EXCEPT ![task.cxt] = d]
  BY <1>1 DEF Driver_DeInit, qosal_delete_event
<1> HIDE DEF s
<1>4. d \in Context /\ Alike(s, d) /\ d.txq = s.txq
      /\ d.userWake = qosal_set_event("deleted")
  BY <1>2, WakeUser
<1>5. WakeOnDeleted => d.userWake = "woken"
  BY <1>4, SetEvent DEF Events
<1> HIDE DEF d
<1>6. /\ ContextsAre /\ cxt'[task.cxt] = d
      /\ \A n \in Sessions \ {task.cxt} : cxt'[n] = cxt[n]
  BY <1>1, <1>3, <1>4, OneContext DEF Base, TypeInv, ContextsAre
<1> QED BY <1>2, <1>4, <1>5, <1>6 DEF Alike, QueuesSame

-----------------------------------------------------------------------------
RxBound == \A n \in Sessions : cxt[n].rxfree + cxt[n].rxheld <= RxBuffers

LEMMA LikeBound ==
  ASSUME RxBound, LikeBefore
  PROVE  RxBound'
BY DEF RxBound, LikeBefore, Alike

LEMMA ContextsStep ==
  ASSUME Base, Next
  PROVE  ContextsAre /\ RxBound'
<1>0. RxBound /\ (UNCHANGED cxt => ContextsAre /\ RxBound')
  BY DEF Base, TypeInv, RxBound, ContextsAre
<1> DEFINE n == opens + 1
<1>1. CASE opens < MaxOpens /\ cxt' = ContextInit(n)
  <2>1. /\ ContextsAre /\ cxt'[n] = Fresh(n)
        /\ \A m \in Sessions \ {n} : cxt'[m] = cxt[m]
    BY <1>1, NewContext
  <2>2. Fresh(n).rxfree + Fresh(n).rxheld <= RxBuffers
    BY FreshIs, LifeAssumption
  <2> QED BY <1>0, <2>1, <2>2 DEF RxBound
<1>2. CASE Custom_Api_Initialize
  BY <1>0, <1>1, <1>2 DEF Custom_Api_Initialize, SecondDevice
<1>3. CASE InitializeNoMemory
  BY <1>0, <1>1, <1>3 DEF InitializeNoMemory
<1>4. CASE Custom_Api_Shutdown
  BY <1>0, <1>4, ShutdownBegins, LikeBound
<1>5. CASE \/ WaitTest \/ Api_InitFinish \/ socket_context_deinit
           \/ ShutdownEnds \/ RecallWakes \/ RecallSleeps
  BY <1>0, <1>5 DEF WaitTest, Api_InitFinish, InitializeFails,
     socket_context_deinit, ShutdownEnds, RecallWakes, RecallSleeps
<1>6. CASE WaitEvent
  BY <1>0, <1>6, EventComes, LikeBound
<1>7. CASE Api_WMIInitFinish
  BY <1>0, <1>7, CommandQueued, LikeBound
<1>8. CASE wmi_cmd_process
  BY <1>0, <1>8, CommandWaits, LikeBound
<1>9. CASE Api_DeInitFinish
  <2>1. CASE UNCHANGED cxt
    BY <1>0, <2>1
  <2>2. CASE ~UNCHANGED cxt
    <3>1. MAC_CONTEXT_PTR \in Sessions /\ Cur \in Context
      BY <1>9, PointerIsSession DEF Api_DeInitFinish, UserAt, Base, PlaceInv
    <3>2. /\ ContextsAre
          /\ cxt'[MAC_CONTEXT_PTR] = [Cur EXCEPT !.rxfree = 0,
                                                 !.unlocked = Unlocked]
          /\ \A m \in Sessions \ {MAC_CONTEXT_PTR} : cxt'[m] = cxt[m]
      BY <1>9, <2>2, BuffersFreed
    <3>3. /\ cxt'[MAC_CONTEXT_PTR].rxfree = 0
          /\ cxt'[MAC_CONTEXT_PTR].rxheld = Cur.rxheld
          /\ Cur.rxfree \in Nat /\ Cur.rxheld \in Nat
      BY <3>1, <3>2 DEF Context
    <3>4. Cur.rxfree + Cur.rxheld <= RxBuffers
      BY <1>0, <3>1 DEF RxBound, Cur
    <3>5. \A m \in Sessions : cxt'[m].rxfree + cxt'[m].rxheld <= RxBuffers
      <4> SUFFICES ASSUME NEW m \in Sessions
                   PROVE  cxt'[m].rxfree + cxt'[m].rxheld <= RxBuffers
        OBVIOUS
      <4>1. CASE m = MAC_CONTEXT_PTR
        BY <3>3, <3>4, <4>1, LifeAssumption
      <4>2. CASE m # MAC_CONTEXT_PTR
        BY <1>0, <3>2, <4>2 DEF RxBound
      <4> QED BY <4>1, <4>2
    <3> QED BY <3>2, <3>5 DEF RxBound
  <2> QED BY <2>1, <2>2
<1>10. CASE Driver_Init
  BY <1>0, <1>10, DriverInits, LikeBound
<1>11. CASE DriverInitEnds
  BY <1>0, <1>11, DriverIsUp DEF RxBound
<1>12. CASE Driver_Main
  BY <1>0, <1>12, MainLoop DEF RxBound
<1>13. CASE DriverShutsDown
  BY <1>0, <1>13, ShutsDown, LikeBound
<1>14. CASE Driver_DeInit
  BY <1>0, <1>14, DriverDeInits DEF RxBound
<1>15. CASE TargetReady \/ TargetCredit
  BY <1>0, <1>15, DriverWoken, LikeBound DEF TargetReady, TargetCredit
<1>16. CASE Receive
  <2>1. task.cxt \in Sessions /\ cxt[task.cxt] \in Context
    BY <1>16, TaskIsSession DEF Receive
  <2>2. /\ ContextsAre
        /\ \A m \in Sessions \ {task.cxt} : cxt'[m] = cxt[m]
        /\ cxt'[task.cxt].rxfree = cxt[task.cxt].rxfree - 1
        /\ cxt'[task.cxt].rxheld = cxt[task.cxt].rxheld + 1
        /\ cxt[task.cxt].rxfree \in Nat /\ cxt[task.cxt].rxheld \in Nat
    BY <1>16, <2>1, PacketReceived DEF Context
  <2>3. cxt'[task.cxt].rxfree + cxt'[task.cxt].rxheld <= RxBuffers
    BY <1>0, <2>1, <2>2, LifeAssumption DEF RxBound
  <2> QED BY <1>0, <2>2, <2>3 DEF RxBound
<1>17. CASE AppFrees
  <2>1. MAC_CONTEXT_PTR \in Sessions /\ Cur \in Context
    BY <1>17, PointerIsSession DEF AppFrees, Base
  <2>2. /\ ContextsAre
        /\ \A m \in Sessions \ {MAC_CONTEXT_PTR} : cxt'[m] = cxt[m]
        /\ cxt'[MAC_CONTEXT_PTR].rxfree = Cur.rxfree + 1
        /\ cxt'[MAC_CONTEXT_PTR].rxheld = Cur.rxheld - 1
        /\ Cur.rxfree \in Nat /\ Cur.rxheld \in Nat
    BY <1>17, <2>1, PacketFreed DEF Context
  <2>3. cxt'[MAC_CONTEXT_PTR].rxfree + cxt'[MAC_CONTEXT_PTR].rxheld
          <= RxBuffers
    BY <1>0, <2>1, <2>2, LifeAssumption DEF RxBound, Cur
  <2> QED BY <1>0, <2>2, <2>3 DEF RxBound
<1> QED
  BY <1>2, <1>3, <1>4, <1>5, <1>6, <1>7, <1>8, <1>9, <1>10, <1>11, <1>12,
     <1>13, <1>14, <1>15, <1>16, <1>17 DEF Next, UserStep, DriverStep

\* No step changes the setting.
LEMMA SettingKept ==
  ASSUME Base, Next
  PROVE  Happens' = Happens
<1>1. /\ task \in [id : Nat, cxt : Nat, set : Settings,
                   at : {"none", "start", "powerup", "wait", "recall",
                         "powerdown", "suspended"}]
  BY DEF Base, TypeInv
<1>2. CASE UNCHANGED task
  BY <1>2 DEF Happens
<1>3. CASE TaskEnds
  BY <1>1, <1>3 DEF TaskEnds, Happens
<1>4. CASE Custom_Api_Initialize
  BY <1>1, <1>2, <1>4 DEF Custom_Api_Initialize, SecondDevice,
     Driver_CreateThread, qosal_task_create, Happens
<1>5. CASE Driver_Init \/ DriverInitEnds \/ DriverShutsDown \/ Driver_DeInit
           \/ RecallWakes \/ RecallSleeps
  BY <1>1, <1>3, <1>5 DEF Driver_Init, DriverInitEnds, DriverShutsDown,
     Driver_DeInit, RecallWakes, RecallSleeps, Happens
<1>6. CASE \/ InitializeNoMemory \/ Custom_Api_Shutdown \/ UserStep
           \/ Driver_Main \/ TargetReady \/ TargetCredit \/ Receive
           \/ AppFrees
  BY <1>2, <1>6 DEF InitializeNoMemory, Custom_Api_Shutdown, UserStep,
     WaitTest, WaitEvent, Api_InitFinish, InitializeFails, Api_WMIInitFinish,
     wmi_cmd_process, Api_DeInitFinish, socket_context_deinit, ShutdownEnds,
     Driver_Main, TargetReady, TargetCredit, Receive, AppFrees
<1> QED BY <1>4, <1>5, <1>6 DEF Next, DriverStep

LEMMA PointersStep ==
  ASSUME Base, Next
  PROVE  /\ opens' \in 0 .. MaxOpens
         /\ p_Global_Cxt' \in 0 .. opens' /\ MAC_CONTEXT_PTR' \in 0 .. opens'
<1>0. /\ opens \in 0 .. MaxOpens /\ MaxOpens \in Nat
      /\ p_Global_Cxt \in 0 .. opens /\ MAC_CONTEXT_PTR \in 0 .. opens
  BY LifeAssumption DEF Base, TypeInv
<1>1. CASE Custom_Api_Initialize
  BY <1>0, <1>1 DEF Custom_Api_Initialize, SecondDevice
<1>2. CASE InitializeNoMemory
  BY <1>0, <1>2 DEF InitializeNoMemory
<1>3. CASE ShutdownEnds
  BY <1>0, <1>3 DEF ShutdownEnds
<1>4. CASE \/ Custom_Api_Shutdown \/ WaitTest \/ WaitEvent \/ Api_InitFinish
           \/ Api_WMIInitFinish \/ wmi_cmd_process \/ Api_DeInitFinish
           \/ socket_context_deinit \/ DriverStep \/ TargetReady
           \/ TargetCredit \/ Receive \/ AppFrees \/ RecallSleeps
  <2>1. UNCHANGED <<p_Global_Cxt, MAC_CONTEXT_PTR, opens>>
    BY <1>4 DEF Custom_Api_Shutdown, WaitTest, WaitEvent, Api_InitFinish,
       InitializeFails, Api_WMIInitFinish, wmi_cmd_process, Api_DeInitFinish,
       socket_context_deinit, DriverStep, Driver_Init, DriverInitEnds,
       Driver_Main, DriverShutsDown, Driver_DeInit, RecallWakes, TargetReady,
       TargetCredit, Receive, AppFrees, RecallSleeps
  <2> QED BY <1>0, <2>1
<1> QED BY <1>1, <1>2, <1>3, <1>4 DEF Next, UserStep

UserType == [at : Places, wait : Waits \cup {"none"}, cmd : 0 .. 5,
             status : {"ENET_OK", "ENET_ERROR"}]
TaskType == [id : Nat, cxt : Nat, set : Settings,
             at : {"none", "start", "powerup", "wait", "recall",
                   "powerdown", "suspended"}]
TargetType == [up : BOOLEAN, ready : BOOLEAN, slept : BOOLEAN,
               sent : Seq(Commands)]

LEMMA NothingYet == NoUser \in UserType /\ NoTarget \in TargetType
<1>1. <<>> \in Seq(Commands)
  OBVIOUS
<1> QED BY <1>1 DEF NoUser, NoTarget, UserType, TargetType, Places, Waits

LEMMA UserStepTyped ==
  ASSUME Base, Next
  PROVE  user' \in UserType
<1>0. user \in UserType /\ NoUser \in UserType
  BY NothingYet DEF Base, TypeInv, UserType
<1>1. CASE Custom_Api_Initialize \/ Custom_Api_Shutdown
  BY <1>0, <1>1 DEF Custom_Api_Initialize, SecondDevice, Custom_Api_Shutdown,
     UserType, Places, Waits, NoUser
<1>2. CASE InitializeNoMemory
  BY <1>0, <1>2 DEF InitializeNoMemory, UserType
<1>3. CASE WaitTest \/ WaitEvent
  BY <1>0, <1>3 DEF WaitTest, WaitEvent, UserType, Waits
<1>4. CASE Api_InitFinish
  <2>1. CASE user' = [user EXCEPT !.at = "cmd", !.wait = "none", !.cmd = 1]
    <3>1. "cmd" \in Places /\ 1 \in 0 .. 5
      BY DEF Places
    <3> QED BY <1>0, <2>1, <3>1 DEF UserType
  <2>2. CASE user' = [NoUser EXCEPT !.status = "ENET_ERROR"]
    BY <1>0, <2>2 DEF UserType
  <2> QED BY <1>4, <2>1, <2>2 DEF Api_InitFinish, InitializeFails
<1>5. CASE Api_WMIInitFinish
  <2>1. user.cmd \in 1 .. 5 /\ Len(Defaults) = 5
    BY <1>0, <1>5 DEF Base, PlaceInv, Api_WMIInitFinish, UserAt, UserType,
       Defaults
  <2> QED BY <1>0, <1>5, <2>1 DEF Api_WMIInitFinish, UserType, Places
<1>6. CASE wmi_cmd_process
  <2>1. user.cmd \in 1 .. 5 /\ Len(Defaults) = 5
    BY <1>0, <1>6 DEF Base, PlaceInv, wmi_cmd_process, UserType, Defaults
  <2>2. user.at = "pend" => user.cmd # 5
    BY <1>0 DEF Base, PlaceInv
  <2>3. CASE user' = [user EXCEPT !.at = "pend", !.wait = "test"]
    BY <1>0, <2>3 DEF UserType, Places, Waits
  <2>4. CASE user' = NoUser
    BY <1>0, <2>4
  <2>5. CASE user.at = "pend" /\ \E place \in {"cmd", "assert"} :
               user' = [user EXCEPT !.wait = "none", !.cmd = @ + 1,
                                    !.at = place]
    <3>1. user.cmd + 1 \in 0 .. 5
      BY <2>1, <2>2, <2>5
    <3> QED BY <1>0, <2>5, <3>1 DEF UserType, Places
  <2> QED BY <1>6, <2>3, <2>4, <2>5 DEF wmi_cmd_process
<1>7. CASE Api_DeInitFinish \/ socket_context_deinit \/ ShutdownEnds
  BY <1>0, <1>7 DEF Api_DeInitFinish, socket_context_deinit, ShutdownEnds,
     UserType, Places
<1>8. CASE DriverStep \/ TargetReady \/ TargetCredit \/ Receive \/ AppFrees
           \/ RecallSleeps
  BY <1>0, <1>8 DEF DriverStep, Driver_Init, DriverInitEnds, Driver_Main,
     DriverShutsDown, Driver_DeInit, RecallWakes, TargetReady, TargetCredit,
     Receive, AppFrees, RecallSleeps
<1> QED BY <1>1, <1>2, <1>3, <1>4, <1>5, <1>6, <1>7, <1>8 DEF Next, UserStep

LEMMA TaskStepTyped ==
  ASSUME Base, Next
  PROVE  task' \in TaskType
<1>0. task \in TaskType
  BY DEF Base, TypeInv, TaskType
<1>1. CASE Custom_Api_Initialize
  <2>1. opens + 1 \in Nat
    BY LifeAssumption DEF Base, TypeInv
  <2> QED BY <1>0, <1>1, <2>1 DEF Custom_Api_Initialize, SecondDevice,
             Driver_CreateThread, qosal_task_create, TaskType
<1>2. CASE TaskEnds
  BY <1>0, <1>2 DEF TaskEnds, TaskType
<1>3. CASE Driver_Init \/ DriverInitEnds \/ DriverShutsDown \/ Driver_DeInit
           \/ RecallWakes \/ RecallSleeps
  BY <1>0, <1>2, <1>3 DEF Driver_Init, DriverInitEnds, DriverShutsDown,
     Driver_DeInit, RecallWakes, RecallSleeps, TaskType
<1>4. CASE UNCHANGED task
  BY <1>0, <1>4
<1>5. CASE \/ InitializeNoMemory \/ Custom_Api_Shutdown \/ UserStep
           \/ Driver_Main \/ TargetReady \/ TargetCredit \/ Receive
           \/ AppFrees
  BY <1>4, <1>5 DEF InitializeNoMemory, Custom_Api_Shutdown, UserStep,
     WaitTest, WaitEvent, Api_InitFinish, InitializeFails, Api_WMIInitFinish,
     wmi_cmd_process, Api_DeInitFinish, socket_context_deinit, ShutdownEnds,
     Driver_Main, TargetReady, TargetCredit, Receive, AppFrees
<1> QED BY <1>1, <1>3, <1>5 DEF Next, DriverStep

LEMMA TargetStepTyped ==
  ASSUME Base, Next
  PROVE  target' \in TargetType
<1>0. target \in TargetType /\ NoTarget \in TargetType
  BY NothingYet DEF Base, TypeInv, TargetType
<1>1. CASE Driver_Main
  BY <1>1, MainLoop DEF TargetType
<1>2. CASE DriverInitEnds \/ TargetReady \/ RecallSleeps \/ DriverShutsDown
  BY <1>0, <1>2 DEF DriverInitEnds, TargetReady, RecallSleeps,
     DriverShutsDown, TargetType
<1>3. CASE Custom_Api_Initialize
  BY <1>0, <1>3 DEF Custom_Api_Initialize, SecondDevice
<1>4. CASE UNCHANGED target
  BY <1>0, <1>4
<1>5. CASE \/ InitializeNoMemory \/ Custom_Api_Shutdown \/ UserStep
           \/ Driver_Init \/ Driver_DeInit \/ RecallWakes \/ TargetCredit
           \/ Receive \/ AppFrees
  BY <1>4, <1>5 DEF InitializeNoMemory, Custom_Api_Shutdown, UserStep,
     WaitTest, WaitEvent, Api_InitFinish, InitializeFails, Api_WMIInitFinish,
     wmi_cmd_process, Api_DeInitFinish, socket_context_deinit, ShutdownEnds,
     Driver_Init, Driver_DeInit, RecallWakes, TargetCredit, Receive, AppFrees
<1> QED BY <1>1, <1>2, <1>3, <1>5 DEF Next, DriverStep

LEMMA TypeStep ==
  ASSUME Base, Next
  PROVE  TypeInv'
<1>1. ContextsAre /\ RxBound'
  BY ContextsStep
<1>2. /\ opens' \in 0 .. MaxOpens
      /\ p_Global_Cxt' \in 0 .. opens' /\ MAC_CONTEXT_PTR' \in 0 .. opens'
  BY PointersStep
<1>3. user' \in UserType /\ task' \in TaskType /\ target' \in TargetType
  BY UserStepTyped, TaskStepTyped, TargetStepTyped
<1> QED
  BY <1>1, <1>2, <1>3
     DEF TypeInv, ContextsAre, RxBound, UserType, TaskType, TargetType

-----------------------------------------------------------------------------
\* The session that was ready is still ready, unless it is a new one.
LEMMA ReadyStays ==
  ASSUME Base, Next, NEW n \in Sessions, n # opens + 1, cxt[n].wmiReady
  PROVE  cxt'[n].wmiReady
<1>1. CASE UNCHANGED cxt
  BY <1>1
<1>2. CASE LikeBefore
  BY <1>2 DEF LikeBefore, Alike
<1>3. CASE opens < MaxOpens /\ cxt' = ContextInit(opens + 1)
  BY <1>3, NewContext
<1>4. CASE Custom_Api_Initialize \/ InitializeNoMemory
  BY <1>1, <1>3, <1>4 DEF Custom_Api_Initialize, SecondDevice,
     InitializeNoMemory
<1>5. CASE \/ WaitTest \/ Api_InitFinish \/ socket_context_deinit
           \/ ShutdownEnds \/ RecallWakes \/ RecallSleeps
  BY <1>1, <1>5 DEF WaitTest, Api_InitFinish, InitializeFails,
     socket_context_deinit, ShutdownEnds, RecallWakes, RecallSleeps
<1>6. CASE \/ Custom_Api_Shutdown \/ WaitEvent \/ Api_WMIInitFinish
           \/ wmi_cmd_process \/ Driver_Init \/ DriverShutsDown
           \/ TargetReady \/ TargetCredit
  BY <1>2, <1>6, ShutdownBegins, EventComes, CommandQueued, CommandWaits,
     DriverInits, ShutsDown, DriverWoken DEF TargetReady, TargetCredit
<1>7. CASE Api_DeInitFinish
  <2>1. MAC_CONTEXT_PTR \in Sessions /\ Cur \in Context
    BY <1>7, PointerIsSession DEF Api_DeInitFinish, UserAt, Base, PlaceInv
  <2>2. [Cur EXCEPT !.rxfree = 0, !.unlocked = Unlocked].wmiReady
          = Cur.wmiReady
    BY <2>1 DEF Context
  <2> QED BY <1>7, <2>1, <2>2, BuffersFreed DEF Cur
<1>8. CASE DriverInitEnds \/ Driver_Main \/ Driver_DeInit
  BY <1>1, <1>8, DriverIsUp, MainLoop, DriverDeInits
<1>9. CASE Receive
  <2>1. task.cxt \in Sessions /\ cxt[task.cxt] \in Context
    BY <1>9, TaskIsSession DEF Receive
  <2>2. cxt'[task.cxt].wmiReady = cxt[task.cxt].wmiReady
    BY <1>9, <2>1, PacketReceived DEF Context
  <2> QED BY <1>9, <2>2, PacketReceived
<1>10. CASE AppFrees
  <2>1. MAC_CONTEXT_PTR \in Sessions /\ Cur \in Context
    BY <1>10, PointerIsSession DEF AppFrees, Base
  <2>2. cxt'[MAC_CONTEXT_PTR].wmiReady = Cur.wmiReady
    BY <1>10, <2>1, PacketFreed DEF Context
  <2> QED BY <1>10, <2>2, PacketFreed DEF Cur
<1> QED
  BY <1>4, <1>5, <1>6, <1>7, <1>8, <1>9, <1>10 DEF Next, UserStep, DriverStep

Pointers == <<p_Global_Cxt, MAC_CONTEXT_PTR, opens>>

LEMMA UserWaits ==
  ASSUME Base, Next, UNCHANGED <<Pointers, user>>
  PROVE  PlaceInv'
<1>1. MAC_CONTEXT_PTR # 0 => /\ MAC_CONTEXT_PTR \in Sessions
                             /\ MAC_CONTEXT_PTR # opens + 1
  BY PointerIsSession DEF Base, TypeInv
<1>2. MAC_CONTEXT_PTR # 0 /\ Cur.wmiReady => Cur'.wmiReady
  BY <1>1, ReadyStays DEF Cur, Pointers
<1> QED BY <1>2 DEF Base, PlaceInv, Pointers, Opening

LEMMA PlaceStep ==
  ASSUME Base, Next
  PROVE  PlaceInv'
<1>0. /\ opens \in Nat /\ user \in UserType
      /\ Len(Defaults) = 5
      /\ Cur' = cxt'[MAC_CONTEXT_PTR']
  BY LifeAssumption DEF Base, TypeInv, UserType, Defaults, Cur
<1>a. MAC_CONTEXT_PTR # 0 /\ Cur.wmiReady => cxt'[MAC_CONTEXT_PTR].wmiReady
  <2> SUFFICES ASSUME MAC_CONTEXT_PTR # 0, Cur.wmiReady
               PROVE  cxt'[MAC_CONTEXT_PTR].wmiReady
    OBVIOUS
  <2>1. MAC_CONTEXT_PTR \in Sessions /\ MAC_CONTEXT_PTR # opens + 1
    BY PointerIsSession DEF Base, TypeInv
  <2> QED BY <2>1, ReadyStays DEF Cur
<1>1. CASE Custom_Api_Initialize
  <2>1. CASE SecondDevice
    BY <2>1 DEF SecondDevice, PlaceInv, NoUser, Waits, Opening
  <2>2. CASE ~SecondDevice
    <3>1. /\ user' = [NoUser EXCEPT !.at = "ready", !.wait = "test"]
          /\ opens' = opens + 1 /\ MAC_CONTEXT_PTR' = opens + 1
          /\ p_Global_Cxt' = opens + 1
      BY <1>1, <2>2 DEF Custom_Api_Initialize
    <3> QED BY <1>0, <3>1 DEF PlaceInv, NoUser, Waits, Opening
  <2> QED BY <2>1, <2>2
<1>2. CASE InitializeNoMemory
  <2>1. user.at = "idle" /\ user' = [user EXCEPT !.status = "ENET_ERROR"]
    BY <1>2 DEF InitializeNoMemory, UserAt
  <2> QED BY <1>0, <2>1 DEF Base, PlaceInv, UserType, Opening
<1>3. CASE Custom_Api_Shutdown
  <2>1. /\ user' = [NoUser EXCEPT !.at = "down", !.wait = "test"]
        /\ MAC_CONTEXT_PTR' # 0
    BY <1>3 DEF Custom_Api_Shutdown
  <2> QED BY <2>1 DEF PlaceInv, NoUser, Waits, Opening
<1>4. CASE WaitTest
  <2>1. /\ user.at \in {"ready", "down", "pend"} /\ UNCHANGED Pointers
        /\ UNCHANGED cxt
        /\ user' = [user EXCEPT !.wait = IF Condition THEN "A_OK"
                                         ELSE "event"]
    BY <1>4 DEF WaitTest, Pointers
  <2>2. user.at = "ready" => Condition = Cur.wmiReady
    BY DEF Condition
  <2>3. /\ user'.at = user.at /\ user'.cmd = user.cmd
        /\ user'.wait \in Waits /\ user'.status = user.status
        /\ (user.at = "ready" /\ user'.wait = "A_OK" => Cur.wmiReady)
    BY <1>0, <2>1, <2>2 DEF UserType, Waits
  <2> QED BY <1>a, <2>1, <2>3 DEF Base, PlaceInv, Pointers, Opening, Cur
<1>5. CASE WaitEvent
  <2>1. /\ user.wait = "event" /\ UNCHANGED Pointers
        /\ \E w \in {"test", "A_ERROR"} : user' = [user EXCEPT !.wait = w]
    BY <1>5 DEF WaitEvent, Pointers
  <2>2. /\ user'.at = user.at /\ user'.cmd = user.cmd
        /\ user'.wait \in Waits /\ user'.status = user.status
        /\ user'.wait # "A_OK" /\ user.wait \in Waits
    BY <1>0, <2>1 DEF UserType, Waits
  <2> QED BY <1>0, <1>a, <2>1, <2>2 DEF Base, PlaceInv, Pointers, Opening
<1>6. CASE Api_InitFinish
  <2>1. CASE user' = [NoUser EXCEPT !.status = "ENET_ERROR"]
    <3>1. UNCHANGED Pointers
      BY <1>6 DEF Api_InitFinish, InitializeFails, Pointers
    <3> QED BY <2>1, <3>1 DEF PlaceInv, NoUser, Waits, Opening
  <2>2. CASE ~(user' = [NoUser EXCEPT !.status = "ENET_ERROR"])
    <3>1. /\ user.at = "ready" /\ user.wait = "A_OK" /\ UNCHANGED Pointers
          /\ user' = [user EXCEPT !.at = "cmd", !.wait = "none", !.cmd = 1]
      BY <1>6, <2>2 DEF Api_InitFinish, InitializeFails, UserAt, Pointers
    <3>2. /\ user'.at = "cmd" /\ user'.wait = "none" /\ user'.cmd = 1
          /\ user'.status = user.status
      BY <1>0, <3>1 DEF UserType
    <3> QED BY <1>0, <1>a, <3>1, <3>2
            DEF Base, PlaceInv, Pointers, Opening, Waits
  <2> QED BY <2>1, <2>2
<1>7. CASE Api_WMIInitFinish
  <2>1. user.at = "cmd" /\ UNCHANGED Pointers
    BY <1>7 DEF Api_WMIInitFinish, UserAt, Pointers
  <2>2. CASE user' = NoUser
    BY <2>1, <2>2 DEF PlaceInv, NoUser, Waits, Opening
  <2>3. CASE user' = [user EXCEPT !.cmd = @ + 1]
    <3>1. /\ user'.at = "cmd" /\ user'.wait = user.wait
          /\ user'.status = user.status
          /\ user'.cmd = user.cmd + 1 /\ user.cmd \in 0 .. 5
      BY <1>0, <2>1, <2>3 DEF UserType
    <3> QED BY <1>0, <1>a, <2>1, <3>1
            DEF Base, PlaceInv, Pointers, Opening, Waits
  <2>4. CASE user' = [user EXCEPT !.at = IF user.cmd = 1 THEN "assert"
                                         ELSE "nomem"]
    <3>1. /\ user'.at = IF user.cmd = 1 THEN "assert" ELSE "nomem"
          /\ user'.wait = user.wait /\ user'.cmd = user.cmd
          /\ user'.status = user.status
      BY <1>0, <2>1, <2>4 DEF UserType
    <3> QED BY <1>0, <1>a, <2>1, <3>1
            DEF Base, PlaceInv, Pointers, Opening, Waits
  <2> QED BY <1>7, <2>2, <2>3, <2>4 DEF Api_WMIInitFinish
<1>8. CASE wmi_cmd_process
  <2>1. /\ UNCHANGED Pointers /\ user.at \in {"nomem", "pend"}
    BY <1>8 DEF wmi_cmd_process, Pointers
  <2>2. CASE user' = NoUser
    BY <2>1, <2>2 DEF PlaceInv, NoUser, Waits, Opening
  <2>3. CASE /\ user.at = "nomem" /\ user.cmd < 5
             /\ user' = [user EXCEPT !.at = "pend", !.wait = "test"]
    <3>1. /\ user'.at = "pend" /\ user'.wait = "test"
          /\ user'.cmd = user.cmd /\ user'.status = user.status
      BY <1>0, <2>3 DEF UserType
    <3> QED BY <1>0, <1>a, <2>1, <2>3, <3>1
            DEF Base, PlaceInv, Pointers, Opening, Waits
  <2>4. CASE \E place \in {"cmd", "assert"} :
               user' = [user EXCEPT !.wait = "none", !.cmd = @ + 1,
                                    !.at = place]
    <3>1. /\ user'.at \in {"cmd", "assert"} /\ user'.wait = "none"
          /\ user'.status = user.status
          /\ user'.cmd = user.cmd + 1 /\ user.cmd \in 0 .. 5
      BY <1>0, <2>4 DEF UserType
    <3> QED BY <1>0, <1>a, <2>1, <3>1
            DEF Base, PlaceInv, Pointers, Opening, Waits
  <2> QED BY <1>0, <1>8, <2>2, <2>3, <2>4 DEF wmi_cmd_process
<1>9. CASE Api_DeInitFinish
  <2>1. /\ user.at = "down" /\ UNCHANGED Pointers
        /\ \E place \in {"sock", "free"} :
             user' = [user EXCEPT !.at = place, !.wait = "none"]
    BY <1>9 DEF Api_DeInitFinish, UserAt, Pointers
  <2>2. user'.at \in {"sock", "free"} /\ user'.wait = "none"
    BY <1>0, <2>1 DEF UserType
  <2> QED BY <2>1, <2>2 DEF Base, PlaceInv, Pointers, Opening, Waits
<1>10. CASE socket_context_deinit
  <2>1. /\ user.at \in {"sock", "sockread"} /\ UNCHANGED Pointers
        /\ \E place \in {"sockread", "free"} :
             user' = [user EXCEPT !.at = place]
    BY <1>10 DEF socket_context_deinit, Pointers
  <2>2. user'.at \in {"sockread", "free"} /\ user'.wait = user.wait
    BY <1>0, <2>1 DEF UserType
  <2> QED BY <2>1, <2>2 DEF Base, PlaceInv, Pointers, Opening, Waits
<1>11. CASE ShutdownEnds
  BY <1>11 DEF ShutdownEnds, PlaceInv, NoUser, Waits, Opening
<1>12. CASE DriverStep \/ TargetReady \/ TargetCredit \/ Receive \/ AppFrees
            \/ RecallSleeps
  <2>1. UNCHANGED <<Pointers, user>>
    BY <1>12 DEF DriverStep, Driver_Init, DriverInitEnds, Driver_Main,
       DriverShutsDown, Driver_DeInit, RecallWakes, TargetReady, TargetCredit,
       Receive, AppFrees, RecallSleeps, Pointers
  <2> QED BY <2>1, UserWaits
<1> QED
  BY <1>1, <1>2, <1>3, <1>4, <1>5, <1>6, <1>7, <1>8, <1>9, <1>10, <1>11,
     <1>12 DEF Next, UserStep

-----------------------------------------------------------------------------
\* The driver task and its session are as before.
LEMMA TaskKept ==
  ASSUME Base, UNCHANGED <<opens, task, target>>, LikeBefore,
         Starts => cxt'[task.cxt].txq = cxt[task.cxt].txq
  PROVE  TaskInv'
<1>1. \A n \in Sessions : /\ cxt'[n].driver_up = cxt[n].driver_up
                          /\ cxt'[n].wmiReady = cxt[n].wmiReady
  BY DEF LikeBefore, Alike
<1>2. Starts => task.cxt \in Sessions
  BY TaskIsSession DEF Starts
<1>3. UNCHANGED <<Starts, Serves>>
  BY DEF Starts, Serves
<1> QED BY <1>1, <1>2, <1>3 DEF Base, TaskInv

LEMMA OpenTask ==
  ASSUME Base, Custom_Api_Initialize
  PROVE  TaskInv'
<1>0. opens \in 0 .. MaxOpens /\ MaxOpens \in Nat /\ task \in TaskType
  BY LifeAssumption DEF Base, TypeInv, TaskType
<1>1. CASE SecondDevice
  <2>1. UNCHANGED <<opens, task, target, cxt>>
    BY <1>1 DEF SecondDevice
  <2> QED BY <2>1, TaskKept DEF LikeBefore, Alike
<1>2. CASE ~SecondDevice
  <2> DEFINE n == opens + 1
  <2>1. /\ opens < MaxOpens /\ opens' = n /\ cxt' = ContextInit(n)
        /\ Driver_CreateThread(n) /\ target' = NoTarget
    BY <1>2 DEF Custom_Api_Initialize
  <2>2. /\ n \in Sessions /\ cxt'[n] = Fresh(n)
        /\ \A m \in Sessions \ {n} : cxt'[m] = cxt[m]
    BY <2>1, NewContext
  <2>3. ~target'.up /\ target'.sent = <<>>
    BY <2>1 DEF NoTarget
  <2>4. /\ ~Fresh(n).driver_up /\ ~Fresh(n).wmiReady /\ Fresh(n).txq = <<>>
    BY FreshIs
  <2>5. CASE task.id = 0
    <3>1. task'.id = n /\ task'.at = "start" /\ task'.cxt = n
      BY <1>0, <2>1, <2>5 DEF Driver_CreateThread, qosal_task_create, TaskType
    <3>2. \A m \in Sessions : ~cxt[m].driver_up
      BY <2>5 DEF Base, TaskInv, Serves
    <3>3. \A m \in Sessions : cxt[m].wmiReady => m <= opens
      BY DEF Base, TaskInv
    <3> HIDE DEF n
    <3>4. n = opens + 1
      BY DEF n
    <3>5. \A m \in Sessions : m \in Nat
      BY DEF Sessions
    <3>6. \A m \in Sessions : /\ ~cxt'[m].driver_up
                              /\ cxt'[m].wmiReady => m <= n
      BY <1>0, <2>2, <2>4, <3>2, <3>3, <3>4, <3>5
    <3> QED BY <1>0, <2>1, <2>2, <2>3, <2>4, <3>1, <3>4, <3>6
            DEF TaskInv, Starts, Serves
  <2>6. CASE task.id # 0
    <3>1. task' = task /\ task.at # "none" /\ task.cxt \in 1 .. opens
      BY <2>1, <2>6 DEF Driver_CreateThread, Base, TaskInv
    <3>2. task.cxt # n /\ task.cxt \in Sessions
      BY <1>0, <3>1 DEF Sessions
    <3>3. \A m \in Sessions : /\ cxt[m].driver_up
                                   <=> m = task.cxt /\ (Serves \/ task.at = "powerdown")
                              /\ cxt[m].wmiReady => m <= task.cxt /\ m <= opens
      BY DEF Base, TaskInv
    <3> HIDE DEF n
    <3>4. n = opens + 1
      BY DEF n
    <3>5. \A m \in Sessions : m \in Nat
      BY DEF Sessions
    <3>6. \A m \in Sessions :
            /\ cxt'[m].driver_up
                 <=> m = task.cxt /\ (Serves \/ task.at = "powerdown")
            /\ cxt'[m].wmiReady => m <= task.cxt /\ m <= opens
      BY <2>2, <2>4, <3>2, <3>3
    <3>7. \A m \in Sessions : cxt'[m].wmiReady => m <= n
      BY <1>0, <3>4, <3>5, <3>6
    <3>8. /\ cxt'[task.cxt] = cxt[task.cxt] /\ UNCHANGED <<Starts, Serves>>
          /\ task.cxt \in 1 .. n
      BY <1>0, <2>2, <3>1, <3>2, <3>4 DEF Starts, Serves
    <3> QED BY <1>0, <2>1, <2>3, <3>1, <3>4, <3>6, <3>7, <3>8
            DEF Base, TaskInv
  <2> QED BY <2>5, <2>6
<1> QED BY <1>1, <1>2

LEMMA OpenFailsTask ==
  ASSUME Base, InitializeNoMemory
  PROVE  TaskInv'
<1> DEFINE n == opens + 1
<1>0. /\ opens \in 0 .. MaxOpens /\ MaxOpens \in Nat /\ task \in TaskType
      /\ opens < MaxOpens /\ opens' = n /\ UNCHANGED <<task, target>>
      /\ n \in Sessions
  BY LifeAssumption
     DEF Base, TypeInv, TaskType, InitializeNoMemory, Sessions
<1>1. \A m \in Sessions : m \in Nat
  BY DEF Sessions
<1>2. \A m \in Sessions : /\ cxt[m].driver_up
                               <=> m = task.cxt /\ (Serves \/ task.at = "powerdown")
                          /\ cxt[m].wmiReady => m <= task.cxt /\ m <= opens
  BY DEF Base, TaskInv
<1>3. /\ task.at # "none" => task.cxt \in 1 .. opens /\ task.cxt \in Sessions
  BY TaskIsSession DEF Base, TaskInv
<1>4. ~cxt[n].driver_up /\ ~cxt[n].wmiReady
  BY <1>0, <1>2, <1>3 DEF Serves
<1>5. /\ ~cxt'[n].driver_up /\ ~cxt'[n].wmiReady
      /\ \A m \in Sessions \ {n} : cxt'[m] = cxt[m]
  <2>1. CASE UNCHANGED cxt
    BY <1>4, <2>1
  <2>2. CASE cxt' = ContextInit(n)
    BY <1>0, <2>2, NewContext, FreshIs
  <2> QED BY <2>1, <2>2 DEF InitializeNoMemory
<1> HIDE DEF n
<1>6. n = opens + 1
  BY DEF n
<1>7. /\ UNCHANGED <<Starts, Serves>>
      /\ task.at # "none" => /\ cxt'[task.cxt] = cxt[task.cxt]
                             /\ task.cxt \in 1 .. n
  BY <1>0, <1>3, <1>5, <1>6 DEF Starts, Serves
<1>8. \A m \in Sessions : /\ cxt'[m].driver_up
                               <=> m = task.cxt /\ (Serves \/ task.at = "powerdown")
                          /\ cxt'[m].wmiReady => m <= task.cxt /\ m <= n
  BY <1>0, <1>1, <1>2, <1>4, <1>5, <1>6, <1>7
<1>9. Starts => task.at # "none"
  BY DEF Starts
<1> QED BY <1>0, <1>6, <1>7, <1>8, <1>9 DEF Base, TaskInv, TaskType

LEMMA DriverTaskTask ==
  ASSUME Base, DriverStep
  PROVE  TaskInv'
<1>0. /\ task \in TaskType /\ target \in TargetType /\ opens \in Nat
      /\ task.at # "none" /\ task.cxt \in 1 .. opens /\ task.cxt \in Sessions
      /\ cxt[task.cxt] \in Context /\ task.id # 0
  <2>1. task.at # "none"
    BY DEF DriverStep, Driver_Init, DriverInitEnds, Driver_Main,
       DriverShutsDown, Driver_DeInit, RecallWakes
  <2> QED BY <2>1, TaskIsSession, LifeAssumption
          DEF Base, TypeInv, TaskInv, TaskType, TargetType
<1>1. \A m \in Sessions : /\ cxt[m].driver_up
                               <=> m = task.cxt /\ (Serves \/ task.at = "powerdown")
                          /\ cxt[m].wmiReady => m <= task.cxt /\ m <= opens
  BY DEF Base, TaskInv
<1>2. UNCHANGED opens
  BY DEF DriverStep, Driver_Init, DriverInitEnds, Driver_Main,
     DriverShutsDown, Driver_DeInit, RecallWakes
<1>3. CASE Driver_Init
  <2>1. LikeBefore /\ QueuesSame
    BY <1>3, DriverInits
  <2>2. task.at = "start" /\ task' = [task EXCEPT !.at = "powerup"]
        /\ UNCHANGED target
    BY <1>3 DEF Driver_Init
  <2>3. task'.at = "powerup" /\ task'.cxt = task.cxt /\ task'.id = task.id
    BY <1>0, <2>2 DEF TaskType
  <2> QED BY <1>0, <1>1, <1>2, <2>1, <2>2, <2>3
          DEF Base, TaskInv, Starts, Serves, LikeBefore, Alike, QueuesSame
<1>4. CASE TaskEnds /\ UNCHANGED <<cxt, target>> /\ task.at = "powerup"
  <2>1. /\ task'.cxt = task.cxt
        /\ \/ task'.at = "none" /\ task'.id = 0
           \/ task'.at = "suspended" /\ task'.id = task.id
    BY <1>0, <1>4 DEF TaskEnds, TaskType
  <2> QED BY <1>0, <1>1, <1>2, <1>4, <2>1 DEF Base, TaskInv, Starts, Serves
<1>5. CASE DriverInitEnds /\ ~UNCHANGED cxt
  <2>1. /\ \A n \in Sessions \ {task.cxt} : cxt'[n] = cxt[n]
        /\ cxt'[task.cxt].driver_up
        /\ cxt'[task.cxt].wmiReady = cxt[task.cxt].wmiReady
        /\ task' = [task EXCEPT !.at = "wait"] /\ task.at = "powerup"
    BY <1>5, DriverIsUp DEF DriverInitEnds
  <2>2. task'.at = "wait" /\ task'.cxt = task.cxt /\ task'.id = task.id
    BY <1>0, <2>1 DEF TaskType
  <2> QED BY <1>0, <1>1, <1>2, <2>1, <2>2
          DEF Base, TaskInv, Starts, Serves
<1>6. CASE DriverInitEnds
  <2>1. CASE UNCHANGED cxt
    <3>1. task.at = "powerup" /\ ~cxt[task.cxt].driver_up
      BY <1>0, <1>1, <1>6 DEF DriverInitEnds, Serves
    <3>2. \/ TaskEnds /\ UNCHANGED <<cxt, target>> /\ task.at = "powerup"
          \/ cxt' = [cxt EXCEPT ![task.cxt] =
                       [SetupServices(@) EXCEPT !.chipDown = FALSE,
                                                !.driver_up = TRUE]]
      BY <1>6 DEF DriverInitEnds
    <3>3. ASSUME cxt' = [cxt EXCEPT ![task.cxt] =
                           [SetupServices(@) EXCEPT !.chipDown = FALSE,
                                                    !.driver_up = TRUE]]
          PROVE  FALSE
      <4> DEFINE s == SetupServices(cxt[task.cxt])
                 d == [s EXCEPT !.chipDown = FALSE, !.driver_up = TRUE]
      <4>1. s \in Context
        BY <1>0, ServicesConnected
      <4> HIDE DEF s
      <4>2. d.driver_up
        BY <4>1 DEF Context
      <4>3. cxt' = [cxt EXCEPT ![task.cxt] = d]
        BY <3>3 DEF s
      <4> HIDE DEF d
      <4>4. cxt'[task.cxt] = d
        BY <1>0, <4>3 DEF Base, TypeInv
      <4> QED BY <2>1, <3>1, <4>2, <4>4
    <3> QED BY <1>4, <3>2, <3>3
  <2> QED BY <1>5, <1>6, <2>1
<1>7. CASE Driver_Main
  <2>1. /\ \A n \in Sessions \ {task.cxt} : cxt'[n] = cxt[n]
        /\ cxt'[task.cxt].driver_up = cxt[task.cxt].driver_up
        /\ target'.up = target.up
    BY <1>7, MainLoop
  <2>2. UNCHANGED task /\ task.at = "wait"
    BY <1>7 DEF Driver_Main
  <2>3. task.cxt <= task.cxt /\ task.cxt <= opens
    BY <1>0
  <2> QED BY <1>0, <1>1, <1>2, <2>1, <2>2, <2>3
          DEF Base, TaskInv, Starts, Serves
<1>8. CASE DriverShutsDown
  <2>1. LikeBefore
    BY <1>8, ShutsDown
  <2>2. /\ task.at = "wait" /\ task' = [task EXCEPT !.at = "powerdown"]
        /\ target' = [target EXCEPT !.up = FALSE]
    BY <1>8 DEF DriverShutsDown
  <2>3. /\ task'.at = "powerdown" /\ task'.cxt = task.cxt
        /\ task'.id = task.id /\ ~target'.up
    BY <1>0, <2>2 DEF TaskType, TargetType
  <2> QED BY <1>0, <1>1, <1>2, <2>1, <2>2, <2>3
          DEF Base, TaskInv, Starts, Serves, LikeBefore, Alike
<1>9. CASE Driver_DeInit
  <2>1. /\ \A n \in Sessions \ {task.cxt} : cxt'[n] = cxt[n]
        /\ ~cxt'[task.cxt].driver_up
        /\ cxt'[task.cxt].wmiReady = cxt[task.cxt].wmiReady
    BY <1>9, DriverDeInits
  <2>2. task.at = "powerdown" /\ TaskEnds /\ UNCHANGED target
    BY <1>9 DEF Driver_DeInit
  <2>3. /\ task'.cxt = task.cxt
        /\ \/ task'.at = "none" /\ task'.id = 0
           \/ task'.at = "suspended" /\ task'.id = task.id
    BY <1>0, <2>2 DEF TaskEnds, TaskType
  <2> QED BY <1>0, <1>1, <1>2, <2>1, <2>2, <2>3
          DEF Base, TaskInv, Starts, Serves
<1>10. CASE RecallWakes
  <2>1. /\ task.at = "recall" /\ task' = [task EXCEPT !.at = "wait"]
        /\ UNCHANGED <<cxt, target>>
    BY <1>10 DEF RecallWakes
  <2>2. task'.at = "wait" /\ task'.cxt = task.cxt /\ task'.id = task.id
    BY <1>0, <2>1 DEF TaskType
  <2> QED BY <1>0, <1>1, <1>2, <2>1, <2>2 DEF Base, TaskInv, Starts, Serves
<1> QED BY <1>3, <1>6, <1>7, <1>8, <1>9, <1>10 DEF DriverStep

LEMMA TaskStep ==
  ASSUME Base, Next
  PROVE  TaskInv'
<1>0. task \in TaskType /\ target \in TargetType
  BY DEF Base, TypeInv, TaskType, TargetType
<1>1. CASE Custom_Api_Initialize \/ InitializeNoMemory \/ DriverStep
  BY <1>1, OpenTask, OpenFailsTask, DriverTaskTask
<1>2. CASE \/ WaitTest \/ Api_InitFinish \/ socket_context_deinit
           \/ ShutdownEnds
  <2>1. UNCHANGED <<opens, task, target, cxt>>
    BY <1>2 DEF WaitTest, Api_InitFinish, InitializeFails,
       socket_context_deinit, ShutdownEnds
  <2> QED BY <2>1, TaskKept DEF LikeBefore, Alike
<1>3. CASE Custom_Api_Shutdown \/ WaitEvent \/ wmi_cmd_process \/ TargetCredit
  <2>1. UNCHANGED <<opens, task, target>>
    BY <1>3 DEF Custom_Api_Shutdown, WaitEvent, wmi_cmd_process, TargetCredit
  <2>2. LikeBefore /\ QueuesSame
    BY <1>3, ShutdownBegins, EventComes, CommandWaits, DriverWoken
       DEF TargetCredit
  <2>3. Starts => task.cxt \in Sessions
    BY TaskIsSession DEF Starts
  <2> QED BY <2>1, <2>2, <2>3, TaskKept DEF QueuesSame
<1>4. CASE Api_WMIInitFinish
  <2>1. UNCHANGED <<opens, task, target>> /\ user.at = "cmd"
    BY <1>4 DEF Api_WMIInitFinish, UserAt
  <2>2. Cur.wmiReady
    BY <2>1 DEF Base, PlaceInv
  <2>3. Starts => task.cxt \in Sessions /\ task.cxt # MAC_CONTEXT_PTR
    BY <2>2, TaskIsSession DEF Base, TaskInv, Cur, Starts
  <2> QED BY <1>4, <2>1, <2>3, CommandQueued, TaskKept
<1>5. CASE Api_DeInitFinish \/ Receive \/ AppFrees
  <2>1. UNCHANGED <<opens, task, target>>
    BY <1>5 DEF Api_DeInitFinish, Receive, AppFrees
  <2>2. \A n \in Sessions : /\ cxt'[n].driver_up = cxt[n].driver_up
                            /\ cxt'[n].wmiReady = cxt[n].wmiReady
                            /\ cxt'[n].txq = cxt[n].txq
    <3>0. MAC_CONTEXT_PTR # 0 => MAC_CONTEXT_PTR \in Sessions /\ Cur \in Context
      BY PointerIsSession DEF Base
    <3>1. CASE Api_DeInitFinish
      <4>1. MAC_CONTEXT_PTR # 0
        BY <3>1 DEF Api_DeInitFinish, UserAt, Base, PlaceInv
      <4> DEFINE d == [Cur EXCEPT !.rxfree = 0, !.unlocked = Unlocked]
      <4>2. /\ d.driver_up = Cur.driver_up /\ d.wmiReady = Cur.wmiReady
            /\ d.txq = Cur.txq
        BY <3>0, <4>1 DEF Context
      <4>3. UNCHANGED cxt \/ cxt'[MAC_CONTEXT_PTR] = d
        BY <3>1, BuffersFreed
      <4> HIDE DEF d
      <4> QED BY <3>1, <4>2, <4>3, BuffersFreed DEF Cur
    <3>2. CASE Receive
      <4>1. task.cxt \in Sessions /\ cxt[task.cxt] \in Context
        BY <3>2, TaskIsSession DEF Receive
      <4>2. /\ cxt'[task.cxt].driver_up = cxt[task.cxt].driver_up
            /\ cxt'[task.cxt].wmiReady = cxt[task.cxt].wmiReady
            /\ cxt'[task.cxt].txq = cxt[task.cxt].txq
        BY <3>2, <4>1, PacketReceived DEF Context
      <4> QED BY <3>2, <4>2, PacketReceived
    <3>3. CASE AppFrees
      <4>1. MAC_CONTEXT_PTR # 0
        BY <3>3 DEF AppFrees
      <4>2. /\ cxt'[MAC_CONTEXT_PTR].driver_up = Cur.driver_up
            /\ cxt'[MAC_CONTEXT_PTR].wmiReady = Cur.wmiReady
            /\ cxt'[MAC_CONTEXT_PTR].txq = Cur.txq
        BY <3>0, <3>3, <4>1, PacketFreed DEF Context
      <4> QED BY <3>3, <4>2, PacketFreed DEF Cur
    <3> QED BY <1>5, <3>1, <3>2, <3>3
  <2>3. /\ Starts => task.cxt \in Sessions
        /\ UNCHANGED <<Starts, Serves>>
    BY <2>1, TaskIsSession DEF Starts, Serves
  <2> QED BY <2>1, <2>2, <2>3 DEF Base, TaskInv
<1>6. CASE TargetReady
  <2>1. /\ LikeBefore /\ QueuesSame
    BY <1>6, DriverWoken DEF TargetReady
  <2>2. /\ UNCHANGED <<opens, task>> /\ task.at = "wait"
        /\ target' = [target EXCEPT !.ready = TRUE]
    BY <1>6 DEF TargetReady
  <2>3. target'.up = target.up /\ target'.sent = target.sent
    BY <1>0, <2>2 DEF TargetType
  <2>4. UNCHANGED <<Starts, Serves>> /\ ~Starts
    BY <2>2 DEF Starts, Serves
  <2> QED BY <2>1, <2>2, <2>3, <2>4
          DEF Base, TaskInv, LikeBefore, Alike
<1>7. CASE RecallSleeps
  <2>1. /\ UNCHANGED <<opens, cxt>> /\ task.at = "wait"
        /\ task' = [task EXCEPT !.at = "recall"]
        /\ target' = [target EXCEPT !.slept = TRUE]
    BY <1>7 DEF RecallSleeps
  <2>2. /\ task'.at = "recall" /\ task'.cxt = task.cxt /\ task'.id = task.id
        /\ target'.up = target.up
    BY <1>0, <2>1 DEF TaskType, TargetType
  <2> QED BY <2>1, <2>2 DEF Base, TaskInv, Starts, Serves
<1> QED
  BY <1>1, <1>2, <1>3, <1>4, <1>5, <1>6, <1>7 DEF Next, UserStep

LEMMA BaseStep == Base /\ [Next]_vars => Base'
<1> SUFFICES ASSUME Base, [Next]_vars PROVE Base'
  OBVIOUS
<1>1. CASE Next
  BY <1>1, TypeStep, PlaceStep, TaskStep DEF Base
<1>2. CASE UNCHANGED vars
  BY <1>2 DEF vars, Base, TypeInv, PlaceInv, TaskInv, Cur, Opening, Starts,
     Serves
<1> QED BY <1>1, <1>2

-----------------------------------------------------------------------------
\* A packet changes hands, or the free buffers go.
LEMMA PacketsMove ==
  ASSUME Base, Api_DeInitFinish \/ Receive \/ AppFrees, NEW n \in Sessions
  PROVE  /\ cxt'[n].driver_up = cxt[n].driver_up
         /\ cxt'[n].wmiReady = cxt[n].wmiReady
         /\ cxt'[n].abi = cxt[n].abi
         /\ cxt'[n].serviceID = cxt[n].serviceID
         /\ cxt'[n].ac2Ep = cxt[n].ac2Ep /\ cxt'[n].ep2Ac = cxt[n].ep2Ac
         /\ cxt'[n].wmi_ep = cxt[n].wmi_ep
         /\ cxt'[n].txq = cxt[n].txq /\ cxt'[n].userWake = cxt[n].userWake
<1>1. cxt[n] \in Context
  BY DEF Base, TypeInv
<1>2. \/ cxt'[n] = cxt[n]
      \/ cxt'[n] = [cxt[n] EXCEPT !.rxfree = 0, !.unlocked = Unlocked]
      \/ cxt'[n] = [cxt[n] EXCEPT !.rxfree = @ - 1, !.rxheld = @ + 1]
      \/ cxt'[n] = [cxt[n] EXCEPT !.rxfree = @ + 1, !.rxheld = @ - 1]
  <2>1. CASE Api_DeInitFinish
    BY <2>1, BuffersFreed DEF Cur
  <2>2. CASE Receive
    BY <2>2, PacketReceived
  <2>3. CASE AppFrees
    BY <2>3, PacketFreed DEF Cur
  <2> QED BY <2>1, <2>2, <2>3
<1> QED BY <1>1, <1>2 DEF Context

LEMMA AbiStays ==
  ASSUME Base, Next, "abi" \notin Happens, \A n \in Sessions : cxt[n].abi
  PROVE  \A n \in Sessions : cxt'[n].abi
<1>1. CASE UNCHANGED cxt
  BY <1>1
<1>2. CASE LikeBefore
  BY <1>2 DEF LikeBefore, Alike
<1>3. CASE opens < MaxOpens /\ cxt' = ContextInit(opens + 1)
  <2>1. /\ cxt'[opens + 1] = Fresh(opens + 1)
        /\ \A m \in Sessions \ {opens + 1} : cxt'[m] = cxt[m]
    BY <1>3, NewContext
  <2>2. Fresh(opens + 1).abi
    BY FreshIs
  <2> QED BY <2>1, <2>2
<1>4. CASE Custom_Api_Initialize \/ InitializeNoMemory
  BY <1>1, <1>3, <1>4 DEF Custom_Api_Initialize, SecondDevice,
     InitializeNoMemory
<1>5. CASE \/ WaitTest \/ Api_InitFinish \/ socket_context_deinit
           \/ ShutdownEnds \/ RecallWakes \/ RecallSleeps
  BY <1>1, <1>5 DEF WaitTest, Api_InitFinish, InitializeFails,
     socket_context_deinit, ShutdownEnds, RecallWakes, RecallSleeps
<1>6. CASE \/ Custom_Api_Shutdown \/ WaitEvent \/ Api_WMIInitFinish
           \/ wmi_cmd_process \/ Driver_Init \/ DriverShutsDown
           \/ TargetReady \/ TargetCredit
  BY <1>2, <1>6, ShutdownBegins, EventComes, CommandQueued, CommandWaits,
     DriverInits, ShutsDown, DriverWoken DEF TargetReady, TargetCredit
<1>7. CASE Api_DeInitFinish \/ Receive \/ AppFrees
  BY <1>7, PacketsMove
<1>8. CASE DriverInitEnds
  <2>1. CASE ~UNCHANGED cxt
    BY <1>8, <2>1, DriverIsUp
  <2> QED BY <1>1, <2>1
<1>9. CASE Driver_Main
  BY <1>9, MainLoop
<1>10. CASE Driver_DeInit
  BY <1>10, DriverDeInits
<1> QED
  BY <1>4, <1>5, <1>6, <1>7, <1>8, <1>9, <1>10 DEF Next, UserStep, DriverStep

\* What one task does with its own blocks leaves the others'.
LEMMA QueueTyped ==
  ASSUME Base, task.at # "none"
  PROVE  task.cxt \in Sessions /\ cxt[task.cxt].txq \in Seq(Commands)
BY TaskIsSession DEF Context

LEMMA CommandsAre ==
  Commands = {"stack_init", "scan", "strrcl", "aggr", "bssfilter"}
<1>1. \A k \in 1 .. 5 : k \in {1, 2, 3, 4, 5}
  OBVIOUS
<1>2. {1, 2, 3, 4, 5} \subseteq 1 .. 5
  OBVIOUS
<1> QED BY <1>1, <1>2 DEF Commands, Defaults

LEMMA NetbufsApart ==
  ASSUME NEW n, NEW m, NEW q \in Seq(Commands)
  PROVE  /\ Own({"custom", "common"}, n) \cap Netbufs(q, m) = {}
         /\ <<"utility_mutex", n>> \notin Netbufs(q, m)
<1>1. \A i \in DOMAIN q : q[i] \in Commands
  OBVIOUS
<1> QED BY <1>1, CommandsAre DEF Own, Netbufs

LEMMA BlocksApart ==
  ASSUME NEW n, NEW m
  PROVE  /\ Own({"custom", "common"}, n) \cap Opened(m) = {}
         /\ Own({"custom", "common"}, n) \cap Own({"temp", "pad"}, m) = {}
         /\ Own({"custom", "common"}, n) \cap Own({"sock"}, m) = {}
         /\ Own({"custom", "common"}, n) \cap Own({"sockcustom"}, m) = {}
BY DEF Own, Opened, Access, Custom_HW_Init, HW_PowerUpDown, wmi_init

\* A driver task that serves nobody's last wait is not there: what the
\* conditions of LiveInv say when the contexts change elsewhere.
LEMMA LiveKept ==
  ASSUME Base, LiveInv, Calm, UNCHANGED <<task, MAC_CONTEXT_PTR>>,
         \A n \in Sessions : cxt'[n].abi,
         Own({"custom", "common"}, task.cxt) \cap heap \subseteq heap',
         TaskRuns => user'.at \notin {"sock", "sockread", "free"},
         Starts => user'.at = "ready",
         user'.at = "ready" /\ user'.wait = "A_ERROR" => ~TaskRuns,
         user'.at = "down" /\ user'.wait \in {"A_OK", "A_ERROR"} => ~TaskRuns
  PROVE  LiveInv'
<1>1. UNCHANGED <<TaskRuns, Starts>> /\ Calm'
  BY DEF TaskRuns, Starts, Calm, Prompt, Happens
<1> QED BY <1>1 DEF LiveInv, Leaving

LEMMA LiveUser ==
  ASSUME Base, LiveInv, Calm, UserStep,
         \A n \in Sessions : cxt'[n].abi
  PROVE  LiveInv'
<1>0. /\ user \in UserType /\ opens \in Nat
      /\ TaskRuns => /\ MAC_CONTEXT_PTR = task.cxt /\ ~Leaving
                     /\ task.cxt \in Sessions
      /\ Starts => user.at = "ready" /\ TaskRuns
      /\ task.at # "recall"
      /\ \A n \in Sessions : cxt[n].abi
      /\ user.at = "ready" /\ user.wait = "A_ERROR" => ~TaskRuns
      /\ user.at = "down" /\ user.wait \in {"A_OK", "A_ERROR"} => ~TaskRuns
      /\ TaskRuns /\ ~Starts => cxt[task.cxt].driver_up
      /\ Starts => ~cxt[task.cxt].wmiReady
      /\ "mute" \notin Happens /\ "slow" \notin Happens
  <2>1. TaskRuns => task.at # "none" /\ task.cxt \in Sessions
    BY TaskIsSession DEF TaskRuns
  <2>2. TaskRuns /\ ~Starts => Serves \/ task.at = "powerdown"
    BY DEF TaskRuns, Starts, Serves, Base, TypeInv
  <2>3. TaskRuns /\ ~Starts => cxt[task.cxt].driver_up
    BY <2>1, <2>2 DEF Base, TaskInv
  <2>4. Starts => TaskRuns /\ ~cxt[task.cxt].wmiReady
    BY DEF Starts, TaskRuns, Base, TaskInv
  <2>5. user \in UserType /\ opens \in Nat
    BY LifeAssumption DEF Base, TypeInv, UserType
  <2>6. "mute" \notin Happens /\ "slow" \notin Happens
    BY DEF Calm, Prompt
  <2> QED BY <2>1, <2>3, <2>4, <2>5, <2>6 DEF LiveInv
<1>1. CASE WaitTest
  <2>1. /\ UNCHANGED <<task, MAC_CONTEXT_PTR, heap>>
        /\ user' = [user EXCEPT !.wait = IF Condition THEN "A_OK"
                                         ELSE "event"]
        /\ user.at \in {"ready", "down", "pend"}
    BY <1>1 DEF WaitTest
  <2>2. user.at = "down" => Condition = ~Cur.driver_up
    BY DEF Condition
  <2>3. user.at = "down" /\ Condition => ~TaskRuns
    BY <1>0, <2>2 DEF Cur
  <2>4. /\ user'.at = user.at /\ user'.wait # "A_ERROR"
        /\ user'.wait = "A_OK" => Condition
    BY <1>0, <2>1 DEF UserType
  <2> QED BY <1>0, <2>1, <2>3, <2>4, LiveKept
<1>2. CASE WaitEvent
  <2>1. /\ UNCHANGED <<task, MAC_CONTEXT_PTR, heap>> /\ user.wait = "event"
        /\ \/ user' = [user EXCEPT !.wait = "test"]
           \/ /\ user' = [user EXCEPT !.wait = "A_ERROR"]
              /\ \/ task.at \in {"none", "suspended", "recall"}
                 \/ user.at = "pend"
    BY <1>0, <1>2 DEF WaitEvent
  <2>2. task.at \in {"none", "suspended"} => ~TaskRuns
    BY DEF TaskRuns
  <2>3. /\ user'.at = user.at /\ user'.wait \in {"test", "A_ERROR"}
        /\ user'.wait = "A_ERROR" => ~TaskRuns \/ user.at = "pend"
    BY <1>0, <2>1, <2>2 DEF UserType
  <2>4. TaskRuns => user.at \notin {"sock", "sockread", "free"}
    BY <1>0 DEF Leaving
  <2> QED BY <1>0, <2>1, <2>3, <2>4, LiveKept
<1>3. CASE Api_InitFinish
  <2>1. UNCHANGED <<task, MAC_CONTEXT_PTR>> /\ user.at = "ready"
    BY <1>3 DEF Api_InitFinish, InitializeFails, UserAt
  <2>2. Cur.abi
    <3>1. MAC_CONTEXT_PTR \in Sessions
      BY <2>1, PointerIsSession DEF Base, PlaceInv
    <3> QED BY <1>0, <3>1 DEF Cur
  <2>3. CASE user.wait = "A_ERROR"
    <3>1. ~TaskRuns
      BY <1>0, <2>1, <2>3
    <3>2. UNCHANGED TaskRuns /\ ~Starts /\ UNCHANGED Starts /\ Calm'
      BY <1>0, <2>1, <3>1 DEF TaskRuns, Starts, Calm, Prompt, Happens
    <3>3. task'.at # "recall"
      BY <1>0, <2>1
    <3> QED BY <3>1, <3>2, <3>3 DEF LiveInv
  <2>4. CASE user.wait # "A_ERROR"
    <3>1. /\ user' = [user EXCEPT !.at = "cmd", !.wait = "none", !.cmd = 1]
          /\ UNCHANGED heap /\ user.wait = "A_OK"
      BY <1>3, <2>2, <2>4 DEF Api_InitFinish
    <3>2. user'.at = "cmd"
      BY <1>0, <3>1 DEF UserType
    <3>3. Cur.wmiReady
      BY <2>1, <3>1 DEF Base, PlaceInv
    <3>4. ~Starts
      BY <1>0, <3>3 DEF Cur
    <3> QED BY <1>0, <2>1, <3>1, <3>2, <3>4, LiveKept
  <2> QED BY <2>3, <2>4
<1>4. CASE Api_WMIInitFinish \/ wmi_cmd_process
  <2>1. /\ UNCHANGED <<task, MAC_CONTEXT_PTR>> /\ heap \subseteq heap'
        /\ user.at \in {"cmd", "nomem", "pend"}
    BY <1>4 DEF Api_WMIInitFinish, wmi_cmd_process, UserAt
  <2>2. user'.at \in {"cmd", "nomem", "pend", "idle", "assert"}
    <3>1. CASE Api_WMIInitFinish
      BY <1>0, <2>1, <3>1 DEF Api_WMIInitFinish, NoUser, UserType, UserAt
    <3>2. CASE wmi_cmd_process
      <4>1. CASE user' = NoUser
        BY <4>1 DEF NoUser
      <4>2. CASE user' = [user EXCEPT !.at = "pend", !.wait = "test"]
        BY <1>0, <4>2 DEF UserType
      <4>3. CASE \E place \in {"cmd", "assert"} :
                   user' = [user EXCEPT !.wait = "none", !.cmd = @ + 1,
                                        !.at = place]
        BY <1>0, <4>3 DEF UserType
      <4> QED BY <3>2, <4>1, <4>2, <4>3 DEF wmi_cmd_process
    <3> QED BY <1>4, <3>1, <3>2
  <2>3. ~Starts
    BY <1>0, <2>1
  <2> QED BY <1>0, <2>1, <2>2, <2>3, LiveKept
<1>5. CASE Api_DeInitFinish \/ socket_context_deinit
  <2>1. /\ UNCHANGED <<task, MAC_CONTEXT_PTR>>
        /\ ~TaskRuns
    BY <1>0, <1>5 DEF Api_DeInitFinish, socket_context_deinit, UserAt, Leaving
  <2>2. UNCHANGED <<TaskRuns, Starts>> /\ Calm' /\ ~Starts
    BY <1>0, <2>1 DEF TaskRuns, Starts, Calm, Prompt, Happens
  <2> QED BY <1>0, <2>1, <2>2 DEF LiveInv
<1>6. CASE ShutdownEnds
  <2>1. UNCHANGED task /\ ~TaskRuns
    BY <1>0, <1>6 DEF ShutdownEnds, UserAt, Leaving
  <2>2. UNCHANGED <<TaskRuns, Starts>> /\ Calm' /\ ~Starts
    BY <1>0, <2>1 DEF TaskRuns, Starts, Calm, Prompt, Happens
  <2> QED BY <1>0, <2>1, <2>2 DEF LiveInv
<1> QED BY <1>1, <1>2, <1>3, <1>4, <1>5, <1>6 DEF UserStep

LEMMA LiveOpen ==
  ASSUME Base, LiveInv, Calm, Calm', \A n \in Sessions : cxt'[n].abi,
         Custom_Api_Initialize \/ InitializeNoMemory
  PROVE  LiveInv'
<1>0. /\ task \in TaskType /\ user.at = "idle" /\ MAC_CONTEXT_PTR = 0
      /\ user \in UserType
  BY DEF Base, TypeInv, TaskType, UserType, Custom_Api_Initialize,
     InitializeNoMemory, UserAt
<1>1. ~TaskRuns /\ ~Starts /\ task.at # "recall"
  <2>1. ~TaskRuns
    BY <1>0, LifeAssumption DEF LiveInv, TaskRuns, Base, TaskInv, TypeInv
  <2> QED BY <2>1 DEF TaskRuns, Starts
<1>2. CASE UNCHANGED task /\ user'.at = "idle"
  <2>1. ~TaskRuns' /\ ~Starts' /\ task'.at # "recall"
    BY <1>1, <1>2 DEF TaskRuns, Starts
  <2> QED BY <1>2, <2>1 DEF LiveInv
<1>3. CASE InitializeNoMemory
  <2>1. UNCHANGED task /\ user' = [user EXCEPT !.status = "ENET_ERROR"]
    BY <1>3 DEF InitializeNoMemory
  <2>2. user'.at = "idle"
    BY <1>0, <2>1 DEF UserType
  <2> QED BY <1>2, <2>1, <2>2
<1>4. CASE Custom_Api_Initialize /\ SecondDevice
  BY <1>2, <1>4 DEF SecondDevice, NoUser
<1>5. CASE Custom_Api_Initialize /\ ~SecondDevice
  <2> DEFINE n == opens + 1
  <2>1. /\ heap' = heap \cup ContextBlocks(n) \cup socket_context_init(n)
        /\ MAC_CONTEXT_PTR' = n /\ Driver_CreateThread(n)
        /\ user' = [NoUser EXCEPT !.at = "ready", !.wait = "test"]
    BY <1>5 DEF Custom_Api_Initialize
  <2>2. user'.at = "ready" /\ user'.wait = "test"
    BY <2>1 DEF NoUser
  <2>3. Own({"custom", "common"}, n) \subseteq heap'
    BY <2>1 DEF ContextBlocks, Own
  <2>4. CASE task.id = 0
    <3>1. task'.at = "start" /\ task'.cxt = n
      BY <1>0, <2>1, <2>4 DEF Driver_CreateThread, qosal_task_create, TaskType
    <3> HIDE DEF n
    <3> QED BY <2>1, <2>2, <2>3, <3>1 DEF LiveInv, TaskRuns, Starts, Leaving
  <2>5. CASE task.id # 0
    <3>1. task' = task
      BY <2>1, <2>5 DEF Driver_CreateThread
    <3>2. ~TaskRuns' /\ ~Starts' /\ task'.at # "recall"
      BY <1>1, <3>1 DEF TaskRuns, Starts
    <3> QED BY <3>2 DEF LiveInv
  <2> QED BY <2>4, <2>5
<1> QED BY <1>3, <1>4, <1>5

LEMMA LiveDriver ==
  ASSUME Base, LiveInv, Calm, Calm', \A n \in Sessions : cxt'[n].abi,
         DriverStep
  PROVE  LiveInv'
<1>0. /\ task \in TaskType /\ task.at # "recall"
      /\ UNCHANGED <<user, MAC_CONTEXT_PTR>>
      /\ TaskRuns /\ MAC_CONTEXT_PTR = task.cxt /\ ~Leaving
      /\ Own({"custom", "common"}, task.cxt) \subseteq heap
      /\ Starts => user.at = "ready"
      /\ user.at = "ready" /\ user.wait = "A_ERROR" => ~TaskRuns
      /\ user.at = "down" /\ user.wait \in {"A_OK", "A_ERROR"} => ~TaskRuns
  <2>1. TaskRuns
    BY DEF TaskRuns, DriverStep, Driver_Init, DriverInitEnds, Driver_Main,
       DriverShutsDown, Driver_DeInit, RecallWakes
  <2>2. UNCHANGED <<user, MAC_CONTEXT_PTR>>
    BY DEF DriverStep, Driver_Init, DriverInitEnds, Driver_Main,
       DriverShutsDown, Driver_DeInit, RecallWakes
  <2> QED BY <2>1, <2>2 DEF LiveInv, Base, TypeInv, TaskType
<1>1. CASE TaskEnds
  <2>1. ~TaskRuns' /\ ~Starts' /\ task'.at # "recall"
    BY <1>0, <1>1 DEF TaskEnds, TaskType, TaskRuns, Starts
  <2> QED BY <2>1 DEF LiveInv
<1>2. CASE Driver_DeInit \/ (DriverInitEnds /\ TaskEnds)
  BY <1>1, <1>2 DEF Driver_DeInit
<1>3. CASE Driver_Init
  <2>1. /\ task.at = "start" /\ task' = [task EXCEPT !.at = "powerup"]
        /\ heap \subseteq heap'
    BY <1>3 DEF Driver_Init
  <2>2. task'.at = "powerup" /\ task'.cxt = task.cxt
    BY <1>0, <2>1 DEF TaskType
  <2>3. Starts
    BY <2>1 DEF Starts
  <2> QED BY <1>0, <2>1, <2>2, <2>3 DEF LiveInv, TaskRuns, Starts, Leaving
<1>4. CASE DriverInitEnds /\ ~TaskEnds
  <2>1. task' = [task EXCEPT !.at = "wait"] /\ heap \subseteq heap'
    BY <1>4 DEF DriverInitEnds
  <2>2. task'.at = "wait" /\ task'.cxt = task.cxt
    BY <1>0, <2>1 DEF TaskType
  <2> QED BY <1>0, <2>1, <2>2 DEF LiveInv, TaskRuns, Starts, Leaving
<1>5. CASE DriverShutsDown
  <2>1. task' = [task EXCEPT !.at = "powerdown"] /\ UNCHANGED heap
    BY <1>5 DEF DriverShutsDown
  <2>2. task'.at = "powerdown" /\ task'.cxt = task.cxt
    BY <1>0, <2>1 DEF TaskType
  <2> QED BY <1>0, <2>1, <2>2 DEF LiveInv, TaskRuns, Starts, Leaving
<1>6. CASE Driver_Main
  <2>1. UNCHANGED task
    BY <1>6 DEF Driver_Main
  <2>2. Own({"custom", "common"}, task.cxt) \subseteq heap'
    <3>1. cxt[task.cxt].txq \in Seq(Commands)
      BY <1>0, QueueTyped DEF TaskRuns
    <3> QED BY <1>0, <1>6, <3>1, MainLoop, NetbufsApart
  <2> QED BY <1>0, <2>1, <2>2 DEF LiveInv, TaskRuns, Starts, Leaving
<1>7. CASE RecallWakes
  BY <1>0, <1>7 DEF RecallWakes
<1> QED BY <1>2, <1>3, <1>4, <1>5, <1>6, <1>7 DEF DriverStep

LEMMA LiveStep ==
  ASSUME Base, LiveInv, Next
  PROVE  LiveInv'
<1>1. Calm' = Calm
  BY SettingKept DEF Calm, Prompt
<1>2. CASE ~Calm
  BY <1>1, <1>2 DEF LiveInv
<1>3. CASE Calm
  <2>1. \A n \in Sessions : cxt'[n].abi
    BY <1>3, AbiStays DEF LiveInv, Calm
  <2>2. Calm'
    BY <1>1, <1>3
  <2>3. CASE Custom_Api_Initialize \/ InitializeNoMemory
    BY <1>3, <2>1, <2>2, <2>3, LiveOpen
  <2>4. CASE UserStep
    BY <1>3, <2>1, <2>4, LiveUser
  <2>5. CASE DriverStep
    BY <1>3, <2>1, <2>2, <2>5, LiveDriver
  <2>6. CASE TargetReady \/ TargetCredit \/ Receive \/ AppFrees
    <3>1. UNCHANGED <<task, user, MAC_CONTEXT_PTR, heap>>
      BY <2>6 DEF TargetReady, TargetCredit, Receive, AppFrees
    <3> QED BY <1>3, <2>1, <2>2, <3>1
            DEF LiveInv, TaskRuns, Starts, Leaving
  <2>7. CASE RecallSleeps
    BY <1>3, <2>7 DEF RecallSleeps, Calm, Prompt
  <2>8. CASE Custom_Api_Shutdown
    <3>1. /\ UNCHANGED <<task, MAC_CONTEXT_PTR, heap>> /\ user.at = "idle"
          /\ user' = [NoUser EXCEPT !.at = "down", !.wait = "test"]
      BY <2>8 DEF Custom_Api_Shutdown, UserAt
    <3>2. user'.at = "down" /\ user'.wait = "test"
      BY <3>1 DEF NoUser
    <3>3. ~Starts
      BY <1>3, <3>1 DEF LiveInv
    <3> QED BY <1>3, <2>1, <3>1, <3>2, <3>3, LiveKept
  <2> QED BY <2>3, <2>4, <2>5, <2>6, <2>7, <2>8 DEF Next
<1> QED BY <1>2, <1>3

-----------------------------------------------------------------------------
OpenLive == Own({"custom", "common"}, MAC_CONTEXT_PTR) \subseteq heap
InUse == /\ user.status = "ENET_OK" /\ MAC_CONTEXT_PTR # 0
         /\ user.at # "down" /\ ~Leaving

LEMMA OpenUser ==
  ASSUME Base, UserStep, p_Global_Cxt = MAC_CONTEXT_PTR, InUse => OpenLive
  PROVE  p_Global_Cxt' = MAC_CONTEXT_PTR' /\ (InUse' => OpenLive')
<1>0. user \in UserType
  BY DEF Base, TypeInv, UserType
<1>1. CASE WaitTest \/ WaitEvent
  <2>1. /\ UNCHANGED <<p_Global_Cxt, MAC_CONTEXT_PTR, heap>>
        /\ \E w \in Waits : user' = [user EXCEPT !.wait = w]
    BY <1>1 DEF WaitTest, WaitEvent, Waits
  <2>2. user'.at = user.at /\ user'.status = user.status
    BY <1>0, <2>1 DEF UserType
  <2> QED BY <2>1, <2>2 DEF InUse, OpenLive, Leaving
<1>2. CASE Api_InitFinish
  <2>1. user.at = "ready" /\ UNCHANGED <<p_Global_Cxt, MAC_CONTEXT_PTR>>
    BY <1>2 DEF Api_InitFinish, InitializeFails, UserAt
  <2>2. CASE user' = [NoUser EXCEPT !.status = "ENET_ERROR"]
    BY <2>1, <2>2 DEF InUse, NoUser
  <2>3. CASE UNCHANGED heap
    <3>1. InUse
      BY <2>1 DEF Base, PlaceInv, Opening, InUse, Leaving
    <3> QED BY <2>1, <2>3, <3>1 DEF OpenLive
  <2> QED BY <1>2, <2>2, <2>3 DEF Api_InitFinish, InitializeFails
<1>3. CASE Api_WMIInitFinish \/ wmi_cmd_process
  <2>1. /\ UNCHANGED <<p_Global_Cxt, MAC_CONTEXT_PTR>>
        /\ heap \subseteq heap'
        /\ user.at \in {"cmd", "nomem", "pend"}
    BY <1>3 DEF Api_WMIInitFinish, wmi_cmd_process, UserAt
  <2>2. InUse
    BY <2>1 DEF Base, PlaceInv, Opening, InUse, Leaving
  <2> QED BY <2>1, <2>2 DEF OpenLive
<1>4. CASE Api_DeInitFinish \/ socket_context_deinit
  <2>1. UNCHANGED <<p_Global_Cxt, MAC_CONTEXT_PTR>>
    BY <1>4 DEF Api_DeInitFinish, socket_context_deinit
  <2>2. user'.at \in {"sock", "free", "sockread"}
    <3>1. \E place \in {"sock", "free", "sockread"} :
            \/ user' = [user EXCEPT !.at = place]
            \/ user' = [user EXCEPT !.at = place, !.wait = "none"]
      BY <1>4 DEF Api_DeInitFinish, socket_context_deinit
    <3> QED BY <1>0, <3>1 DEF UserType
  <2> QED BY <2>1, <2>2 DEF InUse, Leaving
<1>5. CASE ShutdownEnds
  BY <1>5 DEF ShutdownEnds, InUse
<1> QED BY <1>1, <1>2, <1>3, <1>4, <1>5 DEF UserStep

LEMMA OpenStep ==
  ASSUME Base, OpenInv, Next
  PROVE  OpenInv'
<1>1. OpensSucceed' = OpensSucceed
  BY SettingKept DEF OpensSucceed
<1>2. CASE ~OpensSucceed
  BY <1>1, <1>2 DEF OpenInv
<1>3. CASE OpensSucceed
  <2>0. /\ p_Global_Cxt = MAC_CONTEXT_PTR /\ (InUse => OpenLive)
        /\ "nocommon" \notin Happens /\ "notemp" \notin Happens
        /\ "nosock" \notin Happens
    BY <1>3 DEF OpenInv, OpensSucceed, InUse, OpenLive
  <2>1. SUFFICES p_Global_Cxt' = MAC_CONTEXT_PTR' /\ (InUse' => OpenLive')
    BY DEF OpenInv, InUse, OpenLive
  <2>2. CASE Custom_Api_Initialize
    <3>1. ~SecondDevice
      BY <2>0, <2>2 DEF SecondDevice, Custom_Api_Initialize
    <3>2. /\ p_Global_Cxt' = MAC_CONTEXT_PTR'
          /\ heap' = heap \cup ContextBlocks(MAC_CONTEXT_PTR')
                     \cup socket_context_init(MAC_CONTEXT_PTR')
      BY <2>2, <3>1 DEF Custom_Api_Initialize
    <3> QED BY <3>2 DEF ContextBlocks, Own, OpenLive
  <2>3. CASE InitializeNoMemory
    BY <2>0, <2>3 DEF InitializeNoMemory, InUse
  <2>4. CASE Custom_Api_Shutdown
    BY <2>0, <2>4 DEF Custom_Api_Shutdown, NoUser, InUse
  <2>5. CASE UserStep
    BY <2>0, <2>5, OpenUser
  <2>6. CASE DriverStep
    <3>1. /\ UNCHANGED <<p_Global_Cxt, MAC_CONTEXT_PTR, user>>
          /\ \/ heap \subseteq heap' \/ heap' = heap \ Opened(task.cxt)
             \/ Driver_Main
      BY <2>6 DEF DriverStep, Driver_Init, DriverInitEnds, Driver_Main,
         DriverShutsDown, Driver_DeInit, RecallWakes, Opened
    <3>2. Own({"custom", "common"}, MAC_CONTEXT_PTR) \cap Opened(task.cxt)
            = {}
      BY BlocksApart
    <3>3. Driver_Main => Own({"custom", "common"}, MAC_CONTEXT_PTR) \cap heap
                           \subseteq heap'
      BY MainLoop, QueueTyped, NetbufsApart DEF Driver_Main
    <3> QED BY <2>0, <3>1, <3>2, <3>3 DEF InUse, OpenLive, Leaving
  <2>7. CASE TargetReady \/ TargetCredit \/ Receive \/ AppFrees
             \/ RecallSleeps
    <3>1. UNCHANGED <<p_Global_Cxt, MAC_CONTEXT_PTR, user, heap>>
      BY <2>7 DEF TargetReady, TargetCredit, Receive, AppFrees, RecallSleeps
    <3> QED BY <2>0, <3>1 DEF InUse, OpenLive, Leaving
  <2> QED BY <2>2, <2>3, <2>4, <2>5, <2>6, <2>7 DEF Next
<1> QED BY <1>2, <1>3

-----------------------------------------------------------------------------
Maps(c) ==
  /\ \A a \in WmmAc : c.ac2Ep[a] # 0 /\ c.ep2Ac[c.ac2Ep[a]] = a
  /\ \A e, f \in Endpoints : c.serviceID[e] = c.serviceID[f] => e = f
  /\ c.wmi_ep \notin {c.ac2Ep[a] : a \in WmmAc}

LEMMA ConnectedMaps ==
  ASSUME NEW c, Connected(c)
  PROVE  Maps(c)
<1>1. \A a \in WmmAc : c.ac2Ep[a] # 0 /\ c.ep2Ac[c.ac2Ep[a]] = a
  BY DEF Connected, WmmAc
<1>2. \A e, f \in Endpoints : c.serviceID[e] = c.serviceID[f] => e = f
  <2>1. \A e \in Endpoints : e \in {0, 1, 2, 3, 4, 5}
    BY DEF Endpoints
  <2> QED BY <2>1 DEF Connected
<1>3. c.wmi_ep \notin {c.ac2Ep[a] : a \in WmmAc}
  BY DEF Connected, WmmAc
<1> QED BY <1>1, <1>2, <1>3 DEF Maps

LEMMA MapsStep ==
  ASSUME Base, EndpointMaps, Next
  PROVE  EndpointMaps'
<1> SUFFICES ASSUME NEW n \in Sessions, cxt'[n].driver_up
             PROVE  Maps(cxt'[n])
  BY DEF EndpointMaps, Maps
<1>0. cxt[n].driver_up => Maps(cxt[n])
  BY DEF EndpointMaps, Maps
<1>1. CASE UNCHANGED cxt
  BY <1>0, <1>1
<1>2. CASE LikeBefore
  BY <1>0, <1>2 DEF LikeBefore, Alike, Maps
<1>3. CASE opens < MaxOpens /\ cxt' = ContextInit(opens + 1)
  <2>1. /\ cxt'[opens + 1] = Fresh(opens + 1)
        /\ \A m \in Sessions \ {opens + 1} : cxt'[m] = cxt[m]
    BY <1>3, NewContext
  <2>2. ~Fresh(opens + 1).driver_up
    BY FreshIs
  <2> QED BY <1>0, <2>1, <2>2
<1>4. CASE Custom_Api_Initialize \/ InitializeNoMemory
  BY <1>1, <1>3, <1>4 DEF Custom_Api_Initialize, SecondDevice,
     InitializeNoMemory
<1>5. CASE \/ WaitTest \/ Api_InitFinish \/ socket_context_deinit
           \/ ShutdownEnds \/ RecallWakes \/ RecallSleeps
  BY <1>1, <1>5 DEF WaitTest, Api_InitFinish, InitializeFails,
     socket_context_deinit, ShutdownEnds, RecallWakes, RecallSleeps
<1>6. CASE \/ Custom_Api_Shutdown \/ WaitEvent \/ Api_WMIInitFinish
           \/ wmi_cmd_process \/ Driver_Init \/ DriverShutsDown
           \/ TargetReady \/ TargetCredit
  BY <1>2, <1>6, ShutdownBegins, EventComes, CommandQueued, CommandWaits,
     DriverInits, ShutsDown, DriverWoken DEF TargetReady, TargetCredit
<1>7. CASE Api_DeInitFinish \/ Receive \/ AppFrees
  <2>1. /\ cxt[n].driver_up
        /\ cxt'[n].serviceID = cxt[n].serviceID
        /\ cxt'[n].ac2Ep = cxt[n].ac2Ep /\ cxt'[n].ep2Ac = cxt[n].ep2Ac
        /\ cxt'[n].wmi_ep = cxt[n].wmi_ep
    BY <1>7, PacketsMove
  <2> QED BY <1>0, <2>1 DEF Maps
<1>8. CASE DriverInitEnds
  <2>1. CASE ~UNCHANGED cxt
    BY <1>0, <1>8, <2>1, DriverIsUp, ConnectedMaps
  <2> QED BY <1>1, <2>1
<1>9. CASE Driver_Main
  BY <1>0, <1>9, MainLoop DEF Maps
<1>10. CASE Driver_DeInit
  BY <1>0, <1>10, DriverDeInits
<1> QED
  BY <1>4, <1>5, <1>6, <1>7, <1>8, <1>9, <1>10 DEF Next, UserStep, DriverStep

-----------------------------------------------------------------------------
(***************************************************************************)
(* The mutex of a session and the commands that are queued.                *)
(***************************************************************************)
SameFlags == \A n \in Sessions : cxt'[n].unlocked = cxt[n].unlocked

\* Only an open makes a context anew; else the queues change where a command
\* is queued or sent, and the flags at the end of the wait of a shutdown.
LEMMA QueuesAndFlags ==
  ASSUME Base, Next, ~Custom_Api_Initialize, ~InitializeNoMemory
  PROVE  /\ QueuesSame \/ Api_WMIInitFinish \/ Driver_Main
         /\ SameFlags \/ Api_DeInitFinish
<1>1. CASE \/ WaitTest \/ Api_InitFinish \/ socket_context_deinit
           \/ ShutdownEnds \/ RecallWakes \/ RecallSleeps
  <2>1. UNCHANGED cxt
    BY <1>1 DEF WaitTest, Api_InitFinish, InitializeFails,
       socket_context_deinit, ShutdownEnds, RecallWakes, RecallSleeps
  <2> QED BY <2>1 DEF QueuesSame, SameFlags
<1>2. CASE \/ Custom_Api_Shutdown \/ WaitEvent \/ wmi_cmd_process
           \/ Driver_Init \/ DriverShutsDown \/ TargetReady \/ TargetCredit
  <2>1. LikeBefore /\ QueuesSame
    BY <1>2, ShutdownBegins, EventComes, CommandWaits, DriverInits,
       ShutsDown, DriverWoken DEF TargetReady, TargetCredit
  <2> QED BY <2>1 DEF LikeBefore, Alike, SameFlags
<1>3. CASE Api_WMIInitFinish
  BY <1>3, CommandQueued DEF LikeBefore, Alike, SameFlags
<1>4. CASE Api_DeInitFinish
  BY <1>4, BuffersFreed
<1>5. CASE DriverInitEnds
  <2>1. CASE UNCHANGED cxt
    BY <2>1 DEF QueuesSame, SameFlags
  <2>2. CASE ~UNCHANGED cxt
    BY <1>5, <2>2, DriverIsUp DEF SameFlags
  <2> QED BY <2>1, <2>2
<1>6. CASE Driver_Main
  BY <1>6, MainLoop DEF SameFlags
<1>7. CASE Driver_DeInit
  BY <1>7, DriverDeInits DEF SameFlags
<1>8. CASE Receive
  <2>1. cxt[task.cxt] \in Context
    BY <1>8, TaskIsSession DEF Receive
  <2>2. cxt'[task.cxt].unlocked = cxt[task.cxt].unlocked
    BY <1>8, <2>1, PacketReceived DEF Context
  <2> QED BY <1>8, <2>2, PacketReceived DEF SameFlags
<1>9. CASE AppFrees
  <2>1. Cur \in Context
    BY <1>9, PointerIsSession DEF AppFrees, Base
  <2>2. cxt'[MAC_CONTEXT_PTR].unlocked = Cur.unlocked
    BY <1>9, <2>1, PacketFreed DEF Context
  <2> QED BY <1>9, <2>2, PacketFreed DEF SameFlags, Cur
<1> QED
  BY <1>1, <1>2, <1>3, <1>4, <1>5, <1>6, <1>7, <1>8, <1>9
     DEF Next, UserStep, DriverStep

\* The driver task goes on with its session, or it ends.
LEMMA TaskGoesOn ==
  ASSUME Base, Next, ~Custom_Api_Initialize
  PROVE  /\ task'.cxt = task.cxt
         /\ TaskRuns' => TaskRuns
         /\ task.at = "start" => task'.at = "start" \/ Driver_Init
<1>1. task \in TaskType
  BY DEF Base, TypeInv, TaskType
<1>2. CASE UNCHANGED task
  BY <1>2 DEF TaskRuns
<1>3. CASE TaskEnds /\ task.at # "start"
  <2>1. task'.cxt = task.cxt /\ task'.at \in {"none", "suspended"}
    BY <1>1, <1>3 DEF TaskEnds, TaskType
  <2> QED BY <1>3, <2>1 DEF TaskRuns
<1>4. CASE /\ \E place \in {"powerup", "wait", "powerdown", "recall"} :
                task' = [task EXCEPT !.at = place]
           /\ TaskRuns /\ (task.at = "start" => Driver_Init)
  <2>1. task'.cxt = task.cxt
    BY <1>1, <1>4 DEF TaskType
  <2> QED BY <1>4, <2>1
<1>5. CASE Driver_Init \/ DriverShutsDown \/ RecallWakes \/ RecallSleeps
  BY <1>4, <1>5 DEF Driver_Init, DriverShutsDown, RecallWakes, RecallSleeps,
     TaskRuns
<1>6. CASE DriverInitEnds \/ Driver_DeInit
  BY <1>3, <1>4, <1>6 DEF DriverInitEnds, Driver_DeInit, TaskRuns
<1>7. CASE \/ InitializeNoMemory \/ Custom_Api_Shutdown \/ UserStep
           \/ Driver_Main \/ TargetReady \/ TargetCredit \/ Receive
           \/ AppFrees
  BY <1>2, <1>7 DEF InitializeNoMemory, Custom_Api_Shutdown, UserStep,
     WaitTest, WaitEvent, Api_InitFinish, InitializeFails, Api_WMIInitFinish,
     wmi_cmd_process, Api_DeInitFinish, socket_context_deinit, ShutdownEnds,
     Driver_Main, TargetReady, TargetCredit, Receive, AppFrees
<1> QED BY <1>5, <1>6, <1>7 DEF Next, DriverStep

\* Only Driver_DeInit deletes a mutex.
LEMMA MutexStays ==
  ASSUME Base, Next, ~Driver_DeInit, NEW n, <<"utility_mutex", n>> \in heap
  PROVE  <<"utility_mutex", n>> \in heap'
<1>1. \A m : <<"utility_mutex", n>>
               \notin Own({"custom", "common", "temp", "pad", "sock",
                           "sockcustom"}, m)
  BY DEF Own
<1>2. CASE Driver_Main
  <2>1. cxt[task.cxt].txq \in Seq(Commands)
    BY <1>2, QueueTyped DEF Driver_Main
  <2> QED BY <1>2, <2>1, MainLoop, NetbufsApart
<1>3. CASE heap \subseteq heap'
  BY <1>3
<1>4. CASE UserStep
  BY <1>1, <1>4 DEF UserStep, WaitTest, WaitEvent, Api_InitFinish,
     InitializeFails, Api_WMIInitFinish, wmi_cmd_process, Api_DeInitFinish,
     socket_context_deinit, ShutdownEnds, Own
<1>5. CASE ~UserStep /\ ~Driver_Main
  BY <1>3, <1>5 DEF Next, DriverStep, Custom_Api_Initialize, SecondDevice,
     InitializeNoMemory, Custom_Api_Shutdown, Driver_Init, DriverInitEnds,
     DriverShutsDown, RecallWakes, TargetReady, TargetCredit, Receive,
     AppFrees, RecallSleeps
<1> QED BY <1>2, <1>4, <1>5

LEMMA SessionOpens ==
  ASSUME Base, SessionInv, Custom_Api_Initialize \/ InitializeNoMemory
  PROVE  SessionInv'
<1> DEFINE n == opens + 1
<1>0. /\ opens \in 0 .. MaxOpens /\ MaxOpens \in Nat /\ task \in TaskType
      /\ \A m \in Sessions : m \in Nat
  BY LifeAssumption DEF Base, TypeInv, TaskType, Sessions
<1>1. heap \subseteq heap'
  BY DEF Custom_Api_Initialize, SecondDevice, InitializeNoMemory
<1>2. CASE UNCHANGED <<opens, cxt, task>>
  BY <1>1, <1>2 DEF SessionInv, HasMutex, FreedAlone, TaskRuns
<1>3. CASE ~UNCHANGED <<opens, cxt, task>>
  <2>1. /\ opens < MaxOpens /\ opens' = n
        /\ UNCHANGED cxt \/ cxt' = ContextInit(n)
        /\ UNCHANGED task \/ (/\ cxt' = ContextInit(n)
                              /\ task' = qosal_task_create(n))
    BY <1>3 DEF Custom_Api_Initialize, SecondDevice, InitializeNoMemory,
       Driver_CreateThread
  <2>2. /\ \A m \in Sessions \ {n} : cxt'[m] = cxt[m]
        /\ UNCHANGED cxt \/ (cxt'[n].txq = <<>> /\ ~cxt'[n].unlocked)
    BY <2>1, NewContext, FreshIs
  <2>3. \/ UNCHANGED task
        \/ /\ ~cxt'[n].unlocked
           /\ task'.at = "start" /\ task'.cxt = n
    <3>1. CASE UNCHANGED task
      BY <3>1
    <3>2. CASE cxt' = ContextInit(n) /\ task' = qosal_task_create(n)
      <4>1. task'.at = "start" /\ task'.cxt = n
        BY <1>0, <3>2 DEF qosal_task_create, TaskType
      <4> QED BY <2>1, <3>2, <4>1, NewContext, FreshIs
    <3> QED BY <2>1, <3>1, <3>2
  <2>4. HasMutex'
    BY <1>1, <2>3 DEF SessionInv, HasMutex, TaskRuns
  <2>5. FreedAlone'
    BY <2>2, <2>3 DEF SessionInv, FreedAlone, TaskRuns
  <2>6. \A m \in Sessions : m > opens' => cxt'[m].txq = <<>>
    BY <1>0, <2>1, <2>2 DEF SessionInv
  <2> QED BY <2>4, <2>5, <2>6 DEF SessionInv
<1> QED BY <1>2, <1>3

LEMMA SessionStep ==
  ASSUME Base, SessionInv, Next
  PROVE  SessionInv'
<1>1. CASE Custom_Api_Initialize \/ InitializeNoMemory
  BY <1>1, SessionOpens
<1> SUFFICES ASSUME ~Custom_Api_Initialize, ~InitializeNoMemory
             PROVE  SessionInv'
  BY <1>1
<1>2. /\ task'.cxt = task.cxt
      /\ TaskRuns' => TaskRuns
      /\ task.at = "start" => task'.at = "start" \/ Driver_Init
  BY TaskGoesOn
<1>3. HasMutex'
  <2>1. CASE Driver_DeInit
    <3>1. ~TaskRuns'
      <4>1. TaskEnds /\ task \in TaskType
        BY <2>1 DEF Driver_DeInit, Base, TypeInv, TaskType
      <4> QED BY <4>1 DEF TaskEnds, TaskType, TaskRuns
    <3> QED BY <3>1 DEF HasMutex
  <2>2. CASE Driver_Init
    <3>1. <<"utility_mutex", task.cxt>> \in heap'
      BY <2>2 DEF Driver_Init, Access, Own
    <3> QED BY <1>2, <3>1 DEF HasMutex
  <2>3. CASE ~Driver_DeInit /\ ~Driver_Init
    BY <1>2, <2>3, MutexStays DEF SessionInv, HasMutex
  <2> QED BY <2>1, <2>2, <2>3
<1>4. FreedAlone'
  <2>1. CASE SameFlags
    BY <1>2, <2>1 DEF SameFlags, SessionInv, FreedAlone
  <2>2. CASE Api_DeInitFinish
    <3>1. UNCHANGED task /\ task.at # "start"
      BY <2>2 DEF Api_DeInitFinish, UserAt, DriverSleeps
    <3>2. Unlocked => ~(TaskRuns /\ task.cxt = MAC_CONTEXT_PTR)
      BY <3>1 DEF SessionInv, HasMutex, Unlocked
    <3>3. MAC_CONTEXT_PTR \in Sessions /\ Cur \in Context
      BY <2>2, PointerIsSession DEF Api_DeInitFinish, UserAt, Base, PlaceInv
    <3>4. [Cur EXCEPT !.rxfree = 0, !.unlocked = Unlocked].unlocked = Unlocked
      BY <3>3 DEF Context
    <3>5. \A n \in Sessions :
            \/ cxt'[n] = cxt[n]
            \/ n = MAC_CONTEXT_PTR /\ cxt'[n].unlocked = Unlocked
      BY <2>2, <3>4, BuffersFreed
    <3> QED BY <3>1, <3>2, <3>5 DEF SessionInv, FreedAlone, TaskRuns
  <2> QED BY <2>1, <2>2, QueuesAndFlags
<1>5. \A n \in Sessions : n > opens' => cxt'[n].txq = <<>>
  <2>1. UNCHANGED opens
    BY DEF Next, UserStep, DriverStep, Custom_Api_Shutdown, WaitTest,
       WaitEvent, Api_InitFinish, InitializeFails, Api_WMIInitFinish,
       wmi_cmd_process, Api_DeInitFinish, socket_context_deinit,
       ShutdownEnds, Driver_Init, DriverInitEnds, Driver_Main,
       DriverShutsDown, Driver_DeInit, RecallWakes, TargetReady,
       TargetCredit, Receive, AppFrees, RecallSleeps
  <2>2. CASE QueuesSame
    BY <2>1, <2>2 DEF QueuesSame, SessionInv
  <2>3. opens \in Nat /\ MAC_CONTEXT_PTR \in 0 .. opens
        /\ \A n \in Sessions : n \in Nat
    BY LifeAssumption DEF Base, TypeInv, Sessions
  <2>4. CASE Api_WMIInitFinish
    BY <2>1, <2>3, <2>4, CommandQueued DEF SessionInv
  <2>5. CASE Driver_Main
    <3>1. task.cxt \in 1 .. opens
      BY <2>5 DEF Driver_Main, Base, TaskInv
    <3> QED BY <2>1, <2>3, <2>5, <3>1, MainLoop DEF SessionInv
  <2> QED BY <2>2, <2>4, <2>5, QueuesAndFlags
<1> QED BY <1>3, <1>4, <1>5 DEF SessionInv

LEMMA QueueGrows ==
  ASSUME NEW q \in Seq(Commands), NEW c, NEW n
  PROVE  Netbufs(q, n) \cup Own({c}, n) \subseteq Netbufs(Append(q, c), n)
<1>1. /\ DOMAIN q = 1 .. Len(q) /\ Len(q) \in Nat
      /\ DOMAIN Append(q, c) = 1 .. Len(q) + 1
      /\ \A i \in 1 .. Len(q) : Append(q, c)[i] = q[i]
      /\ Append(q, c)[Len(q) + 1] = c
  OBVIOUS
<1>2. DOMAIN q \subseteq DOMAIN Append(q, c)
      /\ Len(q) + 1 \in DOMAIN Append(q, c)
  BY <1>1
<1>3. \A i \in DOMAIN q : q[i] \in {Append(q, c)[j] : j \in DOMAIN Append(q, c)}
  BY <1>1, <1>2
<1>4. c \in {Append(q, c)[j] : j \in DOMAIN Append(q, c)}
  BY <1>1, <1>2
<1> QED BY <1>3, <1>4 DEF Netbufs, Own

\* A netbuf leaves the queue when its command is sent, and is freed then.
LEMMA QueuedStay ==
  ASSUME Base, SessionInv, Next
  PROVE  /\ heap' \cap Queued \subseteq Queued'
         /\ Api_WMIInitFinish => heap' \subseteq heap \cup Queued'
<1>1. ASSUME \A n \in Sessions : \/ cxt'[n].txq = cxt[n].txq
                                 \/ cxt[n].txq = <<>>
      PROVE  Queued \subseteq Queued'
  <2>1. \A n \in Sessions : Netbufs(cxt[n].txq, n)
                              \subseteq Netbufs(cxt'[n].txq, n)
    BY <1>1 DEF Netbufs, Own
  <2> QED BY <2>1 DEF Queued
<1>2. CASE Custom_Api_Initialize \/ InitializeNoMemory
  <2>1. CASE UNCHANGED cxt
    BY <1>1, <1>2, <2>1 DEF Custom_Api_Initialize, InitializeNoMemory,
       Api_WMIInitFinish, UserAt
  <2>2. CASE opens < MaxOpens /\ cxt' = ContextInit(opens + 1)
    <3>1. /\ opens + 1 \in Sessions /\ opens + 1 > opens
          /\ \A n \in Sessions \ {opens + 1} : cxt'[n] = cxt[n]
      BY <2>2, NewContext DEF Base, TypeInv
    <3>2. cxt[opens + 1].txq = <<>>
      BY <3>1 DEF SessionInv
    <3> QED BY <1>1, <1>2, <3>1, <3>2 DEF Custom_Api_Initialize,
            InitializeNoMemory, Api_WMIInitFinish, UserAt
  <2> QED BY <1>2, <2>1, <2>2
          DEF Custom_Api_Initialize, SecondDevice, InitializeNoMemory
<1>3. CASE Api_WMIInitFinish
  <2>1. MAC_CONTEXT_PTR \in Sessions /\ Cur.txq \in Seq(Commands)
    BY <1>3, PointerIsSession
       DEF Api_WMIInitFinish, UserAt, Base, PlaceInv, Context
  <2> DEFINE c == Defaults[user.cmd]
  <2>2. CASE UNCHANGED <<cxt, heap>>
    BY <1>1, <2>2
  <2>3. CASE /\ cxt'[MAC_CONTEXT_PTR].txq = Append(Cur.txq, c)
             /\ heap' = heap \cup Own({c}, MAC_CONTEXT_PTR)
    <3>1. /\ Netbufs(Cur.txq, MAC_CONTEXT_PTR)
                \subseteq Netbufs(cxt'[MAC_CONTEXT_PTR].txq, MAC_CONTEXT_PTR)
          /\ Own({c}, MAC_CONTEXT_PTR)
                \subseteq Netbufs(cxt'[MAC_CONTEXT_PTR].txq, MAC_CONTEXT_PTR)
      BY <2>1, <2>3, QueueGrows
    <3>2. \A n \in Sessions : Netbufs(cxt[n].txq, n)
                                \subseteq Netbufs(cxt'[n].txq, n)
      BY <1>3, <3>1, CommandQueued DEF Cur
    <3>3. Queued \subseteq Queued' /\ Own({c}, MAC_CONTEXT_PTR) \subseteq Queued'
      BY <2>1, <3>1, <3>2 DEF Queued
    <3> QED BY <2>3, <3>3
  <2> QED BY <1>3, <2>2, <2>3, CommandQueued
<1>4. CASE Driver_Main
  <2>1. task.cxt \in Sessions
    BY <1>4, QueueTyped DEF Driver_Main
  <2>2. ~Api_WMIInitFinish
    BY <1>4 DEF Driver_Main, Api_WMIInitFinish, UserAt, DriverSleeps
  <2>3. CASE QueuesSame
    BY <1>1, <2>2, <2>3 DEF QueuesSame
  <2>4. CASE heap' = heap \ Netbufs(cxt[task.cxt].txq, task.cxt)
    <3>1. \A n \in Sessions \ {task.cxt} :
            Netbufs(cxt'[n].txq, n) = Netbufs(cxt[n].txq, n)
      BY <1>4, MainLoop
    <3> QED BY <2>1, <2>2, <2>4, <3>1 DEF Queued
  <2> QED BY <1>4, <2>3, <2>4, MainLoop
<1>5. CASE ~Api_WMIInitFinish /\ QueuesSame
  BY <1>1, <1>5 DEF QueuesSame
<1> QED BY <1>2, <1>3, <1>4, <1>5, QueuesAndFlags

-----------------------------------------------------------------------------
LEMMA BlocksAre ==
  ASSUME NEW at, NEW n
  PROVE  /\ Blocks(at, 0) = {}
         /\ n # 0 /\ at \notin {"sock", "sockread", "free"} =>
              Blocks(at, n) = AllBlocks(n)
         /\ n # 0 => Blocks("sock", n) = AllBlocks(n) \ Own({"temp", "pad"}, n)
         /\ n # 0 => Blocks("sockread", n) = Blocks("sock", n) \ Own({"sock"}, n)
         /\ n # 0 => Blocks("free", n)
                       = Blocks("sockread", n) \ Own({"sockcustom"}, n)
         /\ n # 0 => Blocks("free", n) = Own({"custom", "common"}, n)
<1>1. Blocks(at, 0) = {}
  BY DEF Blocks
<1>2. ASSUME n # 0
      PROVE  /\ at \notin {"sock", "sockread", "free"} =>
                  Blocks(at, n) = AllBlocks(n)
             /\ Blocks("sock", n) = AllBlocks(n) \ Own({"temp", "pad"}, n)
             /\ Blocks("sockread", n)
                  = AllBlocks(n) \ Own({"temp", "pad", "sock"}, n)
             /\ Blocks("free", n) = Own({"custom", "common"}, n)
  BY <1>2 DEF Blocks
<1>3. /\ AllBlocks(n) \ Own({"temp", "pad", "sock"}, n)
           = (AllBlocks(n) \ Own({"temp", "pad"}, n)) \ Own({"sock"}, n)
      /\ Own({"custom", "common"}, n)
           = (AllBlocks(n) \ Own({"temp", "pad", "sock"}, n))
               \ Own({"sockcustom"}, n)
  BY DEF AllBlocks, ContextBlocks, socket_context_init, Own
<1> QED BY <1>1, <1>2, <1>3

WellClosed == OpensSucceed /\ Prompt /\ WakeOnDeleted

HeapClean == heap \subseteq UserBlocks \cup DriverBlocks \cup Queued
DownWoken == user.at = "down" => /\ user.wait # "A_ERROR"
                                 /\ user.wait = "event" =>
                                      Cur.driver_up \/ Cur.userWake = "woken"
RxClean == "data" \notin Happens =>
             \A n \in Sessions :
               /\ cxt[n].rxheld = 0
               /\ cxt[n].rxfree # 0 => n = MAC_CONTEXT_PTR /\ ~Leaving

LEMMA CleanParts == CleanInv <=> (WellClosed =>
                                    HeapClean /\ DownWoken /\ RxClean)
BY DEF CleanInv, WellClosed, HeapClean, DownWoken, RxClean

\* What the other parts say of a session that will be closed well.
LEMMA ClosedWell ==
  ASSUME Base, LiveInv, OpenInv, WellClosed
  PROVE  /\ Calm /\ p_Global_Cxt = MAC_CONTEXT_PTR
         /\ TaskRuns => /\ MAC_CONTEXT_PTR = task.cxt /\ ~Leaving
                        /\ task.cxt \in Sessions /\ MAC_CONTEXT_PTR # 0
         /\ Starts => user.at = "ready"
         /\ task.at # "recall"
         /\ user.at = "ready" /\ user.wait = "A_ERROR" => ~TaskRuns
         /\ user.at = "down" /\ user.wait \in {"A_OK", "A_ERROR"} => ~TaskRuns
         /\ {"nocommon", "notemp", "nosock", "bootfail", "abi"}
              \cap Happens = {}
<1>1. Calm
  BY DEF WellClosed, OpensSucceed, Calm
<1>2. TaskRuns => task.cxt \in Sessions
  BY TaskIsSession DEF TaskRuns
<1>3. \A n \in Sessions : n # 0
  BY DEF Sessions
<1> QED BY <1>1, <1>2, <1>3 DEF LiveInv, OpenInv, WellClosed, OpensSucceed

\* A user that opens the driver goes on, or is done.
LEMMA OpeningGoesOn ==
  ASSUME Base, Api_InitFinish \/ Api_WMIInitFinish \/ wmi_cmd_process
  PROVE  user'.at \in {"idle", "cmd", "nomem", "pend", "assert"}
<1>1. user \in UserType /\ user.cmd + 1 \in Nat
  BY DEF Base, TypeInv, UserType
<1>2. \/ user' = NoUser \/ user' = [NoUser EXCEPT !.status = "ENET_ERROR"]
      \/ user' = [user EXCEPT !.cmd = @ + 1] /\ user.at = "cmd"
      \/ \E place \in {"cmd", "assert", "nomem", "pend"} :
           \/ user' = [user EXCEPT !.at = place, !.wait = "none", !.cmd = 1]
           \/ user' = [user EXCEPT !.at = place, !.wait = "test"]
           \/ user' = [user EXCEPT !.wait = "none", !.cmd = @ + 1,
                                   !.at = place]
           \/ user' = [user EXCEPT !.at = place]
  <2>1. CASE Api_InitFinish
    BY <2>1 DEF Api_InitFinish, InitializeFails
  <2>2. CASE Api_WMIInitFinish
    BY <2>2 DEF Api_WMIInitFinish, UserAt
  <2>3. CASE wmi_cmd_process
    BY <2>3 DEF wmi_cmd_process
  <2> QED BY <2>1, <2>2, <2>3
<1>3. CASE user' = NoUser \/ user' = [NoUser EXCEPT !.status = "ENET_ERROR"]
  BY <1>3 DEF NoUser
<1>4. CASE user' = [user EXCEPT !.cmd = @ + 1] /\ user.at = "cmd"
  BY <1>1, <1>4 DEF UserType
<1>5. ASSUME NEW place \in {"cmd", "assert", "nomem", "pend"},
             user' = [user EXCEPT !.at = place, !.wait = "none", !.cmd = 1]
      PROVE  user'.at = place
  BY <1>1, <1>5 DEF UserType
<1>6. ASSUME NEW place \in {"cmd", "assert", "nomem", "pend"},
             user' = [user EXCEPT !.at = place, !.wait = "test"]
      PROVE  user'.at = place
  BY <1>1, <1>6 DEF UserType
<1>7. ASSUME NEW place \in {"cmd", "assert", "nomem", "pend"},
             user' = [user EXCEPT !.wait = "none", !.cmd = @ + 1, !.at = place]
      PROVE  user'.at = place
  BY <1>1, <1>7 DEF UserType
<1>8. ASSUME NEW place \in {"cmd", "assert", "nomem", "pend"},
             user' = [user EXCEPT !.at = place]
      PROVE  user'.at = place
  BY <1>1, <1>8 DEF UserType
<1> QED BY <1>2, <1>3, <1>4, <1>5, <1>6, <1>7, <1>8

LEMMA HeapUser ==
  ASSUME Base, LiveInv, OpenInv, WellClosed, HeapClean, DownWoken, UserStep,
         heap' \cap Queued \subseteq Queued',
         Api_WMIInitFinish => heap' \subseteq heap \cup Queued'
  PROVE  HeapClean'
<1>0. /\ user \in UserType
      /\ UNCHANGED task /\ UNCHANGED DriverBlocks
      /\ TaskRuns => ~Leaving
      /\ user.at = "down" /\ user.wait \in {"A_OK", "A_ERROR"} => ~TaskRuns
      /\ ~TaskRuns => DriverBlocks = {}
      /\ user.at # "idle" => MAC_CONTEXT_PTR # 0
  <2>1. UNCHANGED task
    BY DEF UserStep, WaitTest, WaitEvent, Api_InitFinish, InitializeFails,
       Api_WMIInitFinish, wmi_cmd_process, Api_DeInitFinish,
       socket_context_deinit, ShutdownEnds
  <2> QED BY <2>1, ClosedWell DEF Base, TypeInv, UserType, PlaceInv,
             DriverBlocks, TaskRuns
<1>1. CASE WaitTest \/ WaitEvent
  <2>1. /\ UNCHANGED <<MAC_CONTEXT_PTR, heap>>
        /\ \E w \in Waits : user' = [user EXCEPT !.wait = w]
    BY <1>1 DEF WaitTest, WaitEvent, Waits
  <2>2. user'.at = user.at
    BY <1>0, <2>1 DEF UserType
  <2> QED BY <1>0, <2>1, <2>2 DEF HeapClean, UserBlocks
<1>2. CASE Api_InitFinish \/ Api_WMIInitFinish \/ wmi_cmd_process
  <2>1. /\ UNCHANGED MAC_CONTEXT_PTR
        /\ heap' \subseteq heap \/ Api_WMIInitFinish
        /\ user.at \in {"ready", "cmd", "nomem", "pend"}
    BY <1>2 DEF Api_InitFinish, InitializeFails, Api_WMIInitFinish,
       wmi_cmd_process, UserAt
  <2>2. user'.at \notin {"sock", "sockread", "free"}
    BY <1>2, OpeningGoesOn
  <2>3. UserBlocks' = UserBlocks
    BY <1>0, <2>1, <2>2, BlocksAre DEF UserBlocks
  <2> QED BY <1>0, <2>1, <2>3 DEF HeapClean
<1>3. CASE Api_DeInitFinish
  <2>1. /\ user.at = "down" /\ user.wait = "A_OK" /\ UNCHANGED MAC_CONTEXT_PTR
        /\ heap' = heap \ Own({"temp", "pad"}, MAC_CONTEXT_PTR)
        /\ user' = [user EXCEPT !.at = "sock", !.wait = "none"]
    BY <1>3 DEF Api_DeInitFinish, UserAt, DownWoken
  <2>2. user'.at = "sock" /\ DriverBlocks = {}
    BY <1>0, <2>1 DEF UserType
  <2> QED BY <1>0, <2>1, <2>2, BlocksAre DEF HeapClean, UserBlocks
<1>4. CASE socket_context_deinit
  <2>1. UNCHANGED MAC_CONTEXT_PTR /\ MAC_CONTEXT_PTR # 0 /\ DriverBlocks = {}
    BY <1>0, <1>4 DEF socket_context_deinit, Leaving
  <2>2. CASE /\ user.at = "sock"
             /\ heap' = heap \ Own({"sock"}, MAC_CONTEXT_PTR)
             /\ user' = [user EXCEPT !.at = "sockread"]
    <3>1. user'.at = "sockread"
      BY <1>0, <2>2 DEF UserType
    <3> QED BY <1>0, <2>1, <2>2, <3>1, BlocksAre DEF HeapClean, UserBlocks
  <2>3. CASE /\ user.at = "sockread"
             /\ heap' = heap \ Own({"sockcustom"}, MAC_CONTEXT_PTR)
             /\ user' = [user EXCEPT !.at = "free"]
    <3>1. user'.at = "free"
      BY <1>0, <2>3 DEF UserType
    <3> QED BY <1>0, <2>1, <2>3, <3>1, BlocksAre DEF HeapClean, UserBlocks
  <2> QED BY <1>4, <2>2, <2>3 DEF socket_context_deinit
<1>5. CASE ShutdownEnds
  <2>1. /\ user.at = "free" /\ MAC_CONTEXT_PTR # 0 /\ DriverBlocks = {}
        /\ heap' = heap \ Own({"custom", "common"}, MAC_CONTEXT_PTR)
    BY <1>0, <1>5 DEF ShutdownEnds, UserAt, Leaving
  <2>2. heap \subseteq Own({"custom", "common"}, MAC_CONTEXT_PTR) \cup Queued
    BY <2>1, BlocksAre DEF HeapClean, UserBlocks
  <2> QED BY <2>1, <2>2 DEF HeapClean
<1> QED BY <1>1, <1>2, <1>3, <1>4, <1>5 DEF UserStep

LEMMA HeapStep ==
  ASSUME Base, LiveInv, OpenInv, WellClosed, HeapClean, DownWoken, Next,
         heap' \cap Queued \subseteq Queued',
         Api_WMIInitFinish => heap' \subseteq heap \cup Queued'
  PROVE  HeapClean'
<1>0. /\ user \in UserType /\ task \in TaskType
      /\ TaskRuns => MAC_CONTEXT_PTR # 0
      /\ ~TaskRuns => DriverBlocks = {}
  BY ClosedWell DEF Base, TypeInv, UserType, TaskType, DriverBlocks
<1>1. CASE Custom_Api_Initialize
  <2> DEFINE n == opens + 1
  <2>1. ~SecondDevice /\ user.at = "idle" /\ MAC_CONTEXT_PTR = 0
    BY <1>1, ClosedWell DEF SecondDevice, Custom_Api_Initialize, UserAt
  <2>2. /\ heap' = heap \cup ContextBlocks(n) \cup socket_context_init(n)
        /\ MAC_CONTEXT_PTR' = n
        /\ user' = [NoUser EXCEPT !.at = "ready", !.wait = "test"]
    BY <1>1, <2>1 DEF Custom_Api_Initialize
  <2>3. heap \subseteq Queued
    BY <1>0, <2>1, BlocksAre DEF HeapClean, UserBlocks
  <2>4. n # 0 /\ user'.at = "ready"
    BY <2>2, LifeAssumption DEF Base, TypeInv, NoUser
  <2> HIDE DEF n
  <2>5. UserBlocks' = AllBlocks(n)
    BY <2>2, <2>4, BlocksAre DEF UserBlocks
  <2> QED BY <2>2, <2>3, <2>5 DEF HeapClean, AllBlocks
<1>2. CASE InitializeNoMemory
  <2>1. /\ UNCHANGED <<MAC_CONTEXT_PTR, heap, task>>
        /\ user' = [user EXCEPT !.status = "ENET_ERROR"]
    BY <1>2, ClosedWell DEF InitializeNoMemory
  <2>2. user'.at = user.at
    BY <1>0, <2>1 DEF UserType
  <2> QED BY <2>1, <2>2 DEF HeapClean, UserBlocks, DriverBlocks, TaskRuns
<1>3. CASE Custom_Api_Shutdown
  <2>1. /\ UNCHANGED <<MAC_CONTEXT_PTR, heap, task>> /\ MAC_CONTEXT_PTR # 0
        /\ user.at = "idle" /\ user'.at = "down"
    BY <1>3 DEF Custom_Api_Shutdown, UserAt, NoUser
  <2>2. UserBlocks' = UserBlocks
    BY <2>1, BlocksAre DEF UserBlocks
  <2> QED BY <2>1, <2>2 DEF HeapClean, DriverBlocks, TaskRuns
<1>4. CASE UserStep
  BY <1>4, HeapUser
<1>5. CASE Driver_Init \/ DriverInitEnds
  <2>1. /\ UNCHANGED <<MAC_CONTEXT_PTR, user>> /\ TaskRuns
        /\ heap' \subseteq heap \cup Opened(task.cxt)
        /\ \E place \in {"powerup", "wait"} :
             task' = [task EXCEPT !.at = place]
    BY <1>5, ClosedWell
       DEF Driver_Init, DriverInitEnds, TaskRuns, Opened
  <2>2. task'.at \in {"powerup", "wait"} /\ task'.cxt = task.cxt
    BY <1>0, <2>1 DEF TaskType
  <2>3. /\ DriverBlocks' = Opened(task.cxt) /\ DriverBlocks = Opened(task.cxt)
    BY <2>1, <2>2 DEF DriverBlocks, TaskRuns
  <2> QED BY <2>1, <2>3 DEF HeapClean, UserBlocks
<1>6. CASE Driver_DeInit
  <2>1. /\ UNCHANGED <<MAC_CONTEXT_PTR, user>> /\ TaskRuns
        /\ heap' = heap \ Opened(task.cxt)
    BY <1>6 DEF Driver_DeInit, TaskRuns, Opened
  <2> QED BY <2>1 DEF HeapClean, UserBlocks, DriverBlocks
<1>7. CASE DriverShutsDown \/ RecallWakes
  <2>1. /\ UNCHANGED <<MAC_CONTEXT_PTR, user, heap>> /\ TaskRuns
        /\ \E place \in {"powerdown", "wait"} :
             task' = [task EXCEPT !.at = place]
    BY <1>7 DEF DriverShutsDown, RecallWakes, TaskRuns
  <2>2. task'.at \in {"powerdown", "wait"} /\ task'.cxt = task.cxt
    BY <1>0, <2>1 DEF TaskType
  <2> QED BY <2>1, <2>2 DEF HeapClean, UserBlocks, DriverBlocks, TaskRuns
<1>8. CASE \/ Driver_Main \/ TargetReady \/ TargetCredit \/ Receive
           \/ AppFrees
  <2>1. UNCHANGED <<MAC_CONTEXT_PTR, user, task>> /\ heap' \subseteq heap
    BY <1>8 DEF Driver_Main, TargetReady, TargetCredit, Receive, AppFrees
  <2> QED BY <2>1 DEF HeapClean, UserBlocks, DriverBlocks, TaskRuns
<1>9. CASE RecallSleeps
  BY <1>9 DEF RecallSleeps, WellClosed, Prompt
<1> QED BY <1>1, <1>2, <1>3, <1>4, <1>5, <1>6, <1>7, <1>8, <1>9
        DEF Next, DriverStep

\* The end of the driver task wakes a user that waits for it.
LEMMA DownStep ==
  ASSUME Base, LiveInv, OpenInv, WellClosed, DownWoken, Next
  PROVE  DownWoken'
<1>0. /\ user \in UserType
      /\ TaskRuns => /\ MAC_CONTEXT_PTR = task.cxt /\ task.cxt \in Sessions
      /\ Starts => user.at = "ready"
      /\ task.at # "recall"
      /\ {"slow", "mute"} \cap Happens = {}
      /\ user.at # "idle" => MAC_CONTEXT_PTR \in Sessions
  <2>1. user.at # "idle" => MAC_CONTEXT_PTR \in Sessions
    BY PointerIsSession DEF Base, PlaceInv
  <2> QED BY <2>1, ClosedWell DEF Base, TypeInv, UserType, WellClosed, Prompt
<1>1. CASE user'.at # "down"
  BY <1>1 DEF DownWoken
<1>2. CASE Custom_Api_Initialize \/ InitializeNoMemory \/ AppFrees
  <2>1. CASE Custom_Api_Initialize
    <3>1. user' \in {NoUser, [NoUser EXCEPT !.at = "ready", !.wait = "test"]}
      BY <2>1 DEF Custom_Api_Initialize, SecondDevice
    <3>2. /\ NoUser.at = "idle"
          /\ [NoUser EXCEPT !.at = "ready", !.wait = "test"].at = "ready"
      BY DEF NoUser
    <3> QED BY <1>1, <3>1, <3>2
  <2>2. CASE InitializeNoMemory \/ AppFrees
    <3>1. user' \in {user, [user EXCEPT !.status = "ENET_ERROR"]}
          /\ user.at = "idle"
      BY <2>2 DEF InitializeNoMemory, AppFrees, UserAt
    <3>2. user'.at = "idle"
      BY <1>0, <3>1 DEF UserType
    <3> QED BY <1>1, <3>2
  <2> QED BY <1>2, <2>1, <2>2
<1>3. CASE Custom_Api_Shutdown
  <2>1. user'.wait = "test"
    BY <1>3 DEF Custom_Api_Shutdown, NoUser
  <2> QED BY <2>1 DEF DownWoken
<1>4. CASE WaitTest
  <2>1. /\ UNCHANGED <<MAC_CONTEXT_PTR, cxt>>
        /\ user' = [user EXCEPT !.wait = IF Condition THEN "A_OK"
                                         ELSE "event"]
    BY <1>4 DEF WaitTest
  <2>2. /\ user'.at = user.at /\ user'.wait # "A_ERROR"
        /\ user'.wait = "event" => ~Condition
    BY <1>0, <2>1 DEF UserType
  <2>3. user.at = "down" => (Condition <=> ~Cur.driver_up)
    BY DEF Condition
  <2> QED BY <2>1, <2>2, <2>3 DEF DownWoken, Cur
<1>5. CASE WaitEvent
  <2>1. CASE user' = [user EXCEPT !.wait = "test"]
    <3>1. user'.wait = "test"
      BY <1>0, <2>1 DEF UserType
    <3> QED BY <3>1 DEF DownWoken
  <2>2. CASE user' # [user EXCEPT !.wait = "test"]
    <3>1. /\ user' = [user EXCEPT !.wait = "A_ERROR"] /\ user.wait = "event"
          /\ Cur.userWake # "woken"
          /\ task.at \in {"none", "suspended"} \/ user.at \in {"ready", "pend"}
      BY <1>0, <1>5, <2>2 DEF WaitEvent
    <3>2. user'.at = user.at
      BY <1>0, <3>1 DEF UserType
    <3>3. CASE user.at = "down"
      <4>1. Cur.driver_up /\ task.at \in {"none", "suspended"}
        BY <3>1, <3>3 DEF DownWoken
      <4> QED BY <1>0, <3>3, <4>1 DEF Base, TaskInv, Cur, Serves
    <3> QED BY <1>1, <3>2, <3>3
  <2> QED BY <2>1, <2>2
<1>6. CASE Api_InitFinish \/ Api_WMIInitFinish \/ wmi_cmd_process
  BY <1>1, <1>6, OpeningGoesOn
<1>7. CASE Api_DeInitFinish \/ socket_context_deinit \/ ShutdownEnds
  <2>1. CASE ShutdownEnds
    BY <1>1, <2>1 DEF ShutdownEnds, NoUser
  <2>2. CASE ~ShutdownEnds
    <3>1. \E place \in {"sock", "sockread", "free"} :
            \/ user' = [user EXCEPT !.at = place, !.wait = "none"]
            \/ user' = [user EXCEPT !.at = place]
      BY <1>7, <2>2 DEF Api_DeInitFinish, socket_context_deinit
    <3>2. user'.at \in {"sock", "sockread", "free"}
      BY <1>0, <3>1 DEF UserType
    <3> QED BY <1>1, <3>2
  <2> QED BY <2>1, <2>2
<1>8. CASE Driver_Init \/ DriverInitEnds
  <2>1. UNCHANGED user /\ user.at = "ready"
    BY <1>0, <1>8 DEF Driver_Init, DriverInitEnds, Starts
  <2> QED BY <1>1, <2>1
<1>9. CASE Driver_Main
  <2>1. UNCHANGED <<user, MAC_CONTEXT_PTR>> /\ task.at = "wait"
    BY <1>9 DEF Driver_Main
  <2>2. MAC_CONTEXT_PTR = task.cxt /\ task.cxt \in Sessions
    BY <1>0, <2>1 DEF TaskRuns
  <2>3. cxt[task.cxt].driver_up /\ cxt'[task.cxt].driver_up
    BY <1>9, <2>1, <2>2, MainLoop DEF Base, TaskInv, Serves
  <2> QED BY <2>1, <2>2, <2>3 DEF DownWoken, Cur
<1>10. CASE \/ DriverShutsDown \/ TargetReady \/ TargetCredit \/ Receive
            \/ RecallWakes \/ RecallSleeps
  <2>1. UNCHANGED <<user, MAC_CONTEXT_PTR>>
    BY <1>10 DEF DriverShutsDown, TargetReady, TargetCredit, Receive,
       RecallWakes, RecallSleeps
  <2>2. \A n \in Sessions : /\ cxt'[n].driver_up = cxt[n].driver_up
                            /\ cxt'[n].userWake = cxt[n].userWake
    <3>1. CASE DriverShutsDown \/ TargetReady \/ TargetCredit
      BY <3>1, ShutsDown, DriverWoken
         DEF TargetReady, TargetCredit, LikeBefore, Alike, WakesSame
    <3>2. CASE Receive
      BY <3>2, PacketsMove
    <3>3. CASE RecallWakes \/ RecallSleeps
      BY <3>3 DEF RecallWakes, RecallSleeps
    <3> QED BY <1>10, <3>1, <3>2, <3>3
  <2> QED BY <1>0, <2>1, <2>2 DEF DownWoken, Cur
<1>11. CASE Driver_DeInit
  <2>1. UNCHANGED <<user, MAC_CONTEXT_PTR>> /\ task.at = "powerdown"
    BY <1>11 DEF Driver_DeInit
  <2>2. MAC_CONTEXT_PTR = task.cxt
    BY <1>0, <2>1 DEF TaskRuns
  <2>3. cxt'[task.cxt].userWake = "woken"
    BY <1>11, DriverDeInits DEF WellClosed
  <2> QED BY <2>1, <2>2, <2>3 DEF DownWoken, Cur
<1> QED
  BY <1>2, <1>3, <1>4, <1>5, <1>6, <1>7, <1>8, <1>9, <1>10, <1>11
     DEF Next, UserStep, DriverStep
LEMMA RxKept ==
  ASSUME RxClean, UNCHANGED <<MAC_CONTEXT_PTR, Happens>>,
         LikeBefore \/ \A n \in Sessions :
                         /\ cxt'[n].rxfree = cxt[n].rxfree
                         /\ cxt'[n].rxheld = cxt[n].rxheld,
         user'.at \in {"sock", "sockread", "free"} => Leaving
  PROVE  RxClean'
BY DEF RxClean, Leaving, LikeBefore, Alike

\* The receive buffers are there from the open to the shutdown.
LEMMA RxStep ==
  ASSUME Base, LiveInv, OpenInv, WellClosed, DownWoken, RxClean, Next
  PROVE  RxClean'
<1>0. /\ user \in UserType /\ UNCHANGED Happens
      /\ {"nocommon", "notemp", "nosock"} \cap Happens = {}
      /\ p_Global_Cxt = MAC_CONTEXT_PTR
      /\ user.at # "idle" => MAC_CONTEXT_PTR \in Sessions
  <2>1. user.at # "idle" => MAC_CONTEXT_PTR \in Sessions
    BY PointerIsSession DEF Base, PlaceInv
  <2> QED BY <2>1, ClosedWell, SettingKept DEF Base, TypeInv, UserType
<1>1. CASE "data" \in Happens
  BY <1>0, <1>1 DEF RxClean
<1> SUFFICES ASSUME "data" \notin Happens PROVE RxClean'
  BY <1>1
<1>2. \A n \in Sessions :
        /\ cxt[n].rxheld = 0
        /\ cxt[n].rxfree # 0 => n = MAC_CONTEXT_PTR /\ ~Leaving
  BY DEF RxClean
<1>3. CASE Custom_Api_Initialize
  <2> DEFINE n == opens + 1
  <2>1. /\ opens < MaxOpens /\ cxt' = ContextInit(n)
        /\ MAC_CONTEXT_PTR' = n /\ MAC_CONTEXT_PTR = 0
        /\ user' = [NoUser EXCEPT !.at = "ready", !.wait = "test"]
    BY <1>0, <1>3 DEF Custom_Api_Initialize, SecondDevice
  <2>2. user'.at = "ready"
    BY <2>1 DEF NoUser
  <2>3. /\ cxt'[n] = Fresh(n)
        /\ \A m \in Sessions \ {n} : cxt'[m] = cxt[m]
    BY <2>1, NewContext
  <2>4. Fresh(n).rxheld = 0
    BY FreshIs
  <2>5. \A m \in Sessions : cxt[m].rxfree = 0
    BY <1>2, <2>1 DEF Sessions
  <2> HIDE DEF n
  <2> QED BY <1>2, <2>1, <2>2, <2>3, <2>4, <2>5 DEF RxClean, Leaving
<1>4. CASE InitializeNoMemory
  <2>1. /\ UNCHANGED <<cxt, MAC_CONTEXT_PTR>>
        /\ user' = [user EXCEPT !.status = "ENET_ERROR"]
    BY <1>0, <1>4 DEF InitializeNoMemory
  <2>2. user'.at = user.at
    BY <1>0, <2>1 DEF UserType
  <2> QED BY <1>0, <2>1, <2>2, RxKept DEF Leaving
<1>5. CASE Custom_Api_Shutdown
  <2>1. UNCHANGED MAC_CONTEXT_PTR /\ user'.at = "down"
    BY <1>5 DEF Custom_Api_Shutdown, NoUser
  <2> QED BY <1>0, <1>5, <2>1, ShutdownBegins, RxKept
<1>6. CASE WaitTest \/ WaitEvent
  <2>1. /\ UNCHANGED MAC_CONTEXT_PTR
        /\ \E w \in Waits : user' = [user EXCEPT !.wait = w]
    BY <1>6 DEF WaitTest, WaitEvent, Waits
  <2>2. user'.at = user.at
    BY <1>0, <2>1 DEF UserType
  <2>3. UNCHANGED cxt \/ LikeBefore
    BY <1>6, EventComes DEF WaitTest
  <2> QED BY <1>0, <2>1, <2>2, <2>3, RxKept DEF Leaving
<1>7. CASE Api_InitFinish \/ Api_WMIInitFinish \/ wmi_cmd_process
  <2>1. UNCHANGED MAC_CONTEXT_PTR
    BY <1>7 DEF Api_InitFinish, InitializeFails, Api_WMIInitFinish,
       wmi_cmd_process
  <2>2. UNCHANGED cxt \/ LikeBefore
    BY <1>7, CommandQueued, CommandWaits DEF Api_InitFinish, InitializeFails
  <2> QED BY <1>0, <1>7, <2>1, <2>2, OpeningGoesOn, RxKept
<1>8. CASE Api_DeInitFinish
  <2>1. /\ user.at = "down" /\ user.wait = "A_OK" /\ UNCHANGED MAC_CONTEXT_PTR
        /\ cxt' = [cxt EXCEPT ![MAC_CONTEXT_PTR] =
                     Driver_ContextDeInit(@, MAC_CONTEXT_PTR)]
    BY <1>8 DEF Api_DeInitFinish, UserAt, DownWoken
  <2>2. MAC_CONTEXT_PTR \in Sessions /\ Cur \in Context
    BY <1>0, <2>1 DEF Base, TypeInv, Cur
  <2>3. /\ cxt'[MAC_CONTEXT_PTR] = [Cur EXCEPT !.rxfree = 0,
                                               !.unlocked = Unlocked]
        /\ \A n \in Sessions \ {MAC_CONTEXT_PTR} : cxt'[n] = cxt[n]
    BY <2>1, <2>2 DEF Driver_ContextDeInit, Unlocked, Cur, Base, TypeInv
  <2>4. /\ cxt'[MAC_CONTEXT_PTR].rxfree = 0
        /\ cxt'[MAC_CONTEXT_PTR].rxheld = Cur.rxheld
    BY <2>2, <2>3 DEF Context
  <2>5. \A n \in Sessions : cxt'[n].rxfree = 0 /\ cxt'[n].rxheld = 0
    BY <1>2, <2>2, <2>3, <2>4 DEF Cur
  <2> QED BY <2>5 DEF RxClean
<1>9. CASE socket_context_deinit
  BY <1>0, <1>9, RxKept DEF socket_context_deinit, Leaving
<1>10. CASE ShutdownEnds
  <2>1. UNCHANGED cxt /\ Leaving
    BY <1>10 DEF ShutdownEnds, UserAt, Leaving
  <2> QED BY <1>2, <2>1 DEF RxClean
<1>11. CASE DriverStep \/ TargetReady \/ TargetCredit \/ RecallSleeps
  <2>1. UNCHANGED <<user, MAC_CONTEXT_PTR>>
    BY <1>11 DEF DriverStep, Driver_Init, DriverInitEnds, Driver_Main,
       DriverShutsDown, Driver_DeInit, RecallWakes, TargetReady,
       TargetCredit, RecallSleeps
  <2>2. \/ LikeBefore \/ UNCHANGED cxt
        \/ \A n \in Sessions : /\ cxt'[n].rxfree = cxt[n].rxfree
                               /\ cxt'[n].rxheld = cxt[n].rxheld
    <3>1. CASE \/ Driver_Init \/ DriverShutsDown \/ TargetReady
               \/ TargetCredit
      BY <3>1, DriverInits, ShutsDown, DriverWoken
         DEF TargetReady, TargetCredit
    <3>2. CASE DriverInitEnds
      BY <3>2, DriverIsUp
    <3>3. CASE Driver_Main
      BY <3>3, MainLoop
    <3>4. CASE Driver_DeInit
      BY <3>4, DriverDeInits
    <3>5. CASE RecallWakes \/ RecallSleeps
      BY <3>5 DEF RecallWakes, RecallSleeps
    <3> QED BY <1>11, <3>1, <3>2, <3>3, <3>4, <3>5 DEF DriverStep
  <2> QED BY <1>0, <2>1, <2>2, RxKept DEF Leaving
<1>12. CASE Receive
  BY <1>12 DEF Receive
<1>13. CASE AppFrees
  <2>1. Cur.rxheld > 0 /\ MAC_CONTEXT_PTR # 0
    BY <1>13 DEF AppFrees
  <2>2. MAC_CONTEXT_PTR \in Sessions
    BY <2>1, PointerIsSession DEF Base
  <2> QED BY <1>2, <2>1, <2>2 DEF Cur
<1> QED
  BY <1>3, <1>4, <1>5, <1>6, <1>7, <1>8, <1>9, <1>10, <1>11, <1>12, <1>13
     DEF Next, UserStep

LEMMA CleanStep ==
  ASSUME Base, LiveInv, OpenInv, SessionInv, CleanInv, Next
  PROVE  CleanInv'
<1>1. WellClosed' = WellClosed
  BY SettingKept DEF WellClosed, OpensSucceed, Prompt
<1>2. CASE WellClosed
  <2>1. HeapClean /\ DownWoken /\ RxClean
    BY <1>2, CleanParts
  <2>2. HeapClean' /\ DownWoken' /\ RxClean'
    BY <1>2, <2>1, QueuedStay, HeapStep, DownStep, RxStep
  <2> QED BY <2>2 DEF CleanInv, HeapClean, DownWoken, RxClean
<1> QED BY <1>1, <1>2 DEF CleanInv, WellClosed

-----------------------------------------------------------------------------
\* The commands stay where they are, or go from the queue to the target.
LEMMA AllKept ==
  ASSUME Base, target.up, UNCHANGED <<target.sent, task.cxt>>,
         UNCHANGED cxt \/ QueuesSame
  PROVE  All' = All
<1>1. task.cxt \in Sessions
  BY TaskIsSession DEF Base, TaskInv, Serves
<1> QED BY <1>1 DEF All, QueuesSame

\* A step that is not the user's and neither starts nor ends the driver.
LEMMA QuietStep ==
  ASSUME Base,
         \/ Driver_Init \/ Driver_Main \/ RecallWakes \/ RecallSleeps
         \/ TargetReady \/ TargetCredit \/ Receive \/ AppFrees
  PROVE  /\ UNCHANGED <<user, MAC_CONTEXT_PTR, task.cxt, target.up>>
         /\ target.up => All' = All
         /\ Starts' => Starts
<1>0. task \in TaskType /\ target \in TargetType
  BY DEF Base, TypeInv, TaskType, TargetType
<1>1. UNCHANGED <<user, MAC_CONTEXT_PTR>>
  BY DEF Driver_Init, Driver_Main, RecallWakes, RecallSleeps, TargetReady,
     TargetCredit, Receive, AppFrees
<1>2. /\ UNCHANGED task.cxt
      /\ Starts' => Starts
  <2>1. CASE UNCHANGED task
    BY <2>1 DEF Starts
  <2>2. CASE \/ task.at = "start" /\ task' = [task EXCEPT !.at = "powerup"]
             \/ task' = [task EXCEPT !.at = "wait"]
             \/ task' = [task EXCEPT !.at = "recall"]
    BY <1>0, <2>2 DEF Starts, TaskType
  <2> QED BY <2>1, <2>2 DEF Driver_Init, Driver_Main, RecallWakes,
             RecallSleeps, TargetReady, TargetCredit, Receive, AppFrees
<1>3. CASE Driver_Main
  BY <1>1, <1>2, <1>3, MainLoop
<1>4. CASE ~Driver_Main
  <2>1. UNCHANGED <<target.up, target.sent>>
    <3>1. \/ UNCHANGED target
          \/ target' = [target EXCEPT !.ready = TRUE]
          \/ target' = [target EXCEPT !.slept = TRUE]
      BY <1>4 DEF Driver_Init, RecallWakes, RecallSleeps, TargetReady,
         TargetCredit, Receive, AppFrees
    <3> QED BY <1>0, <3>1 DEF TargetType
  <2>2. UNCHANGED cxt \/ QueuesSame
    <3>1. CASE TargetReady \/ TargetCredit
      BY <3>1, DriverWoken DEF TargetReady, TargetCredit
    <3>2. CASE Driver_Init \/ Receive \/ AppFrees
      BY <3>2, DriverInits, PacketReceived, PacketFreed
    <3>3. CASE RecallWakes \/ RecallSleeps
      BY <3>3 DEF RecallWakes, RecallSleeps
    <3> QED BY <1>4, <3>1, <3>2, <3>3
  <2> QED BY <1>1, <1>2, <2>1, <2>2, AllKept
<1> QED BY <1>3, <1>4

\* The driver comes up with nothing queued, or is down.
LEMMA UpOrDown ==
  ASSUME Base, DriverInitEnds \/ DriverShutsDown \/ Driver_DeInit
  PROVE  /\ UNCHANGED <<user, MAC_CONTEXT_PTR>> /\ ~Starts'
         /\ \/ ~target'.up
            \/ /\ Starts /\ target'.up /\ UNCHANGED task.cxt
               /\ All' = <<>> /\ ~cxt[task.cxt].wmiReady
<1>0. /\ task \in TaskType /\ target \in TargetType
      /\ target.up => Serves
  BY DEF Base, TypeInv, TaskType, TargetType, TaskInv
<1>1. UNCHANGED <<user, MAC_CONTEXT_PTR>>
  BY DEF DriverInitEnds, DriverShutsDown, Driver_DeInit
<1>2. CASE TaskEnds /\ UNCHANGED target
           /\ (DriverInitEnds \/ Driver_DeInit)
  <2>1. ~Starts'
    BY <1>0, <1>2 DEF TaskEnds, TaskType, Starts
  <2>2. ~Serves
    BY <1>2 DEF DriverInitEnds, Driver_DeInit, Serves
  <2>3. ~target'.up
    BY <1>0, <1>2, <2>2
  <2> QED BY <1>1, <2>1, <2>3
<1>3. CASE DriverShutsDown
  <2>1. /\ task' = [task EXCEPT !.at = "powerdown"]
        /\ target' = [target EXCEPT !.up = FALSE]
    BY <1>3 DEF DriverShutsDown
  <2> QED BY <1>0, <1>1, <2>1 DEF TaskType, TargetType, Starts
<1>4. CASE DriverInitEnds /\ UNCHANGED cxt
  <2>1. (TaskEnds /\ UNCHANGED target) \/ cxt[task.cxt].driver_up
    <3>1. task.cxt \in Sessions /\ cxt[task.cxt] \in Context
      BY <1>4, TaskIsSession DEF DriverInitEnds
    <3>2. SetupServices(cxt[task.cxt]) \in Context
      BY <3>1, ServicesConnected
    <3> DEFINE s == SetupServices(cxt[task.cxt])
               d == [s EXCEPT !.chipDown = FALSE, !.driver_up = TRUE]
    <3>3. d.driver_up
      BY <3>2 DEF Context
    <3>4. CASE cxt' = [cxt EXCEPT ![task.cxt] = d]
      <4> HIDE DEF d
      <4> QED BY <1>4, <3>1, <3>3, <3>4 DEF Base, TypeInv
    <3> QED BY <1>4, <3>4 DEF DriverInitEnds
  <2>2. ~cxt[task.cxt].driver_up
    <3>1. task.cxt \in Sessions /\ task.at = "powerup"
      BY <1>4, TaskIsSession DEF DriverInitEnds
    <3> QED BY <3>1 DEF Base, TaskInv, Serves
  <2> QED BY <1>2, <1>4, <2>1, <2>2
<1>5. CASE DriverInitEnds /\ ~UNCHANGED cxt
  <2>1. /\ QueuesSame /\ task' = [task EXCEPT !.at = "wait"]
        /\ target' = [target EXCEPT !.up = TRUE]
    BY <1>5, DriverIsUp
  <2>2. /\ task'.at = "wait" /\ task'.cxt = task.cxt
        /\ target'.up /\ target'.sent = target.sent
    BY <1>0, <2>1 DEF TaskType, TargetType
  <2>3. Starts /\ task.cxt \in Sessions
    BY <1>5, TaskIsSession DEF DriverInitEnds, Starts
  <2>4. /\ ~cxt[task.cxt].wmiReady /\ cxt[task.cxt].txq = <<>>
        /\ target.sent = <<>>
    BY <2>3 DEF Base, TaskInv
  <2>5. All' = <<>>
    BY <2>1, <2>2, <2>3, <2>4 DEF All, QueuesSame
  <2>6. ~Starts'
    BY <2>2 DEF Starts
  <2> QED BY <1>1, <2>2, <2>3, <2>4, <2>5, <2>6
<1> QED BY <1>2, <1>3, <1>4, <1>5 DEF Driver_DeInit

\* The default commands in the order of the code.
LEMMA DefaultsAre ==
  /\ Defaults \in Seq(Commands) /\ Len(Defaults) = 5
  /\ \A k \in 1 .. 5 : Defaults[k] \in Commands /\ Rank(Defaults[k]) = k
  /\ \A k \in 1 .. 5 :
       SubSeq(Defaults, 1, k) = Append(SubSeq(Defaults, 1, k - 1), Defaults[k])
  /\ SubSeq(Defaults, 1, 0) = <<>> /\ SubSeq(Defaults, 1, 5) = Defaults
<1>1. Len(Defaults) = 5 /\ Defaults \in Seq(Commands)
  <2>1. /\ Len(Defaults) = 5 /\ DOMAIN Defaults = 1 .. 5
        /\ Defaults = [k \in 1 .. 5 |-> Defaults[k]]
    BY DEF Defaults
  <2>2. \A k \in 1 .. 5 : Defaults[k] \in Commands
    BY DEF Commands
  <2> HIDE DEF Defaults
  <2> QED BY <2>1, <2>2
<1>2. \A i, j \in 1 .. 5 : Defaults[i] = Defaults[j] => i = j
  BY DEF Defaults
<1>3. \A k \in 1 .. 5 : Defaults[k] \in Commands
  BY DEF Commands
<1> HIDE DEF Defaults
<1>4. \A k \in 1 .. 5 : Rank(Defaults[k]) = k
  BY <1>1, <1>2 DEF Rank
<1>5. SubSeq(Defaults, 1, 5) = Defaults /\ SubSeq(Defaults, 1, 0) = <<>>
  BY <1>1, SubSeqFull, SubSeqEmpty
<1>6. ASSUME NEW k \in 1 .. 5
      PROVE  SubSeq(Defaults, 1, k)
               = Append(SubSeq(Defaults, 1, k - 1), Defaults[k])
  <2> DEFINE s == SubSeq(Defaults, 1, k - 1)
  <2>1. SubSeq(Defaults, 1, k) = s \o <<Defaults[k]>>
    BY <1>1, SubSeqRecursiveSecond
  <2>2. s \in Seq(Commands)
    BY <1>1, <1>3, SubSeqProperties
  <2>3. Append(s, Defaults[k]) = s \o <<Defaults[k]>>
    BY <1>3, <2>2, AppendIsConcat
  <2> QED BY <2>1, <2>3
<1> QED BY <1>1, <1>3, <1>4, <1>5, <1>6

LEMMA AllIsSeq ==
  ASSUME Base, target.up
  PROVE  /\ task.cxt \in Sessions /\ ~Starts
         /\ cxt[task.cxt].txq \in Seq(Commands) /\ All \in Seq(Commands)
<1>1. task.cxt \in Sessions /\ cxt[task.cxt] \in Context /\ ~Starts
  BY TaskIsSession DEF Base, TaskInv, Serves, Starts
<1>2. cxt[task.cxt].txq \in Seq(Commands) /\ target.sent \in Seq(Commands)
  BY <1>1 DEF Context, Base, TypeInv
<1> QED BY <1>1, <1>2, ConcatProperties DEF All

LEMMA AppendToConcat ==
  ASSUME NEW S, NEW s \in Seq(S), NEW q \in Seq(S), NEW d \in S
  PROVE  s \o Append(q, d) = Append(s \o q, d)
<1>1. s \o q \in Seq(S) /\ <<d>> \in Seq(S)
  BY ConcatProperties
<1>2. Append(q, d) = q \o <<d>> /\ Append(s \o q, d) = (s \o q) \o <<d>>
  BY <1>1, AppendIsConcat
<1>3. (s \o q) \o <<d>> = s \o (q \o <<d>>)
  BY <1>1
<1> QED BY <1>2, <1>3

\* A command that is queued comes after all the others.
LEMMA QueuedLast ==
  ASSUME Base, Api_WMIInitFinish, target.up, ~UNCHANGED cxt
  PROVE  All' = IF MAC_CONTEXT_PTR = task.cxt
                THEN Append(All, Defaults[user.cmd]) ELSE All
<1>1. /\ task.cxt \in Sessions
      /\ cxt[task.cxt].txq \in Seq(Commands) /\ target.sent \in Seq(Commands)
  BY AllIsSeq DEF Base, TypeInv
<1>2. user.cmd \in 1 .. 5
  BY DEF Api_WMIInitFinish, UserAt, Base, PlaceInv, TypeInv
<1>3. UNCHANGED <<task, target>>
  BY DEF Api_WMIInitFinish
<1>4. /\ cxt'[MAC_CONTEXT_PTR].txq = Append(Cur.txq, Defaults[user.cmd])
      /\ \A n \in Sessions \ {MAC_CONTEXT_PTR} : cxt'[n] = cxt[n]
  BY CommandQueued
<1>5. CASE MAC_CONTEXT_PTR # task.cxt
  BY <1>1, <1>3, <1>4, <1>5 DEF All
<1>6. CASE MAC_CONTEXT_PTR = task.cxt
  <2> DEFINE q == cxt[task.cxt].txq
             d == Defaults[user.cmd]
  <2>1. d \in Commands
    BY <1>2, DefaultsAre
  <2>2. All' = target.sent \o Append(q, d) /\ All = target.sent \o q
    BY <1>3, <1>4, <1>6 DEF All, Cur
  <2> HIDE DEF d, q
  <2>3. target.sent \o Append(q, d) = Append(target.sent \o q, d)
    <3>1. q \in Seq(Commands) /\ target.sent \in Seq(Commands)
      BY <1>1 DEF q
    <3>2. ASSUME NEW s \in Seq(Commands), NEW u \in Seq(Commands),
                 NEW e \in Commands
          PROVE  s \o Append(u, e) = Append(s \o u, e)
      BY AppendToConcat
    <3>3. ASSUME NEW u \in Seq(Commands), NEW e \in Commands
          PROVE  target.sent \o Append(u, e) = Append(target.sent \o u, e)
      BY <3>1, <3>2
    <3> QED BY <2>1, <3>1, <3>3, Zenon
  <2> QED BY <1>6, <2>2, <2>3 DEF d
<1> QED BY <1>5, <1>6

LEMMA CommandGoes ==
  ASSUME Base, Api_WMIInitFinish,
         cxt' = [cxt EXCEPT ![MAC_CONTEXT_PTR] =
                   Driver_SubmitTxRequest(@, Defaults[user.cmd])]
  PROVE  ~UNCHANGED cxt
<1> DEFINE d == [Cur EXCEPT !.txq = Append(@, Defaults[user.cmd])]
<1>1. /\ user.cmd \in 1 .. 5
      /\ MAC_CONTEXT_PTR \in Sessions /\ Cur \in Context
  BY PointerIsSession
     DEF Api_WMIInitFinish, UserAt, Base, PlaceInv, TypeInv
<1>2. Defaults[user.cmd] \in Commands /\ Cur.txq \in Seq(Commands)
  BY <1>1, DefaultsAre DEF Context
<1>3. /\ Append(Cur.txq, Defaults[user.cmd]) \in Seq(Commands)
      /\ Len(Append(Cur.txq, Defaults[user.cmd])) = Len(Cur.txq) + 1
      /\ Len(Cur.txq) \in Nat
  BY <1>2, AppendProperties
<1>4. d \in Context /\ d.txq = Append(Cur.txq, Defaults[user.cmd])
  BY <1>1, <1>3 DEF Context
<1>5. cxt'[MAC_CONTEXT_PTR] = Driver_WakeDriver(d)
  BY <1>1 DEF Base, TypeInv, Cur, Driver_SubmitTxRequest
<1> HIDE DEF d
<1>6. cxt'[MAC_CONTEXT_PTR].txq # Cur.txq
  BY <1>3, <1>4, <1>5, WakeDriver
<1> QED BY <1>6 DEF Cur

\* The user leaves the driver task and the target alone, and what is queued.
LEMMA UserQuiet ==
  ASSUME Base, UserStep \/ Custom_Api_Shutdown
  PROVE  /\ UNCHANGED <<task, target>>
         /\ target.up /\ ~(Api_WMIInitFinish /\ ~UNCHANGED cxt)
              => All' = All
<1>1. UNCHANGED <<task, target>>
  BY DEF UserStep, WaitTest, WaitEvent, Api_InitFinish, InitializeFails,
     Api_WMIInitFinish, wmi_cmd_process, Api_DeInitFinish,
     socket_context_deinit, ShutdownEnds, Custom_Api_Shutdown
<1>2. ~(Api_WMIInitFinish /\ ~UNCHANGED cxt) => UNCHANGED cxt \/ QueuesSame
  <2>1. CASE WaitEvent \/ wmi_cmd_process \/ Api_DeInitFinish
             \/ Custom_Api_Shutdown
    BY <2>1, EventComes, CommandWaits, BuffersFreed, ShutdownBegins
  <2>2. CASE WaitTest \/ Api_InitFinish \/ socket_context_deinit
             \/ ShutdownEnds
    BY <2>2 DEF WaitTest, Api_InitFinish, InitializeFails,
       socket_context_deinit, ShutdownEnds
  <2> QED BY <2>1, <2>2 DEF UserStep
<1> QED BY <1>1, <1>2, AllKept

Sending == OpensSucceed /\ "nocmd" \notin Happens

SentFor(at, status, all) ==
  /\ at = "ready" => all = <<>>
  /\ at = "cmd" => all = SubSeq(Defaults, 1, user.cmd - 1)
  /\ at = "idle" /\ status = "ENET_OK" => all = Defaults

ConfigParts ==
  /\ Starts => /\ user.at = "ready" /\ MAC_CONTEXT_PTR = task.cxt
               /\ user.wait # "A_ERROR"
  /\ user.at \notin {"nomem", "pend", "assert"}
  /\ target.up /\ MAC_CONTEXT_PTR # 0 =>
       MAC_CONTEXT_PTR = task.cxt /\ SentFor(user.at, user.status, All)

LEMMA ConfigIs == ConfigInv <=> (Sending => ConfigParts)
BY DEF ConfigInv, Sending, ConfigParts, SentFor

\* A step of the user that queues nothing.
LEMMA ConfigKept ==
  ASSUME Base, ConfigParts, UNCHANGED <<MAC_CONTEXT_PTR, task, target>>,
         target.up => All' = All,
         user' \in UserType, user'.at \notin {"nomem", "pend", "assert"},
         Starts => user'.at = "ready" /\ user'.wait # "A_ERROR",
         user'.at \in {"ready", "cmd"} => /\ user'.at = user.at
                                          /\ user'.cmd = user.cmd,
         user'.at = "idle" /\ user'.status = "ENET_OK"
           => user.at = "idle" /\ user.status = "ENET_OK"
  PROVE  ConfigParts'
<1>1. UNCHANGED <<Starts, target.up, task.cxt>>
  BY DEF Starts
<1>2. CASE ~(target.up /\ MAC_CONTEXT_PTR # 0)
  BY <1>1, <1>2 DEF ConfigParts
<1>3. CASE target.up /\ MAC_CONTEXT_PTR # 0
  <2>1. /\ MAC_CONTEXT_PTR = task.cxt /\ SentFor(user.at, user.status, All)
        /\ All' = All
    BY <1>3 DEF ConfigParts
  <2>2. SentFor(user.at, user.status, All)'
    BY <2>1 DEF SentFor
  <2> QED BY <1>1, <2>1, <2>2 DEF ConfigParts
<1> QED BY <1>2, <1>3

LEMMA ConfigUser ==
  ASSUME Base, OpenInv, Sending, ConfigParts, UserStep
  PROVE  ConfigParts'
<1>0. /\ user \in UserType
      /\ UNCHANGED <<task, target>>
      /\ target.up /\ ~(Api_WMIInitFinish /\ ~UNCHANGED cxt) => All' = All
      /\ Starts => /\ user.at = "ready" /\ MAC_CONTEXT_PTR = task.cxt
                   /\ user.wait # "A_ERROR"
                   /\ ~cxt[task.cxt].wmiReady
      /\ user.at \notin {"nomem", "pend", "assert"}
      /\ "slow" \notin Happens /\ "mute" \notin Happens
      /\ "abi" \notin Happens /\ "nocmd" \notin Happens
  <2>1. Starts => ~cxt[task.cxt].wmiReady
    BY DEF Base, TaskInv
  <2> QED BY <2>1, UserQuiet DEF Base, TypeInv, UserType, ConfigParts, Sending,
             OpensSucceed
<1>u. user' \in UserType
  BY UserStepTyped DEF Next
<1>1. CASE WaitTest
  <2>1. \E w \in Waits \ {"A_ERROR"} : user' = [user EXCEPT !.wait = w]
    BY <1>1 DEF WaitTest, Waits
  <2>2. /\ user'.at = user.at /\ user'.cmd = user.cmd
        /\ user'.status = user.status /\ user'.wait # "A_ERROR"
    BY <1>0, <2>1 DEF UserType
  <2>3. UNCHANGED MAC_CONTEXT_PTR /\ ~Api_WMIInitFinish
    BY <1>1 DEF WaitTest, Api_WMIInitFinish, UserAt
  <2> QED BY <1>0, <1>u, <2>2, <2>3, ConfigKept
<1>2. CASE WaitEvent
  <2>1. \/ user' = [user EXCEPT !.wait = "test"]
        \/ /\ user' = [user EXCEPT !.wait = "A_ERROR"]
           /\ task.at \in {"none", "suspended", "recall", "wait"}
    BY <1>0, <1>2 DEF WaitEvent
  <2>2. task.at \in {"none", "suspended", "recall", "wait"} => ~Starts
    BY DEF Starts
  <2>3. /\ user'.at = user.at /\ user'.cmd = user.cmd
        /\ user'.status = user.status
        /\ Starts => user'.wait # "A_ERROR"
    BY <1>0, <2>1, <2>2 DEF UserType
  <2>4. UNCHANGED MAC_CONTEXT_PTR /\ user.wait = "event"
    BY <1>2 DEF WaitEvent
  <2>5. ~Api_WMIInitFinish
    BY <2>4 DEF Api_WMIInitFinish, UserAt, Base, PlaceInv, Waits
  <2> QED BY <1>0, <1>u, <2>3, <2>4, <2>5, ConfigKept
<1>3. CASE Api_InitFinish
  <2>1. /\ UNCHANGED MAC_CONTEXT_PTR /\ user.at = "ready"
        /\ ~Api_WMIInitFinish
    BY <1>3 DEF Api_InitFinish, InitializeFails, Api_WMIInitFinish, UserAt
  <2>2. ~Starts
    <3>1. user.wait \in {"A_OK", "A_ERROR"}
      BY <1>3 DEF Api_InitFinish
    <3> QED BY <1>0, <2>1, <3>1 DEF Base, PlaceInv, Cur
  <2>3. CASE user' = [NoUser EXCEPT !.status = "ENET_ERROR"]
    <3>1. user'.at = "idle" /\ user'.status = "ENET_ERROR"
      BY <2>3 DEF NoUser
    <3> QED BY <1>0, <1>u, <2>1, <2>2, <3>1, ConfigKept
  <2>4. CASE user' = [user EXCEPT !.at = "cmd", !.wait = "none", !.cmd = 1]
    <3>1. user'.at = "cmd" /\ user'.cmd = 1
      BY <1>0, <2>4 DEF UserType
    <3>2. UNCHANGED <<Starts, target.up, task.cxt>>
      BY <1>0 DEF Starts
    <3>3. target.up /\ MAC_CONTEXT_PTR # 0
            => /\ MAC_CONTEXT_PTR = task.cxt /\ All' = <<>>
      BY <1>0, <2>1 DEF ConfigParts, SentFor
    <3>4. SubSeq(Defaults, 1, 1 - 1) = <<>>
      BY DefaultsAre
    <3> QED BY <2>1, <2>2, <3>1, <3>2, <3>3, <3>4 DEF ConfigParts, SentFor
  <2> QED BY <1>3, <2>3, <2>4 DEF Api_InitFinish, InitializeFails
<1>4. CASE Api_WMIInitFinish
  <2>1. /\ UNCHANGED MAC_CONTEXT_PTR /\ user.at = "cmd" /\ user.cmd \in 1 .. 5
        /\ ~Starts /\ MAC_CONTEXT_PTR # 0
    BY <1>0, <1>4 DEF Api_WMIInitFinish, UserAt, UserType, Base, PlaceInv
  <2>3. ~UNCHANGED cxt
    BY <1>0, <1>4, CommandGoes DEF Api_WMIInitFinish
  <2>4. UNCHANGED <<Starts, target.up, task.cxt>>
    BY <1>0 DEF Starts
  <2>5. target.up => /\ MAC_CONTEXT_PTR = task.cxt
                     /\ All' = SubSeq(Defaults, 1, user.cmd)
    <3>1. target.up => /\ MAC_CONTEXT_PTR = task.cxt
                       /\ All = SubSeq(Defaults, 1, user.cmd - 1)
                       /\ All' = Append(All, Defaults[user.cmd])
      BY <1>4, <2>1, <2>3, QueuedLast DEF ConfigParts, SentFor
    <3> QED BY <2>1, <3>1, DefaultsAre
  <2>6. CASE user.cmd = 5
    <3>1. user' = NoUser
      BY <1>0, <1>4, <2>6 DEF Api_WMIInitFinish, Defaults
    <3>2. user'.at = "idle"
      BY <3>1 DEF NoUser
    <3>3. target.up => All' = Defaults
      BY <2>5, <2>6, DefaultsAre
    <3> QED BY <2>1, <2>4, <2>5, <3>2, <3>3 DEF ConfigParts, SentFor
  <2>7. CASE user.cmd # 5
    <3>1. user' = [user EXCEPT !.cmd = @ + 1]
      BY <1>0, <1>4, <2>7, DefaultsAre DEF Api_WMIInitFinish
    <3>2. user'.at = "cmd" /\ user'.cmd = user.cmd + 1
      BY <1>0, <2>1, <3>1 DEF UserType
    <3>3. user'.cmd - 1 = user.cmd
      BY <2>1, <3>2
    <3> QED BY <2>1, <2>4, <2>5, <3>2, <3>3 DEF ConfigParts, SentFor
  <2> QED BY <2>6, <2>7
<1>5. CASE wmi_cmd_process
  BY <1>0, <1>5 DEF wmi_cmd_process
<1>6. CASE Api_DeInitFinish \/ socket_context_deinit
  <2>1. /\ UNCHANGED MAC_CONTEXT_PTR
        /\ user.at \in {"down", "sock", "sockread"}
        /\ \E place \in {"sock", "sockread", "free"} :
             \/ user' = [user EXCEPT !.at = place, !.wait = "none"]
             \/ user' = [user EXCEPT !.at = place]
    BY <1>6 DEF Api_DeInitFinish, socket_context_deinit, UserAt
  <2>2. user'.at \in {"sock", "sockread", "free"}
    BY <1>0, <2>1 DEF UserType
  <2>3. ~Api_WMIInitFinish /\ ~Starts
    BY <1>0, <2>1 DEF Api_WMIInitFinish, UserAt
  <2> QED BY <1>0, <1>u, <2>1, <2>2, <2>3, ConfigKept
<1>7. CASE ShutdownEnds
  <2>1. /\ MAC_CONTEXT_PTR' = 0 /\ user'.at = "idle" /\ user.at = "free"
    BY <1>7 DEF ShutdownEnds, UserAt, NoUser
  <2>2. ~Starts'
    BY <1>0, <2>1 DEF Starts
  <2> QED BY <2>1, <2>2 DEF ConfigParts
<1> QED BY <1>1, <1>2, <1>3, <1>4, <1>5, <1>6, <1>7 DEF UserStep

LEMMA ConfigStep ==
  ASSUME Base, OpenInv, ConfigInv, Next
  PROVE  ConfigInv'
<1>1. Sending' = Sending
  BY SettingKept DEF Sending, OpensSucceed
<1>2. CASE ~Sending
  BY <1>1, <1>2 DEF ConfigInv, Sending
<1> SUFFICES ASSUME Sending, ConfigParts PROVE ConfigParts'
  BY <1>1, <1>2, ConfigIs DEF ConfigInv, Sending, ConfigParts, SentFor
<1>3. /\ user \in UserType /\ task \in TaskType
      /\ Starts => /\ user.at = "ready" /\ MAC_CONTEXT_PTR = task.cxt
                   /\ user.wait # "A_ERROR"
      /\ user.at \notin {"nomem", "pend", "assert"}
      /\ p_Global_Cxt = MAC_CONTEXT_PTR
      /\ {"nocommon", "notemp", "nosock", "bootfail"} \cap Happens = {}
  BY DEF Base, TypeInv, UserType, TaskType, ConfigParts, Sending,
     OpensSucceed, OpenInv
<1>4. CASE Custom_Api_Initialize
  <2> DEFINE n == opens + 1
  <2>1. /\ MAC_CONTEXT_PTR' = n /\ user.at = "idle"
        /\ user' = [NoUser EXCEPT !.at = "ready", !.wait = "test"]
        /\ target' = NoTarget /\ Driver_CreateThread(n)
    BY <1>3, <1>4 DEF Custom_Api_Initialize, SecondDevice, UserAt
  <2>2. user'.at = "ready" /\ user'.wait = "test" /\ ~target'.up
    BY <2>1 DEF NoUser, NoTarget
  <2>3. Starts' => task'.cxt = n
    <3>1. CASE task.id = 0
      BY <1>3, <2>1, <3>1
         DEF Driver_CreateThread, qosal_task_create, TaskType
    <3>2. CASE task.id # 0
      <4>1. UNCHANGED task
        BY <2>1, <3>2 DEF Driver_CreateThread
      <4> QED BY <1>3, <2>1, <4>1 DEF Starts
    <3> QED BY <3>1, <3>2
  <2> HIDE DEF n
  <2> QED BY <2>1, <2>2, <2>3 DEF ConfigParts
<1>5. CASE InitializeNoMemory
  <2>1. /\ UNCHANGED <<MAC_CONTEXT_PTR, task, target>> /\ user.at = "idle"
        /\ MAC_CONTEXT_PTR = 0
        /\ user' = [user EXCEPT !.status = "ENET_ERROR"]
    BY <1>3, <1>5 DEF InitializeNoMemory, UserAt
  <2>2. user'.at = "idle"
    BY <1>3, <2>1 DEF UserType
  <2>3. ~Starts'
    BY <1>3, <2>1 DEF Starts
  <2> QED BY <2>1, <2>2, <2>3 DEF ConfigParts
<1>6. CASE Custom_Api_Shutdown
  <2>1. /\ UNCHANGED <<MAC_CONTEXT_PTR, task, target>> /\ user.at = "idle"
        /\ user'.at = "down" /\ user' \in UserType
    BY <1>6, UserStepTyped DEF Custom_Api_Shutdown, UserAt, NoUser, Next
  <2>2. target.up => All' = All
    BY <1>6, <2>1, UserQuiet DEF Api_WMIInitFinish, UserAt
  <2> QED BY <1>3, <2>1, <2>2, ConfigKept
<1>7. CASE UserStep
  BY <1>7, ConfigUser
<1>8. CASE DriverInitEnds \/ DriverShutsDown \/ Driver_DeInit
  <2>1. /\ UNCHANGED <<user, MAC_CONTEXT_PTR>> /\ ~Starts'
        /\ \/ ~target'.up
           \/ Starts /\ UNCHANGED task.cxt /\ All' = <<>>
    BY <1>8, UpOrDown
  <2> QED BY <1>3, <2>1 DEF ConfigParts, SentFor
<1>9. CASE \/ Driver_Init \/ Driver_Main \/ RecallWakes \/ RecallSleeps
           \/ TargetReady \/ TargetCredit \/ Receive \/ AppFrees
  <2>1. /\ UNCHANGED <<user, MAC_CONTEXT_PTR, task.cxt, target.up>>
        /\ target.up => All' = All
        /\ Starts' => Starts
    BY <1>9, QuietStep
  <2> QED BY <1>3, <2>1 DEF ConfigParts, SentFor
<1> QED BY <1>4, <1>5, <1>6, <1>7, <1>8, <1>9 DEF Next, DriverStep

-----------------------------------------------------------------------------
\* What StackInv says of a sequence of commands, and of the user.
Ordered(all) ==
  /\ all # <<>> => all[1] = Defaults[1]
  /\ \A i, j \in 1 .. Len(all) : i < j => Rank(all[i]) < Rank(all[j])

Behind(at, cmd, all) ==
  /\ at = "ready" => all = <<>>
  /\ at \in {"cmd", "nomem", "pend"} =>
       /\ \A i \in 1 .. Len(all) : Rank(all[i]) < cmd
       /\ cmd # 1 => all # <<>>

LEMMA StackIs ==
  StackInv <=> (target.up => /\ Ordered(All)
                             /\ MAC_CONTEXT_PTR = task.cxt
                                  => Behind(user.at, user.cmd, All))
BY DEF StackInv, Ordered, Behind

LEMMA OrderedAppend ==
  ASSUME NEW s \in Seq(Commands), NEW k \in 1 .. 5, Ordered(s),
         Behind("cmd", k, s)
  PROVE  /\ Ordered(Append(s, Defaults[k]))
         /\ Behind("cmd", k + 1, Append(s, Defaults[k]))
<1> DEFINE d == Defaults[k]
           t == Append(s, d)
<1>1. d \in Commands /\ Rank(d) = k
  BY DefaultsAre
<1>2. /\ t # <<>> /\ Len(t) = Len(s) + 1 /\ Len(s) \in Nat
      /\ \A i \in 1 .. Len(s) : t[i] = s[i]
      /\ t[Len(s) + 1] = d
  BY <1>1, AppendProperties
<1>3. /\ \A i \in 1 .. Len(s) : Rank(s[i]) < k
      /\ k # 1 => s # <<>>
  BY DEF Behind
<1>4. \A i \in 1 .. Len(s) : Rank(s[i]) \in Nat /\ s[i] \in Commands
  <2>1. \A c \in Commands : Rank(c) \in Nat
    BY DefaultsAre DEF Commands
  <2> QED BY <2>1
<1>5. t[1] = Defaults[1]
  <2>1. CASE s = <<>>
    BY <1>2, <1>3, <2>1
  <2>2. CASE s # <<>>
    BY <1>2, <2>2 DEF Ordered
  <2> QED BY <2>1, <2>2
<1> HIDE DEF t, d
<1>6. ASSUME NEW i \in 1 .. Len(t)
      PROVE  i \in 1 .. Len(s) \/ (i = Len(s) + 1 /\ t[i] = d)
  BY <1>2
<1>7. \A i \in 1 .. Len(t) : Rank(t[i]) < k + 1
  BY <1>1, <1>2, <1>3, <1>4, <1>6
<1>8. \A i, j \in 1 .. Len(t) : i < j => Rank(t[i]) < Rank(t[j])
  <2> SUFFICES ASSUME NEW i \in 1 .. Len(t), NEW j \in 1 .. Len(t), i < j
               PROVE  Rank(t[i]) < Rank(t[j])
    OBVIOUS
  <2>1. i \in 1 .. Len(s)
    BY <1>2
  <2>2. CASE j \in 1 .. Len(s)
    BY <1>2, <2>1, <2>2 DEF Ordered
  <2>3. CASE j \notin 1 .. Len(s)
    BY <1>1, <1>2, <1>3, <1>6, <2>1, <2>3
  <2> QED BY <2>2, <2>3
<1> QED BY <1>2, <1>5, <1>7, <1>8 DEF Ordered, Behind, t, d

LEMMA StackUser ==
  ASSUME Base, StackInv, UserStep, target.up
  PROVE  StackInv'
<1>0. /\ user \in UserType
      /\ UNCHANGED <<task, target>>
      /\ ~(Api_WMIInitFinish /\ ~UNCHANGED cxt) => All' = All
      /\ Ordered(All)
      /\ MAC_CONTEXT_PTR = task.cxt => Behind(user.at, user.cmd, All)
  BY UserQuiet, StackIs DEF Base, TypeInv, UserType
<1>1. \/ /\ All' = All /\ UNCHANGED MAC_CONTEXT_PTR
         /\ Behind(user.at, user.cmd, All)
              => Behind(user'.at, user'.cmd, All)
      \/ /\ Ordered(All') /\ UNCHANGED MAC_CONTEXT_PTR
         /\ MAC_CONTEXT_PTR = task.cxt => Behind(user'.at, user'.cmd, All')
      \/ All' = All /\ MAC_CONTEXT_PTR' # task.cxt
  <2>1. CASE WaitTest \/ WaitEvent
    <3>1. /\ UNCHANGED MAC_CONTEXT_PTR /\ user.at # "cmd"
          /\ \E w \in Waits : user' = [user EXCEPT !.wait = w]
      BY <2>1 DEF WaitTest, WaitEvent, Waits, Base, PlaceInv
    <3>2. user'.at = user.at /\ user'.cmd = user.cmd
      BY <1>0, <3>1 DEF UserType
    <3> QED BY <1>0, <3>1, <3>2 DEF Api_WMIInitFinish, UserAt
  <2>2. CASE Api_InitFinish
    <3>1. /\ UNCHANGED MAC_CONTEXT_PTR /\ user.at = "ready"
      BY <2>2 DEF Api_InitFinish, InitializeFails, UserAt
    <3>2. user'.at = "idle" \/ (user'.at = "cmd" /\ user'.cmd = 1)
      <4>1. CASE user' = [NoUser EXCEPT !.status = "ENET_ERROR"]
        BY <4>1 DEF NoUser
      <4>2. CASE user' = [user EXCEPT !.at = "cmd", !.wait = "none", !.cmd = 1]
        BY <1>0, <4>2 DEF UserType
      <4> QED BY <2>2, <4>1, <4>2 DEF Api_InitFinish, InitializeFails
    <3>3. Behind("ready", user.cmd, All)
            => Behind("idle", user'.cmd, All) /\ Behind("cmd", 1, All)
      BY DEF Behind
    <3> QED BY <1>0, <3>1, <3>2, <3>3 DEF Api_WMIInitFinish, UserAt, Behind
  <2>3. CASE Api_WMIInitFinish
    <3>1. /\ UNCHANGED MAC_CONTEXT_PTR /\ user.at = "cmd"
          /\ user.cmd \in 1 .. 5 /\ Len(Defaults) = 5
      BY <1>0, <2>3, DefaultsAre
         DEF Api_WMIInitFinish, UserAt, UserType, Base, PlaceInv
    <3>2. CASE /\ UNCHANGED cxt
               /\ user' = [user EXCEPT !.at = IF user.cmd = 1 THEN "assert"
                                              ELSE "nomem"]
      <4>1. /\ user'.at = IF user.cmd = 1 THEN "assert" ELSE "nomem"
            /\ user'.cmd = user.cmd
        BY <1>0, <3>2 DEF UserType
      <4>2. Behind(user.at, user.cmd, All) => Behind(user'.at, user'.cmd, All)
        BY <3>1, <4>1 DEF Behind
      <4> QED BY <1>0, <3>1, <3>2, <4>2
    <3>3. CASE cxt' = [cxt EXCEPT ![MAC_CONTEXT_PTR] =
                         Driver_SubmitTxRequest(@, Defaults[user.cmd])]
               /\ user' = IF user.cmd = Len(Defaults) THEN NoUser
                          ELSE [user EXCEPT !.cmd = @ + 1]
      <4>0. ~UNCHANGED cxt
        BY <2>3, <3>3, CommandGoes
      <4>1. All' = IF MAC_CONTEXT_PTR = task.cxt
                   THEN Append(All, Defaults[user.cmd]) ELSE All
        BY <2>3, <4>0, QueuedLast
      <4>2. CASE MAC_CONTEXT_PTR # task.cxt
        BY <1>0, <3>1, <4>1, <4>2
      <4>3. CASE MAC_CONTEXT_PTR = task.cxt
        <5>1. Behind("cmd", user.cmd, All) /\ All \in Seq(Commands)
          BY <1>0, <3>1, <4>3, AllIsSeq
        <5>2. Ordered(All') /\ Behind("cmd", user.cmd + 1, All')
          BY <1>0, <3>1, <4>1, <4>3, <5>1, OrderedAppend
        <5>3. user' = NoUser \/ user' = [user EXCEPT !.cmd = @ + 1]
          BY <3>3
        <5>4. \/ user'.at = "idle"
              \/ user'.at = "cmd" /\ user'.cmd = user.cmd + 1
          <6>1. CASE user' = NoUser
            BY <6>1 DEF NoUser
          <6>2. CASE user' = [user EXCEPT !.cmd = @ + 1]
            BY <1>0, <3>1, <6>2 DEF UserType
          <6> QED BY <5>3, <6>1, <6>2
        <5>5. Behind("idle", user'.cmd, All')
          BY DEF Behind
        <5> QED BY <3>1, <5>2, <5>4, <5>5
      <4> QED BY <4>2, <4>3
    <3> QED BY <2>3, <3>2, <3>3 DEF Api_WMIInitFinish
  <2>4. CASE wmi_cmd_process
    <3>1. /\ UNCHANGED MAC_CONTEXT_PTR /\ user.at \in {"nomem", "pend"}
          /\ user.cmd \in 1 .. 5 /\ user.cmd # 1
      BY <1>0, <2>4 DEF wmi_cmd_process, UserType, Base, PlaceInv
    <3>2. \/ user'.at = "pend" /\ user'.cmd = user.cmd
          \/ user'.at \in {"idle", "assert"}
          \/ user'.at = "cmd" /\ user'.cmd = user.cmd + 1
      <4>1. CASE user' = NoUser
        BY <4>1 DEF NoUser
      <4>2. CASE user' = [user EXCEPT !.at = "pend", !.wait = "test"]
        BY <1>0, <4>2 DEF UserType
      <4>3. CASE \E place \in {"cmd", "assert"} :
                   user' = [user EXCEPT !.wait = "none", !.cmd = @ + 1,
                                        !.at = place]
        BY <1>0, <4>3 DEF UserType
      <4> QED BY <2>4, <4>1, <4>2, <4>3 DEF wmi_cmd_process
    <3>3. Behind(user.at, user.cmd, All)
            => Behind(user'.at, user'.cmd, All)
      <4> SUFFICES ASSUME Behind(user.at, user.cmd, All)
                   PROVE  Behind(user'.at, user'.cmd, All)
        OBVIOUS
      <4>1. \A i \in 1 .. Len(All) : Rank(All[i]) < user.cmd
        BY <3>1 DEF Behind
      <4>2. All # <<>>
        BY <3>1 DEF Behind
      <4>3. \A i \in 1 .. Len(All) : Rank(All[i]) \in Nat
        <5>1. \A c \in Commands : Rank(c) \in Nat
          BY DefaultsAre DEF Commands
        <5>2. \A i \in 1 .. Len(All) : All[i] \in Commands
          BY AllIsSeq
        <5> QED BY <5>1, <5>2
      <4>4. \A i \in 1 .. Len(All) : Rank(All[i]) < user.cmd + 1
        BY <3>1, <4>1, <4>3
      <4> QED BY <3>2, <4>1, <4>2, <4>4 DEF Behind
    <3> QED BY <1>0, <3>1, <3>3 DEF Api_WMIInitFinish, UserAt
  <2>5. CASE Api_DeInitFinish \/ socket_context_deinit
    <3>1. /\ UNCHANGED MAC_CONTEXT_PTR /\ user.at # "cmd"
          /\ \E place \in {"sock", "sockread", "free"} :
               \/ user' = [user EXCEPT !.at = place, !.wait = "none"]
               \/ user' = [user EXCEPT !.at = place]
      BY <2>5 DEF Api_DeInitFinish, socket_context_deinit, UserAt
    <3>2. user'.at \in {"sock", "sockread", "free"}
      BY <1>0, <3>1 DEF UserType
    <3> QED BY <1>0, <3>1, <3>2 DEF Behind, Api_WMIInitFinish, UserAt
  <2>6. CASE ShutdownEnds
    <3>1. MAC_CONTEXT_PTR' = 0 /\ user.at # "cmd"
      BY <2>6 DEF ShutdownEnds, UserAt
    <3>2. task.cxt # 0
      BY AllIsSeq DEF Sessions
    <3> QED BY <1>0, <3>1, <3>2 DEF Api_WMIInitFinish, UserAt
  <2> QED BY <2>1, <2>2, <2>3, <2>4, <2>5, <2>6 DEF UserStep
<1> QED BY <1>0, <1>1, StackIs DEF StackInv, Ordered, Behind

LEMMA StackStep ==
  ASSUME Base, StackInv, Next
  PROVE  StackInv'
<1>0. /\ user \in UserType
      /\ target.up => Ordered(All)
      /\ target.up /\ MAC_CONTEXT_PTR = task.cxt
           => Behind(user.at, user.cmd, All)
  BY StackIs DEF Base, TypeInv, UserType
<1>1. CASE ~target'.up
  BY <1>1 DEF StackInv
<1>2. CASE /\ target.up /\ All' = All
           /\ user'.at \notin {"ready", "cmd", "nomem", "pend"}
  BY <1>0, <1>2 DEF StackInv, Ordered
<1>3. CASE Custom_Api_Initialize
  <2>1. CASE SecondDevice
    <3>1. UNCHANGED <<cxt, task, target>> /\ user'.at = "idle"
      BY <2>1 DEF SecondDevice, NoUser
    <3> QED BY <1>1, <1>2, <3>1 DEF All
  <2>2. CASE ~SecondDevice
    <3>1. ~target'.up
      BY <1>3, <2>2 DEF Custom_Api_Initialize, NoTarget
    <3> QED BY <1>1, <3>1
  <2> QED BY <2>1, <2>2
<1>4. CASE InitializeNoMemory
  <2>1. /\ UNCHANGED <<task, target>> /\ user.at = "idle"
        /\ user' = [user EXCEPT !.status = "ENET_ERROR"]
        /\ UNCHANGED cxt \/ cxt' = ContextInit(opens + 1)
        /\ opens < MaxOpens
    BY <1>4 DEF InitializeNoMemory, UserAt
  <2>2. user'.at = "idle"
    BY <1>0, <2>1 DEF UserType
  <2>3. target.up => All' = All
    <3>1. CASE UNCHANGED cxt
      BY <2>1, <3>1 DEF All
    <3>2. CASE cxt' = ContextInit(opens + 1)
      <4>1. \A n \in Sessions \ {opens + 1} : cxt'[n] = cxt[n]
        BY <2>1, <3>2, NewContext
      <4>2. target.up => task.cxt \in Sessions /\ task.cxt <= opens
        BY AllIsSeq DEF Base, TaskInv, Serves
      <4>3. target.up => task.cxt \in Sessions \ {opens + 1}
        BY <4>2 DEF Base, TypeInv
      <4> QED BY <2>1, <4>1, <4>3 DEF All
    <3> QED BY <2>1, <3>1, <3>2
  <2> QED BY <1>1, <1>2, <2>1, <2>2, <2>3
<1>5. CASE Custom_Api_Shutdown
  <2>1. user'.at = "down" /\ user.at = "idle"
    BY <1>5 DEF Custom_Api_Shutdown, UserAt, NoUser
  <2>2. UNCHANGED target /\ (target.up => All' = All)
    BY <1>5, <2>1, UserQuiet DEF Api_WMIInitFinish, UserAt
  <2> QED BY <1>1, <1>2, <2>1, <2>2
<1>6. CASE UserStep
  BY <1>1, <1>6, StackUser, UserQuiet
<1>7. CASE DriverInitEnds \/ DriverShutsDown \/ Driver_DeInit
  <2>1. /\ UNCHANGED <<user, MAC_CONTEXT_PTR>>
        /\ \/ ~target'.up
           \/ /\ UNCHANGED task.cxt
              /\ All' = <<>> /\ ~cxt[task.cxt].wmiReady
    BY <1>7, UpOrDown
  <2>2. CASE ~target'.up
    BY <1>1, <2>2
  <2>3. CASE All' = <<>> /\ ~cxt[task.cxt].wmiReady /\ UNCHANGED task.cxt
    <3>1. MAC_CONTEXT_PTR = task.cxt
            => user.at \notin {"cmd", "nomem", "pend"}
      BY <2>3 DEF Base, PlaceInv, Cur
    <3>2. Len(All') = 0
      BY <2>3
    <3> QED BY <2>1, <2>3, <3>1, <3>2 DEF StackInv
  <2> QED BY <2>1, <2>2, <2>3
<1>8. CASE \/ Driver_Init \/ Driver_Main \/ RecallWakes \/ RecallSleeps
           \/ TargetReady \/ TargetCredit \/ Receive \/ AppFrees
  <2>1. /\ UNCHANGED <<user, MAC_CONTEXT_PTR, task.cxt, target.up>>
        /\ target.up => All' = All
    BY <1>8, QuietStep
  <2> QED BY <2>1 DEF StackInv
<1> QED BY <1>3, <1>4, <1>5, <1>6, <1>7, <1>8 DEF Next, DriverStep

-----------------------------------------------------------------------------
LEMMA InitHolds == Init => IInv
<1> SUFFICES ASSUME Init PROVE IInv
  OBVIOUS
<1>1. /\ p_Global_Cxt = 0 /\ MAC_CONTEXT_PTR = 0 /\ opens = 0 /\ heap = {}
      /\ cxt = [n \in Sessions |-> NoContext]
      /\ user = NoUser /\ target = NoTarget
  BY DEF Init
<1>2. PICK s \in Settings : task = [id |-> 0, at |-> "none", cxt |-> 1,
                                    set |-> s]
  BY DEF Init
<1>3. /\ task \in TaskType /\ task.id = 0 /\ task.at = "none"
      /\ task.cxt = 1
  BY <1>2 DEF TaskType
<1>4. /\ user.at = "idle" /\ user.wait = "none" /\ user.status = "ENET_OK"
      /\ ~target.up /\ user \in UserType /\ target \in TargetType
  BY <1>1, NothingYet DEF NoUser, NoTarget
<1>5. \A n \in Sessions :
        /\ cxt[n] = NoContext /\ ~cxt[n].driver_up /\ ~cxt[n].wmiReady
        /\ cxt[n].abi /\ cxt[n].rxfree = 0 /\ cxt[n].rxheld = 0
  BY <1>1 DEF NoContext
<1>6. cxt \in [Sessions -> Context]
  BY <1>1, NoContextOk
<1>7. TypeInv
  BY <1>1, <1>3, <1>4, <1>5, <1>6, LifeAssumption
     DEF TypeInv, TaskType, UserType, TargetType
<1>8. ~Starts /\ ~Serves /\ ~TaskRuns /\ ~Opening /\ ~Leaving
  BY <1>3, <1>4 DEF Starts, Serves, TaskRuns, Opening, Leaving
<1>9. PlaceInv /\ TaskInv
  BY <1>1, <1>3, <1>4, <1>5, <1>8 DEF PlaceInv, TaskInv, Waits
<1>10. LiveInv /\ OpenInv
  BY <1>1, <1>3, <1>4, <1>5, <1>8 DEF LiveInv, OpenInv
<1>11. CleanInv /\ SessionInv
  BY <1>1, <1>4, <1>5, <1>8
     DEF CleanInv, SessionInv, HasMutex, FreedAlone, NoContext
<1>12. EndpointMaps /\ ConfigInv /\ StackInv
  BY <1>4, <1>5, <1>8 DEF EndpointMaps, ConfigInv, StackInv
<1> QED BY <1>7, <1>9, <1>10, <1>11, <1>12 DEF IInv, Base

LEMMA InvStep == IInv /\ [Next]_vars => IInv'
<1> SUFFICES ASSUME IInv, [Next]_vars PROVE IInv'
  OBVIOUS
<1>1. Base'
  BY BaseStep DEF IInv
<1>2. CASE Next
  BY <1>1, <1>2, LiveStep, OpenStep, SessionStep, CleanStep, MapsStep,
     ConfigStep, StackStep DEF IInv
<1>3. CASE UNCHANGED vars
  <2>1. UNCHANGED <<LiveInv, OpenInv>>
    BY <1>3 DEF vars, LiveInv, OpenInv, Calm, Prompt, Happens, TaskRuns,
       Starts, Leaving, OpensSucceed
  <2>2. UNCHANGED <<CleanInv, EndpointMaps>>
    BY <1>3 DEF vars, CleanInv, EndpointMaps, OpensSucceed, Prompt, Happens,
       UserBlocks, DriverBlocks, TaskRuns, Cur, Leaving, Queued
  <2>4. UNCHANGED SessionInv
    BY <1>3 DEF vars, SessionInv, HasMutex, FreedAlone, TaskRuns
  <2>3. UNCHANGED <<ConfigInv, StackInv>>
    BY <1>3 DEF vars, ConfigInv, StackInv, OpensSucceed, Happens, Starts, All
  <2> QED BY <1>1, <2>1, <2>2, <2>3, <2>4 DEF IInv
<1> QED BY <1>2, <1>3

(***************************************************************************)
(* The inductive invariant, whatever goes wrong: where the two tasks are,  *)
(* which session each works on, what is allocated, and what of the default *)
(* commands is sent and queued.                                            *)
(***************************************************************************)
THEOREM InvariantHolds == Spec => []IInv
BY InitHolds, InvStep, PTL DEF Spec

(***************************************************************************)
(* Custom_Api_Initialize, Custom_Api_Shutdown and the driver task keep the *)
(* contexts as long as they are used: the driver task never works on freed *)
(* contexts, an open that returned ENET_OK has its own, and a device that  *)
(* is closed has left nothing but the netbufs of commands it could not     *)
(* send, each where the times, the target and the operating system are     *)
(* what the definition asks.  Whatever goes wrong, the receive buffers are *)
(* taken without their mutex only when no task uses them any more.         *)
(***************************************************************************)
THEOREM ContextsAreSound == Spec => []ContextsSound
<1>1. IInv => ContextsSound
  <2> SUFFICES ASSUME IInv PROVE ContextsSound
    OBVIOUS
  <2>1. TypeOK
    BY DEF IInv, Base, TypeInv, PlaceInv, TypeOK, Waits, Places
  <2>2. LiveContext
    BY DEF IInv, LiveInv, Calm, LiveContext
  <2>3. OpenIsLive
    BY DEF IInv, OpenInv, OpenIsLive, Idle, Leaving
  <2>4. Clean
    <3> SUFFICES ASSUME WellClosed, "data" \notin Happens, user.at = "idle",
                        MAC_CONTEXT_PTR = 0, ~TaskRuns
                 PROVE  /\ heap \subseteq Queued
                        /\ \A n \in Sessions : cxt[n].rxfree + cxt[n].rxheld = 0
      BY DEF Clean, Idle, WellClosed
    <3>1. HeapClean /\ RxClean
      BY CleanParts DEF IInv
    <3>2. UserBlocks = {} /\ DriverBlocks = {}
      BY BlocksAre DEF UserBlocks, DriverBlocks
    <3>3. \A n \in Sessions : cxt[n].rxfree = 0 /\ cxt[n].rxheld = 0
      BY <3>1 DEF RxClean, Sessions
    <3> QED BY <3>1, <3>2, <3>3 DEF HeapClean
  <2> QED BY <2>1, <2>2, <2>3, <2>4 DEF ContextsSound, IInv, SessionInv
<1> QED BY <1>1, InvariantHolds, PTL

(***************************************************************************)
(* Driver_Init's SetupServices and Api_WMIInitFinish set an opened driver  *)
(* up: the endpoint tables are inverse of each other, the target is sent   *)
(* every default command, and none before the start of its IP stack.       *)
(***************************************************************************)
THEOREM SetUpIsComplete == Spec => []SetUpComplete
<1>1. IInv => SetUpComplete
  <2> SUFFICES ASSUME IInv PROVE SetUpComplete
    OBVIOUS
  <2>1. ConfigSent
    BY DEF IInv, ConfigInv, ConfigSent, Idle, All, Cur
  <2>2. StackFirst
    <3>1. target.up =>
            /\ All # <<>> => All[1] = Defaults[1]
            /\ \A i, j \in 1 .. Len(All) : i < j => Rank(All[i]) < Rank(All[j])
      BY DEF IInv, StackInv
    <3> DEFINE Place(c) == CHOOSE i \in 1 .. Len(Defaults) : Defaults[i] = c
               Goal(all) == /\ all # <<>> => all[1] = Defaults[1]
                            /\ \A i, j \in 1 .. Len(all) :
                                 i < j => Place(all[i]) < Place(all[j])
    <3>2. \A c : Rank(c) = Place(c)
      BY DEF Rank
    <3>3. ASSUME NEW n \in Sessions, task.cxt = n, target.up
          PROVE  Goal(target.sent \o cxt[n].txq)
      <4>1. target.sent \o cxt[n].txq = All
        BY <3>3 DEF All
      <4>2. Goal(All)
        <5> HIDE DEF Place
        <5> QED BY <3>1, <3>2, <3>3
      <4> HIDE DEF Goal
      <4> QED BY <4>1, <4>2
    <3>4. StackFirst <=> \A n \in Sessions : (task.cxt = n /\ target.up)
                                              => Goal(target.sent \o cxt[n].txq)
      BY DEF StackFirst
    <3> HIDE DEF Goal
    <3> QED BY <3>3, <3>4
  <2> QED BY <2>1, <2>2 DEF IInv, SetUpComplete
<1> QED BY <1>1, InvariantHolds, PTL
=============================================================================
