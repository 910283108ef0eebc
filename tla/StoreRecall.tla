---------------------------- MODULE StoreRecall ----------------------------
(***************************************************************************)
(* Store and recall (common_src/storerecall/storerecall.c, the events of   *)
(* api_wmi_rx.c, ATH_DEVICE_SUSPEND_START of cust_api_ioctl.c), with the   *)
(* power mode it needs (api_stack_offload.c, api_ioctl.c).                 *)
(*                                                                         *)
(* A user task asks the target to store its context; the target writes it  *)
(* into the host's data sets and says so; the driver task switches the     *)
(* target off, waits, boots it again and has it recall the context, which  *)
(* it reads back.  Meanwhile user tasks are kept out by strrclBlock.       *)
(*                                                                         *)
(* The driver task runs above the user tasks, so what it does for an event *)
(* is one step, except for its sleep.  The target (external) is modelled   *)
(* from the messages the driver handles: it stores in phase "store", is    *)
(* "off" while it has no power, boots, is "booted" when it has said        *)
(* WMI_READY and "recall"s its context by reading it back.                 *)
(***************************************************************************)
EXTENDS HostDset

CONSTANTS
  Users,      \* user tasks
  Settings,   \* the cases considered: what the user tasks do (ops), what a
              \* data set of the target's context may hold (contents), what
              \* may happen (happens, of Hazards), and how many allocations
              \* fail at most (faults, a bound)
  MaxCycles   \* bound: suspends in a behaviour

Hazards ==
  {"no_memory",    \* A_MALLOC of a data set fails
   "no_buffer",    \* a command finds no buffer
   "abort",        \* the target cannot store: msec_sleep is 0
   "boot_fails",   \* Hcd_ReinitTarget or Driver_BootComm fails
   "store_event",  \* the target sends its context with the STORE event
   "early_event",  \* the target is done before SUSPEND_START has returned
   "short_time",   \* a suspend of less than MIN_STRRCL_MSEC is asked for
   "pieces",       \* the target writes a data set in several events
   "resuspend",    \* a suspend comes while the target still reads back
   "interleave"}   \* a user task is interrupted after its access check

Operations == {"suspend", "max_perf", "rec", "query", "command"}

ASSUME RunAssumption ==
          /\ MaxCycles \in Nat /\ IsFiniteSet(Users)
          /\ \A s \in Settings : /\ s.happens \subseteq Hazards
                                /\ s.ops \in [Users -> SUBSET Operations]
                                /\ s.contents \subseteq Seq(Words)
                                /\ s.faults \in Nat

VARIABLES
  hd,        \* the table of data sets
  strrcl,    \* strrclState, strrclBlock, chipDown, wmiReady
  asynchRequest,
  power,     \* userPwrMode, pwrStateSetting, power_state_for_module
  txq,       \* commands for the target, in order
  target,    \* the target: phase, power mode, context, what it did
  user,      \* what each user task is doing
  drv,       \* "run", or "down": Strrcl_Recall waits with the target off
  asserted,  \* A_ASSERT was reached
  cycles, faults,
  setting    \* the case considered, of Settings

vars == <<hd, strrcl, asynchRequest, power, txq, target, user, drv, asserted,
          cycles, faults, setting>>
countVars == <<cycles, faults, setting>>

OpsOf == setting.ops
Happens == setting.happens

States == {"INIT", "START", "ACTIVE", "ACTIVE_B"}
Modes == {"REC", "MAX"}
Contexts == [DSET_STORE_RECALL -> setting.contents]
Blank == [id \in DSET_STORE_RECALL |-> <<>>]
Nothing == [id \in DSET_STORE_RECALL |-> 0]
Commands == {<<"power", m>> : m \in Modes}
            \cup {<<"ready", "">>, <<"stack_init", "">>, <<"recall", "">>,
                  <<"command", "">>}

Init ==
  /\ hd = EmptyTable
  /\ strrcl = [state |-> "INIT", block |-> FALSE, chipDown |-> FALSE,
               wmiReady |-> TRUE]
  /\ asynchRequest = "NULL"
  /\ power = [user |-> "REC", setting |-> {}, module |-> 0]
  /\ txq = <<>>
  /\ target = [phase |-> "up", mode |-> "REC", ctx |-> Blank,
               saved |-> Blank, todo |-> {}, written |-> Nothing,
               heard |-> <<>>]
  /\ user = [u \in Users |-> [pc |-> "idle", op |-> "idle"]]
  /\ drv = "run"
  /\ asserted = FALSE
  /\ cycles = 0
  /\ faults = 0
  /\ setting \in Settings

-----------------------------------------------------------------------------
(* The power mode.                                                         *)

\* One more refused allocation is within the bound.
MayFail(kind) == kind \in Happens /\ faults < setting.faults

(***************************************************************************)
(* The queue after wmi_cmd_start of c, which may find no buffer; ok is     *)
(* whether it succeeds.                                                    *)
(***************************************************************************)
wmi_cmd_start(c, ok) ==
  /\ txq' = IF ok THEN Append(txq, c) ELSE txq
  /\ ok \/ MayFail("no_buffer")
  /\ faults' = IF ok THEN faults ELSE faults + 1

move_power_state_to_maxperf(module, ok) ==
  IF power.module >= module
  THEN ok /\ UNCHANGED <<power, txq, faults>>
  ELSE /\ power' = IF ok THEN [power EXCEPT !.module = module] ELSE power
       /\ IF power.user = "REC" THEN wmi_cmd_start(<<"power", "MAX">>, ok)
          ELSE ok /\ UNCHANGED <<txq, faults>>

MUT_RestorePower(p, q, module, ok) ==
  IF p.module = 0 \/ p.module >= module THEN [power |-> p, txq |-> q]
  ELSE IF p.user # "MAX" /\ ~ok THEN [power |-> p, txq |-> q]
  ELSE [power |-> [p EXCEPT !.module = 0],
        txq |-> IF p.user # "MAX" THEN Append(q, <<"power", p.user>>) ELSE q]

\* power and txq after restore_power_state(module), from power p and queue q.
RestorePower(p, q, module, ok) ==
  IF p.module = 0 \/ p.module > module THEN [power |-> p, txq |-> q]
  ELSE IF p.user # "MAX" /\ ~ok THEN [power |-> p, txq |-> q]
  ELSE [power |-> [p EXCEPT !.module = 0],
        txq |-> IF p.user # "MAX" THEN Append(q, <<"power", p.user>>) ELSE q]

(***************************************************************************)
(* Api_SetPowerMode of a module that wants full performance or no longer   *)
(* needs it; there is one such module here for each user task.             *)
(***************************************************************************)
Api_SetPowerMode(u, mode, ok) ==
  LET votes == IF mode = "REC" THEN power.setting \ {u}
               ELSE power.setting \cup {u}
      userMode == IF mode = "MAX" THEN "MAX"
                  ELSE IF votes = {} THEN "REC" ELSE power.user
  IN /\ power' = [power EXCEPT !.setting = votes, !.user = userMode]
     /\ wmi_cmd_start(<<"power", userMode>>, ok)

-----------------------------------------------------------------------------
(* User tasks.                                                             *)

Step(u, pc, op) == user' = [user EXCEPT ![u] = [pc |-> pc, op |-> op]]

\* The target is through with its last recall.
Recalled == target.phase = "up" /\ target.todo = {} /\ txq = <<>>

(***************************************************************************)
(* A user task enters the driver: Api_DriverAccessCheck keeps it out while *)
(* strrclBlock is set or the chip is down.  Without "interleave" no other  *)
(* user task runs before this one is through, and the driver task, which   *)
(* it wakes for a query, answers at once.                                  *)
(***************************************************************************)
Enter(u, op) ==
  /\ user[u].pc = "idle" /\ op \in OpsOf[u]
  /\ "interleave" \in Happens \/ \A v \in Users : user[v].pc = "idle"
  /\ ~strrcl.block /\ ~strrcl.chipDown
  /\ op = "suspend" => /\ cycles < MaxCycles
                       /\ Recalled \/ "resuspend" \in Happens
  /\ op \in {"max_perf", "rec", "command"} => Len(txq) < 3
  /\ Step(u, "in", op)
  /\ UNCHANGED <<hd, strrcl, asynchRequest, power, txq, target, drv, asserted,
                 countVars>>

\* ATH_DEVICE_SUSPEND_START: first the target goes to full performance.
SuspendPower(u, ok) ==
  /\ user[u] = [pc |-> "in", op |-> "suspend"]
  /\ move_power_state_to_maxperf(1, ok)
  /\ IF ok THEN Step(u, "start", "suspend") ELSE Step(u, "idle", "idle")
  /\ UNCHANGED <<hd, strrcl, asynchRequest, target, drv, asserted,
                 cycles, setting>>

MUT_SuspendStart(u, ok) ==
  /\ user[u] = [pc |-> "start", op |-> "suspend"]
  /\ strrcl.state = "INIT"
  /\ strrcl' = [strrcl EXCEPT !.block = TRUE]
  /\ wmi_cmd_start(<<"ready", "">>, ok)
  /\ IF ok THEN Step(u, "sent", "suspend") ELSE Step(u, "idle", "idle")
  /\ cycles' = cycles + 1
  /\ UNCHANGED <<hd, asynchRequest, power, target, drv, asserted, setting>>

\* then, if nothing is under way and the time is not too short, others are
\* kept out and the command sent;
SuspendStart(u, ok) ==
  /\ user[u] = [pc |-> "start", op |-> "suspend"]
  /\ \/ /\ strrcl.state = "INIT"
        /\ strrcl' = [strrcl EXCEPT !.block = ok]
        /\ wmi_cmd_start(<<"ready", "">>, ok)
        /\ IF ok THEN Step(u, "sent", "suspend") ELSE Step(u, "idle", "idle")
        /\ cycles' = cycles + 1
     \/ /\ strrcl.state # "INIT" \/ "short_time" \in Happens
        /\ ok
        /\ Step(u, "idle", "idle")
        /\ UNCHANGED <<strrcl, txq, countVars>>
  /\ UNCHANGED <<hd, asynchRequest, power, target, drv, asserted, setting>>

\* and, the driver task perhaps having sent it, the state is START.
SuspendSent(u) ==
  /\ user[u] = [pc |-> "sent", op |-> "suspend"]
  /\ strrcl' = [strrcl EXCEPT !.state = "START"]
  /\ Step(u, "idle", "idle")
  /\ UNCHANGED <<hd, asynchRequest, power, txq, target, drv, asserted,
                 countVars>>

UserPower(u, ok) ==
  /\ user[u].pc = "in" /\ user[u].op \in {"max_perf", "rec"}
  /\ Api_SetPowerMode(u, IF user[u].op = "rec" THEN "REC" ELSE "MAX", ok)
  /\ Step(u, "idle", "idle")
  /\ UNCHANGED <<hd, strrcl, asynchRequest, target, drv, asserted,
                 cycles, setting>>

\* Any other command of a user task.
UserCommand(u, ok) ==
  /\ user[u] = [pc |-> "in", op |-> "command"]
  /\ wmi_cmd_start(<<"command", "">>, ok)
  /\ Step(u, "idle", "idle")
  /\ UNCHANGED <<hd, strrcl, asynchRequest, power, target, drv, asserted,
                 cycles, setting>>

(***************************************************************************)
(* Api_TxGetStatus: with nothing to send it has the driver task read the   *)
(* target's credits (query_credit_deficit), and waits for the answer or    *)
(* for 5 seconds.                                                          *)
(***************************************************************************)
Api_TxGetStatus(u) ==
  /\ user[u] = [pc |-> "in", op |-> "query"]
  /\ IF txq = <<>> /\ asynchRequest = "NULL"
     THEN asynchRequest' = "query" /\ Step(u, "wait", "query")
     ELSE Step(u, "idle", "idle") /\ UNCHANGED asynchRequest
  /\ UNCHANGED <<hd, strrcl, power, txq, target, drv, asserted, countVars>>

WaitOver(u) ==
  /\ user[u] = [pc |-> "wait", op |-> "query"] /\ asynchRequest # "query"
  /\ Step(u, "idle", "idle")
  /\ UNCHANGED <<hd, strrcl, asynchRequest, power, txq, target, drv, asserted,
                 countVars>>

-----------------------------------------------------------------------------
(* The target, from the messages the driver knows (external).              *)

\* The driver task sends the next command; a target in use carries it out.
SendCommand ==
  /\ drv = "run" /\ txq # <<>> /\ target.phase \in {"up", "store", "booted"}
  /\ txq' = Tail(txq)
  /\ LET c == Head(txq)
         list == setup_host_dset(hd)
         h == [target EXCEPT !.heard = IF target.phase = "booted"
                                       THEN Append(@, c[1]) ELSE @]
     IN CASE c[1] = "power" -> target' = [h EXCEPT !.mode = c[2]]
        [] c[1] = "ready" ->
             \E new \in Contexts :
               target' = [h EXCEPT !.phase = "store", !.ctx = new,
                                   !.saved = new, !.todo = DSET_STORE_RECALL,
                                   !.written = Nothing]
        [] c[1] = "recall" ->
             target' = [h EXCEPT !.phase = "up", !.mode = "MAX",
                                 !.todo = {list[k].dset_id :
                                             k \in DOMAIN list}]
        [] OTHER -> target' = h
  /\ UNCHANGED <<hd, strrcl, asynchRequest, power, user, drv, asserted,
                 countVars>>

CanEvent == /\ drv = "run" /\ target.phase = "store"
            /\ \/ "early_event" \in Happens
               \/ \A u \in Users : user[u].pc # "sent"

-----------------------------------------------------------------------------
(* Events of the target, handled by the driver task.                       *)

\* The host's answer: whether it has room.  A refusal makes the target abort.
Api_HostDsetCreateEvent(id, mem) ==
  /\ CanEvent /\ id \in target.todo
  /\ mem \/ MayFail("no_memory")
  /\ hd' = dset_get(hd, id, Header + Len(target.ctx[id]), mem).table
  /\ faults' = IF mem THEN faults ELSE faults + 1
  /\ UNCHANGED <<strrcl, asynchRequest, power, txq, target, user, drv,
                 asserted, cycles, setting>>

(***************************************************************************)
(* The target writes a data set, its header first, in one event or in      *)
(* several; it is done when the last word is answered.  Whatever the       *)
(* offset, the host frees what it has and allocates the length of this     *)
(* event, so that nothing of the events before it is left.  (A piece is    *)
(* not shorter than its offset: wrt_len, unsigned, would wrap around.)     *)
(***************************************************************************)
Pieces(size, offset) ==
  {n \in 1 .. size - offset :
     /\ offset <= n
     /\ \/ offset + n = size
        \/ "pieces" \in Happens /\ 2 * (offset + n) <= size}

Api_HostDsetWriteEvent(id, mem) ==
  /\ CanEvent /\ id \in target.todo
  /\ mem \/ MayFail("no_memory")
  /\ LET data == <<"header">> \o target.ctx[id]
         offset == target.written[id]
     IN \E length \in Pieces(Len(data), offset) :
          LET get == dset_get(hd, id, length, mem)
              piece == [k \in 1 .. length |-> data[offset + k]]
          IN IF get.at = 0
             THEN hd' = get.table /\ UNCHANGED target
             ELSE /\ hd' = dset_write(get.table, get.at, piece, offset)
                  /\ target' = [target EXCEPT
                        !.written[id] = offset + length,
                        !.todo = IF offset + length = Len(data)
                                 THEN @ \ {id} ELSE @]
  /\ faults' = IF mem THEN faults ELSE faults + 1
  /\ UNCHANGED <<strrcl, asynchRequest, power, txq, user, drv, asserted,
                 cycles, setting>>

\* After a boot and the recall the target reads its data sets back.
Api_HostDsetReadbackEvent(id, extra, ok) ==
  /\ drv = "run" /\ target.phase = "up" /\ id \in target.todo
  /\ ok \/ MayFail("no_buffer")
  /\ LET size == Len(hd.slot[dset_find(hd, id)].data)
         sent == ReadbackMessages(hd, id, 0, size - Header + extra)
         word(k) == LET m == CHOOSE m \in {sent[j] : j \in DOMAIN sent} :
                               k \in m.offset + 1 .. m.offset + Len(m.data)
                    IN m.data[k - m.offset]
     IN target' = [target EXCEPT !.todo = @ \ {id},
                     !.ctx[id] = [k \in 1 .. size - Header |-> word(k)]]
  /\ LET r == RestorePower(power, txq, 1, ok)
     IN power' = r.power /\ txq' = r.txq
  /\ faults' = IF ok THEN faults ELSE faults + 1
  /\ UNCHANGED <<hd, strrcl, asynchRequest, user, drv, asserted,
                 cycles, setting>>

\* The answer to a target that asks which data sets there are.
Api_HostDsetSyncEvent(dset_count) ==
  dset_fill(hd, IF dset_count < MAX_DSET_SIZE
                THEN dset_count ELSE MAX_DSET_SIZE)

(***************************************************************************)
(* Strrcl_Recall: the chip is switched off (Strrcl_ChipDown) and the       *)
(* driver task sleeps.                                                     *)
(***************************************************************************)
Strrcl_ChipDown(state) ==
  /\ strrcl' = [strrcl EXCEPT !.state = state, !.chipDown = TRUE,
                              !.wmiReady = FALSE]
  /\ target' = [target EXCEPT !.phase = "off", !.ctx = Blank, !.heard = <<>>]
  /\ drv' = "down"

Abort ==
  /\ strrcl' = [strrcl EXCEPT !.state = "INIT", !.block = FALSE]
  /\ target' = [target EXCEPT !.phase = "up", !.todo = {}]
  /\ UNCHANGED drv

\* The target has stored its context, or gives up with msec_sleep 0.
Api_StoreRecallStartEvent ==
  /\ CanEvent
  /\ \/ target.todo = {} /\ Strrcl_ChipDown("ACTIVE")
     \/ "abort" \in Happens /\ Abort
  /\ UNCHANGED <<hd, asynchRequest, power, txq, user, asserted, countVars>>

(***************************************************************************)
(* The STORE event does the same for a target that sends its context with  *)
(* it, but only in state START.                                            *)
(***************************************************************************)
Api_StoreRecallEvent ==
  /\ CanEvent /\ "store_event" \in Happens
  /\ IF strrcl.state = "START"
     THEN \/ target.todo = {} /\ Strrcl_ChipDown("ACTIVE")
          \/ "abort" \in Happens /\ Abort
     ELSE UNCHANGED <<strrcl, target, drv>>
  /\ UNCHANGED <<hd, asynchRequest, power, txq, user, asserted, countVars>>

(***************************************************************************)
(* Strrcl_ChipUpStart after the sleep: power, boot (external), and         *)
(* Strrcl_ChipUpFinish to be called until it has done its work.  Nobody    *)
(* looks at its status.                                                    *)
(***************************************************************************)
Strrcl_ChipUpStart(ok) ==
  /\ drv = "down"
  /\ ok \/ "boot_fails" \in Happens
  /\ drv' = "run"
  /\ asynchRequest' = IF ok THEN "finish" ELSE asynchRequest
  /\ target' = [target EXCEPT !.phase = IF ok THEN "boot" ELSE "off"]
  /\ UNCHANGED <<hd, strrcl, power, txq, user, asserted, countVars>>

\* The booted target says so.
WmiReadyEvent ==
  /\ drv = "run" /\ target.phase = "boot"
  /\ target' = [target EXCEPT !.phase = "booted", !.mode = "REC"]
  /\ strrcl' = [strrcl EXCEPT !.wmiReady = TRUE]
  /\ UNCHANGED <<hd, asynchRequest, power, txq, user, drv, asserted,
                 countVars>>

MUT_FinishState(stack) ==
  IF strrcl.state = "ACTIVE" /\ stack THEN "ACTIVE" ELSE strrcl.state

(***************************************************************************)
(* Strrcl_ChipUpFinish, an asynchronous request: it is called in every     *)
(* pass of the driver task until it removes itself.  stack and recall say  *)
(* whether SOCK_STACK_INIT and the recall command find a buffer, restore   *)
(* whether the last command does.                                          *)
(***************************************************************************)
FinishState(stack) ==
  IF strrcl.state = "ACTIVE" /\ stack THEN "ACTIVE_B" ELSE strrcl.state

Strrcl_ChipUpFinish(stack, recall, restore) ==
  LET first == strrcl.state = "ACTIVE"
      initOk == ~first \/ stack
      q1 == IF first /\ stack THEN Append(txq, <<"stack_init", "">>) ELSE txq
      q2 == Append(q1, <<"recall", "">>)
      refused(ok) == IF ok THEN 0 ELSE 1
      failed == refused(stack) + refused(recall) + refused(restore)
      r == RestorePower(power, q2, 1, restore)
  IN /\ asynchRequest = "finish" /\ drv = "run" /\ strrcl.wmiReady
     /\ failed = 0 \/ (failed = 1 /\ MayFail("no_buffer"))
     /\ ~first => stack
     /\ faults' = faults + failed
     /\ IF strrcl.state \notin {"ACTIVE", "ACTIVE_B"}
        THEN /\ asserted' = TRUE
             /\ UNCHANGED <<strrcl, asynchRequest, power, txq>>
        ELSE /\ IF initOk /\ recall
                THEN /\ strrcl' = [strrcl EXCEPT !.state = "INIT",
                                     !.block = FALSE, !.chipDown = FALSE]
                     /\ asynchRequest' = "NULL"
                     /\ power' = r.power /\ txq' = r.txq
                ELSE /\ strrcl' = [strrcl EXCEPT !.state = FinishState(stack),
                                                 !.chipDown = FALSE]
                     /\ txq' = q1
                     /\ UNCHANGED <<asynchRequest, power>>
             /\ UNCHANGED asserted
     /\ UNCHANGED <<hd, target, user, drv, cycles, setting>>

\* Another asynchronous request runs once and wakes the user who placed it.
RunQuery ==
  /\ asynchRequest = "query" /\ drv = "run"
  /\ asynchRequest' = "NULL"
  /\ user' = [v \in Users |-> IF user[v].pc = "wait"
                              THEN [pc |-> "idle", op |-> "idle"] ELSE user[v]]
  /\ UNCHANGED <<hd, strrcl, power, txq, target, drv, asserted, countVars>>

-----------------------------------------------------------------------------
UserNext ==
  \E u \in Users :
    \/ \E op \in Operations : Enter(u, op)
    \/ \E ok \in BOOLEAN : SuspendPower(u, ok) \/ SuspendStart(u, ok)
                           \/ UserPower(u, ok) \/ UserCommand(u, ok)
    \/ SuspendSent(u) \/ Api_TxGetStatus(u) \/ WaitOver(u)

DriverNext ==
  \/ SendCommand \/ RunQuery
  \/ \E stack, recall, restore \in BOOLEAN :
       Strrcl_ChipUpFinish(stack, recall, restore)
  \/ \E ok \in BOOLEAN : Strrcl_ChipUpStart(ok)

TargetNext ==
  \/ \E id \in DSET_STORE_RECALL, ok \in BOOLEAN :
       \/ Api_HostDsetCreateEvent(id, ok) \/ Api_HostDsetWriteEvent(id, ok)
       \/ \E extra \in {0, Header} : Api_HostDsetReadbackEvent(id, extra, ok)
  \/ Api_StoreRecallStartEvent \/ Api_StoreRecallEvent \/ WmiReadyEvent

Next == UserNext \/ DriverNext \/ TargetNext

Spec == Init /\ [][Next]_vars

(***************************************************************************)
(* The driver task runs while it has work and the target answers what it   *)
(* was asked; a user task in the driver goes on.                           *)
(***************************************************************************)
Fairness ==
  /\ WF_vars(DriverNext) /\ WF_vars(TargetNext)
  /\ \A u \in Users : WF_vars(SuspendSent(u))

FairSpec == Spec /\ Fairness

-----------------------------------------------------------------------------
(* Properties.                                                             *)

TypeOK ==
  /\ hd \in [slot : [Slots -> [dset_id : DSET_STORE_RECALL \cup {0},
                              data : Seq(Words)]],
             blocks : Nat]
  /\ strrcl \in [state : States, block : BOOLEAN, chipDown : BOOLEAN,
                wmiReady : BOOLEAN]
  /\ asynchRequest \in {"NULL", "query", "finish"}
  /\ power \in [user : Modes, setting : SUBSET Users, module : {0, 1}]
  /\ txq \in Seq(Commands)
  /\ target \in [phase : {"up", "store", "off", "boot", "booted"},
                 mode : Modes, todo : SUBSET DSET_STORE_RECALL,
                 written : [DSET_STORE_RECALL -> Nat],
                 ctx : [DSET_STORE_RECALL -> Seq(Words)],
                 saved : [DSET_STORE_RECALL -> Seq(Words)],
                 heard : Seq({c[1] : c \in Commands})]
  /\ user \in [Users -> [pc : {"idle", "in", "start", "sent", "wait"},
                         op : Operations \cup {"idle"}]]
  /\ drv \in {"run", "down"} /\ asserted \in BOOLEAN
  /\ cycles \in 0 .. MaxCycles + Cardinality(Users)
  /\ faults \in 0 .. setting.faults

(***************************************************************************)
(* The table of data sets is sound whatever allocations failed: a data set *)
(* has one slot, a slot in use has data and a free one none, and every     *)
(* block that was allocated is in the table.                               *)
(***************************************************************************)
TableSound ==
  /\ \A i, j \in Slots :
       hd.slot[i].dset_id = hd.slot[j].dset_id /\ i # j
         => hd.slot[i].dset_id = 0
  /\ \A i \in Slots : (hd.slot[i].dset_id = 0) <=> (hd.slot[i].data = NoData)
  /\ hd.blocks = Cardinality({i \in Slots : hd.slot[i].data # NoData})

(***************************************************************************)
(* While the target is off and boots, the list of the recall command and   *)
(* the answer to a sync both name every data set of its context, once and  *)
(* with the length it stored, if it wrote each data set in one event.      *)
(***************************************************************************)
ContextListed ==
  "pieces" \notin Happens /\ target.phase \in {"off", "boot", "booted"}
    => \A list \in {setup_host_dset(hd),
                    Api_HostDsetSyncEvent(MAX_DSET_SIZE)} :
         /\ Len(list) = Cardinality(DSET_STORE_RECALL)
         /\ {list[k] : k \in DOMAIN list}
              = {[dset_id |-> id, length |-> Header + Len(target.saved[id])]
                   : id \in DSET_STORE_RECALL}

(***************************************************************************)
(* ATH_DEVICE_SUSPEND_START tests strrclState and sets it a command later: *)
(* of two tasks that suspend both can pass the test if one is interrupted. *)
(***************************************************************************)
OneSuspender ==
  "interleave" \in Happens
    => \A u, v \in Users : "suspend" \in OpsOf[u] \cap OpsOf[v] => u = v

(***************************************************************************)
(* A target that has read its context back has the one it stored, however  *)
(* often it was suspended and whatever the earlier contexts' lengths were, *)
(* unless two tasks suspend it at once: then it stores another context     *)
(* before it is told to recall the first.  It wrote each data set in one   *)
(* event: of several the host keeps a part of the last.                    *)
(***************************************************************************)
ContextRestored ==
  OneSuspender /\ "pieces" \notin Happens
               /\ target.phase = "up" /\ target.todo = {}
    => target.ctx = target.saved

(***************************************************************************)
(* A booted target hears of nothing before its recall but one              *)
(* SOCK_STACK_INIT, however often Strrcl_ChipUpFinish had to try; a        *)
(* suspend during the readback of the last context can leave a power       *)
(* command in the queue, which goes out first.                             *)
(***************************************************************************)
RecallFirst ==
  Happens \cap {"resuspend", "interleave"} = {}
    => target.heard \in {<<>>, <<"stack_init">>, <<"stack_init", "recall">>}

(***************************************************************************)
(* From the moment the target is told to store its context until it has    *)
(* been told to recall it, no user task is inside the driver: "prevent any *)
(* potential race conditions with other tasks calling into the driver".    *)
(* A task interrupted right after its access check is inside all the same, *)
(* hence the condition on "interleave".                                    *)
(***************************************************************************)
UsersKeptOut ==
  "interleave" \notin Happens /\ strrcl.block
    => \A u \in Users : user[u].pc \in {"idle", "sent", "wait"}

(***************************************************************************)
(* The target is at full performance whenever it stores its context, as    *)
(* long as every command goes through, no suspend is refused for its time  *)
(* (cust_api_ioctl.c:559, after the power change at 529) and no two stores *)
(* or user tasks overlap: the vote that such a suspend, a given up store   *)
(* or a restore without a buffer leaves behind makes the next suspend      *)
(* believe the target is there.                                            *)
(***************************************************************************)
Undisturbed ==
  Happens \cap {"abort", "short_time", "resuspend", "no_buffer", "interleave"}
    = {}

StoreAtFullPower ==
  Undisturbed /\ target.phase = "store" => target.mode = "MAX"

(***************************************************************************)
(* With no store and recall under way and no command on its way, the       *)
(* target is in the power mode the user asked for, if undisturbed: after a *)
(* suspend that was refused for its time, and after a store that was given *)
(* up, restore_power_state is not called.                                  *)
(***************************************************************************)
PowerAsAsked ==
  /\ Undisturbed
  /\ strrcl.state = "INIT" /\ ~strrcl.block /\ txq = <<>>
  /\ \A u \in Users : user[u].pc # "start"
  => target.mode = power.user

(***************************************************************************)
(* Full performance is what the user gets while any module wants it.       *)
(***************************************************************************)
PowerVotes == power.user = "MAX" <=> power.setting # {}

(***************************************************************************)
(* Strrcl_ChipUpFinish is called in its two states only: its A_ASSERT is   *)
(* never reached, unless the target has stored its context before          *)
(* ATH_DEVICE_SUSPEND_START, preempted, has set the state to START, or two *)
(* tasks suspend it at once.                                               *)
(***************************************************************************)
FinishExpected == OneSuspender /\ "early_event" \notin Happens => ~asserted

(***************************************************************************)
(* A request placed for the driver task is run before another replaces it, *)
(* unless its user got past the access check just before strrclBlock.      *)
(***************************************************************************)
QueryNotLost ==
  [][asynchRequest = "query" /\ "interleave" \notin Happens
       => asynchRequest' \in {"query", "NULL"}]_vars

(***************************************************************************)
(* User tasks that are kept out are let in again, unless the target does   *)
(* not boot: nobody looks at the status of Strrcl_ChipUpStart.             *)
(***************************************************************************)
Unblocks ==
  strrcl.block /\ Happens \cap {"boot_fails", "early_event"} = {}
    ~> ~strrcl.block

(***************************************************************************)
(* The target's context survives: the table of data sets is sound, the     *)
(* recall lists all of the context, and the target reads back what it      *)
(* stored.                                                                 *)
(***************************************************************************)
ContextKept == TypeOK /\ TableSound /\ ContextListed /\ ContextRestored

(***************************************************************************)
(* Store and recall happens in its order: users are out while it lasts,    *)
(* the recall comes first, and the last step runs in its own states.       *)
(***************************************************************************)
RecallOrdered == RecallFirst /\ UsersKeptOut /\ FinishExpected

(***************************************************************************)
(* The power mode is the one asked for, and full while the target stores,  *)
(* if undisturbed.                                                         *)
(***************************************************************************)
PowerRight == StoreAtFullPower /\ PowerAsAsked /\ PowerVotes

(***************************************************************************)
(* What waits for the end of a store and recall gets its turn: a request   *)
(* placed before, and the users kept out.                                  *)
(***************************************************************************)
NothingForgotten == QueryNotLost /\ Unblocks
=============================================================================
