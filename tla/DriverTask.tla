----------------------------- MODULE DriverTask -----------------------------
(***************************************************************************)
(* The driver task: the loop of Atheros_Driver_Task around Driver_Main     *)
(* (common_src/driver/driver_main.c), the SPI host controller's interrupt  *)
(* masks (common_src/hcd/spi_hcd.c), the interrupt service routine and     *)
(* HW_ProcessPendingInterrupts (common_src/hw_interface/hw_api.c), the     *)
(* transmit queue, the pool of receive buffers, and the tasks that submit  *)
(* requests and give buffers back.                                         *)
(*                                                                         *)
(* Driver_Main is cut where a step of another context makes a difference:  *)
(* at the register accesses the device can get between, at every lock and  *)
(* at every flag another context writes.  pc names the next piece.  While  *)
(* Hcd_BusInterrupt serves the causes it read, the host's detection is off *)
(* and a new cause only stays set: that service is one piece.  The bus of  *)
(* this port is synchronous: a transfer is over when Hcd_Request returns,  *)
(* and SDHD_BOOL_DMA_IN_PROG is never set.                                 *)
(*                                                                         *)
(* Lengths are counted in packets: the device's write buffer holds         *)
(* FifoSize of them.  Credits follow CreditWindow, which HtcCredits        *)
(* implements: a received packet brings every freed credit, a reading of   *)
(* the COUNT register those of one endpoint or, in a firmware without the  *)
(* out-of-band scheme, nothing.                                            *)
(***************************************************************************)
EXTENDS Naturals, Sequences, FiniteSets

CONSTANTS
  CtlReqs,       \* requests on endpoints 0 and 1 (HTC and WMI control)
  DataReqs,      \* requests on the data endpoints
  NoReq,         \* no request
  DataCredits,   \* credits of the data endpoints
  RxBuffers,     \* WLAN_CONFIG_RX_BUFFERS, length of rxFreeQueue
  FifoSize,      \* packets the device's write buffer holds
  MaxRx,         \* bound: packets waiting in the device
  DevSources,    \* interrupt sources the device raises
  CoreSleeps,    \* the device's core clock may stop
  Queries,       \* a task calls Api_TxGetStatus
  HoldsBuffers   \* the application keeps its receive buffers until its
                 \* data requests complete

Reqs    == CtlReqs \cup DataReqs
Sources == {"PKT_AVAIL", "WMARK", "CPU", "ERROR"}
EP      == {"ctl", "data"}
EpOf(r) == IF r \in CtlReqs THEN "ctl" ELSE "data"
MAX_CREDIT_DEADLOCK_ATTEMPTS == 2
Query   == "query"     \* Api_TxGetStatus, the task that sets asynchRequest

ASSUME CountAssumption ==
          /\ DataCredits \in Nat \ {0} /\ RxBuffers \in Nat \ {0}
          /\ FifoSize \in Nat \ {0} /\ MaxRx \in Nat \ {0}
ASSUME ReqAssumption ==
          /\ CtlReqs \cap DataReqs = {} /\ NoReq \notin Reqs
          /\ Query \notin Reqs /\ IsFiniteSet(Reqs)
ASSUME DeviceAssumption ==
          DevSources \subseteq Sources /\ CoreSleeps \in BOOLEAN
ASSUME AppAssumption == HoldsBuffers \in BOOLEAN /\ Queries \in BOOLEAN

VARIABLES
  pc,                    \* where the driver task is
  again,                 \* Driver_TxReady called by the canBlock condition
  notify,                \* notifyFunctionIRQs of Hcd_BusInterrupt
  dropLeft, req,         \* the loop count and pReq of the driver task
  mask,                  \* mask of DoDMAOp: PKT_AVAIL is to be unmasked again
  \* spi_hcd
  IrqsEnabled, IrqDetected, PendingIrqAcks, CpuInterrupt,
  SpiIntEnableShadow, WriteBufferSpace,
  \* booleans
  fatalError, dmaComplete, writeWait,
  pCurrentRequest,
  \* transmit
  txQueue, owner, credits, creditDeadlock, creditDeadlockCounter,
  asynchRequest,
  \* receive
  rxFree, rxApp, rxBufferStatus,
  \* events, and tasks between changing shared state and setting an event
  driverWakeEvent, blockMsec, toWake, freeing,
  \* the device
  enableReg, cause, edge, devRx, arriving, fifo, held, freed, wmark

taskVars == <<again, notify, dropLeft, req, mask>>
regVars  == <<SpiIntEnableShadow, enableReg, cause, edge>>
irqVars  == <<IrqsEnabled, IrqDetected, PendingIrqAcks, CpuInterrupt>>
busVars  == <<WriteBufferSpace, fatalError, dmaComplete, writeWait,
              pCurrentRequest>>
deadVars == <<creditDeadlock, creditDeadlockCounter>>
txVars   == <<txQueue, owner, asynchRequest>>
rxVars   == <<rxFree, rxApp, rxBufferStatus>>
evVars   == <<driverWakeEvent, blockMsec, toWake, freeing>>
crVars   == <<credits, freed>>
devVars  == <<devRx, arriving, fifo, held, wmark>>
vars     == <<pc, taskVars, regVars, irqVars, busVars, deadVars, txVars,
              rxVars, evVars, crVars, devVars>>

-----------------------------------------------------------------------------
(***************************************************************************)
(* The interrupt line is up while an enabled cause is set.  The host sees  *)
(* only the rising edge, and only while its detection is enabled; edge is  *)
(* an interrupt the host has latched and not yet served.                   *)
(***************************************************************************)
Line(en, ca) == en \cap ca # {}

SetRegs(shadow, en, ca) ==
  /\ SpiIntEnableShadow' = shadow /\ enableReg' = en /\ cause' = ca
  /\ edge' = (edge \/ (IrqsEnabled /\ ~Line(enableReg, cause)
                                   /\ Line(en, ca)))

Hcd_UnmaskInterrupts(m, ca) ==
  SetRegs(SpiIntEnableShadow \cup m, SpiIntEnableShadow \cup m, ca)

MaskSPIInterrupts(m, ca) ==
  SetRegs(SpiIntEnableShadow \ m, SpiIntEnableShadow \ m, ca)

(***************************************************************************)
(* All locks are one utility_mutex; the task returning a buffer is the     *)
(* only one seen holding it between two steps.                             *)
(***************************************************************************)
MutexFree == freeing = FALSE

Goto(l) == pc' = l

Hcd_RefreshWriteBufferSpace == WriteBufferSpace' = FifoSize - Len(fifo)

\* Driver_CompleteRequest: the callback hands the request back to its user.
Complete(r) == owner' = [owner EXCEPT ![r] = "user"]

(***************************************************************************)
(* After Driver_Init: every source but the watermark is unmasked, all      *)
(* receive buffers are free.  block_msec of Atheros_Driver_Task has no     *)
(* initial value.                                                          *)
(***************************************************************************)
Init ==
  /\ pc = "Irq" /\ again = FALSE /\ notify = FALSE /\ dropLeft = 0
  /\ req = NoReq /\ mask = FALSE
  /\ IrqsEnabled = TRUE /\ IrqDetected = FALSE /\ PendingIrqAcks = FALSE
  /\ CpuInterrupt = FALSE
  /\ SpiIntEnableShadow = Sources \ {"WMARK"}
  /\ enableReg = SpiIntEnableShadow /\ cause = {} /\ edge = FALSE
  /\ WriteBufferSpace = FifoSize
  /\ fatalError = FALSE /\ dmaComplete = FALSE /\ writeWait = FALSE
  /\ pCurrentRequest = NoReq
  /\ txQueue = <<>> /\ owner = [r \in Reqs |-> "user"]
  /\ credits = [e \in EP |-> IF e = "ctl" THEN 1 ELSE DataCredits]
  /\ creditDeadlock = FALSE /\ creditDeadlockCounter = 0
  /\ asynchRequest = FALSE
  /\ rxFree = RxBuffers /\ rxApp = 0 /\ rxBufferStatus = TRUE
  /\ driverWakeEvent = FALSE /\ blockMsec \in {"forever", "ms"}
  /\ toWake = {} /\ freeing = FALSE
  /\ devRx = 0 /\ arriving = FALSE /\ fifo = <<>> /\ wmark = FALSE
  /\ held = [e \in EP |-> 0] /\ freed = [e \in EP |-> 0]

-----------------------------------------------------------------------------
(***************************************************************************)
(* HW_ProcessPendingInterrupts.                                            *)
(***************************************************************************)
HW_ProcessPendingInterrupts ==
  /\ pc = "Irq"
  /\ IrqDetected' = FALSE
  /\ Goto(IF IrqDetected THEN "Bus" ELSE "Complete")
  /\ UNCHANGED <<taskVars, regVars, IrqsEnabled, PendingIrqAcks,
                 CpuInterrupt, busVars, deadVars, txVars, rxVars, evVars,
                 crVars, devVars>>

(***************************************************************************)
(* Hcd_BusInterrupt reads the enabled causes, acknowledges those the host  *)
(* controller owns and masks each source it serves.  An error is fatal:    *)
(* nothing else is looked at.                                              *)
(***************************************************************************)
Ints == cause \cap SpiIntEnableShadow
Acked == Ints \cap {"WMARK", "ERROR"}

\* Mutant: PKT_AVAIL stays enabled while its packets are received.
ServedButPackets == Ints \ {"PKT_AVAIL"}
Served == Ints

EndsWait == writeWait /\ "WMARK" \in Ints

BusError ==
  /\ "ERROR" \in Ints
  /\ fatalError' = TRUE /\ notify' = FALSE
  /\ SetRegs(SpiIntEnableShadow, {}, cause \ Acked)
  /\ UNCHANGED <<CpuInterrupt, WriteBufferSpace, writeWait, wmark>>

BusServe ==
  /\ "ERROR" \notin Ints
  /\ IF Ints = {} THEN UNCHANGED regVars
                  ELSE MaskSPIInterrupts(Served, cause \ Acked)
  /\ IF EndsWait
     THEN /\ Hcd_RefreshWriteBufferSpace
          /\ writeWait' = FALSE /\ wmark' = FALSE
     ELSE UNCHANGED <<WriteBufferSpace, writeWait, wmark>>
  /\ notify' = ("PKT_AVAIL" \in Ints)
  /\ CpuInterrupt' = (CpuInterrupt \/ "CPU" \in Ints)
  /\ UNCHANGED fatalError

Hcd_BusInterrupt ==
  /\ pc = "Bus" /\ Goto("EnableOff")
  /\ BusError \/ BusServe
  /\ UNCHANGED <<again, dropLeft, req, mask, IrqsEnabled, IrqDetected,
                 PendingIrqAcks, dmaComplete, pCurrentRequest, deadVars,
                 txVars, rxVars, evVars, crVars,
                 devRx, arriving, fifo, held>>

(***************************************************************************)
(* EnableDisableSPIIRQHwDetect: the device's sources are all disabled, the *)
(* host's detection is enabled, and only then are the sources written      *)
(* back, so that a cause still set makes an edge.                          *)
(***************************************************************************)
\* Mutant: the sources are left enabled while detection is switched on.
EnableOffWithoutEdge ==
  /\ pc = "EnableOff" /\ MutexFree /\ Goto("EnableOn")
  /\ IrqsEnabled' = TRUE
  /\ UNCHANGED <<taskVars, regVars, IrqDetected, PendingIrqAcks,
                 CpuInterrupt, busVars, deadVars, txVars, rxVars, evVars,
                 crVars, devVars>>

EnableOff ==
  /\ pc = "EnableOff" /\ MutexFree /\ Goto("EnableOn")
  /\ enableReg' = {} /\ IrqsEnabled' = TRUE
  /\ UNCHANGED <<taskVars, SpiIntEnableShadow, cause, edge, IrqDetected,
                 PendingIrqAcks, CpuInterrupt, busVars, deadVars, txVars,
                 rxVars, evVars, crVars, devVars>>

EnableOn ==
  /\ pc = "EnableOn" /\ Goto("Complete")
  /\ SetRegs(SpiIntEnableShadow, SpiIntEnableShadow, cause)
  /\ PendingIrqAcks' = (PendingIrqAcks \/ notify)
  /\ notify' = FALSE
  /\ UNCHANGED <<again, dropLeft, req, mask, IrqsEnabled, IrqDetected,
                 CpuInterrupt, busVars, deadVars, txVars, rxVars, evVars,
                 crVars, devVars>>

(***************************************************************************)
(* A transmit request whose transfer ended in the previous pass completes. *)
(***************************************************************************)
Driver_CompleteRequest ==
  /\ pc = "Complete" /\ Goto("Cpu")
  /\ IF dmaComplete
     THEN /\ Complete(pCurrentRequest)
          /\ pCurrentRequest' = NoReq /\ dmaComplete' = FALSE
     ELSE UNCHANGED <<owner, pCurrentRequest, dmaComplete>>
  /\ UNCHANGED <<taskVars, regVars, irqVars, WriteBufferSpace, fatalError,
                 writeWait, deadVars, txQueue, asynchRequest, rxVars,
                 evVars, crVars, devVars>>

(***************************************************************************)
(* The CPU interrupt is cleared in the device, unmasked and served; what   *)
(* HTC_ProcessCpuInterrupt does with it is in HtcCredits.                  *)
(***************************************************************************)
ProcessCpuInterrupt ==
  /\ pc = "Cpu" /\ Goto("Rx")
  /\ CpuInterrupt' = FALSE
  /\ IF CpuInterrupt THEN Hcd_UnmaskInterrupts({"CPU"}, cause \ {"CPU"})
                     ELSE UNCHANGED regVars
  /\ UNCHANGED <<taskVars, IrqsEnabled, IrqDetected, PendingIrqAcks,
                 busVars, deadVars, txVars, rxVars, evVars, crVars, devVars>>

-----------------------------------------------------------------------------
(***************************************************************************)
(* Driver_RxReady: with a packet announced and a buffer to put it in, the  *)
(* cause is cleared first and the lookahead read after it.                 *)
(***************************************************************************)
\* Mutant: nothing is received while requests wait to be sent.
RxPossibleWhenTxIdle ==
  /\ ~fatalError /\ ~dmaComplete /\ PendingIrqAcks /\ rxBufferStatus
  /\ txQueue = <<>>

RxPossible == ~fatalError /\ ~dmaComplete /\ PendingIrqAcks /\ rxBufferStatus

Driver_RxReady ==
  /\ pc = "Rx"
  /\ IF RxPossible
     THEN Goto("Look") /\ SetRegs(SpiIntEnableShadow, enableReg,
                                  cause \ {"PKT_AVAIL"})
     ELSE Goto("Tx") /\ UNCHANGED regVars
  /\ UNCHANGED <<taskVars, irqVars, busVars, deadVars, txVars, rxVars,
                 evVars, crVars, devVars>>

(***************************************************************************)
(* Hcd_GetLookAhead: a whole packet is received, part of one is polled for *)
(* in the next pass, and when there is none the interrupt takes over.      *)
(***************************************************************************)
Hcd_GetLookAhead ==
  /\ pc = "Look"
  /\ Goto(IF devRx > 0 THEN "Recv" ELSE IF arriving THEN "Tx" ELSE "RxIdle")
  /\ UNCHANGED <<taskVars, regVars, irqVars, busVars, deadVars, txVars,
                 rxVars, evVars, crVars, devVars>>

\* Mutant: the cause is cleared after the lookahead was read.
RxIdleClears ==
  /\ pc = "RxIdle" /\ Goto("Tx")
  /\ PendingIrqAcks' = FALSE
  /\ Hcd_UnmaskInterrupts({"PKT_AVAIL"}, cause \ {"PKT_AVAIL"})
  /\ UNCHANGED <<taskVars, IrqsEnabled, IrqDetected, CpuInterrupt, busVars,
                 deadVars, txVars, rxVars, evVars, crVars, devVars>>

RxIdle ==
  /\ pc = "RxIdle" /\ Goto("Tx")
  /\ PendingIrqAcks' = FALSE
  /\ Hcd_UnmaskInterrupts({"PKT_AVAIL"}, cause)
  /\ UNCHANGED <<taskVars, IrqsEnabled, IrqDetected, CpuInterrupt, busVars,
                 deadVars, txVars, rxVars, evVars, crVars, devVars>>

(***************************************************************************)
(* Custom_GetRxRequest takes a buffer and reports the pool empty when it   *)
(* was the last; with none to take it asserts, and an assertion loops for  *)
(* ever.                                                                   *)
(***************************************************************************)
LastBuffer == rxFree = 1

Custom_GetRxRequest ==
  /\ pc = "Recv" /\ MutexFree
  /\ IF rxFree = 0
     THEN Goto("Assert") /\ rxBufferStatus' = FALSE /\ UNCHANGED rxFree
     ELSE /\ Goto("RxComplete")
          /\ rxFree' = rxFree - 1
          /\ rxBufferStatus' = (rxBufferStatus /\ ~LastBuffer)
  /\ UNCHANGED <<taskVars, regVars, irqVars, busVars, deadVars, txVars,
                 rxApp, evVars, crVars, devVars>>

(***************************************************************************)
(* Driver_RecvPacket and Driver_RxComplete: the packet's trailer brings    *)
(* credits.  A control packet is consumed and its buffer freed on the      *)
(* spot; a data packet goes to the application, buffer and all.            *)
(***************************************************************************)
Driver_RxComplete(toApp) ==
  /\ pc = "RxComplete" /\ (toApp \/ MutexFree) /\ Goto("Tx")
  /\ devRx' = devRx - 1
  /\ credits' = [e \in EP |-> credits[e] + freed[e]]
  /\ freed' = [e \in EP |-> 0]
  /\ IF toApp
     THEN rxApp' = rxApp + 1 /\ UNCHANGED <<rxFree, rxBufferStatus,
                                            driverWakeEvent>>
     ELSE /\ rxFree' = rxFree + 1 /\ rxBufferStatus' = TRUE
          /\ driverWakeEvent' = (driverWakeEvent
                                   \/ (~rxBufferStatus /\ PendingIrqAcks))
          /\ UNCHANGED rxApp
  /\ UNCHANGED <<taskVars, regVars, irqVars, busVars, deadVars, txVars,
                 blockMsec, toWake, freeing, arriving, fifo, held, wmark>>

-----------------------------------------------------------------------------
(***************************************************************************)
(* Driver_TxReady, called once to transmit and again to decide whether the *)
(* task may block.                                                         *)
(***************************************************************************)
TxReturn(ready) == /\ again' = FALSE
                   /\ Goto(IF again THEN IF ready THEN "Irq" ELSE "Block"
                                    ELSE IF ready THEN "Send" ELSE "Async")

TxPossible == /\ ~fatalError /\ ~dmaComplete /\ ~writeWait
              /\ txQueue # <<>>

(***************************************************************************)
(* No credit for the head of the queue after the COUNT register was read:  *)
(* with no receive buffer either, no report can come in, and the driver    *)
(* polls; after MAX_CREDIT_DEADLOCK_ATTEMPTS blocks it purges the queue.   *)
(***************************************************************************)
PurgeDue == creditDeadlockCounter >= MAX_CREDIT_DEADLOCK_ATTEMPTS

NoCredits ==
  /\ creditDeadlock' = ~rxBufferStatus
  /\ UNCHANGED creditDeadlockCounter
  /\ IF ~rxBufferStatus /\ PurgeDue
     THEN dropLeft' = Len(txQueue) /\ Goto("Drop") /\ UNCHANGED again
     ELSE TxReturn(FALSE) /\ UNCHANGED dropLeft

Driver_TxReady(poll) ==
  /\ pc = "Tx"
  /\ UNCHANGED <<notify, req, mask, regVars, irqVars, busVars, txVars,
                 rxVars, evVars, devVars>>
  /\ IF ~TxPossible
     THEN /\ poll = 0 /\ TxReturn(FALSE) /\ creditDeadlock' = FALSE
          /\ UNCHANGED <<creditDeadlockCounter, dropLeft, crVars>>
     ELSE LET e == EpOf(Head(txQueue))
          IN  /\ poll \in IF credits[e] = 0 THEN {0, freed[e]} ELSE {0}
              /\ credits' = [credits EXCEPT ![e] = credits[e] + poll]
              /\ freed' = [freed EXCEPT ![e] = freed[e] - poll]
              /\ IF credits'[e] = 0
                 THEN NoCredits
                 ELSE /\ creditDeadlock' = FALSE /\ creditDeadlockCounter' = 0
                      /\ Goto("Space") /\ UNCHANGED <<again, dropLeft>>

(***************************************************************************)
(* Room in the device's write buffer: the cached figure, else the register *)
(* (Hcd_RefreshWriteBufferSpace), else the watermark is programmed.        *)
(***************************************************************************)
TxSpace ==
  /\ pc = "Space"
  /\ IF WriteBufferSpace > 0 THEN UNCHANGED WriteBufferSpace
                             ELSE Hcd_RefreshWriteBufferSpace
  /\ IF WriteBufferSpace' > 0 THEN TxReturn(TRUE)
                              ELSE Goto("Wmark") /\ UNCHANGED again
  /\ UNCHANGED <<notify, dropLeft, req, mask, regVars, irqVars, fatalError,
                 dmaComplete, writeWait, pCurrentRequest, deadVars, txVars,
                 rxVars, evVars, crVars, devVars>>

(***************************************************************************)
(* Hcd_ProgramWriteBufferWaterMark.  asleep: the core drained the buffer   *)
(* and stopped its clock before the watermark was written, no interrupt    *)
(* will come; the space is read again and the watermark reset.  Either way *)
(* Driver_TxReady reports not ready.                                       *)
(***************************************************************************)
Hcd_ProgramWriteBufferWaterMark(asleep) ==
  /\ pc = "Wmark" /\ TxReturn(FALSE)
  /\ asleep => CoreSleeps /\ fifo = <<>>
  /\ IF asleep
     THEN /\ Hcd_RefreshWriteBufferSpace
          /\ wmark' = FALSE /\ UNCHANGED writeWait
          /\ SetRegs(SpiIntEnableShadow, enableReg, cause \ {"WMARK"})
     ELSE /\ writeWait' = TRUE /\ wmark' = TRUE
          /\ Hcd_UnmaskInterrupts({"WMARK"}, cause)
          /\ UNCHANGED WriteBufferSpace
  /\ UNCHANGED <<notify, dropLeft, req, mask, irqVars, fatalError,
                 dmaComplete, pCurrentRequest, deadVars, txVars, rxVars,
                 evVars, crVars, devRx, arriving, fifo, held>>

(***************************************************************************)
(* Driver_DropTxDataPackets goes once around the queue, taking the lock    *)
(* for each request: data requests complete unsent, control requests go    *)
(* back to the end.                                                        *)
(***************************************************************************)
\* Mutants: control requests are purged with the data; nothing is purged.
DroppableAny(r) == TRUE
DroppableNone(r) == FALSE
Droppable(r) == r \in DataReqs

Drop ==
  /\ pc = "Drop" /\ MutexFree
  /\ IF dropLeft = 0
     THEN /\ creditDeadlockCounter' = 0 /\ TxReturn(FALSE)
          /\ UNCHANGED <<dropLeft, req, txQueue, owner>>
     ELSE /\ txQueue' = Tail(txQueue) /\ dropLeft' = dropLeft - 1
          /\ IF Droppable(Head(txQueue))
             THEN Complete(Head(txQueue)) /\ UNCHANGED <<pc, req>>
             ELSE req' = Head(txQueue) /\ Goto("Requeue") /\ UNCHANGED owner
          /\ UNCHANGED <<creditDeadlockCounter, again>>
  /\ UNCHANGED <<notify, mask, regVars, irqVars, busVars, creditDeadlock,
                 asynchRequest, rxVars, evVars, crVars, devVars>>

\* Mutant: the request taken off the queue is not put back.
RequeueForgets ==
  /\ pc = "Requeue" /\ MutexFree /\ Goto("Drop")
  /\ req' = NoReq
  /\ UNCHANGED <<again, notify, dropLeft, mask, regVars, irqVars, busVars,
                 deadVars, txVars, rxVars, evVars, crVars, devVars>>

Requeue ==
  /\ pc = "Requeue" /\ MutexFree /\ Goto("Drop")
  /\ txQueue' = Append(txQueue, req) /\ req' = NoReq
  /\ UNCHANGED <<again, notify, dropLeft, mask, regVars, irqVars, busVars,
                 deadVars, owner, asynchRequest, rxVars, evVars, crVars,
                 devVars>>

(***************************************************************************)
(* Driver_SendPacket: the head is dequeued and pays a credit; PKT_AVAIL is *)
(* masked during the transfer (DoDMAOp) and unmasked after it; the request *)
(* completes in the next pass.                                             *)
(***************************************************************************)
ADJUST_WRBUF_SPACE(space) == space - 1

\* Mutant: the packet is not paid for.
Htc_SendPacketFree(e) == UNCHANGED credits
Htc_SendPacket(e) == credits' = [credits EXCEPT ![e] = credits[e] - 1]

Driver_SendPacket ==
  /\ pc = "Send" /\ MutexFree /\ Goto("Transfer")
  /\ req' = Head(txQueue) /\ txQueue' = Tail(txQueue)
  /\ Htc_SendPacket(EpOf(Head(txQueue)))
  /\ WriteBufferSpace' = ADJUST_WRBUF_SPACE(WriteBufferSpace)
  /\ mask' = ("PKT_AVAIL" \in SpiIntEnableShadow)
  /\ IF mask' THEN MaskSPIInterrupts({"PKT_AVAIL"}, cause)
                 ELSE UNCHANGED regVars
  /\ UNCHANGED <<again, notify, dropLeft, irqVars, fatalError, dmaComplete,
                 writeWait, pCurrentRequest, deadVars, owner, asynchRequest,
                 rxVars, evVars, freed, devVars>>

Bus_InOutDescriptorSet(r) == fifo' = Append(fifo, EpOf(r))

Driver_PostProcessRequest(r) == pCurrentRequest' = r /\ dmaComplete' = TRUE

DoDMAOp ==
  /\ pc = "Transfer" /\ Goto("Async")
  /\ Bus_InOutDescriptorSet(req)
  /\ IF mask THEN Hcd_UnmaskInterrupts({"PKT_AVAIL"}, cause)
                ELSE UNCHANGED regVars
  /\ mask' = FALSE
  /\ Driver_PostProcessRequest(req) /\ req' = NoReq
  /\ UNCHANGED <<again, notify, dropLeft, irqVars,
                 WriteBufferSpace, fatalError, writeWait, deadVars, txVars,
                 rxVars, evVars, crVars, devRx, arriving, held, wmark>>

(***************************************************************************)
(* The end of Driver_Main: the asynchronous request (query_credit_deficit) *)
(* is run, then the conditions under which the task may block are tested,  *)
(* a second Driver_TxReady among them.  A credit deadlock limits the block *)
(* to DEADLOCK_BLOCK_MSEC; otherwise block_msec keeps the value it had.    *)
(***************************************************************************)
Async ==
  /\ pc = "Async" /\ Goto("CanBlock")
  /\ asynchRequest' = FALSE
  /\ UNCHANGED <<taskVars, regVars, irqVars, busVars, deadVars, txQueue,
                 owner, rxVars, evVars, crVars, devVars>>

MayBlock == (~PendingIrqAcks \/ ~rxBufferStatus) /\ ~IrqDetected

CanBlock ==
  /\ pc = "CanBlock"
  /\ again' = (MayBlock /\ txQueue # <<>>)
  /\ Goto(IF ~MayBlock THEN "Irq" ELSE IF again' THEN "Tx" ELSE "Block")
  /\ UNCHANGED <<notify, dropLeft, req, mask, regVars, irqVars, busVars,
                 deadVars, txVars, rxVars, evVars, crVars, devVars>>

Block ==
  /\ pc = "Block"
  /\ Goto(IF dmaComplete THEN "Irq" ELSE "Wait")
  /\ IF ~dmaComplete /\ creditDeadlock
     THEN /\ blockMsec' = "ms"
          /\ creditDeadlockCounter' = creditDeadlockCounter + 1
     ELSE UNCHANGED <<blockMsec, creditDeadlockCounter>>
  /\ UNCHANGED <<taskVars, regVars, irqVars, busVars, creditDeadlock, txVars,
                 rxVars, driverWakeEvent, toWake, freeing, crVars, devVars>>

(***************************************************************************)
(* Atheros_Driver_Task waits for driverWakeEvent, which the wait clears,   *)
(* or for the time to pass.                                                *)
(***************************************************************************)
WaitForEvent ==
  /\ pc = "Wait" /\ driverWakeEvent /\ Goto("Irq")
  /\ driverWakeEvent' = FALSE
  /\ UNCHANGED <<taskVars, regVars, irqVars, busVars, deadVars, txVars,
                 rxVars, blockMsec, toWake, freeing, crVars, devVars>>

WaitTimeout ==
  /\ pc = "Wait" /\ blockMsec = "ms" /\ Goto("Irq")
  /\ UNCHANGED <<taskVars, regVars, irqVars, busVars, deadVars, txVars,
                 rxVars, evVars, crVars, devVars>>

-----------------------------------------------------------------------------
(***************************************************************************)
(* HW_InterruptHandler, the interrupt service routine.                     *)
(***************************************************************************)
HW_InterruptHandler ==
  /\ edge /\ IrqsEnabled
  /\ edge' = FALSE
  /\ IrqDetected' = TRUE /\ IrqsEnabled' = FALSE /\ driverWakeEvent' = TRUE
  /\ UNCHANGED <<pc, taskVars, SpiIntEnableShadow, enableReg, cause,
                 PendingIrqAcks, CpuInterrupt, busVars, deadVars, txVars,
                 rxVars, blockMsec, toWake, freeing, crVars, devVars>>

(***************************************************************************)
(* User tasks.  Driver_SubmitTxRequest queues the request under the lock   *)
(* and wakes the driver after it released it; Api_TxGetStatus, with no     *)
(* request queued, sets asynchRequest and wakes the driver.                *)
(***************************************************************************)
Driver_SubmitTxRequest(r) ==
  /\ owner[r] = "user" /\ r \notin toWake /\ MutexFree
  /\ owner' = [owner EXCEPT ![r] = "driver"]
  /\ txQueue' = Append(txQueue, r)
  /\ toWake' = toWake \cup {r}
  /\ UNCHANGED <<pc, taskVars, regVars, irqVars, busVars, deadVars,
                 asynchRequest, rxVars, driverWakeEvent, blockMsec, freeing,
                 crVars, devVars>>

Api_TxGetStatus ==
  /\ Queries /\ ~asynchRequest /\ Query \notin toWake /\ txQueue = <<>>
  /\ pc \notin {"Send", "Transfer"}
  /\ asynchRequest' = TRUE
  /\ toWake' = toWake \cup {Query}
  /\ UNCHANGED <<pc, taskVars, regVars, irqVars, busVars, deadVars, txQueue,
                 owner, rxVars, driverWakeEvent, blockMsec, freeing,
                 crVars, devVars>>

Driver_WakeDriver(t) ==
  /\ t \in toWake
  /\ toWake' = toWake \ {t}
  /\ driverWakeEvent' = TRUE
  /\ UNCHANGED <<pc, taskVars, regVars, irqVars, busVars, deadVars, txVars,
                 rxVars, blockMsec, freeing, crVars, devVars>>

(***************************************************************************)
(* a_netbuf_free_rx_pool: the application gives a buffer back.  Holding the *)
(* lock, Driver_ReportRxBuffStatus raises the status and then looks at     *)
(* PendingIrqAcks, which the driver task writes without the lock.          *)
(***************************************************************************)
a_netbuf_free_rx_pool ==
  /\ rxApp > 0 /\ MutexFree
  /\ HoldsBuffers => \A r \in DataReqs : owner[r] = "user"
  /\ rxApp' = rxApp - 1 /\ rxFree' = rxFree + 1
  /\ rxBufferStatus' = TRUE
  /\ freeing' = ~rxBufferStatus
  /\ UNCHANGED <<pc, taskVars, regVars, irqVars, busVars, deadVars, txVars,
                 driverWakeEvent, blockMsec, toWake, crVars, devVars>>

\* Mutant: the task is not woken for the packets it left in the device.
Driver_ReportRxBuffStatusSilent ==
  /\ freeing
  /\ freeing' = FALSE
  /\ UNCHANGED <<pc, taskVars, regVars, irqVars, busVars, deadVars, txVars,
                 rxVars, driverWakeEvent, blockMsec, toWake, crVars, devVars>>

Driver_ReportRxBuffStatus ==
  /\ freeing
  /\ freeing' = FALSE
  /\ driverWakeEvent' = (driverWakeEvent \/ PendingIrqAcks)
  /\ UNCHANGED <<pc, taskVars, regVars, irqVars, busVars, deadVars, txVars,
                 rxVars, blockMsec, toWake, crVars, devVars>>

-----------------------------------------------------------------------------
(***************************************************************************)
(* The device.  A packet for the host arrives in two steps, its header     *)
(* first; one being sent passes the write buffer, holds a buffer, and      *)
(* frees its credit.  The watermark cause latches while the write buffer   *)
(* is below the mark.                                                      *)
(***************************************************************************)
DevRaise(s) ==
  /\ SetRegs(SpiIntEnableShadow, enableReg, cause \cup {s})
  /\ UNCHANGED <<pc, taskVars, irqVars, busVars, deadVars, txVars, rxVars,
                 evVars>>

DevPacketHeader ==
  /\ ~arriving /\ devRx < MaxRx /\ DevRaise("PKT_AVAIL")
  /\ arriving' = TRUE
  /\ UNCHANGED <<crVars, devRx, fifo, held, wmark>>

DevPacketBody ==
  /\ arriving /\ DevRaise("PKT_AVAIL")
  /\ arriving' = FALSE /\ devRx' = devRx + 1
  /\ UNCHANGED <<crVars, fifo, held, wmark>>

DevWatermark ==
  /\ wmark /\ Len(fifo) < FifoSize /\ "WMARK" \notin cause
  /\ DevRaise("WMARK")
  /\ UNCHANGED <<crVars, devVars>>

DevCpuOrError(s) ==
  /\ s \in DevSources \cap {"CPU", "ERROR"} /\ s \notin cause
  /\ DevRaise(s)
  /\ UNCHANGED <<crVars, devVars>>

DevDrain ==
  /\ fifo # <<>>
  /\ fifo' = Tail(fifo)
  /\ held' = [held EXCEPT ![Head(fifo)] = @ + 1]
  /\ UNCHANGED <<pc, taskVars, regVars, irqVars, busVars, deadVars, txVars,
                 rxVars, evVars, crVars, devRx, arriving, wmark>>

DevFreeCredit(e) ==
  /\ held[e] > 0
  /\ held' = [held EXCEPT ![e] = @ - 1]
  /\ freed' = [freed EXCEPT ![e] = @ + 1]
  /\ UNCHANGED <<pc, taskVars, regVars, irqVars, busVars, deadVars, txVars,
                 rxVars, evVars, credits, devRx, arriving, fifo, wmark>>

-----------------------------------------------------------------------------
DriverStep ==
  \/ HW_ProcessPendingInterrupts \/ Hcd_BusInterrupt \/ EnableOff \/ EnableOn
  \/ Driver_CompleteRequest \/ ProcessCpuInterrupt
  \/ Driver_RxReady \/ Hcd_GetLookAhead \/ RxIdle \/ Custom_GetRxRequest
  \/ \E toApp \in BOOLEAN : Driver_RxComplete(toApp)
  \/ \E poll \in 0..(DataCredits + 1) : Driver_TxReady(poll)
  \/ TxSpace
  \/ \E asleep \in BOOLEAN : Hcd_ProgramWriteBufferWaterMark(asleep)
  \/ Drop \/ Requeue \/ Driver_SendPacket \/ DoDMAOp
  \/ Async \/ CanBlock \/ Block \/ WaitForEvent \/ WaitTimeout

UserStep ==
  \/ \E r \in Reqs : Driver_SubmitTxRequest(r)
  \/ Api_TxGetStatus
  \/ \E t \in Reqs \cup {Query} : Driver_WakeDriver(t)
  \/ a_netbuf_free_rx_pool \/ Driver_ReportRxBuffStatus

DeviceStep ==
  \/ DevPacketHeader \/ DevPacketBody \/ DevWatermark
  \/ \E s \in Sources : DevCpuOrError(s)
  \/ DevDrain \/ \E e \in EP : DevFreeCredit(e)

Next == DriverStep \/ HW_InterruptHandler \/ UserStep \/ DeviceStep

Spec == Init /\ [][Next]_vars

-----------------------------------------------------------------------------
Labels == {"Irq", "Bus", "EnableOff", "EnableOn", "Complete", "Cpu", "Rx",
           "Look", "RxIdle", "Recv", "RxComplete", "Tx", "Space", "Wmark",
           "Drop", "Requeue", "Send", "Transfer", "Async", "CanBlock",
           "Block", "Wait", "Assert"}

(***************************************************************************)
(* Type correctness; creditDeadlockCounter never passes the number of      *)
(* attempts.                                                               *)
(***************************************************************************)
TypeOK ==
  /\ pc \in Labels /\ again \in BOOLEAN /\ notify \in BOOLEAN
  /\ dropLeft \in 0..Cardinality(Reqs) /\ req \in Reqs \cup {NoReq}
  /\ mask \in BOOLEAN
  /\ IrqsEnabled \in BOOLEAN /\ IrqDetected \in BOOLEAN
  /\ PendingIrqAcks \in BOOLEAN /\ CpuInterrupt \in BOOLEAN
  /\ SpiIntEnableShadow \subseteq Sources /\ enableReg \subseteq Sources
  /\ cause \subseteq Sources /\ edge \in BOOLEAN
  /\ WriteBufferSpace \in 0..FifoSize
  /\ fatalError \in BOOLEAN /\ dmaComplete \in BOOLEAN
  /\ writeWait \in BOOLEAN /\ pCurrentRequest \in Reqs \cup {NoReq}
  /\ txQueue \in Seq(Reqs) /\ owner \in [Reqs -> {"user", "driver"}]
  /\ credits \in [EP -> 0..(DataCredits + 1)]
  /\ creditDeadlock \in BOOLEAN
  /\ creditDeadlockCounter \in 0..MAX_CREDIT_DEADLOCK_ATTEMPTS
  /\ asynchRequest \in BOOLEAN
  /\ rxFree \in 0..RxBuffers /\ rxApp \in 0..RxBuffers
  /\ rxBufferStatus \in BOOLEAN
  /\ driverWakeEvent \in BOOLEAN /\ blockMsec \in {"forever", "ms"}
  /\ toWake \subseteq Reqs \cup {Query} /\ freeing \in BOOLEAN
  /\ devRx \in 0..MaxRx /\ arriving \in BOOLEAN
  /\ fifo \in Seq(EP)
  /\ held \in [EP -> Nat] /\ freed \in [EP -> Nat] /\ wmark \in BOOLEAN

(***************************************************************************)
(* A submitted request is in exactly one place of the driver: once in      *)
(* txQueue, or in the hands of Driver_SendPacket or the purge, or the      *)
(* current bus request.  So it completes once, and none is lost when the   *)
(* purge of Driver_DropTxDataPackets runs against Driver_SubmitTxRequest.  *)
(***************************************************************************)
Places(r) == Cardinality({i \in DOMAIN txQueue : txQueue[i] = r})
               + Cardinality({x \in {1} : req = r})
               + Cardinality({x \in {1} : pCurrentRequest = r})

RequestInOnePlace ==
  \A r \in Reqs : Places(r) = IF owner[r] = "driver" THEN 1 ELSE 0

(***************************************************************************)
(* No receive buffer is lost, rxBufferStatus tells the truth about the     *)
(* free queue, and so Custom_GetRxRequest never asserts ("should never     *)
(* happen thanks to HW_ReportRxBuffStatus").                               *)
(***************************************************************************)
RxBuffersConserved ==
  /\ rxFree + rxApp + Cardinality({x \in {1} : pc = "RxComplete"})
       = RxBuffers
  /\ rxBufferStatus <=> rxFree > 0
  /\ pc # "Assert"

(***************************************************************************)
(* PKT_AVAIL is masked exactly while packets are owed to Driver_RxReady:   *)
(* neither does the interrupt interrupt its own service nor is it left     *)
(* masked with nobody going to unmask it.                                  *)
(***************************************************************************)
PacketMaskDiscipline ==
  "PKT_AVAIL" \notin SpiIntEnableShadow <=> PendingIrqAcks \/ notify \/ mask

(***************************************************************************)
(* No interrupt is lost between the edge-triggered host and the device: an *)
(* enabled cause has made an edge the host has latched, or its service is  *)
(* under way and ends by making a new edge.                                *)
(***************************************************************************)
InterruptNotLost ==
  Line(enableReg, cause) => edge \/ IrqDetected \/ pc \in {"Bus", "EnableOff"}

(***************************************************************************)
(* A packet waiting in the device is announced: its cause is set, or the   *)
(* driver knows and will look.  So clearing the cause in Driver_RxReady    *)
(* never wipes out the announcement of a packet the lookahead missed.      *)
(***************************************************************************)
PacketAnnounced ==
  devRx > 0 \/ arriving => "PKT_AVAIL" \in cause \/ PendingIrqAcks \/ notify

(***************************************************************************)
(* While Driver_TxReady waits for buffer space the interrupt that ends the *)
(* wait is armed in the device and in the mask, and the wait ends with it. *)
(***************************************************************************)
WriteWaitArmed ==
  ~fatalError => /\ writeWait <=> wmark
                 /\ writeWait => "WMARK" \in SpiIntEnableShadow

(***************************************************************************)
(* The cached WriteBufferSpace never promises room the device lacks, so no *)
(* packet overruns its write buffer.                                       *)
(***************************************************************************)
CachedSpaceIsSafe ==
  WriteBufferSpace + Len(fifo) + Cardinality({x \in {1} : pc = "Transfer"})
    <= FifoSize

(***************************************************************************)
(* Every step of the driver task keeps to the credit window: it spends     *)
(* only credits it has and counts each returned one once, whether the      *)
(* COUNT register or a received packet brings it.                          *)
(***************************************************************************)
InUse(e) == held[e] + Cardinality({i \in DOMAIN fifo : fifo[i] = e})
              + Cardinality({x \in {1} : pc = "Transfer" /\ EpOf(req) = e})

CW == INSTANCE CreditWindow
        WITH window <- [e \in EP |-> IF e = "ctl" THEN 1 ELSE DataCredits],
             avail <- credits, inUse <- [e \in EP |-> InUse(e)],
             freed <- freed

KeepsCreditWindow == [][CW!CWNext]_(CW!cwVars)

(***************************************************************************)
(* The task never blocks without limit on work it could do: a request with *)
(* a credit, a packet with a buffer, an asynchronous request, a transfer   *)
(* to complete, or a credit deadlock only polling resolves.  What another  *)
(* task or the interrupt handler is about to announce does not count.      *)
(***************************************************************************)
HeadCredits == credits[EpOf(Head(txQueue))]

TxWork == /\ txQueue # <<>> /\ ~fatalError /\ ~writeWait
          /\ HeadCredits > 0 \/ ~rxBufferStatus

Asleep == pc = "Wait" /\ blockMsec = "forever" /\ ~driverWakeEvent

NoLostWakeup ==
  Asleep /\ toWake = {} /\ ~freeing =>
    /\ ~TxWork /\ ~asynchRequest /\ ~dmaComplete /\ ~IrqDetected
    /\ ~(PendingIrqAcks /\ rxBufferStatus)

(***************************************************************************)
(* Driver_DropTxDataPackets completes no control request: a control        *)
(* request comes back to its user only from the bus.                       *)
(***************************************************************************)
ControlNotDropped ==
  [][\A r \in CtlReqs : owner[r] = "driver" /\ owner'[r] = "user"
                          => pCurrentRequest = r]_vars

-----------------------------------------------------------------------------
(***************************************************************************)
(* Fairness: the task has the highest priority, an enabled interrupt is    *)
(* taken, user tasks finish the calls they began and give their buffers    *)
(* back, the device moves what it holds and reports freed credits.         *)
(***************************************************************************)
Fairness ==
  /\ WF_vars(DriverStep) /\ WF_vars(HW_InterruptHandler)
  /\ \A t \in Reqs \cup {Query} : WF_vars(Driver_WakeDriver(t))
  /\ SF_vars(a_netbuf_free_rx_pool) /\ WF_vars(Driver_ReportRxBuffStatus)
  /\ WF_vars(DevPacketBody) /\ WF_vars(DevWatermark) /\ WF_vars(DevDrain)
  /\ \A e \in EP : WF_vars(DevFreeCredit(e))
  /\ WF_vars((\E e \in EP : freed[e] > 0) /\ DevPacketHeader)

FairSpec == Spec /\ Fairness

(***************************************************************************)
(* Every submitted request completes, even when the application gives no   *)
(* receive buffer back before its data requests are done: sent, or purged  *)
(* by the credit deadlock counter.                                         *)
(***************************************************************************)
RequestsComplete == \A r \in Reqs : owner[r] = "driver" ~> owner[r] = "user"

(***************************************************************************)
(* A packet waiting in the device is received.                             *)
(***************************************************************************)
PacketsReceived == (devRx = MaxRx) ~> (devRx < MaxRx)

(***************************************************************************)
(* No request and no receive buffer is lost or in two places, whoever      *)
(* submits, completes, purges or gives back while the driver task runs.    *)
(***************************************************************************)
NothingLost == TypeOK /\ RequestInOnePlace /\ RxBuffersConserved

(***************************************************************************)
(* What the driver believes of the device is safe to act on: a packet that *)
(* waits is announced or known, and the cached room of the write buffer is *)
(* not more than there is.                                                 *)
(***************************************************************************)
DeviceViewAgrees == PacketAnnounced /\ CachedSpaceIsSafe

(***************************************************************************)
(* The device's interrupt mask agrees with the driver's: packets are       *)
(* unmasked as the receive buffers allow, and a wait for room has its      *)
(* watermark interrupt armed.                                              *)
(***************************************************************************)
MasksRight == PacketMaskDiscipline /\ WriteWaitArmed
=============================================================================
