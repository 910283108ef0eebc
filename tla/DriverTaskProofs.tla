-------------------------- MODULE DriverTaskProofs --------------------------
(***************************************************************************)
(* Proofs about DriverTask for every number of requests, credits, receive  *)
(* buffers and packets.                                                    *)
(*                                                                         *)
(* The inductive invariant is the conjunction of named parts, in the order *)
(* in which each rests on the earlier ones: the types, which flags can be  *)
(* up where the task is, the transmit queue, the receive buffers, the      *)
(* credits and the room of the write buffer, the interrupt masks, the      *)
(* announcements of packets, and the wake-ups.                             *)
(***************************************************************************)
EXTENDS DriverTask, QueueLemmas

(***************************************************************************)
(* Where the task is, and what it then knows.  Between Driver_TxReady and  *)
(* the end of the transfer nothing can come in between that ends the       *)
(* conditions under which it began.                                        *)
(***************************************************************************)
Sending == pc \in {"Space", "Wmark", "Send", "Transfer"}
Purging == pc \in {"Drop", "Requeue"}

TaskTypes ==
  /\ pc \in Labels /\ again \in BOOLEAN /\ notify \in BOOLEAN
  /\ mask \in BOOLEAN
BusTypes ==
  /\ fatalError \in BOOLEAN /\ dmaComplete \in BOOLEAN
  /\ writeWait \in BOOLEAN /\ wmark \in BOOLEAN /\ creditDeadlock \in BOOLEAN
  /\ creditDeadlockCounter \in 0..MAX_CREDIT_DEADLOCK_ATTEMPTS
IrqTypes ==
  /\ PendingIrqAcks \in BOOLEAN /\ IrqDetected \in BOOLEAN
  /\ IrqsEnabled \in BOOLEAN /\ CpuInterrupt \in BOOLEAN
  /\ edge \in BOOLEAN
EventTypes ==
  /\ rxBufferStatus \in BOOLEAN /\ asynchRequest \in BOOLEAN
  /\ freeing \in BOOLEAN /\ driverWakeEvent \in BOOLEAN
  /\ arriving \in BOOLEAN
  /\ blockMsec \in {"forever", "ms"}
  /\ toWake \subseteq Reqs \cup {Query}

FlagsByPlace ==
  /\ again => pc \in {"Tx", "Space", "Wmark", "Drop", "Requeue"}
  /\ notify => pc \in {"EnableOff", "EnableOn"}
  /\ mask => pc = "Transfer"
  /\ Sending \/ Purging => ~dmaComplete /\ ~writeWait
  /\ pc = "Wait" => ~dmaComplete
  /\ pc \in {"Look", "RxIdle", "Recv"} => rxBufferStatus
  /\ Purging => creditDeadlock
  /\ Sending => ~creditDeadlock
  /\ pc \in {"Async", "CanBlock", "Block"} /\ creditDeadlock => ~PurgeDue

(***************************************************************************)
(* The transmit queue holds each request once; a request of the driver's   *)
(* is queued, in the task's hands or on the bus, and never two of these.   *)
(* The purge asks for no more requests than are queued.                    *)
(***************************************************************************)
Queued(r) == \E i \in DOMAIN txQueue : txQueue[i] = r

QueueInv ==
  /\ txQueue \in Seq(Reqs) /\ owner \in [Reqs -> {"user", "driver"}]
  /\ req \in Reqs \cup {NoReq} /\ pCurrentRequest \in Reqs \cup {NoReq}
  /\ dropLeft \in Nat /\ dropLeft <= Cardinality(Reqs)
  /\ \A i, j \in DOMAIN txQueue : txQueue[i] = txQueue[j] => i = j
  /\ \A r \in Reqs : owner[r] = "driver" <=>
                       Queued(r) \/ req = r \/ pCurrentRequest = r
  /\ \A r \in Reqs : Queued(r) => req # r /\ pCurrentRequest # r
  /\ req # NoReq <=> pc \in {"Requeue", "Transfer"}
  /\ dmaComplete <=> pCurrentRequest # NoReq
  /\ Purging => dropLeft <= Len(txQueue)
  /\ pc \in {"Space", "Wmark", "Send"} => txQueue # <<>>

(***************************************************************************)
(* Receive buffers, and the packets the device has for them.               *)
(***************************************************************************)
BufferInv ==
  /\ rxFree \in Nat /\ rxApp \in Nat /\ devRx \in 0..MaxRx
  /\ rxFree + rxApp + (IF pc = "RxComplete" THEN 1 ELSE 0) = RxBuffers
  /\ rxBufferStatus <=> rxFree > 0
  /\ pc # "Assert"
  /\ pc \in {"Recv", "RxComplete"} => devRx > 0
  /\ arriving => devRx < MaxRx

(***************************************************************************)
(* Credits: what an endpoint was lent is with the driver, in use or freed; *)
(* from the moment Driver_TxReady found a credit, and room, to the moment  *)
(* Driver_SendPacket spends them they are there.                           *)
(***************************************************************************)
Window(e) == IF e = "ctl" THEN 1 ELSE DataCredits
OnBus(e)  == IF pc = "Transfer" /\ EpOf(req) = e THEN 1 ELSE 0
Spent(e)  == held[e] + Cardinality(At(fifo, e)) + OnBus(e)

CreditInv ==
  /\ credits \in [EP -> Nat] /\ freed \in [EP -> Nat] /\ held \in [EP -> Nat]
  /\ fifo \in Seq(EP) /\ WriteBufferSpace \in Nat
  /\ \A e \in EP : credits[e] + freed[e] + Spent(e) = Window(e)
  /\ WriteBufferSpace + Len(fifo) + (IF pc = "Transfer" THEN 1 ELSE 0)
       <= FifoSize
  /\ pc \in {"Space", "Wmark", "Send"} => HeadCredits > 0
  /\ pc = "Send" => WriteBufferSpace > 0

(***************************************************************************)
(* Interrupts.                                                             *)
(***************************************************************************)
IrqInv ==
  /\ SpiIntEnableShadow \subseteq Sources /\ enableReg \subseteq Sources
  /\ cause \subseteq Sources
  /\ MasksRight /\ InterruptNotLost
  /\ ~IrqsEnabled => IrqDetected \/ pc \in {"Bus", "EnableOff"}
  /\ pc = "EnableOn" => enableReg = {}
  /\ mask => ~PendingIrqAcks

AnnounceInv ==
  /\ PacketAnnounced
  /\ pc = "RxIdle" /\ (devRx > 0 \/ arriving) => "PKT_AVAIL" \in cause

(***************************************************************************)
(* Wake-ups: what turns up after the task has looked for it, on its way to *)
(* the wait, comes with a wake-up that is there or on its way.             *)
(***************************************************************************)
Deciding == pc \in {"Block", "Wait"} \/ again

WakeInv ==
  /\ (Deciding \/ pc = "CanBlock") /\ asynchRequest =>
       driverWakeEvent \/ toWake # {}
  /\ Deciding /\ IrqDetected => driverWakeEvent
  /\ Deciding /\ PendingIrqAcks /\ rxBufferStatus =>
       driverWakeEvent \/ freeing

TxWakeInv ==
  /\ pc = "Block" /\ TxWork =>
       driverWakeEvent \/ toWake # {} \/ creditDeadlock \/ dmaComplete
  /\ pc = "Wait" /\ blockMsec = "forever" /\ TxWork =>
       driverWakeEvent \/ toWake # {}

IInv ==
  /\ TaskTypes /\ BusTypes /\ IrqTypes /\ EventTypes /\ FlagsByPlace
  /\ QueueInv /\ BufferInv /\ CreditInv /\ IrqInv /\ AnnounceInv
  /\ WakeInv /\ (~CoreSleeps => TxWakeInv)

-----------------------------------------------------------------------------
(***************************************************************************)
(* Every step of the driver task, its users and the device leaves the      *)
(* flags of their types, and as FlagsByPlace says.                         *)
(***************************************************************************)
LEMMA TaskTypesKept ==
  ASSUME TaskTypes, [Next]_vars
  PROVE  TaskTypes'
<1> USE DEF TaskTypes, Labels, Goto, taskVars, regVars, irqVars, busVars,
            deadVars, txVars, rxVars, evVars, crVars, devVars
<1>1. CASE HW_ProcessPendingInterrupts
  BY <1>1 DEF HW_ProcessPendingInterrupts
<1>2. CASE Hcd_BusInterrupt
  <2>1. pc' = "EnableOff" /\ UNCHANGED <<again, mask>>
    BY <1>2 DEF Hcd_BusInterrupt
  <2>2. CASE BusError
    BY <2>1, <2>2 DEF BusError
  <2>3. CASE BusServe
    <3>1. notify' = ("PKT_AVAIL" \in Ints)
      BY <2>3 DEF BusServe
    <3>2. notify' \in BOOLEAN
      BY <3>1
    <3> QED BY <2>1, <3>2
  <2> QED BY <1>2, <2>2, <2>3 DEF Hcd_BusInterrupt
<1>3. CASE EnableOff
  BY <1>3 DEF EnableOff
<1>4. CASE EnableOn
  BY <1>4 DEF EnableOn, SetRegs
<1>5. CASE Driver_CompleteRequest
  BY <1>5 DEF Driver_CompleteRequest
<1>6. CASE ProcessCpuInterrupt
  BY <1>6 DEF ProcessCpuInterrupt, SetRegs, Hcd_UnmaskInterrupts
<1>7. CASE Driver_RxReady
  BY <1>7 DEF Driver_RxReady, RxPossible, SetRegs
<1>8. CASE Hcd_GetLookAhead
  BY <1>8 DEF Hcd_GetLookAhead
<1>9. CASE RxIdle
  BY <1>9 DEF RxIdle, SetRegs, Hcd_UnmaskInterrupts
<1>10. CASE Custom_GetRxRequest
  BY <1>10 DEF Custom_GetRxRequest, LastBuffer
<1>11. ASSUME NEW toApp \in BOOLEAN, Driver_RxComplete(toApp)
       PROVE  TaskTypes'
  BY <1>11 DEF Driver_RxComplete
<1>12. ASSUME NEW poll \in 0..(DataCredits + 1), Driver_TxReady(poll)
       PROVE  TaskTypes'
  BY <1>12 DEF Driver_TxReady, TxPossible, TxReturn, NoCredits
<1>13. CASE TxSpace
  BY <1>13 DEF TxSpace, TxReturn
<1>14. ASSUME NEW asleep \in BOOLEAN, Hcd_ProgramWriteBufferWaterMark(asleep)
       PROVE  TaskTypes'
  BY <1>14 DEF Hcd_ProgramWriteBufferWaterMark, TxReturn, SetRegs,
     Hcd_UnmaskInterrupts
<1>15. CASE Drop
  BY <1>15 DEF Drop, TxReturn
<1>16. CASE Requeue
  BY <1>16 DEF Requeue
<1>17. CASE Driver_SendPacket
  BY <1>17 DEF Driver_SendPacket, SetRegs, MaskSPIInterrupts
<1>18. CASE DoDMAOp
  BY <1>18 DEF DoDMAOp, Driver_PostProcessRequest, SetRegs,
     Hcd_UnmaskInterrupts
<1>19. CASE Async
  BY <1>19 DEF Async
<1>20. CASE CanBlock
  BY <1>20 DEF CanBlock, MayBlock
<1>21. CASE Block
  BY <1>21 DEF Block
<1>22. CASE WaitForEvent
  BY <1>22 DEF WaitForEvent
<1>23. CASE WaitTimeout
  BY <1>23 DEF WaitTimeout
<1>24. CASE \/ HW_InterruptHandler
            \/ \E r \in Reqs : Driver_SubmitTxRequest(r)
            \/ Api_TxGetStatus
            \/ \E t \in Reqs \cup {Query} : Driver_WakeDriver(t)
            \/ a_netbuf_free_rx_pool
            \/ Driver_ReportRxBuffStatus
            \/ DevPacketHeader
            \/ DevPacketBody
            \/ DevWatermark
            \/ \E s \in Sources : DevCpuOrError(s)
            \/ DevDrain
            \/ \E e \in EP : DevFreeCredit(e)
            \/ UNCHANGED vars
  <2>1. UNCHANGED <<pc, again, notify, mask>>
    BY <1>24 DEF HW_InterruptHandler, Driver_SubmitTxRequest, Api_TxGetStatus,
       Driver_WakeDriver, a_netbuf_free_rx_pool, MutexFree,
       Driver_ReportRxBuffStatus, DevPacketHeader, DevRaise, SetRegs,
       DevPacketBody, DevWatermark, DevCpuOrError, DevDrain, DevFreeCredit,
       vars
  <2> QED BY <2>1
<1> QED BY <1>1, <1>2, <1>3, <1>4, <1>5, <1>6, <1>7, <1>8, <1>9, <1>10, <1>11,
           <1>12, <1>13, <1>14, <1>15, <1>16, <1>17, <1>18, <1>19, <1>20,
           <1>21, <1>22, <1>23, <1>24
        DEF Next, DriverStep, UserStep, DeviceStep

\* The host controller's flags, and the deadlock counter, which NoCredits
\* raises and every other way out of Driver_TxReady clears.
LEMMA BusTypesKept ==
  ASSUME BusTypes, FlagsByPlace, [Next]_vars
  PROVE  BusTypes'
<1> USE DEF BusTypes, MAX_CREDIT_DEADLOCK_ATTEMPTS, Goto, taskVars, regVars,
            irqVars, busVars, deadVars, txVars, rxVars, evVars, crVars,
            devVars
<1>1. CASE Hcd_BusInterrupt
  BY <1>1 DEF Hcd_BusInterrupt, BusError, BusServe, SetRegs,
     MaskSPIInterrupts, EndsWait
<1>2. CASE Driver_CompleteRequest
  BY <1>2 DEF Driver_CompleteRequest
<1>3. ASSUME NEW poll \in 0..(DataCredits + 1), Driver_TxReady(poll)
      PROVE  BusTypes'
  <2>1. UNCHANGED <<fatalError, dmaComplete, writeWait, wmark>>
    BY <1>3 DEF Driver_TxReady
  <2>2. /\ creditDeadlock' = FALSE \/ creditDeadlock' = ~rxBufferStatus
        /\ creditDeadlockCounter' \in {0, creditDeadlockCounter}
    BY <1>3 DEF Driver_TxReady, NoCredits
  <2>3. creditDeadlock' \in BOOLEAN
    BY <2>2, Zenon
  <2> QED BY <2>1, <2>2, <2>3
<1>4. ASSUME NEW asleep \in BOOLEAN, Hcd_ProgramWriteBufferWaterMark(asleep)
      PROVE  BusTypes'
  BY <1>4 DEF Hcd_ProgramWriteBufferWaterMark, TxReturn, SetRegs,
     Hcd_UnmaskInterrupts
<1>5. CASE Drop
  BY <1>5 DEF Drop, TxReturn
<1>6. CASE DoDMAOp
  BY <1>6 DEF DoDMAOp, Driver_PostProcessRequest, SetRegs,
     Hcd_UnmaskInterrupts
<1>7. CASE Block
  BY <1>7 DEF Block, FlagsByPlace, PurgeDue
<1>8. CASE \/ HW_ProcessPendingInterrupts
           \/ EnableOff
           \/ EnableOn
           \/ ProcessCpuInterrupt
           \/ Driver_RxReady
           \/ Hcd_GetLookAhead
           \/ RxIdle
           \/ Custom_GetRxRequest
           \/ \E toApp \in BOOLEAN : Driver_RxComplete(toApp)
           \/ TxSpace
           \/ Requeue
           \/ Driver_SendPacket
           \/ Async
           \/ CanBlock
           \/ WaitForEvent
           \/ WaitTimeout
           \/ HW_InterruptHandler
           \/ \E r \in Reqs : Driver_SubmitTxRequest(r)
           \/ Api_TxGetStatus
           \/ \E t \in Reqs \cup {Query} : Driver_WakeDriver(t)
           \/ a_netbuf_free_rx_pool
           \/ Driver_ReportRxBuffStatus
           \/ DevPacketHeader
           \/ DevPacketBody
           \/ DevWatermark
           \/ \E s \in Sources : DevCpuOrError(s)
           \/ DevDrain
           \/ \E e \in EP : DevFreeCredit(e)
           \/ UNCHANGED vars
  <2>1. UNCHANGED <<fatalError, dmaComplete, writeWait, wmark, creditDeadlock,
       creditDeadlockCounter>>
    BY <1>8 DEF HW_ProcessPendingInterrupts, EnableOff, EnableOn, SetRegs,
       ProcessCpuInterrupt, Hcd_UnmaskInterrupts, Driver_RxReady, RxPossible,
       Hcd_GetLookAhead, RxIdle, Custom_GetRxRequest, LastBuffer,
       Driver_RxComplete, TxSpace, TxReturn, Requeue, Driver_SendPacket,
       MaskSPIInterrupts, Async, CanBlock, MayBlock, WaitForEvent,
       WaitTimeout, HW_InterruptHandler, Driver_SubmitTxRequest,
       Api_TxGetStatus, Driver_WakeDriver, a_netbuf_free_rx_pool, MutexFree,
       Driver_ReportRxBuffStatus, DevPacketHeader, DevRaise, DevPacketBody,
       DevWatermark, DevCpuOrError, DevDrain, DevFreeCredit, vars
  <2> QED BY <2>1
<1> QED BY <1>1, <1>2, <1>3, <1>4, <1>5, <1>6, <1>7, <1>8
        DEF Next, DriverStep, UserStep, DeviceStep

\* The interrupt flags of the handler and of Hcd_DoPendingInterrupts.
LEMMA IrqTypesKept ==
  ASSUME IrqTypes, [Next]_vars
  PROVE  IrqTypes'
<1> USE DEF IrqTypes, Goto, taskVars, regVars, irqVars, busVars, deadVars,
            txVars, rxVars, evVars, crVars, devVars
<1>1. CASE HW_ProcessPendingInterrupts
  BY <1>1 DEF HW_ProcessPendingInterrupts
<1>2. CASE Hcd_BusInterrupt
  BY <1>2 DEF Hcd_BusInterrupt, BusError, BusServe, SetRegs,
     MaskSPIInterrupts, EndsWait
<1>3. CASE EnableOff
  BY <1>3 DEF EnableOff
<1>4. CASE EnableOn
  BY <1>4 DEF EnableOn, SetRegs
<1>5. CASE ProcessCpuInterrupt
  BY <1>5 DEF ProcessCpuInterrupt, SetRegs, Hcd_UnmaskInterrupts
<1>6. CASE Driver_RxReady
  BY <1>6 DEF Driver_RxReady, RxPossible, SetRegs
<1>7. CASE RxIdle
  BY <1>7 DEF RxIdle, SetRegs, Hcd_UnmaskInterrupts
<1>8. ASSUME NEW asleep \in BOOLEAN, Hcd_ProgramWriteBufferWaterMark(asleep)
      PROVE  IrqTypes'
  BY <1>8 DEF Hcd_ProgramWriteBufferWaterMark, TxReturn, SetRegs,
     Hcd_UnmaskInterrupts
<1>9. CASE Driver_SendPacket
  BY <1>9 DEF Driver_SendPacket, SetRegs, MaskSPIInterrupts
<1>10. CASE DoDMAOp
  BY <1>10 DEF DoDMAOp, Driver_PostProcessRequest, SetRegs,
     Hcd_UnmaskInterrupts
<1>11. CASE HW_InterruptHandler
  BY <1>11 DEF HW_InterruptHandler
<1>12. CASE DevPacketHeader
  BY <1>12 DEF DevPacketHeader, DevRaise, SetRegs
<1>13. CASE DevPacketBody
  BY <1>13 DEF DevPacketBody, DevRaise, SetRegs
<1>14. CASE DevWatermark
  BY <1>14 DEF DevWatermark, DevRaise, SetRegs
<1>15. ASSUME NEW s \in Sources, DevCpuOrError(s)
       PROVE  IrqTypes'
  BY <1>15 DEF DevCpuOrError, DevRaise, SetRegs
<1>16. CASE \/ Driver_CompleteRequest
            \/ Hcd_GetLookAhead
            \/ Custom_GetRxRequest
            \/ \E toApp \in BOOLEAN : Driver_RxComplete(toApp)
            \/ \E poll \in 0..(DataCredits + 1) : Driver_TxReady(poll)
            \/ TxSpace
            \/ Drop
            \/ Requeue
            \/ Async
            \/ CanBlock
            \/ Block
            \/ WaitForEvent
            \/ WaitTimeout
            \/ \E r \in Reqs : Driver_SubmitTxRequest(r)
            \/ Api_TxGetStatus
            \/ \E t \in Reqs \cup {Query} : Driver_WakeDriver(t)
            \/ a_netbuf_free_rx_pool
            \/ Driver_ReportRxBuffStatus
            \/ DevDrain
            \/ \E e \in EP : DevFreeCredit(e)
            \/ UNCHANGED vars
  <2>1. UNCHANGED <<PendingIrqAcks, IrqDetected, IrqsEnabled, CpuInterrupt,
       edge>>
    BY <1>16 DEF Driver_CompleteRequest, Hcd_GetLookAhead,
       Custom_GetRxRequest, LastBuffer, Driver_RxComplete, Driver_TxReady,
       TxPossible, TxReturn, NoCredits, TxSpace, Drop, Requeue, Async,
       CanBlock, MayBlock, Block, WaitForEvent, WaitTimeout,
       Driver_SubmitTxRequest, Api_TxGetStatus, Driver_WakeDriver,
       a_netbuf_free_rx_pool, MutexFree, Driver_ReportRxBuffStatus, DevDrain,
       DevFreeCredit, vars
  <2> QED BY <2>1
<1> QED BY <1>1, <1>2, <1>3, <1>4, <1>5, <1>6, <1>7, <1>8, <1>9, <1>10, <1>11,
           <1>12, <1>13, <1>14, <1>15, <1>16
        DEF Next, DriverStep, UserStep, DeviceStep

\* What the users and the device share with the task.
LEMMA EventTypesKept ==
  ASSUME EventTypes, [Next]_vars
  PROVE  EventTypes'
<1> USE DEF EventTypes, Goto, taskVars, regVars, irqVars, busVars, deadVars,
            txVars, rxVars, evVars, crVars, devVars
<1>1. CASE Custom_GetRxRequest
  BY <1>1 DEF Custom_GetRxRequest, LastBuffer
<1>2. ASSUME NEW toApp \in BOOLEAN, Driver_RxComplete(toApp)
      PROVE  EventTypes'
  BY <1>2 DEF Driver_RxComplete
<1>3. CASE Async
  BY <1>3 DEF Async
<1>4. CASE Block
  BY <1>4 DEF Block
<1>5. CASE WaitForEvent
  BY <1>5 DEF WaitForEvent
<1>6. CASE HW_InterruptHandler
  BY <1>6 DEF HW_InterruptHandler
<1>7. ASSUME NEW r \in Reqs, Driver_SubmitTxRequest(r)
      PROVE  EventTypes'
  BY <1>7 DEF Driver_SubmitTxRequest
<1>8. CASE Api_TxGetStatus
  BY <1>8 DEF Api_TxGetStatus
<1>9. ASSUME NEW t \in Reqs \cup {Query}, Driver_WakeDriver(t)
      PROVE  EventTypes'
  BY <1>9 DEF Driver_WakeDriver
<1>10. CASE a_netbuf_free_rx_pool
  BY <1>10 DEF a_netbuf_free_rx_pool, MutexFree
<1>11. CASE Driver_ReportRxBuffStatus
  BY <1>11 DEF Driver_ReportRxBuffStatus
<1>12. CASE DevPacketHeader
  BY <1>12 DEF DevPacketHeader, DevRaise, SetRegs
<1>13. CASE DevPacketBody
  BY <1>13 DEF DevPacketBody, DevRaise, SetRegs
<1>14. CASE \/ HW_ProcessPendingInterrupts
            \/ Hcd_BusInterrupt
            \/ EnableOff
            \/ EnableOn
            \/ Driver_CompleteRequest
            \/ ProcessCpuInterrupt
            \/ Driver_RxReady
            \/ Hcd_GetLookAhead
            \/ RxIdle
            \/ \E poll \in 0..(DataCredits + 1) : Driver_TxReady(poll)
            \/ TxSpace
            \/ \E asleep \in BOOLEAN : Hcd_ProgramWriteBufferWaterMark(asleep)
            \/ Drop
            \/ Requeue
            \/ Driver_SendPacket
            \/ DoDMAOp
            \/ CanBlock
            \/ WaitTimeout
            \/ DevWatermark
            \/ \E s \in Sources : DevCpuOrError(s)
            \/ DevDrain
            \/ \E e \in EP : DevFreeCredit(e)
            \/ UNCHANGED vars
  <2>1. UNCHANGED <<rxBufferStatus, asynchRequest, freeing, driverWakeEvent,
       arriving, blockMsec, toWake>>
    BY <1>14 DEF HW_ProcessPendingInterrupts, Hcd_BusInterrupt, BusError,
       BusServe, SetRegs, MaskSPIInterrupts, EndsWait, EnableOff, EnableOn,
       Driver_CompleteRequest, ProcessCpuInterrupt, Hcd_UnmaskInterrupts,
       Driver_RxReady, RxPossible, Hcd_GetLookAhead, RxIdle, Driver_TxReady,
       TxPossible, TxReturn, NoCredits, TxSpace,
       Hcd_ProgramWriteBufferWaterMark, Drop, Requeue, Driver_SendPacket,
       DoDMAOp, Driver_PostProcessRequest, CanBlock, MayBlock, WaitTimeout,
       DevWatermark, DevRaise, DevCpuOrError, DevDrain, DevFreeCredit, vars
  <2> QED BY <2>1
<1> QED BY <1>1, <1>2, <1>3, <1>4, <1>5, <1>6, <1>7, <1>8, <1>9, <1>10, <1>11,
           <1>12, <1>13, <1>14
        DEF Next, DriverStep, UserStep, DeviceStep

\* Which flags can be up where the task is.
LEMMA FlagsKept ==
  ASSUME EventTypes, FlagsByPlace, [Next]_vars
  PROVE  FlagsByPlace'
<1> USE DEF EventTypes, FlagsByPlace, Sending, Purging, PurgeDue,
            MAX_CREDIT_DEADLOCK_ATTEMPTS, Goto, taskVars, regVars, irqVars,
            busVars, deadVars, txVars, rxVars, evVars, crVars, devVars
<1>1. CASE HW_ProcessPendingInterrupts
  BY <1>1 DEF HW_ProcessPendingInterrupts
<1>2. CASE Hcd_BusInterrupt
  BY <1>2 DEF Hcd_BusInterrupt, BusError, BusServe, SetRegs,
     MaskSPIInterrupts, EndsWait
<1>3. CASE EnableOff
  BY <1>3 DEF EnableOff
<1>4. CASE EnableOn
  BY <1>4 DEF EnableOn, SetRegs
<1>5. CASE Driver_CompleteRequest
  BY <1>5 DEF Driver_CompleteRequest
<1>6. CASE ProcessCpuInterrupt
  BY <1>6 DEF ProcessCpuInterrupt, SetRegs, Hcd_UnmaskInterrupts
<1>7. CASE Driver_RxReady
  BY <1>7 DEF Driver_RxReady, RxPossible, SetRegs
<1>8. CASE Hcd_GetLookAhead
  BY <1>8 DEF Hcd_GetLookAhead
<1>9. CASE RxIdle
  BY <1>9 DEF RxIdle, SetRegs, Hcd_UnmaskInterrupts
<1>10. CASE Custom_GetRxRequest
  BY <1>10 DEF Custom_GetRxRequest, LastBuffer
<1>11. ASSUME NEW toApp \in BOOLEAN, Driver_RxComplete(toApp)
       PROVE  FlagsByPlace'
  BY <1>11 DEF Driver_RxComplete
<1>12. ASSUME NEW poll \in 0..(DataCredits + 1), Driver_TxReady(poll)
       PROVE  FlagsByPlace'
  BY <1>12 DEF Driver_TxReady, TxPossible, TxReturn, NoCredits
<1>13. CASE TxSpace
  BY <1>13 DEF TxSpace, TxReturn
<1>14. ASSUME NEW asleep \in BOOLEAN, Hcd_ProgramWriteBufferWaterMark(asleep)
       PROVE  FlagsByPlace'
  BY <1>14 DEF Hcd_ProgramWriteBufferWaterMark, TxReturn, SetRegs,
     Hcd_UnmaskInterrupts
<1>15. CASE Drop
  BY <1>15 DEF Drop, TxReturn
<1>16. CASE Requeue
  BY <1>16 DEF Requeue
<1>17. CASE Driver_SendPacket
  BY <1>17 DEF Driver_SendPacket, SetRegs, MaskSPIInterrupts
<1>18. CASE DoDMAOp
  BY <1>18 DEF DoDMAOp, Driver_PostProcessRequest, SetRegs,
     Hcd_UnmaskInterrupts
<1>19. CASE Async
  BY <1>19 DEF Async
<1>20. CASE CanBlock
  BY <1>20 DEF CanBlock, MayBlock
<1>21. CASE Block
  BY <1>21 DEF Block
<1>22. CASE WaitForEvent
  BY <1>22 DEF WaitForEvent
<1>23. CASE WaitTimeout
  BY <1>23 DEF WaitTimeout
<1>24. CASE HW_InterruptHandler
  BY <1>24 DEF HW_InterruptHandler
<1>25. ASSUME NEW r \in Reqs, Driver_SubmitTxRequest(r)
       PROVE  FlagsByPlace'
  BY <1>25 DEF Driver_SubmitTxRequest
<1>26. CASE Api_TxGetStatus
  BY <1>26 DEF Api_TxGetStatus
<1>27. ASSUME NEW t \in Reqs \cup {Query}, Driver_WakeDriver(t)
       PROVE  FlagsByPlace'
  BY <1>27 DEF Driver_WakeDriver
<1>28. CASE a_netbuf_free_rx_pool
  BY <1>28 DEF a_netbuf_free_rx_pool, MutexFree
<1>29. CASE Driver_ReportRxBuffStatus
  BY <1>29 DEF Driver_ReportRxBuffStatus
<1>30. CASE DevPacketHeader
  BY <1>30 DEF DevPacketHeader, DevRaise, SetRegs
<1>31. CASE DevPacketBody
  BY <1>31 DEF DevPacketBody, DevRaise, SetRegs
<1>32. CASE DevWatermark
  BY <1>32 DEF DevWatermark, DevRaise, SetRegs
<1>33. ASSUME NEW s \in Sources, DevCpuOrError(s)
       PROVE  FlagsByPlace'
  BY <1>33 DEF DevCpuOrError, DevRaise, SetRegs
<1>34. CASE DevDrain
  BY <1>34 DEF DevDrain
<1>35. ASSUME NEW e \in EP, DevFreeCredit(e)
       PROVE  FlagsByPlace'
  BY <1>35 DEF DevFreeCredit
<1>36. CASE UNCHANGED vars
  BY <1>36 DEF vars
<1> QED BY <1>1, <1>2, <1>3, <1>4, <1>5, <1>6, <1>7, <1>8, <1>9, <1>10, <1>11,
           <1>12, <1>13, <1>14, <1>15, <1>16, <1>17, <1>18, <1>19, <1>20,
           <1>21, <1>22, <1>23, <1>24, <1>25, <1>26, <1>27, <1>28, <1>29,
           <1>30, <1>31, <1>32, <1>33, <1>34, <1>35, <1>36
        DEF Next, DriverStep, UserStep, DeviceStep

-----------------------------------------------------------------------------
(***************************************************************************)
(* The transmit queue.                                                     *)
(***************************************************************************)
LEMMA SubmitKeepsQueue ==
  ASSUME QueueInv, NEW r \in Reqs, Driver_SubmitTxRequest(r)
  PROVE  QueueInv'
<1>1. /\ owner[r] = "user" /\ owner' = [owner EXCEPT ![r] = "driver"]
      /\ txQueue' = Append(txQueue, r)
      /\ UNCHANGED <<pc, req, dropLeft, pCurrentRequest, dmaComplete>>
  BY DEF Driver_SubmitTxRequest, taskVars, busVars
<1>2. ~Queued(r) /\ req # r /\ pCurrentRequest # r
  BY <1>1 DEF QueueInv
<1>3. /\ txQueue' \in Seq(Reqs) /\ Len(txQueue') = Len(txQueue) + 1
      /\ \A x : Queued(x)' <=> Queued(x) \/ x = r
      /\ \A i, j \in DOMAIN txQueue' : txQueue'[i] = txQueue'[j] => i = j
  BY <1>1, <1>2, AppendElements DEF QueueInv, Queued
<1>4. Len(txQueue) \in Nat /\ txQueue' # <<>>
  BY <1>3 DEF QueueInv
<1>5. \A x \in Reqs : owner'[x] = IF x = r THEN "driver" ELSE owner[x]
  BY <1>1 DEF QueueInv
<1>6. \A x \in Reqs : owner'[x] = "driver" <=>
                        Queued(x)' \/ req' = x \/ pCurrentRequest' = x
  BY <1>1, <1>3, <1>5 DEF QueueInv
<1>7. \A x \in Reqs : Queued(x)' => req' # x /\ pCurrentRequest' # x
  BY <1>1, <1>2, <1>3 DEF QueueInv
<1>8. owner' \in [Reqs -> {"user", "driver"}]
  BY <1>1 DEF QueueInv
<1> HIDE DEF Queued
<1> QED BY <1>1, <1>3, <1>4, <1>6, <1>7, <1>8 DEF QueueInv, Purging

(***************************************************************************)
(* Taking the head off the queue, by Driver_SendPacket and by the purge.   *)
(***************************************************************************)
LEMMA HeadTaken ==
  ASSUME QueueInv, txQueue # <<>>, txQueue' = Tail(txQueue)
  PROVE  /\ Head(txQueue) \in Reqs /\ owner[Head(txQueue)] = "driver"
         /\ pCurrentRequest # Head(txQueue) /\ req # Head(txQueue)
         /\ txQueue' \in Seq(Reqs) /\ Len(txQueue') = Len(txQueue) - 1
         /\ \A x : Queued(x)' <=> Queued(x) /\ x # Head(txQueue)
         /\ \A i, j \in DOMAIN txQueue' : txQueue'[i] = txQueue'[j] => i = j
<1>1. /\ txQueue \in Seq(Reqs)
      /\ \A i, j \in DOMAIN txQueue : txQueue[i] = txQueue[j] => i = j
  BY DEF QueueInv
<1>2. /\ Head(txQueue) \in Reqs
      /\ txQueue' \in Seq(Reqs) /\ Len(txQueue') = Len(txQueue) - 1
      /\ \A i, j \in DOMAIN txQueue' : txQueue'[i] = txQueue'[j] => i = j
  BY <1>1, TailElements
<1>3. Queued(Head(txQueue))
  BY <1>1, TailElements DEF Queued
<1>4. \A x : Queued(x)' <=> Queued(x) /\ x # Head(txQueue)
  BY <1>1, TailElements DEF Queued
<1> QED BY <1>2, <1>3, <1>4 DEF QueueInv

\* Driver_SendPacket takes the head of the queue into the task's hands.
LEMMA SendKeepsQueue ==
  ASSUME QueueInv, Driver_SendPacket
  PROVE  QueueInv'
<1>1. /\ pc = "Send" /\ pc' = "Transfer"
      /\ txQueue' = Tail(txQueue) /\ req' = Head(txQueue)
      /\ UNCHANGED <<owner, dropLeft, pCurrentRequest, dmaComplete>>
  BY DEF Driver_SendPacket, Goto
<1>2. txQueue # <<>> /\ req = NoReq
  BY <1>1 DEF QueueInv
<1>3. /\ Head(txQueue) \in Reqs /\ owner[Head(txQueue)] = "driver"
      /\ pCurrentRequest # Head(txQueue)
      /\ txQueue' \in Seq(Reqs)
      /\ \A x : Queued(x)' <=> Queued(x) /\ x # Head(txQueue)
      /\ \A i, j \in DOMAIN txQueue' : txQueue'[i] = txQueue'[j] => i = j
  BY <1>1, <1>2, HeadTaken
<1> HIDE DEF Queued
<1>4. \A x \in Reqs : owner'[x] = "driver" <=>
                        Queued(x)' \/ req' = x \/ pCurrentRequest' = x
  BY <1>1, <1>2, <1>3, ReqAssumption DEF QueueInv
<1>5. \A x \in Reqs : Queued(x)' => req' # x /\ pCurrentRequest' # x
  BY <1>1, <1>3 DEF QueueInv
<1>6. req' # NoReq
  BY <1>1, <1>3, ReqAssumption
<1> QED BY <1>1, <1>3, <1>4, <1>5, <1>6 DEF QueueInv, Purging

\* The purge completes a data request, and takes a control one in hand.
LEMMA DropKeepsQueue ==
  ASSUME QueueInv, Drop
  PROVE  QueueInv'
<1>1. pc = "Drop" /\ UNCHANGED <<pCurrentRequest, dmaComplete>> /\ req = NoReq
  BY DEF Drop, busVars, QueueInv
<1>2. dropLeft \in Nat /\ Len(txQueue) \in Nat /\ dropLeft <= Len(txQueue)
  BY <1>1 DEF QueueInv, Purging
<1>3. CASE dropLeft = 0
  <2>1. /\ UNCHANGED <<dropLeft, req, txQueue, owner>>
        /\ pc' \in {"Irq", "Block", "Send", "Async"} /\ pc' # "Send"
    BY <1>3 DEF Drop, TxReturn, Goto
  <2> QED BY <1>1, <2>1 DEF QueueInv, Purging, Queued
<1>4. CASE dropLeft # 0
  <2>1. /\ txQueue # <<>> /\ txQueue' = Tail(txQueue)
        /\ dropLeft' = dropLeft - 1
    BY <1>2, <1>4 DEF Drop, QueueInv
  <2>2. /\ Head(txQueue) \in Reqs /\ owner[Head(txQueue)] = "driver"
        /\ pCurrentRequest # Head(txQueue)
        /\ txQueue' \in Seq(Reqs) /\ Len(txQueue') = Len(txQueue) - 1
        /\ \A x : Queued(x)' <=> Queued(x) /\ x # Head(txQueue)
        /\ \A i, j \in DOMAIN txQueue' : txQueue'[i] = txQueue'[j] => i = j
    BY <2>1, HeadTaken
  <2>3. dropLeft' \in Nat /\ dropLeft' <= Len(txQueue')
          /\ dropLeft' <= dropLeft
    BY <1>2, <1>4, <2>1, <2>2
  <2>0. dropLeft' <= Cardinality(Reqs)
    <3>1. Cardinality(Reqs) \in Nat
      BY ReqAssumption, FS_CardinalityType
    <3> QED BY <1>2, <2>3, <3>1 DEF QueueInv
  <2>4. CASE Droppable(Head(txQueue))
    <3>1. /\ owner' = [owner EXCEPT ![Head(txQueue)] = "user"]
          /\ UNCHANGED <<pc, req>>
      BY <1>4, <2>4 DEF Drop, Complete
    <3>2. \A x \in Reqs : owner'[x] = "driver" <=>
                            Queued(x)' \/ req' = x \/ pCurrentRequest' = x
      BY <1>1, <2>2, <3>1, ReqAssumption DEF QueueInv
    <3>3. \A x \in Reqs : Queued(x)' => req' # x /\ pCurrentRequest' # x
      BY <1>1, <2>2, <3>1 DEF QueueInv
    <3>4. owner' \in [Reqs -> {"user", "driver"}]
      BY <3>1 DEF QueueInv
    <3> QED BY <1>1, <2>0, <2>2, <2>3, <3>1, <3>2, <3>3, <3>4
            DEF QueueInv, Purging
  <2>5. CASE ~Droppable(Head(txQueue))
    <3>1. /\ req' = Head(txQueue) /\ pc' = "Requeue" /\ owner' = owner
      BY <1>4, <2>5 DEF Drop, Goto
    <3>2. \A x \in Reqs : owner'[x] = "driver" <=>
                            Queued(x)' \/ req' = x \/ pCurrentRequest' = x
      BY <1>1, <2>2, <3>1, ReqAssumption DEF QueueInv
    <3>3. \A x \in Reqs : Queued(x)' => req' # x /\ pCurrentRequest' # x
      BY <1>1, <2>2, <3>1 DEF QueueInv
    <3>4. req' # NoReq
      BY <2>2, <3>1, ReqAssumption
    <3> QED BY <1>1, <2>0, <2>2, <2>3, <3>1, <3>2, <3>3, <3>4
            DEF QueueInv, Purging
  <2> QED BY <2>4, <2>5
<1> QED BY <1>3, <1>4

\* A control request goes back, at the tail of the queue.
LEMMA RequeueKeepsQueue ==
  ASSUME QueueInv, FlagsByPlace, Requeue
  PROVE  QueueInv'
<1>1. /\ pc = "Requeue" /\ pc' = "Drop"
      /\ txQueue' = Append(txQueue, req) /\ req' = NoReq
      /\ UNCHANGED <<owner, dropLeft, pCurrentRequest, dmaComplete>>
  BY DEF Requeue, Goto, busVars
<1>2. req \in Reqs /\ ~Queued(req) /\ pCurrentRequest # req
  <2>1. req \in Reqs /\ pCurrentRequest = NoReq
    BY <1>1 DEF QueueInv, FlagsByPlace, Purging
  <2> QED BY <2>1, ReqAssumption DEF QueueInv
<1>3. /\ txQueue' \in Seq(Reqs) /\ Len(txQueue') = Len(txQueue) + 1
      /\ \A x : Queued(x)' <=> Queued(x) \/ x = req
      /\ \A i, j \in DOMAIN txQueue' : txQueue'[i] = txQueue'[j] => i = j
  BY <1>1, <1>2, AppendElements DEF QueueInv, Queued
<1>4. /\ Len(txQueue) \in Nat /\ dropLeft \in Nat
      /\ dropLeft <= Len(txQueue)
  BY <1>1 DEF QueueInv, Purging
<1>5. \A x \in Reqs : owner'[x] = "driver" <=>
                        Queued(x)' \/ req' = x \/ pCurrentRequest' = x
  BY <1>1, <1>2, <1>3, ReqAssumption DEF QueueInv
<1>6. \A x \in Reqs : Queued(x)' => req' # x /\ pCurrentRequest' # x
  BY <1>1, <1>2, <1>3, ReqAssumption DEF QueueInv
<1> QED BY <1>1, <1>3, <1>4, <1>5, <1>6 DEF QueueInv, Purging

\* The transfer puts the request in hand on the bus.
LEMMA TransferKeepsQueue ==
  ASSUME QueueInv, FlagsByPlace, DoDMAOp
  PROVE  QueueInv'
<1>1. /\ pc = "Transfer" /\ pc' = "Async"
      /\ pCurrentRequest' = req /\ req' = NoReq /\ dmaComplete' = TRUE
      /\ UNCHANGED <<txQueue, owner, dropLeft>>
  BY DEF DoDMAOp, Goto, Driver_PostProcessRequest, txVars
<1>2. pCurrentRequest = NoReq /\ req \in Reqs /\ req # NoReq
  BY <1>1 DEF FlagsByPlace, Sending, QueueInv
<1>3. \A x : Queued(x)' <=> Queued(x)
  BY <1>1 DEF Queued
<1> QED BY <1>1, <1>2, <1>3, ReqAssumption DEF QueueInv, Purging

\* A completed transfer gives the request back to its user.
LEMMA CompleteKeepsQueue ==
  ASSUME QueueInv, Driver_CompleteRequest
  PROVE  QueueInv'
<1>1. /\ pc = "Complete" /\ pc' = "Cpu" /\ UNCHANGED <<txQueue, req, dropLeft>>
  BY DEF Driver_CompleteRequest, Goto, taskVars
<1>2. \A x : Queued(x)' <=> Queued(x)
  BY <1>1 DEF Queued
<1>3. CASE dmaComplete
  <2>1. /\ owner' = [owner EXCEPT ![pCurrentRequest] = "user"]
        /\ pCurrentRequest' = NoReq /\ dmaComplete' = FALSE
    BY <1>3 DEF Driver_CompleteRequest, Complete
  <2>2. pCurrentRequest \in Reqs /\ req = NoReq
    BY <1>1, <1>3 DEF QueueInv
  <2> QED BY <1>1, <1>2, <2>1, <2>2, ReqAssumption DEF QueueInv, Purging
<1>4. CASE ~dmaComplete
  <2>1. UNCHANGED <<owner, pCurrentRequest, dmaComplete>>
    BY <1>4 DEF Driver_CompleteRequest
  <2> QED BY <1>1, <1>2, <2>1 DEF QueueInv, Purging
<1> QED BY <1>3, <1>4

\* Driver_TxReady starts a purge of as many requests as are queued.
LEMMA TxReadyKeepsQueue ==
  ASSUME QueueInv, NEW poll \in 0..(DataCredits + 1), Driver_TxReady(poll)
  PROVE  QueueInv'
<1>1. /\ pc = "Tx"
      /\ UNCHANGED <<txQueue, owner, req, pCurrentRequest, dmaComplete>>
  BY DEF Driver_TxReady, txVars, busVars
<1>2. \A x : Queued(x)' <=> Queued(x)
  BY <1>1 DEF Queued
<1>3. Len(txQueue) \in Nat /\ Len(txQueue) <= Cardinality(Reqs)
  BY ReqAssumption, NoMoreThan DEF QueueInv
<1>4. \/ pc' \in {"Irq", "Block", "Async"} /\ UNCHANGED dropLeft
      \/ pc' = "Drop" /\ dropLeft' = Len(txQueue)
      \/ pc' = "Space" /\ txQueue # <<>> /\ UNCHANGED dropLeft
  BY DEF Driver_TxReady, TxPossible, NoCredits, TxReturn, Goto
<1> QED BY <1>1, <1>2, <1>3, <1>4 DEF QueueInv, Purging

\* Every step keeps the transmit queue as QueueInv says.
LEMMA QueueKept ==
  ASSUME QueueInv, FlagsByPlace, [Next]_vars
  PROVE  QueueInv'
<1>1. CASE \/ HW_ProcessPendingInterrupts
           \/ Hcd_BusInterrupt
           \/ EnableOff
           \/ EnableOn
           \/ ProcessCpuInterrupt
           \/ Driver_RxReady
           \/ Hcd_GetLookAhead
           \/ RxIdle
           \/ Custom_GetRxRequest
           \/ \E toApp \in BOOLEAN : Driver_RxComplete(toApp)
           \/ Async
           \/ CanBlock
           \/ Block
           \/ WaitForEvent
           \/ WaitTimeout
  <2>1. /\ UNCHANGED <<txQueue, owner, req, dropLeft, pCurrentRequest,
                      dmaComplete>>
        /\ ~Sending /\ ~Purging /\ ~Sending' /\ ~Purging'
    BY <1>1 DEF Sending, Purging, HW_ProcessPendingInterrupts,
       Hcd_BusInterrupt, BusError,
       BusServe, SetRegs, MaskSPIInterrupts, EndsWait, EnableOff, EnableOn,
       ProcessCpuInterrupt, Hcd_UnmaskInterrupts, Driver_RxReady, RxPossible,
       Hcd_GetLookAhead, RxIdle, Custom_GetRxRequest, LastBuffer,
       Driver_RxComplete, Async, CanBlock, MayBlock, Block, WaitForEvent,
       WaitTimeout, Goto, taskVars, regVars, irqVars, busVars, deadVars,
       txVars, rxVars, evVars, crVars, devVars
  <2> QED BY <2>1 DEF QueueInv, Queued, Sending, Purging
<1>2. CASE \/ TxSpace
           \/ \E asleep \in BOOLEAN : Hcd_ProgramWriteBufferWaterMark(asleep)
  <2>1. /\ UNCHANGED <<txQueue, owner, req, dropLeft, pCurrentRequest,
                      dmaComplete>>
        /\ pc \in {"Space", "Wmark"}
        /\ pc' \in {"Wmark", "Send", "Irq", "Block", "Async"}
    BY <1>2 DEF TxSpace, TxReturn, Hcd_ProgramWriteBufferWaterMark, SetRegs,
       Hcd_UnmaskInterrupts, Goto, taskVars, regVars, irqVars, busVars,
       deadVars, txVars, rxVars, evVars, crVars, devVars
  <2> QED BY <2>1 DEF QueueInv, Queued, Purging
<1>3. CASE \/ HW_InterruptHandler
           \/ Api_TxGetStatus
           \/ \E t \in Reqs \cup {Query} : Driver_WakeDriver(t)
           \/ a_netbuf_free_rx_pool
           \/ Driver_ReportRxBuffStatus
           \/ DevPacketHeader
           \/ DevPacketBody
           \/ DevWatermark
           \/ \E s \in Sources : DevCpuOrError(s)
           \/ DevDrain
           \/ \E e \in EP : DevFreeCredit(e)
           \/ UNCHANGED vars
  <2>1. UNCHANGED <<pc, txQueue, owner, req, dropLeft, pCurrentRequest,
                    dmaComplete>>
    BY <1>3 DEF HW_InterruptHandler, Api_TxGetStatus, Driver_WakeDriver,
       a_netbuf_free_rx_pool, MutexFree, Driver_ReportRxBuffStatus,
       DevPacketHeader, DevRaise, SetRegs, DevPacketBody, DevWatermark,
       DevCpuOrError, DevDrain, DevFreeCredit, Goto, taskVars, regVars,
       irqVars, busVars, deadVars, txVars, rxVars, evVars, crVars, devVars,
       vars
  <2> QED BY <2>1 DEF QueueInv, Queued, Purging
<1> QED BY <1>1, <1>2, <1>3, CompleteKeepsQueue, TxReadyKeepsQueue,
           DropKeepsQueue, RequeueKeepsQueue, SendKeepsQueue,
           TransferKeepsQueue, SubmitKeepsQueue
        DEF Next, DriverStep, UserStep, DeviceStep

\* Every step keeps the receive buffers: each is in the pool, with the
\* application, or in the task's hands.
LEMMA BuffersKept ==
  ASSUME BufferInv, FlagsByPlace, EventTypes, [Next]_vars
  PROVE  BufferInv'
<1> USE DEF BufferInv, FlagsByPlace, EventTypes, Goto, taskVars, regVars,
            irqVars, busVars, deadVars, txVars, rxVars, evVars, crVars,
            devVars
<1>1. CASE HW_ProcessPendingInterrupts
  BY <1>1 DEF HW_ProcessPendingInterrupts
<1>2. CASE Hcd_BusInterrupt
  BY <1>2 DEF Hcd_BusInterrupt, BusError, BusServe, SetRegs,
     MaskSPIInterrupts, EndsWait
<1>3. CASE EnableOff
  BY <1>3 DEF EnableOff
<1>4. CASE EnableOn
  BY <1>4 DEF EnableOn, SetRegs
<1>5. CASE Driver_CompleteRequest
  BY <1>5 DEF Driver_CompleteRequest
<1>6. CASE ProcessCpuInterrupt
  BY <1>6 DEF ProcessCpuInterrupt, SetRegs, Hcd_UnmaskInterrupts
<1>7. CASE Driver_RxReady
  BY <1>7 DEF Driver_RxReady, RxPossible, SetRegs
<1>8. CASE Hcd_GetLookAhead
  BY <1>8 DEF Hcd_GetLookAhead
<1>9. CASE RxIdle
  BY <1>9 DEF RxIdle, SetRegs, Hcd_UnmaskInterrupts
<1>10. CASE Custom_GetRxRequest
  <2>1. rxFree > 0 /\ pc = "Recv"
    BY <1>10 DEF Custom_GetRxRequest
  <2>2. /\ pc' = "RxComplete" /\ rxFree' = rxFree - 1
        /\ UNCHANGED <<rxApp, devRx, arriving>>
        /\ rxBufferStatus' = (rxBufferStatus /\ ~LastBuffer)
    BY <1>10, <2>1 DEF Custom_GetRxRequest
  <2>3. rxBufferStatus' <=> ~LastBuffer
    BY <2>1, <2>2
  <2>4. rxBufferStatus' <=> rxFree' > 0
    BY <2>1, <2>2, <2>3 DEF LastBuffer
  <2> QED BY <2>1, <2>2, <2>4
<1>11. ASSUME NEW toApp \in BOOLEAN, Driver_RxComplete(toApp)
       PROVE  BufferInv'
  <2>1. pc = "RxComplete" /\ pc' = "Tx" /\ devRx' = devRx - 1
    BY <1>11 DEF Driver_RxComplete
  <2>2. devRx' \in 0..MaxRx /\ (arriving' => devRx' < MaxRx)
    BY <1>11, <2>1, CountAssumption DEF Driver_RxComplete
  <2>3. CASE toApp
    <3>1. rxApp' = rxApp + 1 /\ UNCHANGED <<rxFree, rxBufferStatus>>
      BY <1>11, <2>3 DEF Driver_RxComplete
    <3> QED BY <2>1, <2>2, <3>1
  <2>4. CASE ~toApp
    <3>1. rxFree' = rxFree + 1 /\ rxBufferStatus' = TRUE /\ UNCHANGED rxApp
      BY <1>11, <2>4 DEF Driver_RxComplete
    <3> QED BY <2>1, <2>2, <3>1
  <2> QED BY <2>3, <2>4
<1>12. ASSUME NEW poll \in 0..(DataCredits + 1), Driver_TxReady(poll)
       PROVE  BufferInv'
  BY <1>12 DEF Driver_TxReady, TxPossible, TxReturn, NoCredits
<1>13. CASE TxSpace
  BY <1>13 DEF TxSpace, TxReturn
<1>14. ASSUME NEW asleep \in BOOLEAN, Hcd_ProgramWriteBufferWaterMark(asleep)
       PROVE  BufferInv'
  BY <1>14 DEF Hcd_ProgramWriteBufferWaterMark, TxReturn, SetRegs,
     Hcd_UnmaskInterrupts
<1>15. CASE Drop
  BY <1>15 DEF Drop, TxReturn
<1>16. CASE Requeue
  BY <1>16 DEF Requeue
<1>17. CASE Driver_SendPacket
  BY <1>17 DEF Driver_SendPacket, SetRegs, MaskSPIInterrupts
<1>18. CASE DoDMAOp
  BY <1>18 DEF DoDMAOp, Driver_PostProcessRequest, SetRegs,
     Hcd_UnmaskInterrupts
<1>19. CASE Async
  BY <1>19 DEF Async
<1>20. CASE CanBlock
  BY <1>20 DEF CanBlock, MayBlock
<1>21. CASE Block
  BY <1>21 DEF Block
<1>22. CASE WaitForEvent
  BY <1>22 DEF WaitForEvent
<1>23. CASE WaitTimeout
  BY <1>23 DEF WaitTimeout
<1>24. CASE HW_InterruptHandler
  BY <1>24 DEF HW_InterruptHandler
<1>25. ASSUME NEW r \in Reqs, Driver_SubmitTxRequest(r)
       PROVE  BufferInv'
  BY <1>25 DEF Driver_SubmitTxRequest
<1>26. CASE Api_TxGetStatus
  BY <1>26 DEF Api_TxGetStatus
<1>27. ASSUME NEW t \in Reqs \cup {Query}, Driver_WakeDriver(t)
       PROVE  BufferInv'
  BY <1>27 DEF Driver_WakeDriver
<1>28. CASE a_netbuf_free_rx_pool
  BY <1>28 DEF a_netbuf_free_rx_pool, MutexFree
<1>29. CASE Driver_ReportRxBuffStatus
  BY <1>29 DEF Driver_ReportRxBuffStatus
<1>30. CASE DevPacketHeader
  BY <1>30 DEF DevPacketHeader, DevRaise, SetRegs
<1>31. CASE DevPacketBody
  <2>1. /\ arriving /\ arriving' = FALSE /\ devRx' = devRx + 1
        /\ UNCHANGED <<pc, rxFree, rxApp, rxBufferStatus>>
    BY <1>31 DEF DevPacketBody, DevRaise
  <2> QED BY <2>1, CountAssumption
<1>32. CASE DevWatermark
  BY <1>32 DEF DevWatermark, DevRaise, SetRegs
<1>33. ASSUME NEW s \in Sources, DevCpuOrError(s)
       PROVE  BufferInv'
  BY <1>33 DEF DevCpuOrError, DevRaise, SetRegs
<1>34. CASE DevDrain
  BY <1>34 DEF DevDrain
<1>35. ASSUME NEW e \in EP, DevFreeCredit(e)
       PROVE  BufferInv'
  BY <1>35 DEF DevFreeCredit
<1>36. CASE UNCHANGED vars
  BY <1>36 DEF vars
<1> QED BY <1>1, <1>2, <1>3, <1>4, <1>5, <1>6, <1>7, <1>8, <1>9, <1>10, <1>11,
           <1>12, <1>13, <1>14, <1>15, <1>16, <1>17, <1>18, <1>19, <1>20,
           <1>21, <1>22, <1>23, <1>24, <1>25, <1>26, <1>27, <1>28, <1>29,
           <1>30, <1>31, <1>32, <1>33, <1>34, <1>35, <1>36
        DEF Next, DriverStep, UserStep, DeviceStep

(***************************************************************************)
(* A change of the registers that puts the line up makes an edge, or finds *)
(* the host about to look at the causes.                                   *)
(***************************************************************************)
LEMMA EdgeMade ==
  ASSUME IrqInv, pc \notin {"Bus", "EnableOff"},
         UNCHANGED <<IrqsEnabled, IrqDetected>>,
         NEW shadow, NEW en, NEW ca, SetRegs(shadow, en, ca)
  PROVE  InterruptNotLost'
<1>1. CASE Line(enableReg, cause)
  BY <1>1 DEF SetRegs, IrqInv, InterruptNotLost
<1>2. CASE ~Line(enableReg, cause)
  BY <1>2 DEF SetRegs, IrqInv, InterruptNotLost
<1> QED BY <1>1, <1>2


\* Every step keeps the masks and the interrupt line as IrqInv says.
LEMMA IrqsKept ==
  ASSUME IrqInv, FlagsByPlace, TaskTypes, IrqTypes, BusTypes, [Next]_vars
  PROVE  IrqInv'
<1> USE DEF IrqInv, FlagsByPlace, MasksRight, PacketMaskDiscipline,
            WriteWaitArmed, InterruptNotLost, Line, Sources, Sending, Goto,
            taskVars, regVars, irqVars, busVars, deadVars, txVars, rxVars,
            evVars, crVars, devVars
<1>1. CASE HW_ProcessPendingInterrupts
  BY <1>1 DEF HW_ProcessPendingInterrupts
<1>2. CASE Hcd_BusInterrupt
  <2>1. /\ pc = "Bus" /\ pc' = "EnableOff"
        /\ UNCHANGED <<mask, IrqsEnabled, IrqDetected, PendingIrqAcks>>
        /\ notify = FALSE
    BY <1>2 DEF Hcd_BusInterrupt, TaskTypes
  <2>2. CASE BusError
    BY <2>1, <2>2 DEF BusError, SetRegs, Ints, Acked
  <2>3. CASE BusServe
    <3>1. /\ SpiIntEnableShadow' = SpiIntEnableShadow \ Ints
          /\ cause' \subseteq cause
      BY <2>3 DEF BusServe, MaskSPIInterrupts, SetRegs, Served, Acked
    <3>2. enableReg' \subseteq Sources
      BY <2>3 DEF BusServe, MaskSPIInterrupts, SetRegs, Served
    <3>3. notify' <=> "PKT_AVAIL" \in Ints
      BY <2>3 DEF BusServe
    <3>4. PacketMaskDiscipline'
      BY <2>1, <3>1, <3>3
    <3>5. fatalError' = fatalError
      BY <2>3 DEF BusServe
    <3>6. WriteWaitArmed'
      <4>1. CASE EndsWait
        BY <2>3, <3>5, <4>1 DEF BusServe
      <4>2. CASE ~EndsWait
        BY <2>3, <3>1, <3>5, <4>2 DEF BusServe, EndsWait
      <4> QED BY <4>1, <4>2
    <3> QED BY <2>1, <3>1, <3>2, <3>4, <3>6
  <2> QED BY <1>2, <2>2, <2>3 DEF Hcd_BusInterrupt
<1>3. CASE EnableOff
  BY <1>3 DEF EnableOff
<1>4. CASE EnableOn
  BY <1>4 DEF EnableOn, SetRegs
<1>5. CASE Driver_CompleteRequest
  BY <1>5 DEF Driver_CompleteRequest
<1>6. CASE ProcessCpuInterrupt
  BY <1>6 DEF ProcessCpuInterrupt, SetRegs, Hcd_UnmaskInterrupts
<1>7. CASE Driver_RxReady
  BY <1>7 DEF Driver_RxReady, RxPossible, SetRegs
<1>8. CASE Hcd_GetLookAhead
  BY <1>8 DEF Hcd_GetLookAhead
<1>9. CASE RxIdle
  BY <1>9 DEF RxIdle, SetRegs, Hcd_UnmaskInterrupts
<1>10. CASE Custom_GetRxRequest
  BY <1>10 DEF Custom_GetRxRequest, LastBuffer
<1>11. ASSUME NEW toApp \in BOOLEAN, Driver_RxComplete(toApp)
       PROVE  IrqInv'
  BY <1>11 DEF Driver_RxComplete
<1>12. ASSUME NEW poll \in 0..(DataCredits + 1), Driver_TxReady(poll)
       PROVE  IrqInv'
  BY <1>12 DEF Driver_TxReady, TxPossible, TxReturn, NoCredits
<1>13. CASE TxSpace
  BY <1>13 DEF TxSpace, TxReturn
<1>14. ASSUME NEW asleep \in BOOLEAN, Hcd_ProgramWriteBufferWaterMark(asleep)
       PROVE  IrqInv'
  <2>1. /\ pc = "Wmark" /\ pc' \in {"Irq", "Block", "Send", "Async"}
        /\ UNCHANGED <<notify, mask, IrqsEnabled, IrqDetected, PendingIrqAcks,
                       fatalError>>
        /\ ~writeWait
    BY <1>14 DEF Hcd_ProgramWriteBufferWaterMark, TxReturn
  <2>2. CASE asleep
    <3>1. /\ SetRegs(SpiIntEnableShadow, enableReg, cause \ {"WMARK"})
          /\ wmark' = FALSE /\ writeWait' = writeWait
      BY <1>14, <2>2 DEF Hcd_ProgramWriteBufferWaterMark
    <3>2. InterruptNotLost'
      BY <2>1, <3>1, EdgeMade
    <3>3. PacketMaskDiscipline' /\ WriteWaitArmed'
      BY <2>1, <3>1 DEF SetRegs
    <3> HIDE DEF InterruptNotLost, PacketMaskDiscipline, WriteWaitArmed
    <3> QED BY <2>1, <3>1, <3>2, <3>3 DEF SetRegs
  <2>3. CASE ~asleep
    <3>1. writeWait' = TRUE /\ wmark' = TRUE
      BY <1>14, <2>3 DEF Hcd_ProgramWriteBufferWaterMark
    <3>2. Hcd_UnmaskInterrupts({"WMARK"}, cause)
      BY <1>14, <2>3 DEF Hcd_ProgramWriteBufferWaterMark
    <3> QED BY <2>1, <3>1, <3>2 DEF Hcd_UnmaskInterrupts, SetRegs
  <2> QED BY <2>2, <2>3
<1>15. CASE Drop
  BY <1>15 DEF Drop, TxReturn
<1>16. CASE Requeue
  BY <1>16 DEF Requeue
<1>17. CASE Driver_SendPacket
  BY <1>17 DEF Driver_SendPacket, SetRegs, MaskSPIInterrupts
<1>18. CASE DoDMAOp
  <2>1. /\ pc = "Transfer" /\ pc' = "Async" /\ mask' = FALSE
        /\ UNCHANGED <<notify, IrqsEnabled, IrqDetected, PendingIrqAcks,
                       fatalError, writeWait, wmark>>
    BY <1>18 DEF DoDMAOp
  <2>2. CASE mask
    <3>1. Hcd_UnmaskInterrupts({"PKT_AVAIL"}, cause)
      BY <1>18, <2>2 DEF DoDMAOp
    <3>2. InterruptNotLost'
      BY <2>1, <3>1, EdgeMade DEF Hcd_UnmaskInterrupts
    <3>3. PacketMaskDiscipline' /\ WriteWaitArmed'
      BY <2>1, <2>2, <3>1 DEF Hcd_UnmaskInterrupts, SetRegs
    <3> HIDE DEF InterruptNotLost, PacketMaskDiscipline, WriteWaitArmed
    <3> QED BY <2>1, <3>1, <3>2, <3>3 DEF Hcd_UnmaskInterrupts, SetRegs
  <2>3. CASE ~mask
    <3>1. UNCHANGED regVars
      BY <1>18, <2>3 DEF DoDMAOp
    <3>2. PacketMaskDiscipline' /\ WriteWaitArmed' /\ InterruptNotLost'
      BY <2>1, <2>3, <3>1
    <3> HIDE DEF InterruptNotLost, PacketMaskDiscipline, WriteWaitArmed
    <3> QED BY <2>1, <3>1, <3>2
  <2> QED BY <2>2, <2>3
<1>19. CASE Async
  BY <1>19 DEF Async
<1>20. CASE CanBlock
  BY <1>20 DEF CanBlock, MayBlock
<1>21. CASE Block
  BY <1>21 DEF Block
<1>22. CASE WaitForEvent
  BY <1>22 DEF WaitForEvent
<1>23. CASE WaitTimeout
  BY <1>23 DEF WaitTimeout
<1>24. CASE HW_InterruptHandler
  BY <1>24 DEF HW_InterruptHandler
<1>25. ASSUME NEW r \in Reqs, Driver_SubmitTxRequest(r)
       PROVE  IrqInv'
  BY <1>25 DEF Driver_SubmitTxRequest
<1>26. CASE Api_TxGetStatus
  BY <1>26 DEF Api_TxGetStatus
<1>27. ASSUME NEW t \in Reqs \cup {Query}, Driver_WakeDriver(t)
       PROVE  IrqInv'
  BY <1>27 DEF Driver_WakeDriver
<1>28. CASE a_netbuf_free_rx_pool
  BY <1>28 DEF a_netbuf_free_rx_pool, MutexFree
<1>29. CASE Driver_ReportRxBuffStatus
  BY <1>29 DEF Driver_ReportRxBuffStatus
<1>30. CASE DevPacketHeader
  BY <1>30 DEF DevPacketHeader, DevRaise, SetRegs
<1>31. CASE DevPacketBody
  BY <1>31 DEF DevPacketBody, DevRaise, SetRegs
<1>32. CASE DevWatermark
  BY <1>32 DEF DevWatermark, DevRaise, SetRegs
<1>33. ASSUME NEW s \in Sources, DevCpuOrError(s)
       PROVE  IrqInv'
  BY <1>33 DEF DevCpuOrError, DevRaise, SetRegs
<1>34. CASE DevDrain
  BY <1>34 DEF DevDrain
<1>35. ASSUME NEW e \in EP, DevFreeCredit(e)
       PROVE  IrqInv'
  BY <1>35 DEF DevFreeCredit
<1>36. CASE UNCHANGED vars
  BY <1>36 DEF vars
<1> QED BY <1>1, <1>2, <1>3, <1>4, <1>5, <1>6, <1>7, <1>8, <1>9, <1>10, <1>11,
           <1>12, <1>13, <1>14, <1>15, <1>16, <1>17, <1>18, <1>19, <1>20,
           <1>21, <1>22, <1>23, <1>24, <1>25, <1>26, <1>27, <1>28, <1>29,
           <1>30, <1>31, <1>32, <1>33, <1>34, <1>35, <1>36
        DEF Next, DriverStep, UserStep, DeviceStep

\* A packet of the device's is announced, or the task is on its way to it.
LEMMA AnnouncementsKept ==
  ASSUME AnnounceInv, BufferInv, FlagsByPlace, [Next]_vars
  PROVE  AnnounceInv'
<1> USE DEF AnnounceInv, PacketAnnounced, BufferInv, FlagsByPlace, Goto,
            taskVars, regVars, irqVars, busVars, deadVars, txVars, rxVars,
            evVars, crVars, devVars
<1>1. CASE HW_ProcessPendingInterrupts
  BY <1>1 DEF HW_ProcessPendingInterrupts
<1>2. CASE Hcd_BusInterrupt
  BY <1>2 DEF Hcd_BusInterrupt, BusError, BusServe, SetRegs,
     MaskSPIInterrupts, EndsWait, Ints, Acked
<1>3. CASE EnableOff
  BY <1>3 DEF EnableOff
<1>4. CASE EnableOn
  BY <1>4 DEF EnableOn, SetRegs
<1>5. CASE Driver_CompleteRequest
  BY <1>5 DEF Driver_CompleteRequest
<1>6. CASE ProcessCpuInterrupt
  BY <1>6 DEF ProcessCpuInterrupt, SetRegs, Hcd_UnmaskInterrupts
<1>7. CASE Driver_RxReady
  BY <1>7 DEF Driver_RxReady, RxPossible, SetRegs
<1>8. CASE Hcd_GetLookAhead
  BY <1>8 DEF Hcd_GetLookAhead
<1>9. CASE RxIdle
  BY <1>9 DEF RxIdle, SetRegs, Hcd_UnmaskInterrupts
<1>10. CASE Custom_GetRxRequest
  BY <1>10 DEF Custom_GetRxRequest, LastBuffer
<1>11. ASSUME NEW toApp \in BOOLEAN, Driver_RxComplete(toApp)
       PROVE  AnnounceInv'
  BY <1>11 DEF Driver_RxComplete
<1>12. ASSUME NEW poll \in 0..(DataCredits + 1), Driver_TxReady(poll)
       PROVE  AnnounceInv'
  BY <1>12 DEF Driver_TxReady, TxPossible, TxReturn, NoCredits
<1>13. CASE TxSpace
  BY <1>13 DEF TxSpace, TxReturn
<1>14. ASSUME NEW asleep \in BOOLEAN, Hcd_ProgramWriteBufferWaterMark(asleep)
       PROVE  AnnounceInv'
  BY <1>14 DEF Hcd_ProgramWriteBufferWaterMark, TxReturn, SetRegs,
     Hcd_UnmaskInterrupts
<1>15. CASE Drop
  BY <1>15 DEF Drop, TxReturn
<1>16. CASE Requeue
  BY <1>16 DEF Requeue
<1>17. CASE Driver_SendPacket
  BY <1>17 DEF Driver_SendPacket, SetRegs, MaskSPIInterrupts
<1>18. CASE DoDMAOp
  BY <1>18 DEF DoDMAOp, Driver_PostProcessRequest, SetRegs,
     Hcd_UnmaskInterrupts
<1>19. CASE Async
  BY <1>19 DEF Async
<1>20. CASE CanBlock
  BY <1>20 DEF CanBlock, MayBlock
<1>21. CASE Block
  BY <1>21 DEF Block
<1>22. CASE WaitForEvent
  BY <1>22 DEF WaitForEvent
<1>23. CASE WaitTimeout
  BY <1>23 DEF WaitTimeout
<1>24. CASE HW_InterruptHandler
  BY <1>24 DEF HW_InterruptHandler
<1>25. ASSUME NEW r \in Reqs, Driver_SubmitTxRequest(r)
       PROVE  AnnounceInv'
  BY <1>25 DEF Driver_SubmitTxRequest
<1>26. CASE Api_TxGetStatus
  BY <1>26 DEF Api_TxGetStatus
<1>27. ASSUME NEW t \in Reqs \cup {Query}, Driver_WakeDriver(t)
       PROVE  AnnounceInv'
  BY <1>27 DEF Driver_WakeDriver
<1>28. CASE a_netbuf_free_rx_pool
  BY <1>28 DEF a_netbuf_free_rx_pool, MutexFree
<1>29. CASE Driver_ReportRxBuffStatus
  BY <1>29 DEF Driver_ReportRxBuffStatus
<1>30. CASE DevPacketHeader
  BY <1>30 DEF DevPacketHeader, DevRaise, SetRegs
<1>31. CASE DevPacketBody
  BY <1>31 DEF DevPacketBody, DevRaise, SetRegs
<1>32. CASE DevWatermark
  BY <1>32 DEF DevWatermark, DevRaise, SetRegs
<1>33. ASSUME NEW s \in Sources, DevCpuOrError(s)
       PROVE  AnnounceInv'
  BY <1>33 DEF DevCpuOrError, DevRaise, SetRegs
<1>34. CASE DevDrain
  BY <1>34 DEF DevDrain
<1>35. ASSUME NEW e \in EP, DevFreeCredit(e)
       PROVE  AnnounceInv'
  BY <1>35 DEF DevFreeCredit
<1>36. CASE UNCHANGED vars
  BY <1>36 DEF vars
<1> QED BY <1>1, <1>2, <1>3, <1>4, <1>5, <1>6, <1>7, <1>8, <1>9, <1>10, <1>11,
           <1>12, <1>13, <1>14, <1>15, <1>16, <1>17, <1>18, <1>19, <1>20,
           <1>21, <1>22, <1>23, <1>24, <1>25, <1>26, <1>27, <1>28, <1>29,
           <1>30, <1>31, <1>32, <1>33, <1>34, <1>35, <1>36
        DEF Next, DriverStep, UserStep, DeviceStep

\* What turns up after the task looked for it comes with a wake-up.
LEMMA WakeupsKept ==
  ASSUME WakeInv, FlagsByPlace, EventTypes, [Next]_vars
  PROVE  WakeInv'
<1> USE DEF WakeInv, Deciding, FlagsByPlace, EventTypes, Goto, taskVars,
            regVars, irqVars, busVars, deadVars, txVars, rxVars, evVars,
            crVars, devVars
<1>1. CASE HW_ProcessPendingInterrupts
  BY <1>1 DEF HW_ProcessPendingInterrupts
<1>2. CASE Hcd_BusInterrupt
  BY <1>2 DEF Hcd_BusInterrupt, BusError, BusServe, SetRegs,
     MaskSPIInterrupts, EndsWait
<1>3. CASE EnableOff
  BY <1>3 DEF EnableOff
<1>4. CASE EnableOn
  BY <1>4 DEF EnableOn, SetRegs
<1>5. CASE Driver_CompleteRequest
  BY <1>5 DEF Driver_CompleteRequest
<1>6. CASE ProcessCpuInterrupt
  BY <1>6 DEF ProcessCpuInterrupt, SetRegs, Hcd_UnmaskInterrupts
<1>7. CASE Driver_RxReady
  BY <1>7 DEF Driver_RxReady, RxPossible, SetRegs
<1>8. CASE Hcd_GetLookAhead
  BY <1>8 DEF Hcd_GetLookAhead
<1>9. CASE RxIdle
  BY <1>9 DEF RxIdle, SetRegs, Hcd_UnmaskInterrupts
<1>10. CASE Custom_GetRxRequest
  BY <1>10 DEF Custom_GetRxRequest, LastBuffer
<1>11. ASSUME NEW toApp \in BOOLEAN, Driver_RxComplete(toApp)
       PROVE  WakeInv'
  BY <1>11 DEF Driver_RxComplete
<1>12. ASSUME NEW poll \in 0..(DataCredits + 1), Driver_TxReady(poll)
       PROVE  WakeInv'
  BY <1>12 DEF Driver_TxReady, TxPossible, TxReturn, NoCredits
<1>13. CASE TxSpace
  BY <1>13 DEF TxSpace, TxReturn
<1>14. ASSUME NEW asleep \in BOOLEAN, Hcd_ProgramWriteBufferWaterMark(asleep)
       PROVE  WakeInv'
  BY <1>14 DEF Hcd_ProgramWriteBufferWaterMark, TxReturn, SetRegs,
     Hcd_UnmaskInterrupts
<1>15. CASE Drop
  BY <1>15 DEF Drop, TxReturn
<1>16. CASE Requeue
  BY <1>16 DEF Requeue
<1>17. CASE Driver_SendPacket
  BY <1>17 DEF Driver_SendPacket, SetRegs, MaskSPIInterrupts
<1>18. CASE DoDMAOp
  BY <1>18 DEF DoDMAOp, Driver_PostProcessRequest, SetRegs,
     Hcd_UnmaskInterrupts
<1>19. CASE Async
  BY <1>19 DEF Async
<1>20. CASE CanBlock
  BY <1>20 DEF CanBlock, MayBlock
<1>21. CASE Block
  BY <1>21 DEF Block
<1>22. CASE WaitForEvent
  BY <1>22 DEF WaitForEvent
<1>23. CASE WaitTimeout
  BY <1>23 DEF WaitTimeout
<1>24. CASE HW_InterruptHandler
  BY <1>24 DEF HW_InterruptHandler
<1>25. ASSUME NEW r \in Reqs, Driver_SubmitTxRequest(r)
       PROVE  WakeInv'
  BY <1>25 DEF Driver_SubmitTxRequest
<1>26. CASE Api_TxGetStatus
  BY <1>26 DEF Api_TxGetStatus
<1>27. ASSUME NEW t \in Reqs \cup {Query}, Driver_WakeDriver(t)
       PROVE  WakeInv'
  BY <1>27 DEF Driver_WakeDriver
<1>28. CASE a_netbuf_free_rx_pool
  BY <1>28 DEF a_netbuf_free_rx_pool, MutexFree
<1>29. CASE Driver_ReportRxBuffStatus
  BY <1>29 DEF Driver_ReportRxBuffStatus
<1>30. CASE DevPacketHeader
  BY <1>30 DEF DevPacketHeader, DevRaise, SetRegs
<1>31. CASE DevPacketBody
  BY <1>31 DEF DevPacketBody, DevRaise, SetRegs
<1>32. CASE DevWatermark
  BY <1>32 DEF DevWatermark, DevRaise, SetRegs
<1>33. ASSUME NEW s \in Sources, DevCpuOrError(s)
       PROVE  WakeInv'
  BY <1>33 DEF DevCpuOrError, DevRaise, SetRegs
<1>34. CASE DevDrain
  BY <1>34 DEF DevDrain
<1>35. ASSUME NEW e \in EP, DevFreeCredit(e)
       PROVE  WakeInv'
  BY <1>35 DEF DevFreeCredit
<1>36. CASE UNCHANGED vars
  BY <1>36 DEF vars
<1> QED BY <1>1, <1>2, <1>3, <1>4, <1>5, <1>6, <1>7, <1>8, <1>9, <1>10, <1>11,
           <1>12, <1>13, <1>14, <1>15, <1>16, <1>17, <1>18, <1>19, <1>20,
           <1>21, <1>22, <1>23, <1>24, <1>25, <1>26, <1>27, <1>28, <1>29,
           <1>30, <1>31, <1>32, <1>33, <1>34, <1>35, <1>36
        DEF Next, DriverStep, UserStep, DeviceStep

\* The same of a request to send, as long as the core does not fall asleep
\* between the watermark and the answer to it.
LEMMA TxWakeupsKept ==
  ASSUME ~CoreSleeps, TxWakeInv, FlagsByPlace, QueueInv, BusTypes, [Next]_vars
  PROVE  TxWakeInv'
<1> USE DEF TxWakeInv, TxWork, FlagsByPlace, Sending, Purging, HeadCredits,
            Goto, taskVars, regVars, irqVars, busVars, deadVars, txVars,
            rxVars, evVars, crVars, devVars
<1>1. CASE HW_ProcessPendingInterrupts
  BY <1>1 DEF HW_ProcessPendingInterrupts
<1>2. CASE Hcd_BusInterrupt
  BY <1>2 DEF Hcd_BusInterrupt, BusError, BusServe, SetRegs,
     MaskSPIInterrupts, EndsWait
<1>3. CASE EnableOff
  BY <1>3 DEF EnableOff
<1>4. CASE EnableOn
  BY <1>4 DEF EnableOn, SetRegs
<1>5. CASE Driver_CompleteRequest
  BY <1>5 DEF Driver_CompleteRequest
<1>6. CASE ProcessCpuInterrupt
  BY <1>6 DEF ProcessCpuInterrupt, SetRegs, Hcd_UnmaskInterrupts
<1>7. CASE Driver_RxReady
  BY <1>7 DEF Driver_RxReady, RxPossible, SetRegs
<1>8. CASE Hcd_GetLookAhead
  BY <1>8 DEF Hcd_GetLookAhead
<1>9. CASE RxIdle
  BY <1>9 DEF RxIdle, SetRegs, Hcd_UnmaskInterrupts
<1>10. CASE Custom_GetRxRequest
  BY <1>10 DEF Custom_GetRxRequest, LastBuffer
<1>11. ASSUME NEW toApp \in BOOLEAN, Driver_RxComplete(toApp)
       PROVE  TxWakeInv'
  BY <1>11 DEF Driver_RxComplete
<1>12. ASSUME NEW poll \in 0..(DataCredits + 1), Driver_TxReady(poll)
       PROVE  TxWakeInv'
  <2>1. /\ pc = "Tx"
        /\ UNCHANGED <<txQueue, fatalError, dmaComplete, writeWait,
                       rxBufferStatus, blockMsec>>
    BY <1>12 DEF Driver_TxReady
  <2>2. CASE ~TxPossible
    BY <1>12, <2>1, <2>2 DEF Driver_TxReady, TxReturn, TxPossible
  <2>3. CASE TxPossible
    <3> DEFINE e == EpOf(Head(txQueue))
    <3>1. CASE credits'[e] = 0
      <4>1. NoCredits
        BY <1>12, <2>3, <3>1 DEF Driver_TxReady
      <4>2. creditDeadlock' <=> ~rxBufferStatus
        BY <4>1 DEF NoCredits
      <4>3. pc' # "Wait"
        BY <4>1, <2>1 DEF NoCredits, TxReturn
      <4>4. TxWork' => ~rxBufferStatus
        BY <2>1, <3>1
      <4> QED BY <4>2, <4>3, <4>4
    <3>2. CASE credits'[e] # 0
      <4>1. pc' = "Space"
        BY <1>12, <2>3, <3>2 DEF Driver_TxReady
      <4> QED BY <4>1
    <3> QED BY <3>1, <3>2
  <2> QED BY <2>2, <2>3
<1>13. CASE TxSpace
  BY <1>13 DEF TxSpace, TxReturn
<1>14. ASSUME NEW asleep \in BOOLEAN, Hcd_ProgramWriteBufferWaterMark(asleep)
       PROVE  TxWakeInv'
  BY <1>14 DEF Hcd_ProgramWriteBufferWaterMark, TxReturn, SetRegs,
     Hcd_UnmaskInterrupts
<1>15. CASE Drop
  BY <1>15 DEF Drop, TxReturn
<1>16. CASE Requeue
  BY <1>16 DEF Requeue
<1>17. CASE Driver_SendPacket
  BY <1>17 DEF Driver_SendPacket, SetRegs, MaskSPIInterrupts
<1>18. CASE DoDMAOp
  BY <1>18 DEF DoDMAOp, Driver_PostProcessRequest, SetRegs,
     Hcd_UnmaskInterrupts
<1>19. CASE Async
  BY <1>19 DEF Async
<1>20. CASE CanBlock
  BY <1>20 DEF CanBlock, MayBlock
<1>21. CASE Block
  BY <1>21 DEF Block
<1>22. CASE WaitForEvent
  BY <1>22 DEF WaitForEvent
<1>23. CASE WaitTimeout
  BY <1>23 DEF WaitTimeout
<1>24. CASE HW_InterruptHandler
  BY <1>24 DEF HW_InterruptHandler
<1>25. ASSUME NEW r \in Reqs, Driver_SubmitTxRequest(r)
       PROVE  TxWakeInv'
  BY <1>25 DEF Driver_SubmitTxRequest
<1>26. CASE Api_TxGetStatus
  BY <1>26 DEF Api_TxGetStatus
<1>27. ASSUME NEW t \in Reqs \cup {Query}, Driver_WakeDriver(t)
       PROVE  TxWakeInv'
  BY <1>27 DEF Driver_WakeDriver
<1>28. CASE a_netbuf_free_rx_pool
  BY <1>28 DEF a_netbuf_free_rx_pool, MutexFree
<1>29. CASE Driver_ReportRxBuffStatus
  BY <1>29 DEF Driver_ReportRxBuffStatus
<1>30. CASE DevPacketHeader
  BY <1>30 DEF DevPacketHeader, DevRaise, SetRegs
<1>31. CASE DevPacketBody
  BY <1>31 DEF DevPacketBody, DevRaise, SetRegs
<1>32. CASE DevWatermark
  BY <1>32 DEF DevWatermark, DevRaise, SetRegs
<1>33. ASSUME NEW s \in Sources, DevCpuOrError(s)
       PROVE  TxWakeInv'
  BY <1>33 DEF DevCpuOrError, DevRaise, SetRegs
<1>34. CASE DevDrain
  BY <1>34 DEF DevDrain
<1>35. ASSUME NEW e \in EP, DevFreeCredit(e)
       PROVE  TxWakeInv'
  BY <1>35 DEF DevFreeCredit
<1>36. CASE UNCHANGED vars
  BY <1>36 DEF vars
<1> QED BY <1>1, <1>2, <1>3, <1>4, <1>5, <1>6, <1>7, <1>8, <1>9, <1>10, <1>11,
           <1>12, <1>13, <1>14, <1>15, <1>16, <1>17, <1>18, <1>19, <1>20,
           <1>21, <1>22, <1>23, <1>24, <1>25, <1>26, <1>27, <1>28, <1>29,
           <1>30, <1>31, <1>32, <1>33, <1>34, <1>35, <1>36
        DEF Next, DriverStep, UserStep, DeviceStep

-----------------------------------------------------------------------------
(***************************************************************************)
(* Credits and room: what the driver and the device do with them, action   *)
(* by action.                                                              *)
(***************************************************************************)
LEMMA CreditFacts ==
  ASSUME CreditInv, NEW e \in EP
  PROVE  /\ credits[e] \in Nat /\ freed[e] \in Nat /\ held[e] \in Nat
         /\ Cardinality(At(fifo, e)) \in Nat /\ OnBus(e) \in {0, 1}
         /\ Len(fifo) \in Nat /\ WriteBufferSpace \in Nat /\ FifoSize \in Nat
         /\ Window(e) \in Nat
         /\ credits[e] + freed[e] + Spent(e) = Window(e)
<1>1. Cardinality(At(fifo, e)) \in Nat
  BY AtIsFinite DEF CreditInv
<1> QED BY <1>1, CountAssumption DEF CreditInv, OnBus, Window

\* A step that moves no credit and no packet keeps the sum.
LEMMA NothingSpent ==
  ASSUME CreditInv, UNCHANGED <<credits, freed, held, fifo>>,
         pc # "Transfer", pc' # "Transfer"
  PROVE  \A e \in EP : credits'[e] + freed'[e] + Spent(e)' = Window(e)
BY DEF CreditInv, Spent, OnBus

\* A received trailer turns freed credits into credits of the host's.
LEMMA ReceiveKeepsCredits ==
  ASSUME CreditInv, NEW toApp \in BOOLEAN, Driver_RxComplete(toApp)
  PROVE  CreditInv'
<1>1. /\ pc = "RxComplete" /\ pc' = "Tx"
      /\ credits' = [e \in EP |-> credits[e] + freed[e]]
      /\ freed' = [e \in EP |-> 0]
      /\ UNCHANGED <<held, fifo, WriteBufferSpace>>
  BY DEF Driver_RxComplete, Goto, busVars
<1>2. \A e \in EP : credits'[e] + freed'[e] + Spent(e)' = Window(e)
  <2> SUFFICES ASSUME NEW e \in EP
               PROVE  credits'[e] + freed'[e] + Spent(e)' = Window(e)
    OBVIOUS
  <2>1. Spent(e)' = Spent(e)
    BY <1>1 DEF Spent, OnBus
  <2>2. credits'[e] = credits[e] + freed[e] /\ freed'[e] = 0
    BY <1>1
  <2> QED BY <2>1, <2>2, CreditFacts DEF Spent
<1>3. credits' \in [EP -> Nat] /\ freed' \in [EP -> Nat]
  BY <1>1 DEF CreditInv
<1> QED BY <1>1, <1>2, <1>3 DEF CreditInv

(***************************************************************************)
(* What Driver_TxReady does with the credits of the head's endpoint.       *)
(***************************************************************************)
LEMMA TxReadyShape ==
  ASSUME NEW poll \in 0..(DataCredits + 1), Driver_TxReady(poll), CreditInv
  PROVE  /\ pc = "Tx" /\ pc' # "Transfer"
         /\ UNCHANGED <<held, fifo, WriteBufferSpace, txQueue, req>>
         /\ \/ /\ UNCHANGED <<credits, freed>>
               /\ pc' \notin {"Space", "Wmark", "Send", "Transfer"}
            \/ \E e \in EP, got \in Nat :
                 /\ e = EpOf(Head(txQueue)) /\ got <= freed[e]
                 /\ credits' = [credits EXCEPT ![e] = credits[e] + got]
                 /\ freed' = [freed EXCEPT ![e] = freed[e] - got]
                 /\ pc' \in {"Space", "Wmark", "Send"} => credits'[e] # 0
                 /\ pc' # "Send"
<1>1. /\ pc = "Tx"
      /\ UNCHANGED <<held, fifo, WriteBufferSpace, txQueue, req>>
  BY DEF Driver_TxReady, txVars, devVars, busVars
<1>2. CASE ~TxPossible
  <2>1. /\ UNCHANGED <<credits, freed>>
        /\ pc' \notin {"Space", "Wmark", "Send", "Transfer"}
    BY <1>2 DEF Driver_TxReady, TxReturn, Goto, crVars
  <2> QED BY <1>1, <2>1
<1>3. CASE TxPossible
  <2> DEFINE e == EpOf(Head(txQueue))
  <2>1. e \in EP
    BY DEF EpOf, EP
  <2>2. poll \in {0, freed[e]} /\ freed[e] \in Nat
    BY <1>3, <2>1 DEF Driver_TxReady, CreditInv
  <2>3. /\ credits' = [credits EXCEPT ![e] = credits[e] + poll]
        /\ freed' = [freed EXCEPT ![e] = freed[e] - poll]
    BY <1>3 DEF Driver_TxReady
  <2>4. \/ credits'[e] = 0 /\ pc' \in {"Drop", "Irq", "Block", "Async"}
        \/ credits'[e] # 0 /\ pc' = "Space"
    BY <1>3 DEF Driver_TxReady, NoCredits, TxReturn, Goto
  <2>5. poll \in Nat /\ poll <= freed[e]
    BY <2>2
  <2> HIDE DEF e
  <2>6. \E d \in EP, got \in Nat :
                 /\ d = e /\ got <= freed[d]
                 /\ credits' = [credits EXCEPT ![d] = credits[d] + got]
                 /\ freed' = [freed EXCEPT ![d] = freed[d] - got]
                 /\ pc' \in {"Space", "Wmark", "Send"} => credits'[d] # 0
                 /\ pc' # "Send"
    BY <2>1, <2>3, <2>4, <2>5
  <2> QED BY <1>1, <2>4, <2>6 DEF e
<1> QED BY <1>2, <1>3

\* Driver_TxReady moves no credit, and goes on only when the head has one.
LEMMA TxReadyKeepsCredits ==
  ASSUME CreditInv, NEW poll \in 0..(DataCredits + 1), Driver_TxReady(poll)
  PROVE  CreditInv'
<1>1. /\ pc = "Tx" /\ pc' # "Transfer"
      /\ UNCHANGED <<held, fifo, WriteBufferSpace, txQueue, req>>
  BY TxReadyShape
<1>2. CASE /\ UNCHANGED <<credits, freed>>
           /\ pc' \notin {"Space", "Wmark", "Send", "Transfer"}
  <2>1. \A e \in EP : credits'[e] + freed'[e] + Spent(e)' = Window(e)
    BY <1>1, <1>2, NothingSpent
  <2> QED BY <1>1, <1>2, <2>1 DEF CreditInv
<1>3. ASSUME NEW d \in EP, NEW got \in Nat,
             d = EpOf(Head(txQueue)), got <= freed[d],
             credits' = [credits EXCEPT ![d] = credits[d] + got],
             freed' = [freed EXCEPT ![d] = freed[d] - got],
             pc' \in {"Space", "Wmark", "Send"} => credits'[d] # 0,
             pc' # "Send"
      PROVE  CreditInv'
  <2>1. \A e \in EP : /\ credits[e] \in Nat /\ freed[e] \in Nat
                      /\ held[e] \in Nat /\ Cardinality(At(fifo, e)) \in Nat
                      /\ OnBus(e) \in {0, 1}
    BY CreditFacts
  <2>2. credits' \in [EP -> Nat] /\ freed' \in [EP -> Nat]
    BY <1>3, <2>1 DEF CreditInv
  <2>3. \A e \in EP : credits'[e] + freed'[e] = credits[e] + freed[e]
    BY <1>3, <2>1 DEF CreditInv
  <2>4. \A e \in EP : Spent(e)' = Spent(e) /\ Spent(e) \in Nat
    BY <1>1, <2>1 DEF Spent, OnBus
  <2>5. \A e \in EP : credits'[e] + freed'[e] + Spent(e)' = Window(e)
    BY <2>3, <2>4 DEF CreditInv
  <2>6. pc' \in {"Space", "Wmark", "Send"} => HeadCredits' > 0
    BY <1>1, <1>3, <2>2 DEF HeadCredits, EpOf
  <2> QED BY <1>1, <1>3, <2>2, <2>5, <2>6 DEF CreditInv
<1> QED BY <1>2, <1>3, TxReadyShape

\* Driver_SendPacket spends a credit of the head's endpoint and a place of
\* the write buffer.
LEMMA SendKeepsCredits ==
  ASSUME CreditInv, QueueInv, Driver_SendPacket
  PROVE  CreditInv'
<1> DEFINE d == EpOf(Head(txQueue))
<1>1. /\ pc = "Send" /\ pc' = "Transfer" /\ req' = Head(txQueue)
      /\ credits' = [credits EXCEPT ![d] = credits[d] - 1]
      /\ WriteBufferSpace' = WriteBufferSpace - 1
      /\ UNCHANGED <<freed, held, fifo>>
  BY DEF Driver_SendPacket, Goto, Htc_SendPacket, ADJUST_WRBUF_SPACE, devVars
<1>2. d \in EP /\ credits[d] > 0 /\ WriteBufferSpace > 0
  BY <1>1 DEF CreditInv, HeadCredits, EpOf, EP
<1>3. \A e \in EP : /\ credits[e] \in Nat /\ freed[e] \in Nat
                    /\ held[e] \in Nat /\ Cardinality(At(fifo, e)) \in Nat
                    /\ credits[e] + freed[e] + Spent(e) = Window(e)
                    /\ Len(fifo) \in Nat /\ WriteBufferSpace \in Nat
                    /\ FifoSize \in Nat
  BY CreditFacts
<1>4. \A e \in EP : /\ credits'[e] = IF e = d THEN credits[e] - 1
                                              ELSE credits[e]
                    /\ OnBus(e) = 0 /\ OnBus(e)' = IF e = d THEN 1 ELSE 0
  BY <1>1, <1>2 DEF CreditInv, OnBus, EpOf
<1> HIDE DEF d
<1>5. ASSUME NEW e \in EP
      PROVE  credits'[e] + freed'[e] + Spent(e)' = Window(e)
  <2>1. Spent(e) = held[e] + Cardinality(At(fifo, e))
    BY <1>3, <1>4 DEF Spent
  <2>2. Spent(e)' = held[e] + Cardinality(At(fifo, e))
                      + (IF e = d THEN 1 ELSE 0)
    BY <1>1, <1>4 DEF Spent
  <2>3. /\ freed'[e] = freed[e] /\ credits[e] \in Nat /\ freed[e] \in Nat
        /\ held[e] \in Nat /\ Cardinality(At(fifo, e)) \in Nat
        /\ credits[e] + freed[e] + Spent(e) = Window(e)
        /\ credits'[e] = IF e = d THEN credits[e] - 1 ELSE credits[e]
    BY <1>1, <1>3, <1>4
  <2> QED BY <2>1, <2>2, <2>3
<1>6. credits' \in [EP -> Nat]
  BY <1>1, <1>2, <1>3, <1>4 DEF CreditInv
<1>7. /\ WriteBufferSpace' \in Nat
      /\ WriteBufferSpace' + Len(fifo') + 1 <= FifoSize
  BY <1>1, <1>2, <1>3 DEF CreditInv
<1> QED BY <1>1, <1>5, <1>6, <1>7 DEF CreditInv

\* The transfer moves the packet from the task to the write buffer.
LEMMA TransferKeepsCredits ==
  ASSUME CreditInv, DoDMAOp
  PROVE  CreditInv'
<1> DEFINE d == EpOf(req)
<1>1. /\ pc = "Transfer" /\ pc' = "Async" /\ fifo' = Append(fifo, d)
      /\ UNCHANGED <<credits, freed, held, WriteBufferSpace>>
  BY DEF DoDMAOp, Goto, Bus_InOutDescriptorSet, crVars
<1>2. d \in EP
  BY DEF EpOf, EP
<1>3. /\ fifo' \in Seq(EP) /\ Len(fifo') = Len(fifo) + 1
  BY <1>1, <1>2 DEF CreditInv
<1>4. \A e \in EP : /\ credits[e] \in Nat /\ freed[e] \in Nat
                    /\ held[e] \in Nat /\ Cardinality(At(fifo, e)) \in Nat
                    /\ credits[e] + freed[e] + Spent(e) = Window(e)
                    /\ Len(fifo) \in Nat /\ WriteBufferSpace \in Nat
                    /\ FifoSize \in Nat
  BY CreditFacts
<1>5. \A e \in EP : /\ OnBus(e) = (IF e = d THEN 1 ELSE 0) /\ OnBus(e)' = 0
                    /\ Cardinality(At(fifo, e))' = Cardinality(At(fifo, e))
                                                     + (IF e = d THEN 1 ELSE 0)
  BY <1>1, <1>2, AppendAt DEF CreditInv, OnBus
<1> HIDE DEF d
<1>6. \A e \in EP : credits'[e] + freed'[e] + Spent(e)' = Window(e)
  BY <1>1, <1>4, <1>5 DEF Spent
<1>7. WriteBufferSpace' + Len(fifo') <= FifoSize
  BY <1>1, <1>2, <1>3, <1>4 DEF CreditInv
<1> QED BY <1>1, <1>3, <1>6, <1>7 DEF CreditInv

\* The device takes a packet out of the write buffer.
LEMMA DrainKeepsCredits ==
  ASSUME CreditInv, DevDrain
  PROVE  CreditInv'
<1> DEFINE d == Head(fifo)
<1>1. /\ fifo # <<>> /\ fifo' = Tail(fifo)
      /\ held' = [held EXCEPT ![d] = held[d] + 1]
      /\ UNCHANGED <<pc, req, txQueue, credits, freed, WriteBufferSpace>>
  BY DEF DevDrain, taskVars, txVars, crVars, busVars
<1>2. d \in EP /\ fifo' \in Seq(EP) /\ Len(fifo') = Len(fifo) - 1
  BY <1>1 DEF CreditInv
<1>3. \A e \in EP : /\ credits[e] \in Nat /\ freed[e] \in Nat
                    /\ held[e] \in Nat /\ Cardinality(At(fifo, e)) \in Nat
                    /\ OnBus(e) \in {0, 1}
                    /\ credits[e] + freed[e] + Spent(e) = Window(e)
                    /\ Len(fifo) \in Nat /\ WriteBufferSpace \in Nat
                    /\ FifoSize \in Nat
  BY CreditFacts
<1>4. \A e \in EP : /\ Cardinality(At(fifo, e)) = Cardinality(At(fifo, e))'
                                                    + (IF e = d THEN 1 ELSE 0)
                    /\ Cardinality(At(fifo, e))' \in Nat
  BY <1>1, <1>2, TailAt, AtIsFinite DEF CreditInv
<1> HIDE DEF d
<1>5. \A e \in EP : /\ held'[e] = IF e = d THEN held[e] + 1 ELSE held[e]
                    /\ OnBus(e)' = OnBus(e)
  BY <1>1, <1>2 DEF CreditInv, OnBus
<1>6. \A e \in EP : credits'[e] + freed'[e] + Spent(e)' = Window(e)
  BY <1>1, <1>3, <1>4, <1>5 DEF Spent
<1>7. held' \in [EP -> Nat]
  <2>1. held' = [held EXCEPT ![d] = held[d] + 1] /\ held \in [EP -> Nat]
    BY <1>1 DEF CreditInv
  <2> QED BY <1>2, <2>1
<1>8. WriteBufferSpace' + Len(fifo') + (IF pc' = "Transfer" THEN 1 ELSE 0)
        <= FifoSize
  BY <1>1, <1>2, <1>3 DEF CreditInv
<1> QED BY <1>1, <1>2, <1>6, <1>7, <1>8 DEF CreditInv, HeadCredits

\* The device is done with a packet: its credit is freed.
LEMMA FreeKeepsCredits ==
  ASSUME CreditInv, NEW d \in EP, DevFreeCredit(d)
  PROVE  CreditInv'
<1>1. /\ held[d] > 0 /\ held' = [held EXCEPT ![d] = held[d] - 1]
      /\ freed' = [freed EXCEPT ![d] = freed[d] + 1]
      /\ UNCHANGED <<pc, req, txQueue, credits, fifo, WriteBufferSpace>>
  BY DEF DevFreeCredit, taskVars, txVars, busVars
<1>2. \A e \in EP : /\ credits[e] \in Nat /\ freed[e] \in Nat
                    /\ held[e] \in Nat /\ Cardinality(At(fifo, e)) \in Nat
                    /\ OnBus(e) \in {0, 1}
                    /\ credits[e] + freed[e] + Spent(e) = Window(e)
  BY CreditFacts
<1>3. \A e \in EP : /\ held'[e] = IF e = d THEN held[e] - 1 ELSE held[e]
                    /\ freed'[e] = IF e = d THEN freed[e] + 1 ELSE freed[e]
                    /\ OnBus(e)' = OnBus(e)
  BY <1>1 DEF CreditInv, OnBus
<1>4. \A e \in EP : credits'[e] + freed'[e] + Spent(e)' = Window(e)
  BY <1>1, <1>2, <1>3 DEF Spent
<1>5. held' \in [EP -> Nat] /\ freed' \in [EP -> Nat]
  BY <1>1, <1>2, <1>3 DEF CreditInv
<1> QED BY <1>1, <1>4, <1>5 DEF CreditInv, HeadCredits

(***************************************************************************)
(* The steps that look at the room of the write buffer.                    *)
(***************************************************************************)
LEMMA RoomKeepsCredits ==
  ASSUME CreditInv, \/ Hcd_BusInterrupt \/ TxSpace
                    \/ \E asleep \in BOOLEAN :
                          Hcd_ProgramWriteBufferWaterMark(asleep)
  PROVE  CreditInv'
<1>1. /\ pc \in {"Bus", "Space", "Wmark"} /\ pc' # "Transfer"
      /\ pc' \in {"Wmark", "Send"} => pc = "Space"
      /\ pc' # "Space"
      /\ pc' = "Send" => WriteBufferSpace' > 0
      /\ WriteBufferSpace' \in {WriteBufferSpace, FifoSize - Len(fifo)}
      /\ UNCHANGED <<credits, freed, held, fifo, txQueue, req>>
  BY DEF Hcd_BusInterrupt, BusError, BusServe, TxSpace, TxReturn, Goto,
         Hcd_ProgramWriteBufferWaterMark, Hcd_RefreshWriteBufferSpace,
         taskVars, txVars, crVars, devVars
<1>2. Len(fifo) \in Nat /\ WriteBufferSpace \in Nat /\ FifoSize \in Nat
  BY CountAssumption DEF CreditInv
<1>3. WriteBufferSpace + Len(fifo) <= FifoSize
  BY <1>1, <1>2 DEF CreditInv
<1>4. WriteBufferSpace' \in Nat /\ WriteBufferSpace' + Len(fifo') <= FifoSize
  BY <1>1, <1>2, <1>3
<1>5. \A e \in EP : credits'[e] + freed'[e] + Spent(e)' = Window(e)
  BY <1>1, NothingSpent
<1> QED BY <1>1, <1>4, <1>5 DEF CreditInv, HeadCredits

\* A request submitted behind the head leaves the head's credit alone.
LEMMA SubmitKeepsCredits ==
  ASSUME CreditInv, QueueInv, NEW r \in Reqs, Driver_SubmitTxRequest(r)
  PROVE  CreditInv'
<1>1. /\ txQueue' = Append(txQueue, r)
      /\ UNCHANGED <<pc, req, credits, freed, held, fifo, WriteBufferSpace>>
  BY DEF Driver_SubmitTxRequest, taskVars, crVars, devVars, busVars
<1>2. txQueue # <<>> => HeadCredits' = HeadCredits
  BY <1>1, AppendElements DEF QueueInv, HeadCredits, EpOf
<1>3. \A e \in EP : credits'[e] + freed'[e] + Spent(e)' = Window(e)
  BY <1>1 DEF CreditInv, Spent, OnBus
<1>4. pc' \in {"Space", "Wmark", "Send"} => HeadCredits' > 0
  BY <1>1, <1>2 DEF CreditInv, QueueInv
<1> QED BY <1>1, <1>3, <1>4 DEF CreditInv

\* Every step keeps the credits and the room as CreditInv says.
LEMMA CreditsKept ==
  ASSUME CreditInv, QueueInv, [Next]_vars
  PROVE  CreditInv'
<1>1. CASE \/ HW_ProcessPendingInterrupts
           \/ EnableOff
           \/ EnableOn
           \/ Driver_CompleteRequest
           \/ ProcessCpuInterrupt
           \/ Driver_RxReady
           \/ Hcd_GetLookAhead
           \/ RxIdle
           \/ Custom_GetRxRequest
           \/ Drop
           \/ Requeue
           \/ Async
           \/ CanBlock
           \/ Block
           \/ WaitForEvent
           \/ WaitTimeout
  <2>1. /\ UNCHANGED <<credits, freed, held, fifo, WriteBufferSpace>>
        /\ ~Sending /\ ~Sending'
    BY <1>1 DEF Sending, HW_ProcessPendingInterrupts, EnableOff, EnableOn,
       SetRegs,
       Driver_CompleteRequest, ProcessCpuInterrupt, Hcd_UnmaskInterrupts,
       Driver_RxReady, RxPossible, Hcd_GetLookAhead, RxIdle,
       Custom_GetRxRequest, LastBuffer, Drop, TxReturn, Requeue, Async,
       CanBlock, MayBlock, Block, WaitForEvent, WaitTimeout, Goto, taskVars,
       regVars, irqVars, busVars, deadVars, txVars, rxVars, evVars, crVars,
       devVars
  <2>2. \A e \in EP : credits'[e] + freed'[e] + Spent(e)' = Window(e)
    BY <2>1, NothingSpent DEF Sending
  <2> QED BY <2>1, <2>2 DEF CreditInv, Sending
<1>2. CASE \/ HW_InterruptHandler
           \/ Api_TxGetStatus
           \/ \E t \in Reqs \cup {Query} : Driver_WakeDriver(t)
           \/ a_netbuf_free_rx_pool
           \/ Driver_ReportRxBuffStatus
           \/ DevPacketHeader
           \/ DevPacketBody
           \/ DevWatermark
           \/ \E s \in Sources : DevCpuOrError(s)
           \/ UNCHANGED vars
  <2>1. UNCHANGED <<pc, req, txQueue, credits, freed, held, fifo,
                    WriteBufferSpace>>
    BY <1>2 DEF HW_InterruptHandler, Api_TxGetStatus, Driver_WakeDriver,
       a_netbuf_free_rx_pool, MutexFree, Driver_ReportRxBuffStatus,
       DevPacketHeader, DevRaise, SetRegs, DevPacketBody, DevWatermark,
       DevCpuOrError, Goto, taskVars, regVars, irqVars, busVars, deadVars,
       txVars, rxVars, evVars, crVars, devVars, vars
  <2> QED BY <2>1 DEF CreditInv, Spent, OnBus, HeadCredits
<1> QED BY <1>1, <1>2, ReceiveKeepsCredits, TxReadyKeepsCredits,
           SendKeepsCredits, TransferKeepsCredits, DrainKeepsCredits,
           FreeKeepsCredits, RoomKeepsCredits, SubmitKeepsCredits
        DEF Next, DriverStep, UserStep, DeviceStep

-----------------------------------------------------------------------------
(***************************************************************************)
(* The parts together.                                                     *)
(***************************************************************************)
LEMMA InitHolds == Init => IInv
<1> SUFFICES ASSUME Init PROVE IInv
  OBVIOUS
<1>1. TaskTypes /\ BusTypes /\ IrqTypes /\ EventTypes
  <2>1. TaskTypes
    BY DEF Init, TaskTypes, Labels
  <2>2. BusTypes
    <3>1. /\ fatalError = FALSE /\ dmaComplete = FALSE
          /\ writeWait = FALSE /\ wmark = FALSE /\ creditDeadlock = FALSE
          /\ creditDeadlockCounter = 0
      BY DEF Init
    <3>2. creditDeadlockCounter \in 0..MAX_CREDIT_DEADLOCK_ATTEMPTS
      BY <3>1 DEF MAX_CREDIT_DEADLOCK_ATTEMPTS
    <3> QED BY <3>1, <3>2, Zenon DEF BusTypes
  <2>3. IrqTypes
    BY DEF Init, IrqTypes
  <2>4. EventTypes
    BY DEF Init, EventTypes
  <2> QED BY <2>1, <2>2, <2>3, <2>4
<1>2. FlagsByPlace
  BY DEF Init, FlagsByPlace, Sending, Purging
<1>3. QueueInv
  <2>1. Cardinality(Reqs) \in Nat
    BY ReqAssumption, FS_CardinalityType
  <2>2. \A r : ~Queued(r)
    BY DEF Init, Queued
  <2>3. owner = [r \in Reqs |-> "user"] /\ txQueue = <<>>
    BY DEF Init
  <2> QED BY <2>1, <2>2, <2>3, ReqAssumption DEF Init, QueueInv, Purging
<1>4. BufferInv
  BY CountAssumption DEF Init, BufferInv
<1>5. CreditInv
  <2>1. fifo = <<>> /\ pc = "Irq" /\ WriteBufferSpace = FifoSize
    BY DEF Init
  <2>2. \A e \in EP : Cardinality(At(fifo, e)) = 0
    BY <2>1, FS_EmptySet DEF At
  <2>3. /\ held = [e \in EP |-> 0] /\ freed = [e \in EP |-> 0]
        /\ credits = [e \in EP |-> IF e = "ctl" THEN 1 ELSE DataCredits]
    BY DEF Init
  <2>4. \A e \in EP : credits[e] + freed[e] + Spent(e) = Window(e)
    BY <2>1, <2>2, <2>3, CountAssumption DEF Spent, OnBus, Window
  <2> QED BY <2>1, <2>3, <2>4, CountAssumption DEF CreditInv
<1>6. IrqInv /\ AnnounceInv
  BY DEF Init, IrqInv, AnnounceInv, MasksRight, PacketMaskDiscipline,
         WriteWaitArmed, InterruptNotLost, PacketAnnounced, Line, Sources
<1>7. WakeInv /\ TxWakeInv
  BY DEF Init, WakeInv, TxWakeInv, Deciding
<1> QED BY <1>1, <1>2, <1>3, <1>4, <1>5, <1>6, <1>7 DEF IInv

\* The invariant is inductive.
LEMMA StepKeeps == IInv /\ [Next]_vars => IInv'
<1> SUFFICES ASSUME IInv, [Next]_vars PROVE IInv'
  OBVIOUS
<1>1. /\ TaskTypes /\ BusTypes /\ IrqTypes /\ EventTypes /\ FlagsByPlace
      /\ QueueInv /\ BufferInv /\ CreditInv /\ IrqInv /\ AnnounceInv
      /\ WakeInv /\ (~CoreSleeps => TxWakeInv)
  BY DEF IInv
<1>2. TaskTypes' /\ BusTypes' /\ IrqTypes' /\ EventTypes' /\ FlagsByPlace'
  BY <1>1, TaskTypesKept, BusTypesKept, IrqTypesKept, EventTypesKept,
     FlagsKept
<1>3. QueueInv' /\ BufferInv' /\ CreditInv'
  BY <1>1, QueueKept, BuffersKept, CreditsKept
<1>4. IrqInv' /\ AnnounceInv' /\ WakeInv'
  BY <1>1, IrqsKept, AnnouncementsKept, WakeupsKept
<1>5. ~CoreSleeps => TxWakeInv'
  BY <1>1, TxWakeupsKept
<1> QED BY <1>2, <1>3, <1>4, <1>5 DEF IInv

\* The inductive invariant holds of every reachable state of the driver task,
\* its users and the device.
THEOREM InvariantHolds == Spec => []IInv
BY InitHolds, StepKeeps, PTL DEF Spec

-----------------------------------------------------------------------------
(***************************************************************************)
(* A request of the driver's is in one place, one of the user's in none.   *)
(***************************************************************************)
LEMMA OnePlace == IInv => RequestInOnePlace
<1> SUFFICES ASSUME IInv, NEW r \in Reqs
             PROVE  Places(r) = IF owner[r] = "driver" THEN 1 ELSE 0
  BY DEF RequestInOnePlace
<1>1. Cardinality(At(txQueue, r)) = IF Queued(r) THEN 1 ELSE 0
  BY OnceAt DEF IInv, QueueInv, Queued
<1>2. /\ Cardinality({x \in {1} : req = r}) = IF req = r THEN 1 ELSE 0
      /\ Cardinality({x \in {1} : pCurrentRequest = r})
           = IF pCurrentRequest = r THEN 1 ELSE 0
  BY OneIf
<1>3. Places(r) = (IF Queued(r) THEN 1 ELSE 0) + (IF req = r THEN 1 ELSE 0)
                    + (IF pCurrentRequest = r THEN 1 ELSE 0)
  BY <1>1, <1>2 DEF Places, At
<1>4. /\ owner[r] = "driver" <=> Queued(r) \/ req = r \/ pCurrentRequest = r
      /\ Queued(r) => req # r /\ pCurrentRequest # r
  BY DEF IInv, QueueInv
<1>5. req = r => pCurrentRequest # r
  BY ReqAssumption
     DEF IInv, QueueInv, FlagsByPlace, Sending, Purging
<1> QED BY <1>3, <1>4, <1>5

\* The invariant implies the type invariant of the runs.
LEMMA TypesHold == IInv => TypeOK
<1> SUFFICES ASSUME IInv PROVE TypeOK
  OBVIOUS
<1>1. TaskTypes /\ BusTypes /\ IrqTypes /\ EventTypes
  BY DEF IInv
<1>2. /\ dropLeft \in 0..Cardinality(Reqs) /\ req \in Reqs \cup {NoReq}
      /\ pCurrentRequest \in Reqs \cup {NoReq} /\ txQueue \in Seq(Reqs)
      /\ owner \in [Reqs -> {"user", "driver"}]
  <2>1. Cardinality(Reqs) \in Nat
    BY ReqAssumption, FS_CardinalityType
  <2> QED BY <2>1 DEF IInv, QueueInv
<1>3. rxFree \in 0..RxBuffers /\ rxApp \in 0..RxBuffers /\ devRx \in 0..MaxRx
  BY CountAssumption DEF IInv, BufferInv
<1>4. /\ WriteBufferSpace \in 0..FifoSize /\ fifo \in Seq(EP)
      /\ held \in [EP -> Nat] /\ freed \in [EP -> Nat]
  BY CountAssumption DEF IInv, CreditInv
<1>5. credits \in [EP -> 0..(DataCredits + 1)]
  <2>1. CreditInv /\ credits \in [EP -> Nat]
    BY DEF IInv, CreditInv
  <2>2. ASSUME NEW e \in EP PROVE credits[e] <= DataCredits + 1
    <3>1. /\ credits[e] \in Nat /\ freed[e] \in Nat /\ held[e] \in Nat
          /\ Cardinality(At(fifo, e)) \in Nat /\ OnBus(e) \in {0, 1}
          /\ credits[e] + freed[e] + Spent(e) = Window(e)
      BY <2>1, CreditFacts
    <3>2. Spent(e) \in Nat
      BY <3>1 DEF Spent
    <3>3. Window(e) \in Nat /\ Window(e) <= DataCredits + 1
      BY CountAssumption DEF Window
    <3> QED BY <3>1, <3>2, <3>3, CountAssumption
  <2>3. \A e \in EP : credits[e] \in 0..(DataCredits + 1)
    BY <2>1, <2>2, CountAssumption
  <2> QED BY <2>1, <2>3
<1>6. /\ SpiIntEnableShadow \subseteq Sources /\ enableReg \subseteq Sources
      /\ cause \subseteq Sources
  BY DEF IInv, IrqInv
<1> QED BY <1>1, <1>2, <1>3, <1>4, <1>5, <1>6
        DEF TypeOK, TaskTypes, BusTypes, IrqTypes, EventTypes

(***************************************************************************)
(* Whoever submits, completes, purges or gives back, and in whatever order *)
(* it happens to the driver task: no request and no receive buffer is lost *)
(* or in two places (NothingLost), for any number of them.                 *)
(***************************************************************************)
THEOREM NothingIsLost == Spec => []NothingLost
<1>1. IInv => RxBuffersConserved
  BY OneIf DEF IInv, BufferInv, RxBuffersConserved
<1>2. IInv => NothingLost
  BY <1>1, OnePlace, TypesHold DEF NothingLost
<1> QED BY <1>2, InvariantHolds, PTL

(***************************************************************************)
(* A packet that waits in the device is announced or known, and the cached *)
(* room of the write buffer is there (DeviceViewAgrees).                   *)
(***************************************************************************)
THEOREM DeviceViewIsRight == Spec => []DeviceViewAgrees
<1>1. IInv => CachedSpaceIsSafe
  BY OneIf DEF IInv, CreditInv, CachedSpaceIsSafe
<1>2. IInv => DeviceViewAgrees
  BY <1>1 DEF IInv, AnnounceInv, DeviceViewAgrees
<1> QED BY <1>2, InvariantHolds, PTL

(***************************************************************************)
(* The packet interrupt is masked exactly while its service is owed, and a *)
(* wait for room has its interrupt armed (MasksRight), with every source   *)
(* and a core that sleeps.                                                 *)
(***************************************************************************)
THEOREM MasksAreRight == Spec => []MasksRight
<1>1. IInv => MasksRight
  BY DEF IInv, IrqInv
<1> QED BY <1>1, InvariantHolds, PTL

(***************************************************************************)
(* No interrupt is lost between the device and the edge-triggered host     *)
(* (InterruptNotLost).                                                     *)
(***************************************************************************)
THEOREM NoInterruptIsLost == Spec => []InterruptNotLost
<1>1. IInv => InterruptNotLost
  BY DEF IInv, IrqInv
<1> QED BY <1>1, InvariantHolds, PTL

(***************************************************************************)
(* The task never sleeps without limit on work it could do (NoLostWakeup), *)
(* provided the device's core clock does not stop: with a core that sleeps *)
(* Hcd_ProgramWriteBufferWaterMark finds room and nobody looks again.      *)
(***************************************************************************)
THEOREM NoWakeupIsLost == Spec => [](~CoreSleeps => NoLostWakeup)
<1>1. IInv => (~CoreSleeps => NoLostWakeup)
  <2> SUFFICES ASSUME IInv, ~CoreSleeps, Asleep, toWake = {}, ~freeing
               PROVE  /\ ~TxWork /\ ~asynchRequest /\ ~dmaComplete
                      /\ ~IrqDetected /\ ~(PendingIrqAcks /\ rxBufferStatus)
    BY DEF NoLostWakeup
  <2>1. pc = "Wait" /\ blockMsec = "forever" /\ ~driverWakeEvent
    BY DEF Asleep
  <2>2. ~asynchRequest /\ ~IrqDetected /\ ~(PendingIrqAcks /\ rxBufferStatus)
    BY <2>1 DEF IInv, WakeInv, Deciding
  <2>3. ~dmaComplete
    BY <2>1 DEF IInv, FlagsByPlace
  <2>4. ~TxWork
    BY <2>1 DEF IInv, TxWakeInv
  <2> QED BY <2>2, <2>3, <2>4
<1> QED BY <1>1, InvariantHolds, PTL

(***************************************************************************)
(* The purge of Driver_DropTxDataPackets gives back no control request     *)
(* (ControlNotDropped).                                                    *)
(***************************************************************************)
THEOREM ControlIsNotDropped == Spec => ControlNotDropped
<1>1. IInv /\ [Next]_vars =>
        [\A r \in CtlReqs : owner[r] = "driver" /\ owner'[r] = "user"
                              => pCurrentRequest = r]_vars
  <2> SUFFICES ASSUME IInv, [Next]_vars, NEW r \in CtlReqs,
                      owner[r] = "driver", owner'[r] = "user"
               PROVE  pCurrentRequest = r
    OBVIOUS
  <2>1. /\ r \in Reqs /\ r \notin DataReqs
        /\ owner \in [Reqs -> {"user", "driver"}]
    BY ReqAssumption DEF Reqs, IInv, QueueInv
  <2>2. CASE Driver_CompleteRequest
    BY <2>1, <2>2 DEF Driver_CompleteRequest, Complete
  <2>3. CASE Drop
    BY <2>1, <2>3 DEF Drop, Complete, Droppable
  <2>4. CASE \E x \in Reqs : Driver_SubmitTxRequest(x)
    BY <2>1, <2>4 DEF Driver_SubmitTxRequest
  <2>5. CASE \/ HW_ProcessPendingInterrupts
             \/ Hcd_BusInterrupt
             \/ EnableOff
             \/ EnableOn
             \/ ProcessCpuInterrupt
             \/ Driver_RxReady
             \/ Hcd_GetLookAhead
             \/ RxIdle
             \/ Custom_GetRxRequest
             \/ \E toApp \in BOOLEAN : Driver_RxComplete(toApp)
             \/ \E poll \in 0..(DataCredits + 1) : Driver_TxReady(poll)
             \/ TxSpace
             \/ \E asleep \in BOOLEAN : Hcd_ProgramWriteBufferWaterMark(asleep)
             \/ Requeue
             \/ Driver_SendPacket
             \/ DoDMAOp
    BY <2>1, <2>5 DEF HW_ProcessPendingInterrupts, Hcd_BusInterrupt, EnableOff,
       EnableOn, ProcessCpuInterrupt, Driver_RxReady, Hcd_GetLookAhead, RxIdle,
       Custom_GetRxRequest, Driver_RxComplete, Driver_TxReady, TxSpace,
       Hcd_ProgramWriteBufferWaterMark, Requeue, Driver_SendPacket, DoDMAOp,
       txVars
  <2>6. CASE \/ Async
             \/ CanBlock
             \/ Block
             \/ WaitForEvent
             \/ WaitTimeout
             \/ HW_InterruptHandler
             \/ Api_TxGetStatus
             \/ \E t \in Reqs \cup {Query} : Driver_WakeDriver(t)
             \/ a_netbuf_free_rx_pool
             \/ Driver_ReportRxBuffStatus
             \/ DevPacketHeader
             \/ DevPacketBody
             \/ DevWatermark
             \/ \E s \in Sources : DevCpuOrError(s)
             \/ DevDrain
             \/ \E e \in EP : DevFreeCredit(e)
             \/ UNCHANGED vars
    BY <2>1, <2>6 DEF Async, CanBlock, Block, WaitForEvent, WaitTimeout,
       HW_InterruptHandler, Api_TxGetStatus, Driver_WakeDriver,
       a_netbuf_free_rx_pool, Driver_ReportRxBuffStatus, DevPacketHeader,
       DevRaise, DevPacketBody, DevWatermark, DevCpuOrError, DevDrain,
       DevFreeCredit, txVars, vars
  <2> QED BY <2>2, <2>3, <2>4, <2>5, <2>6
          DEF Next, DriverStep, UserStep, DeviceStep
<1> QED BY <1>1, InvariantHolds, PTL DEF Spec, ControlNotDropped

-----------------------------------------------------------------------------
(***************************************************************************)
(* The driver task keeps the credit window.  What is in use is what the    *)
(* inductive invariant counts as spent, so that the sum of CreditInv tells *)
(* how it changes.                                                         *)
(***************************************************************************)
LEMMA InUseIsSpent ==
  ASSUME NEW e \in EP
  PROVE  InUse(e) = Spent(e) /\ InUse(e)' = Spent(e)'
<1>1. Cardinality({x \in {1} : pc = "Transfer" /\ EpOf(req) = e}) = OnBus(e)
  BY OneIf DEF OnBus
<1>2. Cardinality({x \in {1} : pc' = "Transfer" /\ EpOf(req') = e}) = OnBus(e)'
  BY OneIf DEF OnBus, EpOf
<1> QED BY <1>1, <1>2 DEF InUse, Spent, At, EpOf

\* A step of the driver task is a step of CreditWindow, or moves no credit.
LEMMA WindowStep ==
  ASSUME IInv, [Next]_vars
  PROVE  [CW!CWNext]_(CW!cwVars)
<1> DEFINE used == [e \in EP |-> InUse(e)]
           lent == [e \in EP |-> IF e = "ctl" THEN 1 ELSE DataCredits]
<1>1. CreditInv /\ CreditInv'
  BY StepKeeps DEF IInv
<1>2. /\ credits \in [EP -> Nat] /\ freed \in [EP -> Nat]
      /\ credits' \in [EP -> Nat] /\ freed' \in [EP -> Nat]
  BY <1>1 DEF CreditInv
<1>3. \A e \in EP :
        /\ Spent(e) \in Nat /\ credits[e] + freed[e] + Spent(e) = Window(e)
        /\ Spent(e)' \in Nat /\ Window(e) \in Nat
        /\ credits'[e] + freed'[e] + Spent(e)' = Window(e)
  <2>1. \A e \in EP : Spent(e) \in Nat /\ Window(e) \in Nat
    BY <1>1, CreditFacts DEF Spent
  <2>2. \A e \in EP : Spent(e)' \in Nat
    <3> SUFFICES ASSUME NEW e \in EP PROVE Spent(e)' \in Nat
      OBVIOUS
    <3>1. fifo' \in Seq(EP) /\ held'[e] \in Nat
      BY <1>1 DEF CreditInv
    <3>2. Cardinality(At(fifo', e)) \in Nat
      BY <3>1, AtIsFinite
    <3> QED BY <3>1, <3>2 DEF Spent, OnBus
  <2>3. \A e \in EP : credits[e] + freed[e] + Spent(e) = Window(e)
    BY <1>1 DEF CreditInv
  <2>4. \A e \in EP : credits'[e] + freed'[e] + Spent(e)' = Window(e)
    BY <1>1 DEF CreditInv, Window
  <2> QED BY <2>1, <2>2, <2>3, <2>4
<1>4. \A e \in EP : used[e] = Spent(e) /\ used'[e] = Spent(e)'
  BY InUseIsSpent
<1>5. ASSUME \A e \in EP : credits'[e] + freed'[e] = credits[e] + freed[e]
      PROVE  used' = used
  <2>1. \A e \in EP : Spent(e)' = Spent(e)
    BY <1>2, <1>3, <1>5
  <2> QED BY <1>4, <2>1
<1>6. CASE UNCHANGED <<credits, freed>>
  <2>1. used' = used
    BY <1>5, <1>6
  <2> QED BY <1>6, <2>1 DEF CW!cwVars
<1>7. ASSUME \A e \in EP : /\ credits'[e] + freed'[e] = credits[e] + freed[e]
                           /\ credits'[e] >= credits[e]
      PROVE  CW!CWNext
  <2>1. used' = used
    BY <1>5, <1>7
  <2>2. CW!Learn
    BY <1>2, <1>7, <2>1 DEF CW!Learn
  <2> QED BY <2>2 DEF CW!CWNext
<1>8. ASSUME NEW toApp \in BOOLEAN, Driver_RxComplete(toApp)
      PROVE  CW!CWNext
  <2>1. \A e \in EP : credits'[e] = credits[e] + freed[e] /\ freed'[e] = 0
    BY <1>8 DEF Driver_RxComplete
  <2> QED BY <1>2, <1>7, <2>1
<1>9. ASSUME NEW poll \in 0..(DataCredits + 1), Driver_TxReady(poll)
      PROVE  [CW!CWNext]_(CW!cwVars)
  <2>1. ASSUME NEW d \in EP, NEW got \in Nat, got <= freed[d],
               credits' = [credits EXCEPT ![d] = credits[d] + got],
               freed' = [freed EXCEPT ![d] = freed[d] - got]
        PROVE  CW!CWNext
    <3>1. \A e \in EP : /\ credits'[e] + freed'[e] = credits[e] + freed[e]
                        /\ credits'[e] >= credits[e]
      BY <1>2, <2>1
    <3> QED BY <1>7, <3>1
  <2> QED BY <1>1, <1>6, <1>9, <2>1, TxReadyShape
<1>10. CASE Driver_SendPacket
  <2> DEFINE d == EpOf(Head(txQueue))
  <2>1. /\ pc = "Send" /\ freed' = freed
        /\ credits' = [credits EXCEPT ![d] = credits[d] - 1]
    BY <1>10 DEF Driver_SendPacket, Htc_SendPacket
  <2>2. d \in EP /\ credits[d] > 0
    BY <1>1, <2>1 DEF CreditInv, HeadCredits, EpOf, EP
  <2> HIDE DEF d
  <2>3. \A e \in EP : Spent(e)' = IF e = d THEN Spent(e) + 1 ELSE Spent(e)
    BY <1>2, <1>3, <2>1, <2>2
  <2>4. used' = [used EXCEPT ![d] = used[d] + 1]
    BY <1>4, <2>3
  <2>5. \E got \in 0..freed[d] :
           /\ credits[d] + got > 0
           /\ credits' = [credits EXCEPT ![d] = (credits[d] + got) - 1]
           /\ freed' = [freed EXCEPT ![d] = freed[d] - got]
    <3>1. 0 \in 0..freed[d] /\ credits[d] + 0 = credits[d]
      BY <1>2, <2>2
    <3>2. freed' = [freed EXCEPT ![d] = freed[d] - 0]
      BY <1>2, <2>1, <2>2
    <3> QED BY <2>1, <2>2, <3>1, <3>2
  <2>6. CW!Spend(d)
    BY <2>4, <2>5 DEF CW!Spend
  <2> QED BY <2>2, <2>6 DEF CW!CWNext
<1>11. ASSUME NEW d \in EP, DevFreeCredit(d)
       PROVE  CW!CWNext
  <2>1. credits' = credits /\ freed' = [freed EXCEPT ![d] = freed[d] + 1]
    BY <1>11 DEF DevFreeCredit
  <2>2. \A e \in EP : Spent(e)' = IF e = d THEN Spent(e) - 1 ELSE Spent(e)
    BY <1>2, <1>3, <2>1
  <2>3. used' = [used EXCEPT ![d] = used[d] - 1]
    BY <1>4, <2>2
  <2>4. used[d] > 0
    BY <1>3, <1>4, <2>2
  <2>5. CW!Free(d)
    BY <2>1, <2>3, <2>4 DEF CW!Free
  <2> QED BY <2>5 DEF CW!CWNext
<1>12. CASE \/ HW_ProcessPendingInterrupts
            \/ Hcd_BusInterrupt
            \/ EnableOff
            \/ EnableOn
            \/ Driver_CompleteRequest
            \/ ProcessCpuInterrupt
            \/ Driver_RxReady
            \/ Hcd_GetLookAhead
            \/ RxIdle
            \/ Custom_GetRxRequest
            \/ TxSpace
            \/ \E asleep \in BOOLEAN : Hcd_ProgramWriteBufferWaterMark(asleep)
            \/ Drop
            \/ Requeue
            \/ DoDMAOp
            \/ Async
            \/ CanBlock
            \/ Block
            \/ WaitForEvent
            \/ WaitTimeout
            \/ HW_InterruptHandler
            \/ \E r \in Reqs : Driver_SubmitTxRequest(r)
            \/ Api_TxGetStatus
            \/ \E t \in Reqs \cup {Query} : Driver_WakeDriver(t)
            \/ a_netbuf_free_rx_pool
            \/ Driver_ReportRxBuffStatus
            \/ DevPacketHeader
            \/ DevPacketBody
            \/ DevWatermark
            \/ \E s \in Sources : DevCpuOrError(s)
            \/ DevDrain
            \/ UNCHANGED vars
  <2>1. UNCHANGED <<credits, freed>>
    BY <1>12 DEF HW_ProcessPendingInterrupts, Hcd_BusInterrupt, EnableOff,
       EnableOn, Driver_CompleteRequest, ProcessCpuInterrupt, Driver_RxReady,
       Hcd_GetLookAhead, RxIdle, Custom_GetRxRequest, TxSpace,
       Hcd_ProgramWriteBufferWaterMark, Drop, Requeue, DoDMAOp, Async,
       CanBlock, Block, WaitForEvent, WaitTimeout, HW_InterruptHandler,
       Driver_SubmitTxRequest, Api_TxGetStatus, Driver_WakeDriver,
       a_netbuf_free_rx_pool, Driver_ReportRxBuffStatus, DevPacketHeader,
       DevRaise, DevPacketBody, DevWatermark, DevCpuOrError, DevDrain, crVars,
       vars
  <2> QED BY <1>6, <2>1
<1> QED BY <1>6, <1>8, <1>9, <1>10, <1>11, <1>12
        DEF Next, DriverStep, UserStep, DeviceStep

(***************************************************************************)
(* Every step of the driver task is a step of the abstract credit window,  *)
(* or leaves it alone (KeepsCreditWindow).                                 *)
(***************************************************************************)
THEOREM CreditWindowIsKept == Spec => KeepsCreditWindow
BY WindowStep, InvariantHolds, PTL DEF Spec, KeepsCreditWindow
=============================================================================
