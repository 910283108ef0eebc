----------------------------- MODULE HtcCredits -----------------------------
(***************************************************************************)
(* HTC transmit credits (common_src/htc/htc.c, and the credit part of      *)
(* Driver_TxReady in common_src/driver/driver_main.c).                     *)
(*                                                                         *)
(* The device gives credits back over two channels.  In band: a trailer of *)
(* a received packet reports how many credits were returned since the last *)
(* report (Htc_ProcessCreditRpt).  Out of band: a device register holds a  *)
(* byte-wide running count of every credit ever returned, which the driver *)
(* reads when an endpoint runs dry (Htc_GetCreditCounterUpdate).  The same *)
(* credit is announced on both channels and must be counted once.          *)
(*                                                                         *)
(* The byte-wide counters count modulo CounterMod (256 in the code), so    *)
(* that TLC reaches the wrap in a small instance.  Credits returned and    *)
(* not yet reported in band are one number per endpoint, pending; a report *)
(* takes any part of it, which stands for every way the device can have    *)
(* cut its returns into trailers, lookahead and padding left out.          *)
(***************************************************************************)
EXTENDS Integers

CONSTANTS
  CounterMod,          \* range of the QOSAL_UINT8 credit counters
  DefaultCreditCount,  \* AR4100_DEFAULT_CREDIT_COUNT
  DevCreditCounts,     \* credit counts a firmware may announce
  TxIds                \* endpoint ids transmit requests are made for

(***************************************************************************)
(* ep[2] gets what ep[0] and ep[1] leave and has to fit a byte.            *)
(***************************************************************************)
ASSUME CounterAssumption == CounterMod \in Nat /\ CounterMod > 1
ASSUME CountAssumption ==
          /\ DefaultCreditCount \in 3..(CounterMod + 1)
          /\ DevCreditCounts \subseteq 3..(CounterMod + 1)
ASSUME TxIdAssumption == TxIds \subseteq Nat

EP == 0..2             \* ENDPOINT_0 .. ENDPOINT_MANAGED_MAX-1
Byte == 0..(CounterMod - 1)
NoReq == -1
Zero == [e \in EP |-> 0]

VARIABLES
  \* A_DRIVER_CONTEXT
  htcStart, htc_creditInit, wmiReady, rxBufferStatus,
  head,                \* endpoint id of the request at the head of txQueue
  \* A_ENDPOINT_T ep[]
  credits, maxCredits, intCredits, rptCreditCounter,
  \* the device
  devCount,            \* credits the firmware has to lend
  cpuIntr,             \* a CPU interrupt with cause bit 0 is raised
  held,                \* packets in device buffers
  devCounter,          \* the COUNT register byte of each endpoint
  pending,             \* credits returned, not yet reported in band
  needUpdate           \* HTC_FLAGS_NEED_CREDIT_UPDATE seen, report owed

hostVars == <<htcStart, htc_creditInit, wmiReady, rxBufferStatus, head>>
epVars   == <<credits, maxCredits, intCredits, rptCreditCounter>>
devVars  == <<devCount, cpuIntr, held, devCounter, pending, needUpdate>>
vars     == <<hostVars, epVars, devVars>>

-----------------------------------------------------------------------------
(***************************************************************************)
(* Byte arithmetic: a + b and a - b modulo CounterMod, for bytes a and b.  *)
(***************************************************************************)
U8Add(a, b) == IF a + b >= CounterMod THEN a + b - CounterMod ELSE a + b
U8Sub(a, b) == IF a >= b THEN a - b ELSE a - b + CounterMod

(***************************************************************************)
(* Several endpoint ids share the last managed endpoint object.            *)
(***************************************************************************)
Util_GetEndpoint(id) == IF id >= 3 THEN 2 ELSE id

(***************************************************************************)
(* One credit each for the HTC and WMI control endpoints, the rest for     *)
(* data.                                                                   *)
(***************************************************************************)
Distribution(n) == [e \in EP |-> IF e = 2 THEN n - 2 ELSE 1]

Htc_DistributeCredits(n) == /\ maxCredits' = Distribution(n)
                            /\ credits' = Distribution(n)
                            /\ rptCreditCounter' = Zero
                            /\ intCredits' = Zero

\* Mutant: earlier out-of-band readings are not deducted.
OobCreditsNotDeducted(e) ==
  IF htc_creditInit THEN U8Sub(devCounter[e], rptCreditCounter[e]) ELSE 0

(***************************************************************************)
(* Credits an out-of-band reading adds for endpoint e: what the register   *)
(* counts beyond the in-band reports, less what earlier readings added.    *)
(***************************************************************************)
OobCredits(e) ==
  LET c == U8Sub(devCounter[e], rptCreditCounter[e])
  IN  IF ~htc_creditInit \/ c < intCredits[e] THEN 0 ELSE c - intCredits[e]

\* Mutant: a report is added whole, credits taken out of band are not settled.
NewInBandUnsettled(e, n) == n

(***************************************************************************)
(* In-band report of n credits for endpoint e: the part not already taken  *)
(* out of band is new, the rest settles intCredits.                        *)
(***************************************************************************)
NewInBand(e, n)  == IF intCredits[e] <= n THEN n - intCredits[e] ELSE 0
LeftInBand(e, n) == IF intCredits[e] <= n THEN 0 ELSE intCredits[e] - n

Htc_ProcessCreditRpt(rpt) ==
  /\ rptCreditCounter' = [e \in EP |-> U8Add(rptCreditCounter[e], rpt[e])]
  /\ credits' = [e \in EP |-> U8Add(credits[e], NewInBand(e, rpt[e]))]
  /\ intCredits' = [e \in EP |-> LeftInBand(e, rpt[e])]
  /\ UNCHANGED maxCredits

-----------------------------------------------------------------------------
(***************************************************************************)
(* Driver_ContextInit zeroes the endpoints.  The device boots; a firmware  *)
(* with the out-of-band scheme raises the CPU interrupt before it sends    *)
(* its first packet, one without never does and lends the default count.   *)
(***************************************************************************)
Init == /\ htcStart = FALSE /\ htc_creditInit = FALSE /\ wmiReady = FALSE
        /\ rxBufferStatus = TRUE
        /\ head = NoReq
        /\ credits = Zero /\ maxCredits = Zero /\ intCredits = Zero
        /\ rptCreditCounter = Zero
        /\ \/ cpuIntr = TRUE /\ devCount \in DevCreditCounts
           \/ cpuIntr = FALSE /\ devCount = DefaultCreditCount
        /\ held = Zero /\ devCounter = Zero /\ pending = Zero
        /\ needUpdate = [e \in EP |-> FALSE]

(***************************************************************************)
(* HTC_WaitTarget takes the default count, HTC_Start distributes it.       *)
(***************************************************************************)
HTC_Start == /\ ~htcStart
             /\ htcStart' = TRUE
             /\ Htc_DistributeCredits(DefaultCreditCount)
             /\ UNCHANGED <<htc_creditInit, wmiReady, rxBufferStatus, head,
                            devVars>>

\* Mutant: every CPU interrupt distributes the credits anew.
HTC_ProcessCpuInterruptEveryTime ==
  /\ htcStart /\ cpuIntr
  /\ cpuIntr' = FALSE
  /\ htc_creditInit' = TRUE
  /\ Htc_DistributeCredits(devCount)
  /\ UNCHANGED <<htcStart, wmiReady, rxBufferStatus, head,
                 devCount, held, devCounter, pending, needUpdate>>

(***************************************************************************)
(* The first CPU interrupt brings the firmware's own credit count; later   *)
(* ones are acknowledged only.                                             *)
(***************************************************************************)
HTC_ProcessCpuInterrupt ==
  /\ htcStart /\ cpuIntr
  /\ cpuIntr' = FALSE
  /\ htc_creditInit' = TRUE
  /\ IF htc_creditInit THEN UNCHANGED epVars
                       ELSE Htc_DistributeCredits(devCount)
  /\ UNCHANGED <<htcStart, wmiReady, rxBufferStatus, head,
                 devCount, held, devCounter, pending, needUpdate>>

(***************************************************************************)
(* The WMI_READY event, the device's first packet.  Its interrupt is       *)
(* served after the CPU interrupt raised before it.                        *)
(***************************************************************************)
Api_ReadyEvent == /\ htcStart /\ rxBufferStatus /\ ~cpuIntr /\ ~wmiReady
                  /\ wmiReady' = TRUE
                  /\ UNCHANGED <<htcStart, htc_creditInit, rxBufferStatus,
                                 head, epVars, devVars>>

(***************************************************************************)
(* A request reaches the head of txQueue.                                  *)
(***************************************************************************)
Driver_SubmitTxRequest(id) ==
  /\ wmiReady /\ head = NoReq
  /\ head' = id
  /\ UNCHANGED <<htcStart, htc_creditInit, wmiReady, rxBufferStatus,
                 epVars, devVars>>

(***************************************************************************)
(* Htc_SendPacket: one credit pays for the packet (Driver_TxReady refuses  *)
(* requests longer than a credit); a sender that spends its last credit    *)
(* asks the device for a report.                                           *)
(***************************************************************************)
\* Mutant: the report is asked for one packet too early.
NeedCreditUpdateAtOne(e, left) == needUpdate[e] \/ left = 1

NeedCreditUpdate(e, left) == needUpdate[e] \/ left = 0

Htc_SendPacket(e, have) ==
  /\ credits' = [credits EXCEPT ![e] = have - 1]
  /\ held' = [held EXCEPT ![e] = held[e] + 1]
  /\ needUpdate' = [needUpdate EXCEPT ![e] = NeedCreditUpdate(e, have - 1)]
  /\ head' = NoReq

(***************************************************************************)
(* A pass of Driver_TxReady and, when it says so, Driver_SendPacket.  With *)
(* no credit the COUNT register is read first.  space: the device FIFO has *)
(* room; without it the packet waits, the credits just read are kept.      *)
(***************************************************************************)
TxPass(space) ==
  /\ head # NoReq
  /\ LET e    == Util_GetEndpoint(head)
         oob  == IF credits[e] = 0 THEN OobCredits(e) ELSE 0
         have == U8Add(credits[e], oob)
     IN  /\ intCredits' = [intCredits EXCEPT ![e] = intCredits[e] + oob]
         /\ IF have > 0 /\ space
            THEN Htc_SendPacket(e, have)
            ELSE /\ credits' = [credits EXCEPT ![e] = have]
                 /\ UNCHANGED <<held, needUpdate, head>>
  /\ UNCHANGED <<htcStart, htc_creditInit, wmiReady, rxBufferStatus,
                 maxCredits, rptCreditCounter,
                 devCount, cpuIntr, devCounter, pending>>

(***************************************************************************)
(* A packet with a credit trailer is received.                             *)
(***************************************************************************)
Driver_RxComplete(rpt) ==
  /\ wmiReady /\ rxBufferStatus
  /\ \A e \in EP : rpt[e] <= pending[e]
  /\ Htc_ProcessCreditRpt(rpt)
  /\ pending' = [e \in EP |-> pending[e] - rpt[e]]
  /\ needUpdate' = [e \in EP |-> needUpdate[e]
                       /\ ~(rpt[e] = pending[e] /\ held[e] = 0)]
  /\ UNCHANGED <<hostVars, devCount, cpuIntr, held, devCounter>>

(***************************************************************************)
(* The application takes the last receive buffer, or gives one back.       *)
(***************************************************************************)
Driver_ReportRxBuffStatus(status) ==
  /\ rxBufferStatus' = status
  /\ UNCHANGED <<htcStart, htc_creditInit, wmiReady, head, epVars, devVars>>

-----------------------------------------------------------------------------
(***************************************************************************)
(* The device: a buffer is emptied and its credit returned; a further CPU  *)
(* interrupt is raised.                                                    *)
(***************************************************************************)
DevReturnCredit(e) ==
  /\ held[e] > 0
  /\ held' = [held EXCEPT ![e] = held[e] - 1]
  /\ devCounter' = [devCounter EXCEPT ![e] = U8Add(devCounter[e], 1)]
  /\ pending' = [pending EXCEPT ![e] = pending[e] + 1]
  /\ UNCHANGED <<hostVars, epVars, devCount, cpuIntr, needUpdate>>

DevRaiseCpuInterrupt ==
  /\ htc_creditInit /\ ~cpuIntr
  /\ cpuIntr' = TRUE
  /\ UNCHANGED <<hostVars, epVars, devCount, held, devCounter, pending,
                 needUpdate>>

Next == \/ HTC_Start
        \/ HTC_ProcessCpuInterrupt
        \/ Api_ReadyEvent
        \/ \E id \in TxIds : Driver_SubmitTxRequest(id)
        \/ \E space \in BOOLEAN : TxPass(space)
        \/ \E rpt \in [EP -> Byte] : Driver_RxComplete(rpt)
        \/ \E status \in BOOLEAN : Driver_ReportRxBuffStatus(status)
        \/ \E e \in EP : DevReturnCredit(e)
        \/ DevRaiseCpuInterrupt

Spec == Init /\ [][Next]_vars

-----------------------------------------------------------------------------
(***************************************************************************)
(* Type correctness: every counter the code keeps in a byte stays one.     *)
(***************************************************************************)
TypeOK ==
  /\ htcStart \in BOOLEAN /\ htc_creditInit \in BOOLEAN
  /\ wmiReady \in BOOLEAN /\ rxBufferStatus \in BOOLEAN
  /\ head \in TxIds \cup {NoReq}
  /\ credits \in [EP -> Byte] /\ maxCredits \in [EP -> Byte]
  /\ intCredits \in [EP -> Byte] /\ rptCreditCounter \in [EP -> Byte]
  /\ devCount \in DevCreditCounts \cup {DefaultCreditCount}
  /\ cpuIntr \in BOOLEAN
  /\ held \in [EP -> Nat] /\ devCounter \in [EP -> Byte]
  /\ pending \in [EP -> Nat] /\ needUpdate \in [EP -> BOOLEAN]

(***************************************************************************)
(* Htc_SendPacket never sends the device more packets on an endpoint than  *)
(* the firmware lent credits for, whichever channel the credits came back  *)
(* on and however the two are interleaved.                                 *)
(***************************************************************************)
NoDeviceOverrun == \A e \in EP : held[e] <= Distribution(devCount)[e]

(***************************************************************************)
(* Htc_ProcessCreditRpt and Htc_GetCreditCounterUpdate count each returned *)
(* credit exactly once: the credits the host has, those in device buffers  *)
(* and those returned but not yet counted always make up maxCredits.       *)
(***************************************************************************)
CreditsConserved ==
  \A e \in EP : /\ intCredits[e] <= pending[e]
                /\ credits[e] + held[e] + (pending[e] - intCredits[e])
                     = maxCredits[e]

(***************************************************************************)
(* The two byte counters never drift apart: the register is ahead of       *)
(* rptCreditCounter by the unreported credits modulo the counter's range.  *)
(***************************************************************************)
CountersAgree ==
  \A e \in EP : LET d == U8Sub(devCounter[e], rptCreditCounter[e])
                IN  pending[e] = d \/ pending[e] = d + CounterMod

(***************************************************************************)
(* Htc_SendPacket has asked for a report (HTC_FLAGS_NEED_CREDIT_UPDATE)    *)
(* whenever an endpoint is dry: a device that reports only when asked      *)
(* still owes one, so the endpoint cannot stay dry for want of a question. *)
(***************************************************************************)
DryEndpointHasAsked ==
  \A e \in EP : htcStart /\ credits[e] = 0 => needUpdate[e]

(***************************************************************************)
(* No credit is redistributed under a packet in flight: the initial        *)
(* distribution of HTC_ProcessCpuInterrupt happens before the first send.  *)
(***************************************************************************)
BootIsQuiet ==
  /\ cpuIntr /\ ~htc_creditInit => ~wmiReady
  /\ ~wmiReady => /\ held = Zero /\ pending = Zero /\ devCounter = Zero
                  /\ head = NoReq
  /\ wmiReady => htcStart /\ maxCredits = Distribution(devCount)

(***************************************************************************)
(* The window the driver keeps implements CreditWindow.                    *)
(***************************************************************************)
CW == INSTANCE CreditWindow
        WITH window <- maxCredits, avail <- credits, inUse <- held,
             freed <- [e \in EP |-> pending[e] - intCredits[e]]

ImplementsCreditWindow == CW!CWSpec

-----------------------------------------------------------------------------
(***************************************************************************)
(* Fairness.  The driver task runs at the highest priority and keeps       *)
(* passing Driver_Main while work is left; the device transmits what it    *)
(* holds and answers a credit request; the application returns receive     *)
(* buffers, and the driver serves a waiting packet whenever it has one.    *)
(***************************************************************************)
OwedReport(e) ==
  /\ needUpdate[e] /\ held[e] = 0 /\ pending[e] > 0
  /\ \E rpt \in [EP -> Byte] : rpt[e] > 0 /\ Driver_RxComplete(rpt)

Fairness == /\ WF_vars(HTC_Start) /\ WF_vars(HTC_ProcessCpuInterrupt)
            /\ SF_vars(Api_ReadyEvent)
            /\ WF_vars(TxPass(TRUE))
            /\ \A e \in EP : WF_vars(DevReturnCredit(e)) /\ SF_vars(OwedReport(e))
            /\ WF_vars(Driver_ReportRxBuffStatus(TRUE))

FairSpec == Spec /\ Fairness

(***************************************************************************)
(* Every request that reaches the head of txQueue is sent.                 *)
(***************************************************************************)
HeadIsSent == (head # NoReq) ~> (head = NoReq)

=============================================================================
