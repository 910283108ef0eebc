-------------------------- MODULE HtcCreditsProofs --------------------------
(***************************************************************************)
(* Proofs about HtcCredits for every counter range, every credit count a   *)
(* byte can hold and every set of endpoint ids.                            *)
(***************************************************************************)
EXTENDS HtcCredits, TLAPS

(***************************************************************************)
(* The window the host believes in, through the boot sequence: once the    *)
(* firmware's announcement (if it makes one) is processed, it is the       *)
(* firmware's.  Every endpoint of a started driver is lent something.      *)
(***************************************************************************)
BootWindow ==
  /\ htc_creditInit => htcStart
  /\ ~htc_creditInit /\ ~cpuIntr => devCount = DefaultCreditCount
  /\ htcStart /\ (htc_creditInit \/ ~cpuIntr) =>
       maxCredits = Distribution(devCount)
  /\ htcStart => \A e \in EP : maxCredits[e] > 0

IInv == /\ TypeOK
        /\ CreditsConserved
        /\ CountersAgree
        /\ BootIsQuiet
        /\ BootWindow
        /\ DryEndpointHasAsked

-----------------------------------------------------------------------------
(***************************************************************************)
(* Byte arithmetic stays within a byte.                                    *)
(***************************************************************************)
LEMMA ByteClosed ==
  ASSUME NEW a \in Byte, NEW b \in Byte
  PROVE  U8Add(a, b) \in Byte /\ U8Sub(a, b) \in Byte
BY CounterAssumption DEF Byte, U8Add, U8Sub

(***************************************************************************)
(* What is distributed fits the byte counters and leaves no endpoint dry.  *)
(***************************************************************************)
LEMMA DistributionFits ==
  ASSUME NEW n \in DevCreditCounts \cup {DefaultCreditCount}
  PROVE  /\ Distribution(n) \in [EP -> Byte]
         /\ \A e \in EP : Distribution(n)[e] > 0
BY CounterAssumption, CountAssumption DEF Distribution, EP, Byte

(***************************************************************************)
(* The two byte counters stay in step when the device returns a credit,    *)
(* as long as fewer than two ranges of credits are unreported.             *)
(***************************************************************************)
LEMMA ReturnKeepsStep ==
  ASSUME NEW dev \in Byte, NEW rpt \in Byte, NEW p \in Nat,
         p < 2 * CounterMod - 1,
         p = U8Sub(dev, rpt) \/ p = U8Sub(dev, rpt) + CounterMod
  PROVE  \/ p + 1 = U8Sub(U8Add(dev, 1), rpt)
         \/ p + 1 = U8Sub(U8Add(dev, 1), rpt) + CounterMod
BY CounterAssumption DEF Byte, U8Add, U8Sub

(***************************************************************************)
(* They stay in step when an in-band report of n credits is processed.     *)
(***************************************************************************)
LEMMA ReportKeepsStep ==
  ASSUME NEW dev \in Byte, NEW rpt \in Byte, NEW p \in Nat, NEW n \in Byte,
         n <= p,
         p = U8Sub(dev, rpt) \/ p = U8Sub(dev, rpt) + CounterMod
  PROVE  \/ p - n = U8Sub(dev, U8Add(rpt, n))
         \/ p - n = U8Sub(dev, U8Add(rpt, n)) + CounterMod
BY CounterAssumption DEF Byte, U8Add, U8Sub

(***************************************************************************)
(* An out-of-band reading adds only credits the device has returned and    *)
(* the host has not counted, and leaves intCredits a byte.                 *)
(***************************************************************************)
LEMMA OobIsReturned ==
  ASSUME TypeOK, CreditsConserved, CountersAgree, NEW e \in EP
  PROVE  /\ OobCredits(e) \in Byte
         /\ intCredits[e] + OobCredits(e) \in Byte
         /\ intCredits[e] + OobCredits(e) <= pending[e]
         /\ credits[e] + OobCredits(e) \in Byte
<1> DEFINE c == U8Sub(devCounter[e], rptCreditCounter[e])
<1>1. /\ c \in Byte /\ intCredits[e] \in Byte /\ credits[e] \in Byte
      /\ pending[e] \in Nat /\ held[e] \in Nat /\ maxCredits[e] \in Byte
  BY ByteClosed DEF TypeOK
<1>2. pending[e] = c \/ pending[e] = c + CounterMod
  BY DEF CountersAgree
<1>3. /\ intCredits[e] <= pending[e]
      /\ credits[e] + held[e] + (pending[e] - intCredits[e]) = maxCredits[e]
  BY DEF CreditsConserved
<1>4. OobCredits(e) = IF ~htc_creditInit \/ c < intCredits[e]
                      THEN 0 ELSE c - intCredits[e]
  BY DEF OobCredits
<1> HIDE DEF c
<1> QED BY <1>1, <1>2, <1>3, <1>4, CounterAssumption DEF Byte

-----------------------------------------------------------------------------
(***************************************************************************)
(* A (re)distribution while no credit is out establishes the invariant's   *)
(* parts about the endpoints.                                              *)
(***************************************************************************)
LEMMA DistributeKeeps ==
  ASSUME IInv, ~wmiReady, UNCHANGED <<held, pending, devCounter, needUpdate>>,
         NEW n \in DevCreditCounts \cup {DefaultCreditCount},
         Htc_DistributeCredits(n)
  PROVE  /\ credits' \in [EP -> Byte] /\ maxCredits' \in [EP -> Byte]
         /\ intCredits' \in [EP -> Byte] /\ rptCreditCounter' \in [EP -> Byte]
         /\ CreditsConserved' /\ CountersAgree'
         /\ maxCredits' = Distribution(n) /\ DryEndpointHasAsked'
         /\ \A e \in EP : maxCredits'[e] > 0
<1>1. /\ credits' = Distribution(n) /\ maxCredits' = Distribution(n)
      /\ intCredits' = Zero /\ rptCreditCounter' = Zero
  BY DEF Htc_DistributeCredits
<1>2. /\ Distribution(n) \in [EP -> Byte]
      /\ \A e \in EP : Distribution(n)[e] > 0
  BY DistributionFits
<1>3. held' = Zero /\ pending' = Zero /\ devCounter' = Zero
  BY DEF IInv, BootIsQuiet
<1>4. Zero \in [EP -> Byte] /\ \A e \in EP : Zero[e] = 0
  BY CounterAssumption DEF Zero, Byte
<1>5. CreditsConserved'
  BY <1>1, <1>2, <1>3, <1>4 DEF CreditsConserved, Byte
<1>6. CountersAgree'
  BY <1>1, <1>3, <1>4 DEF CountersAgree, U8Sub
<1>7. DryEndpointHasAsked'
  BY <1>1, <1>2 DEF DryEndpointHasAsked
<1> QED BY <1>1, <1>2, <1>4, <1>5, <1>6, <1>7

\* HTC_Start distributes the credits the host assumes.
LEMMA StartKeeps == IInv /\ HTC_Start => IInv'
<1> SUFFICES ASSUME IInv, HTC_Start PROVE IInv'
  OBVIOUS
<1>1. ~wmiReady /\ ~htc_creditInit
  BY DEF IInv, BootIsQuiet, BootWindow, HTC_Start
<1>2. UNCHANGED <<held, pending, devCounter, needUpdate, devCount, cpuIntr>>
  BY DEF HTC_Start, devVars
<1>3. /\ credits' \in [EP -> Byte] /\ maxCredits' \in [EP -> Byte]
      /\ intCredits' \in [EP -> Byte] /\ rptCreditCounter' \in [EP -> Byte]
      /\ CreditsConserved' /\ CountersAgree'
      /\ maxCredits' = Distribution(DefaultCreditCount) /\ DryEndpointHasAsked'
      /\ \A e \in EP : maxCredits'[e] > 0
  BY <1>1, <1>2, DistributeKeeps DEF HTC_Start
<1>4. TypeOK'
  BY <1>2, <1>3 DEF IInv, TypeOK, HTC_Start
<1>5. BootIsQuiet'
  BY <1>1, <1>2 DEF IInv, BootIsQuiet, HTC_Start
<1>6. BootWindow'
  BY <1>1, <1>2, <1>3 DEF IInv, BootWindow, HTC_Start
<1> QED BY <1>3, <1>4, <1>5, <1>6 DEF IInv

\* The first CPU interrupt distributes the credits the target has.
LEMMA CpuInterruptKeeps == IInv /\ HTC_ProcessCpuInterrupt => IInv'
<1> SUFFICES ASSUME IInv, HTC_ProcessCpuInterrupt PROVE IInv'
  OBVIOUS
<1>1. /\ htcStart /\ cpuIntr /\ ~cpuIntr' /\ htc_creditInit'
      /\ UNCHANGED <<htcStart, wmiReady, rxBufferStatus, head,
                     devCount, held, devCounter, pending, needUpdate>>
  BY DEF HTC_ProcessCpuInterrupt
<1>2. CASE htc_creditInit
  <2>1. UNCHANGED <<credits, maxCredits, intCredits, rptCreditCounter>>
    BY <1>2 DEF HTC_ProcessCpuInterrupt, epVars
  <2>2. TypeOK'
    BY <1>1, <2>1 DEF IInv, TypeOK, HTC_ProcessCpuInterrupt
  <2>3. CreditsConserved' /\ CountersAgree' /\ DryEndpointHasAsked'
    BY <1>1, <2>1 DEF IInv, CreditsConserved, CountersAgree,
                      DryEndpointHasAsked
  <2>4. BootIsQuiet' /\ BootWindow'
    BY <1>1, <1>2, <2>1 DEF IInv, BootIsQuiet, BootWindow
  <2> QED BY <2>2, <2>3, <2>4 DEF IInv
<1>3. CASE ~htc_creditInit
  <2>1. ~wmiReady
    BY <1>1, <1>3 DEF IInv, BootIsQuiet
  <2>2. Htc_DistributeCredits(devCount)
    BY <1>3 DEF HTC_ProcessCpuInterrupt
  <2>3. devCount \in DevCreditCounts \cup {DefaultCreditCount}
    BY DEF IInv, TypeOK
  <2>4. /\ credits' \in [EP -> Byte] /\ maxCredits' \in [EP -> Byte]
        /\ intCredits' \in [EP -> Byte] /\ rptCreditCounter' \in [EP -> Byte]
        /\ CreditsConserved' /\ CountersAgree'
        /\ maxCredits' = Distribution(devCount) /\ DryEndpointHasAsked'
        /\ \A e \in EP : maxCredits'[e] > 0
    BY <1>1, <2>1, <2>2, <2>3, DistributeKeeps
  <2>5. TypeOK'
    BY <1>1, <2>4 DEF IInv, TypeOK, HTC_ProcessCpuInterrupt
  <2>6. BootIsQuiet' /\ BootWindow'
    BY <1>1, <2>1, <2>4 DEF IInv, BootIsQuiet, BootWindow
  <2> QED BY <2>4, <2>5, <2>6 DEF IInv
<1> QED BY <1>2, <1>3

(***************************************************************************)
(* The actions that touch neither endpoints nor device counters.           *)
(***************************************************************************)
LEMMA QuietKeeps ==
  ASSUME IInv,
         \/ Api_ReadyEvent
         \/ \E id \in TxIds : Driver_SubmitTxRequest(id)
         \/ \E status \in BOOLEAN : Driver_ReportRxBuffStatus(status)
         \/ DevRaiseCpuInterrupt
         \/ UNCHANGED vars
  PROVE  IInv'
<1> USE DEF Api_ReadyEvent, Driver_SubmitTxRequest, Driver_ReportRxBuffStatus,
            DevRaiseCpuInterrupt, vars, hostVars, epVars, devVars
<1>1. UNCHANGED <<htcStart, htc_creditInit, credits, maxCredits, intCredits,
                  rptCreditCounter, devCount, held, devCounter, pending,
                  needUpdate>>
  OBVIOUS
<1>2. TypeOK'
  BY DEF IInv, TypeOK
<1>3. CreditsConserved' /\ CountersAgree' /\ DryEndpointHasAsked'
  BY <1>1 DEF IInv, CreditsConserved, CountersAgree, DryEndpointHasAsked
<1>4. BootWindow'
  BY <1>1 DEF IInv, BootWindow
<1>5. BootIsQuiet'
  BY DEF IInv, BootIsQuiet, BootWindow
<1> QED BY <1>2, <1>3, <1>4, <1>5 DEF IInv

\* The target frees a credit: it waits in the register.
LEMMA ReturnKeeps == ASSUME IInv, NEW e \in EP, DevReturnCredit(e)
                    PROVE  IInv'
<1>1. /\ held[e] > 0
      /\ held' = [held EXCEPT ![e] = held[e] - 1]
      /\ devCounter' = [devCounter EXCEPT ![e] = U8Add(devCounter[e], 1)]
      /\ pending' = [pending EXCEPT ![e] = pending[e] + 1]
      /\ UNCHANGED <<htcStart, htc_creditInit, wmiReady, rxBufferStatus, head,
                     credits, maxCredits, intCredits, rptCreditCounter,
                     devCount, cpuIntr, needUpdate>>
  BY DEF DevReturnCredit, hostVars, epVars
<1>2. TypeOK
  BY DEF IInv
<1>3. U8Add(devCounter[e], 1) \in Byte
  BY <1>2, ByteClosed, CounterAssumption DEF TypeOK, Byte
<1>4. TypeOK'
  BY <1>1, <1>2, <1>3 DEF TypeOK
<1>5. CreditsConserved'
  <2>1. /\ held \in [EP -> Nat] /\ pending \in [EP -> Nat]
        /\ credits \in [EP -> Int] /\ intCredits \in [EP -> Int]
        /\ maxCredits \in [EP -> Int]
    BY <1>2, CounterAssumption DEF TypeOK, Byte
  <2>2. CreditsConserved
    BY DEF IInv
  <2> SUFFICES ASSUME NEW f \in EP
               PROVE  /\ intCredits[f] <= pending'[f]
                      /\ credits[f] + held'[f] + (pending'[f] - intCredits[f])
                           = maxCredits[f]
    BY <1>1 DEF CreditsConserved
  <2>3. CASE f = e
    <3>1. held'[f] = held[f] - 1 /\ pending'[f] = pending[f] + 1
      BY <1>1, <2>1, <2>3
    <3>2. /\ held[f] \in Nat /\ pending[f] \in Nat /\ credits[f] \in Int
          /\ intCredits[f] \in Int /\ maxCredits[f] \in Int
      BY <2>1
    <3>3. /\ intCredits[f] <= pending[f]
          /\ credits[f] + held[f] + (pending[f] - intCredits[f])
               = maxCredits[f]
      BY <2>2 DEF CreditsConserved
    <3> QED BY <3>1, <3>2, <3>3
  <2>4. CASE f # e
    <3>1. held'[f] = held[f] /\ pending'[f] = pending[f]
      BY <1>1, <2>1, <2>4
    <3> QED BY <2>2, <3>1 DEF CreditsConserved
  <2> QED BY <2>3, <2>4
<1>6. CountersAgree'
  <2>1. pending[e] < 2 * CounterMod - 1
    BY <1>1, <1>2, CounterAssumption DEF IInv, TypeOK, CreditsConserved, Byte
  <2>2. \/ pending[e] = U8Sub(devCounter[e], rptCreditCounter[e])
        \/ pending[e] = U8Sub(devCounter[e], rptCreditCounter[e]) + CounterMod
    BY DEF IInv, CountersAgree
  <2>3. \/ pending'[e] = U8Sub(devCounter'[e], rptCreditCounter'[e])
        \/ pending'[e] = U8Sub(devCounter'[e], rptCreditCounter'[e])
                           + CounterMod
    BY <1>1, <1>2, <2>1, <2>2, ReturnKeepsStep DEF TypeOK
  <2>4. ASSUME NEW f \in EP, f # e
        PROVE  /\ pending'[f] = pending[f] /\ devCounter'[f] = devCounter[f]
               /\ rptCreditCounter'[f] = rptCreditCounter[f]
    BY <1>1, <1>2, <2>4 DEF TypeOK
  <2> QED BY <2>3, <2>4 DEF IInv, CountersAgree
<1>7. wmiReady
  BY <1>1 DEF IInv, BootIsQuiet, Zero
<1>0. BootIsQuiet' /\ BootWindow' /\ DryEndpointHasAsked'
  BY <1>1, <1>7 DEF IInv, BootIsQuiet, BootWindow, DryEndpointHasAsked
<1> QED BY <1>4, <1>5, <1>6, <1>0 DEF IInv

\* A credit report moves what was freed to the host.
LEMMA ReportKeeps == ASSUME IInv, NEW rpt \in [EP -> Byte],
                            Driver_RxComplete(rpt)
                     PROVE  IInv'
<1>1. /\ wmiReady /\ \A e \in EP : rpt[e] <= pending[e]
      /\ rptCreditCounter' = [e \in EP |-> U8Add(rptCreditCounter[e], rpt[e])]
      /\ credits' = [e \in EP |-> U8Add(credits[e], NewInBand(e, rpt[e]))]
      /\ intCredits' = [e \in EP |-> LeftInBand(e, rpt[e])]
      /\ pending' = [e \in EP |-> pending[e] - rpt[e]]
      /\ needUpdate' = [e \in EP |-> needUpdate[e]
                           /\ ~(rpt[e] = pending[e] /\ held[e] = 0)]
      /\ UNCHANGED <<htcStart, htc_creditInit, wmiReady, rxBufferStatus, head,
                     maxCredits, devCount, cpuIntr, held, devCounter>>
  BY DEF Driver_RxComplete, Htc_ProcessCreditRpt, hostVars
<1>2. TypeOK
  BY DEF IInv
<1>3. ASSUME NEW e \in EP
      PROVE  /\ NewInBand(e, rpt[e]) \in Byte /\ LeftInBand(e, rpt[e]) \in Byte
             /\ LeftInBand(e, rpt[e]) <= pending[e] - rpt[e]
             /\ U8Add(credits[e], NewInBand(e, rpt[e]))
                  = credits[e] + NewInBand(e, rpt[e])
             /\ U8Add(credits[e], NewInBand(e, rpt[e])) \in Byte
             /\ U8Add(credits[e], NewInBand(e, rpt[e])) + held[e]
                  + ((pending[e] - rpt[e]) - LeftInBand(e, rpt[e]))
                  = maxCredits[e]
             /\ U8Add(rptCreditCounter[e], rpt[e]) \in Byte
             /\ pending[e] - rpt[e] \in Nat
  <2>1. /\ rpt[e] \in Byte /\ rpt[e] <= pending[e] /\ pending[e] \in Nat
        /\ intCredits[e] \in Byte /\ credits[e] \in Byte /\ held[e] \in Nat
        /\ maxCredits[e] \in Byte /\ rptCreditCounter[e] \in Byte
    BY <1>1, <1>2 DEF TypeOK
  <2>2. /\ intCredits[e] <= pending[e]
        /\ credits[e] + held[e] + (pending[e] - intCredits[e]) = maxCredits[e]
    BY DEF IInv, CreditsConserved
  <2> QED BY <2>1, <2>2, CounterAssumption
          DEF NewInBand, LeftInBand, U8Add, Byte
<1>4. TypeOK'
  BY <1>1, <1>2, <1>3 DEF TypeOK
<1>5. CreditsConserved'
  BY <1>1, <1>3 DEF CreditsConserved
<1>6. CountersAgree'
  <2>1. ASSUME NEW e \in EP
        PROVE  \/ pending'[e] = U8Sub(devCounter'[e], rptCreditCounter'[e])
               \/ pending'[e] = U8Sub(devCounter'[e], rptCreditCounter'[e])
                                  + CounterMod
    <3>1. \/ pending[e] = U8Sub(devCounter[e], rptCreditCounter[e])
          \/ pending[e] = U8Sub(devCounter[e], rptCreditCounter[e]) + CounterMod
      BY DEF IInv, CountersAgree
    <3> QED BY <1>1, <1>2, <3>1, ReportKeepsStep DEF TypeOK
  <2> QED BY <2>1 DEF CountersAgree
<1>7. BootIsQuiet' /\ BootWindow'
  BY <1>1 DEF IInv, BootIsQuiet, BootWindow
<1>0. DryEndpointHasAsked'
  <2> SUFFICES ASSUME NEW e \in EP, htcStart', credits'[e] = 0
               PROVE  needUpdate'[e]
    BY DEF DryEndpointHasAsked
  <2>1. /\ credits[e] \in Byte /\ NewInBand(e, rpt[e]) \in Byte
        /\ pending[e] \in Nat /\ held[e] \in Nat /\ rpt[e] \in Byte
        /\ LeftInBand(e, rpt[e]) \in Byte /\ maxCredits[e] > 0
    BY <1>1, <1>2, <1>3 DEF TypeOK, IInv, BootWindow
  <2>2. credits[e] = 0
    BY <1>1, <1>3, <2>1 DEF Byte
  <2>3. needUpdate[e]
    BY <1>1, <2>2 DEF IInv, DryEndpointHasAsked
  <2>4. ~(rpt[e] = pending[e] /\ held[e] = 0)
    BY <1>1, <1>3, <2>1 DEF Byte
  <2> QED BY <1>1, <2>3, <2>4
<1> QED BY <1>4, <1>5, <1>6, <1>7, <1>0 DEF IInv

(***************************************************************************)
(* A transmit pass, with e the endpoint of the head request and have its   *)
(* credits after the register was read: one fact for both outcomes.        *)
(***************************************************************************)
LEMMA TxPassShape ==
  ASSUME IInv, NEW space \in BOOLEAN, TxPass(space)
  PROVE  \E e \in EP, oob \in Byte :
           /\ intCredits[e] + oob \in Byte
           /\ intCredits[e] + oob <= pending[e]
           /\ credits[e] + oob \in Byte
           /\ intCredits' = [intCredits EXCEPT ![e] = intCredits[e] + oob]
           /\ \/ /\ credits[e] + oob > 0
                 /\ Htc_SendPacket(e, credits[e] + oob)
              \/ /\ credits' = [credits EXCEPT ![e] = credits[e] + oob]
                 /\ UNCHANGED <<held, needUpdate, head>>
<1> DEFINE e == Util_GetEndpoint(head)
           oob == IF credits[e] = 0 THEN OobCredits(e) ELSE 0
<1>1. e \in EP
  BY TxIdAssumption DEF TxPass, IInv, TypeOK, Util_GetEndpoint, EP, NoReq
<1>2. /\ oob \in Byte /\ intCredits[e] + oob \in Byte
      /\ intCredits[e] + oob <= pending[e] /\ credits[e] + oob \in Byte
  <2>1. /\ OobCredits(e) \in Byte /\ intCredits[e] + OobCredits(e) \in Byte
        /\ intCredits[e] + OobCredits(e) <= pending[e]
        /\ credits[e] + OobCredits(e) \in Byte
    BY <1>1, OobIsReturned DEF IInv
  <2>2. /\ intCredits[e] \in Byte /\ credits[e] \in Byte
        /\ intCredits[e] <= pending[e]
    BY <1>1 DEF IInv, TypeOK, CreditsConserved
  <2> HIDE DEF e
  <2> QED BY <2>1, <2>2, CounterAssumption DEF Byte
<1>3. U8Add(credits[e], oob) = credits[e] + oob
  BY <1>2, CounterAssumption DEF U8Add, Byte
<1>4. /\ intCredits' = [intCredits EXCEPT ![e] = intCredits[e] + oob]
      /\ \/ /\ credits[e] + oob > 0
            /\ Htc_SendPacket(e, credits[e] + oob)
         \/ /\ credits' = [credits EXCEPT ![e] = credits[e] + oob]
            /\ UNCHANGED <<held, needUpdate, head>>
  BY <1>3 DEF TxPass
<1> HIDE DEF e, oob
<1> QED BY <1>1, <1>2, <1>4

\* A pass over the transmit queue spends credits and asks for more.
LEMMA TxPassKeeps == ASSUME IInv, NEW space \in BOOLEAN, TxPass(space)
                     PROVE  IInv'
<1>1. UNCHANGED <<htcStart, htc_creditInit, wmiReady, rxBufferStatus,
                  maxCredits, rptCreditCounter,
                  devCount, cpuIntr, devCounter, pending>>
  BY DEF TxPass
<1>2. TypeOK /\ wmiReady
  BY DEF TxPass, IInv, BootIsQuiet
<1>3. PICK e \in EP, oob \in Byte :
           /\ intCredits[e] + oob \in Byte
           /\ intCredits[e] + oob <= pending[e]
           /\ credits[e] + oob \in Byte
           /\ intCredits' = [intCredits EXCEPT ![e] = intCredits[e] + oob]
           /\ \/ /\ credits[e] + oob > 0
                 /\ Htc_SendPacket(e, credits[e] + oob)
              \/ /\ credits' = [credits EXCEPT ![e] = credits[e] + oob]
                 /\ UNCHANGED <<held, needUpdate, head>>
  BY TxPassShape
<1>4. CountersAgree'
  BY <1>1 DEF IInv, CountersAgree
<1>5. BootWindow'
  BY <1>1 DEF IInv, BootWindow
<1>6. CASE Htc_SendPacket(e, credits[e] + oob) /\ credits[e] + oob > 0
  <2>1. /\ credits' = [credits EXCEPT ![e] = (credits[e] + oob) - 1]
        /\ held' = [held EXCEPT ![e] = held[e] + 1]
        /\ needUpdate' = [needUpdate EXCEPT
             ![e] = NeedCreditUpdate(e, (credits[e] + oob) - 1)]
        /\ head' = NoReq
    BY <1>6 DEF Htc_SendPacket
  <2>6. /\ needUpdate' \in [EP -> BOOLEAN]
        /\ \A f \in EP : needUpdate[f] => needUpdate'[f]
        /\ (credits[e] + oob) - 1 = 0 => needUpdate'[e]
    BY <1>2, <2>1 DEF TypeOK, NeedCreditUpdate
  <2>2. TypeOK'
    BY <1>1, <1>2, <1>3, <1>6, <2>1, <2>6, CounterAssumption
    DEF TypeOK, Byte
  <2>3. CreditsConserved'
    BY <1>1, <1>2, <1>3, <2>1 DEF IInv, TypeOK, CreditsConserved, Byte
  <2>4. BootIsQuiet'
    BY <1>1, <1>2 DEF IInv, BootIsQuiet
  <2>5. DryEndpointHasAsked'
    BY <1>1, <1>2, <2>1, <2>6 DEF IInv, DryEndpointHasAsked, TypeOK
  <2> QED BY <1>4, <1>5, <2>2, <2>3, <2>4, <2>5 DEF IInv
<1>7. CASE /\ credits' = [credits EXCEPT ![e] = credits[e] + oob]
           /\ UNCHANGED <<held, needUpdate, head>>
  <2>1. TypeOK'
    BY <1>1, <1>2, <1>3, <1>7 DEF TypeOK
  <2>2. CreditsConserved'
    BY <1>1, <1>2, <1>3, <1>7 DEF IInv, TypeOK, CreditsConserved, Byte
  <2>3. BootIsQuiet'
    BY <1>1, <1>2 DEF IInv, BootIsQuiet
  <2>4. DryEndpointHasAsked'
    BY <1>1, <1>2, <1>7 DEF IInv, DryEndpointHasAsked, TypeOK, Byte
  <2> QED BY <1>4, <1>5, <2>1, <2>2, <2>3, <2>4 DEF IInv
<1> QED BY <1>3, <1>6, <1>7

-----------------------------------------------------------------------------
\* The invariant holds at the start,
LEMMA InitHolds == Init => IInv
<1> SUFFICES ASSUME Init PROVE IInv
  OBVIOUS
<1>1. Zero \in [EP -> Byte] /\ \A e \in EP : Zero[e] = 0
  BY CounterAssumption DEF Zero, Byte
<1>5. Zero \in [EP -> Nat]
  BY DEF Zero
<1>6. needUpdate \in [EP -> BOOLEAN]
  BY DEF Init
<1>2. TypeOK
  BY <1>1, <1>5, <1>6 DEF Init, TypeOK
<1>3. CreditsConserved /\ CountersAgree
  BY <1>1 DEF Init, CreditsConserved, CountersAgree, U8Sub
<1>4. BootIsQuiet /\ BootWindow /\ DryEndpointHasAsked
  BY DEF Init, BootIsQuiet, BootWindow, DryEndpointHasAsked
<1> QED BY <1>2, <1>3, <1>4 DEF IInv

\* and every step keeps it.
LEMMA StepKeeps == IInv /\ [Next]_vars => IInv'
<1> SUFFICES ASSUME IInv, [Next]_vars PROVE IInv'
  OBVIOUS
<1>1. CASE HTC_Start
  BY <1>1, StartKeeps
<1>2. CASE HTC_ProcessCpuInterrupt
  BY <1>2, CpuInterruptKeeps
<1>3. CASE \E space \in BOOLEAN : TxPass(space)
  BY <1>3, TxPassKeeps
<1>4. CASE \E rpt \in [EP -> Byte] : Driver_RxComplete(rpt)
  BY <1>4, ReportKeeps
<1>5. CASE \E e \in EP : DevReturnCredit(e)
  BY <1>5, ReturnKeeps
<1>6. CASE \/ Api_ReadyEvent
           \/ \E id \in TxIds : Driver_SubmitTxRequest(id)
           \/ \E status \in BOOLEAN : Driver_ReportRxBuffStatus(status)
           \/ DevRaiseCpuInterrupt
           \/ UNCHANGED vars
  BY <1>6, QuietKeeps
<1> QED BY <1>1, <1>2, <1>3, <1>4, <1>5, <1>6 DEF Next

(***************************************************************************)
(* The inductive invariant holds in every reachable state, whatever the    *)
(* range of the credit counters and the firmware's credit count.           *)
(***************************************************************************)
THEOREM InvariantHolds == Spec => []IInv
BY InitHolds, StepKeeps, PTL DEF Spec

(***************************************************************************)
(* Every byte counter of A_ENDPOINT_T stays in its range.                  *)
(***************************************************************************)
THEOREM TypeCorrect == Spec => []TypeOK
<1>1. IInv => TypeOK
  BY DEF IInv
<1> QED BY InvariantHolds, <1>1, PTL

(***************************************************************************)
(* Each credit returned by the device is counted exactly once.             *)
(***************************************************************************)
THEOREM CreditsAreConserved == Spec => []CreditsConserved
<1>1. IInv => CreditsConserved
  BY DEF IInv
<1> QED BY InvariantHolds, <1>1, PTL

(***************************************************************************)
(* The device is never sent more than the firmware lent credits for.       *)
(***************************************************************************)
THEOREM DeviceIsNeverOverrun == Spec => []NoDeviceOverrun
<1>1. IInv => NoDeviceOverrun
  <2> SUFFICES ASSUME IInv, NEW e \in EP
               PROVE  held[e] <= Distribution(devCount)[e]
    BY DEF NoDeviceOverrun
  <2>1. /\ Distribution(devCount)[e] \in Byte /\ Distribution(devCount)[e] > 0
        /\ held[e] \in Nat /\ credits[e] \in Byte /\ pending[e] \in Nat
        /\ intCredits[e] \in Byte
    BY DistributionFits DEF IInv, TypeOK
  <2>2. CASE ~wmiReady
    BY <2>1, <2>2 DEF IInv, BootIsQuiet, Zero, Byte
  <2>3. CASE wmiReady
    BY <2>1, <2>3 DEF IInv, BootIsQuiet, CreditsConserved, Byte
  <2> QED BY <2>2, <2>3
<1> QED BY InvariantHolds, <1>1, PTL

(***************************************************************************)
(* An endpoint without credits has always asked the device for a report.   *)
(***************************************************************************)
THEOREM DryEndpointsAsk == Spec => []DryEndpointHasAsked
<1>1. IInv => DryEndpointHasAsked
  BY DEF IInv
<1> QED BY InvariantHolds, <1>1, PTL

-----------------------------------------------------------------------------
(***************************************************************************)
(* Refinement of CreditWindow.  Freed is the abstract freed credits.       *)
(***************************************************************************)
Freed == [e \in EP |-> pending[e] - intCredits[e]]

\* Freed credits are never negative.
LEMMA FreedIsNat ==
  ASSUME IInv
  PROVE  /\ Freed \in [EP -> Nat] /\ credits \in [EP -> Nat]
         /\ \A e \in EP : /\ pending[e] \in Nat /\ intCredits[e] \in Nat
                          /\ Freed[e] = pending[e] - intCredits[e]
                          /\ held[e] \in Nat /\ maxCredits[e] \in Nat
                          /\ credits[e] + held[e] + Freed[e] = maxCredits[e]
<1>1. \A e \in EP : /\ pending[e] \in Nat /\ intCredits[e] \in Nat
                    /\ pending[e] - intCredits[e] \in Nat
                    /\ held[e] \in Nat /\ maxCredits[e] \in Nat
                    /\ credits[e] \in Nat
                    /\ credits[e] + held[e] + (pending[e] - intCredits[e])
                         = maxCredits[e]
  BY DEF IInv, TypeOK, CreditsConserved, Byte
<1>2. credits \in [EP -> Nat]
  BY <1>1 DEF IInv, TypeOK
<1> QED BY <1>1, <1>2 DEF Freed

\* Nothing is held or freed before the target is ready.
LEMMA NoneFreedAtBoot == IInv /\ ~wmiReady => held = CW!None /\ Freed = CW!None
<1> SUFFICES ASSUME IInv, ~wmiReady PROVE held = CW!None /\ Freed = CW!None
  OBVIOUS
<1>1. held = Zero /\ pending = Zero
  BY DEF IInv, BootIsQuiet
<1>2. \A e \in EP : pending[e] = 0 /\ intCredits[e] = 0
  BY <1>1 DEF IInv, TypeOK, CreditsConserved, Zero, Byte
<1> QED BY <1>1, <1>2 DEF Freed, CW!None, Zero

\* Every step is a step of CreditWindow, or leaves it as it is.
LEMMA StepRefines == IInv /\ IInv' /\ [Next]_vars => [CW!CWNext]_CW!cwVars
<1> SUFFICES ASSUME IInv, IInv', [Next]_vars
             PROVE  CW!CWNext \/ UNCHANGED CW!cwVars
  OBVIOUS
<1>0. /\ Freed' \in [EP -> Nat] /\ credits' \in [EP -> Nat]
      /\ \A e \in EP : /\ pending'[e] \in Nat /\ intCredits'[e] \in Nat
                       /\ Freed'[e] = pending'[e] - intCredits'[e]
                       /\ held'[e] \in Nat /\ maxCredits'[e] \in Nat
                       /\ credits'[e] + held'[e] + Freed'[e] = maxCredits'[e]
  <2>1. \A e \in EP : /\ pending'[e] \in Nat /\ intCredits'[e] \in Nat
                      /\ pending'[e] - intCredits'[e] \in Nat
                      /\ held'[e] \in Nat /\ maxCredits'[e] \in Nat
                      /\ credits'[e] \in Nat
                      /\ credits'[e] + held'[e] + (pending'[e] - intCredits'[e])
                           = maxCredits'[e]
    BY DEF IInv, TypeOK, CreditsConserved, Byte
  <2>2. credits' \in [EP -> Nat]
    BY <2>1 DEF IInv, TypeOK
  <2> QED BY <2>1, <2>2 DEF Freed
<1>1. ASSUME ~wmiReady, NEW n \in DevCreditCounts \cup {DefaultCreditCount},
             Htc_DistributeCredits(n), UNCHANGED <<held, pending>>
      PROVE  CW!Lend
  <2>1. held = CW!None /\ Freed = CW!None
    BY <1>1, NoneFreedAtBoot
  <2>2. maxCredits' = Distribution(n) /\ credits' = Distribution(n)
    BY <1>1 DEF Htc_DistributeCredits
  <2>3. Distribution(n) \in [EP -> Nat]
    BY DistributionFits DEF Byte
  <2>4. Freed' = Freed
    <3>1. intCredits' = Zero /\ pending = Zero
      BY <1>1 DEF Htc_DistributeCredits, IInv, BootIsQuiet
    <3> QED BY <1>1, <2>1, <3>1 DEF Freed, Zero, CW!None
  <2> QED BY <1>1, <2>1, <2>2, <2>3, <2>4 DEF CW!Lend, Freed
<1>2. CASE HTC_Start
  <2>1. ~wmiReady
    BY <1>2 DEF HTC_Start, IInv, BootIsQuiet
  <2> QED BY <1>1, <1>2, <2>1 DEF HTC_Start, devVars, CW!CWNext
<1>3. CASE HTC_ProcessCpuInterrupt
  <2>1. CASE htc_creditInit
    BY <1>3, <2>1 DEF HTC_ProcessCpuInterrupt, epVars, CW!cwVars
  <2>2. CASE ~htc_creditInit
    <3>1. ~wmiReady /\ devCount \in DevCreditCounts \cup {DefaultCreditCount}
      BY <1>3, <2>2 DEF HTC_ProcessCpuInterrupt, IInv, BootIsQuiet, TypeOK
    <3> QED BY <1>1, <1>3, <2>2, <3>1 DEF HTC_ProcessCpuInterrupt, CW!CWNext
  <2> QED BY <2>1, <2>2
<1>4. ASSUME NEW space \in BOOLEAN, TxPass(space)
      PROVE  CW!CWNext
  <2>1. UNCHANGED <<maxCredits, pending>>
    BY <1>4 DEF TxPass
  <2>2. PICK e \in EP, oob \in Byte :
           /\ intCredits[e] + oob \in Byte
           /\ intCredits[e] + oob <= pending[e]
           /\ credits[e] + oob \in Byte
           /\ intCredits' = [intCredits EXCEPT ![e] = intCredits[e] + oob]
           /\ \/ /\ credits[e] + oob > 0
                 /\ Htc_SendPacket(e, credits[e] + oob)
              \/ /\ credits' = [credits EXCEPT ![e] = credits[e] + oob]
                 /\ UNCHANGED <<held, needUpdate, head>>
    BY <1>4, TxPassShape
  <2>3. /\ intCredits \in [EP -> Byte] /\ Freed \in [EP -> Nat]
        /\ credits \in [EP -> Nat]
        /\ \A f \in EP : /\ Freed[f] = pending[f] - intCredits[f]
                         /\ pending[f] \in Nat /\ intCredits[f] \in Nat
    BY FreedIsNat DEF IInv, TypeOK
  <2>4. /\ oob \in 0..Freed[e]
        /\ Freed' = [Freed EXCEPT ![e] = Freed[e] - oob]
    <3>1. oob \in 0..Freed[e]
      BY <2>2, <2>3 DEF Byte
    <3>2. \A f \in EP : Freed'[f] = IF f = e THEN Freed[e] - oob ELSE Freed[f]
      BY <1>0, <2>1, <2>2, <2>3 DEF Byte
    <3> QED BY <1>0, <2>3, <3>1, <3>2
  <2>5. CASE credits[e] + oob > 0 /\ Htc_SendPacket(e, credits[e] + oob)
    <3>1. /\ credits' = [credits EXCEPT ![e] = (credits[e] + oob) - 1]
          /\ held' = [held EXCEPT ![e] = held[e] + 1]
      BY <2>5 DEF Htc_SendPacket
    <3>2. CW!Spend(e)
      BY <2>1, <2>4, <2>5, <3>1 DEF CW!Spend, Freed
    <3> QED BY <3>2 DEF CW!CWNext
  <2>6. CASE /\ credits' = [credits EXCEPT ![e] = credits[e] + oob]
             /\ UNCHANGED <<held, needUpdate, head>>
    <3>1. \A f \in EP : /\ credits'[f] >= credits[f]
                        /\ credits'[f] + Freed'[f] = credits[f] + Freed[f]
      BY <2>3, <2>4, <2>6 DEF Byte
    <3>2. CW!Learn
      BY <1>0, <2>1, <2>3, <2>6, <3>1 DEF CW!Learn, Freed
    <3> QED BY <3>2 DEF CW!CWNext
  <2> QED BY <2>2, <2>5, <2>6
<1>5. ASSUME NEW rpt \in [EP -> Byte], Driver_RxComplete(rpt)
      PROVE  CW!CWNext
  <2>1. UNCHANGED <<maxCredits, held>>
    BY <1>5 DEF Driver_RxComplete, Htc_ProcessCreditRpt
  <2>2. Freed \in [EP -> Nat] /\ credits \in [EP -> Nat]
    BY FreedIsNat
  <2>3. \A f \in EP : /\ credits[f] + held[f] + Freed[f] = maxCredits[f]
                      /\ held[f] \in Nat /\ maxCredits[f] \in Nat
    BY FreedIsNat
  <2>4. \A f \in EP : credits'[f] >= credits[f]
    <3> SUFFICES ASSUME NEW f \in EP PROVE credits'[f] >= credits[f]
      OBVIOUS
    <3>1. credits'[f] = U8Add(credits[f], NewInBand(f, rpt[f]))
      BY <1>5 DEF Driver_RxComplete, Htc_ProcessCreditRpt
    <3>2. /\ rpt[f] <= pending[f] /\ rpt[f] \in Byte /\ credits[f] \in Byte
          /\ intCredits[f] \in Byte /\ pending[f] \in Nat /\ held[f] \in Nat
          /\ maxCredits[f] \in Byte /\ intCredits[f] <= pending[f]
          /\ credits[f] + held[f] + (pending[f] - intCredits[f])
               = maxCredits[f]
      BY <1>5 DEF Driver_RxComplete, IInv, TypeOK, CreditsConserved
    <3> QED BY <3>1, <3>2, CounterAssumption DEF U8Add, NewInBand, Byte
  <2>5. \A f \in EP : credits'[f] + Freed'[f] = credits[f] + Freed[f]
    <3> SUFFICES ASSUME NEW f \in EP
                 PROVE  credits'[f] + Freed'[f] = credits[f] + Freed[f]
      OBVIOUS
    <3>1. /\ credits'[f] \in Nat /\ Freed'[f] \in Nat /\ held'[f] = held[f]
          /\ credits[f] \in Nat /\ Freed[f] \in Nat /\ held[f] \in Nat
          /\ maxCredits'[f] = maxCredits[f] /\ maxCredits[f] \in Nat
      BY <1>0, <2>1, <2>2, <2>3
    <3>2. credits'[f] + held'[f] + Freed'[f] = maxCredits'[f]
      BY <1>0
    <3>3. credits[f] + held[f] + Freed[f] = maxCredits[f]
      BY <2>3
    <3> QED BY <3>1, <3>2, <3>3
  <2>6. CW!Learn
    BY <1>0, <2>1, <2>4, <2>5 DEF CW!Learn, Freed
  <2> QED BY <2>6 DEF CW!CWNext
<1>6. ASSUME NEW e \in EP, DevReturnCredit(e)
      PROVE  CW!CWNext
  <2>1. Freed' = [Freed EXCEPT ![e] = Freed[e] + 1]
    <3>1. /\ pending' = [pending EXCEPT ![e] = pending[e] + 1]
          /\ intCredits' = intCredits /\ pending \in [EP -> Nat]
      BY <1>6 DEF DevReturnCredit, epVars, IInv, TypeOK
    <3>2. /\ Freed \in [EP -> Nat]
          /\ \A f \in EP : /\ Freed[f] = pending[f] - intCredits[f]
                           /\ intCredits[f] \in Nat
      BY FreedIsNat
    <3>3. \A f \in EP : Freed'[f] = IF f = e THEN Freed[e] + 1 ELSE Freed[f]
      <4> SUFFICES ASSUME NEW f \in EP
                   PROVE  Freed'[f] = IF f = e THEN Freed[e] + 1 ELSE Freed[f]
        OBVIOUS
      <4>1. Freed'[f] = pending'[f] - intCredits[f]
        BY <1>0, <3>1
      <4>2. /\ Freed[f] = pending[f] - intCredits[f] /\ intCredits[f] \in Nat
            /\ pending[f] \in Nat
        BY <3>1, <3>2
      <4>3. pending'[f] = IF f = e THEN pending[f] + 1 ELSE pending[f]
        BY <3>1
      <4> QED BY <4>1, <4>2, <4>3
    <3> QED BY <1>0, <3>2, <3>3
  <2>2. CW!Free(e)
    BY <1>6, <2>1 DEF DevReturnCredit, epVars, CW!Free, Freed
  <2> QED BY <2>2 DEF CW!CWNext
<1>7. CASE \/ Api_ReadyEvent
           \/ \E id \in TxIds : Driver_SubmitTxRequest(id)
           \/ \E status \in BOOLEAN : Driver_ReportRxBuffStatus(status)
           \/ DevRaiseCpuInterrupt
           \/ UNCHANGED vars
  BY <1>7 DEF Api_ReadyEvent, Driver_SubmitTxRequest,
              Driver_ReportRxBuffStatus, DevRaiseCpuInterrupt,
              vars, hostVars, epVars, devVars, CW!cwVars
<1> QED BY <1>2, <1>3, <1>4, <1>5, <1>6, <1>7 DEF Next

(***************************************************************************)
(* The driver's two-channel credit accounting implements the abstract      *)
(* credit window.                                                          *)
(***************************************************************************)
THEOREM Refinement == Spec => ImplementsCreditWindow
<1>1. Init => CW!CWInit
  BY DEF Init, CW!CWInit, CW!None, Zero
<1> QED BY <1>1, StepRefines, InvariantHolds, PTL
        DEF Spec, ImplementsCreditWindow, CW!CWSpec

=============================================================================
