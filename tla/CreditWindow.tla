---------------------------- MODULE CreditWindow ----------------------------
(***************************************************************************)
(* What HTC flow control promises, with none of the counters by which the  *)
(* driver keeps the promise.  The device lends the host a window of        *)
(* transmit credits per endpoint.  A credit is in exactly one of three     *)
(* places: with the host (avail), in a device buffer that holds a packet   *)
(* (inUse), or given back by the device and not yet learned of by the host *)
(* (freed).                                                                *)
(***************************************************************************)
EXTENDS Integers

CONSTANT EP            \* the managed endpoints

VARIABLES window,      \* credits lent, per endpoint
          avail, inUse, freed

cwVars == <<window, avail, inUse, freed>>

None == [e \in EP |-> 0]

CWInit == window = None /\ avail = None /\ inUse = None /\ freed = None

(***************************************************************************)
(* A new window may be lent only while no credit is out.                   *)
(***************************************************************************)
Lend == /\ inUse = None /\ freed = None
        /\ window' \in [EP -> Nat]
        /\ avail' = window'
        /\ UNCHANGED <<inUse, freed>>

(***************************************************************************)
(* The host learns of freed credits on any of the endpoints and may spend  *)
(* one credit, on endpoint e, in the same step.                            *)
(***************************************************************************)
Learn == /\ avail' \in [EP -> Nat] /\ freed' \in [EP -> Nat]
         /\ \A e \in EP : /\ avail'[e] >= avail[e]
                          /\ avail'[e] + freed'[e] = avail[e] + freed[e]
         /\ UNCHANGED <<window, inUse>>

Spend(e) == \E got \in 0..freed[e] :
               /\ avail[e] + got > 0
               /\ avail' = [avail EXCEPT ![e] = (avail[e] + got) - 1]
               /\ freed' = [freed EXCEPT ![e] = freed[e] - got]
               /\ inUse' = [inUse EXCEPT ![e] = inUse[e] + 1]
               /\ UNCHANGED window

(***************************************************************************)
(* The device empties a buffer.                                            *)
(***************************************************************************)
Free(e) == /\ inUse[e] > 0
           /\ inUse' = [inUse EXCEPT ![e] = inUse[e] - 1]
           /\ freed' = [freed EXCEPT ![e] = freed[e] + 1]
           /\ UNCHANGED <<window, avail>>

CWNext == Lend \/ Learn \/ \E e \in EP : Spend(e) \/ Free(e)

CWSpec == CWInit /\ [][CWNext]_cwVars

=============================================================================
