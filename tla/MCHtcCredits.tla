---------------------------- MODULE MCHtcCredits ----------------------------
(***************************************************************************)
(* Instances of HtcCredits for TLC.                                        *)
(***************************************************************************)
EXTENDS HtcCredits

(***************************************************************************)
(* The conditional byte arithmetic is arithmetic modulo CounterMod.        *)
(***************************************************************************)
ASSUME ByteArithmetic ==
  \A a, b \in Byte : /\ U8Add(a, b) = (a + b) % CounterMod
                     /\ U8Sub(a, b) = (a - b) % CounterMod

=============================================================================
