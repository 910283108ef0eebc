------------------------------- MODULE MCBmi -------------------------------
(* Instances of Bmi for TLC.                                               *)
EXTENDS Bmi

CONSTANTS t1, t2

\* Tasks that call one after another, with a loader that answers in time, and
\* one that may be late or silent on a bus that may fail to bring its answer;
\* tasks that call at once.
MCSettings == {{"bus"}, {"bus", "slow", "reply"}, {"slow", "together"}}
=============================================================================
