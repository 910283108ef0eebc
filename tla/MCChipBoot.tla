----------------------------- MODULE MCChipBoot -----------------------------
(* Instances of ChipBoot for TLC.                                          *)
EXTENDS ChipBoot

OneUser == {<<"u1", "mac">>, <<"u1", "country">>, <<"u1", "dump">>}
MacAndDump == {<<"u1", "mac">>, <<"u2", "dump">>}
Programmers == {<<"u1", "mac">>, <<"u2", "country">>}

\* A user on a bus and a device that fail; the AR4100 with its warm reset, two
\* devices, a second user and recalls; a device that only may not answer; two
\* users that program it.
MCSettings ==
  {[target |-> "AR400X_REV1", devices |-> 1, calls |-> OneUser, most |-> 3,
    happens |-> {"bus", "mute", "crash", "length"}],
   [target |-> "AR4100_REV2", devices |-> 2, calls |-> MacAndDump, most |-> 2,
    happens |-> {"crash", "busy"}],
   [target |-> "AR4100_REV2", devices |-> 1, calls |-> OneUser, most |-> 2,
    happens |-> {"mute"}],
   [target |-> "AR400X_REV1", devices |-> 1, calls |-> Programmers, most |-> 2,
    happens |-> {}]}
=============================================================================
