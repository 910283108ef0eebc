---------------------------- MODULE MCLifeCycle ----------------------------
(* Instances of LifeCycle for TLC.                                         *)
EXTENDS LifeCycle

\* Nothing fails; the first allocation fails and the target is short of
\* credits; there is no memory for a command; the application holds packets
\* and the target sleeps; the boot fails; everything fails.
MCSettings ==
  {{}, {"nocustom", "credit"}, {"nocmd", "credit"}, {"data", "recall"},
   {"bootfail", "nosock"},
   {"nocustom", "nocommon", "notemp", "nosock", "bootfail", "abi", "mute",
    "slow", "recall", "data"}}
=============================================================================
