--------------------------- MODULE MCStoreRecall ---------------------------
(* Instances of StoreRecall for TLC.                                       *)
EXTENDS StoreRecall, TLC

CONSTANTS u1, u2

MCContents == {<<>>, <<"a", "b">>, <<"b", "b", "a">>}
MCOne == {<<"a", "b">>}
MCShort == {<<"a">>, <<"b", "a">>}

\* One task suspends, the other changes the power mode and sends commands.
MCCycle == u1 :> {"suspend"} @@ u2 :> {"max_perf", "rec", "command"}
MCQuery == u1 :> {"suspend"} @@ u2 :> {"query"}
MCVotes == u1 :> {"suspend"} @@ u2 :> {"max_perf", "rec"}
MCBoth == u1 :> {"suspend"} @@ u2 :> {"suspend", "command"}
MCPower == u1 :> {"suspend", "max_perf", "rec"} @@ u2 :> {"max_perf", "rec"}

(***************************************************************************)
(* Contexts of every length with no memory for some; commands without a    *)
(* buffer and a target that gives up; the same with no memory; power votes *)
(* with nothing failing, and with no buffer; a user interrupted after the  *)
(* check, with a command and with a query that the recall replaces; a      *)
(* hasty suspend; a target that is done early; one that does not boot      *)
(* again; suspends refused for their time; data sets written in pieces.    *)
(***************************************************************************)
MCSettings ==
  {[ops |-> MCQuery, contents |-> MCContents, faults |-> 2,
    happens |-> {"no_memory"}],
   [ops |-> MCBoth, contents |-> MCShort, faults |-> 2,
    happens |-> {"no_buffer", "store_event", "abort"}],
   [ops |-> MCBoth, contents |-> MCOne, faults |-> 2,
    happens |-> {"no_buffer", "no_memory", "abort", "store_event"}],
   [ops |-> MCPower, contents |-> MCOne, faults |-> 0, happens |-> {}],
   [ops |-> MCVotes, contents |-> MCOne, faults |-> 1,
    happens |-> {"no_buffer"}],
   [ops |-> MCCycle, contents |-> MCOne, faults |-> 0,
    happens |-> {"interleave"}],
   [ops |-> MCQuery, contents |-> MCOne, faults |-> 0,
    happens |-> {"interleave"}],
   [ops |-> MCVotes, contents |-> MCOne, faults |-> 0,
    happens |-> {"resuspend"}],
   [ops |-> MCQuery, contents |-> MCShort, faults |-> 0,
    happens |-> {"early_event"}],
   [ops |-> MCQuery, contents |-> MCShort, faults |-> 1,
    happens |-> {"boot_fails", "no_memory"}],
   [ops |-> MCVotes, contents |-> MCOne, faults |-> 0,
    happens |-> {"short_time"}],
   [ops |-> MCQuery, contents |-> MCShort, faults |-> 1,
    happens |-> {"pieces", "no_memory"}]}
=============================================================================
