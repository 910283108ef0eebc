----------------------------- MODULE MCSockData -----------------------------
(***************************************************************************)
(* SockData for TLC: the operations of the user tasks.                     *)
(***************************************************************************)
EXTENDS SockData

CONSTANTS u1, u2      \* the user tasks

OneMakes(ops) == [u \in Users |-> IF u = u1 THEN {"open"} \cup ops ELSE {}]
BothMake(ops) == [u \in Users |-> {"open"} \cup ops]
\* One task reads, the other opens, closes and selects.
ReadAndClose == [u \in Users |-> IF u = u1 THEN {"recv"}
                                 ELSE {"open", "shutdown", "select"}]

\* A stream that is read in part; a stream and a datagram socket, and peers;
\* three sockets, for the reserve; select on two sockets; two senders; select
\* with no time limit; and sends and closes that meet a failure.
MCSettings ==
  {[ops |-> ReadAndClose, socks |-> {1},
    happens |-> {"partial", "hold", "pending", "time"}],
   [ops |-> OneMakes({"recv", "select", "shutdown"}),
    socks |-> {1, 3}, happens |-> {"peer_close"}],
   [ops |-> OneMakes({"recv"}), socks |-> {1, 2, 3}, happens |-> {}],
   [ops |-> OneMakes({"recv", "select_ver1", "accept"}), socks |-> {1, 2},
    happens |-> {"peer_close", "incoming", "time"}],
   [ops |-> BothMake({"send"}), socks |-> {1, 3}, happens |-> {"time"}],
   [ops |-> OneMakes({"select_ver1", "accept", "send"}), socks |-> {1, 2},
    happens |-> {"incoming"}],
   [ops |-> BothMake({"send"}), socks |-> {1},
    happens |-> {"send_fails", "tx_late", "share"}],
   [ops |-> ReadAndClose, socks |-> {1},
    happens |-> {"partial", "close_partial", "late_data", "incoming",
                 "peer_close"}]}
=============================================================================
