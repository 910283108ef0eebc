------------------------------ MODULE SockData ------------------------------
(***************************************************************************)
(* Socket data: receiving, sending and select                              *)
(* (custom_src/stack_custom/cust_api_stack_offload.c and                   *)
(* cust_api_stack_txrx.c, and select of api_stack_offload.c), in the build *)
(* with ZERO_COPY and NON_BLOCKING_RX and without NON_BLOCKING_TX.         *)
(*                                                                         *)
(* The driver task puts received packets into the queue of their socket;   *)
(* a user task takes them out, is given a pointer into the receive buffer  *)
(* (which goes to zero_copy_free_queue) and gives it back with             *)
(* zero_copy_free.  A sender blocks until the driver task frees its        *)
(* packet.  User tasks run below the driver task (ATHEROS_TASK_PRIORITY is *)
(* the highest), so what the driver does with a packet is one step;        *)
(* blockForResponse runs above it, so its test of respAvailable or         *)
(* txUnblocked and its wait are one step.  Socket commands are in SockCmd. *)
(* Packets have one or two units of data.                                  *)
(***************************************************************************)
EXTENDS Integers, Sequences, FiniteSets, Functions

CONSTANTS
  Users,      \* user tasks
  Socks,      \* indices of ath_sock_context
  Streams,    \* those used for TCP; the others are UDP
  Bufs,       \* receive buffers: BSP_CONFIG_ATHEROS_PCB of them
  NoBuf,      \* NULL
  Settings    \* a set of records: the operations of each user task, the
              \* sockets they use, and what happens, of Hazards

Hazards ==
  {"partial",       \* a read asks for less than the packet holds
   "close_partial", \* a socket is closed with such a packet half read
   "late_data",     \* data arrives for a socket that is being closed
   "hold",          \* the application keeps a buffer it was given for a while
   "send_fails",    \* Api_DataTxStart fails
   "tx_late",       \* a send reaches TRANSMIT_BLOCK_TIMEOUT
   "share",         \* tasks send on one socket
   "pending",       \* socket commands are under way
   "time",          \* a select reaches its time limit
   "peer_close", "incoming"}

Operations == {"open", "shutdown", "recv", "select", "select_ver1", "accept",
               "send"}
PCB == Cardinality(Bufs)
MAX_UNITS == 2
MaxTxq == 2       \* bound: packets not sent when a send starts

ASSUME BufAssumption == NoBuf \notin Bufs /\ IsFiniteSet(Bufs) /\ PCB >= 3
ASSUME SockAssumption == Streams \subseteq Socks /\ IsFiniteSet(Socks)
ASSUME SettingsAssumption ==
          \A s \in Settings : /\ s.ops \in [Users -> SUBSET Operations]
                              /\ s.socks \subseteq Socks
                              /\ s.happens \subseteq Hazards

VARIABLES
  ctx,      \* ath_sock_context
  cust,     \* the SOCKET_CONTEXT of each: blocking and wake events
  pool,     \* free receive buffers
  zeroq,    \* zero_copy_free_queue
  units,    \* data left in each buffer
  fresh,    \* buffers with data of their socket's present connection
  sel,      \* sockSelectWakeEvent
  txq,      \* packets the driver has not sent, with their sender
  user,     \* what each user task is doing
  got,      \* a read returned data of an earlier connection
  setting   \* of Settings, chosen at the start

vars == <<ctx, cust, pool, zeroq, units, fresh, sel, txq, user, got, setting>>
Happens == setting.happens

Closed == [handle |-> FALSE, fin |-> FALSE, listen |-> FALSE,
           avail |-> FALSE,    \* result is TCP_CONNECTION_AVAILABLE
           data |-> FALSE,     \* the stored answer to an accept
           mask |-> FALSE, rxqueue |-> <<>>,
           old |-> NoBuf, remaining |-> 0]
NotBlocked == [blockFlag |-> FALSE, respAvailable |-> FALSE,
               rxBlock |-> FALSE, rxEvent |-> FALSE,
               txUnblocked |-> FALSE, txBlock |-> FALSE, txEvent |-> FALSE]
Idle(r) == [pc |-> "idle", ret |-> r]

\* socket_context_init
Init ==
  /\ ctx = [i \in Socks |-> Closed]
  /\ cust = [i \in Socks |-> NotBlocked]
  /\ pool = Bufs /\ zeroq = {} /\ units = [b \in Bufs |-> 0] /\ fresh = {}
  /\ sel = FALSE /\ txq = <<>>
  /\ user = [u \in Users |-> Idle("none")] /\ got = "fresh"
  /\ setting \in Settings

-----------------------------------------------------------------------------
\* Shared pieces.
May(u, op) == user[u].pc = "idle" /\ op \in setting.ops[u]
Goto(u, rec) == user' = [user EXCEPT ![u] = rec]
Return(u, r) == Goto(u, Idle(r))

QUEUE_EMPTY(i) == ctx[i].rxqueue = <<>>
HalfRead(i) == /\ i \in Streams /\ ctx[i].remaining # 0
               /\ ctx[i].old # NoBuf

\* It leaves the queue, remaining_bytes and old_netbuf.
clear_socket_context(i) ==
  [ctx[i] EXCEPT !.handle = FALSE, !.fin = FALSE, !.listen = FALSE,
                 !.data = FALSE, !.mask = FALSE]
HeldBy(i) == Range(ctx[i].rxqueue) \cup ({ctx[i].old} \ {NoBuf})
FreshAfterClear(i) == fresh \ HeldBy(i)

\* The application gives back what it was given before anything else happens.
GivenBack == "hold" \in Happens \/ zeroq = {}

\* unblock, in direction RX and TX.
unblockRx(i) ==
  [cust EXCEPT ![i].respAvailable = TRUE,
               ![i].rxEvent = @ \/ cust[i].rxBlock]
unblockTx(i) ==
  [cust EXCEPT ![i].txUnblocked = TRUE,
               ![i].txEvent = @ \/ cust[i].txBlock]

\* Mutant: the event is not set.
unblockSelectNot == UNCHANGED sel
unblockSelect == sel' = TRUE

bufVars == <<pool, zeroq, units, fresh, got, setting>>

-----------------------------------------------------------------------------
\* Sockets are opened and closed (the command is in SockCmd).
Api_socket(u, i, listen) ==
  /\ May(u, "open") /\ ~ctx[i].handle /\ i \in setting.socks
  /\ listen => i \in Streams /\ "incoming" \in Happens
  /\ ctx' = [ctx EXCEPT ![i].handle = TRUE, ![i].listen = listen,
                        ![i].avail = FALSE]
  /\ Return(u, "ok")
  /\ UNCHANGED <<cust, sel, txq>> /\ UNCHANGED bufVars

\* Mutant: the packet at the head stays.
PurgeTail(i) ==
  IF ctx[i].rxqueue = <<>>
  THEN UNCHANGED <<ctx, pool, fresh, zeroq, units, got, setting>>
  ELSE /\ pool' = pool \cup Range(Tail(ctx[i].rxqueue))
       /\ ctx' = [ctx EXCEPT ![i].rxqueue = <<Head(@)>>]
       /\ fresh' = fresh \ Range(Tail(ctx[i].rxqueue))
       /\ UNCHANGED <<zeroq, units, got, setting>>

\* a_netbuf_purge_queue
Purge(i) ==
  /\ pool' = pool \cup Range(ctx[i].rxqueue)
  /\ ctx' = [ctx EXCEPT ![i].rxqueue = <<>>]
  /\ fresh' = fresh \ Range(ctx[i].rxqueue)
  /\ UNCHANGED <<zeroq, units, got, setting>>

Closing(i) == \E u \in Users : user[u].pc \in {"purge", "clear"}
                                 /\ user[u].sock = i

\* The queue is emptied, the command sent, and the queue emptied again;
\* then the context is cleared.
Api_shutdown(u, i) ==
  /\ May(u, "shutdown") /\ ctx[i].handle /\ ~cust[i].blockFlag
  /\ ~Closing(i)
  /\ ctx[i].old # NoBuf => "close_partial" \in Happens
  /\ Purge(i)
  /\ Goto(u, [pc |-> "purge", sock |-> i])
  /\ UNCHANGED <<cust, sel, txq>>

PurgeAgain(u) ==
  /\ user[u].pc = "purge"
  /\ Purge(user[u].sock)
  /\ Goto(u, [pc |-> "clear", sock |-> user[u].sock])
  /\ UNCHANGED <<cust, sel, txq>>

ClearContext(u) ==
  /\ user[u].pc = "clear"
  /\ LET i == user[u].sock
     IN /\ ctx' = [ctx EXCEPT ![i] = clear_socket_context(i)]
        /\ fresh' = FreshAfterClear(i)
  /\ Return(u, "ok")
  /\ UNCHANGED <<cust, pool, zeroq, units, sel, txq, got, setting>>

-----------------------------------------------------------------------------
(***************************************************************************)
(* Receiving.  get_total_pkts_buffered counts all queues;                  *)
(* get_holding_buffer those of open sockets, if there are more than two.   *)
(***************************************************************************)
Queued(S) == Cardinality({b \in Bufs : \E i \in S :
                                          b \in Range(ctx[i].rxqueue)})
get_total_pkts_buffered == Queued(Socks)
ActiveSocks == {i \in Socks : ctx[i].handle}
get_holding_buffer == IF Cardinality(ActiveSocks) > 2
                      THEN Queued(ActiveSocks) ELSE 0

\* Mutant: no buffer is kept in reserve.
RoomForPacketAny == get_total_pkts_buffered < PCB

RoomForPacket ==
  get_total_pkts_buffered < (IF get_holding_buffer >= 2 THEN PCB - 1 ELSE PCB)

\* A packet for an open socket without a command under way wakes select,
\* and goes into the queue or is dropped.  Other packets are dropped.  The
\* free buffers are alike: the packet is in one of them.
custom_receive_tcpip(i, b, n) ==
  /\ pool # {} /\ b = CHOOSE x \in pool : TRUE
  /\ ctx[i].handle /\ ~ctx[i].fin /\ ~ctx[i].listen /\ ~ctx[i].mask
  /\ Closing(i) => "late_data" \in Happens
  /\ GivenBack
  /\ unblockSelect
  /\ \/ /\ RoomForPacket
        /\ pool' = pool \ {b} /\ units' = [units EXCEPT ![b] = n]
        /\ fresh' = fresh \cup {b}
        /\ ctx' = [ctx EXCEPT ![i].rxqueue = Append(@, b)]
        /\ cust' = unblockRx(i)
     \/ /\ ~RoomForPacket
        /\ UNCHANGED <<pool, units, fresh, ctx, cust>>
  /\ UNCHANGED <<zeroq, txq, user, got, setting>>

\* What a read of n units of packet b leaves in the context of a stream.
ReadFrom(i, b, n) ==
  IF i \in Streams /\ units[b] > n
  THEN [remaining |-> units[b] - n, old |-> b]
  ELSE IF i \in Streams THEN [remaining |-> 0, old |-> NoBuf]
       ELSE [remaining |-> ctx[i].remaining, old |-> ctx[i].old]

Api_recvfrom(u, i, n) ==
  /\ May(u, "recv") /\ ctx[i].handle /\ ~Closing(i)
  /\ n < MAX_UNITS => "partial" \in Happens
  /\ IF ~HalfRead(i) /\ QUEUE_EMPTY(i)
     THEN /\ Return(u, "error")
          /\ UNCHANGED <<ctx, zeroq, units, fresh, got>>
     ELSE LET b == IF HalfRead(i) THEN ctx[i].old ELSE Head(ctx[i].rxqueue)
              r == ReadFrom(i, b, n)
          IN /\ ctx' = [ctx EXCEPT
                   ![i].rxqueue = IF HalfRead(i) THEN @ ELSE Tail(@),
                   ![i].remaining = r.remaining, ![i].old = r.old]
             /\ IF i \in Streams /\ r.remaining # 0
                THEN units' = [units EXCEPT ![b] = r.remaining]
                     /\ UNCHANGED zeroq
                ELSE /\ units' = [units EXCEPT ![b] = 0]
                     /\ zeroq' = zeroq \cup {b}
             /\ got' = IF b \in fresh THEN got ELSE "stale"
             /\ fresh' = IF r.old = b THEN fresh ELSE fresh \ {b}
             /\ Return(u, "ok")
  /\ UNCHANGED <<cust, pool, sel, txq, setting>>

zero_copy_free(b) ==
  /\ b \in zeroq
  /\ zeroq' = zeroq \ {b} /\ pool' = pool \cup {b}
  /\ UNCHANGED <<ctx, cust, units, fresh, sel, txq, user, got, setting>>

-----------------------------------------------------------------------------
\* Api_select: one socket.
Api_select(u, i) ==
  /\ May(u, "select") /\ ctx[i].handle /\ ~Closing(i)
  /\ \/ /\ cust[i].blockFlag
        /\ Return(u, "error") /\ UNCHANGED <<ctx, fresh>>
     \/ /\ ~cust[i].blockFlag /\ (HalfRead(i) \/ ~QUEUE_EMPTY(i))
        /\ Return(u, "ok") /\ UNCHANGED <<ctx, fresh>>
     \/ /\ ~cust[i].blockFlag /\ ~HalfRead(i) /\ QUEUE_EMPTY(i)
        /\ ctx[i].fin
        /\ ctx' = [ctx EXCEPT ![i] = clear_socket_context(i)]
        /\ fresh' = FreshAfterClear(i)
        /\ Return(u, "invalid")
     \/ /\ ~cust[i].blockFlag /\ ~HalfRead(i) /\ QUEUE_EMPTY(i)
        /\ ~ctx[i].fin
        /\ Goto(u, [pc |-> IF ctx[i].listen THEN "block" ELSE "forget",
                    sock |-> i])
        /\ UNCHANGED <<ctx, fresh>>
  /\ UNCHANGED <<cust, pool, zeroq, units, sel, txq, got, setting>>

blockForDataRx(u) ==
  /\ user[u].pc = "forget"
  /\ cust' = [cust EXCEPT ![user[u].sock].respAvailable = FALSE]
  /\ user' = [user EXCEPT ![u].pc = "block"]
  /\ UNCHANGED <<ctx, sel, txq>> /\ UNCHANGED bufVars

\* blockForResponse, RX_DIRECTION: it is entered, and left.
BlockRx(u) ==
  /\ user[u].pc = "block"
  /\ LET i == user[u].sock
     IN IF cust[i].respAvailable
        THEN /\ cust' = [cust EXCEPT ![i].respAvailable = FALSE]
             /\ user' = [user EXCEPT ![u].pc = "look"]
        ELSE /\ cust' = [cust EXCEPT ![i].blockFlag = TRUE,
                                     ![i].rxBlock = TRUE]
             /\ user' = [user EXCEPT ![u].pc = "sleep"]
  /\ UNCHANGED <<ctx, sel, txq>> /\ UNCHANGED bufVars

UnblockRx(u) ==
  /\ user[u].pc = "sleep"
  /\ LET i == user[u].sock
         woken == cust[i].rxEvent \/ cust[i].respAvailable
     IN /\ woken \/ "time" \in Happens
        /\ cust' = [cust EXCEPT ![i].blockFlag = FALSE, ![i].rxBlock = FALSE,
                                ![i].rxEvent = FALSE,
                                ![i].respAvailable = FALSE]
        /\ user' = [user EXCEPT ![u] = IF woken THEN [@ EXCEPT !.pc = "look"]
                                       ELSE Idle("time out")]
  /\ UNCHANGED <<ctx, sel, txq>> /\ UNCHANGED bufVars

SelectEnd(u) ==
  /\ user[u].pc = "look"
  /\ LET i == user[u].sock
     IN IF ~QUEUE_EMPTY(i) \/ ctx[i].avail
        THEN ctx' = [ctx EXCEPT ![i].avail = FALSE] /\ Return(u, "ok")
        ELSE UNCHANGED ctx /\ Return(u, "error")
  /\ UNCHANGED <<cust, sel, txq>> /\ UNCHANGED bufVars

(***************************************************************************)
(* Api_select_ver1: several sockets, and the event all of them share.      *)
(* After the wait the sockets are looked at once more.                     *)
(***************************************************************************)
Readable(i) == \/ ~ctx[i].handle \/ ~QUEUE_EMPTY(i)
               \/ ctx[i].avail \/ ctx[i].data \/ ctx[i].fin

Api_select_ver1(u, S) ==
  /\ May(u, "select_ver1")
  /\ IF \E i \in S : Readable(i) THEN Return(u, "ok")
     ELSE Goto(u, [pc |-> "blockSelect", set |-> S])
  /\ UNCHANGED <<ctx, cust, sel, txq>> /\ UNCHANGED bufVars

blockSelect(u) ==
  /\ user[u].pc = "blockSelect"
  /\ \/ sel /\ sel' = FALSE /\ user' = [user EXCEPT ![u].pc = "again"]
     \/ "time" \in Happens /\ UNCHANGED sel /\ Return(u, "time out")
  /\ UNCHANGED <<ctx, cust, txq>> /\ UNCHANGED bufVars

SelectAgain(u) ==
  /\ user[u].pc = "again"
  /\ Return(u, IF \E i \in user[u].set : Readable(i) THEN "ok" ELSE "early")
  /\ UNCHANGED <<ctx, cust, sel, txq>> /\ UNCHANGED bufVars

\* Api_accept_ver1 takes the stored answer.  (SockCmd has the rest of it.)
Api_accept_ver1(u, i) ==
  /\ May(u, "accept") /\ ctx[i].handle /\ ~cust[i].blockFlag
  /\ ~Closing(i) /\ ctx[i].data /\ ~ctx[i].avail
  /\ ctx' = [ctx EXCEPT ![i].data = FALSE]
  /\ Return(u, "ok")
  /\ UNCHANGED <<cust, sel, txq>> /\ UNCHANGED bufVars

-----------------------------------------------------------------------------
(***************************************************************************)
(* Sending: a stream is cut into segments of TCP_MSS, and each is waited   *)
(* for.  The packet is freed by txpkt_free, at completion and also when it *)
(* could not be queued.                                                    *)
(***************************************************************************)
custom_send_tcpip(u, i, more) ==
  \/ /\ txq' = Append(txq, [user |-> u, sock |-> i])
     /\ Goto(u, [pc |-> "txblock", sock |-> i, more |-> more])
     /\ UNCHANGED cust
  \/ /\ "send_fails" \in Happens
     /\ cust' = unblockTx(i) /\ Return(u, "error") /\ UNCHANGED txq

t_sendto(u, i) ==
  /\ May(u, "send") /\ ctx[i].handle /\ ~ctx[i].fin /\ ~Closing(i)
  /\ Len(txq) < MaxTxq
  /\ "share" \notin Happens =>
       \A v \in Users : user[v].pc \in {"txblock", "txsleep", "segment"}
                          => user[v].sock # i
  /\ \E more \in (IF i \in Streams THEN BOOLEAN ELSE {FALSE}) :
       custom_send_tcpip(u, i, more)
  /\ UNCHANGED <<ctx, sel>> /\ UNCHANGED bufVars

AfterTx(u) == IF user[u].more THEN [user[u] EXCEPT !.pc = "segment"]
                              ELSE Idle("sent")

\* blockForResponse, TX_DIRECTION.
\* Mutant: the wait is over as soon as it is entered.
BlockTxNot(u) ==
  /\ user[u].pc = "txblock"
  /\ Goto(u, AfterTx(u)) /\ UNCHANGED <<ctx, sel, txq, cust>>
  /\ UNCHANGED bufVars

BlockTx(u) ==
  /\ user[u].pc = "txblock"
  /\ LET i == user[u].sock
     IN IF cust[i].txUnblocked
        THEN /\ cust' = [cust EXCEPT ![i].txUnblocked = FALSE]
             /\ Goto(u, AfterTx(u))
        ELSE /\ cust' = [cust EXCEPT ![i].blockFlag = TRUE,
                                     ![i].txBlock = TRUE]
             /\ user' = [user EXCEPT ![u].pc = "txsleep"]
  /\ UNCHANGED <<ctx, sel, txq>> /\ UNCHANGED bufVars

UnblockTx(u) ==
  /\ user[u].pc = "txsleep"
  /\ LET i == user[u].sock
         woken == cust[i].txEvent \/ cust[i].txUnblocked
     IN /\ woken \/ "tx_late" \in Happens
        /\ cust' = [cust EXCEPT ![i].blockFlag = FALSE, ![i].txBlock = FALSE,
                                ![i].txEvent = FALSE,
                                ![i].txUnblocked = FALSE]
        /\ Goto(u, IF woken THEN AfterTx(u) ELSE Idle("error"))
  /\ UNCHANGED <<ctx, sel, txq>> /\ UNCHANGED bufVars

NextSegment(u) ==
  /\ user[u].pc = "segment"
  /\ custom_send_tcpip(u, user[u].sock, FALSE)
  /\ UNCHANGED <<ctx, sel>> /\ UNCHANGED bufVars

txpkt_free ==
  /\ txq # <<>>
  /\ txq' = Tail(txq)
  /\ cust' = unblockTx(Head(txq).sock)
  /\ UNCHANGED <<ctx, sel, user>> /\ UNCHANGED bufVars

-----------------------------------------------------------------------------
\* Events of the target: Api_SockResponseEventRx.
PeerClose(i) ==
  /\ "peer_close" \in Happens
  /\ i \in Streams /\ ctx[i].handle /\ ~ctx[i].fin
  /\ ~ctx[i].listen /\ ~Closing(i)
  /\ ctx[i].old # NoBuf => "close_partial" \in Happens
  /\ IF QUEUE_EMPTY(i)
     THEN /\ ctx' = [ctx EXCEPT ![i] = clear_socket_context(i)]
          /\ fresh' = FreshAfterClear(i)
     ELSE ctx' = [ctx EXCEPT ![i].fin = TRUE] /\ UNCHANGED fresh
  /\ unblockSelect
  /\ UNCHANGED <<cust, pool, zeroq, units, txq, user, got, setting>>

\* A connection is announced, or the answer to an accept that does not block
\* has it.  The announcement takes the place of the answer's result.
Incoming(i) ==
  /\ "incoming" \in Happens /\ ctx[i].listen
  /\ \/ ctx' = [ctx EXCEPT ![i].avail = TRUE]
     \/ ctx' = [ctx EXCEPT ![i].avail = FALSE, ![i].data = TRUE]
  /\ cust' = unblockRx(i) /\ unblockSelect
  /\ UNCHANGED txq /\ UNCHANGED user /\ UNCHANGED bufVars

\* A socket command starts and is answered.
Command(i) ==
  /\ "pending" \in Happens /\ ctx[i].handle
  /\ ctx' = [ctx EXCEPT ![i].mask = ~@]
  /\ UNCHANGED <<cust, sel, txq, user>> /\ UNCHANGED bufVars

UserStep(u) ==
  \/ PurgeAgain(u) \/ ClearContext(u) \/ blockForDataRx(u) \/ BlockRx(u)
  \/ UnblockRx(u) \/ SelectEnd(u) \/ blockSelect(u) \/ SelectAgain(u)
  \/ BlockTx(u) \/ UnblockTx(u) \/ NextSegment(u)
Calls(u) ==
  \E i \in Socks :
    \/ \E l \in BOOLEAN : Api_socket(u, i, l)
    \/ Api_shutdown(u, i) \/ Api_select(u, i) \/ t_sendto(u, i)
    \/ Api_accept_ver1(u, i)
    \/ \E n \in 1..MAX_UNITS : Api_recvfrom(u, i, n)
TargetStep ==
  \E i \in Socks :
    \/ \E b \in Bufs, n \in 1..MAX_UNITS : custom_receive_tcpip(i, b, n)
    \/ PeerClose(i) \/ Incoming(i) \/ Command(i)

Next ==
  \/ \E u \in Users : UserStep(u) \/ (GivenBack /\ Calls(u))
  \/ \E u \in Users, S \in SUBSET Socks \ {{}} :
       GivenBack /\ Api_select_ver1(u, S)
  \/ \E b \in Bufs : zero_copy_free(b)
  \/ txpkt_free \/ TargetStep

Spec == Init /\ [][Next]_vars

(***************************************************************************)
(* Tasks run, and the driver task sends what it was given.                 *)
(***************************************************************************)
Fairness == /\ \A u \in Users : WF_vars(UserStep(u))
            /\ WF_vars(txpkt_free)
LiveSpec == Spec /\ Fairness

-----------------------------------------------------------------------------
TypeOK ==
  /\ ctx \in [Socks -> [handle : BOOLEAN, fin : BOOLEAN, listen : BOOLEAN,
                        avail : BOOLEAN, data : BOOLEAN, mask : BOOLEAN,
                        rxqueue : Seq(Bufs), old : Bufs \cup {NoBuf},
                        remaining : 0..MAX_UNITS]]
  /\ cust \in [Socks -> [DOMAIN NotBlocked -> BOOLEAN]]
  /\ pool \subseteq Bufs /\ zeroq \subseteq Bufs /\ fresh \subseteq Bufs
  /\ units \in [Bufs -> 0..MAX_UNITS] /\ sel \in BOOLEAN
  /\ Range(txq) \subseteq [user : Users, sock : Socks]

(***************************************************************************)
(* A receive buffer is in one place only, and in one from which it will    *)
(* come back: the pool, the application's hands, or a socket that is open  *)
(* (clear_socket_context "clears all elements of socket context",          *)
(* api_stack_offload.c:3416).  No socket is closed with a packet half      *)
(* read, or while data still arrives for it.                               *)
(***************************************************************************)
Places(b) ==
  (IF b \in pool THEN {<<"pool", 0>>} ELSE {})
  \cup (IF b \in zeroq THEN {<<"application", 0>>} ELSE {})
  \cup {<<"queue", i>> : i \in {j \in Socks : b \in Range(ctx[j].rxqueue)}}
  \cup {<<"old", i>> : i \in {j \in Socks : b = ctx[j].old}}
CleanClose == Happens \cap {"close_partial", "late_data"} = {}
BuffersReturn ==
  CleanClose =>
  /\ \A b \in Bufs : Cardinality(Places(b)) = 1
  /\ \A i \in Socks : ~ctx[i].handle => HeldBy(i) = {}

\* A read returns data of the connection it reads from.
DataOfConnection == CleanClose => got = "fresh"

(***************************************************************************)
(* With several sockets the queues never hold all receive buffers, so that *)
(* an event a caller waits for can still be received                       *)
(* (cust_api_stack_txrx.c:147 "so we reserve one buffer for mutiple socket *)
(* RX.  This handle will solve the deadlock issue"), if the application    *)
(* holds none, none is half read and none was left in a closed socket.     *)
(***************************************************************************)
AllQueued == Happens \cap {"hold", "partial", "late_data"} = {}
ReserveKept ==
  [][ (/\ fresh \subseteq fresh' /\ fresh # fresh' /\ AllQueued
       /\ Cardinality(ActiveSocks) > 2) => pool' # {} ]_vars

(***************************************************************************)
(* No task sleeps in Api_select_ver1 while one of its sockets has          *)
(* something for it, unless it is about to be woken                        *)
(* (api_stack_offload.c:1434 "Select can be called to check for incoming   *)
(* connections or for incoming data"), if no other task uses select or     *)
(* closes the socket.                                                      *)
(***************************************************************************)
Alone(u) == \A v \in Users \ {u} :
              setting.ops[v] \cap {"select_ver1", "shutdown"} = {}
Told(u) == user[u].pc = "blockSelect" /\ \E i \in user[u].set : Readable(i)
SelectorIsWoken == \A u \in Users : Told(u) /\ Alone(u) => sel

(***************************************************************************)
(* When a send succeeds, the driver no longer has the caller's packet: the *)
(* caller may use or free the buffer (atheros_stack_offload.h:70           *)
(* "application thread will block until a packet is sent over SPI"), if    *)
(* no earlier send of the socket failed, was late, or was another task's.  *)
(***************************************************************************)
SentWhenReturned ==
  Happens \cap {"send_fails", "tx_late", "share"} = {} =>
  \A u \in Users :
    (user[u] = Idle("sent") \/ user[u].pc = "segment") =>
      \A k \in DOMAIN txq : txq[k].user # u

\* A task in select whose socket has something for it returns, and so does
\* a sender, also when no time limit helps.
Sending(u) == user[u].pc \in {"txblock", "txsleep", "segment"}
DataEndsSelect ==
  \A u \in Users : Told(u) /\ Alone(u) ~> user[u].pc = "idle"
SendReturns    == \A u \in Users : Sending(u) ~> user[u].pc = "idle"

(***************************************************************************)
(* Received data is accounted for: every buffer comes back, and what a     *)
(* task reads is of the connection it reads from.                          *)
(***************************************************************************)
DataAccounted == TypeOK /\ BuffersReturn /\ DataOfConnection

(***************************************************************************)
(* A task is told what it waits for and nothing else: a selector is woken  *)
(* when there is data, and a send returns success for a packet that was    *)
(* sent.                                                                   *)
(***************************************************************************)
UsersAreTold == SelectorIsWoken /\ SentWhenReturned

(***************************************************************************)
(* select returns once there is data, and a blocking send returns.         *)
(***************************************************************************)
WaitsEnd == DataEndsSelect /\ SendReturns
=============================================================================
