------------------------------ MODULE SockCmd -------------------------------
(***************************************************************************)
(* Socket commands and their answers                                       *)
(* (common_src/stack_common/api_stack_offload.c).  The TCP/IP stack runs   *)
(* in the target: a user task sets a command's bit in its socket's         *)
(* sock_st_mask, sends the command and blocks on the socket; the driver    *)
(* task stores the target's answer in the context, clears the bit and      *)
(* wakes the user.  Commands that belong to no socket share one global     *)
(* context.                                                                *)
(*                                                                         *)
(* SockCalls has the calls.  A user task passes through                    *)
(*     idle -> (claim ->) send -> block <-> wait -> finish -> idle         *)
(* and is preempted between any two of these; blockForResponse runs above  *)
(* the driver task, so its test of respAvailable and its wait are one      *)
(* step.  The payload of commands and answers is left out; a kept answer   *)
(* is the receive buffer that holds it.  Of data packets there is what     *)
(* matters to a close: that they are queued, and read; the rest of them,   *)
(* and select, are in SockData.                                            *)
(***************************************************************************)
EXTENDS SockCalls, Integers, Sequences, FiniteSets

CONSTANTS
  Users,          \* user tasks
  Nobody,         \* no user task
  NSocks,         \* MAX_SOCKETS_SUPPORTED
  Handles,        \* socket handles the target gives out
  Ssls,           \* SSL objects of the target
  Bufs,           \* receive buffers (netbufs)
  NoBuf,          \* NULL
  MaxInbox,       \* bound: commands the target has not answered
  Settings        \* the operations each user task calls, the handles that
                  \* are given out, a lower MaxInbox, and what happens

(***************************************************************************)
(* What a setting may leave out.                                           *)
(***************************************************************************)
Hazards ==
  {"send_fails",     \* wmi_socket_cmd fails
   "late",           \* the target is later than a caller's time limit
   "incoming",       \* peers connect to listening sockets not in use
   "incoming_busy",  \* and to sockets with an accept under way
   "peer_close",     \* peers close connections no task is calling on
   "peer_close_busy",\* and connections a task is calling on
   "suspend",        \* the device is stored and recalled
   "share",          \* tasks share sockets and open and close concurrently
   "accept_error",   \* an accept is answered with an error
   "accept_nb_error",\* and one that does not block
   "accept_early",   \* or with TCP_CONNECTION_AVAILABLE
   "accept_mixed",   \* other commands are sent while accept_nb is under way
   "accept_closed",  \* a socket is closed with an answer stored in it
   "data",           \* packets arrive on connections
   "reuse",          \* the target gives out again the handle of a connection
                     \* its peer closed while the host has data of it to
                     \* read, or has yet to take it from the accept
   "ssl_left"}       \* a socket is closed before SSL_shutdown

Socks == 0..(NSocks - 1)
GLOBAL_SOCK_INDEX == NSocks
Index == 0..NSocks
SOCKET_NOT_FOUND == -1
EMPTY_SOCKET_CONTEXT == 0
SOCKET_HANDLE_PLACEHOLDER == -1     \* 0xFFFFFFFF
A_OK == 0
A_ERROR == -1
TCP_CONNECTION_AVAILABLE == 99
Results == {A_ERROR, A_OK, TCP_CONNECTION_AVAILABLE} \cup Handles

ASSUME SizeAssumption == NSocks \in Nat \ {0} /\ MaxInbox \in Nat \ {0}
ASSUME NameAssumption ==
          /\ Handles \subseteq 1..98 /\ Ssls \subseteq Nat \ {0}
          /\ NoBuf \notin Bufs /\ Nobody \notin Users
ASSUME SettingsAssumption ==
          \A s \in Settings :
            /\ DOMAIN s.ops = Users /\ s.handles \subseteq Handles
            /\ s.inbox \in 1..MaxInbox /\ s.happens \subseteq Hazards

VARIABLES
  ctx,     \* ath_sock_context, with the global one
  cust,    \* the SOCKET_CONTEXT of each: blocking, and sockRxWakeEvent
  user,    \* what each user task is doing
  inbox,   \* commands the target has not answered
  open,    \* handles the target has open
  owner,   \* of each receive buffer: the pool ("free") or the socket layer
  zeroq,   \* zero_copy_free_queue
  refused, \* ghost: open handles whose accept found no empty context
  badFree, \* something was freed twice, or by a pointer into it
  device   \* chip: "up", "storing" (strrclBlock) or "down" (chipDown too);
           \* set: the setting, chosen at the start

vars == <<ctx, cust, user, inbox, open, owner, zeroq, refused, badFree,
          device>>

Ops == UNION {s.ops[u] : s \in Settings, u \in Users}
OpsOf == device.set.ops
Happens == device.set.happens
chip == device.chip

Idle == [pc |-> "idle"]
NotBlocked == [blockFlag |-> FALSE, respAvailable |-> FALSE,
               rxBlock |-> FALSE, event |-> FALSE]
EmptyContext == [handle |-> EMPTY_SOCKET_CONTEXT, mask |-> {}, result |-> A_OK,
                 data |-> NoBuf, pReq |-> NoBuf, ssl |-> 0, tcp |-> "none",
                 rx |-> {},          \* rxqueue
                 from |-> Nobody]    \* from: whose answer result holds

\* socket_context_init
Init ==
  /\ ctx = [i \in Index |-> EmptyContext]
  /\ cust = [i \in Index |-> NotBlocked]
  /\ user = [u \in Users |-> Idle]
  /\ inbox = <<>> /\ open = {} /\ owner = [b \in Bufs |-> "free"]
  /\ zeroq = {} /\ refused = {} /\ badFree = FALSE
  /\ \E s \in Settings : device = [chip |-> "up", set |-> s]

-----------------------------------------------------------------------------
\* Finding a context: the first that fits.
FirstOf(S) == IF S = {} THEN SOCKET_NOT_FOUND
                        ELSE CHOOSE i \in S : \A j \in S : i <= j

find_socket_context(h) == FirstOf({i \in Socks : ctx[i].handle = h})

find_socket_context_from_ssl(s) == FirstOf({i \in Socks : ctx[i].ssl = s})

SslOrGlobal(s) == LET i == find_socket_context_from_ssl(s)
                  IN  IF i = SOCKET_NOT_FOUND THEN GLOBAL_SOCK_INDEX ELSE i

Locate(call, h, s) ==
  CASE call.on = "new"         -> find_socket_context(EMPTY_SOCKET_CONTEXT)
    [] call.on = "handle"      -> find_socket_context(h)
    [] call.on = "ssl"         -> find_socket_context_from_ssl(s)
    [] call.on = "sslOrGlobal" -> SslOrGlobal(s)
    [] call.on = "global"      -> GLOBAL_SOCK_INDEX

(***************************************************************************)
(* clear_socket_context gives back data with A_FREE: data points into the  *)
(* receive buffer pReq.  ssl, pReq and the receive queue stay.             *)
(***************************************************************************)
cleared(i) == [ctx[i] EXCEPT !.handle = EMPTY_SOCKET_CONTEXT, !.tcp = "none",
                             !.mask = {}, !.data = NoBuf]

clear_socket_context(i) ==
  /\ ctx' = [ctx EXCEPT ![i] = cleared(i)]
  /\ badFree' = (badFree \/ ctx[i].data # NoBuf)

A_NETBUF_FREE(b) == /\ owner' = [owner EXCEPT ![b] = "free"]
                    /\ badFree' = (badFree \/ b = NoBuf \/ owner[b] = "free")

targetVars == <<inbox, open>>
bufVars    == <<owner, badFree>>
restVars   == <<zeroq, refused, device>>

(***************************************************************************)
(* Api_DriverAccessCheck: an IOCTL access waits until neither chipDown nor *)
(* strrclBlock is set.  The device is stored and recalled: the target      *)
(* keeps its state and answers when the chip is up again.                  *)
(***************************************************************************)
Api_DriverAccessCheck(access) == access = "ACCESS_REQUEST_IOCTL" => chip = "up"

Suspend == /\ "suspend" \in Happens
           /\ device' = [device EXCEPT !.chip =
                           CASE chip = "up"      -> "storing"
                             [] chip = "storing" -> "down"
                             [] chip = "down"    -> "up"]
           /\ UNCHANGED <<ctx, cust, user, zeroq, refused>>
           /\ UNCHANGED <<targetVars, bufVars>>

-----------------------------------------------------------------------------
(***************************************************************************)
(* User tasks.  Without "share" one task at a time uses a context, and one *)
(* at a time opens, accepts or closes.                                     *)
(***************************************************************************)
Allocates(call) == call.then \in {"open", "clear", "accept"}

Alone(u, call, i) ==
  \/ "share" \in Happens
  \/ \A v \in Users \ {u} :
        user[v].pc # "idle" => /\ user[v].index # i
                               /\ ~(Allocates(call) /\ Allocates(user[v].call))

\* How applications are expected to use sockets.
AcceptsBothWays ==
  \E u, v \in Users : t_accept \in OpsOf[u] /\ t_accept_nb \in OpsOf[v]

Proper(call, i, s) ==
  /\ call.on = "handle" =>
       /\ call.cmd = "SOCK_ACCEPT" => ctx[i].tcp = "listen"
       /\ call.cmd = "SOCK_CONNECT" => ctx[i].tcp # "listen"
       /\ call.cmd = "SOCK_LISTEN" => ctx[i].handle \in open
       /\ \/ "accept_mixed" \in Happens
          \/ "accept_closed" \in Happens /\ call = Api_shutdown
          \/ /\ "SOCK_ACCEPT" \notin ctx[i].mask
             /\ \/ ctx[i].data = NoBuf \/ call.then = "accept_nb"
                \/ call.then = "accept" /\ ~AcceptsBothWays
  /\ call = Api_shutdown => "ssl_left" \in Happens \/ ctx[i].ssl = 0
  /\ call.then = "set_fd" => /\ ctx[i].ssl = 0
                             /\ \A j \in Socks : ctx[j].ssl # s

\* A stored answer of an earlier non-blocking accept (Api_accept_ver1).
AcceptReady(i) == /\ ctx[i].result # TCP_CONNECTION_AVAILABLE
                  /\ ctx[i].data # NoBuf

isSocketBlocked(i) == cust[i].blockFlag

\* SOCK_EV_MASK_SET
WithMask(x, call) == [x EXCEPT !.mask = IF call.mask THEN @ \cup {call.cmd}
                                                     ELSE @]

HandleArgs(call) == IF call.on = "handle" THEN Handles ELSE {0}
SslArgs(call) ==
  IF call.on \in {"ssl", "sslOrGlobal"} \/ call.then = "set_fd" THEN Ssls
                                                                ELSE {0}

(***************************************************************************)
(* A call whose context is not found or blocked returns A_ERROR and        *)
(* changes nothing.  SSL_set_fd stores the SSL object before it sends, and *)
(* Api_shutdown empties the receive queue (a_netbuf_purge_queue).          *)
(***************************************************************************)
Purged(S) == [b \in Bufs |-> IF b \in S THEN "free" ELSE owner[b]]

Enter(u, op) ==
  LET call == op.call IN
  /\ user[u].pc = "idle" /\ op \in OpsOf[u] /\ Api_DriverAccessCheck(op.access)
  /\ \E h \in HandleArgs(call), s \in SslArgs(call) :
       LET i == Locate(call, h, s) IN
       /\ i # SOCKET_NOT_FOUND /\ ~isSocketBlocked(i)
       /\ Alone(u, call, i) /\ Proper(call, i, s)
       /\ call.then = "accept_nb" => ~AcceptReady(i)
       /\ user' = [user EXCEPT ![u] =
                     [pc |-> IF call.on = "new" THEN "claim" ELSE "send",
                      call |-> call, index |-> i, h |-> h, s |-> s,
                      again |-> FALSE]]
       /\ ctx' = IF call.on = "new" THEN ctx
                 ELSE [ctx EXCEPT ![i] = WithMask(
                         [@ EXCEPT !.ssl = IF call.then = "set_fd" THEN s
                                                                   ELSE @,
                                   !.rx = IF call.then = "clear" THEN {}
                                                                 ELSE @],
                         call)]
       /\ owner' = IF call.then = "clear" THEN Purged(ctx[i].rx) ELSE owner
  /\ UNCHANGED <<cust, targetVars, badFree, restVars>>

\* Api_socket takes the context it found.
Claim(u) ==
  LET i == user[u].index IN
  /\ user[u].pc = "claim"
  /\ ctx' = [ctx EXCEPT ![i] = WithMask([@ EXCEPT !.handle =
                                SOCKET_HANDLE_PLACEHOLDER], user[u].call)]
  /\ user' = [user EXCEPT ![u].pc = "send"]
  /\ UNCHANGED <<cust, targetVars, bufVars, restVars>>

\* Api_listen marks the socket as listening also when it returns an error
\* because it is blocked.  (When it found none the write goes before the
\* array, to memory that is not modelled.)
ListenRefused(u) ==
  /\ user[u].pc = "idle" /\ t_listen \in OpsOf[u]
  /\ Api_DriverAccessCheck(t_listen.access)
  /\ \E h \in Handles :
       LET i == find_socket_context(h) IN
       /\ i # SOCKET_NOT_FOUND /\ isSocketBlocked(i)
       /\ Alone(u, Api_listen, i)
       /\ ctx' = [ctx EXCEPT ![i].tcp = "listen"]
  /\ UNCHANGED <<cust, user, targetVars, bufVars, restVars>>

\* What an accept does with the socket the target made for it.
\* Mutant: the new socket gets no context.
TakeAcceptedForgotten(i, new) ==
  ctx' = [ctx EXCEPT ![i].data = NoBuf, ![i].from = Nobody]

TakeAccepted(i, new) ==
  ctx' = [ctx EXCEPT ![new].handle = ctx[i].result,
                     ![i].data = NoBuf, ![i].from = Nobody]

\* Api_accept_ver1 with the answer of an earlier call.  With no empty
\* context it returns an error, and the answer stays.
AcceptStored(u) ==
  /\ user[u].pc = "idle" /\ t_accept_nb \in OpsOf[u]
  /\ Api_DriverAccessCheck(t_accept_nb.access)
  /\ \E h \in Handles :
       LET i == find_socket_context(h)
           new == find_socket_context(EMPTY_SOCKET_CONTEXT)
       IN  /\ i # SOCKET_NOT_FOUND /\ ~isSocketBlocked(i) /\ AcceptReady(i)
           /\ Alone(u, Api_accept, i)
           /\ new # SOCKET_NOT_FOUND
           /\ TakeAccepted(i, new)
           /\ A_NETBUF_FREE(ctx[i].pReq)
  /\ UNCHANGED <<cust, user, targetVars, restVars>>

(***************************************************************************)
(* wmi_socket_cmd.  When it fails the bit is cleared again, Api_socket     *)
(* clears its context, SSL_set_fd forgets the SSL object and Api_listen    *)
(* marks the socket all the same.                                          *)
(***************************************************************************)
Return(u) == user' = [user EXCEPT ![u] = Idle]

Sent(u) ==
  LET call == user[u].call  i == user[u].index IN
  /\ user[u].pc = "send" /\ Len(inbox) < device.set.inbox
  /\ inbox' = Append(inbox, [cmd |-> call.cmd, h |-> user[u].h,
                             s |-> user[u].s, user |-> u,
                             again |-> user[u].again,
                             asked |-> call.wait # "none"])
  /\ IF call.wait # "none" THEN user' = [user EXCEPT ![u].pc = "block"]
     ELSE IF call.then = "clear" THEN user' = [user EXCEPT ![u].pc = "finish"]
     ELSE Return(u)
  /\ ctx' = [ctx EXCEPT ![i].tcp = IF call.then = "listen" THEN "listen"
                                                           ELSE @]
  /\ UNCHANGED <<cust, open, bufVars, restVars>>

NotSent(u) ==
  LET call == user[u].call  i == user[u].index IN
  /\ user[u].pc = "send" /\ "send_fails" \in Happens
  /\ IF call.then = "open" THEN clear_socket_context(i)
     ELSE /\ ctx' = [ctx EXCEPT
                       ![i].mask = @ \ {call.cmd},
                       ![i].ssl = IF call.then = "set_fd" THEN 0 ELSE @,
                       ![i].tcp = IF call.then = "listen" THEN "listen"
                                                          ELSE @]
          /\ UNCHANGED badFree
  /\ Return(u)
  /\ UNCHANGED <<cust, targetVars, owner, restVars>>

-----------------------------------------------------------------------------
(***************************************************************************)
(* blockForResponse, in the caller's loop: until its bit is cleared.  At   *)
(* its time limit a "limited" call returns A_ERROR and leaves its bit set; *)
(* an "again" call goes on.                                                *)
(***************************************************************************)
\* Mutant: the caller does not test its bit again.
AfterBlockOnce(u) == "finish"

AfterBlock(u) == IF user[u].call.cmd \in ctx[user[u].index].mask
                 THEN "block" ELSE "finish"

Block(u) ==
  LET i == user[u].index IN
  /\ user[u].pc = "block"
  /\ IF cust[i].respAvailable
     THEN /\ cust' = [cust EXCEPT ![i].respAvailable = FALSE,
                                  ![i].blockFlag = FALSE]
          /\ user' = [user EXCEPT ![u].pc = AfterBlock(u)]
     ELSE /\ cust' = [cust EXCEPT ![i].blockFlag = TRUE, ![i].rxBlock = TRUE]
          /\ user' = [user EXCEPT ![u].pc = "wait"]
  /\ UNCHANGED <<ctx, targetVars, bufVars, restVars>>

Resume(u) ==
  LET i == user[u].index IN
  /\ user[u].pc = "wait" /\ cust[i].event
  /\ cust' = [cust EXCEPT ![i] = NotBlocked]
  /\ user' = [user EXCEPT ![u].pc = AfterBlock(u)]
  /\ UNCHANGED <<ctx, targetVars, bufVars, restVars>>

TimeLimit(u) ==
  LET i == user[u].index IN
  /\ user[u].pc = "wait" /\ ~cust[i].event
  /\ "late" \in Happens /\ user[u].call.wait # "forever"
  /\ cust' = [cust EXCEPT ![i] = NotBlocked]
  /\ IF user[u].call.wait = "limited" /\ ~cust[i].respAvailable
     THEN Return(u)
     ELSE user' = [user EXCEPT ![u].pc = AfterBlock(u)]
  /\ UNCHANGED <<ctx, targetVars, bufVars, restVars>>

(***************************************************************************)
(* The caller uses the answer, by what the call does with it.  (from is    *)
(* reset: the answer is used up.)                                          *)
(***************************************************************************)
At(u, then) == user[u].pc = "finish" /\ user[u].call.then = then

FinishStatus(u) ==
  LET i == user[u].index IN
  /\ At(u, "status") /\ Return(u)
  /\ ctx' = [ctx EXCEPT ![i].from = Nobody]
  /\ UNCHANGED <<cust, targetVars, bufVars, restVars>>

FinishFree(u) ==
  LET i == user[u].index IN
  /\ (At(u, "free") \/ At(u, "getsockopt")) /\ Return(u)
  /\ ctx' = [ctx EXCEPT ![i].from = Nobody,
                        ![i].data = IF At(u, "free") THEN @ ELSE NoBuf]
  /\ A_NETBUF_FREE(ctx[i].pReq)
  /\ UNCHANGED <<cust, targetVars, restVars>>

FinishOpen(u) ==
  LET i == user[u].index IN
  /\ At(u, "open") /\ Return(u)
  /\ IF ctx[i].handle = A_ERROR THEN clear_socket_context(i)
     ELSE /\ ctx' = [ctx EXCEPT ![i].from = Nobody]
          /\ UNCHANGED badFree
  /\ UNCHANGED <<cust, targetVars, owner, restVars>>

\* The queue is emptied once more.  (A packet between this and the clearing
\* of the context is in SockData.)
FinishShutdown(u) ==
  LET i == user[u].index IN
  /\ At(u, "clear") /\ Return(u)
  /\ ctx' = [ctx EXCEPT ![i] = [cleared(i) EXCEPT !.rx = {}]]
  /\ badFree' = (badFree \/ ctx[i].data # NoBuf)
  /\ owner' = Purged(ctx[i].rx)
  /\ UNCHANGED <<cust, targetVars, restVars>>

Lend(b) == zeroq' = zeroq \cup {b} /\ UNCHANGED bufVars

\* Api_httpc_method lends the buffer to its caller (output # NULL) until
\* zero_copy_http_free.
FinishZeroCopy(u) ==
  LET i == user[u].index IN
  /\ At(u, "zero_copy") /\ Return(u)
  /\ ctx' = [ctx EXCEPT ![i].from = Nobody]
  /\ \E output \in BOOLEAN :
       IF output /\ ctx[i].result # A_ERROR
       THEN Lend(ctx[i].pReq)
       ELSE A_NETBUF_FREE(ctx[i].pReq) /\ UNCHANGED zeroq
  /\ UNCHANGED <<cust, targetVars, refused, device>>

\* Also zero_copy_free, of data.
zero_copy_http_free(b) ==
  /\ zeroq' = zeroq \ {b} /\ A_NETBUF_FREE(b)
  /\ UNCHANGED <<ctx, cust, user, targetVars, refused, device>>

FinishSsl(u) ==
  LET i == user[u].index IN
  /\ At(u, "set_fd") \/ At(u, "ssl_shutdown")
  /\ Return(u)
  /\ ctx' = [ctx EXCEPT ![i].from = Nobody,
                        ![i].ssl = IF At(u, "set_fd") /\ ctx[i].result >= A_OK
                                   THEN @ ELSE 0]
  /\ UNCHANGED <<cust, targetVars, bufVars, restVars>>

\* Certificates go in segments until one fails (here, one or two).
FinishSegment(u) ==
  LET i == user[u].index IN
  /\ At(u, "segments")
  /\ \E more \in BOOLEAN :
       IF more /\ ~user[u].again /\ ctx[i].result >= A_OK
       THEN /\ user' = [user EXCEPT ![u].pc = "send", ![u].again = TRUE]
            /\ ctx' = [ctx EXCEPT ![i] = WithMask([@ EXCEPT !.from = Nobody],
                                                  user[u].call)]
       ELSE /\ Return(u)
            /\ ctx' = [ctx EXCEPT ![i].from = Nobody]
  /\ UNCHANGED <<cust, targetVars, bufVars, restVars>>

(***************************************************************************)
(* Api_accept asks again, once, when the target only announced the         *)
(* connection; then it makes a context for the new socket.  With no empty  *)
(* context it leaves data set and frees the buffer.                        *)
(***************************************************************************)
FinishAccept(u) ==
  LET i == user[u].index
      new == find_socket_context(EMPTY_SOCKET_CONTEXT)
      early == ctx[i].result = TCP_CONNECTION_AVAILABLE /\ ~user[u].again
      taken == ctx[i].result # A_ERROR /\ new # SOCKET_NOT_FOUND
  IN
  /\ At(u, "accept")
  /\ A_NETBUF_FREE(ctx[i].pReq)
  /\ IF early
     THEN /\ user' = [user EXCEPT ![u].pc = "send", ![u].again = TRUE]
          /\ ctx' = [ctx EXCEPT ![i] = WithMask([@ EXCEPT !.from = Nobody],
                                                user[u].call)]
     ELSE /\ Return(u)
          /\ IF taken THEN TakeAccepted(i, new)
             ELSE ctx' = [ctx EXCEPT ![i].from = Nobody]
  /\ refused' = IF early \/ taken THEN refused
                ELSE refused \cup ({ctx[i].result} \cap open)
  /\ UNCHANGED <<cust, targetVars, zeroq, device>>

UserStep(u) ==
  \/ Claim(u) \/ Sent(u) \/ NotSent(u) \/ Block(u) \/ Resume(u)
  \/ FinishStatus(u) \/ FinishFree(u) \/ FinishOpen(u) \/ FinishShutdown(u)
  \/ FinishZeroCopy(u) \/ FinishSsl(u) \/ FinishSegment(u) \/ FinishAccept(u)

-----------------------------------------------------------------------------
(***************************************************************************)
(* The target answers a command; Api_SockResponseEventRx, on the driver    *)
(* task, finds the context.                                                *)
(***************************************************************************)
ByHandle == {"SOCK_ACCEPT", "SOCK_CLOSE", "SOCK_CONNECT", "SOCK_BIND",
             "SOCK_LISTEN", "SOCK_ERRNO", "SOCK_SETSOCKOPT",
             "SOCK_GETSOCKOPT"}
BySsl    == {"SOCK_SSL_SET_FD", "SOCK_SSL_ACCEPT", "SOCK_SSL_CONNECT",
             "SOCK_SSL_CONFIGURE", "SOCK_SSL_SHUTDOWN"}

\* Mutant: the option's buffer is not stored.
KeptButOption ==
  {"SOCK_IPCONFIG", "SOCK_IP6CONFIG", "SOCK_HTTPC", "SOCK_DNC_CMD"}

\* Answers whose buffer is kept for the caller (freeBuf = 0).
Kept == {"SOCK_GETSOCKOPT", "SOCK_IPCONFIG", "SOCK_IP6CONFIG",
         "SOCK_HTTP_SERVER_CMD", "SOCK_HTTPC", "SOCK_DNC_CMD",
         "SOCK_IP_SNTP_GET_TIME", "SOCK_IP_SNTP_GET_TIME_OF_DAY",
         "SOCK_IP_SNTP_QUERY_SNTP_ADDRESS", "SOCK_IPV4_ROUTE",
         "SOCK_IPV6_ROUTE", "SOCK_SSL_LIST_CERT", "SOCK_OTA_UPGRADE",
         "SOCK_OTA_READ", "SOCK_OTA_DONE", "SOCK_OTA_SESSION_START",
         "SOCK_OTA_PARTITION_GET_SIZE", "SOCK_OTA_PARTITION_ERASE",
         "SOCK_OTA_PARTITION_VERIFY_CHECKSUM", "SOCK_OTA_PARSE_IMAGE_HDR",
         "SOCK_OTA_PARTITION_WRITE_DATA"}

\* Answers of which only the result is kept.  Other types are unknown and
\* dropped.
ResultOnly == {"SOCK_OPEN", "SOCK_PING", "SOCK_PING6", "SOCK_HTTP_SERVER",
               "SOCK_DNC_ENABLE", "SOCK_DNS_SRVR_CFG_ADDR",
               "SOCK_IP_HOST_NAME", "SOCK_IP_DNS", "SOCK_SSL_CTX_NEW",
               "SOCK_SSL_CTX_FREE", "SOCK_SSL_NEW", "SOCK_SSL_ADD_CERT",
               "SOCK_SSL_STORE_CERT", "SOCK_SSL_LOAD_CERT"}

Known == ByHandle \cup BySsl \cup Kept \cup ResultOnly

ResponseIndex(r) ==
  CASE r.cmd = "SOCK_OPEN" -> find_socket_context(SOCKET_HANDLE_PLACEHOLDER)
    [] r.cmd \in ByHandle  -> find_socket_context(r.h)
    [] r.cmd \in BySsl     -> SslOrGlobal(r.s)
    [] OTHER               -> GLOBAL_SOCK_INDEX

unblock(i) == cust' = [cust EXCEPT ![i].respAvailable = TRUE,
                                   ![i].event = @ \/ cust[i].rxBlock]

\* The answer to an accept, not yet taken, made h.
HasAccepted(i, h) == ctx[i].result = h /\ ctx[i].data # NoBuf

\* The handles the target may give a new socket: of none it has open, or has
\* a command for.
NewHandles ==
  {h \in device.set.handles \ open :
     /\ \A k \in DOMAIN inbox : inbox[k].h # h
     /\ "reuse" \notin Happens =>
          \A i \in Socks : ctx[i].handle # h /\ ~HasAccepted(i, h)}

\* What the target may answer: it refuses commands on a closed handle.
Answers(r) ==
  IF r.cmd \in ByHandle /\ r.h \notin open THEN {A_ERROR}
  ELSE CASE r.cmd = "SOCK_OPEN" -> {A_ERROR} \cup NewHandles
         [] r.cmd = "SOCK_ACCEPT" ->
              NewHandles
              \cup IF (IF r.asked THEN "accept_error" ELSE "accept_nb_error")
                         \in Happens
                   THEN {A_ERROR} ELSE {}
              \cup IF "accept_early" \in Happens /\ ~r.again
                   THEN {TCP_CONNECTION_AVAILABLE} ELSE {}
         [] OTHER -> {A_ERROR, A_OK}

\* Command k is that of a call that still waits for its answer.
Awaited(k) ==
  LET r == inbox[k] IN
  /\ r.asked /\ user[r.user].pc \in {"block", "wait"}
  /\ user[r.user].call.cmd = r.cmd
  /\ user[r.user].h = r.h /\ user[r.user].s = r.s
  /\ \A j \in (k + 1)..Len(inbox) : inbox[j].user # r.user

Whose(k) == IF Awaited(k) THEN inbox[k].user ELSE Nobody

\* Answer k is kept in b.  "late": the answer to a call that had returned at
\* its time limit, and an answer not yet used that it takes the place of.
Keep(i, k, b) ==
  LET late == inbox[k].asked /\ ~Awaited(k) IN
  owner' = [c \in Bufs |->
              CASE c = b -> IF late THEN "late" ELSE "sock"
                [] c = ctx[i].pReq /\ late /\ owner[c] # "free" -> "late"
                [] OTHER -> owner[c]]

\* The driver task got answer e to command r, in the free buffer b.
Answering(k, b, e) ==
  /\ chip # "down" /\ k \in DOMAIN inbox /\ owner[b] = "free"
  /\ \A j \in 1..(k - 1) : <<inbox[j].cmd, inbox[j].h, inbox[j].s>>
                              # <<inbox[k].cmd, inbox[k].h, inbox[k].s>>
  /\ e \in Answers(inbox[k])
  /\ inbox' = SubSeq(inbox, 1, k - 1) \o SubSeq(inbox, k + 1, Len(inbox))
  /\ open' = CASE inbox[k].cmd \in {"SOCK_OPEN", "SOCK_ACCEPT"} ->
                    open \cup ({e} \cap Handles)
               [] inbox[k].cmd = "SOCK_CLOSE" -> open \ {inbox[k].h}
               [] OTHER -> open
  /\ UNCHANGED <<user, restVars>>

\* The context is not found, or nobody waits and nothing is to be done: the
\* buffer is freed.
AnswerDropped(k, b, e) ==
  LET r == inbox[k]  i == ResponseIndex(r) IN
  /\ Answering(k, b, e)
  /\ i # SOCKET_NOT_FOUND /\ r.cmd \in Known =>
       /\ r.cmd \notin {"SOCK_ACCEPT", "SOCK_CLOSE", "SOCK_CONNECT"}
       /\ r.cmd \notin ctx[i].mask
  /\ UNCHANGED <<ctx, cust, bufVars>>

AnswerOpen(k, b, e) ==
  LET r == inbox[k]  i == ResponseIndex(r) IN
  /\ Answering(k, b, e) /\ r.cmd = "SOCK_OPEN" /\ i # SOCKET_NOT_FOUND
  /\ r.cmd \in ctx[i].mask
  /\ ctx' = [ctx EXCEPT ![i].handle = e, ![i].mask = @ \ {r.cmd},
                        ![i].from = Whose(k)]
  /\ unblock(i)
  /\ UNCHANGED bufVars

\* Kept whether or not a task waits for it.
AnswerAccept(k, b, e) ==
  LET r == inbox[k]  i == ResponseIndex(r) IN
  /\ Answering(k, b, e) /\ r.cmd = "SOCK_ACCEPT" /\ i # SOCKET_NOT_FOUND
  /\ ctx' = [ctx EXCEPT ![i].data = b, ![i].pReq = b, ![i].result = e,
                        ![i].mask = @ \ {r.cmd}, ![i].from = Whose(k)]
  /\ IF r.cmd \in ctx[i].mask THEN unblock(i) ELSE UNCHANGED cust
  /\ Keep(i, k, b)
  /\ UNCHANGED badFree

\* No task ever sets the bit of SOCK_CLOSE: the context is cleared here, or
\* marked when there is data to read.
CloseEvent(i) ==
  /\ IF ctx[i].rx = {} THEN clear_socket_context(i)
     ELSE ctx' = [ctx EXCEPT ![i].tcp = "fin"] /\ UNCHANGED badFree
  /\ UNCHANGED <<cust, owner>>

AnswerClose(k, b, e) ==
  LET r == inbox[k]  i == ResponseIndex(r) IN
  /\ Answering(k, b, e) /\ r.cmd = "SOCK_CLOSE" /\ i # SOCKET_NOT_FOUND
  /\ CloseEvent(i)

AnswerConnect(k, b, e) ==
  LET r == inbox[k]  i == ResponseIndex(r)  mine == r.cmd \in ctx[i].mask IN
  /\ Answering(k, b, e) /\ r.cmd = "SOCK_CONNECT" /\ i # SOCKET_NOT_FOUND
  /\ ctx' = [ctx EXCEPT ![i].result = e, ![i].mask = @ \ {r.cmd},
                        ![i].from = IF mine THEN Whose(k) ELSE @]
  /\ IF mine THEN unblock(i) ELSE UNCHANGED cust
  /\ UNCHANGED bufVars

\* All others: stored if the bit of the command is set.
AnswerMasked(k, b, e) ==
  LET r == inbox[k]  i == ResponseIndex(r) IN
  /\ Answering(k, b, e)
  /\ r.cmd \in Known \ {"SOCK_OPEN", "SOCK_ACCEPT", "SOCK_CLOSE",
                        "SOCK_CONNECT"}
  /\ i # SOCKET_NOT_FOUND /\ r.cmd \in ctx[i].mask
  /\ ctx' = [ctx EXCEPT ![i].result = e, ![i].mask = @ \ {r.cmd},
                        ![i].from = Whose(k),
                        ![i].data = IF r.cmd \in Kept THEN b ELSE @,
                        ![i].pReq = IF r.cmd \in Kept THEN b ELSE @]
  /\ unblock(i)
  /\ IF r.cmd \in Kept THEN Keep(i, k, b) ELSE UNCHANGED owner
  /\ UNCHANGED badFree

Answer(k, b, e) ==
  \/ AnswerDropped(k, b, e) \/ AnswerOpen(k, b, e) \/ AnswerAccept(k, b, e)
  \/ AnswerClose(k, b, e) \/ AnswerConnect(k, b, e) \/ AnswerMasked(k, b, e)

(***************************************************************************)
(* Unsolicited events: a connection is closed by its peer, a listening     *)
(* socket gets a connection (SOCK_LISTEN with TCP_CONNECTION_AVAILABLE),   *)
(* and a packet arrives for a socket that has no command under way         *)
(* (custom_receive_tcpip).  An event for no context is dropped.            *)
(***************************************************************************)
Unused(i) == \A u \in Users : user[u].pc # "idle" => user[u].index # i

PeerClose(h) ==
  LET i == find_socket_context(h) IN
  /\ chip # "down" /\ h \in open
  /\ \E b \in Bufs : owner[b] = "free"
  /\ open' = open \ {h} /\ refused' = refused \ {h}
  /\ IF i = SOCKET_NOT_FOUND
     THEN /\ {"peer_close", "peer_close_busy"} \cap Happens # {}
          /\ UNCHANGED <<ctx, cust, bufVars>>
     ELSE /\ ctx[i].tcp # "listen"
          /\ \/ "peer_close_busy" \in Happens
             \/ "peer_close" \in Happens /\ Unused(i)
          /\ CloseEvent(i)
  /\ UNCHANGED <<user, inbox, zeroq, device>>

ListenEvent(h) ==
  LET i == find_socket_context(h) IN
  /\ chip # "down" /\ h \in open /\ i # SOCKET_NOT_FOUND /\ ctx[i].tcp = "listen"
  /\ \/ "incoming_busy" \in Happens
     \/ "incoming" \in Happens /\ Unused(i) /\ ctx[i].data = NoBuf
  /\ \E b \in Bufs : owner[b] = "free"
  /\ ctx' = [ctx EXCEPT ![i].result = TCP_CONNECTION_AVAILABLE,
                        ![i].mask = @ \ {"SOCK_LISTEN"}, ![i].from = Nobody]
  /\ unblock(i)
  /\ UNCHANGED <<user, targetVars, bufVars, restVars>>

Receive(h, b) ==
  LET i == find_socket_context(h) IN
  /\ chip # "down" /\ h \in open /\ owner[b] = "free" /\ "data" \in Happens
  /\ i # SOCKET_NOT_FOUND /\ ctx[i].tcp = "none" /\ ctx[i].mask = {}
  /\ ctx' = [ctx EXCEPT ![i].rx = @ \cup {b}]
  /\ owner' = [owner EXCEPT ![b] = "sock"]
  /\ unblock(i)
  /\ UNCHANGED <<user, targetVars, badFree, restVars>>

\* Api_recvfrom lends a queued packet to the application.
Api_recvfrom(h, b) ==
  LET i == find_socket_context(h) IN
  /\ i # SOCKET_NOT_FOUND /\ Unused(i) /\ b \in ctx[i].rx
  /\ ctx' = [ctx EXCEPT ![i].rx = @ \ {b}]
  /\ zeroq' = zeroq \cup {b}
  /\ UNCHANGED <<cust, user, targetVars, bufVars, refused, device>>

\* Api_select on a connection that is closed and read to its end.
Api_select(h) ==
  LET i == find_socket_context(h) IN
  /\ i # SOCKET_NOT_FOUND /\ Unused(i) /\ ~isSocketBlocked(i)
  /\ ctx[i].rx = {} /\ ctx[i].tcp = "fin"
  /\ clear_socket_context(i)
  /\ UNCHANGED <<cust, user, targetVars, owner, restVars>>

Next ==
  \/ \E u \in Users :
       \/ \E op \in Ops : Enter(u, op)
       \/ ListenRefused(u) \/ AcceptStored(u) \/ UserStep(u) \/ TimeLimit(u)
  \/ \E b \in zeroq : zero_copy_http_free(b)
  \/ \E k \in 1..MaxInbox, b \in Bufs, e \in Results : Answer(k, b, e)
  \/ \E h \in Handles : \/ PeerClose(h) \/ ListenEvent(h) \/ Api_select(h)
                        \/ \E b \in Bufs : Receive(h, b) \/ Api_recvfrom(h, b)
  \/ Suspend

Spec == Init /\ [][Next]_vars

-----------------------------------------------------------------------------
\* Every variable has its type, and the global context is never a socket's.
Requests == [cmd : STRING, h : Handles \cup {0}, s : Ssls \cup {0},
             user : Users, again : BOOLEAN, asked : BOOLEAN]

TypeOK ==
  /\ \A i \in Index :
       /\ ctx[i].handle \in Results /\ ctx[i].result \in Results
       /\ {ctx[i].data, ctx[i].pReq} \subseteq Bufs \cup {NoBuf}
       /\ ctx[i].ssl \in Ssls \cup {0} /\ ctx[i].tcp \in {"none", "listen", "fin"}
       /\ ctx[i].rx \subseteq Bufs
       /\ ctx[i].from \in Users \cup {Nobody}
  /\ ctx[GLOBAL_SOCK_INDEX].handle = EMPTY_SOCKET_CONTEXT
  /\ \A i \in Index, f \in DOMAIN NotBlocked : cust[i][f] \in BOOLEAN
  /\ \A u \in Users : user[u].pc \in {"idle", "claim", "send", "block",
                                       "wait", "finish"}
  /\ Len(inbox) <= MaxInbox /\ \A k \in DOMAIN inbox : inbox[k] \in Requests
  /\ open \subseteq Handles /\ refused \subseteq open /\ zeroq \subseteq Bufs
  /\ owner \in [Bufs -> {"free", "sock", "late"}]
  /\ badFree \in BOOLEAN
  /\ chip \in {"up", "storing", "down"}

\* A property that needs some hazards to be away names them.
Without(hazards) == Happens \cap hazards = {}

\* The connection of a call was closed by the peer after the call set its bit:
\* the bit went with the context.  No answer will be filed, and the call
\* blocks, or returns the result of an earlier one.
CutOff(u) == /\ user[u].index \in Socks
             /\ ctx[user[u].index].handle = EMPTY_SOCKET_CONTEXT

\* When a call's loop around BLOCK ends, the context holds the target's
\* answer to that call: not a later event, nor the answer to another one.
\* (Of calls that are not cut off; without a sharer, a late target and a
\* connection during an accept.)
AnswerIsForCall ==
  Without({"share", "late", "incoming_busy"}) => \A u \in Users :
    user[u].pc = "finish" /\ user[u].call.wait # "none" /\ ~CutOff(u) =>
      ctx[user[u].index].from = u

\* A task that is blocked, or about to, will be woken: while its bit is set
\* its command is with the target and the answer will be filed in the
\* context it waits on; once the bit is clear the wake-up is there.  (Of
\* calls that are not cut off; without a sharer.  Api_accept_ver1 takes a
\* failed accept for a socket: its context has the handle Api_socket waits on.)
WaiterIsOwedAnswer ==
  Without({"share", "accept_nb_error"}) =>
    \A u \in Users : user[u].pc \in {"block", "wait"} /\ ~CutOff(u) =>
    LET i == user[u].index IN
    IF user[u].call.cmd \in ctx[i].mask
    THEN \E k \in DOMAIN inbox :
           /\ inbox[k].user = u /\ Awaited(k) /\ ResponseIndex(inbox[k]) = i
    ELSE cust[i].respAvailable /\ (user[u].pc = "wait" => cust[i].event)

\* Every receive buffer out of the pool will be given back: the application
\* holds it, it is queued data, a call is about to use the answer in it, or
\* it is the answer to an accept that waits for accept_nb.  What may be lost
\* is the answer to a call that had returned at its time limit, or in its
\* stead the one whose place it takes.  (No task shares a socket, and none
\* uses or closes it while an answer is stored in it.)
BuffersAccounted ==
  Without({"share", "accept_mixed", "accept_closed"}) =>
  \A b \in Bufs : owner[b] = "sock" =>
    \/ b \in zeroq
    \/ \E i \in Socks : b \in ctx[i].rx
    \/ \E i \in Index :
         /\ ctx[i].pReq = b
         /\ \/ i \in Socks /\ ctx[i].data = b
            \/ \E u \in Users :
                 /\ user[u].pc \in {"block", "wait", "finish"}
                 /\ user[u].index = i
                 /\ user[u].call.then \in {"free", "getsockopt", "zero_copy",
                                          "accept"}

\* No buffer is freed twice, and none through the pointer to its payload.
\* (No socket is used or closed with an answer stored in it.)
FreedOnce == Without({"accept_mixed", "accept_closed"}) => ~badFree

\* Two sockets never have the same handle, so an event finds its socket.
\* (Without a sharer, and if the target does not give out the handle of a
\* closed connection the host still has; no accept_nb fails.)
HandlesDistinct ==
  Without({"share", "reuse", "accept_nb_error"}) =>
    \A i, j \in Socks : i # j /\ ctx[i].handle # EMPTY_SOCKET_CONTEXT =>
                          ctx[i].handle # ctx[j].handle

\* A socket the target has open can be reached and closed by the host: it
\* has a context, or its close is under way, or its accept is being taken.
\* The one kind that is lost is a connection whose accept found no empty
\* context and returned an error.  (Without a sharer, and no event and no
\* other command overwrites the result of an accept.)
NoOrphanSocket ==
  Without({"share", "incoming_busy", "accept_mixed", "accept_closed"}) =>
  \A h \in open \ refused :
    \/ \E i \in Socks : ctx[i].handle = h \/ HasAccepted(i, h)
    \/ \E k \in DOMAIN inbox : inbox[k].cmd = "SOCK_CLOSE" /\ inbox[k].h = h

(***************************************************************************)
(* A task that waits for an answer is owed one, and the one it takes is    *)
(* for its call.                                                           *)
(***************************************************************************)
AnswersRight == WaiterIsOwedAnswer /\ AnswerIsForCall

(***************************************************************************)
(* The table of socket contexts is sound: no two contexts have one handle, *)
(* and no answer's buffer is freed twice.                                  *)
(***************************************************************************)
ContextsSound == TypeOK /\ HandlesDistinct /\ FreedOnce

(***************************************************************************)
(* The target has no socket that the host lost track of, except one whose  *)
(* accept failed because the table was full, and every receive buffer is   *)
(* free, queued, lent or awaited, except one for each late answer to a     *)
(* call that gave up.                                                      *)
(***************************************************************************)
NothingLeaks == NoOrphanSocket /\ BuffersAccounted
=============================================================================
