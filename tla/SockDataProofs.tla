--------------------------- MODULE SockDataProofs ---------------------------
(***************************************************************************)
(* Proofs about SockData for every number of user tasks, sockets and       *)
(* receive buffers, and for every setting.                                 *)
(***************************************************************************)
EXTENDS SockData, QueueLemmas

(***************************************************************************)
(* What a user task is doing, as a record.                                 *)
(***************************************************************************)
SockPcs == {"purge", "clear", "forget", "block", "sleep", "look"}
SendPcs == {"txblock", "txsleep", "segment"}
Returns == {"none", "ok", "error", "invalid", "time out", "early", "sent"}
UserRec ==
  [pc : {"idle"}, ret : Returns] \cup [pc : SockPcs, sock : Socks]
  \cup [pc : SendPcs, sock : Socks, more : BOOLEAN]
  \cup [pc : {"blockSelect", "again"}, set : SUBSET Socks]
UserInv == user \in [Users -> UserRec] /\ setting \in Settings

(***************************************************************************)
(* A buffer is in one place: the pool, the application's hands, or with    *)
(* one socket, which has it in its queue, once, or half read; the last     *)
(* only where packets are read in part.                                    *)
(***************************************************************************)
PlaceInv ==
  /\ pool \cap zeroq = {}
  /\ \A i \in Socks : HeldBy(i) \cap (pool \cup zeroq) = {}
  /\ \A i, j \in Socks : i # j => HeldBy(i) \cap HeldBy(j) = {}
  /\ \A i \in Socks : ctx[i].old \notin Range(ctx[i].rxqueue)
  /\ \A i \in Socks : \A k, l \in DOMAIN ctx[i].rxqueue :
       ctx[i].rxqueue[k] = ctx[i].rxqueue[l] => k = l
  /\ \A b \in Bufs : \/ b \in pool \cup zeroq
                     \/ \E i \in Socks : b \in HeldBy(i)
  /\ \A i \in Socks : ctx[i].old # NoBuf => HalfRead(i)
  /\ "partial" \notin Happens => \A i \in Socks : ctx[i].old = NoBuf

(***************************************************************************)
(* A socket that is being closed stays open to the end, and one task       *)
(* closes it.  In orderly closes, where no data comes late and no packet   *)
(* is half read, what it holds is gone when its context is cleared.        *)
(***************************************************************************)
Orderly == /\ "late_data" \notin Happens
           /\ ~({"partial", "close_partial"} \subseteq Happens)
IsClosing(u) == user[u].pc \in {"purge", "clear"}
CloseInv ==
  /\ \A u \in Users : IsClosing(u) => ctx[user[u].sock].handle
  /\ \A u, v \in Users :
       IsClosing(u) /\ IsClosing(v) /\ user[u].sock = user[v].sock => u = v
  /\ Orderly =>
       \A u \in Users :
         /\ IsClosing(u) => ctx[user[u].sock].old = NoBuf
         /\ user[u].pc = "clear" => ctx[user[u].sock].rxqueue = <<>>

(***************************************************************************)
(* After orderly closes a closed socket holds nothing, and what an open    *)
(* one holds is of its present connection.                                 *)
(***************************************************************************)
FreshInv ==
  Orderly =>
    /\ \A i \in Socks : ~ctx[i].handle => HeldBy(i) = {}
    /\ \A i \in Socks : HeldBy(i) \subseteq fresh
    /\ got = "fresh"

(***************************************************************************)
(* One task sends on a socket; its packet is with the driver only while it *)
(* waits, and the socket's flag and event are up only when the packet is   *)
(* gone.  The event is set for a sleeper only.                             *)
(***************************************************************************)
Cust == [DOMAIN NotBlocked -> BOOLEAN]
Packet == [user : Users, sock : Socks]
SendTypes == cust \in [Socks -> Cust] /\ txq \in Seq(Packet) /\ sel \in BOOLEAN

Waits(u) == user[u].pc \in {"txblock", "txsleep"}
PlainSends == Happens \cap {"send_fails", "tx_late", "share"} = {}
SendInv ==
  PlainSends =>
    /\ \A u, v \in Users :
         Sending(u) /\ Sending(v) /\ user[u].sock = user[v].sock => u = v
    /\ \A k \in DOMAIN txq : /\ Waits(txq[k].user)
                             /\ user[txq[k].user].sock = txq[k].sock
    /\ \A k, l \in DOMAIN txq : txq[k].user = txq[l].user => k = l
    /\ \A i \in Socks : cust[i].txUnblocked \/ cust[i].txEvent =>
         /\ \E u \in Users : Waits(u) /\ user[u].sock = i
         /\ \A k \in DOMAIN txq : txq[k].sock # i
    /\ \A i \in Socks : cust[i].txBlock \/ cust[i].txEvent =>
         \E u \in Users : user[u].pc = "txsleep" /\ user[u].sock = i

(***************************************************************************)
(* Tasks do what their operations allow.                                   *)
(***************************************************************************)
OpsInv ==
  \A u \in Users :
    /\ IsClosing(u) => "shutdown" \in setting.ops[u]
    /\ user[u].pc = "blockSelect" => "select_ver1" \in setting.ops[u]

IInv == /\ TypeOK /\ UserInv /\ PlaceInv /\ CloseInv /\ FreshInv
        /\ SendTypes /\ SendInv /\ OpsInv /\ SelectorIsWoken

-----------------------------------------------------------------------------
(***************************************************************************)
(* The user tasks.                                                         *)
(***************************************************************************)
\* A task that is past the start of a call has the socket it is about.
LEMMA UserFacts ==
  ASSUME UserInv, NEW u \in Users
  PROVE  /\ user[u].pc \in SockPcs => user[u] \in [pc : SockPcs, sock : Socks]
         /\ user[u].pc \in SendPcs =>
              user[u] \in [pc : SendPcs, sock : Socks, more : BOOLEAN]
         /\ user[u].pc \in {"blockSelect", "again"} =>
              user[u] \in [pc : {"blockSelect", "again"}, set : SUBSET Socks]
BY DEF UserInv, UserRec, SockPcs, SendPcs

\* The records a task can be given.
LEMMA UserRecords ==
  /\ \A r \in Returns : Idle(r) \in UserRec
  /\ \A p \in SockPcs, i \in Socks : [pc |-> p, sock |-> i] \in UserRec
  /\ \A p \in SendPcs, i \in Socks, m \in BOOLEAN :
       [pc |-> p, sock |-> i, more |-> m] \in UserRec
  /\ \A p \in {"blockSelect", "again"}, S \in SUBSET Socks :
       [pc |-> p, set |-> S] \in UserRec
BY DEF Idle, UserRec

\* The steps of a task give it another of these records.
LEMMA UsersKept ==
  ASSUME UserInv, [Next]_vars
  PROVE  UserInv'
<1> USE DEF Returns, SockPcs, SendPcs
<1>1. ASSUME NEW u \in Users, NEW r \in UserRec,
             user' = [user EXCEPT ![u] = r], UNCHANGED setting
      PROVE  UserInv'
  BY <1>1 DEF UserInv
<1>2. ASSUME NEW u \in Users, UserStep(u) PROVE UserInv'
  <2>1. CASE PurgeAgain(u)
    <3>1. user[u].sock \in Socks
      BY <2>1, UserFacts DEF PurgeAgain
    <3> QED BY Zenon, <1>1, <2>1, <3>1, UserRecords DEF PurgeAgain, Purge, Goto
  <2>2. CASE ClearContext(u)
    BY Zenon, <1>1, <2>2, UserRecords DEF ClearContext, Return, Goto
  <2>3. CASE blockForDataRx(u)
    <3>1. [user[u] EXCEPT !.pc = "block"] \in UserRec
      BY Zenon, <2>3, UserFacts DEF blockForDataRx, UserRec
    <3> QED BY <1>1, <2>3, <3>1 DEF blockForDataRx, bufVars
  <2>4. CASE BlockRx(u)
    <3>1. /\ [user[u] EXCEPT !.pc = "look"] \in UserRec
          /\ [user[u] EXCEPT !.pc = "sleep"] \in UserRec
      BY Zenon, <2>4, UserFacts DEF BlockRx, UserRec
    <3> QED BY <1>1, <2>4, <3>1 DEF BlockRx, bufVars
  <2>5. CASE UnblockRx(u)
    <3>1. [user[u] EXCEPT !.pc = "look"] \in UserRec
      BY Zenon, <2>5, UserFacts DEF UnblockRx, UserRec
    <3> QED BY Zenon, <1>1, <2>5, <3>1, UserRecords DEF UnblockRx, bufVars
  <2>6. CASE SelectEnd(u)
    BY Zenon, <1>1, <2>6, UserRecords DEF SelectEnd, Return, Goto, bufVars
  <2>7. CASE blockSelect(u)
    <3>1. [user[u] EXCEPT !.pc = "again"] \in UserRec
      BY Zenon, <2>7, UserFacts DEF blockSelect, UserRec
    <3> QED BY Zenon, <1>1, <2>7, <3>1, UserRecords
            DEF blockSelect, Return, Goto, bufVars
  <2>8. CASE SelectAgain(u)
    BY Zenon, <1>1, <2>8, UserRecords DEF SelectAgain, Return, Goto, bufVars
  <2>9. CASE BlockTx(u)
    <3>1. user[u] \in [pc : SendPcs, sock : Socks, more : BOOLEAN]
      BY <2>9, UserFacts DEF BlockTx
    <3>2. /\ [user[u] EXCEPT !.pc = "segment"] \in UserRec
          /\ [user[u] EXCEPT !.pc = "txsleep"] \in UserRec
      BY Zenon, <3>1 DEF UserRec
    <3>3. AfterTx(u) \in UserRec
      BY Zenon, <3>2, UserRecords DEF AfterTx
    <3> QED BY <1>1, <2>9, <3>2, <3>3 DEF BlockTx, Goto, bufVars
  <2>10. CASE UnblockTx(u)
    <3>1. user[u] \in [pc : SendPcs, sock : Socks, more : BOOLEAN]
      BY <2>10, UserFacts DEF UnblockTx
    <3>2. [user[u] EXCEPT !.pc = "segment"] \in UserRec
      BY Zenon, <3>1 DEF UserRec
    <3>3. AfterTx(u) \in UserRec /\ Idle("error") \in UserRec
      BY Zenon, <3>2, UserRecords DEF AfterTx
    <3> QED BY <1>1, <2>10, <3>3 DEF UnblockTx, Goto, bufVars
  <2>11. CASE NextSegment(u)
    <3>1. user[u].sock \in Socks
      BY <2>11, UserFacts DEF NextSegment
    <3> QED BY Zenon, <1>1, <2>11, <3>1, UserRecords
            DEF NextSegment, custom_send_tcpip, Return, Goto, bufVars
  <2> QED BY <1>2, <2>1, <2>2, <2>3, <2>4, <2>5, <2>6, <2>7, <2>8, <2>9,
             <2>10, <2>11 DEF UserStep
<1>3. ASSUME NEW u \in Users, Calls(u) PROVE UserInv'
  <2> PICK i \in Socks :
        \/ \E l \in BOOLEAN : Api_socket(u, i, l)
        \/ Api_shutdown(u, i) \/ Api_select(u, i) \/ t_sendto(u, i)
        \/ Api_accept_ver1(u, i)
        \/ \E n \in 1..MAX_UNITS : Api_recvfrom(u, i, n)
    BY <1>3 DEF Calls
  <2>1. CASE \E l \in BOOLEAN : Api_socket(u, i, l)
    BY Zenon, <1>1, <2>1, UserRecords DEF Api_socket, Return, Goto, bufVars
  <2>2. CASE Api_shutdown(u, i)
    BY Zenon, <1>1, <2>2, UserRecords DEF Api_shutdown, Purge, Goto
  <2>3. CASE Api_select(u, i)
    <3>1. \E r \in UserRec : user' = [user EXCEPT ![u] = r]
      BY Zenon, <2>3, UserRecords DEF Api_select, Return, Goto
    <3> QED BY <1>1, <2>3, <3>1 DEF Api_select
  <2>4. CASE t_sendto(u, i)
    <3>1. \E r \in UserRec : user' = [user EXCEPT ![u] = r]
      BY Zenon, <2>4, UserRecords DEF t_sendto, custom_send_tcpip, Return, Goto
    <3> QED BY Zenon, <1>1, <2>4, <3>1 DEF t_sendto, bufVars
  <2>5. CASE \E n \in 1..MAX_UNITS : Api_recvfrom(u, i, n)
    <3>1. \E r \in UserRec : user' = [user EXCEPT ![u] = r]
      BY Zenon, <2>5, UserRecords DEF Api_recvfrom, Return, Goto
    <3> QED BY Zenon, <1>1, <2>5, <3>1 DEF Api_recvfrom
  <2>6. CASE Api_accept_ver1(u, i)
    BY Zenon, <1>1, <2>6, UserRecords
       DEF Api_accept_ver1, Return, Goto, bufVars
  <2> QED BY <2>1, <2>2, <2>3, <2>4, <2>5, <2>6
<1>4. ASSUME NEW u \in Users, NEW S \in SUBSET Socks, Api_select_ver1(u, S)
      PROVE  UserInv'
  BY Zenon, <1>1, <1>4, UserRecords DEF Api_select_ver1, Return, Goto, bufVars
<1>5. CASE \/ \E b \in Bufs : zero_copy_free(b)
           \/ txpkt_free \/ TargetStep \/ UNCHANGED vars
  <2>1. UNCHANGED <<user, setting>>
    BY <1>5 DEF zero_copy_free, txpkt_free, TargetStep, custom_receive_tcpip,
       PeerClose, Incoming, Command, bufVars, vars
  <2> QED BY <2>1 DEF UserInv
<1> QED BY <1>2, <1>3, <1>4, <1>5 DEF Next

-----------------------------------------------------------------------------
(***************************************************************************)
(* What a step does with the sockets and the receive buffers: nothing, or  *)
(* one of five things.  First, it changes flags of a context only: it      *)
(* opens the socket, closes it, or does neither.                           *)
(***************************************************************************)
Ctx == [handle : BOOLEAN, fin : BOOLEAN, listen : BOOLEAN, avail : BOOLEAN,
        data : BOOLEAN, mask : BOOLEAN, rxqueue : Seq(Bufs),
        old : Bufs \cup {NoBuf}, remaining : 0..MAX_UNITS]

BufTypes ==
  /\ ctx \in [Socks -> Ctx]
  /\ pool \subseteq Bufs /\ zeroq \subseteq Bufs /\ fresh \subseteq Bufs
  /\ units \in [Bufs -> 0..MAX_UNITS]
  /\ setting \in Settings

Untouched == UNCHANGED <<ctx, pool, zeroq, units, fresh, got>>

Marks(i, c) ==
  /\ ctx' = [ctx EXCEPT ![i] = c]
  /\ c.rxqueue = ctx[i].rxqueue /\ c.old = ctx[i].old
  /\ c.remaining = ctx[i].remaining
  /\ \/ c.handle /\ UNCHANGED fresh
     \/ ~c.handle /\ ~ctx[i].handle /\ UNCHANGED fresh
     \/ /\ ~c.handle /\ fresh' = FreshAfterClear(i)
        /\ Orderly => HeldBy(i) = {}
  /\ UNCHANGED <<pool, zeroq, units, got>>

\* It delivers a packet in buffer b to the queue of an open socket.
Receives(i, b, n) ==
  /\ ctx[i].handle
  /\ pool' = pool \ {b} /\ units' = [units EXCEPT ![b] = n]
  /\ fresh' = fresh \cup {b}
  /\ ctx' = [ctx EXCEPT ![i].rxqueue = Append(@, b)]
  /\ UNCHANGED <<zeroq, got>>

\* It reads from the half read packet, or the head of the queue: b is then
\* half read, or the application's.
Reads(i, b, q, o, n) ==
  /\ ctx[i].handle
  /\ \/ HalfRead(i) /\ b = ctx[i].old /\ q = ctx[i].rxqueue
     \/ /\ ~HalfRead(i) /\ ctx[i].rxqueue # <<>>
        /\ b = Head(ctx[i].rxqueue) /\ q = Tail(ctx[i].rxqueue)
  /\ ctx' = [ctx EXCEPT ![i].rxqueue = q, ![i].remaining = n, ![i].old = o]
  /\ \/ o = b /\ i \in Streams /\ n # 0 /\ UNCHANGED <<zeroq, fresh>>
     \/ o = NoBuf /\ zeroq' = zeroq \cup {b} /\ fresh' = fresh \ {b}
  /\ "partial" \notin Happens => o = NoBuf
  /\ units' \in [Bufs -> 0..MAX_UNITS]
  /\ got' = (IF b \in fresh THEN got ELSE "stale")
  /\ UNCHANGED pool

BufStep ==
  \/ Untouched
  \/ \E i \in Socks, c \in Ctx : Marks(i, c)
  \/ \E i \in Socks : Purge(i)
  \/ \E i \in Socks, b \in pool, n \in 1..MAX_UNITS : Receives(i, b, n)
  \/ \E i \in Socks, b \in Bufs, q \in Seq(Bufs), o \in Bufs \cup {NoBuf},
        n \in 0..MAX_UNITS : Reads(i, b, q, o, n)
  \/ \E b \in Bufs : zero_copy_free(b)

\* A context with some fields changed is a context.
LEMMA CtxChanges ==
  ASSUME NEW c \in Ctx
  PROVE  /\ \A x \in BOOLEAN :
              /\ [c EXCEPT !.fin = x] \in Ctx
              /\ [c EXCEPT !.avail = x] \in Ctx
              /\ [c EXCEPT !.mask = x] \in Ctx
              /\ [c EXCEPT !.data = x] \in Ctx
              /\ [c EXCEPT !.avail = FALSE, !.data = x] \in Ctx
              /\ [c EXCEPT !.handle = TRUE, !.listen = x,
                           !.avail = FALSE] \in Ctx
         /\ \A q \in Seq(Bufs) : [c EXCEPT !.rxqueue = q] \in Ctx
         /\ \A q \in Seq(Bufs), o \in Bufs \cup {NoBuf}, n \in 0..MAX_UNITS :
              [c EXCEPT !.rxqueue = q, !.remaining = n, !.old = o] \in Ctx
         /\ [c EXCEPT !.handle = FALSE, !.fin = FALSE, !.listen = FALSE,
                      !.data = FALSE, !.mask = FALSE] \in Ctx
BY Zenon DEF Ctx

\* What is held is of type buffer.
LEMMA HeldAreBufs ==
  ASSUME BufTypes, NEW i \in Socks
  PROVE  HeldBy(i) \subseteq Bufs
<1>1. ctx[i].rxqueue \in Seq(Bufs) /\ ctx[i].old \in Bufs \cup {NoBuf}
  BY DEF BufTypes, Ctx
<1>2. Range(ctx[i].rxqueue) \subseteq Bufs
  BY <1>1 DEF Range
<1> QED BY <1>1, <1>2 DEF HeldBy

\* Flags of a context say nothing of the buffers it holds.
LEMMA MarkKeeps ==
  ASSUME BufTypes, PlaceInv, FreshInv, UNCHANGED setting,
         NEW i \in Socks, NEW c \in Ctx, Marks(i, c)
  PROVE  BufTypes' /\ PlaceInv' /\ FreshInv'
<1>1. /\ ctx \in [Socks -> Ctx] /\ ctx' \in [Socks -> Ctx] /\ ctx'[i] = c
      /\ \A j \in Socks : j # i => ctx'[j] = ctx[j]
  BY DEF BufTypes, Marks
<1>2. \A j \in Socks : /\ ctx'[j].rxqueue = ctx[j].rxqueue
                       /\ ctx'[j].old = ctx[j].old
                       /\ ctx'[j].remaining = ctx[j].remaining
  BY <1>1 DEF Marks
<1>3. \A j \in Socks : HeldBy(j)' = HeldBy(j) /\ HalfRead(j)' = HalfRead(j)
  BY <1>2 DEF HeldBy, HalfRead
<1>4. fresh' \subseteq fresh /\ UNCHANGED <<pool, zeroq, units, got>>
  BY DEF Marks, FreshAfterClear
<1>5. BufTypes'
  BY <1>1, <1>4 DEF BufTypes
<1>6. PlaceInv'
  BY <1>2, <1>3, <1>4 DEF PlaceInv, Happens
<1>7. FreshInv'
  <2> SUFFICES ASSUME Orderly
               PROVE  /\ \A j \in Socks : ~ctx'[j].handle => HeldBy(j) = {}
                      /\ \A j \in Socks : HeldBy(j) \subseteq fresh'
                      /\ got = "fresh"
    BY <1>3, <1>4 DEF FreshInv, Orderly, Happens
  <2>1. /\ \A j \in Socks : ~ctx[j].handle => HeldBy(j) = {}
        /\ \A j \in Socks : HeldBy(j) \subseteq fresh
        /\ got = "fresh"
    BY DEF FreshInv
  <2>2. CASE fresh' = fresh /\ (c.handle \/ ~ctx[i].handle)
    BY <1>1, <2>1, <2>2
  <2>3. CASE fresh' = FreshAfterClear(i) /\ HeldBy(i) = {}
    BY <1>1, <2>1, <2>3 DEF FreshAfterClear
  <2> QED BY <2>2, <2>3 DEF Marks
<1> QED BY <1>5, <1>6, <1>7

\* A buffer given back was in no socket.
LEMMA FreeKeeps ==
  ASSUME BufTypes, PlaceInv, FreshInv, NEW b \in Bufs, zero_copy_free(b)
  PROVE  BufTypes' /\ PlaceInv' /\ FreshInv'
<1>1. /\ UNCHANGED <<ctx, units, fresh, got, setting>>
      /\ b \in zeroq /\ zeroq' = zeroq \ {b} /\ pool' = pool \cup {b}
  BY DEF zero_copy_free
<1>2. \A j \in Socks : HeldBy(j)' = HeldBy(j) /\ HalfRead(j)' = HalfRead(j)
  BY <1>1 DEF HeldBy, HalfRead
<1>3. BufTypes' /\ FreshInv'
  BY <1>1, <1>2 DEF BufTypes, FreshInv, Orderly, Happens
<1>4. PlaceInv'
  BY <1>1, <1>2 DEF PlaceInv, Happens
<1> QED BY <1>3, <1>4

\* A purge returns what the queue held to the pool.
LEMMA PurgeKeeps ==
  ASSUME BufTypes, PlaceInv, FreshInv, NEW i \in Socks, Purge(i)
  PROVE  BufTypes' /\ PlaceInv' /\ FreshInv'
<1> DEFINE R == Range(ctx[i].rxqueue)
<1>1. ctx \in [Socks -> Ctx] /\ ctx[i] \in Ctx /\ <<>> \in Seq(Bufs)
  BY DEF BufTypes
<1>2. /\ ctx' = [ctx EXCEPT ![i] = [ctx[i] EXCEPT !.rxqueue = <<>>]]
      /\ pool' = pool \cup R /\ fresh' = fresh \ R
      /\ UNCHANGED <<zeroq, units, got, setting>>
  BY DEF Purge
<1>3. [ctx[i] EXCEPT !.rxqueue = <<>>] \in Ctx
  BY Zenon, <1>1, CtxChanges
<1>4. /\ ctx' \in [Socks -> Ctx]
      /\ \A j \in Socks : j # i => ctx'[j] = ctx[j]
      /\ ctx'[i].rxqueue = <<>> /\ ctx'[i].old = ctx[i].old
      /\ ctx'[i].remaining = ctx[i].remaining /\ ctx'[i].handle = ctx[i].handle
  BY <1>1, <1>2, <1>3 DEF Ctx
<1>5. R \subseteq Bufs /\ R \subseteq HeldBy(i)
  BY HeldAreBufs DEF HeldBy
<1>6. BufTypes'
  BY <1>2, <1>4, <1>5 DEF BufTypes
<1>7. /\ \A j \in Socks : j # i => HeldBy(j)' = HeldBy(j)
      /\ HeldBy(i)' = {ctx[i].old} \ {NoBuf}
      /\ HeldBy(i) = R \cup ({ctx[i].old} \ {NoBuf})
      /\ \A j \in Socks : HalfRead(j)' = HalfRead(j)
  <2>1. Range(<<>>) = {}
    BY DEF Range
  <2> QED BY <1>4, <2>1 DEF HeldBy, HalfRead
<1>8. PlaceInv'
  <2>1. /\ pool' \cap zeroq' = {}
        /\ \A j \in Socks : HeldBy(j)' \cap (pool' \cup zeroq') = {}
    BY <1>2, <1>5, <1>7 DEF PlaceInv
  <2>2. \A j, k \in Socks : j # k => HeldBy(j)' \cap HeldBy(k)' = {}
    BY <1>7 DEF PlaceInv
  <2>3. \A j \in Socks :
          /\ ctx'[j].old \notin Range(ctx'[j].rxqueue)
          /\ \A k, l \in DOMAIN ctx'[j].rxqueue :
               ctx'[j].rxqueue[k] = ctx'[j].rxqueue[l] => k = l
    BY <1>4 DEF PlaceInv, Range
  <2>4. \A b \in Bufs : \/ b \in pool' \cup zeroq'
                        \/ \E j \in Socks : b \in HeldBy(j)'
    BY <1>2, <1>7 DEF PlaceInv
  <2>5. \A j \in Socks : ctx'[j].old # NoBuf => HalfRead(j)'
    BY <1>4, <1>7 DEF PlaceInv
  <2>6. "partial" \notin Happens' => \A j \in Socks : ctx'[j].old = NoBuf
    BY <1>2, <1>4 DEF PlaceInv, Happens
  <2> QED BY <2>1, <2>2, <2>3, <2>4, <2>5, <2>6 DEF PlaceInv
<1>9. FreshInv'
  <2> SUFFICES ASSUME Orderly
               PROVE  /\ \A j \in Socks : ~ctx'[j].handle => HeldBy(j)' = {}
                      /\ \A j \in Socks : HeldBy(j)' \subseteq fresh'
                      /\ got' = "fresh"
    BY <1>2 DEF FreshInv, Orderly, Happens
  <2>1. /\ \A j \in Socks : ~ctx[j].handle => HeldBy(j) = {}
        /\ \A j \in Socks : HeldBy(j) \subseteq fresh
        /\ got = "fresh"
    BY DEF FreshInv
  <2>2. \A j \in Socks : HeldBy(j)' \cap R = {}
    BY <1>5, <1>7 DEF PlaceInv
  <2> QED BY <1>2, <1>4, <1>7, <2>1, <2>2
<1> QED BY <1>6, <1>8, <1>9

\* A packet put at the end of a queue joins those in it.
LEMMA AppendRange ==
  ASSUME NEW q \in Seq(Bufs), NEW b \in Bufs, b \notin Range(q),
         \A k, l \in DOMAIN q : q[k] = q[l] => k = l
  PROVE  /\ Append(q, b) \in Seq(Bufs)
         /\ Range(Append(q, b)) = Range(q) \cup {b}
         /\ \A k, l \in DOMAIN Append(q, b) :
              Append(q, b)[k] = Append(q, b)[l] => k = l
<1> DEFINE t == Append(q, b)
<1>1. /\ t \in Seq(Bufs) /\ Len(q) \in Nat
      /\ DOMAIN q = 1..Len(q) /\ DOMAIN t = 1..(Len(q) + 1)
      /\ t[Len(q) + 1] = b /\ \A k \in 1..Len(q) : t[k] = q[k]
  OBVIOUS
<1> HIDE DEF t
<1>2. \A k \in DOMAIN t : k \in DOMAIN q \/ k = Len(q) + 1
  BY <1>1
<1>3. DOMAIN q \subseteq DOMAIN t /\ Len(q) + 1 \in DOMAIN t
  BY <1>1
<1>4. Range(t) = Range(q) \cup {b}
  BY <1>1, <1>2, <1>3 DEF Range
<1>5. \A k, l \in DOMAIN t : t[k] = t[l] => k = l
  BY <1>1, <1>2 DEF Range
<1> QED BY <1>1, <1>4, <1>5 DEF t

\* A packet received goes from the pool to the end of one queue.
LEMMA ReceiveKeeps ==
  ASSUME BufTypes, PlaceInv, FreshInv, UNCHANGED setting, NEW i \in Socks,
         NEW b \in pool, NEW n \in 1..MAX_UNITS, Receives(i, b, n)
  PROVE  BufTypes' /\ PlaceInv' /\ FreshInv'
<1> DEFINE q == ctx[i].rxqueue
           c == [ctx[i] EXCEPT !.rxqueue = Append(q, b)]
<1>1. /\ ctx \in [Socks -> Ctx] /\ ctx[i] \in Ctx /\ q \in Seq(Bufs)
      /\ b \in Bufs
  BY DEF BufTypes, Ctx
<1>2. /\ b \notin zeroq /\ \A j \in Socks : b \notin HeldBy(j)
      /\ b \notin Range(q)
  BY DEF PlaceInv, HeldBy
<1>3. /\ Append(q, b) \in Seq(Bufs) /\ Range(Append(q, b)) = Range(q) \cup {b}
      /\ \A k, l \in DOMAIN Append(q, b) :
           Append(q, b)[k] = Append(q, b)[l] => k = l
  <2>1. \A k, l \in DOMAIN q : q[k] = q[l] => k = l
    BY DEF PlaceInv
  <2> HIDE DEF q, c
  <2> QED BY <1>1, <1>2, <2>1, AppendRange
<1>4. c \in Ctx /\ ctx' = [ctx EXCEPT ![i] = c]
  BY Zenon, <1>1, <1>3, CtxChanges DEF Receives
<1>5. /\ ctx' \in [Socks -> Ctx]
      /\ \A j \in Socks : j # i => ctx'[j] = ctx[j]
      /\ ctx'[i].rxqueue = Append(q, b) /\ ctx'[i].old = ctx[i].old
      /\ ctx'[i].remaining = ctx[i].remaining /\ ctx'[i].handle = ctx[i].handle
  BY <1>1, <1>4 DEF Ctx
<1>6. /\ pool' = pool \ {b} /\ fresh' = fresh \cup {b}
      /\ units' = [units EXCEPT ![b] = n]
      /\ UNCHANGED <<zeroq, got>> /\ ctx[i].handle
  BY DEF Receives
<1>7. /\ \A j \in Socks : j # i => HeldBy(j)' = HeldBy(j)
      /\ HeldBy(i)' = HeldBy(i) \cup {b}
      /\ \A j \in Socks : HalfRead(j)' = HalfRead(j)
  BY <1>3, <1>5 DEF HeldBy, HalfRead
<1> HIDE DEF q, c
<1>8. BufTypes'
  <2>1. units' \in [Bufs -> 0..MAX_UNITS]
    BY <1>1, <1>6 DEF BufTypes, MAX_UNITS
  <2> QED BY <1>1, <1>5, <1>6, <2>1 DEF BufTypes
<1>9. PlaceInv'
  <2>1. /\ pool' \cap zeroq' = {}
        /\ \A j \in Socks : HeldBy(j)' \cap (pool' \cup zeroq') = {}
    BY <1>2, <1>6, <1>7 DEF PlaceInv
  <2>2. \A j, k \in Socks : j # k => HeldBy(j)' \cap HeldBy(k)' = {}
    BY <1>2, <1>7 DEF PlaceInv
  <2>3. \A j \in Socks :
          \A k, l \in DOMAIN ctx'[j].rxqueue :
            ctx'[j].rxqueue[k] = ctx'[j].rxqueue[l] => k = l
    BY <1>3, <1>5 DEF PlaceInv
  <2>4. \A b2 \in Bufs : \/ b2 \in pool' \cup zeroq'
                         \/ \E j \in Socks : b2 \in HeldBy(j)'
    BY <1>6, <1>7 DEF PlaceInv
  <2>5. \A j \in Socks : ctx'[j].old # NoBuf => HalfRead(j)'
    BY <1>5, <1>7 DEF PlaceInv
  <2>6. \A j \in Socks : ctx'[j].old \notin Range(ctx'[j].rxqueue)
    <3>1. ctx[i].old # b
      BY <1>1, <1>2, BufAssumption DEF HeldBy
    <3> QED BY <1>3, <1>5, <3>1 DEF PlaceInv, q
  <2>7. "partial" \notin Happens' => \A j \in Socks : ctx'[j].old = NoBuf
    BY <1>5 DEF PlaceInv, Happens
  <2> QED BY <2>1, <2>2, <2>3, <2>4, <2>5, <2>6, <2>7 DEF PlaceInv
<1>10. FreshInv'
  BY <1>5, <1>6, <1>7 DEF FreshInv, Orderly, Happens
<1> QED BY <1>8, <1>9, <1>10

\* A packet read goes from its socket to the application, or stays with the
\* socket as the one half read.
LEMMA ReadKeeps ==
  ASSUME BufTypes, PlaceInv, FreshInv, UNCHANGED setting, NEW i \in Socks,
         NEW b \in Bufs, NEW q \in Seq(Bufs), NEW o \in Bufs \cup {NoBuf},
         NEW n \in 0..MAX_UNITS, Reads(i, b, q, o, n)
  PROVE  BufTypes' /\ PlaceInv' /\ FreshInv'
<1> DEFINE s == ctx[i].rxqueue
           c == [ctx[i] EXCEPT !.rxqueue = q, !.remaining = n, !.old = o]
<1>1. /\ ctx \in [Socks -> Ctx] /\ ctx[i] \in Ctx /\ s \in Seq(Bufs)
      /\ ctx[i].old \in Bufs \cup {NoBuf}
  BY DEF BufTypes, Ctx
<1>2. c \in Ctx /\ ctx' = [ctx EXCEPT ![i] = c]
  BY Zenon, <1>1, CtxChanges DEF Reads
<1>3. /\ ctx' \in [Socks -> Ctx]
      /\ \A j \in Socks : j # i => ctx'[j] = ctx[j]
      /\ ctx'[i].rxqueue = q /\ ctx'[i].old = o
      /\ ctx'[i].remaining = n /\ ctx'[i].handle = ctx[i].handle
  BY <1>1, <1>2 DEF Ctx
<1>4. \A k, l \in DOMAIN s : s[k] = s[l] => k = l
  BY DEF PlaceInv
<1>5. /\ \A k, l \in DOMAIN q : q[k] = q[l] => k = l
      /\ b \notin Range(q) /\ b \in HeldBy(i)
      /\ HeldBy(i) = Range(q) \cup {b}
  <2>1. CASE HalfRead(i) /\ b = ctx[i].old /\ q = s
    BY <1>4, <2>1, BufAssumption DEF HeldBy, PlaceInv, HalfRead
  <2>2. CASE ~HalfRead(i) /\ s # <<>> /\ b = Head(s) /\ q = Tail(s)
    <3>1. ctx[i].old = NoBuf
      BY <2>2 DEF PlaceInv
    <3>2. HeldBy(i) = Range(s)
      BY <1>1, <3>1, BufAssumption DEF HeldBy, PlaceInv
    <3> HIDE DEF s
    <3>3. /\ \A k, l \in DOMAIN q : q[k] = q[l] => k = l
          /\ \E k \in DOMAIN s : s[k] = b
          /\ \A x : (\E k \in DOMAIN q : q[k] = x)
                      <=> (\E k \in DOMAIN s : s[k] = x) /\ x # b
      <4>1. /\ s \in Seq(Bufs) /\ s # <<>>
            /\ \A k, l \in DOMAIN s : s[k] = s[l] => k = l
        BY <1>1, <1>4, <2>2
      <4>2. /\ \E k \in DOMAIN s : s[k] = Head(s)
            /\ \A x : (\E k \in DOMAIN Tail(s) : Tail(s)[k] = x)
                        <=> (\E k \in DOMAIN s : s[k] = x) /\ x # Head(s)
            /\ \A k, l \in DOMAIN Tail(s) : Tail(s)[k] = Tail(s)[l] => k = l
        BY <4>1, TailElements
      <4> QED BY <2>2, <4>2
    <3>4. \A x : /\ x \in Range(s) <=> \E k \in DOMAIN s : s[k] = x
                 /\ x \in Range(q) <=> \E k \in DOMAIN q : q[k] = x
      BY DEF Range
    <3>5. /\ b \in Range(s) /\ b \notin Range(q)
          /\ \A x : x \in Range(s) <=> x \in Range(q) \cup {b}
      BY <3>3, <3>4
    <3> QED BY <3>2, <3>3, <3>5
  <2> QED BY <2>1, <2>2 DEF Reads
<1>6. /\ HeldBy(i)' = Range(q) \cup ({o} \ {NoBuf})
      /\ \A j \in Socks : j # i => HeldBy(j)' = HeldBy(j)
      /\ \A j \in Socks : j # i => HalfRead(j)' = HalfRead(j)
  BY <1>3 DEF HeldBy, HalfRead
<1>7. /\ UNCHANGED pool /\ units' \in [Bufs -> 0..MAX_UNITS]
      /\ \/ o = b /\ i \in Streams /\ n # 0 /\ UNCHANGED <<zeroq, fresh>>
         \/ o = NoBuf /\ zeroq' = zeroq \cup {b} /\ fresh' = fresh \ {b}
      /\ got' = (IF b \in fresh THEN got ELSE "stale") /\ ctx[i].handle
      /\ "partial" \notin Happens => o = NoBuf
  BY DEF Reads
<1> HIDE DEF s, c
<1>8. BufTypes'
  BY <1>3, <1>7 DEF BufTypes
<1>9. NoBuf \notin Bufs /\ NoBuf # b /\ NoBuf \notin Range(q)
  BY BufAssumption DEF Range
<1>10. PlaceInv'
  <2>1. /\ pool' \cap zeroq' = {}
        /\ \A j \in Socks : HeldBy(j)' \cap (pool' \cup zeroq') = {}
    BY <1>5, <1>6, <1>7, <1>9 DEF PlaceInv
  <2>2. \A j, k \in Socks : j # k => HeldBy(j)' \cap HeldBy(k)' = {}
    <3>1. HeldBy(i)' \subseteq HeldBy(i)
      BY <1>5, <1>6, <1>7
    <3> QED BY <1>6, <3>1 DEF PlaceInv
  <2>3. \A j \in Socks :
          /\ \A k, l \in DOMAIN ctx'[j].rxqueue :
               ctx'[j].rxqueue[k] = ctx'[j].rxqueue[l] => k = l
          /\ ctx'[j].old \notin Range(ctx'[j].rxqueue)
    BY <1>3, <1>5, <1>7, <1>9 DEF PlaceInv
  <2>4. \A b2 \in Bufs : \/ b2 \in pool' \cup zeroq'
                         \/ \E j \in Socks : b2 \in HeldBy(j)'
    BY <1>5, <1>6, <1>7, <1>9 DEF PlaceInv
  <2>5. \A j \in Socks : ctx'[j].old # NoBuf => HalfRead(j)'
    <3>1. o # NoBuf => HalfRead(i)'
      BY <1>3, <1>7 DEF HalfRead
    <3> QED BY <1>3, <1>6, <3>1 DEF PlaceInv
  <2>6. "partial" \notin Happens' => \A j \in Socks : ctx'[j].old = NoBuf
    BY <1>3, <1>7 DEF PlaceInv, Happens
  <2> QED BY <2>1, <2>2, <2>3, <2>4, <2>5, <2>6 DEF PlaceInv
<1>11. FreshInv'
  <2> SUFFICES ASSUME Orderly
               PROVE  /\ \A j \in Socks : ~ctx'[j].handle => HeldBy(j)' = {}
                      /\ \A j \in Socks : HeldBy(j)' \subseteq fresh'
                      /\ got' = "fresh"
    BY DEF FreshInv, Orderly, Happens
  <2>1. /\ \A j \in Socks : ~ctx[j].handle => HeldBy(j) = {}
        /\ \A j \in Socks : HeldBy(j) \subseteq fresh
        /\ got = "fresh" /\ b \in fresh
    BY <1>5 DEF FreshInv
  <2>2. \A j \in Socks : j # i => b \notin HeldBy(j)
    BY <1>5 DEF PlaceInv
  <2>3. HeldBy(i)' \subseteq fresh'
    BY <1>5, <1>6, <1>7, <1>9, <2>1
  <2>4. \A j \in Socks : HeldBy(j)' \subseteq fresh'
    BY <1>6, <1>7, <2>1, <2>2, <2>3
  <2>5. \A j \in Socks : ~ctx'[j].handle => HeldBy(j)' = {}
    BY <1>3, <1>6, <1>7, <2>1
  <2> QED BY <1>7, <2>1, <2>4, <2>5
<1> QED BY <1>8, <1>10, <1>11

(***************************************************************************)
(* The actions, seen as such steps.  Api_recvfrom reads in one of three    *)
(* ways: a stream in part, a stream to the end of its packet, a datagram.  *)
(***************************************************************************)
LEMMA ReadIsStep ==
  ASSUME BufTypes, PlaceInv, NEW u \in Users, NEW i \in Socks,
         NEW n \in 1..MAX_UNITS, Api_recvfrom(u, i, n)
  PROVE  BufStep
<1> DEFINE b == IF HalfRead(i) THEN ctx[i].old ELSE Head(ctx[i].rxqueue)
           q == IF HalfRead(i) THEN ctx[i].rxqueue ELSE Tail(ctx[i].rxqueue)
           r == ReadFrom(i, b, n)
<1>1. /\ ctx \in [Socks -> Ctx] /\ ctx[i] \in Ctx
      /\ ctx[i].rxqueue \in Seq(Bufs) /\ ctx[i].old \in Bufs \cup {NoBuf}
      /\ ctx[i].remaining \in 0..MAX_UNITS
  BY DEF BufTypes, Ctx
<1>2. CASE ~HalfRead(i) /\ QUEUE_EMPTY(i)
  BY <1>2 DEF Api_recvfrom, BufStep, Untouched
<1>3. CASE HalfRead(i) \/ ~QUEUE_EMPTY(i)
  <2>1. b \in Bufs /\ q \in Seq(Bufs)
    BY <1>1, <1>3 DEF HalfRead, QUEUE_EMPTY
  <2>2. units \in [Bufs -> 0..MAX_UNITS]
    BY DEF BufTypes
  <2>3. /\ ctx' = [ctx EXCEPT ![i].rxqueue = q, ![i].remaining = r.remaining,
                              ![i].old = r.old]
        /\ IF i \in Streams /\ r.remaining # 0
           THEN /\ units' = [units EXCEPT ![b] = r.remaining]
                /\ UNCHANGED zeroq
           ELSE units' = [units EXCEPT ![b] = 0] /\ zeroq' = zeroq \cup {b}
        /\ got' = (IF b \in fresh THEN got ELSE "stale")
        /\ fresh' = (IF r.old = b THEN fresh ELSE fresh \ {b})
        /\ ctx[i].handle /\ UNCHANGED pool
    BY <1>3, Zenon DEF Api_recvfrom
  <2>4. \/ HalfRead(i) /\ b = ctx[i].old /\ q = ctx[i].rxqueue
        \/ /\ ~HalfRead(i) /\ ctx[i].rxqueue # <<>>
           /\ b = Head(ctx[i].rxqueue) /\ q = Tail(ctx[i].rxqueue)
    BY <1>3 DEF QUEUE_EMPTY
  <2>5. /\ r.remaining \in 0..MAX_UNITS
        /\ \/ i \in Streams /\ r.remaining # 0 /\ r.old = b
           \/ (i \in Streams => r.remaining = 0) /\ r.old = NoBuf
    <3>1. i \notin Streams => ctx[i].old = NoBuf
      BY DEF PlaceInv, HalfRead
    <3> HIDE DEF b
    <3> QED BY <1>1, <2>1, <2>2, <3>1 DEF ReadFrom, MAX_UNITS
  <2>6. "partial" \notin Happens => r.old = NoBuf
    <3>1. units[b] \in 0..MAX_UNITS
      BY <2>1, <2>2
    <3>2. "partial" \notin Happens => ~(units[b] > n) /\ ctx[i].old = NoBuf
      <4>1. "partial" \notin Happens => ctx[i].old = NoBuf
        BY DEF PlaceInv
      <4>2. "partial" \notin Happens => n = MAX_UNITS
        <5>1. n < MAX_UNITS => "partial" \in Happens
          BY Zenon DEF Api_recvfrom
        <5> QED BY <5>1 DEF MAX_UNITS
      <4> HIDE DEF b
      <4> QED BY <3>1, <4>1, <4>2 DEF MAX_UNITS
    <3> HIDE DEF b
    <3> QED BY <3>2 DEF ReadFrom
  <2> HIDE DEF b, q, r
  <2>7. b # NoBuf /\ 0 \in 0..MAX_UNITS
    BY <2>1, BufAssumption DEF MAX_UNITS
  <2>8. units' \in [Bufs -> 0..MAX_UNITS]
    BY <2>2, <2>3, <2>5, <2>7
  <2>9. Reads(i, b, q, r.old, r.remaining)
    BY <2>3, <2>4, <2>5, <2>7, <2>8, <2>6 DEF Reads
  <2>10. r.old \in Bufs \cup {NoBuf}
    BY <2>1, <2>5
  <2> QED BY <2>1, <2>5, <2>9, <2>10 DEF BufStep
<1> QED BY <1>2, <1>3

\* Opening, closing and events change flags of a context.
LEMMA MarksIsStep ==
  ASSUME BufTypes, NEW i \in Socks, NEW c \in Ctx,
         ctx' = [ctx EXCEPT ![i] = c],
         c.rxqueue = ctx[i].rxqueue, c.old = ctx[i].old,
         c.remaining = ctx[i].remaining,
         \/ c.handle /\ UNCHANGED fresh
         \/ ~c.handle /\ ~ctx[i].handle /\ UNCHANGED fresh
         \/ /\ ~c.handle /\ fresh' = FreshAfterClear(i)
            /\ Orderly => HeldBy(i) = {},
         UNCHANGED <<pool, zeroq, units, got>>
  PROVE  BufStep
BY DEF BufStep, Marks

\* So does clear_socket_context,
LEMMA ClearIsStep ==
  ASSUME BufTypes, NEW i \in Socks,
         ctx' = [ctx EXCEPT ![i] = clear_socket_context(i)],
         fresh' = FreshAfterClear(i), Orderly => HeldBy(i) = {},
         UNCHANGED <<pool, zeroq, units, got>>
  PROVE  BufStep
<1> DEFINE c == clear_socket_context(i)
<1>1. ctx[i] \in Ctx
  BY DEF BufTypes
<1>2. c \in Ctx
  BY Zenon, <1>1, CtxChanges DEF clear_socket_context
<1>3. /\ c.rxqueue = ctx[i].rxqueue /\ c.old = ctx[i].old
      /\ c.remaining = ctx[i].remaining /\ ~c.handle
  BY <1>1 DEF Ctx, clear_socket_context
<1> HIDE DEF c
<1> QED BY <1>2, <1>3, MarksIsStep DEF c

\* and so does a step that sets one flag, or opens the socket.
LEMMA FlagIsStep ==
  ASSUME BufTypes, NEW i \in Socks,
         \E x \in BOOLEAN :
           \/ ctx' = [ctx EXCEPT ![i].fin = x]
           \/ ctx' = [ctx EXCEPT ![i].avail = x]
           \/ ctx' = [ctx EXCEPT ![i].mask = x]
           \/ ctx' = [ctx EXCEPT ![i].data = x]
           \/ ctx' = [ctx EXCEPT ![i].avail = FALSE, ![i].data = x]
           \/ ctx' = [ctx EXCEPT ![i].handle = TRUE, ![i].listen = x,
                                 ![i].avail = FALSE],
         UNCHANGED <<pool, zeroq, units, fresh, got>>
  PROVE  BufStep
<1>1. PICK x \in BOOLEAN :
           \/ ctx' = [ctx EXCEPT ![i].fin = x]
           \/ ctx' = [ctx EXCEPT ![i].avail = x]
           \/ ctx' = [ctx EXCEPT ![i].mask = x]
           \/ ctx' = [ctx EXCEPT ![i].data = x]
           \/ ctx' = [ctx EXCEPT ![i].avail = FALSE, ![i].data = x]
           \/ ctx' = [ctx EXCEPT ![i].handle = TRUE, ![i].listen = x,
                                 ![i].avail = FALSE]
  BY Zenon
<1>2. ctx[i] \in Ctx
  BY DEF BufTypes
<1> DEFINE c1 == [ctx[i] EXCEPT !.fin = x]
           c2 == [ctx[i] EXCEPT !.avail = x]
           c3 == [ctx[i] EXCEPT !.mask = x]
           c5 == [ctx[i] EXCEPT !.data = x]
           c6 == [ctx[i] EXCEPT !.avail = FALSE, !.data = x]
           c4 == [ctx[i] EXCEPT !.handle = TRUE, !.listen = x, !.avail = FALSE]
<1>3. \A c \in {c1, c2, c3, c5, c6} :
        /\ c \in Ctx
        /\ c.rxqueue = ctx[i].rxqueue /\ c.old = ctx[i].old
        /\ c.remaining = ctx[i].remaining /\ c.handle = ctx[i].handle
  BY <1>2 DEF Ctx
<1>4. /\ c4 \in Ctx
      /\ c4.rxqueue = ctx[i].rxqueue /\ c4.old = ctx[i].old
      /\ c4.remaining = ctx[i].remaining /\ c4.handle
  BY <1>2 DEF Ctx
<1>5. PICK c \in {c1, c2, c3, c4, c5, c6} : ctx' = [ctx EXCEPT ![i] = c]
  <2>1. CASE ctx' = [ctx EXCEPT ![i].fin = x]
    BY <2>1
  <2>2. CASE ctx' = [ctx EXCEPT ![i].avail = x]
    BY <2>2
  <2>3. CASE ctx' = [ctx EXCEPT ![i].mask = x]
    BY <2>3
  <2>4. CASE ctx' = [ctx EXCEPT ![i].handle = TRUE, ![i].listen = x,
                                ![i].avail = FALSE]
    BY <2>4
  <2>5. CASE ctx' = [ctx EXCEPT ![i].data = x]
    BY <2>5
  <2>6. CASE ctx' = [ctx EXCEPT ![i].avail = FALSE, ![i].data = x]
    BY <2>6
  <2> QED BY Zenon, <1>1, <2>1, <2>2, <2>3, <2>4, <2>5, <2>6
<1> HIDE DEF c1, c2, c3, c4, c5, c6
<1> QED BY <1>3, <1>4, <1>5, MarksIsStep

\* Every step is one of these; a context is cleared when it holds nothing,
\* if closes are orderly.
LEMMA StepsAreBufSteps ==
  ASSUME BufTypes, UserInv, PlaceInv, CloseInv, [Next]_vars
  PROVE  BufStep
<1>1. ASSUME NEW i \in Socks, ctx[i].rxqueue = <<>>, ctx[i].old = NoBuf
      PROVE  HeldBy(i) = {}
  BY <1>1 DEF HeldBy, Range
<1>2. ASSUME NEW u \in Users, UserStep(u) PROVE BufStep
  <2>1. CASE PurgeAgain(u)
    <3>1. user[u].sock \in Socks
      BY <2>1, UserFacts DEF PurgeAgain, SockPcs
    <3> QED BY <2>1, <3>1 DEF PurgeAgain, BufStep
  <2>2. CASE ClearContext(u)
    <3>1. user[u].pc = "clear" /\ user[u].sock \in Socks
      BY <2>2, UserFacts DEF ClearContext, SockPcs
    <3>2. Orderly => HeldBy(user[u].sock) = {}
      BY <1>1, <3>1 DEF CloseInv, IsClosing
    <3> QED BY <2>2, <3>1, <3>2, ClearIsStep DEF ClearContext
  <2>3. CASE SelectEnd(u)
    <3>1. user[u].sock \in Socks
      BY <2>3, UserFacts DEF SelectEnd, SockPcs
    <3>2. CASE UNCHANGED ctx
      BY <2>3, <3>2 DEF SelectEnd, bufVars, BufStep, Untouched
    <3>3. CASE ctx' = [ctx EXCEPT ![user[u].sock].avail = FALSE]
      BY Zenon, <2>3, <3>1, <3>3, FlagIsStep DEF SelectEnd, bufVars
    <3> QED BY <2>3, <3>2, <3>3 DEF SelectEnd
  <2>4. CASE \/ blockForDataRx(u) \/ BlockRx(u) \/ UnblockRx(u)
             \/ blockSelect(u) \/ SelectAgain(u) \/ BlockTx(u)
             \/ UnblockTx(u) \/ NextSegment(u)
    BY Zenon, <2>4
       DEF blockForDataRx, BlockRx, UnblockRx, blockSelect, SelectAgain,
       BlockTx, UnblockTx, NextSegment, bufVars, BufStep, Untouched
  <2> QED BY <1>2, <2>1, <2>2, <2>3, <2>4 DEF UserStep
<1>3. ASSUME NEW u \in Users, NEW i \in Socks, Api_select(u, i) PROVE BufStep
  <2>1. CASE UNCHANGED <<ctx, fresh>>
    BY <1>3, <2>1 DEF Api_select, BufStep, Untouched
  <2>2. CASE /\ ~HalfRead(i) /\ QUEUE_EMPTY(i)
             /\ ctx' = [ctx EXCEPT ![i] = clear_socket_context(i)]
             /\ fresh' = FreshAfterClear(i)
    <3>1. HeldBy(i) = {}
      BY <1>1, <2>2 DEF PlaceInv, QUEUE_EMPTY
    <3> QED BY <1>3, <2>2, <3>1, ClearIsStep DEF Api_select
  <2> QED BY <1>3, <2>1, <2>2 DEF Api_select
<1>4. ASSUME NEW u \in Users, Calls(u) PROVE BufStep
  <2> PICK i \in Socks :
        \/ \E l \in BOOLEAN : Api_socket(u, i, l)
        \/ Api_shutdown(u, i) \/ Api_select(u, i) \/ t_sendto(u, i)
        \/ Api_accept_ver1(u, i)
        \/ \E n \in 1..MAX_UNITS : Api_recvfrom(u, i, n)
    BY <1>4 DEF Calls
  <2>1. ASSUME NEW l \in BOOLEAN, Api_socket(u, i, l) PROVE BufStep
    BY Zenon, <2>1, FlagIsStep DEF Api_socket, bufVars
  <2>2. CASE Api_shutdown(u, i)
    BY <2>2 DEF Api_shutdown, BufStep
  <2>3. CASE t_sendto(u, i)
    BY <2>3 DEF t_sendto, bufVars, BufStep, Untouched
  <2>4. CASE Api_accept_ver1(u, i)
    BY Zenon, <2>4, FlagIsStep DEF Api_accept_ver1, bufVars
  <2> QED BY <1>3, <2>1, <2>2, <2>3, <2>4, ReadIsStep
<1>5. ASSUME NEW i \in Socks, NEW b \in Bufs, NEW n \in 1..MAX_UNITS,
             custom_receive_tcpip(i, b, n)
      PROVE  BufStep
  <2>1. CASE RoomForPacket
    <3>1. Receives(i, b, n) /\ b \in pool
      BY <1>5, <2>1 DEF custom_receive_tcpip, Receives
    <3> QED BY <3>1 DEF BufStep
  <2>2. CASE ~RoomForPacket
    BY <1>5, <2>2 DEF custom_receive_tcpip, BufStep, Untouched
  <2> QED BY <2>1, <2>2
<1>6. ASSUME NEW i \in Socks, PeerClose(i) PROVE BufStep
  <2>1. CASE QUEUE_EMPTY(i)
    <3>1. Orderly => ctx[i].old = NoBuf
      BY <1>6 DEF PeerClose, Orderly, PlaceInv
    <3>2. Orderly => HeldBy(i) = {}
      BY <1>1, <2>1, <3>1 DEF QUEUE_EMPTY
    <3> QED BY <1>6, <2>1, <3>2, ClearIsStep DEF PeerClose
  <2>2. CASE ~QUEUE_EMPTY(i)
    BY Zenon, <1>6, <2>2, FlagIsStep DEF PeerClose
  <2> QED BY <2>1, <2>2
<1>7. ASSUME NEW i \in Socks, Incoming(i) \/ Command(i) PROVE BufStep
  <2>1. ctx[i].mask \in BOOLEAN
    BY DEF BufTypes, Ctx
  <2>2. CASE Incoming(i)
    BY Zenon, <2>2, FlagIsStep DEF Incoming, bufVars
  <2>3. CASE Command(i)
    <3>1. (~ctx[i].mask) \in BOOLEAN
      OBVIOUS
    <3> QED BY Zenon, <2>3, <3>1, FlagIsStep DEF Command, bufVars
  <2> QED BY <1>7, <2>2, <2>3
<1>8. CASE \/ txpkt_free \/ UNCHANGED vars
           \/ \E u \in Users, S \in SUBSET Socks : Api_select_ver1(u, S)
           \/ \E b \in Bufs : zero_copy_free(b)
  BY Zenon, <1>8
     DEF txpkt_free, vars, Api_select_ver1, bufVars, BufStep, Untouched
<1> QED BY <1>2, <1>4, <1>5, <1>6, <1>7, <1>8 DEF Next, TargetStep

\* A behaviour keeps its setting.
LEMMA SettingStays == [Next]_vars => UNCHANGED setting
<1>1. ASSUME NEW u \in Users, UserStep(u) PROVE UNCHANGED setting
  BY Zenon, <1>1
     DEF UserStep, PurgeAgain, ClearContext, blockForDataRx, BlockRx,
     UnblockRx, SelectEnd, blockSelect, SelectAgain, BlockTx, UnblockTx,
     NextSegment, Purge, bufVars
<1>2. ASSUME NEW u \in Users, Calls(u) PROVE UNCHANGED setting
  <2>1. ASSUME NEW i \in Socks, NEW n \in 1..MAX_UNITS,
               Api_recvfrom(u, i, n)
        PROVE  UNCHANGED setting
    BY <2>1 DEF Api_recvfrom
  <2>2. ASSUME NEW i \in Socks, Api_select(u, i) PROVE UNCHANGED setting
    BY <2>2 DEF Api_select
  <2> QED BY Zenon, <1>2, <2>1, <2>2
             DEF Calls, Api_socket, Api_shutdown, t_sendto,
             Api_accept_ver1, Purge, bufVars
<1>3. CASE \/ \E u \in Users, S \in SUBSET Socks : Api_select_ver1(u, S)
           \/ \E b \in Bufs : zero_copy_free(b)
           \/ txpkt_free \/ TargetStep \/ UNCHANGED vars
  BY <1>3 DEF Api_select_ver1, zero_copy_free, txpkt_free, TargetStep,
     custom_receive_tcpip, PeerClose, Incoming, Command, bufVars, vars
<1> QED BY <1>1, <1>2, <1>3 DEF Next

\* The buffers stay as the invariant says.
LEMMA BuffersKept ==
  ASSUME BufTypes, UserInv, PlaceInv, CloseInv, FreshInv, [Next]_vars
  PROVE  BufTypes' /\ PlaceInv' /\ FreshInv'
<1>1. BufStep
  BY StepsAreBufSteps
<1>2. UNCHANGED setting
  BY SettingStays
<1>3. CASE Untouched
  <2>1. \A i \in Socks : HeldBy(i)' = HeldBy(i) /\ HalfRead(i)' = HalfRead(i)
    BY <1>3 DEF Untouched, HeldBy, HalfRead
  <2>2. BufTypes'
    BY <1>2, <1>3 DEF Untouched, BufTypes
  <2>3. PlaceInv'
    BY <1>2, <1>3, <2>1 DEF Untouched, PlaceInv, Happens
  <2>4. FreshInv'
    BY <1>2, <1>3, <2>1 DEF Untouched, FreshInv, Orderly, Happens
  <2> QED BY <2>2, <2>3, <2>4
<1> QED BY <1>1, <1>2, <1>3, MarkKeeps, PurgeKeeps, ReceiveKeeps, ReadKeeps,
           FreeKeeps DEF BufStep

-----------------------------------------------------------------------------
(***************************************************************************)
(* Closing.  A step that makes no task begin, go on with or end a close,   *)
(* and touches no socket that is being closed, keeps what is known of it.  *)
(***************************************************************************)
ClosersStay ==
  \A u \in Users : \/ user'[u] = user[u]
                   \/ ~IsClosing(u) /\ ~IsClosing(u)'

\* Such a step keeps what is known of closing.
LEMMA OthersKeepClosing ==
  ASSUME CloseInv, UserInv, UNCHANGED setting, ClosersStay,
         \A i \in Socks : Closing(i) =>
           /\ ctx'[i].handle = ctx[i].handle
           /\ Orderly => /\ ctx'[i].old = ctx[i].old
                            /\ ctx'[i].rxqueue = ctx[i].rxqueue
  PROVE  CloseInv'
<1>1. \A u \in Users : IsClosing(u)' => IsClosing(u) /\ user'[u] = user[u]
  BY DEF ClosersStay, IsClosing
<1>2. \A u \in Users : IsClosing(u) => user[u].sock \in Socks
  BY UserFacts DEF IsClosing, SockPcs
<1>3. \A u \in Users : IsClosing(u) => Closing(user[u].sock)
  BY DEF IsClosing, Closing
<1>4. \A u \in Users : IsClosing(u)' => ctx'[user'[u].sock].handle
  BY <1>1, <1>2, <1>3 DEF CloseInv
<1>5. \A u, v \in Users :
        IsClosing(u)' /\ IsClosing(v)' /\ user'[u].sock = user'[v].sock
          => u = v
  BY <1>1 DEF CloseInv
<1>6. Orderly' = Orderly
  BY DEF Orderly, Happens
<1>7. Orderly =>
        \A u \in Users :
          /\ IsClosing(u)' => ctx'[user'[u].sock].old = NoBuf
          /\ user'[u].pc = "clear" => ctx'[user'[u].sock].rxqueue = <<>>
  <2>1. \A u \in Users : user'[u].pc = "clear" => IsClosing(u)'
    BY DEF IsClosing
  <2> QED BY <1>1, <1>2, <1>3, <2>1 DEF CloseInv
<1> QED BY <1>4, <1>5, <1>6, <1>7 DEF CloseInv

\* A step of a task that is in no close leaves it in none.
LEMMA UserNotClosing ==
  ASSUME UserInv, NEW u \in Users, NEW r, ~IsClosing(u),
         r.pc \notin {"purge", "clear"}, user' = [user EXCEPT ![u] = r]
  PROVE  ClosersStay
BY DEF ClosersStay, IsClosing, UserInv

\* The first purge: the task is the only one that closes the socket.
LEMMA ShutdownKeepsClosing ==
  ASSUME BufTypes, UserInv, PlaceInv, CloseInv, NEW u \in Users,
         NEW i \in Socks, Api_shutdown(u, i), UNCHANGED setting
  PROVE  CloseInv'
<1>1. /\ ctx \in [Socks -> Ctx] /\ ctx[i].handle /\ ~Closing(i)
      /\ Orderly => ctx[i].old = NoBuf
      /\ ctx' = [ctx EXCEPT ![i].rxqueue = <<>>]
      /\ user' = [user EXCEPT ![u] = [pc |-> "purge", sock |-> i]]
  BY DEF Api_shutdown, Purge, Goto, BufTypes, Orderly, PlaceInv
<1>2. /\ ctx'[i].handle /\ ctx'[i].old = ctx[i].old
      /\ \A j \in Socks : j # i => ctx'[j] = ctx[j]
  BY <1>1 DEF Ctx
<1>3. \A v \in Users : v # u => user'[v] = user[v]
  BY <1>1 DEF UserInv
<1>4. user'[u].pc = "purge" /\ user'[u].sock = i
  BY <1>1 DEF UserInv
<1>5. \A v \in Users : v # u /\ IsClosing(v) =>
        user[v].sock # i /\ user[v].sock \in Socks
  BY <1>1, UserFacts DEF Closing, IsClosing, SockPcs
<1>6. Orderly' = Orderly
  BY DEF Orderly, Happens
<1> QED BY <1>1, <1>2, <1>3, <1>4, <1>5, <1>6 DEF CloseInv, IsClosing

\* The second purge leaves the queue empty.
LEMMA PurgeKeepsClosing ==
  ASSUME BufTypes, UserInv, CloseInv, NEW u \in Users, PurgeAgain(u),
         UNCHANGED setting
  PROVE  CloseInv'
<1> DEFINE i == user[u].sock
<1>1. /\ ctx \in [Socks -> Ctx] /\ IsClosing(u) /\ i \in Socks
      /\ ctx' = [ctx EXCEPT ![i].rxqueue = <<>>]
      /\ user' = [user EXCEPT ![u] = [pc |-> "clear", sock |-> i]]
  BY UserFacts DEF PurgeAgain, Purge, Goto, BufTypes, IsClosing, SockPcs
<1>2. /\ ctx'[i].handle = ctx[i].handle /\ ctx'[i].old = ctx[i].old
      /\ ctx'[i].rxqueue = <<>>
      /\ \A j \in Socks : j # i => ctx'[j] = ctx[j]
  BY <1>1 DEF Ctx
<1>3. \A v \in Users : v # u => user'[v] = user[v]
  BY <1>1 DEF UserInv
<1>4. user'[u].pc = "clear" /\ user'[u].sock = i
  BY <1>1 DEF UserInv
<1>5. \A v \in Users : v # u /\ IsClosing(v) =>
        user[v].sock # i /\ user[v].sock \in Socks
  BY <1>1, UserFacts DEF CloseInv, IsClosing, SockPcs
<1>6. Orderly' = Orderly
  BY DEF Orderly, Happens
<1> HIDE DEF i
<1>7. ctx[i].handle /\ (Orderly => ctx[i].old = NoBuf)
  BY <1>1 DEF CloseInv, i
<1> QED BY <1>1, <1>2, <1>3, <1>4, <1>5, <1>6, <1>7 DEF CloseInv, IsClosing

\* At the end the socket is closed, and its closer is done.
LEMMA ClearKeepsClosing ==
  ASSUME BufTypes, UserInv, CloseInv, NEW u \in Users, ClearContext(u),
         UNCHANGED setting
  PROVE  CloseInv'
<1> DEFINE i == user[u].sock
<1>1. /\ ctx \in [Socks -> Ctx] /\ IsClosing(u) /\ i \in Socks
      /\ ctx' = [ctx EXCEPT ![i] = clear_socket_context(i)]
      /\ user' = [user EXCEPT ![u] = Idle("ok")]
  BY UserFacts DEF ClearContext, Return, Goto, BufTypes, IsClosing, SockPcs
<1>2. \A j \in Socks : j # i => ctx'[j] = ctx[j]
  BY <1>1
<1>3. \A v \in Users : v # u => user'[v] = user[v]
  BY <1>1 DEF UserInv
<1>4. user'[u].pc = "idle"
  BY <1>1 DEF UserInv, Idle
<1>5. \A v \in Users : v # u /\ IsClosing(v) =>
        user[v].sock # i /\ user[v].sock \in Socks
  BY <1>1, UserFacts DEF CloseInv, IsClosing, SockPcs
<1>6. Orderly' = Orderly
  BY DEF Orderly, Happens
<1> HIDE DEF i
<1> QED BY <1>2, <1>3, <1>4, <1>5, <1>6 DEF CloseInv, IsClosing

\* All steps.
LEMMA ClosingKept ==
  ASSUME BufTypes, UserInv, PlaceInv, CloseInv, [Next]_vars
  PROVE  CloseInv'
<1> UNCHANGED setting
  BY SettingStays
<1>1. ctx \in [Socks -> Ctx]
  BY DEF BufTypes
<1>2. ASSUME ClosersStay, UNCHANGED ctx PROVE CloseInv'
  BY <1>2, OthersKeepClosing
<1>3. ASSUME ClosersStay, NEW i \in Socks, NEW c, ~Closing(i),
             ctx' = [ctx EXCEPT ![i] = c]
      PROVE  CloseInv'
  <2>1. \A j \in Socks : j # i => ctx'[j] = ctx[j]
    BY <1>1, <1>3
  <2> QED BY <1>3, <2>1, OthersKeepClosing
<1>4. ASSUME ClosersStay, NEW i \in Socks, NEW c,
             c.handle = ctx[i].handle, c.old = ctx[i].old,
             c.rxqueue = ctx[i].rxqueue, ctx' = [ctx EXCEPT ![i] = c]
      PROVE  CloseInv'
  <2>1. /\ \A j \in Socks : j # i => ctx'[j] = ctx[j]
        /\ ctx'[i] = c
    BY <1>1, <1>4
  <2>2. \A j \in Socks : /\ ctx'[j].handle = ctx[j].handle
                         /\ ctx'[j].old = ctx[j].old
                         /\ ctx'[j].rxqueue = ctx[j].rxqueue
    BY <1>4, <2>1
  <2> QED BY <1>4, <2>2, OthersKeepClosing
<1>5. ASSUME NEW u \in Users,
             \/ blockForDataRx(u) \/ BlockRx(u) \/ UnblockRx(u)
             \/ blockSelect(u) \/ SelectAgain(u) \/ BlockTx(u)
             \/ UnblockTx(u) \/ NextSegment(u)
      PROVE  CloseInv'
  <2>1. UNCHANGED ctx /\ ~IsClosing(u)
    BY Zenon, <1>5
       DEF blockForDataRx, BlockRx, UnblockRx, blockSelect, SelectAgain,
       BlockTx, UnblockTx, NextSegment, IsClosing
  <2>2. user[u] \in UserRec
    BY DEF UserInv
  <2>3. \E r : r.pc \notin {"purge", "clear"} /\ user' = [user EXCEPT ![u] = r]
    BY Zenon, <1>5, <2>2 DEF blockForDataRx, BlockRx, UnblockRx, blockSelect,
       SelectAgain, BlockTx, UnblockTx, NextSegment, custom_send_tcpip,
       AfterTx, Idle, Return, Goto, UserRec, SockPcs, SendPcs
  <2> QED BY Zenon, <1>2, <2>1, <2>3, UserNotClosing
<1>6. ASSUME NEW u \in Users, SelectEnd(u) PROVE CloseInv'
  <2>1. user[u].sock \in Socks /\ ~IsClosing(u)
    BY <1>6, UserFacts DEF SelectEnd, SockPcs, IsClosing
  <2>2. ClosersStay
    <3>1. \E x : user' = [user EXCEPT ![u] = Idle(x)]
      BY <1>6 DEF SelectEnd, Return, Goto
    <3> QED BY <2>1, <3>1, UserNotClosing DEF Idle
  <2>3. PICK i \in Socks : i = user[u].sock
    BY <2>1
  <2> DEFINE c == [ctx[i] EXCEPT !.avail = FALSE]
  <2>4. c.handle = ctx[i].handle /\ c.old = ctx[i].old
        /\ c.rxqueue = ctx[i].rxqueue
    BY <1>1 DEF Ctx
  <2>5. UNCHANGED ctx \/ ctx' = [ctx EXCEPT ![i] = c]
    BY <1>6, <2>3 DEF SelectEnd
  <2> HIDE DEF c
  <2> QED BY <1>2, <1>4, <2>2, <2>4, <2>5
<1>7. ASSUME NEW u \in Users, NEW i \in Socks,
             \/ \E l \in BOOLEAN : Api_socket(u, i, l)
             \/ Api_select(u, i) \/ t_sendto(u, i) \/ Api_accept_ver1(u, i)
             \/ \E n \in 1..MAX_UNITS : Api_recvfrom(u, i, n)
      PROVE  CloseInv'
  <2>1. ~IsClosing(u)
    BY Zenon, <1>7
       DEF Api_socket, Api_select, t_sendto, Api_accept_ver1,
       Api_recvfrom, May, IsClosing
  <2>2. \E r : r.pc \notin {"purge", "clear"} /\ user' = [user EXCEPT ![u] = r]
    BY Zenon, <1>7 DEF Api_socket, Api_select, t_sendto, Api_accept_ver1,
       Api_recvfrom, custom_send_tcpip, Return, Goto, Idle
  <2>3. ClosersStay
    BY <2>1, <2>2, UserNotClosing
  <2>4. ~Closing(i)
    <3>1. CASE \E l \in BOOLEAN : Api_socket(u, i, l)
      BY <3>1 DEF Api_socket, Closing, CloseInv, IsClosing
    <3> QED BY Zenon, <1>7, <3>1
            DEF Api_select, t_sendto, Api_recvfrom, Api_accept_ver1
  <2>5. UNCHANGED ctx \/ \E c : ctx' = [ctx EXCEPT ![i] = c]
    <3>1. ASSUME NEW n \in 1..MAX_UNITS, Api_recvfrom(u, i, n)
          PROVE  UNCHANGED ctx \/ \E c : ctx' = [ctx EXCEPT ![i] = c]
      <4>1. CASE ~HalfRead(i) /\ QUEUE_EMPTY(i)
        BY <3>1, <4>1 DEF Api_recvfrom
      <4>2. CASE HalfRead(i) \/ ~QUEUE_EMPTY(i)
        <5> DEFINE q == IF HalfRead(i) THEN ctx[i].rxqueue
                        ELSE Tail(ctx[i].rxqueue)
        <5>1. \E o, m : ctx' = [ctx EXCEPT ![i].rxqueue = q,
                                  ![i].remaining = m, ![i].old = o]
          BY <3>1, <4>2, Zenon DEF Api_recvfrom
        <5> HIDE DEF q
        <5> QED BY <5>1
      <4> QED BY <4>1, <4>2
    <3> QED BY Zenon, <1>7, <3>1
            DEF Api_socket, Api_select, t_sendto, Api_accept_ver1
  <2> QED BY <1>2, <1>3, <2>3, <2>4, <2>5
<1>8. ASSUME NEW u \in Users, NEW S \in SUBSET Socks, Api_select_ver1(u, S)
      PROVE  CloseInv'
  <2>1. ~IsClosing(u) /\ UNCHANGED ctx
    BY <1>8 DEF Api_select_ver1, May, IsClosing
  <2>2. \E r : r.pc \notin {"purge", "clear"} /\ user' = [user EXCEPT ![u] = r]
    BY <1>8 DEF Api_select_ver1, Return, Goto, Idle
  <2> QED BY <1>2, <2>1, <2>2, UserNotClosing
<1>9. ASSUME UNCHANGED user PROVE ClosersStay
  BY <1>9 DEF ClosersStay
<1>10. CASE \/ txpkt_free \/ UNCHANGED vars
            \/ \E b \in Bufs : zero_copy_free(b)
  BY <1>2, <1>9, <1>10 DEF txpkt_free, zero_copy_free, vars
<1>11. ASSUME NEW i \in Socks, NEW b \in Bufs, NEW n \in 1..MAX_UNITS,
              custom_receive_tcpip(i, b, n)
       PROVE  CloseInv'
  <2>1. ClosersStay
    BY <1>9, <1>11 DEF custom_receive_tcpip
  <2>2. CASE UNCHANGED ctx
    BY <1>2, <2>1, <2>2
  <2>3. CASE ctx' = [ctx EXCEPT ![i].rxqueue = Append(@, b)]
    <3>1. /\ \A j \in Socks : j # i => ctx'[j] = ctx[j]
          /\ ctx'[i].handle = ctx[i].handle
      BY <1>1, <2>3 DEF Ctx
    <3>2. Orderly => ~Closing(i)
      BY <1>11 DEF custom_receive_tcpip, Orderly
    <3> QED BY <2>1, <3>1, <3>2, OthersKeepClosing
  <2> QED BY <1>11, <2>2, <2>3 DEF custom_receive_tcpip
<1>12. ASSUME NEW i \in Socks, PeerClose(i) PROVE CloseInv'
  BY <1>3, <1>9, <1>12 DEF PeerClose
<1>13. ASSUME NEW i \in Socks, Incoming(i) \/ Command(i) PROVE CloseInv'
  <2>1. ClosersStay
    BY <1>9, <1>13 DEF Incoming, Command
  <2>2. /\ \A j \in Socks : j # i => ctx'[j] = ctx[j]
        /\ ctx'[i].handle = ctx[i].handle /\ ctx'[i].old = ctx[i].old
        /\ ctx'[i].rxqueue = ctx[i].rxqueue
    BY <1>1, <1>13 DEF Incoming, Command, Ctx
  <2> QED BY <2>1, <2>2, OthersKeepClosing
<1> QED BY <1>5, <1>6, <1>7, <1>8, <1>10, <1>11, <1>12, <1>13,
           ShutdownKeepsClosing, PurgeKeepsClosing, ClearKeepsClosing
        DEF Next, UserStep, Calls, TargetStep

-----------------------------------------------------------------------------
(***************************************************************************)
(* Sending.  Most steps leave the packets, the senders and the senders'    *)
(* flags alone.                                                            *)
(***************************************************************************)
SendersStay ==
  \A u \in Users : \/ user'[u] = user[u]
                   \/ ~Sending(u) /\ ~Sending(u)'
TxFlagsStay ==
  \A i \in Socks : /\ cust'[i].txUnblocked = cust[i].txUnblocked
                   /\ cust'[i].txEvent = cust[i].txEvent
                   /\ cust'[i].txBlock = cust[i].txBlock

\* The flags of one socket, changed.
LEMMA CustChanges ==
  ASSUME NEW c \in Cust
  PROVE  /\ [c EXCEPT !.respAvailable = FALSE] \in Cust
         /\ [c EXCEPT !.blockFlag = TRUE, !.rxBlock = TRUE] \in Cust
         /\ [c EXCEPT !.blockFlag = FALSE, !.rxBlock = FALSE,
                      !.rxEvent = FALSE, !.respAvailable = FALSE] \in Cust
         /\ [c EXCEPT !.respAvailable = TRUE,
                      !.rxEvent = c.rxEvent \/ c.rxBlock] \in Cust
         /\ [c EXCEPT !.txUnblocked = FALSE] \in Cust
         /\ [c EXCEPT !.blockFlag = TRUE, !.txBlock = TRUE] \in Cust
         /\ [c EXCEPT !.blockFlag = FALSE, !.txBlock = FALSE,
                      !.txEvent = FALSE, !.txUnblocked = FALSE] \in Cust
         /\ [c EXCEPT !.txUnblocked = TRUE,
                      !.txEvent = c.txEvent \/ c.txBlock] \in Cust
BY DEF Cust, NotBlocked

\* Steps of no sender.
LEMMA OthersKeepSending ==
  ASSUME SendInv, SendTypes, UNCHANGED <<setting, txq>>, SendersStay,
         TxFlagsStay
  PROVE  SendInv'
<1>1. PlainSends' = PlainSends
  BY DEF PlainSends, Happens
<1>2. ASSUME PlainSends PROVE SendInv'
  <2>1. /\ \A u \in Users : Sending(u)' => Sending(u) /\ user'[u] = user[u]
        /\ \A u \in Users : Waits(u)' <=> Waits(u)
        /\ \A u \in Users : Waits(u) => user'[u] = user[u]
    BY DEF SendersStay, Sending, Waits
  <2>2. \A k \in DOMAIN txq : txq[k].user \in Users
    <3>1. \A k \in DOMAIN txq : txq[k] \in Packet
      BY DEF SendTypes
    <3> QED BY <3>1 DEF Packet
  <2>3. \A u, v \in Users :
          Sending(u)' /\ Sending(v)' /\ user'[u].sock = user'[v].sock => u = v
    BY <1>2, <2>1 DEF SendInv
  <2>4. \A k \in DOMAIN txq : /\ Waits(txq[k].user)'
                              /\ user'[txq[k].user].sock = txq[k].sock
    BY <1>2, <2>1, <2>2 DEF SendInv
  <2>5. \A i \in Socks : cust'[i].txUnblocked \/ cust'[i].txEvent =>
          /\ \E u \in Users : Waits(u)' /\ user'[u].sock = i
          /\ \A k \in DOMAIN txq : txq[k].sock # i
    BY <1>2, <2>1 DEF SendInv, TxFlagsStay
  <2>6. \A i \in Socks : cust'[i].txBlock \/ cust'[i].txEvent =>
          \E u \in Users : user'[u].pc = "txsleep" /\ user'[u].sock = i
    BY <1>2, <2>1 DEF SendInv, TxFlagsStay, Waits
  <2> QED BY <1>1, <1>2, <2>3, <2>4, <2>5, <2>6 DEF SendInv
<1> QED BY <1>1, <1>2 DEF SendInv

\* A step of a task that sends neither before nor after it.
LEMMA UserNotSending ==
  ASSUME UserInv, NEW u \in Users, NEW r, ~Sending(u),
         r.pc \notin SendPcs, user' = [user EXCEPT ![u] = r]
  PROVE  SendersStay
BY DEF SendersStay, Sending, UserInv, SendPcs

\* One socket's flags, or none, change in an RX step.
LEMMA RxStep ==
  ASSUME SendTypes, NEW i \in Socks, UNCHANGED txq, sel' \in BOOLEAN,
         \/ UNCHANGED cust
         \/ cust' = [cust EXCEPT ![i].respAvailable = FALSE]
         \/ cust' = [cust EXCEPT ![i].blockFlag = TRUE, ![i].rxBlock = TRUE]
         \/ cust' = [cust EXCEPT ![i].blockFlag = FALSE, ![i].rxBlock = FALSE,
                                 ![i].rxEvent = FALSE,
                                 ![i].respAvailable = FALSE]
         \/ cust' = unblockRx(i)
  PROVE  SendTypes' /\ TxFlagsStay
<1>1. cust \in [Socks -> Cust] /\ cust[i] \in Cust
  BY DEF SendTypes
<1>2. CASE UNCHANGED cust
  BY <1>2 DEF SendTypes, TxFlagsStay
<1> DEFINE C == {[cust[i] EXCEPT !.respAvailable = FALSE],
                 [cust[i] EXCEPT !.blockFlag = TRUE, !.rxBlock = TRUE],
                 [cust[i] EXCEPT !.blockFlag = FALSE, !.rxBlock = FALSE,
                      !.rxEvent = FALSE, !.respAvailable = FALSE],
                 [cust[i] EXCEPT !.respAvailable = TRUE,
                      !.rxEvent = cust[i].rxEvent \/ cust[i].rxBlock]}
<1>3. CASE \E c \in C : cust' = [cust EXCEPT ![i] = c]
  <2>1. PICK c \in C : cust' = [cust EXCEPT ![i] = c]
    BY <1>3
  <2>2. c \in Cust
    BY Zenon, <1>1, CustChanges
  <2>3. /\ c.txUnblocked = cust[i].txUnblocked
        /\ c.txEvent = cust[i].txEvent /\ c.txBlock = cust[i].txBlock
    BY <1>1 DEF Cust, NotBlocked
  <2> HIDE DEF C
  <2> QED BY <1>1, <2>1, <2>2, <2>3 DEF SendTypes, TxFlagsStay
<1> QED BY <1>2, <1>3 DEF unblockRx

\* The step of a sender, with the packet it adds.
LEMMA QueueFacts ==
  ASSUME SendTypes, NEW p \in Packet
  PROVE  /\ Append(txq, p) \in Seq(Packet)
         /\ DOMAIN txq = 1..Len(txq) /\ Len(txq) \in Nat
         /\ DOMAIN Append(txq, p) = 1..(Len(txq) + 1)
         /\ \A k \in DOMAIN txq : Append(txq, p)[k] = txq[k]
         /\ Append(txq, p)[Len(txq) + 1] = p
BY DEF SendTypes

\* A packet is given to the driver: by a task that sends on the socket alone
\* and whose last packet is gone.
LEMMA SendKeepsSending ==
  ASSUME SendTypes, SendInv, UserInv, NEW u \in Users, NEW i \in Socks,
         NEW more \in BOOLEAN,
         txq' = Append(txq, [user |-> u, sock |-> i]),
         UNCHANGED <<cust, setting>>,
         user' = [user EXCEPT ![u] = [pc |-> "txblock", sock |-> i,
                                      more |-> more]],
         ~Waits(u),
         PlainSends => \A v \in Users : Sending(v) /\ user[v].sock = i => v = u
  PROVE  SendInv'
<1> DEFINE p == [user |-> u, sock |-> i]
<1>1. p \in Packet /\ p.user = u /\ p.sock = i
  BY DEF Packet
<1>2. PlainSends' = PlainSends
  BY DEF PlainSends, Happens
<1>3. /\ user'[u].pc = "txblock" /\ user'[u].sock = i
      /\ \A v \in Users : v # u => user'[v] = user[v]
  BY DEF UserInv
<1>4. ASSUME PlainSends PROVE SendInv'
  <2>1. /\ \A v, w \in Users :
             Sending(v) /\ Sending(w) /\ user[v].sock = user[w].sock => v = w
        /\ \A k \in DOMAIN txq : /\ Waits(txq[k].user)
                                 /\ user[txq[k].user].sock = txq[k].sock
        /\ \A k, l \in DOMAIN txq : txq[k].user = txq[l].user => k = l
        /\ \A j \in Socks : cust[j].txUnblocked \/ cust[j].txEvent =>
             /\ \E v \in Users : Waits(v) /\ user[v].sock = j
             /\ \A k \in DOMAIN txq : txq[k].sock # j
        /\ \A j \in Socks : cust[j].txBlock \/ cust[j].txEvent =>
             \E v \in Users : user[v].pc = "txsleep" /\ user[v].sock = j
    BY <1>4 DEF SendInv
  <2>2. \A v \in Users : Waits(v) => Sending(v) /\ v # u
    BY DEF Waits, Sending
  <2>3. /\ \A v \in Users : v # u /\ Sending(v) => user[v].sock # i
        /\ \A v \in Users : v # u => (Sending(v)' <=> Sending(v))
        /\ \A v \in Users : v # u => (Waits(v)' <=> Waits(v))
        /\ Waits(u)' /\ Sending(u)'
    BY <1>3, <1>4 DEF Sending, Waits
  <2>4. \A v, w \in Users :
          Sending(v)' /\ Sending(w)' /\ user'[v].sock = user'[w].sock => v = w
    BY <1>3, <2>1, <2>3
  <2>5. /\ txq' = Append(txq, p) /\ DOMAIN txq = 1..Len(txq)
        /\ Len(txq) \in Nat /\ DOMAIN txq' = 1..(Len(txq) + 1)
        /\ \A k \in DOMAIN txq : txq'[k] = txq[k]
        /\ txq'[Len(txq) + 1] = p
    BY <1>1, QueueFacts
  <2>6. \A k \in DOMAIN txq' : \/ k \in DOMAIN txq /\ txq'[k] = txq[k]
                               \/ k = Len(txq) + 1 /\ txq'[k] = p
    BY <2>5
  <2>7. \A k \in DOMAIN txq : txq[k].user \in Users
    <3>1. \A k \in DOMAIN txq : txq[k] \in Packet
      BY DEF SendTypes
    <3> QED BY <3>1 DEF Packet
  <2> HIDE DEF p
  <2>8. \A k \in DOMAIN txq' :
          /\ user'[txq'[k].user].pc \in {"txblock", "txsleep"}
          /\ user'[txq'[k].user].sock = txq'[k].sock
    <3> SUFFICES ASSUME NEW k \in DOMAIN txq'
                 PROVE  /\ user'[txq'[k].user].pc \in {"txblock", "txsleep"}
                        /\ user'[txq'[k].user].sock = txq'[k].sock
      OBVIOUS
    <3>1. CASE k \in DOMAIN txq /\ txq'[k] = txq[k]
      <4>1. txq[k].user \in Users /\ Waits(txq[k].user) /\ txq[k].user # u
        BY <2>1, <2>2, <2>7, <3>1
      <4> QED BY <1>3, <2>1, <3>1, <4>1 DEF Waits
    <3>2. CASE txq'[k] = p
      BY <1>1, <1>3, <3>2
    <3> QED BY <2>6, <3>1, <3>2
  <2>9. \A k, l \in DOMAIN txq' : txq'[k].user = txq'[l].user => k = l
    <3>1. \A k \in DOMAIN txq : txq[k].user # u
      BY <2>1, <2>2, <2>7
    <3> QED BY <1>1, <2>1, <2>6, <3>1
  <2>10. \A j \in Socks : cust'[j].txUnblocked \/ cust'[j].txEvent =>
           /\ \E v \in Users : Waits(v)' /\ user'[v].sock = j
           /\ \A k \in DOMAIN txq' : txq'[k].sock # j
    <3>1. ~cust[i].txUnblocked /\ ~cust[i].txEvent
      BY <2>1, <2>2, <2>3
    <3> SUFFICES ASSUME NEW j \in Socks, cust[j].txUnblocked \/ cust[j].txEvent
                 PROVE  /\ \E v \in Users : Waits(v)' /\ user'[v].sock = j
                        /\ \A k \in DOMAIN txq' : txq'[k].sock # j
      OBVIOUS
    <3>2. j # i
      BY <3>1
    <3> QED BY <1>1, <1>3, <2>1, <2>2, <2>3, <2>6, <3>2
  <2>11. \A j \in Socks : cust'[j].txBlock \/ cust'[j].txEvent =>
           \E v \in Users : user'[v].pc = "txsleep" /\ user'[v].sock = j
    BY <1>3, <2>1, <2>2 DEF Waits
  <2> QED BY <1>2, <1>4, <2>4, <2>8, <2>9, <2>10, <2>11 DEF SendInv, Waits
<1> QED BY <1>2, <1>4 DEF SendInv

\* A sender's wait is over: its packet is gone, and so are its flags.
LEMMA WaitOverKeepsSending ==
  ASSUME SendTypes, SendInv, UserInv, NEW u \in Users, NEW i \in Socks,
         NEW r, NEW c, UNCHANGED <<txq, setting>>,
         user' = [user EXCEPT ![u] = r], cust' = [cust EXCEPT ![i] = c],
         Waits(u), user[u].sock = i,
         \/ r.pc = "segment" /\ r.sock = i
         \/ r.pc \notin SendPcs,
         cust[i].txUnblocked \/ cust[i].txEvent,
         ~c.txUnblocked, ~c.txEvent, ~c.txBlock
  PROVE  SendInv'
<1>1. PlainSends' = PlainSends
  BY DEF PlainSends, Happens
<1>2. /\ user'[u] = r /\ cust'[i] = c
      /\ \A v \in Users : v # u => user'[v] = user[v]
      /\ \A j \in Socks : j # i => cust'[j] = cust[j]
  BY DEF UserInv, SendTypes
<1>3. ASSUME PlainSends PROVE SendInv'
  <2>1. /\ \A v, w \in Users :
             Sending(v) /\ Sending(w) /\ user[v].sock = user[w].sock => v = w
        /\ \A k \in DOMAIN txq : /\ Waits(txq[k].user)
                                 /\ user[txq[k].user].sock = txq[k].sock
        /\ \A k, l \in DOMAIN txq : txq[k].user = txq[l].user => k = l
        /\ \A j \in Socks : cust[j].txUnblocked \/ cust[j].txEvent =>
             /\ \E v \in Users : Waits(v) /\ user[v].sock = j
             /\ \A k \in DOMAIN txq : txq[k].sock # j
        /\ \A j \in Socks : cust[j].txBlock \/ cust[j].txEvent =>
             \E v \in Users : user[v].pc = "txsleep" /\ user[v].sock = j
    BY <1>3 DEF SendInv
  <2>2. \A v \in Users : Waits(v) => Sending(v)
    BY DEF Waits, Sending
  <2>3. /\ \A v \in Users : v # u => (Sending(v)' <=> Sending(v))
        /\ Sending(u)' => user'[u].sock = i
    BY <1>2 DEF Sending, SendPcs
  <2>4. \A v, w \in Users :
          Sending(v)' /\ Sending(w)' /\ user'[v].sock = user'[w].sock => v = w
    BY <1>2, <2>1, <2>2, <2>3
  <2>5. \A k \in DOMAIN txq : txq[k].user \in Users
    <3>1. \A k \in DOMAIN txq : txq[k] \in Packet
      BY DEF SendTypes
    <3> QED BY <3>1 DEF Packet
  <2>6. \A k \in DOMAIN txq : txq[k].user # u
    BY <2>1
  <2>7. \A k \in DOMAIN txq' :
          /\ user'[txq'[k].user].pc \in {"txblock", "txsleep"}
          /\ user'[txq'[k].user].sock = txq'[k].sock
    BY <1>2, <2>1, <2>5, <2>6 DEF Waits
  <2>8. \A j \in Socks : cust'[j].txUnblocked \/ cust'[j].txEvent =>
          /\ \E v \in Users : Waits(v)' /\ user'[v].sock = j
          /\ \A k \in DOMAIN txq' : txq'[k].sock # j
    <3> SUFFICES ASSUME NEW j \in Socks,
                        cust'[j].txUnblocked \/ cust'[j].txEvent
                 PROVE  /\ \E v \in Users : Waits(v)' /\ user'[v].sock = j
                        /\ \A k \in DOMAIN txq' : txq'[k].sock # j
      OBVIOUS
    <3>1. j # i /\ (cust[j].txUnblocked \/ cust[j].txEvent)
      BY <1>2
    <3>2. PICK v \in Users : Waits(v) /\ user[v].sock = j
      BY <2>1, <3>1
    <3>3. v # u
      BY <3>1, <3>2
    <3> QED BY <1>2, <2>1, <3>1, <3>2, <3>3 DEF Waits
  <2>9. \A j \in Socks : cust'[j].txBlock \/ cust'[j].txEvent =>
          \E v \in Users : user'[v].pc = "txsleep" /\ user'[v].sock = j
    <3> SUFFICES ASSUME NEW j \in Socks, cust'[j].txBlock \/ cust'[j].txEvent
                 PROVE  \E v \in Users : user'[v].pc = "txsleep"
                                           /\ user'[v].sock = j
      OBVIOUS
    <3>1. j # i /\ (cust[j].txBlock \/ cust[j].txEvent)
      BY <1>2
    <3>2. PICK v \in Users : user[v].pc = "txsleep" /\ user[v].sock = j
      BY <2>1, <3>1
    <3>3. v # u
      BY <3>1, <3>2
    <3> QED BY <1>2, <3>2, <3>3
  <2> QED BY <1>1, <1>3, <2>1, <2>4, <2>7, <2>8, <2>9 DEF SendInv, Waits
<1> QED BY <1>1, <1>3 DEF SendInv

\* A sender falls asleep: from now on its event is set, too.
LEMMA SleepKeepsSending ==
  ASSUME SendTypes, SendInv, UserInv, NEW u \in Users, NEW i \in Socks,
         NEW r, NEW c, UNCHANGED <<txq, setting>>,
         user' = [user EXCEPT ![u] = r], cust' = [cust EXCEPT ![i] = c],
         Waits(u), user[u].sock = i, r.pc = "txsleep", r.sock = i,
         c.txUnblocked = cust[i].txUnblocked, c.txEvent = cust[i].txEvent
  PROVE  SendInv'
<1>1. PlainSends' = PlainSends
  BY DEF PlainSends, Happens
<1>2. /\ user'[u] = r /\ cust'[i] = c
      /\ \A v \in Users : v # u => user'[v] = user[v]
      /\ \A j \in Socks : j # i => cust'[j] = cust[j]
  BY DEF UserInv, SendTypes
<1>3. /\ \A v \in Users : user'[v].sock = user[v].sock
      /\ \A v \in Users : (Sending(v)' <=> Sending(v))
      /\ \A v \in Users : (Waits(v)' <=> Waits(v))
      /\ \A v \in Users : user[v].pc = "txsleep" => user'[v].pc = "txsleep"
      /\ \A j \in Socks : /\ cust'[j].txUnblocked = cust[j].txUnblocked
                          /\ cust'[j].txEvent = cust[j].txEvent
  BY <1>2 DEF Sending, Waits
<1>4. \A k \in DOMAIN txq : txq[k].user \in Users
  <2>1. \A k \in DOMAIN txq : txq[k] \in Packet
    BY DEF SendTypes
  <2> QED BY <2>1 DEF Packet
<1>5. ASSUME PlainSends PROVE SendInv'
  <2>1. \A v, w \in Users :
          Sending(v)' /\ Sending(w)' /\ user'[v].sock = user'[w].sock => v = w
    BY <1>3, <1>5 DEF SendInv
  <2>2. \A k \in DOMAIN txq' :
          /\ user'[txq'[k].user].pc \in {"txblock", "txsleep"}
          /\ user'[txq'[k].user].sock = txq'[k].sock
    BY <1>3, <1>4, <1>5 DEF SendInv, Waits
  <2>3. \A j \in Socks : cust'[j].txUnblocked \/ cust'[j].txEvent =>
          /\ \E v \in Users : Waits(v)' /\ user'[v].sock = j
          /\ \A k \in DOMAIN txq' : txq'[k].sock # j
    BY <1>3, <1>5 DEF SendInv
  <2>4. \A j \in Socks : cust'[j].txBlock \/ cust'[j].txEvent =>
          \E v \in Users : user'[v].pc = "txsleep" /\ user'[v].sock = j
    BY <1>2, <1>3, <1>5 DEF SendInv
  <2>5. \A k, l \in DOMAIN txq' : txq'[k].user = txq'[l].user => k = l
    BY <1>5 DEF SendInv
  <2> QED BY <1>1, <1>5, <2>1, <2>2, <2>3, <2>4, <2>5 DEF SendInv, Waits
<1> QED BY <1>1, <1>5 DEF SendInv

\* The driver is done with a packet: no other packet is of its socket.
LEMMA DoneKeepsSending ==
  ASSUME SendTypes, SendInv, UserInv, txpkt_free, UNCHANGED setting
  PROVE  SendInv'
<1> DEFINE i == Head(txq).sock
           c == [cust[i] EXCEPT !.txUnblocked = TRUE,
                                !.txEvent = cust[i].txEvent \/ cust[i].txBlock]
<1>1. PlainSends' = PlainSends
  BY DEF PlainSends, Happens
<1>2. txq \in Seq(Packet) /\ txq # <<>> /\ txq' = Tail(txq) /\ UNCHANGED user
  BY DEF txpkt_free, SendTypes
<1>3. /\ Head(txq) \in Packet /\ Head(txq) = txq[1] /\ 1 \in DOMAIN txq
      /\ \A k \in DOMAIN txq' : k + 1 \in DOMAIN txq /\ txq'[k] = txq[k + 1]
      /\ \A k \in DOMAIN txq' : k \in Nat /\ k + 1 # 1
  BY <1>2
<1>4. i \in Socks /\ Head(txq).user \in Users
  BY <1>3 DEF Packet
<1>5. \A k \in DOMAIN txq : txq[k].user \in Users
  <2>1. \A k \in DOMAIN txq : txq[k] \in Packet
    BY <1>2
  <2> QED BY <2>1 DEF Packet
<1>6. /\ cust'[i].txUnblocked /\ cust'[i].txBlock = cust[i].txBlock
      /\ cust'[i].txEvent => cust[i].txEvent \/ cust[i].txBlock
      /\ \A j \in Socks : j # i => cust'[j] = cust[j]
  <2>1. cust \in [Socks -> Cust] /\ cust[i] \in Cust
    BY <1>4 DEF SendTypes
  <2>2. cust' = [cust EXCEPT ![i] = c]
    BY DEF txpkt_free, unblockTx
  <2>3. c.txUnblocked /\ c.txBlock = cust[i].txBlock
        /\ (c.txEvent => cust[i].txEvent \/ cust[i].txBlock)
    BY <2>1 DEF Cust, NotBlocked
  <2> HIDE DEF c, i
  <2> QED BY <1>4, <2>1, <2>2, <2>3
<1> HIDE DEF c, i
<1>7. ASSUME PlainSends PROVE SendInv'
  <2>1. /\ \A v, w \in Users :
             Sending(v) /\ Sending(w) /\ user[v].sock = user[w].sock => v = w
        /\ \A k \in DOMAIN txq : /\ Waits(txq[k].user)
                                 /\ user[txq[k].user].sock = txq[k].sock
        /\ \A k, l \in DOMAIN txq : txq[k].user = txq[l].user => k = l
        /\ \A j \in Socks : cust[j].txUnblocked \/ cust[j].txEvent =>
             /\ \E v \in Users : Waits(v) /\ user[v].sock = j
             /\ \A k \in DOMAIN txq : txq[k].sock # j
        /\ \A j \in Socks : cust[j].txBlock \/ cust[j].txEvent =>
             \E v \in Users : user[v].pc = "txsleep" /\ user[v].sock = j
    BY <1>7 DEF SendInv
  <2>2. \A v \in Users : Waits(v) => Sending(v)
    BY DEF Waits, Sending
  <2>3. i = txq[1].sock
    BY <1>3 DEF i
  <2>4. \A k \in DOMAIN txq : k # 1 => txq[k].sock # i
    BY <1>3, <1>5, <2>1, <2>2, <2>3
  <2>5. \A k \in DOMAIN txq' : txq'[k].sock # i
    BY <1>3, <2>4
  <2>6. Waits(txq[1].user) /\ user[txq[1].user].sock = i
    BY <1>3, <2>1, <2>3
  <2>7. \A j \in Socks : cust'[j].txUnblocked \/ cust'[j].txEvent =>
          /\ \E v \in Users : Waits(v) /\ user[v].sock = j
          /\ \A k \in DOMAIN txq' : txq'[k].sock # j
    BY <1>3, <1>5, <1>6, <2>1, <2>5, <2>6
  <2>8. \A j \in Socks : cust'[j].txBlock \/ cust'[j].txEvent =>
          \E v \in Users : user[v].pc = "txsleep" /\ user[v].sock = j
    BY <1>6, <2>1
  <2>9. /\ \A k \in DOMAIN txq' : /\ Waits(txq'[k].user)
                                  /\ user[txq'[k].user].sock = txq'[k].sock
        /\ \A k, l \in DOMAIN txq' : txq'[k].user = txq'[l].user => k = l
    BY <1>3, <2>1
  <2>10. /\ \A k \in DOMAIN txq' :
              /\ user'[txq'[k].user].pc \in {"txblock", "txsleep"}
              /\ user'[txq'[k].user].sock = txq'[k].sock
         /\ \A v \in Users : Waits(v)' = Waits(v) /\ Sending(v)' = Sending(v)
    BY <1>2, <2>9 DEF Waits, Sending
  <2> QED BY <1>1, <1>2, <1>7, <2>1, <2>7, <2>8, <2>9, <2>10
          DEF SendInv, Waits
<1> QED BY <1>1, <1>7 DEF SendInv

\* Without the hazards of sending there is nothing to show.
LEMMA NotPlain ==
  ASSUME ~PlainSends, UNCHANGED setting
  PROVE  SendInv'
BY DEF SendInv, PlainSends, Happens

\* custom_send_tcpip, by a task that sends on the socket alone.
LEMMA CustomSendKeeps ==
  ASSUME SendTypes, SendInv, UserInv, NEW u \in Users, NEW i \in Socks,
         NEW more \in BOOLEAN, custom_send_tcpip(u, i, more),
         UNCHANGED <<sel, setting>>, ~Waits(u),
         PlainSends => \A v \in Users : Sending(v) /\ user[v].sock = i => v = u
  PROVE  SendTypes' /\ SendInv'
<1> DEFINE p == [user |-> u, sock |-> i]
<1>1. p \in Packet
  BY DEF Packet
<1>2. CASE /\ txq' = Append(txq, p) /\ UNCHANGED cust
           /\ user' = [user EXCEPT ![u] = [pc |-> "txblock", sock |-> i,
                                           more |-> more]]
  <2>1. SendTypes'
    BY <1>1, <1>2, QueueFacts DEF SendTypes
  <2> QED BY Zenon, <1>2, <2>1, SendKeepsSending
<1>3. CASE "send_fails" \in Happens /\ cust' = unblockTx(i) /\ UNCHANGED txq
  <2>1. cust \in [Socks -> Cust] /\ cust[i] \in Cust
    BY DEF SendTypes
  <2> DEFINE c == [cust[i] EXCEPT !.txUnblocked = TRUE,
                        !.txEvent = cust[i].txEvent \/ cust[i].txBlock]
  <2>2. c \in Cust /\ cust' = [cust EXCEPT ![i] = c]
    BY Zenon, <1>3, <2>1, CustChanges DEF unblockTx
  <2> HIDE DEF c
  <2>3. SendTypes'
    BY <1>3, <2>1, <2>2 DEF SendTypes
  <2>4. ~PlainSends
    BY <1>3 DEF PlainSends
  <2> QED BY <2>3, <2>4, NotPlain
<1> QED BY <1>2, <1>3 DEF custom_send_tcpip, Goto

\* The waits of a sender.
LEMMA BlockTxKeeps ==
  ASSUME SendTypes, SendInv, UserInv, NEW u \in Users,
         BlockTx(u) \/ UnblockTx(u), UNCHANGED setting
  PROVE  SendTypes' /\ SendInv'
<1>1. PICK i \in Socks : i = user[u].sock
  BY UserFacts DEF BlockTx, UnblockTx, SendPcs
<1>2. /\ user[u] \in [pc : SendPcs, sock : Socks, more : BOOLEAN]
      /\ Waits(u) /\ UNCHANGED <<txq, sel>>
  BY UserFacts DEF BlockTx, UnblockTx, SendPcs, Waits
<1>3. cust \in [Socks -> Cust] /\ cust[i] \in Cust
  BY DEF SendTypes
<1> DEFINE a == AfterTx(u)
           r == [user[u] EXCEPT !.pc = "txsleep"]
           c1 == [cust[i] EXCEPT !.txUnblocked = FALSE]
           c2 == [cust[i] EXCEPT !.blockFlag = TRUE, !.txBlock = TRUE]
           c3 == [cust[i] EXCEPT !.blockFlag = FALSE, !.txBlock = FALSE,
                                 !.txEvent = FALSE, !.txUnblocked = FALSE]
<1>4. /\ c1 \in Cust /\ c2 \in Cust /\ c3 \in Cust
      /\ ~c1.txUnblocked /\ c1.txEvent = cust[i].txEvent
      /\ c1.txBlock = cust[i].txBlock
      /\ c2.txUnblocked = cust[i].txUnblocked /\ c2.txEvent = cust[i].txEvent
      /\ ~c3.txUnblocked /\ ~c3.txEvent /\ ~c3.txBlock
  BY <1>3 DEF Cust, NotBlocked
<1>5. (a.pc = "segment" /\ a.sock = i) \/ a.pc \notin SendPcs
  BY <1>1, <1>2 DEF AfterTx, Idle, SendPcs
<1>6. r.pc = "txsleep" /\ r.sock = i
  BY <1>1, <1>2
<1>7. Idle("error").pc \notin SendPcs
  BY DEF Idle, SendPcs
<1>8. CASE BlockTx(u)
  <2>1. user[u].pc = "txblock"
    BY <1>8 DEF BlockTx
  <2>2. \/ /\ cust[i].txUnblocked /\ cust' = [cust EXCEPT ![i] = c1]
           /\ user' = [user EXCEPT ![u] = a]
        \/ /\ cust' = [cust EXCEPT ![i] = c2]
           /\ user' = [user EXCEPT ![u] = r]
    BY <1>1, <1>8 DEF BlockTx, Goto
  <2> HIDE DEF a, r, c1, c2, c3
  <2>3. SendTypes'
    BY <1>2, <1>3, <1>4, <2>2 DEF SendTypes
  <2>4. CASE /\ cust[i].txUnblocked /\ cust' = [cust EXCEPT ![i] = c1]
             /\ user' = [user EXCEPT ![u] = a]
    <3>1. CASE PlainSends
      <4>1. ~cust[i].txEvent /\ ~cust[i].txBlock
        <5>1. ASSUME NEW v \in Users, user[v].pc = "txsleep",
                     user[v].sock = i
              PROVE  FALSE
          <6>1. v = u
            BY <1>1, <1>2, <3>1, <5>1 DEF SendInv, Sending, Waits
          <6> QED BY <2>1, <5>1, <6>1
        <5> QED BY <3>1, <5>1 DEF SendInv
      <4> QED BY <1>1, <1>2, <1>4, <1>5, <2>3, <2>4, <4>1,
                 WaitOverKeepsSending
    <3> QED BY <2>3, <3>1, NotPlain
  <2>5. CASE /\ cust' = [cust EXCEPT ![i] = c2]
             /\ user' = [user EXCEPT ![u] = r]
    BY <1>1, <1>2, <1>4, <1>6, <2>3, <2>5, SleepKeepsSending
  <2> QED BY <2>2, <2>4, <2>5
<1>9. CASE UnblockTx(u)
  <2>1. /\ cust' = [cust EXCEPT ![i] = c3]
        /\ \/ /\ cust[i].txUnblocked \/ cust[i].txEvent
              /\ user' = [user EXCEPT ![u] = a]
           \/ "tx_late" \in Happens
    BY <1>1, <1>9 DEF UnblockTx, Goto
  <2> HIDE DEF a, r, c1, c2, c3
  <2>2. SendTypes'
    BY <1>2, <1>3, <1>4, <2>1 DEF SendTypes
  <2>3. CASE "tx_late" \in Happens
    BY <2>2, <2>3, NotPlain DEF PlainSends
  <2>4. CASE /\ cust[i].txUnblocked \/ cust[i].txEvent
             /\ user' = [user EXCEPT ![u] = a]
    BY <1>1, <1>2, <1>4, <1>5, <2>1, <2>2, <2>4, WaitOverKeepsSending
  <2> QED BY <2>1, <2>3, <2>4
<1> QED BY <1>8, <1>9

\* All steps.
LEMMA SendingKept ==
  ASSUME SendTypes, SendInv, UserInv, [Next]_vars
  PROVE  SendTypes' /\ SendInv'
<1> UNCHANGED setting
  BY SettingStays
<1>1. ASSUME SendersStay, TxFlagsStay, SendTypes', UNCHANGED txq
      PROVE  SendTypes' /\ SendInv'
  BY <1>1, OthersKeepSending
<1>2. ASSUME UNCHANGED cust PROVE TxFlagsStay
  BY <1>2 DEF TxFlagsStay
<1>3. ASSUME UNCHANGED user PROVE SendersStay
  BY <1>3 DEF SendersStay
<1>4. ASSUME NEW u \in Users,
             \/ PurgeAgain(u) \/ ClearContext(u) \/ SelectEnd(u)
             \/ blockSelect(u) \/ SelectAgain(u)
      PROVE  SendTypes' /\ SendInv'
  <2>1. ~Sending(u)
    BY Zenon, <1>4
       DEF PurgeAgain, ClearContext, SelectEnd, blockSelect, SelectAgain,
       Sending
  <2>2. user[u] \in UserRec
    BY DEF UserInv
  <2>3. \E r : r.pc \notin SendPcs /\ user' = [user EXCEPT ![u] = r]
    BY Zenon, <1>4, <2>2 DEF PurgeAgain, ClearContext, SelectEnd, blockSelect,
       SelectAgain, Return, Goto, Idle, UserRec, SockPcs, SendPcs
  <2>4. UNCHANGED <<cust, txq>> /\ sel' \in BOOLEAN
    BY Zenon, <1>4
       DEF PurgeAgain, ClearContext, SelectEnd, blockSelect, SelectAgain,
       SendTypes
  <2>5. SendTypes'
    BY <2>4 DEF SendTypes
  <2> QED BY <1>1, <1>2, <2>1, <2>3, <2>4, <2>5, UserNotSending
<1>5. ASSUME NEW u \in Users,
             blockForDataRx(u) \/ BlockRx(u) \/ UnblockRx(u)
      PROVE  SendTypes' /\ SendInv'
  <2>1. ~Sending(u) /\ user[u].sock \in Socks
    BY Zenon, <1>5, UserFacts
       DEF blockForDataRx, BlockRx, UnblockRx, Sending, SockPcs
  <2>2. user[u] \in UserRec
    BY DEF UserInv
  <2>3. \E r : r.pc \notin SendPcs /\ user' = [user EXCEPT ![u] = r]
    BY Zenon, <1>5, <2>2 DEF blockForDataRx, BlockRx, UnblockRx, Idle, UserRec,
       SockPcs, SendPcs
  <2>4. UNCHANGED <<sel, txq>> /\ sel' \in BOOLEAN
    BY Zenon, <1>5 DEF blockForDataRx, BlockRx, UnblockRx, SendTypes
  <2>5. PICK i \in Socks : i = user[u].sock
    BY <2>1
  <2>6. SendTypes' /\ TxFlagsStay
    <3>1. CASE blockForDataRx(u)
      BY Zenon, <2>4, <2>5, <3>1, RxStep DEF blockForDataRx
    <3>2. CASE BlockRx(u)
      BY Zenon, <2>4, <2>5, <3>2, RxStep DEF BlockRx
    <3>3. CASE UnblockRx(u)
      BY Zenon, <2>4, <2>5, <3>3, RxStep DEF UnblockRx
    <3> QED BY <1>5, <3>1, <3>2, <3>3
  <2> QED BY <1>1, <2>1, <2>3, <2>4, <2>6, UserNotSending
<1>6. ASSUME NEW u \in Users, NextSegment(u) PROVE SendTypes' /\ SendInv'
  <2>1. PICK i \in Socks : i = user[u].sock
    BY <1>6, UserFacts DEF NextSegment, SendPcs
  <2>2. PlainSends => \A v \in Users : Sending(v) /\ user[v].sock = i => v = u
    BY <1>6, <2>1 DEF NextSegment, SendInv, Sending
  <2> QED BY <1>6, <2>1, <2>2, CustomSendKeeps DEF NextSegment, Waits
<1>7. ASSUME NEW u \in Users, NEW i \in Socks, t_sendto(u, i)
      PROVE  SendTypes' /\ SendInv'
  <2>1. PICK more \in BOOLEAN : custom_send_tcpip(u, i, more)
    BY <1>7 DEF t_sendto
  <2>2. PlainSends => \A v \in Users : Sending(v) /\ user[v].sock = i => v = u
    BY <1>7 DEF t_sendto, PlainSends, Sending
  <2> QED BY <1>7, <2>1, <2>2, CustomSendKeeps DEF t_sendto, May, Waits
<1>8. ASSUME NEW u \in Users, NEW i \in Socks,
             \/ \E l \in BOOLEAN : Api_socket(u, i, l)
             \/ Api_shutdown(u, i) \/ Api_select(u, i) \/ Api_accept_ver1(u, i)
             \/ \E n \in 1..MAX_UNITS : Api_recvfrom(u, i, n)
      PROVE  SendTypes' /\ SendInv'
  <2>1. ~Sending(u) /\ UNCHANGED <<cust, txq, sel>>
    BY Zenon, <1>8 DEF Api_socket, Api_shutdown, Api_select, Api_accept_ver1,
       Api_recvfrom, May, Sending
  <2>2. \E r : r.pc \notin SendPcs /\ user' = [user EXCEPT ![u] = r]
    BY Zenon, <1>8
       DEF Api_socket, Api_shutdown, Api_select, Api_accept_ver1,
       Api_recvfrom, Return, Goto, Idle, SendPcs
  <2>3. SendTypes'
    BY <2>1 DEF SendTypes
  <2> QED BY Zenon, <1>1, <1>2, <2>1, <2>2, <2>3, UserNotSending
<1>9. ASSUME NEW u \in Users, NEW S \in SUBSET Socks, Api_select_ver1(u, S)
      PROVE  SendTypes' /\ SendInv'
  <2>1. ~Sending(u) /\ UNCHANGED <<cust, txq, sel>>
    BY <1>9 DEF Api_select_ver1, May, Sending
  <2>2. \E r : r.pc \notin SendPcs /\ user' = [user EXCEPT ![u] = r]
    BY <1>9 DEF Api_select_ver1, Return, Goto, Idle, SendPcs
  <2>3. SendTypes'
    BY <2>1 DEF SendTypes
  <2> QED BY <1>1, <1>2, <2>1, <2>2, <2>3, UserNotSending
<1>10. CASE txpkt_free
  <2> DEFINE i == Head(txq).sock
             c == [cust[i] EXCEPT !.txUnblocked = TRUE,
                        !.txEvent = cust[i].txEvent \/ cust[i].txBlock]
  <2>1. /\ Head(txq) \in Packet /\ txq' \in Seq(Packet) /\ UNCHANGED sel
    BY <1>10 DEF txpkt_free, SendTypes
  <2>2. i \in Socks
    BY <2>1 DEF Packet
  <2>3. cust \in [Socks -> Cust] /\ cust[i] \in Cust
    BY <2>2 DEF SendTypes
  <2>4. c \in Cust /\ cust' = [cust EXCEPT ![i] = c]
    BY Zenon, <1>10, <2>3, CustChanges DEF txpkt_free, unblockTx
  <2> HIDE DEF i, c
  <2>5. SendTypes'
    BY <2>1, <2>2, <2>3, <2>4 DEF SendTypes
  <2> QED BY <1>10, <2>5, DoneKeepsSending
<1>11. ASSUME NEW i \in Socks,
              \/ \E b \in Bufs, n \in 1..MAX_UNITS :
                   custom_receive_tcpip(i, b, n)
              \/ PeerClose(i) \/ Incoming(i) \/ Command(i)
       PROVE  SendTypes' /\ SendInv'
  <2>1. /\ UNCHANGED <<txq, user>> /\ sel' \in BOOLEAN
        /\ UNCHANGED cust \/ cust' = unblockRx(i)
    BY <1>11 DEF custom_receive_tcpip, PeerClose, Incoming, Command,
       unblockSelect, SendTypes
  <2> QED BY Zenon, <1>1, <1>3, <2>1, RxStep
<1>12. CASE (\E b \in Bufs : zero_copy_free(b)) \/ UNCHANGED vars
  <2>1. UNCHANGED <<cust, txq, sel, user>>
    BY <1>12 DEF zero_copy_free, vars
  <2> QED BY <1>1, <1>2, <1>3, <2>1 DEF SendTypes
<1> QED BY <1>4, <1>5, <1>6, <1>7, <1>8, <1>9, <1>10, <1>11, <1>12,
           BlockTxKeeps
        DEF Next, UserStep, Calls, TargetStep

-----------------------------------------------------------------------------
(***************************************************************************)
(* Selecting.  What a selector waits for shows only with the event, and    *)
(* no one but a selector takes the event away.                             *)
(***************************************************************************)
SelectPcs == {"purge", "clear", "blockSelect"}

\* A step in which no task starts, or goes on with, a close or a select.
LEMMA OthersKeepSelecting ==
  ASSUME UserInv, OpsInv, SelectorIsWoken, UNCHANGED setting, sel => sel',
         \A u \in Users : user'[u].pc \in SelectPcs => user'[u] = user[u],
         \A i \in Socks : Readable(i)' => Readable(i) \/ sel'
  PROVE  OpsInv' /\ SelectorIsWoken'
<1>1. OpsInv'
  BY DEF OpsInv, IsClosing, SelectPcs
<1>2. ASSUME NEW u \in Users, Told(u)', Alone(u)' PROVE sel'
  <2>1. user[u].pc = "blockSelect" /\ user'[u] = user[u] /\ Alone(u)
    BY <1>2 DEF Told, Alone, SelectPcs
  <2>2. user[u].set \subseteq Socks
    BY <2>1, UserFacts
  <2>3. PICK i \in user[u].set : Readable(i)'
    BY <1>2, <2>1 DEF Told
  <2>4. Readable(i) => Told(u)
    BY <2>1, <2>3 DEF Told
  <2> QED BY <2>1, <2>2, <2>3, <2>4 DEF SelectorIsWoken
<1> QED BY <1>1, <1>2 DEF SelectorIsWoken

\* A step of one task that is no part of a close or a select.
LEMMA UserNotSelecting ==
  ASSUME UserInv, NEW u \in Users, NEW r, r.pc \notin SelectPcs,
         user' = [user EXCEPT ![u] = r]
  PROVE  \A v \in Users : user'[v].pc \in SelectPcs => user'[v] = user[v]
BY DEF UserInv

\* Context c has something for a selector.
Shows(c) == \/ ~c.handle \/ c.rxqueue # <<>>
            \/ c.avail \/ c.data \/ c.fin

\* A context changes, and shows nothing that was not there.
LEMMA NothingNewShows ==
  ASSUME BufTypes, NEW i \in Socks, NEW c, ctx' = [ctx EXCEPT ![i] = c],
         Shows(c) => Readable(i)
  PROVE  \A j \in Socks : Readable(j)' => Readable(j)
<1>1. ctx'[i] = c /\ \A j \in Socks : j # i => ctx'[j] = ctx[j]
  BY DEF BufTypes
<1> QED BY <1>1 DEF Readable, Shows, QUEUE_EMPTY

\* A step of a task that closes sockets or selects: for no other task is it
\* said that it is woken.
LEMMA CallerKeepsSelecting ==
  ASSUME UserInv, OpsInv, UNCHANGED setting, NEW u \in Users, NEW r,
         user' = [user EXCEPT ![u] = r],
         setting.ops[u] \cap {"select_ver1", "shutdown"} # {},
         r.pc \in {"purge", "clear"} => "shutdown" \in setting.ops[u],
         r.pc = "blockSelect" => /\ "select_ver1" \in setting.ops[u]
                                 /\ \A i \in r.set : ~Readable(i)'
  PROVE  OpsInv' /\ SelectorIsWoken'
<1>1. user'[u] = r /\ \A v \in Users : v # u => user'[v] = user[v]
  BY DEF UserInv
<1>2. OpsInv'
  BY <1>1 DEF OpsInv, IsClosing
<1>3. ~Told(u)'
  BY <1>1 DEF Told
<1>4. \A v \in Users : v # u => ~Alone(v)'
  BY DEF Alone
<1> QED BY <1>2, <1>3, <1>4 DEF SelectorIsWoken

\* All steps.
LEMMA SelectingKept ==
  ASSUME BufTypes, UserInv, OpsInv, SelectorIsWoken, [Next]_vars
  PROVE  OpsInv' /\ SelectorIsWoken'
<1> UNCHANGED setting
  BY SettingStays
<1>1. ctx \in [Socks -> Ctx]
  BY DEF BufTypes
<1>2. ASSUME UNCHANGED <<ctx, sel>>,
             \A v \in Users : user'[v].pc \in SelectPcs => user'[v] = user[v]
      PROVE  OpsInv' /\ SelectorIsWoken'
  <2>1. \A i \in Socks : Readable(i)' => Readable(i)
    BY <1>2 DEF Readable, QUEUE_EMPTY
  <2> QED BY <1>2, <2>1, OthersKeepSelecting
<1>3. ASSUME NEW u \in Users,
             \/ blockForDataRx(u) \/ BlockRx(u) \/ UnblockRx(u)
             \/ SelectAgain(u) \/ BlockTx(u) \/ UnblockTx(u) \/ NextSegment(u)
      PROVE  OpsInv' /\ SelectorIsWoken'
  <2>1. UNCHANGED <<ctx, sel>>
    BY Zenon, <1>3
       DEF blockForDataRx, BlockRx, UnblockRx, SelectAgain, BlockTx,
       UnblockTx, NextSegment
  <2>2. user[u] \in UserRec
    BY DEF UserInv
  <2>3. \E r : r.pc \notin SelectPcs /\ user' = [user EXCEPT ![u] = r]
    BY Zenon, <1>3, <2>2 DEF blockForDataRx, BlockRx, UnblockRx, SelectAgain,
       BlockTx, UnblockTx, NextSegment, custom_send_tcpip, AfterTx, Idle,
       Return, Goto, UserRec, SockPcs, SendPcs, SelectPcs
  <2> QED BY <1>2, <2>1, <2>3, UserNotSelecting
<1>4. ASSUME NEW u \in Users, PurgeAgain(u)
      PROVE  OpsInv' /\ SelectorIsWoken'
  <2>1. "shutdown" \in setting.ops[u]
    BY <1>4 DEF PurgeAgain, OpsInv, IsClosing
  <2> QED BY <1>4, <2>1, CallerKeepsSelecting DEF PurgeAgain, Goto
<1>5. ASSUME NEW u \in Users, ClearContext(u)
      PROVE  OpsInv' /\ SelectorIsWoken'
  <2>1. "shutdown" \in setting.ops[u]
    BY <1>5 DEF ClearContext, OpsInv, IsClosing
  <2> QED BY <1>5, <2>1, CallerKeepsSelecting
          DEF ClearContext, Return, Goto, Idle
<1>6. ASSUME NEW u \in Users, blockSelect(u)
      PROVE  OpsInv' /\ SelectorIsWoken'
  <2>1. "select_ver1" \in setting.ops[u] /\ user[u] \in UserRec
    BY Zenon, <1>6 DEF blockSelect, OpsInv, UserInv
  <2>2. \E r : r.pc \notin SelectPcs /\ user' = [user EXCEPT ![u] = r]
    BY Zenon, <1>6, <2>1
       DEF blockSelect, Return, Goto, Idle, UserRec, SelectPcs,
       SockPcs, SendPcs
  <2> QED BY <2>1, <2>2, CallerKeepsSelecting DEF SelectPcs
<1>7. ASSUME NEW u \in Users, SelectEnd(u)
      PROVE  OpsInv' /\ SelectorIsWoken'
  <2>1. PICK i \in Socks : i = user[u].sock
    BY <1>7, UserFacts DEF SelectEnd, SockPcs
  <2> DEFINE c == [ctx[i] EXCEPT !.avail = FALSE]
  <2>2. \E x : user' = [user EXCEPT ![u] = Idle(x)]
    BY <1>7 DEF SelectEnd, Return, Goto
  <2>3. \A v \in Users : user'[v].pc \in SelectPcs => user'[v] = user[v]
    BY <2>2, UserNotSelecting DEF Idle, SelectPcs
  <2>4. UNCHANGED ctx \/ ctx' = [ctx EXCEPT ![i] = c]
    BY <1>7, <2>1 DEF SelectEnd
  <2>5. Shows(c) => Readable(i)
    BY <1>1 DEF Ctx, Readable, Shows, QUEUE_EMPTY
  <2> HIDE DEF c
  <2>6. CASE ctx' = [ctx EXCEPT ![i] = c]
    <3>1. \A j \in Socks : Readable(j)' => Readable(j)
      BY <2>5, <2>6, NothingNewShows
    <3> QED BY <1>7, <2>3, <3>1, OthersKeepSelecting DEF SelectEnd
  <2> QED BY <1>2, <1>7, <2>3, <2>4, <2>6 DEF SelectEnd
<1>8. ASSUME NEW u \in Users, NEW i \in Socks, Api_shutdown(u, i)
      PROVE  OpsInv' /\ SelectorIsWoken'
  BY <1>8, CallerKeepsSelecting DEF Api_shutdown, May, Goto
<1>9. ASSUME NEW u \in Users, NEW S \in SUBSET Socks, Api_select_ver1(u, S)
      PROVE  OpsInv' /\ SelectorIsWoken'
  <2>1. "select_ver1" \in setting.ops[u] /\ UNCHANGED ctx
    BY <1>9 DEF Api_select_ver1, May
  <2>2. \A i \in Socks : Readable(i)' <=> Readable(i)
    BY <2>1 DEF Readable, QUEUE_EMPTY
  <2>3. CASE user' = [user EXCEPT ![u] = Idle("ok")]
    BY <2>1, <2>3, CallerKeepsSelecting DEF Idle
  <2>4. CASE /\ user' = [user EXCEPT ![u] = [pc |-> "blockSelect", set |-> S]]
             /\ ~ \E i \in S : Readable(i)
    BY <2>1, <2>2, <2>4, CallerKeepsSelecting
  <2> QED BY <1>9, <2>3, <2>4 DEF Api_select_ver1, Return, Goto
<1>10. ASSUME NEW u \in Users, NEW i \in Socks,
              \/ \E l \in BOOLEAN : Api_socket(u, i, l)
              \/ Api_select(u, i) \/ t_sendto(u, i) \/ Api_accept_ver1(u, i)
              \/ \E n \in 1..MAX_UNITS : Api_recvfrom(u, i, n)
       PROVE  OpsInv' /\ SelectorIsWoken'
  <2>1. UNCHANGED sel
    BY Zenon, <1>10 DEF Api_socket, Api_select, t_sendto, Api_accept_ver1,
       Api_recvfrom
  <2>2. \E r : r.pc \notin SelectPcs /\ user' = [user EXCEPT ![u] = r]
    BY Zenon, <1>10 DEF Api_socket, Api_select, t_sendto, Api_accept_ver1,
       Api_recvfrom, custom_send_tcpip, Return, Goto, Idle, SelectPcs
  <2>3. \A v \in Users : user'[v].pc \in SelectPcs => user'[v] = user[v]
    BY <2>2, UserNotSelecting
  <2>4. ASSUME NEW c, ctx' = [ctx EXCEPT ![i] = c],
               Shows(c) => Readable(i)
        PROVE  OpsInv' /\ SelectorIsWoken'
    BY <2>1, <2>3, <2>4, NothingNewShows, OthersKeepSelecting
  <2>5. ASSUME NEW l \in BOOLEAN, Api_socket(u, i, l)
        PROVE  OpsInv' /\ SelectorIsWoken'
    BY <2>4, <2>5 DEF Api_socket, Readable, Shows
  <2>6. ASSUME Api_select(u, i) PROVE OpsInv' /\ SelectorIsWoken'
    <3>1. CASE UNCHANGED ctx
      BY <1>2, <2>1, <2>3, <3>1
    <3>2. CASE /\ ctx[i].fin
               /\ ctx' = [ctx EXCEPT ![i] = clear_socket_context(i)]
      BY <2>4, <3>2 DEF Readable, Shows
    <3> QED BY <2>6, <3>1, <3>2 DEF Api_select
  <2>7. ASSUME NEW n \in 1..MAX_UNITS, Api_recvfrom(u, i, n)
        PROVE  OpsInv' /\ SelectorIsWoken'
    <3>1. CASE UNCHANGED ctx
      BY <1>2, <2>1, <2>3, <3>1
    <3>2. ASSUME NEW q, NEW o, NEW m,
                 q = ctx[i].rxqueue \/ ctx[i].rxqueue # <<>>,
                 ctx' = [ctx EXCEPT ![i].rxqueue = q, ![i].remaining = m,
                                    ![i].old = o]
          PROVE  OpsInv' /\ SelectorIsWoken'
      <4> DEFINE c == [ctx[i] EXCEPT !.rxqueue = q, !.remaining = m, !.old = o]
      <4>1. ctx' = [ctx EXCEPT ![i] = c]
        BY <3>2
      <4>2. Shows(c) => Readable(i)
        BY <1>1, <3>2 DEF Ctx, Readable, Shows, QUEUE_EMPTY
      <4> HIDE DEF c
      <4> QED BY <2>4, <4>1, <4>2
    <3>3. CASE HalfRead(i) \/ ~QUEUE_EMPTY(i)
      <4> DEFINE q == IF HalfRead(i) THEN ctx[i].rxqueue
                      ELSE Tail(ctx[i].rxqueue)
      <4>1. q = ctx[i].rxqueue \/ ctx[i].rxqueue # <<>>
        BY <3>3 DEF QUEUE_EMPTY
      <4>2. \E o, m : ctx' = [ctx EXCEPT ![i].rxqueue = q, ![i].remaining = m,
                                         ![i].old = o]
        BY <2>7, <3>3, Zenon DEF Api_recvfrom
      <4> HIDE DEF q
      <4> QED BY Zenon, <3>2, <4>1, <4>2
    <3> QED BY <2>7, <3>1, <3>3 DEF Api_recvfrom
  <2>8. ASSUME t_sendto(u, i) PROVE OpsInv' /\ SelectorIsWoken'
    BY <1>2, <2>1, <2>3, <2>8 DEF t_sendto
  <2>9. ASSUME Api_accept_ver1(u, i) PROVE OpsInv' /\ SelectorIsWoken'
    BY <2>4, <2>9 DEF Api_accept_ver1, Readable, Shows
  <2> QED BY <1>10, <2>5, <2>6, <2>7, <2>8, <2>9
<1>11. ASSUME NEW i \in Socks,
              \/ \E b \in Bufs, n \in 1..MAX_UNITS :
                   custom_receive_tcpip(i, b, n)
              \/ PeerClose(i) \/ Incoming(i)
       PROVE  OpsInv' /\ SelectorIsWoken'
  <2>1. UNCHANGED user /\ sel'
    BY <1>11 DEF custom_receive_tcpip, PeerClose, Incoming, unblockSelect
  <2> QED BY <2>1, OthersKeepSelecting
<1>12. ASSUME NEW i \in Socks, Command(i) PROVE OpsInv' /\ SelectorIsWoken'
  <2> DEFINE c == [ctx[i] EXCEPT !.mask = ~ctx[i].mask]
  <2>1. ctx' = [ctx EXCEPT ![i] = c] /\ UNCHANGED <<user, sel>>
    BY <1>12 DEF Command
  <2>2. Shows(c) => Readable(i)
    BY <1>1 DEF Ctx, Readable, Shows, QUEUE_EMPTY
  <2> HIDE DEF c
  <2>3. \A j \in Socks : Readable(j)' => Readable(j)
    BY <2>1, <2>2, NothingNewShows
  <2> QED BY <2>1, <2>3, OthersKeepSelecting
<1>13. CASE \/ (\E b \in Bufs : zero_copy_free(b)) \/ txpkt_free
            \/ UNCHANGED vars
  <2>1. UNCHANGED <<ctx, sel, user>>
    BY <1>13 DEF zero_copy_free, txpkt_free, vars
  <2> QED BY <1>2, <2>1
<1> QED BY <1>3, <1>4, <1>5, <1>6, <1>7, <1>8, <1>9, <1>10, <1>11, <1>12,
           <1>13 DEF Next, UserStep, Calls, TargetStep

-----------------------------------------------------------------------------
(***************************************************************************)
(* The invariant.                                                          *)
(***************************************************************************)
\* The type invariant, in the parts the lemmas speak of.
LEMMA TypesMeet ==
  /\ TypeOK /\ setting \in Settings => BufTypes
  /\ BufTypes /\ SendTypes => TypeOK
<1>1. ASSUME SendTypes PROVE Range(txq) \subseteq Packet
  BY <1>1 DEF SendTypes, Range
<1> QED BY <1>1 DEF TypeOK, BufTypes, SendTypes, Ctx, Cust, Packet

\* It holds at the start.
LEMMA InitHolds == Init => IInv
<1> SUFFICES ASSUME Init PROVE IInv
  OBVIOUS
<1>1. /\ \A i \in Socks : /\ ctx[i] = Closed
                          /\ cust[i] = NotBlocked
      /\ \A u \in Users : user[u] = Idle("none")
  BY DEF Init
<1>2. \A i \in Socks : /\ ctx[i].rxqueue = <<>> /\ ctx[i].old = NoBuf
                       /\ ~ctx[i].handle
  BY <1>1 DEF Closed
<1>3. \A i \in Socks : HeldBy(i) = {}
  BY <1>2 DEF HeldBy, Range
<1>4. \A u \in Users : user[u].pc = "idle"
  BY <1>1 DEF Idle
<1>5. BufTypes
  <2>1. Closed \in Ctx /\ 0 \in 0..MAX_UNITS
    BY DEF Closed, Ctx, MAX_UNITS
  <2> QED BY <2>1 DEF Init, BufTypes
<1>6. SendTypes
  <2>1. \A f \in DOMAIN NotBlocked : NotBlocked[f] \in BOOLEAN
    <3>1. DOMAIN NotBlocked =
            {"blockFlag", "respAvailable", "rxBlock", "rxEvent",
             "txUnblocked", "txBlock", "txEvent"}
      BY DEF NotBlocked
    <3>2. /\ NotBlocked["blockFlag"] = FALSE
          /\ NotBlocked["respAvailable"] = FALSE
          /\ NotBlocked["rxBlock"] = FALSE /\ NotBlocked["rxEvent"] = FALSE
          /\ NotBlocked["txUnblocked"] = FALSE
          /\ NotBlocked["txBlock"] = FALSE /\ NotBlocked["txEvent"] = FALSE
      BY DEF NotBlocked
    <3> QED BY <3>1, <3>2, Zenon
  <2>2. NotBlocked = [f \in DOMAIN NotBlocked |-> NotBlocked[f]]
    BY DEF NotBlocked
  <2>3. NotBlocked \in Cust
    BY <2>1, <2>2 DEF Cust
  <2>4. txq \in Seq(Packet)
    BY DEF Init
  <2>5. sel \in BOOLEAN
    BY Zenon DEF Init
  <2> QED BY <2>3, <2>4, <2>5 DEF Init, SendTypes
<1>7. UserInv
  BY Zenon, UserRecords DEF Init, UserInv, Returns
<1>8. PlaceInv
  <2>1. \A i \in Socks : Range(ctx[i].rxqueue) = {}
    BY <1>2 DEF Range
  <2> QED BY <1>2, <1>3, <2>1 DEF PlaceInv, Init
<1>9. CloseInv /\ OpsInv /\ SelectorIsWoken
  BY <1>4 DEF CloseInv, OpsInv, IsClosing, SelectorIsWoken, Told
<1>10. FreshInv
  BY <1>3 DEF FreshInv, Init
<1>11. SendInv
  <2>1. \A i \in Socks : /\ ~cust[i].txUnblocked /\ ~cust[i].txEvent
                         /\ ~cust[i].txBlock
    BY <1>1 DEF NotBlocked
  <2>2. DOMAIN txq = {}
    BY DEF Init
  <2> QED BY <1>4, <2>1, <2>2 DEF SendInv, Sending, Waits
<1> QED BY <1>5, <1>6, <1>7, <1>8, <1>9, <1>10, <1>11, TypesMeet DEF IInv

\* Every step keeps it.
LEMMA StepKeeps == IInv /\ [Next]_vars => IInv'
<1> SUFFICES ASSUME IInv, [Next]_vars PROVE IInv'
  OBVIOUS
<1>1. /\ BufTypes /\ UserInv /\ PlaceInv /\ CloseInv /\ FreshInv
      /\ SendTypes /\ SendInv /\ OpsInv /\ SelectorIsWoken
  BY TypesMeet DEF IInv, UserInv
<1>2. BufTypes' /\ PlaceInv' /\ FreshInv'
  BY <1>1, BuffersKept
<1>3. UserInv' /\ CloseInv'
  BY <1>1, UsersKept, ClosingKept
<1>4. SendTypes' /\ SendInv'
  BY <1>1, SendingKept
<1>5. OpsInv' /\ SelectorIsWoken'
  BY <1>1, SelectingKept
<1>6. TypeOK'
  <2>1. ASSUME SendTypes' PROVE Range(txq') \subseteq Packet
    BY <2>1 DEF SendTypes, Range
  <2> QED BY <1>2, <1>4, <2>1 DEF TypeOK, BufTypes, SendTypes, Ctx, Cust,
             Packet
<1> QED BY <1>2, <1>3, <1>4, <1>5, <1>6 DEF IInv

\* The invariant holds always: for every number of tasks, sockets and
\* receive buffers, and whatever the tasks do and the target sends.
THEOREM InvariantHolds == Spec => []IInv
BY InitHolds, StepKeeps, PTL DEF Spec

-----------------------------------------------------------------------------
(***************************************************************************)
(* What follows from it.                                                   *)
(***************************************************************************)
\* The places of a buffer are exactly one.
LEMMA OnePlace ==
  ASSUME PlaceInv, NEW b \in Bufs
  PROVE  Cardinality(Places(b)) = 1
<1> DEFINE Q == {j \in Socks : b \in Range(ctx[j].rxqueue)}
           O == {j \in Socks : b = ctx[j].old}
<1>1. b # NoBuf
  BY BufAssumption
<1>2. /\ \A j \in Q : b \in HeldBy(j)
      /\ \A j \in O : b \in HeldBy(j)
  BY <1>1 DEF HeldBy
<1>3. \E p : Places(b) = {p}
  <2>1. CASE b \in pool
    <3>1. b \notin zeroq /\ Q = {} /\ O = {}
      BY <1>2, <2>1 DEF PlaceInv
    <3> QED BY <2>1, <3>1 DEF Places
  <2>2. CASE b \in zeroq
    <3>1. b \notin pool /\ Q = {} /\ O = {}
      BY <1>2, <2>2 DEF PlaceInv
    <3> QED BY <2>2, <3>1 DEF Places
  <2>3. CASE b \notin pool \cup zeroq
    <3>1. PICK i \in Socks : b \in HeldBy(i)
      BY <2>3 DEF PlaceInv
    <3>2. Q \subseteq {i} /\ O \subseteq {i}
      BY <1>2, <3>1 DEF PlaceInv
    <3> Places(b) = {<<"queue", j>> : j \in Q} \cup {<<"old", j>> : j \in O}
      BY <2>3 DEF Places
    <3>3. CASE b \in Range(ctx[i].rxqueue)
      <4>1. Q = {i} /\ O = {}
        BY <3>2, <3>3 DEF PlaceInv
      <4> HIDE DEF Q, O
      <4>2. {<<"queue", j>> : j \in Q} = {<<"queue", i>>}
        BY <4>1
      <4>3. {<<"old", j>> : j \in O} = {}
        BY <4>1
      <4> QED BY <4>2, <4>3
    <3>4. CASE b \notin Range(ctx[i].rxqueue)
      <4>1. Q = {} /\ O = {i}
        BY <3>1, <3>2, <3>4 DEF HeldBy
      <4> HIDE DEF Q, O
      <4>2. {<<"old", j>> : j \in O} = {<<"old", i>>}
        BY <4>1
      <4>3. {<<"queue", j>> : j \in Q} = {}
        BY <4>1
      <4> QED BY <4>2, <4>3
    <3> QED BY <3>3, <3>4
  <2> QED BY <2>1, <2>2, <2>3
<1> QED BY <1>3, FS_Singleton

\* Every receive buffer is in one place and comes back, and a read returns
\* data of the connection it reads from: DataAccounted, always.
THEOREM DataIsAccounted == Spec => []DataAccounted
<1>1. IInv => DataAccounted
  <2>1. CleanClose => Orderly
    BY DEF CleanClose, Orderly
  <2> QED BY <2>1, OnePlace DEF IInv, DataAccounted, BuffersReturn,
             DataOfConnection, FreshInv
<1> QED BY <1>1, InvariantHolds, PTL

\* A selector is woken when there is something for it, and a send that
\* returns success was done by the driver: UsersAreTold, always.
THEOREM UsersAreToldRight == Spec => []UsersAreTold
<1>1. IInv => UsersAreTold
  <2> SUFFICES ASSUME IInv, PlainSends, NEW u \in Users,
                      user[u] = Idle("sent") \/ user[u].pc = "segment",
                      NEW k \in DOMAIN txq, txq[k].user = u
               PROVE  FALSE
    BY DEF IInv, UsersAreTold, SentWhenReturned, PlainSends
  <2>1. Waits(u)
    BY DEF IInv, SendInv
  <2> QED BY <2>1 DEF Waits, Idle
<1> QED BY <1>1, InvariantHolds, PTL

\* Data of a connection becomes more only when a packet is received.
LEMMA FreshGrows ==
  ASSUME [Next]_vars, ~(fresh' \subseteq fresh)
  PROVE  \E i \in Socks, b \in Bufs, n \in 1..MAX_UNITS :
           custom_receive_tcpip(i, b, n) /\ RoomForPacket
<1>1. ASSUME NEW u \in Users, UserStep(u) PROVE fresh' \subseteq fresh
  BY Zenon, <1>1
     DEF UserStep, PurgeAgain, ClearContext, blockForDataRx, BlockRx,
     UnblockRx, SelectEnd, blockSelect, SelectAgain, BlockTx, UnblockTx,
     NextSegment, Purge, FreshAfterClear, bufVars
<1>2. ASSUME NEW u \in Users, Calls(u) PROVE fresh' \subseteq fresh
  <2>1. ASSUME NEW i \in Socks, NEW n \in 1..MAX_UNITS,
               Api_recvfrom(u, i, n)
        PROVE  fresh' \subseteq fresh
    BY <2>1 DEF Api_recvfrom
  <2>2. ASSUME NEW i \in Socks, Api_select(u, i) PROVE fresh' \subseteq fresh
    BY <2>2 DEF Api_select, FreshAfterClear
  <2> QED BY Zenon, <1>2, <2>1, <2>2
             DEF Calls, Api_socket, Api_shutdown, t_sendto,
             Api_accept_ver1, Purge, bufVars
<1>3. CASE \/ \E u \in Users, S \in SUBSET Socks : Api_select_ver1(u, S)
           \/ \E b \in Bufs : zero_copy_free(b)
           \/ txpkt_free \/ UNCHANGED vars
           \/ \E i \in Socks : PeerClose(i) \/ Incoming(i) \/ Command(i)
  BY <1>3 DEF Api_select_ver1, zero_copy_free, txpkt_free, PeerClose,
     Incoming, Command, FreshAfterClear, bufVars, vars
<1>4. ASSUME NEW i \in Socks, NEW b \in Bufs, NEW n \in 1..MAX_UNITS,
             custom_receive_tcpip(i, b, n), ~RoomForPacket
      PROVE  fresh' \subseteq fresh
  BY <1>4 DEF custom_receive_tcpip
<1> QED BY <1>1, <1>2, <1>3, <1>4 DEF Next, TargetStep

\* With several sockets open a packet never takes the last receive buffer.
\* Everything that is not free is then in the queue of an open socket, so
\* that the reserve counts it: ReserveKept.
THEOREM ReserveIsKept == Spec => ReserveKept
<1>1. ASSUME IInv, [Next]_vars, fresh \subseteq fresh', fresh # fresh',
             AllQueued, Cardinality(ActiveSocks) > 2
      PROVE  pool' # {}
  <2>1. PICK i \in Socks, b \in Bufs, n \in 1..MAX_UNITS :
          custom_receive_tcpip(i, b, n) /\ RoomForPacket
    BY <1>1, FreshGrows
  <2>2. b \in pool /\ pool' = pool \ {b} /\ zeroq = {}
    BY <1>1, <2>1 DEF custom_receive_tcpip, GivenBack, AllQueued
  <2>3. /\ \A j \in Socks : HeldBy(j) = Range(ctx[j].rxqueue)
        /\ \A j \in Socks : ~ctx[j].handle => HeldBy(j) = {}
    <3>1. Orderly /\ "partial" \notin Happens
      BY <1>1 DEF AllQueued, Orderly
    <3> QED BY <1>1, <3>1 DEF IInv, PlaceInv, FreshInv, HeldBy
  <2> DEFINE T(S) == {x \in Bufs : \E j \in S : x \in Range(ctx[j].rxqueue)}
  <2>4. T(Socks) = Bufs \ pool
    BY <1>1, <2>2, <2>3 DEF IInv, PlaceInv
  <2>5. T(ActiveSocks) = T(Socks)
    BY <2>3 DEF ActiveSocks
  <2>6. get_total_pkts_buffered = Cardinality(T(Socks))
    BY DEF get_total_pkts_buffered, Queued
  <2>7. get_holding_buffer = Cardinality(T(Socks))
    BY <1>1, <2>5 DEF get_holding_buffer, Queued
  <2> SUFFICES ASSUME pool' = {} PROVE FALSE
    OBVIOUS
  <2>8. T(Socks) = Bufs \ {b}
    BY <2>2, <2>4
  <2>9. /\ Cardinality(Bufs \ {b}) = PCB - 1
        /\ PCB \in Nat /\ PCB >= 3
    BY BufAssumption, FS_RemoveElement, FS_CardinalityType DEF PCB
  <2> HIDE DEF T
  <2> QED BY <2>1, <2>6, <2>7, <2>8, <2>9 DEF RoomForPacket
<1>2. IInv /\ [Next]_vars =>
        [ (/\ fresh \subseteq fresh' /\ fresh # fresh' /\ AllQueued
           /\ Cardinality(ActiveSocks) > 2) => pool' # {} ]_vars
  BY <1>1
<1> QED BY <1>2, InvariantHolds, PTL DEF Spec, ReserveKept
=============================================================================
