------------------------- MODULE StoreRecallProofs -------------------------
(***************************************************************************)
(* Proofs about StoreRecall for every number of user tasks, table of data  *)
(* sets, length of a context and of a message, and for every setting.      *)
(***************************************************************************)
EXTENDS StoreRecall, QueueLemmas

READY == <<"ready", "">>
RECALL == <<"recall", "">>
INITSTACK == <<"stack_init", "">>
POWER(m) == <<"power", m>>

In(q, c) == \E k \in DOMAIN q : q[k] = c
Queued(c) == In(txq, c)
Sent == \E u \in Users : user[u].pc = "sent"

\* A table has a data set with this content.
Holds(t, id, data) ==
  \E i \in Slots : t.slot[i] = [dset_id |-> id, data |-> data]
Stored(id) == Holds(hd, id, <<"header">> \o target.saved[id])

\* From its power until it has been told to recall, a booted target too.
Restarting == \/ target.phase \in {"off", "boot"}
              \/ target.phase = "booted" /\ ~Queued(RECALL)

(***************************************************************************)
(* User tasks: what one does is what its setting lets it do, and without   *)
(* "interleave" one is in the driver at a time.  Who waits has placed a    *)
(* request, and whoever is to suspend is counted already.                  *)
(***************************************************************************)
UserInv ==
  /\ setting \in Settings
  /\ \A u \in Users :
       /\ user[u].pc = "idle" <=> user[u].op = "idle"
       /\ user[u].op # "idle" => user[u].op \in OpsOf[u]
       /\ user[u].pc \in {"start", "sent"} => user[u].op = "suspend"
  /\ "interleave" \notin Happens =>
       \A u, v \in Users : user[u].pc # "idle" /\ user[v].pc # "idle" => u = v
  /\ asynchRequest = "query" => \E u \in Users : user[u].pc = "wait"

CycleInv ==
  cycles + Cardinality({u \in Users : /\ user[u].pc \in {"in", "start"}
                                      /\ user[u].op = "suspend"})
    <= MaxCycles + Cardinality(Users)

(***************************************************************************)
(* Contexts: what the target has stored is in the table under its id,      *)
(* below the header, until it has read it back, if it wrote it in one      *)
(* event.                                                                  *)
(***************************************************************************)
Whole == "pieces" \notin Happens

ContextInv ==
  /\ target.phase = "store" =>
       /\ target.ctx = target.saved
       /\ Whole => \A id \in DSET_STORE_RECALL :
                     IF id \in target.todo THEN target.written[id] = 0
                                           ELSE Stored(id)
  /\ target.phase \in {"off", "boot", "booted"} =>
       /\ target.todo = {}
       /\ Whole => \A id \in DSET_STORE_RECALL : Stored(id)
  /\ target.phase = "up" =>
       \A id \in target.todo : \E i \in Slots : hd.slot[i].dset_id = id
  /\ drv = "down" => target.phase = "off"

ReadbackInv ==
  OneSuspender /\ Whole /\ target.phase = "up" =>
    \A id \in DSET_STORE_RECALL :
      IF id \in target.todo THEN Stored(id)
                            ELSE target.ctx[id] = target.saved[id]

(***************************************************************************)
(* The order of ready and recall when one task suspends at a time: there   *)
(* is one store at a time, and one recall, which the next store follows.   *)
(***************************************************************************)
Ordered(q) ==
  /\ \A k, l \in DOMAIN q : q[k] = q[l] /\ q[k] \in {READY, RECALL} => k = l
  /\ \A k, l \in DOMAIN q : q[k] = READY /\ q[l] = RECALL => l < k

Order ==
  /\ Ordered(txq)
  /\ Queued(READY) => target.phase \in {"up", "booted"}
  /\ Queued(RECALL) => target.phase = "booted"
  /\ Queued(READY) \/ target.phase = "store" =>
       strrcl.state = "START" \/ (strrcl.state = "INIT" /\ Sent)
  /\ Restarting => strrcl.state # "INIT" /\ ~Queued(READY)
  /\ asynchRequest = "finish" =>
       target.phase \in {"boot", "booted"} /\ ~Queued(RECALL)
  /\ target.phase \in {"off", "boot"} => ~strrcl.wmiReady

OrderInv == OneSuspender => Order

FinishOk ==
  /\ asynchRequest = "finish" => strrcl.state \in {"ACTIVE", "ACTIVE_B"}
  /\ drv = "down" => strrcl.state = "ACTIVE"
  /\ Sent => Queued(READY) \/ target.phase = "store"
  /\ ~asserted

FinishInv == OneSuspender /\ "early_event" \notin Happens => FinishOk

(***************************************************************************)
(* Without "interleave" users are out from the command to store until the  *)
(* recall is queued.                                                       *)
(***************************************************************************)
Out(u) == user[u].pc \in {"idle", "sent", "wait"}

Blocked ==
  /\ Queued(READY) \/ target.phase = "store" \/ Restarting => strrcl.block
  /\ strrcl.block => asynchRequest # "query" /\ \A u \in Users : Out(u)

BlockInv == "interleave" \notin Happens => Blocked

(***************************************************************************)
(* What a booted target has heard and what it will hear.  A task that      *)
(* begins to suspend finds nothing on its way and nothing to be read back. *)
(***************************************************************************)
Suspending(u) == user[u].pc \in {"in", "start"} /\ user[u].op = "suspend"

\* The queue and what was heard, up to the recall that is to come.
Silent(q, h) == q = <<>> /\ h = <<>>
InitQueued(q, h) == q = <<INITSTACK>> /\ h = <<>>
InitHeard(q, h) == q = <<>> /\ h = <<"stack_init">>
BothQueued(q, h) ==
  Len(q) > 1 /\ q[1] = INITSTACK /\ q[2] = RECALL /\ h = <<>>
RecallQueued(q, h) == Len(q) > 0 /\ q[1] = RECALL /\ h = <<"stack_init">>

Hears ==
  \/ Silent(txq, target.heard)
  \/ /\ strrcl.state # "ACTIVE"
     /\ \/ InitQueued(txq, target.heard) \/ InitHeard(txq, target.heard)
        \/ BothQueued(txq, target.heard) \/ RecallQueued(txq, target.heard)

HeardOk ==
  /\ Queued(READY) \/ (\E u \in Users : Suspending(u)) =>
       target.phase = "up" /\ target.todo = {}
  /\ \A k \in DOMAIN txq : txq[k] = READY => k = Len(txq)
  /\ \A u \in Users : user[u] = [pc |-> "in", op |-> "suspend"]
                        => txq = <<>>
  /\ target.phase = "store" => txq = <<>>
  /\ target.phase \in {"off", "boot"} =>
       txq = <<>> /\ target.heard = <<>> /\ strrcl.state # "ACTIVE_B"
  /\ target.phase = "booted" => Hears
  /\ target.phase = "booted" /\ strrcl.state = "ACTIVE_B" =>
       txq = <<INITSTACK>> \/ target.heard = <<"stack_init">>
  /\ target.heard \in {<<>>, <<"stack_init">>, <<"stack_init", "recall">>}

HeardInv == Happens \cap {"resuspend", "interleave"} = {} => HeardOk

(***************************************************************************)
(* The power mode: the mode the target will be in when it has carried out  *)
(* what is on its way is the user's, with no vote for full performance     *)
(* left; from SuspendPower on it is full performance, with one vote.       *)
(***************************************************************************)
Sets(c, m) == c = POWER(m) \/ (c = RECALL /\ m = "MAX")
SetsMode(c) == \E m \in Modes : Sets(c, m)
ModeComing(q, mode, m) ==
  \/ mode = m /\ \A k \in DOMAIN q : ~SetsMode(q[k])
  \/ \E k \in DOMAIN q : /\ Sets(q[k], m)
                         /\ \A j \in k + 1 .. Len(q) : ~SetsMode(q[j])

Starting == \E u \in Users : user[u].pc = "start"

\* A command to go to full performance is on its way, or was.
FullComing(q, mode) == (q = <<>> /\ mode = "MAX") \/ q = <<POWER("MAX")>>

Quiet == /\ strrcl.state = "INIT" /\ ~Starting /\ ~Queued(READY)
         /\ target.phase # "store" /\ ~Restarting

PowerOk ==
  /\ Quiet => /\ power.module = 0
               /\ ModeComing(txq, target.mode, power.user)
  /\ strrcl.state = "INIT" /\ Starting =>
       power.module = 1 /\ FullComing(txq, target.mode)
  /\ Queued(READY) =>
       /\ power.module = 1
       /\ \/ txq = <<READY>> /\ target.mode = "MAX"
          \/ txq = <<POWER("MAX"), READY>>
  /\ target.phase = "store" => target.mode = "MAX"
  /\ target.phase = "store" \/ Restarting => power.module = 1

PowerInv == Undisturbed => PowerOk

IInv ==
  /\ TypeOK /\ UserInv /\ CycleInv /\ TableSound /\ PowerVotes
  /\ ContextInv /\ ReadbackInv /\ OrderInv /\ FinishInv /\ BlockInv
  /\ HeardInv /\ PowerInv
-----------------------------------------------------------------------------
(***************************************************************************)
(* The table of data sets.                                                 *)
(***************************************************************************)
SlotRec == [dset_id : DSET_STORE_RECALL \cup {0}, data : Seq(Words)]
Table == [slot : [Slots -> SlotRec], blocks : Nat]
InUse(t) == {i \in Slots : t.slot[i].data # NoData}

\* A data set has one slot; a slot in use has data and a free one none.
OneSlotEach(t) ==
  \A i, j \in Slots :
    t.slot[i].dset_id = t.slot[j].dset_id /\ i # j => t.slot[i].dset_id = 0
Sound(t) ==
  /\ OneSlotEach(t)
  /\ \A i \in Slots : (t.slot[i].dset_id = 0) <=> (t.slot[i].data = NoData)
  /\ t.blocks = Cardinality(InUse(t))

\* Slots are finitely many, and so are those in use.
LEMMA InUseIsFinite ==
  ASSUME NEW t
  PROVE  IsFiniteSet(InUse(t)) /\ Cardinality(InUse(t)) \in Nat
<1>1. IsFiniteSet(Slots)
  BY DsetAssumption, FS_Interval DEF Slots
<1>2. InUse(t) \in SUBSET Slots
  BY DEF InUse
<1> QED BY <1>1, <1>2, FS_Subset, FS_CardinalityType

\* First takes the least.
LEMMA FirstIsLeast ==
  ASSUME NEW S \in SUBSET Slots, S # {}
  PROVE  First(S) \in S /\ \A j \in S : First(S) <= j
<1>1. S \in SUBSET Nat
  BY DsetAssumption DEF Slots
<1>2. \E i \in S : \A j \in S : i <= j
  BY <1>1, LeastElement
<1> QED BY <1>2 DEF First

\* NULL is data of one word, which is neither Junk nor the header.
LEMMA NoDataType ==
  /\ NoData \in Seq(Words)
  /\ Junk \in Words /\ NoData[1] \notin {Junk, "header"}
BY DsetAssumption DEF NoData

\* dset_find finds the data set, or there is none.
LEMMA FindFinds ==
  ASSUME NEW t \in Table, NEW id
  PROVE  \/ /\ dset_find(t, id) = 0
            /\ \A i \in Slots : t.slot[i].dset_id # id
         \/ /\ dset_find(t, id) \in Slots /\ dset_find(t, id) # 0
            /\ t.slot[dset_find(t, id)].dset_id = id
<1> DEFINE S == {i \in Slots : t.slot[i].dset_id = id}
<1>1. S \in SUBSET Slots /\ 0 \notin Slots
  BY DEF Slots
<1>2. CASE S = {}
  BY <1>2 DEF dset_find
<1>3. CASE S # {}
  <2>1. First(S) \in S
    <3> HIDE DEF S
    <3> QED BY <1>1, <1>3, FirstIsLeast
  <2>2. dset_find(t, id) = First(S)
    BY <1>3 DEF dset_find
  <2> QED BY <1>1, <2>1, <2>2
<1> QED BY <1>2, <1>3

\* Free takes the data away and nothing else.
LEMMA FreeFrees ==
  ASSUME NEW t \in Table, NEW i \in Slots, t.blocks = Cardinality(InUse(t))
  PROVE  /\ Free(t, i) \in Table
         /\ Free(t, i).slot = [t.slot EXCEPT ![i].data = NoData]
         /\ Free(t, i).blocks = Cardinality(InUse(Free(t, i)))
         /\ InUse(Free(t, i)) = InUse(t) \ {i}
<1> DEFINE f == Free(t, i)
<1>1. IsFiniteSet(InUse(t)) /\ Cardinality(InUse(t)) \in Nat
  BY InUseIsFinite
<1>2. Cardinality(InUse(t) \ {i})
        = IF i \in InUse(t) THEN Cardinality(InUse(t)) - 1
          ELSE Cardinality(InUse(t))
  BY <1>1, FS_RemoveElement
<1>3. CASE t.slot[i].data = NoData
  <2>1. f = t
    BY <1>3 DEF Free
  <2>2. t.slot = [t.slot EXCEPT ![i].data = NoData]
    BY <1>3 DEF Table, SlotRec
  <2>3. i \notin InUse(t)
    BY <1>3 DEF InUse
  <2> QED BY <2>1, <2>2, <2>3
<1>4. CASE t.slot[i].data # NoData
  <2>1. f = [t EXCEPT !.slot[i].data = NoData, !.blocks = @ - 1]
    BY <1>4 DEF Free
  <2>2. f.slot = [t.slot EXCEPT ![i].data = NoData]
    BY <2>1 DEF Table
  <2>3. f.slot \in [Slots -> SlotRec]
    <3>1. t.slot \in [Slots -> SlotRec]
      BY DEF Table
    <3>2. [t.slot[i] EXCEPT !.data = NoData] \in SlotRec
      BY <3>1, NoDataType DEF SlotRec
    <3> QED BY <2>2, <3>1, <3>2
  <2>4. InUse(f) = InUse(t) \ {i}
    BY <2>2 DEF InUse, Table, SlotRec
  <2>5. i \in InUse(t)
    BY <1>4 DEF InUse
  <2>6. Cardinality(InUse(f)) = t.blocks - 1
    BY <1>2, <2>4, <2>5
  <2>7. IsFiniteSet(InUse(f)) /\ Cardinality(InUse(f)) \in Nat
    BY InUseIsFinite
  <2>8. f.blocks = t.blocks - 1
    BY <2>1 DEF Table
  <2>9. f = [slot |-> f.slot, blocks |-> f.blocks]
    BY <2>1 DEF Table
  <2>10. f \in Table
    <3> HIDE DEF f
    <3> QED BY <2>3, <2>6, <2>7, <2>8, <2>9 DEF Table
  <2> QED BY <2>2, <2>4, <2>6, <2>8, <2>10
<1> QED BY <1>3, <1>4

\* The slot dset_get takes, new or not, before it frees what it holds.
Found(t, id) == IF dset_find(t, id) # 0
                THEN [table |-> t, at |-> dset_find(t, id)]
                ELSE dset_insert(t, id)

\* The slot belongs to the data set, and the table keeps the others.
LEMMA FoundIsFound ==
  ASSUME NEW t \in Table, Sound(t), NEW id \in DSET_STORE_RECALL
  PROVE  \/ Found(t, id) = [table |-> t, at |-> 0]
         \/ \E i \in Slots, f \in Table :
              /\ Found(t, id) = [table |-> f, at |-> i] /\ i # 0
              /\ f.slot[i].dset_id = id
              /\ \A j \in Slots \ {i} :
                   f.slot[j] = t.slot[j] /\ t.slot[j].dset_id # id
              /\ t.slot[i].dset_id \in {0, id}
              /\ f.blocks = Cardinality(InUse(f))
<1>0. id # 0
  BY DsetAssumption
<1>1. CASE dset_find(t, id) # 0
  <2> DEFINE i == dset_find(t, id)
  <2>1. i \in Slots /\ i # 0 /\ t.slot[i].dset_id = id
    BY <1>1, FindFinds
  <2>2. Found(t, id) = [table |-> t, at |-> i]
    BY <1>1 DEF Found
  <2>3. \A j \in Slots \ {i} : t.slot[j].dset_id # id
    BY <1>0, <2>1 DEF Sound, OneSlotEach
  <2> HIDE DEF i
  <2> QED BY <2>1, <2>2, <2>3 DEF Sound
<1>2. CASE dset_find(t, id) = 0 /\ dset_find(t, 0) = 0
  BY <1>2 DEF Found, dset_insert
<1>3. CASE dset_find(t, id) = 0 /\ dset_find(t, 0) # 0
  <2> DEFINE i == dset_find(t, 0)
             f == [t EXCEPT !.slot[i].dset_id = id]
  <2>1. i \in Slots /\ i # 0 /\ t.slot[i].dset_id = 0
    BY <1>3, FindFinds
  <2>2. \A j \in Slots : t.slot[j].dset_id # id
    BY <1>0, <1>3, FindFinds
  <2>3. Found(t, id) = [table |-> Free(f, i), at |-> i]
    BY <1>3 DEF Found, dset_insert
  <2> HIDE DEF i
  <2>4. f.slot = [t.slot EXCEPT ![i].dset_id = id] /\ f.blocks = t.blocks
    BY <2>1 DEF Table
  <2>5. f.slot[i].data = NoData /\ f.slot[i].dset_id = id
    BY <2>1, <2>4 DEF Table, SlotRec, Sound
  <2>6. f.slot \in [Slots -> SlotRec]
    BY <2>1, <2>4 DEF Table, SlotRec
  <2>7. f \in Table
    <3>1. f = [slot |-> f.slot, blocks |-> f.blocks]
      BY DEF Table
    <3> HIDE DEF f
    <3> QED BY <2>4, <2>6, <3>1 DEF Table
  <2>8. \A j \in Slots \ {i} : f.slot[j] = t.slot[j]
    BY <2>1, <2>4 DEF Table
  <2>9. InUse(f) = InUse(t)
    <3>1. t.slot[i].data = NoData
      BY <2>1 DEF Sound
    <3> HIDE DEF f
    <3> QED BY <2>5, <2>8, <3>1 DEF InUse
  <2>10. Free(f, i) = f
    BY <2>5 DEF Free
  <2>11. f.blocks = Cardinality(InUse(f))
    BY <2>4, <2>9 DEF Sound
  <2>12. Found(t, id) = [table |-> f, at |-> i]
    BY <2>3, <2>10
  <2> HIDE DEF f
  <2> QED BY <2>1, <2>2, <2>5, <2>7, <2>8, <2>11, <2>12
<1> QED BY <1>1, <1>2, <1>3

\* What dset_get makes of that slot, with memory and without.
LEMMA GetOfFound ==
  ASSUME NEW t, NEW id, NEW length, NEW mem
  PROVE  dset_get(t, id, length, mem) =
           LET found == Found(t, id)
               freed == Free(found.table, found.at)
           IN IF found.at = 0 THEN found
              ELSE IF ~mem
              THEN [table |-> [freed EXCEPT !.slot[found.at].dset_id = 0],
                    at |-> 0]
              ELSE [table |-> [freed EXCEPT !.slot[found.at].data =
                                              [k \in 1 .. length |-> Junk],
                                            !.blocks = @ + 1],
                    at |-> found.at]
BY DEF dset_get, Found

(***************************************************************************)
(* dset_get leaves a sound table whatever fails, and every other data set  *)
(* in its slot; a data set it returns has the room asked for.              *)
(***************************************************************************)
LEMMA GetIsSound ==
  ASSUME NEW t \in Table, Sound(t), NEW id \in DSET_STORE_RECALL,
         NEW length \in Nat, NEW mem \in BOOLEAN
  PROVE  LET g == dset_get(t, id, length, mem)
         IN /\ g.table \in Table /\ Sound(g.table)
            /\ \A j \in Slots : t.slot[j].dset_id \notin {0, id}
                                  => g.table.slot[j] = t.slot[j]
            /\ g.at # 0 =>
                 /\ g.at \in Slots
                 /\ g.table.slot[g.at] =
                      [dset_id |-> id, data |-> [k \in 1 .. length |-> Junk]]
<1> DEFINE g == dset_get(t, id, length, mem)
           room == [k \in 1 .. length |-> Junk]
<1>0. id # 0
  BY DsetAssumption
<1>1. ASSUME Found(t, id) = [table |-> t, at |-> 0]
      PROVE  g = [table |-> t, at |-> 0]
  <2>1. Found(t, id).at = 0
    BY <1>1
  <2> QED BY <1>1, <2>1, GetOfFound
<1>2. ASSUME NEW i \in Slots, NEW f \in Table, i # 0,
             Found(t, id) = [table |-> f, at |-> i],
             f.slot[i].dset_id = id,
             \A j \in Slots \ {i} :
               f.slot[j] = t.slot[j] /\ t.slot[j].dset_id # id,
             t.slot[i].dset_id \in {0, id},
             f.blocks = Cardinality(InUse(f))
      PROVE  /\ g.table \in Table /\ Sound(g.table)
             /\ \A j \in Slots : t.slot[j].dset_id \notin {0, id}
                                  => g.table.slot[j] = t.slot[j]
             /\ g.at # 0 =>
                 /\ g.at \in Slots
                 /\ g.table.slot[g.at] = [dset_id |-> id, data |-> room]
  <2> DEFINE e == Free(f, i)
  <2>1. /\ e \in Table
        /\ e.slot = [f.slot EXCEPT ![i].data = NoData]
        /\ e.blocks = Cardinality(InUse(e))
        /\ InUse(e) = InUse(f) \ {i}
    BY <1>2, FreeFrees
  <2>2. g = IF ~mem THEN [table |-> [e EXCEPT !.slot[i].dset_id = 0], at |-> 0]
            ELSE [table |-> [e EXCEPT !.slot[i].data = room, !.blocks = @ + 1],
                  at |-> i]
    <3>1. Found(t, id).table = f /\ Found(t, id).at = i
      BY <1>2
    <3> QED BY <1>2, <3>1, GetOfFound
  <2>3. /\ e.slot[i] = [dset_id |-> id, data |-> NoData]
        /\ \A j \in Slots \ {i} : e.slot[j] = t.slot[j]
    BY <1>2, <2>1 DEF Table, SlotRec
  <2> HIDE DEF e
  <2>4. ASSUME NEW j \in Slots \ {i} PROVE
          /\ t.slot[j].dset_id # id
          /\ (t.slot[j].dset_id = 0) <=> (t.slot[j].data = NoData)
          /\ \A k \in Slots \ {i} :
               t.slot[j].dset_id = t.slot[k].dset_id /\ j # k
                 => t.slot[j].dset_id = 0
    BY <1>2 DEF Sound, OneSlotEach
  <2>5. CASE ~mem
    <3> DEFINE r == [e EXCEPT !.slot[i].dset_id = 0]
    <3>1. r.slot = [e.slot EXCEPT ![i].dset_id = 0] /\ r.blocks = e.blocks
      BY <2>1 DEF Table
    <3>2. r = [slot |-> r.slot, blocks |-> r.blocks]
      BY <2>1 DEF Table
    <3> HIDE DEF r
    <3>3. /\ r.slot[i] = [dset_id |-> 0, data |-> NoData]
          /\ \A j \in Slots \ {i} : r.slot[j] = t.slot[j]
      BY <2>1, <2>3, <3>1 DEF Table, SlotRec
    <3>4. r.slot \in [Slots -> SlotRec]
      <4>1. \A j \in Slots : r.slot[j] \in SlotRec
        <5>1. [dset_id |-> 0, data |-> NoData] \in SlotRec
          BY NoDataType DEF SlotRec
        <5>2. \A j \in Slots : t.slot[j] \in SlotRec
          BY DEF Table
        <5> QED BY <3>3, <5>1, <5>2
      <4>2. r.slot = [j \in Slots |-> r.slot[j]]
        BY <2>1, <3>1 DEF Table
      <4> QED BY <4>1, <4>2
    <3>5. r \in Table
      BY <2>1, <3>1, <3>2, <3>4 DEF Table
    <3>6. InUse(r) = InUse(e)
      BY <2>3, <3>3 DEF InUse
    <3>7. Sound(r)
      <4>1. OneSlotEach(r)
        BY <2>4, <3>3 DEF OneSlotEach
      <4>2. r.blocks = Cardinality(InUse(r))
        BY <2>1, <3>1, <3>6
      <4>3. \A j \in Slots : (r.slot[j].dset_id = 0)
                               <=> (r.slot[j].data = NoData)
        BY <2>4, <3>3
      <4> QED BY <4>1, <4>2, <4>3 DEF Sound
    <3>8. g = [table |-> r, at |-> 0]
      BY <2>2, <2>5 DEF r
    <3> HIDE DEF g
    <3> QED BY <1>2, <3>3, <3>5, <3>7, <3>8
  <2>6. CASE mem
    <3> DEFINE r == [e EXCEPT !.slot[i].data = room, !.blocks = @ + 1]
    <3>1. r.slot = [e.slot EXCEPT ![i].data = room] /\ r.blocks = e.blocks + 1
      BY <2>1 DEF Table
    <3>2. r = [slot |-> r.slot, blocks |-> r.blocks]
      <4>1. e = [slot |-> e.slot, blocks |-> e.blocks]
        BY <2>1 DEF Table
      <4> DEFINE x == [e.slot EXCEPT ![i].data = room]
      <4>2. r = [[e EXCEPT !.slot = x] EXCEPT !.blocks = @ + 1]
        BY <2>1 DEF Table
      <4> HIDE DEF x, r
      <4> QED BY <4>1, <4>2
    <3>3. room \in Seq(Words) /\ room # NoData
      BY DsetAssumption DEF NoData
    <3> HIDE DEF r, room
    <3>4. /\ r.slot[i] = [dset_id |-> id, data |-> room]
          /\ \A j \in Slots \ {i} : r.slot[j] = t.slot[j]
      BY <2>1, <2>3, <3>1 DEF Table, SlotRec
    <3>5. r.slot \in [Slots -> SlotRec]
      BY <2>1, <3>1, <3>3 DEF Table, SlotRec
    <3>6. e.blocks \in Nat
      BY <2>1 DEF Table
    <3>7. r \in Table
      BY <3>1, <3>2, <3>5, <3>6 DEF Table
    <3>8. InUse(r) = InUse(e) \cup {i} /\ i \notin InUse(e)
      BY <2>3, <3>3, <3>4 DEF InUse
    <3>9. r.blocks = Cardinality(InUse(r))
      <4>1. IsFiniteSet(InUse(e)) /\ Cardinality(InUse(e)) \in Nat
        BY InUseIsFinite
      <4>2. Cardinality(InUse(e) \cup {i}) = Cardinality(InUse(e)) + 1
        BY <3>8, <4>1, FS_AddElement
      <4> QED BY <2>1, <3>1, <3>8, <4>2
    <3>10. Sound(r)
      BY <1>0, <2>4, <3>3, <3>4, <3>9 DEF Sound, OneSlotEach
    <3>11. g = [table |-> r, at |-> i]
      BY <2>2, <2>6 DEF r
    <3> HIDE DEF g
    <3> QED BY <1>2, <3>4, <3>7, <3>10, <3>11
  <2> QED BY <2>5, <2>6
<1> QED
  <2> HIDE DEF g, room
  <2>1. /\ g.table \in Table /\ Sound(g.table)
        /\ \A j \in Slots : t.slot[j].dset_id \notin {0, id}
                                  => g.table.slot[j] = t.slot[j]
        /\ g.at # 0 =>
             /\ g.at \in Slots
             /\ g.table.slot[g.at] = [dset_id |-> id, data |-> room]
    <3>1. CASE Found(t, id) = [table |-> t, at |-> 0]
      BY <1>1, <3>1
    <3>2. CASE Found(t, id) # [table |-> t, at |-> 0]
      <4>1. PICK i \in Slots, f \in Table :
              /\ Found(t, id) = [table |-> f, at |-> i] /\ i # 0
              /\ f.slot[i].dset_id = id
              /\ \A j \in Slots \ {i} :
                   f.slot[j] = t.slot[j] /\ t.slot[j].dset_id # id
              /\ t.slot[i].dset_id \in {0, id}
              /\ f.blocks = Cardinality(InUse(f))
        BY <3>2, FoundIsFound
      <4> QED BY <1>2, <4>1
    <3> QED BY <3>1, <3>2
  <2> QED BY <2>1 DEF g, room

(***************************************************************************)
(* dset_write into a block of the length of the piece: the slot has data,  *)
(* the piece itself if it is written at the beginning, and nothing else    *)
(* changes.  The word at the beginning is Junk for a piece further on.     *)
(***************************************************************************)
LEMMA WriteWrites ==
  ASSUME NEW t \in Table, Sound(t), NEW i \in Slots,
         NEW id \in DSET_STORE_RECALL,
         NEW data \in Seq(Words), NEW offset \in 0 .. Len(data),
         data # <<>>, offset = 0 => data[1] = "header",
         t.slot[i] = [dset_id |-> id, data |-> [k \in 1 .. Len(data) |-> Junk]]
  PROVE  LET w == dset_write(t, i, data, offset)
         IN /\ w \in Table /\ Sound(w)
            /\ w.slot[i].dset_id = id
            /\ offset = 0 => w.slot[i] = [dset_id |-> id, data |-> data]
            /\ \A j \in Slots \ {i} : w.slot[j] = t.slot[j]
<1> DEFINE w == dset_write(t, i, data, offset)
           room == [k \in 1 .. Len(data) |-> Junk]
           d == [k \in DOMAIN room |->
                   IF k \in offset + 1 ..
                            offset + Clip(t, i, offset, Len(data))
                   THEN data[k - offset] ELSE room[k]]
<1>1. /\ Len(data) \in Nat \ {0} /\ Len(room) = Len(data)
      /\ DOMAIN room = 1 .. Len(data) /\ offset \in Nat
  OBVIOUS
<1>2. Clip(t, i, offset, Len(data)) = Len(data) - offset
  <2>1. Len(t.slot[i].data) = Len(data)
    BY <1>1
  <2> DEFINE n == Len(data)
  <2>2. n \in Nat /\ offset \in 0 .. n
    OBVIOUS
  <2>3. Clip(t, i, offset, n) = IF offset + n > n THEN n - offset ELSE n
    BY <2>1 DEF Clip
  <2> HIDE DEF n
  <2>4. (IF offset + n > n THEN n - offset ELSE n) = n - offset
    BY <2>2
  <2> QED BY <2>3, <2>4 DEF n
<1>3. /\ d \in Seq(Words) /\ d[1] \in {Junk, "header"}
      /\ offset = 0 => d = data
  <2>1. \A k \in 1 .. Len(data) :
          d[k] = IF k > offset THEN data[k - offset] ELSE Junk
    BY <1>1, <1>2
  <2>2. \A k \in 1 .. Len(data) : d[k] \in Words
    <3> SUFFICES ASSUME NEW k \in 1 .. Len(data) PROVE d[k] \in Words
      OBVIOUS
    <3>1. d[k] = IF k > offset THEN data[k - offset] ELSE Junk
      BY <2>1
    <3>2. k > offset => k - offset \in 1 .. Len(data)
      BY <1>1
    <3> HIDE DEF d
    <3> QED BY <3>1, <3>2, NoDataType
  <2>3. d = [k \in 1 .. Len(data) |-> d[k]]
    BY <1>1
  <2> HIDE DEF d
  <2>4. d \in Seq(Words)
    BY <1>1, <2>2, <2>3
  <2>5. d[1] \in {Junk, "header"}
    BY <1>1, <2>1
  <2>6. offset = 0 => d = data
    BY <1>1, <2>1, <2>3
  <2> QED BY <2>4, <2>5, <2>6
<1>4. w = [t EXCEPT !.slot[i].data = d]
  BY DEF dset_write, Table, SlotRec
<1> HIDE DEF d
<1>5. w.slot = [t.slot EXCEPT ![i].data = d] /\ w.blocks = t.blocks
      /\ w = [slot |-> w.slot, blocks |-> w.blocks]
  BY <1>4 DEF Table
<1> HIDE DEF w
<1>6. /\ w.slot[i] = [dset_id |-> id, data |-> d]
      /\ \A j \in Slots \ {i} : w.slot[j] = t.slot[j]
  BY <1>5 DEF Table, SlotRec
<1>7. w.slot \in [Slots -> SlotRec]
  BY <1>3, <1>5 DEF Table, SlotRec
<1>8. w \in Table
  BY <1>5, <1>7 DEF Table
<1>9. room # NoData /\ d # NoData
  <2>1. room[1] = Junk
    BY <1>1
  <2> HIDE DEF room
  <2> QED BY <1>3, <2>1, NoDataType
<1>10. InUse(w) = InUse(t)
  BY <1>6, <1>9 DEF InUse
<1>11. id # 0
  BY DsetAssumption
<1>12. Sound(w)
  BY <1>5, <1>6, <1>9, <1>10, <1>11 DEF Sound, OneSlotEach
<1> QED BY <1>3, <1>6, <1>8, <1>12 DEF w

-----------------------------------------------------------------------------
(***************************************************************************)
(* Lists of data sets: s lists the slots of S, each once.                  *)
(***************************************************************************)
Used(t, i) == {j \in Slots : j >= i /\ t.slot[j].dset_id # 0}
ItemRec == [dset_id : DSET_STORE_RECALL, length : Nat]

Lists(s, t, S) ==
  /\ s \in Seq(ItemRec) /\ Len(s) = Cardinality(S)
  /\ \A k \in DOMAIN s : \E i \in S : s[k] = Item(t.slot[i])
  /\ \A i \in S : \E k \in DOMAIN s : s[k] = Item(t.slot[i])

\* The slots in use are finitely many and their items are list items.
LEMMA UsedItems ==
  ASSUME NEW t \in Table, NEW S \in SUBSET Slots
  PROVE  /\ IsFiniteSet(S) /\ Cardinality(S) \in Nat
         /\ \A i \in Slots : t.slot[i].dset_id # 0
              => t.slot[i].dset_id \in DSET_STORE_RECALL
                 /\ Item(t.slot[i]) \in ItemRec
<1>1. IsFiniteSet(S) /\ Cardinality(S) \in Nat
  <2>1. IsFiniteSet(Slots)
    BY DsetAssumption, FS_Interval DEF Slots
  <2> QED BY <2>1, FS_Subset, FS_CardinalityType
<1>2. ASSUME NEW i \in Slots, t.slot[i].dset_id # 0
      PROVE  t.slot[i].dset_id \in DSET_STORE_RECALL
             /\ Item(t.slot[i]) \in ItemRec
  <2>1. /\ t.slot[i].dset_id \in DSET_STORE_RECALL
        /\ t.slot[i].data \in Seq(Words)
    BY <1>2 DEF Table, SlotRec
  <2>2. Len(t.slot[i].data) \in Nat
    BY <2>1
  <2> QED BY <2>1, <2>2 DEF Item, ItemRec
<1> QED BY <1>1, <1>2

\* A list grows at either end by a slot it has not.
LEMMA ListGrows ==
  ASSUME NEW t \in Table, NEW S \in SUBSET Slots, NEW s, Lists(s, t, S),
         NEW i \in Slots \ S, t.slot[i].dset_id # 0
  PROVE  /\ Lists(<<Item(t.slot[i])>> \o s, t, S \cup {i})
         /\ Lists(Append(s, Item(t.slot[i])), t, S \cup {i})
<1> DEFINE x == Item(t.slot[i])
           f == <<x>> \o s
           l == Append(s, x)
<1>1. x \in ItemRec /\ IsFiniteSet(S) /\ Cardinality(S) \in Nat
  BY UsedItems
<1>2. Cardinality(S \cup {i}) = Cardinality(S) + 1
  BY <1>1, FS_AddElement
<1>3. s \in Seq(ItemRec) /\ Len(s) \in Nat /\ Len(s) = Cardinality(S)
      /\ DOMAIN s = 1 .. Len(s)
  BY DEF Lists
<1> HIDE DEF x
<1>4. /\ f \in Seq(ItemRec) /\ Len(f) = Len(s) + 1 /\ f[1] = x
      /\ \A k \in 1 .. Len(s) : f[k + 1] = s[k]
      /\ \A k \in 2 .. Len(s) + 1 : k - 1 \in 1 .. Len(s) /\ f[k] = s[k - 1]
      /\ DOMAIN f = 1 .. Len(s) + 1
  BY <1>1, <1>3
<1>5. /\ l \in Seq(ItemRec) /\ Len(l) = Len(s) + 1 /\ l[Len(s) + 1] = x
      /\ \A k \in 1 .. Len(s) : l[k] = s[k]
      /\ DOMAIN l = 1 .. Len(s) + 1
  BY <1>1, <1>3
<1> HIDE DEF f, l
<1>6. Lists(f, t, S \cup {i})
  <2>1. ASSUME NEW k \in DOMAIN f
        PROVE  \E j \in S \cup {i} : f[k] = Item(t.slot[j])
    <3>1. CASE k = 1
      BY <1>4, <3>1 DEF x
    <3>2. CASE k # 1
      <4>1. k - 1 \in DOMAIN s /\ f[k] = s[k - 1]
        BY <1>3, <1>4, <3>2
      <4> QED BY <4>1 DEF Lists
    <3> QED BY <3>1, <3>2
  <2>2. ASSUME NEW j \in S \cup {i}
        PROVE  \E k \in DOMAIN f : f[k] = Item(t.slot[j])
    <3>1. CASE j = i
      <4>1. 1 \in DOMAIN f
        BY <1>3, <1>4
      <4> QED BY <1>4, <3>1, <4>1 DEF x
    <3>2. CASE j \in S
      <4>1. PICK k \in DOMAIN s : s[k] = Item(t.slot[j])
        BY <3>2 DEF Lists
      <4>2. k + 1 \in DOMAIN f /\ f[k + 1] = s[k]
        BY <1>3, <1>4, <4>1
      <4> QED BY <4>1, <4>2
    <3> QED BY <3>1, <3>2
  <2> QED BY <1>2, <1>3, <1>4, <2>1, <2>2 DEF Lists
<1>7. Lists(l, t, S \cup {i})
  <2>1. ASSUME NEW k \in DOMAIN l
        PROVE  \E j \in S \cup {i} : l[k] = Item(t.slot[j])
    <3>1. CASE k = Len(s) + 1
      BY <1>5, <3>1 DEF x
    <3>2. CASE k # Len(s) + 1
      <4>1. k \in DOMAIN s /\ l[k] = s[k]
        BY <1>3, <1>5, <3>2
      <4> QED BY <4>1 DEF Lists
    <3> QED BY <3>1, <3>2
  <2>2. ASSUME NEW j \in S \cup {i}
        PROVE  \E k \in DOMAIN l : l[k] = Item(t.slot[j])
    <3>1. CASE j = i
      <4>1. Len(s) + 1 \in DOMAIN l
        BY <1>3, <1>5
      <4> QED BY <1>5, <3>1, <4>1 DEF x
    <3>2. CASE j \in S
      <4>1. PICK k \in DOMAIN s : s[k] = Item(t.slot[j])
        BY <3>2 DEF Lists
      <4>2. k \in DOMAIN l /\ l[k] = s[k]
        BY <1>3, <1>5, <4>1
      <4> QED BY <4>1, <4>2
    <3> QED BY <3>1, <3>2
  <2> QED BY <1>2, <1>3, <1>5, <2>1, <2>2 DEF Lists
<1> QED BY <1>6, <1>7 DEF f, l, x

\* The empty list lists no slot.
LEMMA ListStarts ==
  ASSUME NEW t \in Table
  PROVE  Lists(<<>>, t, {})
BY FS_EmptySet DEF Lists

\* dset_get_next goes to the next slot in use.
LEMMA NextIsNext ==
  ASSUME NEW t \in Table, NEW i \in 0 .. MAX_DSET_SIZE
  PROVE  \/ dset_get_next(t, i) = 0 /\ Used(t, i + 1) = {}
         \/ /\ dset_get_next(t, i) \in Slots /\ dset_get_next(t, i) > i
            /\ Used(t, dset_get_next(t, i)) = Used(t, i + 1)
<1> DEFINE S == {j \in Slots : j > i /\ t.slot[j].dset_id # 0}
<1>1. S = Used(t, i + 1)
  BY DsetAssumption DEF Used, Slots
<1>2. CASE S = {}
  BY <1>1, <1>2 DEF dset_get_next
<1>3. CASE S # {}
  <2> DEFINE n == First(S)
  <2>1. dset_get_next(t, i) = n
    BY <1>3 DEF dset_get_next
  <2>2. n \in S /\ \A j \in S : n <= j
    <3>1. S \in SUBSET Slots
      OBVIOUS
    <3> HIDE DEF S
    <3> QED BY <1>3, <3>1, FirstIsLeast
  <2>3. n \in Slots /\ n > i /\ Slots \in SUBSET Nat
    BY <2>2, DsetAssumption DEF Slots
  <2>4. Used(t, n) = S
    <3> HIDE DEF n
    <3>1. ASSUME NEW j \in Slots, t.slot[j].dset_id # 0
          PROVE  j >= n <=> j > i
      <4>1. j \in Nat /\ n \in Nat /\ i \in Nat
        BY <2>3, DsetAssumption
      <4>2. j > i => n <= j
        BY <2>2, <3>1
      <4> HIDE DEF S
      <4> QED BY <2>3, <4>1, <4>2
    <3> QED BY <3>1 DEF Used
  <2> HIDE DEF n
  <2> QED BY <1>1, <2>1, <2>3, <2>4
<1> QED BY <1>2, <1>3

(***************************************************************************)
(* The list of the recall command lists every slot in use.  A recursive    *)
(* function is the one that its equation chooses; there is one, as         *)
(* induction from the last slot downwards shows, and a second such         *)
(* induction shows what it computes.                                       *)
(***************************************************************************)
LEMMA RecallListsAll ==
  ASSUME NEW t \in Table
  PROVE  Lists(wmi_dset_host_cfg_cmd(t), t, Used(t, 1))
<1> DEFINE N == MAX_DSET_SIZE
           item(i) == IF IS_STRRCL_DSET(t.slot[i].dset_id)
                      THEN <<Item(t.slot[i])>> ELSE <<>>
           step(f, i) == IF i = 0 THEN <<>>
                         ELSE item(i) \o f[dset_get_next(t, i)]
           from == CHOOSE f : f = [i \in 0 .. N |-> step(f, i)]
           P == {n \in 0 .. N :
                   \E g : /\ g = [i \in 0 .. N |-> g[i]] /\ g[0] = <<>>
                          /\ \A i \in n + 1 .. N : g[i] = step(g, i)}
<1>0. N \in Nat /\ N > 0 /\ Slots = 1 .. N
  BY DsetAssumption DEF Slots
<1>1. \A i \in 1 .. N :
        dset_get_next(t, i) \in 0 .. N
        /\ (dset_get_next(t, i) = 0 \/ dset_get_next(t, i) > i)
  BY <1>0, NextIsNext
<1>2. wmi_dset_host_cfg_cmd(t) = from[dset_get_first(t)]
  BY DEF wmi_dset_host_cfg_cmd
<1> HIDE DEF item
<1>3. N \in P
  <2> DEFINE g == [i \in 0 .. N |-> <<>>]
  <2>1. g = [i \in 0 .. N |-> g[i]] /\ g[0] = <<>>
    BY <1>0
  <2>2. \A i \in N + 1 .. N : g[i] = step(g, i)
    BY <1>0
  <2> HIDE DEF g, step
  <2> QED BY <1>0, <2>1, <2>2
<1>4. ASSUME NEW n \in 1 .. N, n \in P PROVE n - 1 \in P
  <2>1. PICK g : /\ g = [i \in 0 .. N |-> g[i]] /\ g[0] = <<>>
                 /\ \A i \in n + 1 .. N : g[i] = step(g, i)
    BY <1>4
  <2> DEFINE h == [g EXCEPT ![n] = step(g, n)]
  <2>2. /\ h = [i \in 0 .. N |-> h[i]] /\ h[0] = <<>>
        /\ h[n] = step(g, n) /\ \A i \in 0 .. N \ {n} : h[i] = g[i]
    <3> HIDE DEF step
    <3> QED BY <1>0, <2>1
  <2>3. ASSUME NEW i \in n .. N PROVE h[i] = step(h, i)
    <3>1. /\ dset_get_next(t, i) \in 0 .. N /\ dset_get_next(t, i) # n
          /\ i # 0 /\ i \in 0 .. N
      BY <1>0, <1>1
    <3>2. step(h, i) = step(g, i)
      <4>1. h[dset_get_next(t, i)] = g[dset_get_next(t, i)]
        BY <2>2, <3>1
      <4> HIDE DEF h
      <4> QED BY <4>1
    <3> HIDE DEF step, h
    <3>3. CASE i = n
      BY <2>2, <3>2, <3>3
    <3>4. CASE i # n
      <4>1. i \in n + 1 .. N
        BY <3>4
      <4> QED BY <2>1, <2>2, <3>1, <3>2, <3>4, <4>1
    <3> QED BY <3>3, <3>4
  <2>4. (n - 1) + 1 = n /\ n - 1 \in 0 .. N
    BY <1>0
  <2> HIDE DEF h, step
  <2> QED BY <2>2, <2>3, <2>4
<1>5. 0 \in P
  <2>1. \A n \in 0 .. N : n \in P
    <3> HIDE DEF P
    <3> QED BY <1>0, <1>3, <1>4, DownwardInduction
  <2> QED BY <1>0, <2>1
<1>6. \E f : f = [i \in 0 .. N |-> step(f, i)]
  <2>1. PICK g : /\ g = [i \in 0 .. N |-> g[i]] /\ g[0] = <<>>
                 /\ \A i \in 0 + 1 .. N : g[i] = step(g, i)
    BY <1>5
  <2>2. \A i \in 0 .. N : g[i] = step(g, i)
    <3>1. step(g, 0) = <<>>
      OBVIOUS
    <3> HIDE DEF step
    <3> QED BY <1>0, <2>1, <3>1
  <2> HIDE DEF step
  <2> QED BY <2>1, <2>2
<1>7. from = [i \in 0 .. N |-> step(from, i)]
  <2> HIDE DEF step
  <2> QED BY <1>6
<1> HIDE DEF from, P
<1>8. from[0] = <<>>
  <2>1. step(from, 0) = <<>>
    OBVIOUS
  <2>2. 0 \in 0 .. N
    BY <1>0
  <2> HIDE DEF step
  <2> QED BY <1>7, <2>1, <2>2
<1>9. \A i \in 1 .. N : from[i] = item(i) \o from[dset_get_next(t, i)]
  <2> SUFFICES ASSUME NEW i \in 1 .. N
               PROVE  from[i] = item(i) \o from[dset_get_next(t, i)]
    OBVIOUS
  <2>1. step(from, i) = item(i) \o from[dset_get_next(t, i)]
    OBVIOUS
  <2>2. i \in 0 .. N
    OBVIOUS
  <2> HIDE DEF step
  <2> QED BY <1>7, <2>1, <2>2
<1> HIDE DEF step
(* What the list lists from slot i on. *)
<1> DEFINE M == {n \in 0 .. N :
                   \A j \in n + 1 .. N : Lists(from[j], t, Used(t, j))}
<1>10. ASSUME NEW i \in 0 .. N,
              \A j \in i + 1 .. N : Lists(from[j], t, Used(t, j))
       PROVE  Lists(from[dset_get_next(t, i)], t, Used(t, i + 1))
  <2>1. CASE dset_get_next(t, i) = 0 /\ Used(t, i + 1) = {}
    BY <1>8, <2>1, ListStarts
  <2>2. CASE /\ dset_get_next(t, i) \in Slots /\ dset_get_next(t, i) > i
             /\ Used(t, dset_get_next(t, i)) = Used(t, i + 1)
    <3>1. dset_get_next(t, i) \in i + 1 .. N
      BY <1>0, <2>2
    <3> QED BY <1>10, <2>2, <3>1
  <2> QED BY <2>1, <2>2, NextIsNext
<1>11. N \in M
  BY <1>0
<1>12. ASSUME NEW n \in 1 .. N, n \in M PROVE n - 1 \in M
  <2>1. \A j \in n + 1 .. N : Lists(from[j], t, Used(t, j))
    BY <1>12
  <2>2. Lists(from[dset_get_next(t, n)], t, Used(t, n + 1))
    BY <1>0, <1>10, <2>1
  <2>3. from[n] = item(n) \o from[dset_get_next(t, n)]
    BY <1>9
  <2>4. Lists(from[n], t, Used(t, n))
    <3>1. CASE t.slot[n].dset_id = 0
      <4>1. item(n) = <<>>
        BY <3>1, DsetAssumption DEF item, IS_STRRCL_DSET
      <4>2. Used(t, n) = Used(t, n + 1)
        BY <1>0, <3>1 DEF Used
      <4>3. from[n] = from[dset_get_next(t, n)]
        BY <2>2, <2>3, <4>1 DEF Lists
      <4> QED BY <2>2, <4>2, <4>3
    <3>2. CASE t.slot[n].dset_id # 0
      <4>1. n \in Slots /\ Used(t, n + 1) \in SUBSET Slots
            /\ n \notin Used(t, n + 1)
        BY <1>0 DEF Used
      <4>2. t.slot[n].dset_id \in DSET_STORE_RECALL
        BY <3>2, <4>1, UsedItems
      <4>3. item(n) = <<Item(t.slot[n])>>
        BY <4>2 DEF item, IS_STRRCL_DSET
      <4>4. Used(t, n) = Used(t, n + 1) \cup {n}
        BY <1>0, <3>2 DEF Used
      <4>5. Lists(<<Item(t.slot[n])>> \o from[dset_get_next(t, n)], t,
                  Used(t, n + 1) \cup {n})
        BY <2>2, <3>2, <4>1, ListGrows
      <4> QED BY <2>3, <4>3, <4>4, <4>5
    <3> QED BY <3>1, <3>2
  <2>5. \A j \in n .. N : j = n \/ j \in n + 1 .. N
    OBVIOUS
  <2>6. \A j \in n .. N : Lists(from[j], t, Used(t, j))
    BY <2>1, <2>4, <2>5
  <2>7. (n - 1) + 1 = n /\ n - 1 \in 0 .. N
    BY <1>0
  <2> QED BY <2>6, <2>7
<1>13. 0 \in M
  <2>1. \A n \in 0 .. N : n \in M
    <3> HIDE DEF M
    <3> QED BY <1>0, <1>11, <1>12, DownwardInduction
  <2> HIDE DEF M
  <2> QED BY <1>0, <2>1
<1>14. \A j \in 0 + 1 .. N : Lists(from[j], t, Used(t, j))
  BY <1>0, <1>13
<1>15. Lists(from[dset_get_next(t, 0)], t, Used(t, 0 + 1))
  BY <1>0, <1>10, <1>14
<1> HIDE DEF N
<1> QED BY <1>2, <1>15 DEF dset_get_first

(***************************************************************************)
(* So does the answer to a sync that asks for as many as there can be.     *)
(***************************************************************************)
LEMMA SyncListsAll ==
  ASSUME NEW t \in Table
  PROVE  Lists(dset_fill(t, MAX_DSET_SIZE), t, Used(t, 1))
<1> DEFINE N == MAX_DSET_SIZE
           B(i) == {j \in Slots : j <= i /\ t.slot[j].dset_id # 0}
           more(s, i) == IF t.slot[i].dset_id # 0 /\ Len(s) < N
                         THEN Append(s, Item(t.slot[i])) ELSE s
           step(f, i) == IF i = 0 THEN <<>> ELSE more(f[i - 1], i)
           upTo == CHOOSE f : f = [i \in 0 .. N |-> step(f, i)]
           P == {n \in 0 .. N :
                   \E g : /\ g = [i \in 0 .. N |-> g[i]]
                          /\ \A i \in 0 .. n : g[i] = step(g, i)}
<1>0. N \in Nat /\ N > 0 /\ Slots = 1 .. N
  BY DsetAssumption DEF Slots
<1>1. dset_fill(t, MAX_DSET_SIZE) = upTo[N]
  BY DEF dset_fill
<1> HIDE DEF more
<1>2. 0 \in P
  <2> DEFINE g == [i \in 0 .. N |-> <<>>]
  <2>1. g = [i \in 0 .. N |-> g[i]] /\ g[0] = step(g, 0)
    BY <1>0
  <2>2. \A i \in 0 .. 0 : g[i] = step(g, i)
    <3>1. \A i \in 0 .. 0 : i = 0
      OBVIOUS
    <3> HIDE DEF step, g
    <3> QED BY <2>1, <3>1
  <2> HIDE DEF g, step
  <2> QED BY <1>0, <2>1, <2>2
<1>3. ASSUME NEW n \in 0 .. N - 1, n \in P PROVE n + 1 \in P
  <2>1. PICK g : /\ g = [i \in 0 .. N |-> g[i]]
                 /\ \A i \in 0 .. n : g[i] = step(g, i)
    BY <1>3
  <2> DEFINE h == [g EXCEPT ![n + 1] = step(g, n + 1)]
  <2>2. /\ h = [i \in 0 .. N |-> h[i]] /\ h[n + 1] = step(g, n + 1)
        /\ \A i \in 0 .. N \ {n + 1} : h[i] = g[i]
    <3> HIDE DEF step
    <3> QED BY <1>0, <2>1
  <2>3. ASSUME NEW i \in 0 .. n + 1 PROVE h[i] = step(h, i)
    <3>1. i \in 0 .. N /\ (i # 0 => i - 1 \in 0 .. N \ {n + 1})
      BY <1>0
    <3>2. step(h, i) = step(g, i)
      <4>1. i # 0 => h[i - 1] = g[i - 1]
        BY <2>2, <3>1
      <4> HIDE DEF h
      <4> QED BY <4>1
    <3> HIDE DEF step, h
    <3>3. CASE i = n + 1
      BY <2>2, <3>2, <3>3
    <3>4. CASE i # n + 1
      <4>1. i \in 0 .. n
        BY <3>4
      <4> QED BY <2>1, <2>2, <3>1, <3>2, <3>4, <4>1
    <3> QED BY <3>3, <3>4
  <2>4. n + 1 \in 0 .. N
    BY <1>0
  <2> HIDE DEF h, step
  <2> QED BY <2>2, <2>3, <2>4
<1>4. N \in P
  <2>1. \A n \in 0 .. N : n \in P
    <3> HIDE DEF P
    <3> QED BY <1>0, <1>2, <1>3, Induction
  <2> QED BY <1>0, <2>1
<1>5. \E f : f = [i \in 0 .. N |-> step(f, i)]
  <2> HIDE DEF step
  <2> QED BY <1>4
<1>6. upTo = [i \in 0 .. N |-> step(upTo, i)]
  <2> HIDE DEF step
  <2> QED BY <1>5
<1> HIDE DEF upTo, P
<1>7. upTo[0] = <<>>
  <2>1. step(upTo, 0) = <<>> /\ 0 \in 0 .. N
    BY <1>0
  <2> HIDE DEF step
  <2> QED BY <1>6, <2>1
<1>8. \A i \in 1 .. N : upTo[i] = more(upTo[i - 1], i)
  <2> SUFFICES ASSUME NEW i \in 1 .. N PROVE upTo[i] = more(upTo[i - 1], i)
    OBVIOUS
  <2>1. step(upTo, i) = more(upTo[i - 1], i) /\ i \in 0 .. N
    OBVIOUS
  <2> HIDE DEF step
  <2> QED BY <1>6, <2>1
<1> HIDE DEF step
<1> DEFINE M == {n \in 0 .. N : Lists(upTo[n], t, B(n))}
<1>9. 0 \in M
  <2>1. B(0) = {}
    BY <1>0
  <2> HIDE DEF B
  <2> QED BY <1>0, <1>7, <2>1, ListStarts
<1>10. ASSUME NEW n \in 0 .. N - 1, n \in M PROVE n + 1 \in M
  <2> DEFINE i == n + 1
  <2>1. i \in Slots /\ B(n) \in SUBSET Slots /\ i \notin B(n) /\ n = i - 1
        /\ i \in 1 .. N /\ i \in 0 .. N
    BY <1>0
  <2>2. Lists(upTo[n], t, B(n)) /\ upTo[i] = more(upTo[n], i)
    BY <1>8, <1>10, <2>1
  <2>3. Len(upTo[n]) < N
    <3>1. IsFiniteSet(1 .. n) /\ Cardinality(1 .. n) = n
      BY FS_Interval
    <3>2. B(n) \in SUBSET (1 .. n)
      BY <1>0
    <3>3. Cardinality(B(n)) <= n
      <4> HIDE DEF B
      <4> QED BY <3>1, <3>2, FS_Subset
    <3>4. Cardinality(B(n)) \in Nat
      <4> HIDE DEF B
      <4> QED BY <2>1, UsedItems
    <3> HIDE DEF B
    <3> QED BY <1>0, <2>2, <3>3, <3>4 DEF Lists
  <2>4. Lists(upTo[i], t, B(i))
    <3>1. CASE t.slot[i].dset_id = 0
      <4>1. B(i) = B(n)
        BY <1>0, <3>1
      <4> HIDE DEF B
      <4> QED BY <2>2, <3>1, <4>1 DEF more
    <3>2. CASE t.slot[i].dset_id # 0
      <4>1. B(i) = B(n) \cup {i}
        BY <1>0, <3>2
      <4>2. upTo[i] = Append(upTo[n], Item(t.slot[i]))
        BY <2>2, <2>3, <3>2 DEF more
      <4> HIDE DEF B, i
      <4>3. i \in Slots \ B(n)
        BY <2>1
      <4>4. Lists(Append(upTo[n], Item(t.slot[i])), t, B(n) \cup {i})
        BY <2>1, <2>2, <3>2, <4>3, ListGrows
      <4> QED BY <4>1, <4>2, <4>4
    <3> QED BY <3>1, <3>2
  <2> QED BY <2>1, <2>4
<1>11. N \in M
  <2>1. \A n \in 0 .. N : n \in M
    <3> HIDE DEF M
    <3> QED BY <1>0, <1>9, <1>10, Induction
  <2> HIDE DEF M
  <2> QED BY <1>0, <2>1
<1>12. B(N) = Used(t, 1)
  BY <1>0 DEF Used
<1> HIDE DEF B
<1> QED BY <1>1, <1>11, <1>12

(***************************************************************************)
(* A table with the whole context lists the context: every data set once,  *)
(* with the length of what was stored under its id.                        *)
(***************************************************************************)
LEMMA ContextIsListed ==
  ASSUME NEW t \in Table, Sound(t),
         NEW saved \in [DSET_STORE_RECALL -> Seq(Words)],
         \A id \in DSET_STORE_RECALL : Holds(t, id, <<"header">> \o saved[id]),
         NEW s, Lists(s, t, Used(t, 1))
  PROVE  /\ Len(s) = Cardinality(DSET_STORE_RECALL)
         /\ {s[k] : k \in DOMAIN s}
              = {[dset_id |-> id, length |-> Header + Len(saved[id])]
                   : id \in DSET_STORE_RECALL}
         /\ {s[k].dset_id : k \in DOMAIN s} = DSET_STORE_RECALL
<1> DEFINE U == Used(t, 1)
           f == [i \in U |-> t.slot[i].dset_id]
           item(id) == [dset_id |-> id, length |-> Header + Len(saved[id])]
<1>1. U \in SUBSET Slots /\ IsFiniteSet(U)
  <2>1. U \in SUBSET Slots
    BY DEF Used
  <2> HIDE DEF U
  <2> QED BY <2>1, UsedItems
<1>2. \A i \in U : t.slot[i].dset_id \in DSET_STORE_RECALL
  BY UsedItems DEF Used
<1>3. \A id \in DSET_STORE_RECALL :
        \E i \in U : t.slot[i] = [dset_id |-> id,
                                  data |-> <<"header">> \o saved[id]]
  <2> SUFFICES ASSUME NEW id \in DSET_STORE_RECALL
               PROVE  \E i \in U : t.slot[i] =
                        [dset_id |-> id, data |-> <<"header">> \o saved[id]]
    OBVIOUS
  <2>1. PICK i \in Slots : t.slot[i] =
                        [dset_id |-> id, data |-> <<"header">> \o saved[id]]
    BY DEF Holds
  <2>2. t.slot[i].dset_id = id /\ id # 0 /\ i >= 1
    BY <2>1, DsetAssumption DEF Slots
  <2> QED BY <2>1, <2>2 DEF Used
<1>4. \A i, j \in U : t.slot[i].dset_id = t.slot[j].dset_id => i = j
  BY <1>1 DEF Sound, OneSlotEach, Used
<1>5. \A id \in DSET_STORE_RECALL : Len(<<"header">> \o saved[id])
                                      = Header + Len(saved[id])
  <2> SUFFICES ASSUME NEW id \in DSET_STORE_RECALL
               PROVE  Len(<<"header">> \o saved[id])
                        = Header + Len(saved[id])
    OBVIOUS
  <2>1. saved[id] \in Seq(Words) /\ <<"header">> \in Seq(Words)
    BY DsetAssumption
  <2> QED BY <2>1 DEF Header
<1> HIDE DEF U
<1>6. \A i \in U : Item(t.slot[i]) = item(t.slot[i].dset_id)
  <2> SUFFICES ASSUME NEW i \in U
               PROVE  Item(t.slot[i]) = item(t.slot[i].dset_id)
    OBVIOUS
  <2>1. PICK j \in U : t.slot[j] =
          [dset_id |-> t.slot[i].dset_id,
           data |-> <<"header">> \o saved[t.slot[i].dset_id]]
    BY <1>2, <1>3
  <2>2. i = j
    BY <1>4, <2>1
  <2> QED BY <1>2, <1>5, <2>1, <2>2 DEF Item
<1>12. \A id \in DSET_STORE_RECALL : \E i \in U : t.slot[i].dset_id = id
  <2> SUFFICES ASSUME NEW id \in DSET_STORE_RECALL
               PROVE  \E i \in U : t.slot[i].dset_id = id
    OBVIOUS
  <2>1. PICK i \in U : t.slot[i] = [dset_id |-> id,
                                   data |-> <<"header">> \o saved[id]]
    BY <1>3
  <2> QED BY <2>1
<1>7. Cardinality(U) = Cardinality(DSET_STORE_RECALL)
  <2>1. f \in Injection(U, DSET_STORE_RECALL)
    BY <1>2, <1>4 DEF Injection, IsInjective
  <2>2. f \in Surjection(U, DSET_STORE_RECALL)
    <3>1. \A id \in DSET_STORE_RECALL : \E i \in U : f[i] = id
      BY <1>12
    <3> QED BY <1>2, <3>1 DEF Surjection
  <2>3. ExistsBijection(U, DSET_STORE_RECALL)
    BY <2>1, <2>2 DEF Bijection, ExistsBijection
  <2> QED BY <1>1, <2>3, FS_Bijection
<1> HIDE DEF item
<1>8. Lists(s, t, U)
  BY DEF U
<1>9. {s[k] : k \in DOMAIN s} = {item(id) : id \in DSET_STORE_RECALL}
  <2>1. ASSUME NEW k \in DOMAIN s
        PROVE  \E id \in DSET_STORE_RECALL : s[k] = item(id)
    <3>1. PICK i \in U : s[k] = Item(t.slot[i])
      BY <1>8 DEF Lists
    <3> QED BY <1>2, <1>6, <3>1
  <2>2. ASSUME NEW id \in DSET_STORE_RECALL
        PROVE  \E k \in DOMAIN s : s[k] = item(id)
    <3>1. PICK i \in U : t.slot[i].dset_id = id
      BY <1>12
    <3> QED BY <1>6, <1>8, <3>1 DEF Lists
  <2> QED BY <2>1, <2>2
<1>10. \A id \in DSET_STORE_RECALL : item(id).dset_id = id
  BY DEF item
<1>11. {s[k].dset_id : k \in DOMAIN s} = DSET_STORE_RECALL
  <2>1. ASSUME NEW k \in DOMAIN s PROVE s[k].dset_id \in DSET_STORE_RECALL
    <3>1. PICK id \in DSET_STORE_RECALL : s[k] = item(id)
      BY <1>9
    <3> QED BY <1>10, <3>1
  <2>2. ASSUME NEW id \in DSET_STORE_RECALL
        PROVE  \E k \in DOMAIN s : s[k].dset_id = id
    <3>1. PICK k \in DOMAIN s : s[k] = item(id)
      BY <1>9
    <3> QED BY <1>10, <3>1
  <2> QED BY <2>1, <2>2
<1> QED BY <1>7, <1>8, <1>9, <1>11 DEF item, Lists

-----------------------------------------------------------------------------
(***************************************************************************)
(* The messages of a readback from offset 0, and the context the target    *)
(* puts together of them.                                                  *)
(***************************************************************************)
MsgRec == [offset : Nat, data : Seq(Words)]

\* A message has the words of d below the header at its offset.
Carries(m, d) ==
  \A j \in 1 .. Len(m.data) :
    m.offset + j < Len(d) => m.data[j] = d[m.offset + j + Header]
Covers(m, k) == k \in m.offset + 1 .. m.offset + Len(m.data)
Readback(s, d, o, len) ==
  /\ s \in Seq(MsgRec) /\ \A j \in DOMAIN s : Carries(s[j], d)
  /\ \A k \in o + 1 .. len : \E j \in DOMAIN s : Covers(s[j], k)

\* One piece: what dset_read gives at offset o below the header.
LEMMA PieceReads ==
  ASSUME NEW t, NEW i, NEW d \in Seq(Words), t.slot[i].data = d,
         NEW o \in Nat, NEW n \in Nat
  PROVE  LET m == [offset |-> o, data |-> dset_read(t, i, o + Header, n)]
         IN /\ m \in MsgRec /\ m.offset = o /\ Len(m.data) = n
            /\ Carries(m, d)
<1> DEFINE c == Clip(t, i, o + Header, n)
           r == dset_read(t, i, o + Header, n)
           m == [offset |-> o, data |-> r]
           l == Len(d)
<1>1. l \in Nat /\ DOMAIN d = 1 .. l
  OBVIOUS
<1>2. c = IF o + 1 + n > l THEN l - (o + 1) ELSE n
  BY DEF Clip, Header
<1>3. r = [k \in 1 .. n |-> IF k <= c THEN d[o + 1 + k] ELSE Junk]
  BY DEF dset_read, Header
<1> HIDE DEF c, r, l
<1>4. \A k \in 1 .. n : k <= c => o + 1 + k \in 1 .. l
  BY <1>1, <1>2
<1>5. \A k \in 1 .. n : o + k < l => k <= c
  BY <1>1, <1>2
<1>6. Junk \in Words
  BY DsetAssumption
<1>7. r \in Seq(Words) /\ Len(r) = n
  <2>1. \A k \in 1 .. n : (IF k <= c THEN d[o + 1 + k] ELSE Junk) \in Words
    BY <1>1, <1>4, <1>6
  <2> QED BY <1>3, <2>1
<1>8. \A k \in 1 .. n : o + k < l => r[k] = d[o + k + 1]
  BY <1>1, <1>3, <1>5
<1> QED BY <1>7, <1>8 DEF MsgRec, Carries, Header, r, l

(***************************************************************************)
(* The messages cover what was asked for, and carry what is stored there.  *)
(***************************************************************************)
LEMMA MessagesCover ==
  ASSUME NEW t \in Table, NEW id, NEW d \in Seq(Words),
         t.slot[dset_find(t, id)].data = d,
         NEW length \in Nat, length <= Len(d)
  PROVE  Readback(ReadbackMessages(t, id, 0, length), d, 0, length)
<1> DEFINE i == dset_find(t, id)
           len == Clip(t, i, 0, length)
<1>1. len = length /\ len \in Nat
  BY DEF Clip
<1>2. t.slot[i].data = d
  OBVIOUS
<1> DEFINE size(o) == IF len - o > MAX_EVENT_SIZE
                      THEN MAX_EVENT_SIZE ELSE len - o
           msg(o) == [offset |-> 0 + o,
                      data |-> dset_read(t, i, 0 + o + Header, size(o))]
           step(f, o) == IF o = len THEN <<>>
                         ELSE <<msg(o)>> \o f[o + size(o)]
           from == CHOOSE f : f = [o \in 0 .. len |-> step(f, o)]
           P == {n \in 0 .. len :
                   \E g : /\ g = [o \in 0 .. len |-> g[o]]
                          /\ \A o \in n .. len : g[o] = step(g, o)}
           M == {n \in 0 .. len :
                   \A o \in n .. len : Readback(from[o], d, o, len)}
<1>13. ReadbackMessages(t, id, 0, length) = from[0]
  BY DEF ReadbackMessages
<1> HIDE DEF len, i
<1>3. \A o \in 0 .. len : o # len => /\ size(o) \in Nat \ {0}
                                     /\ o + size(o) \in o + 1 .. len
  BY <1>1, DsetAssumption
<1>4. ASSUME NEW o \in 0 .. len, o # len
      PROVE  /\ msg(o) \in MsgRec /\ Carries(msg(o), d)
             /\ \A k \in o + 1 .. o + size(o) : Covers(msg(o), k)
  <2>1. size(o) \in Nat /\ o \in Nat /\ 0 + o = o
    BY <1>3, <1>4
  <2> HIDE DEF size
  <2>2. /\ msg(o) \in MsgRec /\ msg(o).offset = o
        /\ Len(msg(o).data) = size(o) /\ Carries(msg(o), d)
    BY <1>2, <2>1, PieceReads
  <2> HIDE DEF msg
  <2> QED BY <2>2 DEF Covers
<1> HIDE DEF size, msg
<1>5. len \in P
  <2> DEFINE g == [o \in 0 .. len |-> <<>>]
  <2>1. g = [o \in 0 .. len |-> g[o]] /\ g[len] = step(g, len)
    BY <1>1
  <2>2. \A o \in len .. len : o = len
    BY <1>1
  <2> HIDE DEF g, step
  <2> QED BY <1>1, <2>1, <2>2
<1>6. ASSUME NEW n \in 1 .. len, n \in P PROVE n - 1 \in P
  <2>1. PICK g : /\ g = [o \in 0 .. len |-> g[o]]
                 /\ \A o \in n .. len : g[o] = step(g, o)
    BY <1>6
  <2> DEFINE h == [g EXCEPT ![n - 1] = step(g, n - 1)]
  <2>2. /\ h = [o \in 0 .. len |-> h[o]] /\ h[n - 1] = step(g, n - 1)
        /\ \A o \in 0 .. len \ {n - 1} : h[o] = g[o]
    <3> HIDE DEF step
    <3>1. n - 1 \in 0 .. len /\ n - 1 \notin n .. len
      BY <1>1
    <3> QED BY <2>1, <3>1
  <2>3. ASSUME NEW o \in n - 1 .. len PROVE h[o] = step(h, o)
    <3>1. o # len => o + size(o) \in 0 .. len /\ o + size(o) # n - 1
      BY <1>3
    <3>2. step(h, o) = step(g, o)
      <4>1. o # len => h[o + size(o)] = g[o + size(o)]
        BY <2>2, <3>1
      <4> HIDE DEF h
      <4> QED BY <4>1
    <3> HIDE DEF step, h
    <3>3. CASE o = n - 1
      BY <2>2, <3>2, <3>3
    <3>4. CASE o # n - 1
      <4>1. o \in n .. len /\ o \in 0 .. len
        BY <3>4
      <4> QED BY <2>1, <2>2, <3>2, <3>4, <4>1
    <3> QED BY <3>3, <3>4
  <2> HIDE DEF h, step
  <2> QED BY <1>1, <2>2, <2>3
<1>7. 0 \in P
  <2>1. \A n \in 0 .. len : n \in P
    <3> HIDE DEF P
    <3> QED BY <1>1, <1>5, <1>6, DownwardInduction
  <2> HIDE DEF P
  <2> QED BY <1>1, <2>1
<1>8. from = [o \in 0 .. len |-> step(from, o)]
  <2>1. \E f : f = [o \in 0 .. len |-> step(f, o)]
    <3> HIDE DEF step
    <3> QED BY <1>7
  <2> HIDE DEF step
  <2> QED BY <2>1
<1> HIDE DEF from, P
<1>9. \A o \in 0 .. len :
        from[o] = IF o = len THEN <<>> ELSE <<msg(o)>> \o from[o + size(o)]
  <2> SUFFICES ASSUME NEW o \in 0 .. len
               PROVE  from[o] = step(from, o)
    OBVIOUS
  <2> HIDE DEF step
  <2> QED BY <1>8
<1> HIDE DEF step
<1>10. len \in M
  <2>1. from[len] = <<>> /\ len \in 0 .. len /\ \A o \in len .. len : o = len
    <3>1. len \in 0 .. len /\ \A o \in len .. len : o = len
      BY <1>1
    <3> QED BY <1>9, <3>1
  <2>2. \A k \in len + 1 .. len : FALSE
    BY <1>1
  <2>3. Readback(<<>>, d, len, len)
    BY <2>2 DEF Readback
  <2> QED BY <2>1, <2>3
<1>11. ASSUME NEW n \in 1 .. len, n \in M PROVE n - 1 \in M
  <2> DEFINE o == n - 1
             l == o + size(o)
  <2>1. o \in 0 .. len /\ o # len /\ n = o + 1
    BY <1>1
  <2>2. l \in n .. len /\ size(o) \in Nat /\ l = o + size(o)
    BY <1>3, <2>1
  <2>3. from[o] = <<msg(o)>> \o from[l]
    BY <1>9, <2>1
  <2> HIDE DEF o, l
  <2>4. Readback(from[l], d, l, len)
    BY <1>11, <2>2
  <2>5. /\ msg(o) \in MsgRec /\ Carries(msg(o), d)
        /\ \A k \in o + 1 .. l : Covers(msg(o), k)
    BY <1>4, <2>1, <2>2
  <2> DEFINE s == <<msg(o)>> \o from[l]
  <2>6. /\ s \in Seq(MsgRec) /\ s[1] = msg(o) /\ 1 \in DOMAIN s
        /\ \A j \in DOMAIN s : j = 1 \/ (j - 1 \in DOMAIN from[l]
                                         /\ s[j] = from[l][j - 1])
        /\ \A j \in DOMAIN from[l] : j + 1 \in DOMAIN s
                                     /\ s[j + 1] = from[l][j]
    <3>1. from[l] \in Seq(MsgRec)
      BY <2>4 DEF Readback
    <3> QED BY <2>5, <3>1
  <2> HIDE DEF s
  <2>7. \A j \in DOMAIN s : Carries(s[j], d)
    BY <2>4, <2>5, <2>6 DEF Readback
  <2>8. ASSUME NEW k \in o + 1 .. len
        PROVE  \E j \in DOMAIN s : Covers(s[j], k)
    <3>1. CASE k \in o + 1 .. l
      BY <2>5, <2>6, <3>1
    <3>2. CASE k \notin o + 1 .. l
      <4>1. k \in l + 1 .. len
        BY <2>1, <2>2, <3>2
      <4>2. PICK j \in DOMAIN from[l] : Covers(from[l][j], k)
        BY <2>4, <4>1 DEF Readback
      <4> QED BY <2>6, <4>2
    <3> QED BY <3>1, <3>2
  <2>9. Readback(from[o], d, o, len)
    BY <2>3, <2>6, <2>7, <2>8 DEF Readback, s
  <2>10. ASSUME NEW j \in n - 1 .. len PROVE Readback(from[j], d, j, len)
    <3>1. j = o \/ j \in n .. len
      BY DEF o
    <3> QED BY <1>11, <2>9, <3>1
  <2> QED BY <1>1, <2>10
<1>12. 0 \in M
  <2>1. \A n \in 0 .. len : n \in M
    <3> HIDE DEF M
    <3> QED BY <1>1, <1>10, <1>11, DownwardInduction
  <2> HIDE DEF M
  <2> QED BY <1>1, <2>1
<1> QED BY <1>1, <1>12, <1>13

(***************************************************************************)
(* The target reads back what is stored below the header, however many     *)
(* messages it takes and whether it asks for the header's length too.      *)
(***************************************************************************)
WordOf(sent, k) ==
  LET m == CHOOSE m \in {sent[j] : j \in DOMAIN sent} :
             k \in m.offset + 1 .. m.offset + Len(m.data)
  IN m.data[k - m.offset]

\* Word by word: the one that covers k is what was stored at k.
LEMMA WordsReadBack ==
  ASSUME NEW t \in Table, NEW id, dset_find(t, id) \in Slots,
         NEW extra \in {0, Header},
         NEW d, d = t.slot[dset_find(t, id)].data,
         NEW sent, sent = ReadbackMessages(t, id, 0, Len(d) - Header + extra)
  PROVE  /\ d \in Seq(Words)
         /\ \A k \in 1 .. Len(d) - Header :
              WordOf(sent, k) = d[k + Header] /\ d[k + Header] \in Words
<1> DEFINE size == Len(d)
           m(k) == CHOOSE x \in {sent[j] : j \in DOMAIN sent} :
                     k \in x.offset + 1 .. x.offset + Len(x.data)
<1>1. d \in Seq(Words)
  BY DEF Table, SlotRec
<1> SUFFICES ASSUME NEW k \in 1 .. size - Header
             PROVE  m(k).data[k - m(k).offset] = d[k + Header]
                    /\ d[k + Header] \in Words
  BY <1>1 DEF WordOf
<1>2. size \in Nat /\ DOMAIN d = 1 .. size
  BY <1>1
<1> HIDE DEF size
<1> DEFINE length == size - Header + extra
<1>3. length \in Nat /\ length <= size /\ k \in 0 + 1 .. length
  BY <1>2 DEF Header
<1>4. Readback(sent, d, 0, length)
  <2>1. length <= Len(d) /\ sent = ReadbackMessages(t, id, 0, length)
    BY <1>3 DEF size
  <2> HIDE DEF length
  <2>2. Readback(ReadbackMessages(t, id, 0, length), d, 0, length)
    BY <1>1, <1>3, <2>1, MessagesCover
  <2> QED BY <2>1, <2>2
<1>5. \E x \in {sent[j] : j \in DOMAIN sent} :
        k \in x.offset + 1 .. x.offset + Len(x.data)
  <2>1. PICK j \in DOMAIN sent : Covers(sent[j], k)
    BY <1>3, <1>4 DEF Readback
  <2> QED BY <2>1 DEF Covers
<1>6. /\ m(k) \in {sent[j] : j \in DOMAIN sent}
      /\ k \in m(k).offset + 1 .. m(k).offset + Len(m(k).data)
  BY <1>5
<1> HIDE DEF m
<1>7. m(k) \in MsgRec /\ Carries(m(k), d)
  BY <1>4, <1>6 DEF Readback
<1>8. m(k).offset \in Nat /\ Len(m(k).data) \in Nat
  BY <1>7 DEF MsgRec
<1> DEFINE j == k - m(k).offset
<1>9. j \in 1 .. Len(m(k).data) /\ m(k).offset + j = k /\ k < size
      /\ k + Header \in 1 .. size
  BY <1>2, <1>6, <1>8 DEF Header
<1>10. m(k).data[j] = d[k + Header]
  BY <1>7, <1>9 DEF Carries, size
<1> QED BY <1>1, <1>2, <1>9, <1>10

-----------------------------------------------------------------------------
(***************************************************************************)
(* Types.                                                                  *)
(***************************************************************************)
PowerRec == [user : Modes, setting : SUBSET Users, module : {0, 1}]

\* The settings are what RunAssumption says.
LEMMA SettingType ==
  ASSUME UserInv
  PROVE  /\ setting \in Settings /\ setting.faults \in Nat
         /\ Happens \subseteq Hazards /\ OpsOf \in [Users -> SUBSET Operations]
         /\ setting.contents \subseteq Seq(Words)
         /\ Contexts \subseteq [DSET_STORE_RECALL -> Seq(Words)]
<1>1. /\ setting \in Settings /\ setting.faults \in Nat
      /\ Happens \subseteq Hazards /\ OpsOf \in [Users -> SUBSET Operations]
      /\ setting.contents \subseteq Seq(Words)
  BY RunAssumption DEF UserInv, Happens, OpsOf
<1> QED BY <1>1 DEF Contexts

\* Every command is one of six, and they differ.
LEMMA CommandsAre ==
  /\ \A c \in Commands :
       \/ \E m \in Modes : c = POWER(m) /\ c[1] = "power" /\ c[2] = m
       \/ c = READY /\ c[1] = "ready"
       \/ c = RECALL /\ c[1] = "recall"
       \/ c = INITSTACK /\ c[1] = "stack_init"
       \/ c = <<"command", "">> /\ c[1] = "command"
  /\ {READY, RECALL, INITSTACK, <<"command", "">>} \subseteq Commands
  /\ \A m \in Modes : POWER(m) \in Commands
  /\ \A m \in {"REC", "MAX"} : m \in Modes
  /\ \A m \in Modes : POWER(m) \notin {READY, RECALL, INITSTACK}
  /\ POWER("REC") # POWER("MAX")
  /\ READY # RECALL /\ READY # INITSTACK /\ RECALL # INITSTACK
  /\ <<"command", "">> \notin {READY, RECALL, INITSTACK}
  /\ \A m \in Modes : POWER(m) # <<"command", "">>
<1>1. Commands = {POWER(m) : m \in Modes}
                   \cup {READY, INITSTACK, RECALL, <<"command", "">>}
  BY DEF Commands, POWER, READY, RECALL, INITSTACK
<1>2. \A m \in {"REC", "MAX"} : m \in Modes
  BY DEF Modes
<1>3. /\ READY[1] = "ready" /\ RECALL[1] = "recall"
      /\ INITSTACK[1] = "stack_init" /\ <<"command", "">>[1] = "command"
      /\ \A m \in Modes : POWER(m)[1] = "power" /\ POWER(m)[2] = m
  BY DEF POWER, READY, RECALL, INITSTACK
<1>4. \A c \in Commands :
       \/ \E m \in Modes : c = POWER(m) /\ c[1] = "power" /\ c[2] = m
       \/ c = READY /\ c[1] = "ready"
       \/ c = RECALL /\ c[1] = "recall"
       \/ c = INITSTACK /\ c[1] = "stack_init"
       \/ c = <<"command", "">> /\ c[1] = "command"
  <2> TAKE c \in Commands
  <2>1. CASE \E m \in Modes : c = POWER(m)
    BY <1>3, <2>1
  <2>2. CASE c \in {READY, INITSTACK, RECALL, <<"command", "">>}
    BY <1>3, <2>2
  <2> QED BY <1>1, <2>1, <2>2
<1>6. "REC" # "MAX" /\ "power" # "ready" /\ "power" # "recall"
      /\ "power" # "stack_init" /\ "power" # "command"
  OBVIOUS
<1>7. POWER("REC") # POWER("MAX")
  BY <1>2, <1>3, <1>6
<1>8. \A m \in Modes : POWER(m) \notin {READY, RECALL, INITSTACK}
                        /\ POWER(m) # <<"command", "">>
  BY <1>3, <1>6
<1>9. /\ READY # RECALL /\ READY # INITSTACK /\ RECALL # INITSTACK
      /\ <<"command", "">> \notin {READY, RECALL, INITSTACK}
  BY <1>3
<1> QED BY <1>1, <1>2, <1>4, <1>7, <1>8, <1>9

\* A command that finds a buffer is queued.
LEMMA CommandType ==
  ASSUME TypeOK, UserInv, NEW c \in Commands, NEW ok \in BOOLEAN,
         wmi_cmd_start(c, ok)
  PROVE  txq' \in Seq(Commands) /\ faults' \in 0 .. setting.faults
<1>1. setting.faults \in Nat /\ faults \in 0 .. setting.faults
      /\ txq \in Seq(Commands)
  BY SettingType DEF TypeOK
<1>2. txq' \in Seq(Commands)
  BY <1>1 DEF wmi_cmd_start
<1>3. faults' \in 0 .. setting.faults
  BY <1>1 DEF wmi_cmd_start, MayFail
<1> QED BY <1>2, <1>3

\* restore_power_state leaves the votes and the user's mode alone.
LEMMA RestoreType ==
  ASSUME NEW p \in PowerRec, NEW q \in Seq(Commands), NEW ok \in BOOLEAN
  PROVE  LET r == RestorePower(p, q, 1, ok)
         IN /\ r.power \in PowerRec /\ r.power.user = p.user
            /\ r.power.setting = p.setting
            /\ r.txq \in Seq(Commands)
            /\ \/ r.power = p /\ r.txq = q
               \/ /\ p.module = 1 /\ r.power.module = 0
                  /\ r.txq = IF p.user # "MAX" THEN Append(q, POWER(p.user))
                             ELSE q
            /\ ok \/ p.user = "MAX" => r.power.module = 0
<1>1. CASE p.module = 0
  BY <1>1 DEF RestorePower, PowerRec
<1>2. CASE p.module # 0 /\ p.user # "MAX" /\ ~ok
  <2>1. RestorePower(p, q, 1, ok) = [power |-> p, txq |-> q]
    BY <1>2 DEF RestorePower
  <2> QED BY <1>2, <2>1 DEF PowerRec
<1>3. CASE p.module # 0 /\ (p.user = "MAX" \/ ok)
  <2>1. p.module = 1 /\ ~(p.module > 1) /\ p.user \in Modes
    BY <1>3 DEF PowerRec
  <2> DEFINE p1 == [p EXCEPT !.module = 0]
             q1 == IF p.user # "MAX" THEN Append(q, POWER(p.user)) ELSE q
  <2>2. RestorePower(p, q, 1, ok) = [power |-> p1, txq |-> q1]
    BY <1>3, <2>1 DEF RestorePower, POWER
  <2>3. POWER(p.user) \in Commands
    BY <2>1, CommandsAre
  <2>4. [p EXCEPT !.module = 0] \in PowerRec
    BY DEF PowerRec
  <2> DEFINE r == RestorePower(p, q, 1, ok)
  <2>5. p1.user = p.user /\ p1.setting = p.setting /\ p1.module = 0
    BY DEF PowerRec
  <2>6. q1 \in Seq(Commands)
    BY <2>3
  <2>7. r = [power |-> p1, txq |-> q1]
    BY <2>2
  <2> HIDE DEF r, p1, q1
  <2>8. r.power = p1 /\ r.txq = q1
    BY <2>7
  <2>9. r.power \in PowerRec /\ r.power.user = p.user
        /\ r.power.setting = p.setting /\ r.power.module = 0
    BY <2>4, <2>5, <2>8 DEF p1
  <2> QED BY <2>1, <2>6, <2>8, <2>9 DEF r, q1
<1> QED BY <1>1, <1>2, <1>3

\* A task is found in the driver, or back outside.
LEMMA StepType ==
  ASSUME TypeOK, NEW u \in Users,
         NEW pc \in {"idle", "in", "start", "sent", "wait"},
         NEW op \in Operations \cup {"idle"}, Step(u, pc, op)
  PROVE  /\ user' \in [Users -> [pc : {"idle", "in", "start", "sent", "wait"},
                                 op : Operations \cup {"idle"}]]
         /\ user'[u] = [pc |-> pc, op |-> op]
         /\ \A v \in Users \ {u} : user'[v] = user[v]
BY DEF TypeOK, Step

SuspendersOf == {v \in Users : Suspending(v)}

\* Who suspends is one of finitely many.
LEMMA SuspendersFinite ==
  IsFiniteSet(SuspendersOf) /\ Cardinality(SuspendersOf) \in Nat
  /\ IsFiniteSet(SuspendersOf') /\ Cardinality(SuspendersOf') \in Nat
  /\ Cardinality(Users) \in Nat /\ MaxCycles \in Nat
<1>1. IsFiniteSet(Users) /\ MaxCycles \in Nat
  BY RunAssumption
<1>2. SuspendersOf \in SUBSET Users /\ SuspendersOf' \in SUBSET Users
  BY DEF SuspendersOf
<1> QED BY <1>1, <1>2, FS_Subset, FS_CardinalityType

\* Whoever is about to suspend has its place in the count of suspends.
LEMMA SuspenderCounts ==
  ASSUME NEW u \in Users, Suspending(u)
  PROVE  Cardinality(SuspendersOf) >= 1
<1>1. u \in SuspendersOf
  BY DEF SuspendersOf
<1>2. Cardinality(SuspendersOf \ {u}) = Cardinality(SuspendersOf) - 1
      /\ IsFiniteSet(SuspendersOf \ {u})
  BY <1>1, SuspendersFinite, FS_RemoveElement
<1>3. Cardinality(SuspendersOf \ {u}) \in Nat
  BY <1>2, FS_CardinalityType
<1> QED BY <1>2, <1>3, SuspendersFinite

UserAction(u) ==
  \/ \E op \in Operations : Enter(u, op)
  \/ \E ok \in BOOLEAN : SuspendPower(u, ok) \/ SuspendStart(u, ok)
                         \/ UserPower(u, ok) \/ UserCommand(u, ok)
  \/ SuspendSent(u) \/ Api_TxGetStatus(u) \/ WaitOver(u)

DriverAction ==
  \/ SendCommand \/ RunQuery
  \/ \E stack, recall, restore \in BOOLEAN :
       Strrcl_ChipUpFinish(stack, recall, restore)
  \/ \E ok \in BOOLEAN : Strrcl_ChipUpStart(ok)

TargetAction ==
  \/ \E id \in DSET_STORE_RECALL, ok \in BOOLEAN :
       \/ Api_HostDsetCreateEvent(id, ok)
       \/ Api_HostDsetWriteEvent(id, ok)
       \/ \E extra \in {0, Header} : Api_HostDsetReadbackEvent(id, extra, ok)
  \/ Api_StoreRecallStartEvent \/ Api_StoreRecallEvent \/ WmiReadyEvent

\* Next, by who acts.
LEMMA NextIs ==
  ASSUME [Next]_vars
  PROVE  \/ \E u \in Users : UserAction(u)
         \/ DriverAction
         \/ TargetAction
         \/ UNCHANGED vars
BY DEF Next, UserNext, DriverNext, TargetNext, UserAction, DriverAction,
       TargetAction

(***************************************************************************)
(* Every step keeps the types; the table by the lemmas above, the counters *)
(* because a suspend is counted and a refused allocation is within its     *)
(* bound.                                                                  *)
(***************************************************************************)
LEMMA UserTypes ==
  ASSUME TypeOK, UserInv, CycleInv, NEW u \in Users, UserAction(u)
  PROVE  TypeOK'
<1>1. ASSUME NEW op \in Operations, Enter(u, op) PROVE TypeOK'
  BY <1>1, StepType DEF Enter, TypeOK, countVars
<1>2. ASSUME NEW ok \in BOOLEAN, SuspendPower(u, ok) PROVE TypeOK'
  <2>1. \/ UNCHANGED <<txq, faults>>
        \/ wmi_cmd_start(<<"power", "MAX">>, ok)
    BY <1>2 DEF SuspendPower, move_power_state_to_maxperf
  <2>2. txq' \in Seq(Commands) /\ faults' \in 0 .. setting.faults
    <3>1. <<"power", "MAX">> \in Commands
      BY CommandsAre DEF POWER
    <3>2. txq \in Seq(Commands) /\ faults \in 0 .. setting.faults
      BY DEF TypeOK
    <3> QED BY <2>1, <3>1, <3>2, CommandType
  <2>3. power' \in PowerRec
    BY <1>2 DEF SuspendPower, move_power_state_to_maxperf, PowerRec, TypeOK
  <2>4. "suspend" \in Operations
    BY DEF Operations
  <2>5. user' \in [Users -> [pc : {"idle", "in", "start", "sent", "wait"},
                             op : Operations \cup {"idle"}]]
    BY <1>2, <2>4, StepType DEF SuspendPower
  <2> QED BY <1>2, <2>2, <2>3, <2>5 DEF SuspendPower, PowerRec, TypeOK
<1>3. ASSUME NEW ok \in BOOLEAN, SuspendStart(u, ok) PROVE TypeOK'
  <2>1. "suspend" \in Operations
    BY DEF Operations
  <2>2. user' \in [Users -> [pc : {"idle", "in", "start", "sent", "wait"},
                             op : Operations \cup {"idle"}]]
    BY <1>3, <2>1, StepType DEF SuspendStart
  <2>3. CASE /\ strrcl' = [strrcl EXCEPT !.block = ok]
             /\ wmi_cmd_start(<<"ready", "">>, ok) /\ cycles' = cycles + 1
    <3>1. txq' \in Seq(Commands) /\ faults' \in 0 .. setting.faults
      BY <2>3, CommandType, CommandsAre DEF READY
    <3>2. strrcl' = [strrcl EXCEPT !.block = ok] /\ cycles' = cycles + 1
      BY <2>3
    <3>3. Suspending(u)
      <4>1. user[u] = [pc |-> "start", op |-> "suspend"]
        BY <1>3 DEF SuspendStart
      <4> QED BY <4>1 DEF Suspending
    <3>4. cycles' \in 0 .. MaxCycles + Cardinality(Users)
      <4>1. cycles + Cardinality(SuspendersOf)
              <= MaxCycles + Cardinality(Users)
        BY DEF CycleInv, SuspendersOf, Suspending
      <4>2. cycles \in Nat
        BY SuspendersFinite DEF TypeOK
      <4>3. Cardinality(SuspendersOf) >= 1
        BY <3>3, SuspenderCounts
      <4> QED BY <3>2, <4>1, <4>2, <4>3, SuspendersFinite
    <3> QED BY <1>3, <2>2, <3>1, <3>2, <3>4 DEF SuspendStart, TypeOK
  <2>4. CASE UNCHANGED <<strrcl, txq, countVars>>
    BY <1>3, <2>2, <2>4 DEF SuspendStart, TypeOK, countVars
  <2> QED BY <1>3, <2>3, <2>4 DEF SuspendStart
<1>4. ASSUME NEW ok \in BOOLEAN, UserPower(u, ok) PROVE TypeOK'
  <2>1. power' \in PowerRec
    BY <1>4 DEF UserPower, Api_SetPowerMode, PowerRec, Modes, TypeOK
  <2> DEFINE mode == IF user[u].op = "rec" THEN "REC" ELSE "MAX"
             votes == IF mode = "REC" THEN power.setting \ {u}
                      ELSE power.setting \cup {u}
             userMode == IF mode = "MAX" THEN "MAX"
                         ELSE IF votes = {} THEN "REC" ELSE power.user
  <2>2. wmi_cmd_start(<<"power", userMode>>, ok)
    BY <1>4 DEF UserPower, Api_SetPowerMode
  <2>3. userMode \in Modes
    BY DEF Modes, TypeOK
  <2> HIDE DEF userMode
  <2>4. <<"power", userMode>> \in Commands
    BY <2>3, CommandsAre DEF POWER
  <2>5. txq' \in Seq(Commands) /\ faults' \in 0 .. setting.faults
    BY <2>2, <2>4, CommandType
  <2>6. user' \in [Users -> [pc : {"idle", "in", "start", "sent", "wait"},
                             op : Operations \cup {"idle"}]]
    BY <1>4, StepType DEF UserPower
  <2>7. UNCHANGED <<hd, strrcl, asynchRequest, target, drv, asserted, cycles,
                    setting>>
    BY <1>4 DEF UserPower
  <2> QED BY <2>1, <2>5, <2>6, <2>7 DEF PowerRec, TypeOK
<1>5. ASSUME NEW ok \in BOOLEAN, UserCommand(u, ok) PROVE TypeOK'
  <2>1. txq' \in Seq(Commands) /\ faults' \in 0 .. setting.faults
    BY <1>5, CommandType, CommandsAre DEF UserCommand
  <2>2. user' \in [Users -> [pc : {"idle", "in", "start", "sent", "wait"},
                             op : Operations \cup {"idle"}]]
    BY <1>5, StepType DEF UserCommand
  <2>3. UNCHANGED <<hd, strrcl, asynchRequest, power, target, drv, asserted,
                    cycles, setting>>
    BY <1>5 DEF UserCommand
  <2> QED BY <2>1, <2>2, <2>3 DEF TypeOK
<1>6. CASE SuspendSent(u)
  BY <1>6, StepType DEF SuspendSent, States, TypeOK, countVars
<1>7. CASE Api_TxGetStatus(u)
  BY <1>7, StepType DEF Api_TxGetStatus, Operations, TypeOK, countVars
<1>8. CASE WaitOver(u)
  <2>1. user' \in [Users -> [pc : {"idle", "in", "start", "sent", "wait"},
                             op : Operations \cup {"idle"}]]
    BY <1>8, StepType DEF WaitOver
  <2>2. UNCHANGED <<hd, strrcl, asynchRequest, power, txq, target, drv,
                    asserted, cycles, faults, setting>>
    BY <1>8 DEF WaitOver, countVars
  <2> QED BY <2>1, <2>2 DEF TypeOK
<1> QED BY <1>1, <1>2, <1>3, <1>4, <1>5, <1>6, <1>7, <1>8 DEF UserAction

\* A refused allocation is counted, within the bound.
LEMMA FaultType ==
  ASSUME TypeOK, UserInv, NEW ok \in BOOLEAN, NEW kind, ok \/ MayFail(kind),
         faults' = IF ok THEN faults ELSE faults + 1
  PROVE  faults' \in 0 .. setting.faults
BY SettingType DEF TypeOK, MayFail

\* The invariant TableSound is what the lemmas above call sound.
LEMMA TableType ==
  ASSUME TypeOK, TableSound
  PROVE  hd \in Table /\ Sound(hd)
BY DEF TypeOK, TableSound, Table, SlotRec, Sound, OneSlotEach, InUse

TargetRec == [phase : {"up", "store", "off", "boot", "booted"},
              mode : Modes, todo : SUBSET DSET_STORE_RECALL,
              written : [DSET_STORE_RECALL -> Nat],
              ctx : [DSET_STORE_RECALL -> Seq(Words)],
              saved : [DSET_STORE_RECALL -> Seq(Words)],
              heard : Seq({c[1] : c \in Commands})]

(***************************************************************************)
(* The create and write events keep the table sound and every other data   *)
(* set as it is; a write that finds memory stores a piece of the context,  *)
(* or, if the target writes it in one event, all of it.                    *)
(***************************************************************************)
LEMMA TableStep ==
  ASSUME TypeOK, TableSound, NEW id \in DSET_STORE_RECALL, NEW mem \in BOOLEAN,
         Api_HostDsetCreateEvent(id, mem) \/ Api_HostDsetWriteEvent(id, mem)
  PROVE  /\ hd' \in Table /\ Sound(hd') /\ TableSound'
         /\ \A other, data : other \notin {0, id} /\ Holds(hd, other, data)
                               => Holds(hd', other, data)
         /\ \/ target' = target
            \/ \E n \in Nat, s \in {target.todo, target.todo \ {id}} :
                 /\ target' = [target EXCEPT !.written[id] = n, !.todo = s]
                 /\ Whole =>
                      /\ s = target.todo \ {id}
                      /\ target.written[id] = 0
                           => Holds(hd', id, <<"header">> \o target.ctx[id])
<1>1. hd \in Table /\ Sound(hd)
  BY TableType
<1>2. target.ctx[id] \in Seq(Words) /\ Len(target.ctx[id]) \in Nat
  BY DEF TypeOK
<1>3. ASSUME hd' \in Table, Sound(hd')
      PROVE  TableSound'
  BY <1>3 DEF TableSound, Sound, OneSlotEach, InUse
<1>4. ASSUME \A j \in Slots : hd.slot[j].dset_id \notin {0, id}
                                => hd'.slot[j] = hd.slot[j]
      PROVE  \A other, data : other \notin {0, id} /\ Holds(hd, other, data)
                               => Holds(hd', other, data)
  <2> SUFFICES ASSUME NEW other, NEW data, other \notin {0, id},
                      Holds(hd, other, data)
               PROVE  Holds(hd', other, data)
    OBVIOUS
  <2>1. PICK j \in Slots : hd.slot[j] = [dset_id |-> other, data |-> data]
    BY DEF Holds
  <2>2. hd.slot[j].dset_id = other
    BY <2>1
  <2>3. hd'.slot[j] = hd.slot[j]
    BY <1>4, <2>2
  <2> QED BY <2>1, <2>3 DEF Holds
<1>5. CASE Api_HostDsetCreateEvent(id, mem)
  <2> DEFINE length == Header + Len(target.ctx[id])
             g == dset_get(hd, id, length, mem)
  <2>1. length \in Nat
    BY <1>2 DEF Header
  <2>2. hd' = g.table /\ target' = target
    BY <1>5 DEF Api_HostDsetCreateEvent
  <2> HIDE DEF length
  <2>3. /\ g.table \in Table /\ Sound(g.table)
        /\ \A j \in Slots : hd.slot[j].dset_id \notin {0, id}
                                  => g.table.slot[j] = hd.slot[j]
    BY <1>1, <2>1, GetIsSound
  <2> HIDE DEF g
  <2> QED BY <1>3, <1>4, <2>2, <2>3
<1>6. CASE Api_HostDsetWriteEvent(id, mem)
  <2> DEFINE data == <<"header">> \o target.ctx[id]
             offset == target.written[id]
             g(n) == dset_get(hd, id, n, mem)
             piece(n) == [k \in 1 .. n |-> data[offset + k]]
             w(n) == dset_write(g(n).table, g(n).at, piece(n), offset)
  <2>1. data \in Seq(Words) /\ Len(data) \in Nat /\ data[1] = "header"
    BY <1>2, DsetAssumption
  <2>2. PICK n \in Pieces(Len(data), offset) :
          IF g(n).at = 0 THEN hd' = g(n).table /\ target' = target
          ELSE /\ hd' = w(n)
               /\ target' = [target EXCEPT
                      !.written[id] = offset + n,
                      !.todo = IF offset + n = Len(data)
                               THEN @ \ {id} ELSE @]
    BY <1>6 DEF Api_HostDsetWriteEvent
  <2>3. target.written \in [DSET_STORE_RECALL -> Nat] /\ target \in TargetRec
    BY DEF TypeOK, TargetRec
  <2> HIDE DEF data
  <2>4. /\ n \in Nat \ {0} /\ offset \in Nat /\ offset <= n
        /\ offset + n <= Len(data) /\ (Whole => offset + n = Len(data))
    BY <2>1, <2>3 DEF Pieces, Whole
  <2>5. /\ piece(n) \in Seq(Words) /\ Len(piece(n)) = n /\ piece(n) # <<>>
        /\ offset = 0 => piece(n)[1] = "header"
        /\ offset = 0 /\ Whole => piece(n) = data
    <3>1. \A k \in 1 .. n : offset + k \in 1 .. Len(data)
      BY <2>1, <2>4
    <3>2. \A k \in 1 .. n : data[offset + k] \in Words
      BY <2>1, <3>1
    <3>3. piece(n) \in Seq(Words) /\ Len(piece(n)) = n /\ piece(n) # <<>>
      BY <2>4, <3>2
    <3>4. offset = 0 => piece(n)[1] = "header"
      BY <2>1, <2>4
    <3>5. offset = 0 /\ Whole => piece(n) = data
      BY <2>1, <2>4
    <3> QED BY <3>3, <3>4, <3>5
  <2> DEFINE G == g(n)
             P == piece(n)
             W == dset_write(G.table, G.at, P, offset)
  <2>6. /\ G.table \in Table /\ Sound(G.table)
        /\ \A j \in Slots : hd.slot[j].dset_id \notin {0, id}
                                  => G.table.slot[j] = hd.slot[j]
        /\ G.at # 0 =>
             /\ G.at \in Slots
             /\ G.table.slot[G.at] = [dset_id |-> id,
                                      data |-> [k \in 1 .. n |-> Junk]]
    BY <1>1, <2>4, GetIsSound
  <2>7. IF G.at = 0 THEN hd' = G.table /\ target' = target
        ELSE /\ hd' = W
             /\ target' = [target EXCEPT
                    !.written[id] = offset + n,
                    !.todo = IF offset + n = Len(data) THEN @ \ {id} ELSE @]
    BY <2>2
  <2>8. /\ P \in Seq(Words) /\ Len(P) = n /\ P # <<>>
        /\ offset = 0 => P[1] = "header"
        /\ offset = 0 /\ Whole => P = data
    BY <2>5
  <2> HIDE DEF G, P
  <2>9. CASE G.at = 0
    BY <1>3, <1>4, <2>6, <2>7, <2>9
  <2>10. CASE G.at # 0
    <3>1. /\ W \in Table /\ Sound(W) /\ W.slot[G.at].dset_id = id
          /\ offset = 0 => W.slot[G.at] = [dset_id |-> id, data |-> P]
          /\ \A j \in Slots \ {G.at} : W.slot[j] = G.table.slot[j]
      <4>1. offset \in 0 .. Len(P)
        BY <2>4, <2>8
      <4> HIDE DEF offset
      <4> QED BY <2>6, <2>8, <2>10, <4>1, WriteWrites
    <3> HIDE DEF W
    <3>2. ASSUME NEW j \in Slots, hd.slot[j].dset_id \notin {0, id}
          PROVE  W.slot[j] = hd.slot[j]
      <4>1. G.table.slot[j] = hd.slot[j]
        BY <2>6, <3>2
      <4>2. G.table.slot[G.at].dset_id = id
        BY <2>6, <2>10
      <4> QED BY <3>1, <3>2, <4>1, <4>2
    <3> DEFINE s == IF offset + n = Len(data)
                    THEN target.todo \ {id} ELSE target.todo
    <3>3. hd' = W /\ offset + n \in Nat
          /\ target' = [target EXCEPT !.written[id] = offset + n, !.todo = s]
      BY <2>3, <2>4, <2>7, <2>10 DEF TargetRec
    <3>4. offset = 0 /\ Whole => Holds(hd', id, data)
      BY <2>6, <2>8, <2>10, <3>1, <3>3 DEF Holds
    <3>5. s \in {target.todo, target.todo \ {id}}
          /\ (Whole => s = target.todo \ {id})
      BY <2>4
    <3>6. hd' \in Table /\ Sound(hd') /\ TableSound'
      BY <1>3, <3>1, <3>3
    <3>7. \A other, x : other \notin {0, id} /\ Holds(hd, other, x)
                          => Holds(hd', other, x)
      BY <1>4, <3>2, <3>3
    <3> HIDE DEF s
    <3>8. \E m \in Nat, r \in {target.todo, target.todo \ {id}} :
            /\ target' = [target EXCEPT !.written[id] = m, !.todo = r]
            /\ Whole => /\ r = target.todo \ {id}
                        /\ target.written[id] = 0 => Holds(hd', id, data)
      BY <3>3, <3>4, <3>5
    <3> QED BY <3>6, <3>7, <3>8 DEF data
  <2> QED BY <2>9, <2>10
<1> QED BY <1>5, <1>6

(***************************************************************************)
(* What a readback gives: the data stored below the header.                *)
(***************************************************************************)
LEMMA ReadbackStep ==
  ASSUME TypeOK, UserInv, TableSound, ContextInv,
         NEW id \in DSET_STORE_RECALL, NEW extra \in {0, Header},
         NEW ok \in BOOLEAN, Api_HostDsetReadbackEvent(id, extra, ok)
  PROVE  /\ target.phase = "up" /\ id \in target.todo
         /\ target' = [target EXCEPT !.todo = @ \ {id},
                                     !.ctx[id] = target'.ctx[id]]
         /\ target'.ctx[id] \in Seq(Words)
         /\ \A c \in Seq(Words) : Holds(hd, id, <<"header">> \o c)
                                    => target'.ctx[id] = c
<1> DEFINE i == dset_find(hd, id)
           d == hd.slot[i].data
           size == Len(d)
           sent == ReadbackMessages(hd, id, 0, size - Header + extra)
           word(k) == WordOf(sent, k)
           new == [k \in 1 .. size - Header |-> word(k)]
<1>1. hd \in Table /\ Sound(hd)
  BY TableType
<1>2. target.phase = "up" /\ id \in target.todo
  BY DEF Api_HostDsetReadbackEvent
<1>3. i \in Slots /\ hd.slot[i].dset_id = id
  <2>1. \E j \in Slots : hd.slot[j].dset_id = id
    BY <1>2 DEF ContextInv
  <2> QED BY <1>1, <2>1, FindFinds
<1>4. /\ d \in Seq(Words)
      /\ \A k \in 1 .. size - Header :
           word(k) = d[k + Header] /\ d[k + Header] \in Words
  BY <1>1, <1>3, WordsReadBack
<1>5. target' = [target EXCEPT !.todo = @ \ {id}, !.ctx[id] = new]
  BY DEF Api_HostDsetReadbackEvent, WordOf
<1> HIDE DEF word
<1>6. size \in Nat
  BY <1>4
<1>7. new = [k \in 1 .. size - Header |-> d[k + Header]]
  BY <1>4
<1>8. new \in Seq(Words)
  <2>1. size = 0 \/ size - Header \in Nat
    BY <1>6 DEF Header
  <2>2. CASE size = 0
    <3>1. new = <<>>
      BY <2>2 DEF Header
    <3> HIDE DEF new
    <3> QED BY <3>1
  <2>3. CASE size - Header \in Nat
    BY <1>4, <1>7, <2>3
  <2> QED BY <2>1, <2>2, <2>3
<1>9. ASSUME NEW c \in Seq(Words), Holds(hd, id, <<"header">> \o c)
      PROVE  new = c
  <2>1. PICK j \in Slots : hd.slot[j] = [dset_id |-> id,
                                         data |-> <<"header">> \o c]
    BY <1>9 DEF Holds
  <2>2. j = i
    <3>1. id # 0 /\ hd.slot[j].dset_id = id
      BY <2>1, DsetAssumption
    <3> QED BY <1>1, <1>3, <3>1 DEF Sound, OneSlotEach
  <2>3. d = <<"header">> \o c
    BY <2>1, <2>2
  <2>4. /\ size = Len(c) + 1 /\ Len(c) \in Nat
        /\ \A k \in 1 .. Len(c) : d[k + 1] = c[k]
    BY <2>3, DsetAssumption
  <2> HIDE DEF new, size, d
  <2>5. new = [k \in 1 .. Len(c) |-> c[k]]
    <3>1. size - 1 = Len(c)
      BY <2>4
    <3> QED BY <1>7, <2>4, <3>1 DEF Header
  <2> QED BY <2>5
<1> HIDE DEF new
<1>10. target' \in TargetRec /\ target'.ctx[id] = new
  BY <1>5, <1>8 DEF TypeOK, TargetRec
<1> QED BY <1>2, <1>5, <1>8, <1>9, <1>10

(***************************************************************************)
(* A pass of Strrcl_ChipUpFinish: reached in the wrong state, without a    *)
(* buffer for SOCK_STACK_INIT, without one for the recall, or done.        *)
(***************************************************************************)
FinishQueue == IF strrcl.state = "ACTIVE" THEN Append(txq, INITSTACK) ELSE txq

\* A pass of Strrcl_ChipUpFinish, in the four ways it can end.
LEMMA FinishStep ==
  ASSUME TypeOK, UserInv, NEW stack \in BOOLEAN, NEW recall \in BOOLEAN,
         NEW restore \in BOOLEAN, Strrcl_ChipUpFinish(stack, recall, restore)
  PROVE  /\ asynchRequest = "finish" /\ drv = "run" /\ strrcl.wmiReady
         /\ UNCHANGED <<hd, target, user, drv, cycles, setting>>
         /\ faults' \in 0 .. setting.faults
         /\ FinishQueue \in Seq(Commands)
         /\ "no_buffer" \notin Happens => stack /\ recall /\ restore
         /\ \/ /\ strrcl.state \notin {"ACTIVE", "ACTIVE_B"} /\ asserted'
               /\ UNCHANGED <<strrcl, asynchRequest, power, txq>>
            \/ /\ strrcl.state = "ACTIVE" /\ ~stack
               /\ strrcl' = [strrcl EXCEPT !.chipDown = FALSE]
               /\ UNCHANGED <<txq, asynchRequest, power, asserted>>
            \/ /\ strrcl.state \in {"ACTIVE", "ACTIVE_B"} /\ stack /\ ~recall
               /\ strrcl' = [strrcl EXCEPT !.state = "ACTIVE_B",
                                           !.chipDown = FALSE]
               /\ txq' = FinishQueue
               /\ UNCHANGED <<asynchRequest, power, asserted>>
            \/ /\ strrcl.state \in {"ACTIVE", "ACTIVE_B"} /\ stack /\ recall
               /\ strrcl' = [strrcl EXCEPT !.state = "INIT", !.block = FALSE,
                                           !.chipDown = FALSE]
               /\ asynchRequest' = "NULL" /\ UNCHANGED asserted
               /\ LET r == RestorePower(power, Append(FinishQueue, RECALL), 1,
                                        restore)
                  IN power' = r.power /\ txq' = r.txq
<1> DEFINE refused(ok) == IF ok THEN 0 ELSE 1
           failed == refused(stack) + refused(recall) + refused(restore)
           first == strrcl.state = "ACTIVE"
           q1 == IF first /\ stack THEN Append(txq, <<"stack_init", "">>)
                 ELSE txq
           r == RestorePower(power, Append(q1, <<"recall", "">>), 1, restore)
<1>1. /\ asynchRequest = "finish" /\ drv = "run" /\ strrcl.wmiReady
      /\ UNCHANGED <<hd, target, user, drv, cycles, setting>>
      /\ failed = 0 \/ (failed = 1 /\ MayFail("no_buffer"))
      /\ ~first => stack
      /\ faults' = faults + failed
  BY DEF Strrcl_ChipUpFinish
<1>2. failed \in 0 .. 3 /\ (failed = 0 <=> stack /\ recall /\ restore)
  OBVIOUS
<1> HIDE DEF failed
<1>3. faults' \in 0 .. setting.faults
      /\ ("no_buffer" \notin Happens => stack /\ recall /\ restore)
  BY <1>1, <1>2, SettingType DEF MayFail, TypeOK
<1>4. FinishQueue \in Seq(Commands)
  <2>1. INITSTACK \in Commands /\ txq \in Seq(Commands)
    BY CommandsAre DEF TypeOK
  <2> QED BY <2>1 DEF FinishQueue
<1>5. stack => q1 = FinishQueue
  BY DEF FinishQueue, INITSTACK
<1>6. \/ /\ strrcl.state \notin {"ACTIVE", "ACTIVE_B"} /\ asserted' = TRUE
         /\ UNCHANGED <<strrcl, asynchRequest, power, txq>>
      \/ /\ strrcl.state \in {"ACTIVE", "ACTIVE_B"}
         /\ (~first \/ stack) /\ recall
         /\ strrcl' = [strrcl EXCEPT !.state = "INIT", !.block = FALSE,
                                     !.chipDown = FALSE]
         /\ asynchRequest' = "NULL" /\ UNCHANGED asserted
         /\ power' = r.power /\ txq' = r.txq
      \/ /\ strrcl.state \in {"ACTIVE", "ACTIVE_B"}
         /\ ~((~first \/ stack) /\ recall)
         /\ strrcl' = [strrcl EXCEPT !.state = FinishState(stack),
                                     !.chipDown = FALSE]
         /\ txq' = q1
         /\ UNCHANGED <<asynchRequest, power, asserted>>
  BY DEF Strrcl_ChipUpFinish
<1> HIDE DEF r
<1>7. CASE strrcl.state \notin {"ACTIVE", "ACTIVE_B"}
  BY <1>1, <1>3, <1>4, <1>6, <1>7
<1>8. CASE first /\ ~stack
  <2>1. q1 = txq /\ FinishState(stack) = strrcl.state
    BY <1>8 DEF FinishState
  <2>2. [strrcl EXCEPT !.state = strrcl.state, !.chipDown = FALSE]
          = [strrcl EXCEPT !.chipDown = FALSE]
    BY DEF TypeOK
  <2> HIDE DEF q1
  <2> QED BY <1>1, <1>3, <1>4, <1>6, <1>8, <2>1, <2>2
<1>9. CASE strrcl.state \in {"ACTIVE", "ACTIVE_B"} /\ (~first \/ stack)
  <2>1. stack
    BY <1>1, <1>9
  <2>2. FinishState(stack) = "ACTIVE_B"
    BY <1>9, <2>1 DEF FinishState
  <2>3. r = RestorePower(power, Append(FinishQueue, RECALL), 1, restore)
    BY <1>5, <2>1 DEF r, RECALL
  <2> HIDE DEF q1
  <2> QED BY <1>1, <1>3, <1>4, <1>5, <1>6, <1>9, <2>1, <2>2, <2>3
<1> QED BY <1>7, <1>8, <1>9

(***************************************************************************)
(* SendCommand takes the first command, and the target does what it says.  *)
(* The list of a recall names data sets of the table.                      *)
(***************************************************************************)
Heard(c) == IF target.phase = "booted" THEN Append(target.heard, c[1])
            ELSE target.heard

\* What the target does for each command it is sent.
LEMMA SendStep ==
  ASSUME TypeOK, UserInv, TableSound, SendCommand
  PROVE  /\ drv = "run" /\ txq # <<>> /\ txq' = Tail(txq)
         /\ target.phase \in {"up", "store", "booted"}
         /\ UNCHANGED <<hd, strrcl, asynchRequest, power, user, drv, asserted,
                        countVars>>
         /\ Head(txq) \in Commands
         /\ Heard(Head(txq)) \in Seq({c[1] : c \in Commands})
         /\ \/ \E m \in Modes :
                 /\ Head(txq) = POWER(m)
                 /\ target' = [target EXCEPT !.heard = Heard(POWER(m)),
                                             !.mode = m]
            \/ /\ Head(txq) = READY
               /\ \E new \in [DSET_STORE_RECALL -> Seq(Words)] :
                    target' = [target EXCEPT !.heard = Heard(READY),
                                 !.phase = "store", !.ctx = new,
                                 !.saved = new, !.todo = DSET_STORE_RECALL,
                                 !.written = Nothing]
            \/ /\ Head(txq) = RECALL
               /\ \E ids \in SUBSET DSET_STORE_RECALL :
                    /\ target' = [target EXCEPT !.heard = Heard(RECALL),
                                   !.phase = "up", !.mode = "MAX",
                                   !.todo = ids]
                    /\ \A id \in ids : \E i \in Slots :
                         hd.slot[i].dset_id = id
                    /\ (\A id \in DSET_STORE_RECALL : Stored(id))
                         => ids = DSET_STORE_RECALL
            \/ /\ Head(txq) \in {INITSTACK, <<"command", "">>}
               /\ target' = [target EXCEPT !.heard = Heard(Head(txq))]
<1> DEFINE c == Head(txq)
           h == [target EXCEPT !.heard = IF target.phase = "booted"
                                         THEN Append(@, c[1]) ELSE @]
           list == setup_host_dset(hd)
           ids == {list[k].dset_id : k \in DOMAIN list}
<1>1. /\ drv = "run" /\ txq # <<>> /\ txq' = Tail(txq)
      /\ target.phase \in {"up", "store", "booted"}
      /\ UNCHANGED <<hd, strrcl, asynchRequest, power, user, drv, asserted,
                     countVars>>
  BY DEF SendCommand
<1>2. c \in Commands
  BY <1>1 DEF TypeOK
<1>3. h = [target EXCEPT !.heard = Heard(c)]
      /\ Heard(c) \in Seq({x[1] : x \in Commands})
  BY <1>2 DEF TypeOK, Heard
<1>4. /\ c[1] = "power" => target' = [h EXCEPT !.mode = c[2]]
      /\ c[1] = "ready" =>
           \E new \in Contexts :
             target' = [h EXCEPT !.phase = "store", !.ctx = new,
                                 !.saved = new, !.todo = DSET_STORE_RECALL,
                                 !.written = Nothing]
      /\ c[1] = "recall" => target' = [h EXCEPT !.phase = "up", !.mode = "MAX",
                                                !.todo = ids]
      /\ c[1] \in {"stack_init", "command"} => target' = h
  BY DEF SendCommand
<1> HIDE DEF c, h
<1>5. ASSUME NEW m \in Modes, c = POWER(m), c[2] = m, c[1] = "power"
      PROVE  target' = [target EXCEPT !.heard = Heard(POWER(m)), !.mode = m]
  BY <1>3, <1>4, <1>5 DEF TypeOK
<1>6. ASSUME c = READY, c[1] = "ready"
      PROVE  \E new \in [DSET_STORE_RECALL -> Seq(Words)] :
               target' = [target EXCEPT !.heard = Heard(READY),
                            !.phase = "store", !.ctx = new,
                            !.saved = new, !.todo = DSET_STORE_RECALL,
                            !.written = Nothing]
  <2>1. PICK new \in Contexts :
             target' = [h EXCEPT !.phase = "store", !.ctx = new,
                                 !.saved = new, !.todo = DSET_STORE_RECALL,
                                 !.written = Nothing]
    BY <1>4, <1>6
  <2>2. new \in [DSET_STORE_RECALL -> Seq(Words)]
    BY SettingType
  <2>3. target' = [target EXCEPT !.heard = Heard(READY),
                            !.phase = "store", !.ctx = new,
                            !.saved = new, !.todo = DSET_STORE_RECALL,
                            !.written = Nothing]
    BY <1>3, <1>6, <2>1 DEF TypeOK
  <2> QED BY <2>2, <2>3
<1>7. ASSUME c = RECALL, c[1] = "recall"
      PROVE  \E s \in SUBSET DSET_STORE_RECALL :
               /\ target' = [target EXCEPT !.heard = Heard(RECALL),
                               !.phase = "up", !.mode = "MAX", !.todo = s]
               /\ \A id \in s : \E i \in Slots : hd.slot[i].dset_id = id
               /\ (\A id \in DSET_STORE_RECALL : Stored(id))
                    => s = DSET_STORE_RECALL
  <2>1. hd \in Table /\ Sound(hd)
    BY TableType
  <2>2. Lists(list, hd, Used(hd, 1))
    BY <2>1, RecallListsAll DEF setup_host_dset
  <2>3. (\A id \in DSET_STORE_RECALL : Stored(id)) => ids = DSET_STORE_RECALL
    <3>1. target.saved \in [DSET_STORE_RECALL -> Seq(Words)]
      BY DEF TypeOK
    <3> HIDE DEF list
    <3> QED BY <2>1, <2>2, <3>1, ContextIsListed DEF Stored
  <2> HIDE DEF list
  <2>4. ASSUME NEW k \in DOMAIN list
        PROVE  /\ list[k].dset_id \in DSET_STORE_RECALL
               /\ \E i \in Slots : hd.slot[i].dset_id = list[k].dset_id
    <3>1. PICK i \in Used(hd, 1) : list[k] = Item(hd.slot[i])
      BY <2>2 DEF Lists
    <3>2. i \in Slots /\ hd.slot[i].dset_id # 0
      BY <3>1 DEF Used
    <3>3. hd.slot[i].dset_id \in DSET_STORE_RECALL
      BY <2>1, <3>2, UsedItems
    <3>4. list[k].dset_id = hd.slot[i].dset_id
      BY <3>1 DEF Item
    <3> QED BY <3>2, <3>3, <3>4
  <2>5. ids \in SUBSET DSET_STORE_RECALL
        /\ \A id \in ids : \E i \in Slots : hd.slot[i].dset_id = id
    BY <2>4
  <2> HIDE DEF ids
  <2>6. target' = [target EXCEPT !.heard = Heard(RECALL),
                               !.phase = "up", !.mode = "MAX", !.todo = ids]
    BY <1>3, <1>4, <1>7 DEF TypeOK
  <2> QED BY <2>3, <2>5, <2>6
<1>8. ASSUME c \in {INITSTACK, <<"command", "">>},
             c[1] \in {"stack_init", "command"}
      PROVE  target' = [target EXCEPT !.heard = Heard(c)]
  BY <1>3, <1>4, <1>8
<1>9. \/ \E m \in Modes : c = POWER(m) /\ c[1] = "power" /\ c[2] = m
      \/ c = READY /\ c[1] = "ready"
      \/ c = RECALL /\ c[1] = "recall"
      \/ /\ c \in {INITSTACK, <<"command", "">>}
         /\ c[1] \in {"stack_init", "command"}
  BY <1>2, CommandsAre
<1>10. Head(txq) = c
  BY DEF c
<1> HIDE DEF ids
<1> QED BY <1>1, <1>2, <1>3, <1>5, <1>6, <1>7, <1>8, <1>9, <1>10

\* The steps of the driver task keep the types.
LEMMA DriverTypes ==
  ASSUME TypeOK, UserInv, TableSound, ContextInv, DriverAction
  PROVE  TypeOK'
<1>1. CASE SendCommand
  <2>1. txq \in Seq(Commands) /\ target \in TargetRec
    BY DEF TypeOK, TargetRec
  <2>2. txq' \in Seq(Commands)
    <3>1. txq' = Tail(txq) /\ txq # <<>>
      BY <1>1, SendStep
    <3> QED BY <2>1, <3>1
  <2>3. target' \in TargetRec
    <3>1. CASE \E m \in Modes :
                 /\ Head(txq) = POWER(m)
                 /\ target' = [target EXCEPT !.heard = Heard(POWER(m)),
                                             !.mode = m]
      BY <1>1, <2>1, <3>1, SendStep DEF TargetRec
    <3>2. CASE /\ Head(txq) = READY
               /\ \E new \in [DSET_STORE_RECALL -> Seq(Words)] :
                    target' = [target EXCEPT !.heard = Heard(READY),
                                 !.phase = "store", !.ctx = new,
                                 !.saved = new, !.todo = DSET_STORE_RECALL,
                                 !.written = Nothing]
      <4>1. Heard(READY) \in Seq({c[1] : c \in Commands})
            /\ Nothing \in [DSET_STORE_RECALL -> Nat]
        BY <1>1, <3>2, SendStep DEF Nothing
      <4> QED BY <2>1, <3>2, <4>1 DEF TargetRec
    <3>3. CASE /\ Head(txq) = RECALL
               /\ \E ids \in SUBSET DSET_STORE_RECALL :
                    target' = [target EXCEPT !.heard = Heard(RECALL),
                                 !.phase = "up", !.mode = "MAX", !.todo = ids]
      <4>1. Heard(RECALL) \in Seq({c[1] : c \in Commands})
        BY <1>1, <3>3, SendStep
      <4>2. "MAX" \in Modes
        BY CommandsAre
      <4> QED BY <2>1, <3>3, <4>1, <4>2 DEF TargetRec
    <3>4. CASE /\ Head(txq) \in {INITSTACK, <<"command", "">>}
               /\ target' = [target EXCEPT !.heard = Heard(Head(txq))]
      <4>1. Heard(Head(txq)) \in Seq({c[1] : c \in Commands})
        BY <1>1, SendStep
      <4> QED BY <2>1, <3>4, <4>1 DEF TargetRec
    <3> QED BY <1>1, <3>1, <3>2, <3>3, <3>4, SendStep
  <2>4. UNCHANGED <<hd, strrcl, asynchRequest, power, user, drv, asserted,
                    countVars>>
    BY <1>1, SendStep
  <2> QED BY <2>2, <2>3, <2>4 DEF TypeOK, TargetRec, countVars
<1>2. CASE RunQuery
  <2>1. "idle" \in Operations \cup {"idle"}
    OBVIOUS
  <2>2. user' \in [Users -> [pc : {"idle", "in", "start", "sent", "wait"},
                             op : Operations \cup {"idle"}]]
    BY <1>2 DEF RunQuery, TypeOK
  <2> QED BY <1>2, <2>2 DEF RunQuery, TypeOK, countVars
<1>3. ASSUME NEW stack \in BOOLEAN, NEW recall \in BOOLEAN,
             NEW restore \in BOOLEAN,
             Strrcl_ChipUpFinish(stack, recall, restore)
      PROVE  TypeOK'
  <2>1. /\ UNCHANGED <<hd, target, user, drv, cycles, setting>>
        /\ faults' \in 0 .. setting.faults /\ FinishQueue \in Seq(Commands)
    BY <1>3, FinishStep
  <2>2. CASE UNCHANGED <<strrcl, asynchRequest, power, txq>> /\ asserted'
    BY <1>3, <2>1, <2>2 DEF TypeOK, Strrcl_ChipUpFinish
  <2>3. CASE /\ strrcl' = [strrcl EXCEPT !.chipDown = FALSE]
             /\ UNCHANGED <<txq, asynchRequest, power, asserted>>
    BY <2>1, <2>3 DEF TypeOK
  <2>4. CASE /\ strrcl' = [strrcl EXCEPT !.state = "ACTIVE_B",
                                         !.chipDown = FALSE]
             /\ txq' = FinishQueue
             /\ UNCHANGED <<asynchRequest, power, asserted>>
    BY <2>1, <2>4 DEF TypeOK, States
  <2>5. CASE /\ strrcl' = [strrcl EXCEPT !.state = "INIT", !.block = FALSE,
                                         !.chipDown = FALSE]
             /\ asynchRequest' = "NULL" /\ UNCHANGED asserted
             /\ LET r == RestorePower(power, Append(FinishQueue, RECALL), 1,
                                      restore)
                IN power' = r.power /\ txq' = r.txq
    <3> DEFINE q == Append(FinishQueue, RECALL)
    <3>1. q \in Seq(Commands)
      <4>1. RECALL \in Commands
        BY CommandsAre
      <4> QED BY <2>1, <4>1
    <3> HIDE DEF q
    <3>2. power \in PowerRec
      BY DEF TypeOK, PowerRec
    <3>3. power' \in PowerRec /\ txq' \in Seq(Commands)
      <4>1. power' = RestorePower(power, q, 1, restore).power
            /\ txq' = RestorePower(power, q, 1, restore).txq
        BY <2>5 DEF q
      <4> QED BY <3>1, <3>2, <4>1, RestoreType
    <3> QED BY <2>1, <2>5, <3>3 DEF TypeOK, States, PowerRec
  <2> QED BY <1>3, <2>2, <2>3, <2>4, <2>5, FinishStep
<1>4. ASSUME NEW ok \in BOOLEAN, Strrcl_ChipUpStart(ok) PROVE TypeOK'
  BY <1>4 DEF Strrcl_ChipUpStart, TypeOK, countVars
<1> QED BY <1>1, <1>2, <1>3, <1>4 DEF DriverAction

(***************************************************************************)
(* An event of the target that ends its store: the chip goes down, the     *)
(* target gives up, or the host takes no notice.                           *)
(***************************************************************************)
LEMMA EventStep ==
  ASSUME TypeOK, Api_StoreRecallStartEvent \/ Api_StoreRecallEvent
  PROVE  /\ CanEvent
         /\ UNCHANGED <<hd, asynchRequest, power, txq, user, asserted,
                        countVars>>
         /\ \/ target.todo = {} /\ Strrcl_ChipDown("ACTIVE")
            \/ "abort" \in Happens /\ Abort
            \/ UNCHANGED <<strrcl, target, drv>>
BY DEF Api_StoreRecallStartEvent, Api_StoreRecallEvent

\* The events of the target keep the types.
LEMMA TargetTypes ==
  ASSUME TypeOK, UserInv, TableSound, ContextInv, TargetAction
  PROVE  TypeOK'
<1>1. ASSUME NEW id \in DSET_STORE_RECALL, NEW ok \in BOOLEAN,
             Api_HostDsetCreateEvent(id, ok) \/ Api_HostDsetWriteEvent(id, ok)
      PROVE  TypeOK'
  <2>1. hd' \in Table
    BY <1>1, TableStep
  <2>2. target' \in TargetRec
    <3>1. target \in TargetRec
      BY DEF TypeOK, TargetRec
    <3>2. \/ target' = target
          \/ \E n \in Nat, s \in {target.todo, target.todo \ {id}} :
               target' = [target EXCEPT !.written[id] = n, !.todo = s]
      BY <1>1, TableStep
    <3>3. ASSUME NEW n \in Nat, NEW s \in SUBSET DSET_STORE_RECALL
          PROVE  [target EXCEPT !.written[id] = n, !.todo = s] \in TargetRec
      BY <3>1 DEF TargetRec
    <3>4. {target.todo, target.todo \ {id}} \subseteq SUBSET DSET_STORE_RECALL
      BY <3>1 DEF TargetRec
    <3> QED BY <3>1, <3>2, <3>3, <3>4
  <2>3. faults' \in 0 .. setting.faults
    BY <1>1, FaultType DEF Api_HostDsetCreateEvent, Api_HostDsetWriteEvent
  <2> QED BY <1>1, <2>1, <2>2, <2>3 DEF Api_HostDsetCreateEvent,
             Api_HostDsetWriteEvent, TypeOK, Table, SlotRec, TargetRec
<1>2. ASSUME NEW id \in DSET_STORE_RECALL, NEW ok \in BOOLEAN,
             NEW extra \in {0, Header},
             Api_HostDsetReadbackEvent(id, extra, ok)
      PROVE  TypeOK'
  <2>1. target' \in TargetRec
    <3>1. target \in TargetRec
      BY DEF TypeOK, TargetRec
    <3> DEFINE c == target'.ctx[id]
    <3>2. target' = [target EXCEPT !.todo = @ \ {id}, !.ctx[id] = c]
          /\ c \in Seq(Words)
      BY <1>2, ReadbackStep
    <3> HIDE DEF c
    <3> QED BY <3>1, <3>2 DEF TargetRec
  <2>2. power' \in PowerRec /\ txq' \in Seq(Commands)
    <3>1. power' = RestorePower(power, txq, 1, ok).power
          /\ txq' = RestorePower(power, txq, 1, ok).txq
      BY <1>2 DEF Api_HostDsetReadbackEvent
    <3>2. power \in PowerRec /\ txq \in Seq(Commands)
      BY DEF TypeOK, PowerRec
    <3> QED BY <3>1, <3>2, RestoreType
  <2>3. /\ faults' \in 0 .. setting.faults
        /\ UNCHANGED <<hd, strrcl, asynchRequest, user, drv, asserted,
                       cycles, setting>>
    BY <1>2, FaultType DEF Api_HostDsetReadbackEvent
  <2> QED BY <2>1, <2>2, <2>3 DEF TypeOK, TargetRec, PowerRec
<1>3. CASE Api_StoreRecallStartEvent \/ Api_StoreRecallEvent
  <2>1. Blank \in [DSET_STORE_RECALL -> Seq(Words)]
    BY DEF Blank
  <2>2. strrcl' \in [state : States, block : BOOLEAN, chipDown : BOOLEAN,
                     wmiReady : BOOLEAN]
        /\ target' \in TargetRec /\ drv' \in {"run", "down"}
    <3>1. CASE Strrcl_ChipDown("ACTIVE")
      <4>1. <<>> \in Seq({c[1] : c \in Commands}) /\ target \in TargetRec
        BY DEF TypeOK, TargetRec
      <4>2. target' = [target EXCEPT !.phase = "off", !.ctx = Blank,
                                     !.heard = <<>>]
        BY <3>1 DEF Strrcl_ChipDown
      <4>3. target' \in TargetRec
        BY <2>1, <4>1, <4>2 DEF TargetRec
      <4> QED BY <3>1, <4>3 DEF Strrcl_ChipDown, TypeOK, States
    <3>2. CASE Abort
      BY <3>2 DEF Abort, TypeOK, TargetRec, States
    <3>3. CASE UNCHANGED <<strrcl, target, drv>>
      BY <3>3 DEF TypeOK, TargetRec
    <3> QED BY <1>3, <3>1, <3>2, <3>3, EventStep
  <2>3. UNCHANGED <<hd, asynchRequest, power, txq, user, asserted, countVars>>
    BY <1>3, EventStep
  <2> QED BY <2>2, <2>3 DEF TypeOK, TargetRec, countVars
<1>4. CASE WmiReadyEvent
  BY <1>4, CommandsAre DEF WmiReadyEvent, TypeOK, countVars
<1> QED BY <1>1, <1>2, <1>3, <1>4 DEF TargetAction

\* What changes nothing keeps the types.
LEMMA StutterTypes == ASSUME TypeOK, UNCHANGED vars PROVE TypeOK'
BY DEF TypeOK, vars

\* TypeOK is kept by every step.
LEMMA TypeStep ==
  ASSUME TypeOK, UserInv, CycleInv, TableSound, ContextInv, [Next]_vars
  PROVE  TypeOK'
BY UserTypes, DriverTypes, TargetTypes, StutterTypes, NextIs

-----------------------------------------------------------------------------
(***************************************************************************)
(* What the steps do to the queue and to the users.                        *)
(***************************************************************************)
Plain == Commands \ {READY, RECALL, INITSTACK}

\* Append queues one command more, at the end.
LEMMA QueueAppend ==
  ASSUME txq \in Seq(Commands), NEW c \in Commands, txq' = Append(txq, c)
  PROVE  /\ \A x : Queued(x)' <=> Queued(x) \/ c = x
         /\ Len(txq) \in Nat /\ Len(txq') = Len(txq) + 1
         /\ txq'[Len(txq) + 1] = c
         /\ DOMAIN txq' = 1 .. Len(txq) + 1 /\ DOMAIN txq = 1 .. Len(txq)
         /\ \A k \in DOMAIN txq : txq'[k] = txq[k]
<1>1. /\ Len(txq) \in Nat /\ Len(txq') = Len(txq) + 1
      /\ txq'[Len(txq) + 1] = c
      /\ DOMAIN txq' = 1 .. Len(txq) + 1 /\ DOMAIN txq = 1 .. Len(txq)
      /\ \A k \in DOMAIN txq : txq'[k] = txq[k]
  OBVIOUS
<1>2. ASSUME NEW x PROVE Queued(x)' <=> Queued(x) \/ c = x
  BY <1>1 DEF Queued, In
<1> QED BY <1>1, <1>2

\* Tail drops the command at the head.
LEMMA QueueTail ==
  ASSUME txq \in Seq(Commands), txq # <<>>, txq' = Tail(txq)
  PROVE  /\ Head(txq) = txq[1] /\ Len(txq) \in Nat /\ Len(txq) > 0
         /\ Len(txq') = Len(txq) - 1
         /\ DOMAIN txq' = 1 .. Len(txq) - 1 /\ DOMAIN txq = 1 .. Len(txq)
         /\ \A k \in DOMAIN txq' : txq'[k] = txq[k + 1]
         /\ \A x : Queued(x) <=> Queued(x)' \/ Head(txq) = x
<1>1. /\ Head(txq) = txq[1] /\ Len(txq) \in Nat /\ Len(txq) > 0
      /\ Len(txq') = Len(txq) - 1
      /\ DOMAIN txq' = 1 .. Len(txq) - 1 /\ DOMAIN txq = 1 .. Len(txq)
      /\ \A k \in DOMAIN txq' : txq'[k] = txq[k + 1]
  OBVIOUS
<1>2. ASSUME NEW x PROVE Queued(x) <=> Queued(x)' \/ Head(txq) = x
  <2>1. ASSUME NEW k \in DOMAIN txq, txq[k] = x, Head(txq) # x
        PROVE  Queued(x)'
    <3>1. k - 1 \in DOMAIN txq' /\ txq'[k - 1] = x
      BY <1>1, <2>1
    <3> QED BY <3>1 DEF Queued, In
  <2>2. ASSUME NEW k \in DOMAIN txq', txq'[k] = x
        PROVE  Queued(x)
    <3>1. k + 1 \in DOMAIN txq /\ txq[k + 1] = x
      BY <1>1, <2>2
    <3> QED BY <3>1 DEF Queued, In
  <2>3. Head(txq) = x => Queued(x)
    BY <1>1 DEF Queued, In
  <2> QED BY <2>1, <2>2, <2>3 DEF Queued, In
<1> QED BY <1>1, <1>2

(***************************************************************************)
(* A step of a user task: it begins to suspend, it has begun, or it        *)
(* leaves the store and recall alone.                                      *)
(***************************************************************************)
LEMMA UserStep ==
  ASSUME TypeOK, UserInv, NEW u \in Users, UserAction(u)
  PROVE  /\ UNCHANGED <<hd, target, drv, asserted, setting>>
         /\ user[u].pc # user'[u].pc
         /\ \A v \in Users \ {u} : user'[v] = user[v]
         /\ \/ /\ user[u] = [pc |-> "start", op |-> "suspend"]
               /\ strrcl.state = "INIT"
               /\ strrcl' = [strrcl EXCEPT !.block = TRUE]
               /\ txq' = Append(txq, READY)
               /\ user'[u] = [pc |-> "sent", op |-> "suspend"]
               /\ UNCHANGED <<asynchRequest, power>>
            \/ /\ user[u] = [pc |-> "start", op |-> "suspend"]
               /\ strrcl' = strrcl
                  \/ (strrcl' = [strrcl EXCEPT !.block = FALSE]
                      /\ "no_buffer" \in Happens)
               /\ user'[u] = [pc |-> "idle", op |-> "idle"]
               /\ strrcl.state = "INIT"
                    => Happens \cap {"no_buffer", "short_time"} # {}
               /\ UNCHANGED <<asynchRequest, power, txq>>
            \/ /\ user[u] = [pc |-> "sent", op |-> "suspend"]
               /\ user'[u] = [pc |-> "idle", op |-> "idle"]
               /\ strrcl' = [strrcl EXCEPT !.state = "START"]
               /\ UNCHANGED <<asynchRequest, power, txq>>
            \/ /\ user[u].pc \notin {"start", "sent"} /\ user'[u].pc # "sent"
               /\ strrcl' = strrcl
               /\ \/ asynchRequest' = asynchRequest
                  \/ /\ asynchRequest' = "query" /\ user'[u].pc = "wait"
                     /\ user[u].pc = "in"
               /\ user[u].pc = "idle" =>
                    /\ txq' = txq /\ power' = power /\ ~strrcl.block
                    /\ user'[u].pc = "in"
                    /\ "interleave" \in Happens
                       \/ \A v \in Users : user[v].pc = "idle"
                    /\ user'[u].op = "suspend" =>
                         /\ Recalled \/ "resuspend" \in Happens
                         /\ cycles < MaxCycles
               /\ user[u].pc = "wait" =>
                    /\ txq' = txq /\ power' = power
                    /\ user'[u].pc = "idle" /\ asynchRequest # "query"
               /\ \/ txq' = txq
                  \/ \E c \in Plain : txq' = Append(txq, c)
<1>0. ASSUME NEW pc \in {"idle", "in", "start", "sent", "wait"},
             NEW op \in Operations \cup {"idle"}, Step(u, pc, op)
      PROVE  /\ user'[u] = [pc |-> pc, op |-> op]
             /\ user'[u].pc = pc /\ user'[u].op = op
             /\ \A v \in Users \ {u} : user'[v] = user[v]
  BY <1>0, StepType
<1>10. {"suspend", "query", "idle"} \subseteq Operations \cup {"idle"}
  BY DEF Operations
<1>1. ASSUME NEW op \in Operations, Enter(u, op)
      PROVE  /\ UNCHANGED <<hd, target, drv, asserted, setting, strrcl,
                            asynchRequest, txq, power>>
             /\ user[u].pc = "idle" /\ user'[u].pc = "in" /\ ~strrcl.block
             /\ "interleave" \in Happens
                \/ \A v \in Users : user[v].pc = "idle"
             /\ user'[u].op = "suspend" =>
                  /\ Recalled \/ "resuspend" \in Happens
                  /\ cycles < MaxCycles
             /\ \A v \in Users \ {u} : user'[v] = user[v]
  <2>1. Step(u, "in", op)
    BY <1>1 DEF Enter
  <2>2. user'[u].pc = "in" /\ user'[u].op = op
        /\ \A v \in Users \ {u} : user'[v] = user[v]
    <3>1. op \in Operations \cup {"idle"}
      OBVIOUS
    <3>2. "in" \in {"idle", "in", "start", "sent", "wait"}
      OBVIOUS
    <3> QED BY ONLY <1>0, <2>1, <3>1, <3>2
  <2> QED BY <1>1, <2>2 DEF Enter, countVars
<1>2. ASSUME NEW m \in Modes PROVE <<"power", m>> \in Plain
  BY <1>2, CommandsAre DEF Plain, POWER
<1>3. <<"command", "">> \in Plain /\ "MAX" \in Modes
  BY CommandsAre DEF Plain
<1>4. ASSUME NEW c, NEW ok \in BOOLEAN, wmi_cmd_start(c, ok)
      PROVE  txq' = txq \/ txq' = Append(txq, c)
  BY <1>4 DEF wmi_cmd_start
<1>5. ASSUME NEW ok \in BOOLEAN, SuspendPower(u, ok)
      PROVE  /\ UNCHANGED <<hd, target, drv, asserted, setting, strrcl,
                            asynchRequest>>
             /\ user[u].pc = "in" /\ user'[u].pc \in {"start", "idle"}
             /\ \A v \in Users \ {u} : user'[v] = user[v]
             /\ \/ txq' = txq
                \/ \E c \in Plain : txq' = Append(txq, c)
  <2>1. Step(u, "start", "suspend") \/ Step(u, "idle", "idle")
    BY <1>5 DEF SuspendPower
  <2>2. user'[u].pc \in {"start", "idle"}
        /\ \A v \in Users \ {u} : user'[v] = user[v]
    BY <1>0, <1>10, <2>1
  <2>3. \/ txq' = txq
        \/ \E c \in Plain : txq' = Append(txq, c)
    BY <1>2, <1>3, <1>4, <1>5 DEF SuspendPower, move_power_state_to_maxperf
  <2> QED BY <1>5, <2>2, <2>3 DEF SuspendPower
<1>6. ASSUME NEW ok \in BOOLEAN, UserPower(u, ok) \/ UserCommand(u, ok)
      PROVE  /\ UNCHANGED <<hd, target, drv, asserted, setting, strrcl,
                            asynchRequest>>
             /\ user[u].pc = "in" /\ user'[u].pc = "idle"
             /\ \A v \in Users \ {u} : user'[v] = user[v]
             /\ \/ txq' = txq
                \/ \E c \in Plain : txq' = Append(txq, c)
  <2>1. user'[u].pc = "idle" /\ \A v \in Users \ {u} : user'[v] = user[v]
    <3>1. Step(u, "idle", "idle")
      BY <1>6 DEF UserPower, UserCommand
    <3> QED BY <1>0, <1>10, <3>1
  <2>2. CASE UserPower(u, ok)
    <3>1. \E m \in Modes : wmi_cmd_start(<<"power", m>>, ok)
      BY <2>2 DEF UserPower, Api_SetPowerMode, Modes, TypeOK
    <3>2. \/ txq' = txq
          \/ \E c \in Plain : txq' = Append(txq, c)
      BY <1>2, <1>4, <3>1
    <3> QED BY <2>1, <2>2, <3>2 DEF UserPower
  <2>3. CASE UserCommand(u, ok)
    <3>1. \/ txq' = txq
          \/ \E c \in Plain : txq' = Append(txq, c)
      BY <1>3, <1>4, <2>3 DEF UserCommand
    <3>2. UNCHANGED <<hd, target, drv, asserted, setting, strrcl,
                      asynchRequest>>
      BY <2>3 DEF UserCommand
    <3>3. user[u] = [pc |-> "in", op |-> "command"]
      BY <2>3 DEF UserCommand
    <3> QED BY <2>1, <3>1, <3>2, <3>3
  <2> QED BY <1>6, <2>2, <2>3
<1>7. ASSUME NEW ok \in BOOLEAN, SuspendStart(u, ok)
      PROVE  /\ UNCHANGED <<hd, target, drv, asserted, setting,
                            asynchRequest, power>>
             /\ user[u] = [pc |-> "start", op |-> "suspend"]
             /\ \A v \in Users \ {u} : user'[v] = user[v]
             /\ \/ /\ strrcl.state = "INIT"
                   /\ strrcl' = [strrcl EXCEPT !.block = TRUE]
                   /\ txq' = Append(txq, READY)
                   /\ user'[u] = [pc |-> "sent", op |-> "suspend"]
                \/ /\ strrcl' = strrcl
                      \/ (strrcl' = [strrcl EXCEPT !.block = FALSE]
                          /\ "no_buffer" \in Happens)
                   /\ strrcl.state = "INIT"
                        => Happens \cap {"no_buffer", "short_time"} # {}
                   /\ txq' = txq
                   /\ user'[u] = [pc |-> "idle", op |-> "idle"]
  <2>1. "suspend" \in Operations
    BY DEF Operations
  <2>2. \A pc \in {"sent", "idle"}, op \in {"suspend", "idle"} :
          Step(u, pc, op) => /\ user'[u] = [pc |-> pc, op |-> op]
                             /\ \A v \in Users \ {u} : user'[v] = user[v]
    BY <2>1, StepType
  <2>3. CASE /\ strrcl.state = "INIT" /\ strrcl' = [strrcl EXCEPT !.block = ok]
             /\ wmi_cmd_start(<<"ready", "">>, ok)
             /\ IF ok THEN Step(u, "sent", "suspend")
                      ELSE Step(u, "idle", "idle")
    <3>1. IF ok THEN txq' = Append(txq, READY)
          ELSE txq' = txq /\ "no_buffer" \in Happens
      BY <2>3 DEF wmi_cmd_start, MayFail, READY
    <3> QED BY <1>7, <2>2, <2>3, <3>1 DEF SuspendStart
  <2>4. CASE /\ strrcl.state # "INIT" \/ "short_time" \in Happens
             /\ Step(u, "idle", "idle") /\ UNCHANGED <<strrcl, txq>>
    BY <1>7, <2>2, <2>4 DEF SuspendStart
  <2> QED BY <1>7, <2>3, <2>4 DEF SuspendStart
<1>8. ASSUME SuspendSent(u)
      PROVE  /\ UNCHANGED <<hd, target, drv, asserted, setting,
                            asynchRequest, power, txq>>
             /\ user[u] = [pc |-> "sent", op |-> "suspend"]
             /\ user'[u] = [pc |-> "idle", op |-> "idle"]
             /\ \A v \in Users \ {u} : user'[v] = user[v]
             /\ strrcl' = [strrcl EXCEPT !.state = "START"]
  BY <1>8, StepType DEF SuspendSent, countVars
<1>9. ASSUME Api_TxGetStatus(u) \/ WaitOver(u)
      PROVE  /\ UNCHANGED <<hd, target, drv, asserted, setting, strrcl, txq,
                            power>>
             /\ \A v \in Users \ {u} : user'[v] = user[v]
             /\ \/ /\ asynchRequest' = asynchRequest
                   /\ user[u].pc = "in" /\ user'[u].pc = "idle"
                \/ /\ asynchRequest' = asynchRequest
                   /\ asynchRequest # "query"
                   /\ user[u].pc = "wait" /\ user'[u].pc = "idle"
                \/ /\ asynchRequest' = "query" /\ user'[u].pc = "wait"
                   /\ user[u].pc = "in"
  <2>1. CASE Api_TxGetStatus(u)
    <3>1. user[u].pc = "in"
      BY <2>1 DEF Api_TxGetStatus
    <3>2. \/ asynchRequest' = "query" /\ Step(u, "wait", "query")
          \/ Step(u, "idle", "idle") /\ UNCHANGED asynchRequest
      BY <2>1 DEF Api_TxGetStatus
    <3> QED BY <1>0, <1>10, <2>1, <3>1, <3>2 DEF Api_TxGetStatus, countVars
  <2>2. CASE WaitOver(u)
    <3>1. user[u].pc = "wait" /\ asynchRequest # "query"
          /\ Step(u, "idle", "idle") /\ UNCHANGED asynchRequest
      BY <2>2 DEF WaitOver
    <3> QED BY <1>0, <1>10, <2>2, <3>1 DEF WaitOver, countVars
  <2> QED BY <1>9, <2>1, <2>2
<1> QED BY <1>1, <1>5, <1>6, <1>7, <1>8, <1>9 DEF UserAction

\* The setting stays; and so does what follows from it.
LEMMA SameSetting ==
  ASSUME TypeOK, UserInv, [Next]_vars
  PROVE  /\ setting' = setting /\ Happens' = Happens /\ OpsOf' = OpsOf
         /\ OneSuspender' = OneSuspender /\ Undisturbed' = Undisturbed
<1>1. setting' = setting
  <2>1. ASSUME NEW u \in Users, UserAction(u) PROVE setting' = setting
    BY <2>1, UserStep
  <2>2. ASSUME DriverAction PROVE setting' = setting
    BY <2>2, FinishStep DEF DriverAction, SendCommand, RunQuery,
                            Strrcl_ChipUpStart, countVars
  <2>3. ASSUME TargetAction PROVE setting' = setting
    <3>1. ASSUME NEW id \in DSET_STORE_RECALL, NEW ok \in BOOLEAN,
                 \/ Api_HostDsetCreateEvent(id, ok)
                 \/ Api_HostDsetWriteEvent(id, ok)
                 \/ \E extra \in {0, Header} :
                      Api_HostDsetReadbackEvent(id, extra, ok)
          PROVE  setting' = setting
      BY <3>1 DEF Api_HostDsetCreateEvent, Api_HostDsetWriteEvent,
                  Api_HostDsetReadbackEvent
    <3>2. Api_StoreRecallStartEvent \/ Api_StoreRecallEvent \/ WmiReadyEvent
            => setting' = setting
      BY DEF Api_StoreRecallStartEvent, Api_StoreRecallEvent, WmiReadyEvent,
             countVars
    <3> QED BY <2>3, <3>1, <3>2 DEF TargetAction
  <2> QED BY <2>1, <2>2, <2>3, NextIs DEF vars
<1> QED BY <1>1 DEF Happens, OpsOf, OneSuspender, Undisturbed

(***************************************************************************)
(* What the driver task and the target leave alone: the users, but for     *)
(* those who wait for a query.                                             *)
(***************************************************************************)
LEMMA OthersStep ==
  ASSUME TypeOK, UserInv, DriverAction \/ TargetAction
  PROVE  /\ \/ user' = user
            \/ /\ user' = [v \in Users |->
                             IF user[v].pc = "wait"
                             THEN [pc |-> "idle", op |-> "idle"] ELSE user[v]]
               /\ asynchRequest' = "NULL"
         /\ cycles' = cycles
         /\ asynchRequest' \in {asynchRequest, "NULL", "finish"}
         /\ power'.user = power.user /\ power'.setting = power.setting
<1> DEFINE Frame ==
         /\ \/ user' = user
            \/ /\ user' = [v \in Users |->
                             IF user[v].pc = "wait"
                             THEN [pc |-> "idle", op |-> "idle"] ELSE user[v]]
               /\ asynchRequest' = "NULL"
         /\ cycles' = cycles
         /\ asynchRequest' \in {asynchRequest, "NULL", "finish"}
<1>0. power \in PowerRec /\ txq \in Seq(Commands)
  BY DEF TypeOK, PowerRec
<1>1. CASE SendCommand \/ RunQuery
           \/ \E ok \in BOOLEAN : Strrcl_ChipUpStart(ok)
  BY <1>1 DEF SendCommand, RunQuery, Strrcl_ChipUpStart, countVars
<1>2. ASSUME NEW stack \in BOOLEAN, NEW recall \in BOOLEAN,
             NEW restore \in BOOLEAN,
             Strrcl_ChipUpFinish(stack, recall, restore)
      PROVE  Frame /\ power'.user = power.user
                   /\ power'.setting = power.setting
  <2>1. Frame
    BY <1>2, FinishStep
  <2>2. power'.user = power.user /\ power'.setting = power.setting
    <3>1. FinishQueue \in Seq(Commands) /\ RECALL \in Commands
      BY <1>2, FinishStep, CommandsAre
    <3>2. Append(FinishQueue, RECALL) \in Seq(Commands)
      BY <3>1
    <3>3. \/ power' = power
          \/ power' = RestorePower(power, Append(FinishQueue, RECALL), 1,
                                   restore).power
      BY <1>2, FinishStep
    <3> DEFINE q == Append(FinishQueue, RECALL)
               p == RestorePower(power, q, 1, restore).power
    <3>4. q \in Seq(Commands)
      BY <3>2
    <3> HIDE DEF q
    <3>5. p.user = power.user /\ p.setting = power.setting
      BY <1>0, <3>4, RestoreType
    <3>6. power' = power \/ power' = p
      BY <3>3 DEF q
    <3> HIDE DEF p
    <3> QED BY <3>5, <3>6
  <2> QED BY <2>1, <2>2
<1>3. ASSUME NEW id \in DSET_STORE_RECALL, NEW ok \in BOOLEAN,
             NEW extra \in {0, Header},
             Api_HostDsetReadbackEvent(id, extra, ok)
      PROVE  Frame /\ power'.user = power.user
                   /\ power'.setting = power.setting
  <2>1. power' = RestorePower(power, txq, 1, ok).power
    BY <1>3 DEF Api_HostDsetReadbackEvent
  <2>2. power'.user = power.user /\ power'.setting = power.setting
    BY <1>0, <2>1, RestoreType
  <2> QED BY <1>3, <2>2 DEF Api_HostDsetReadbackEvent
<1>4. ASSUME NEW id \in DSET_STORE_RECALL, NEW ok \in BOOLEAN,
             Api_HostDsetCreateEvent(id, ok) \/ Api_HostDsetWriteEvent(id, ok)
      PROVE  Frame /\ power' = power
  BY <1>4 DEF Api_HostDsetCreateEvent, Api_HostDsetWriteEvent
<1>5. ASSUME Api_StoreRecallStartEvent \/ Api_StoreRecallEvent
             \/ WmiReadyEvent
      PROVE  Frame /\ power' = power
  BY <1>5 DEF Api_StoreRecallStartEvent, Api_StoreRecallEvent, WmiReadyEvent,
              countVars
<1> QED BY <1>1, <1>2, <1>3, <1>4, <1>5 DEF DriverAction, TargetAction

\* A task that moves on in the driver does so with its operation.
UserOk(x, ops) == /\ x.pc = "idle" <=> x.op = "idle"
                  /\ x.op # "idle" => x.op \in ops
                  /\ x.pc \in {"start", "sent"} => x.op = "suspend"

\* Where a task goes, from where it is and with which operation.
LEMMA UserMoves ==
  ASSUME TypeOK, UserInv, NEW u \in Users, UserAction(u)
  PROVE  UserOk(user'[u], OpsOf[u])
<1>1. UserOk(user[u], OpsOf[u])
  BY DEF UserInv, UserOk
<1>2. ASSUME NEW pc \in {"idle", "in", "start", "sent", "wait"},
             NEW op \in Operations \cup {"idle"}, Step(u, pc, op),
             UserOk([pc |-> pc, op |-> op], OpsOf[u])
      PROVE  UserOk(user'[u], OpsOf[u])
  BY <1>2, StepType
<1>3. {"suspend", "query", "idle"} \subseteq Operations \cup {"idle"}
      /\ "idle" \notin Operations
  BY DEF Operations
<1>4. UserOk([pc |-> "idle", op |-> "idle"], OpsOf[u])
  BY DEF UserOk
<1>5. ASSUME NEW op \in Operations, Enter(u, op)
      PROVE  UserOk(user'[u], OpsOf[u])
  <2>1. op \in OpsOf[u] /\ Step(u, "in", op) /\ op # "idle"
    BY <1>3, <1>5 DEF Enter
  <2>2. UserOk([pc |-> "in", op |-> op], OpsOf[u])
    BY <2>1 DEF UserOk
  <2> QED BY <1>2, <2>1, <2>2
<1>6. ASSUME NEW ok \in BOOLEAN, SuspendPower(u, ok) \/ SuspendStart(u, ok)
      PROVE  UserOk(user'[u], OpsOf[u])
  <2>1. user[u].op = "suspend"
    <3>1. \/ user[u] = [pc |-> "in", op |-> "suspend"]
          \/ user[u] = [pc |-> "start", op |-> "suspend"]
      BY <1>6 DEF SuspendPower, SuspendStart
    <3> QED BY <3>1
  <2>2. "suspend" \in OpsOf[u]
    BY <1>1, <2>1 DEF UserOk
  <2>3. UserOk([pc |-> "start", op |-> "suspend"], OpsOf[u])
        /\ UserOk([pc |-> "sent", op |-> "suspend"], OpsOf[u])
    BY <2>2 DEF UserOk
  <2>4. \/ Step(u, "idle", "idle") \/ Step(u, "start", "suspend")
        \/ Step(u, "sent", "suspend")
    BY <1>6 DEF SuspendPower, SuspendStart
  <2> QED BY <1>2, <1>3, <1>4, <2>3, <2>4
<1>7. CASE Api_TxGetStatus(u)
  <2>1. user[u].op = "query"
    BY <1>7 DEF Api_TxGetStatus
  <2>2. "query" \in OpsOf[u]
    BY <1>1, <2>1 DEF UserOk
  <2>3. UserOk([pc |-> "wait", op |-> "query"], OpsOf[u])
    BY <2>2 DEF UserOk
  <2>4. Step(u, "idle", "idle") \/ Step(u, "wait", "query")
    BY <1>7 DEF Api_TxGetStatus
  <2> QED BY <1>2, <1>3, <1>4, <2>3, <2>4
<1>8. ASSUME \/ \E ok \in BOOLEAN : UserPower(u, ok) \/ UserCommand(u, ok)
             \/ SuspendSent(u) \/ WaitOver(u)
      PROVE  UserOk(user'[u], OpsOf[u])
  <2>1. Step(u, "idle", "idle")
    BY <1>8 DEF UserPower, UserCommand, SuspendSent, WaitOver
  <2> QED BY <1>2, <1>3, <1>4, <2>1
<1> QED BY <1>5, <1>6, <1>7, <1>8 DEF UserAction

\* UserInv is kept by every step.
LEMMA UserInvStep ==
  ASSUME TypeOK, UserInv, [Next]_vars
  PROVE  UserInv'
<1>0. setting' = setting /\ Happens' = Happens /\ OpsOf' = OpsOf
      /\ setting \in Settings
  BY SameSetting DEF UserInv
<1> DEFINE Ok == \A v \in Users : UserOk(user[v], OpsOf[v])
           Alone == "interleave" \notin Happens =>
                      \A v, w \in Users : user[v].pc # "idle" /\ user[w].pc # "idle"
                                            => v = w
           Placed == asynchRequest = "query" =>
                       \E v \in Users : user[v].pc = "wait"
<1>1. Ok /\ Alone /\ Placed
  BY DEF UserInv, UserOk
<1>2. ASSUME NEW u \in Users, UserAction(u)
      PROVE  Ok' /\ Alone' /\ Placed'
  <2>1. Ok'
    BY <1>0, <1>1, <1>2, UserMoves, UserStep
  <2>2. Alone'
    <3>1. CASE user[u].pc = "idle"
      BY <1>0, <1>2, <3>1, UserStep
    <3>2. CASE user[u].pc # "idle"
      BY <1>0, <1>1, <1>2, <3>2, UserStep
    <3> QED BY <3>1, <3>2
  <2>3. Placed'
    <3> SUFFICES ASSUME asynchRequest' = "query"
                 PROVE  \E v \in Users : user'[v].pc = "wait"
      OBVIOUS
    <3>1. CASE user'[u].pc = "wait"
      BY <3>1
    <3>2. CASE user'[u].pc # "wait"
      <4>1. asynchRequest = "query" /\ user[u].pc # "wait"
        BY <1>2, <3>2, UserStep
      <4>2. PICK v \in Users : user[v].pc = "wait"
        BY <1>1, <4>1
      <4>3. v # u /\ user'[v] = user[v]
        BY <1>2, <4>1, <4>2, UserStep
      <4> QED BY <4>2, <4>3
    <3> QED BY <3>1, <3>2
  <2> QED BY <2>1, <2>2, <2>3
<1>3. ASSUME DriverAction \/ TargetAction
      PROVE  Ok' /\ Alone' /\ Placed'
  <2>1. CASE user' = user
    BY <1>0, <1>1, <1>3, <2>1, OthersStep
  <2>2. CASE /\ user' = [v \in Users |->
                             IF user[v].pc = "wait"
                             THEN [pc |-> "idle", op |-> "idle"] ELSE user[v]]
             /\ asynchRequest' = "NULL"
    <3>1. \A v \in Users : \/ user'[v] = user[v]
                           \/ user'[v] = [pc |-> "idle", op |-> "idle"]
      BY <2>2
    <3>2. UserOk([pc |-> "idle", op |-> "idle"], {})
      BY DEF UserOk
    <3>3. Ok'
      BY <1>0, <1>1, <3>1 DEF UserOk
    <3>4. Alone'
      BY <1>0, <1>1, <3>1
    <3> QED BY <2>2, <3>3, <3>4
  <2> QED BY <1>3, <2>1, <2>2, OthersStep
<1>4. ASSUME UNCHANGED vars PROVE Ok' /\ Alone' /\ Placed'
  BY <1>0, <1>1, <1>4 DEF vars
<1>5. Ok' /\ Alone' /\ Placed'
  BY <1>2, <1>3, <1>4, NextIs
<1> QED BY <1>0, <1>5 DEF UserInv, UserOk

\* Unless two tasks may suspend at once, one at most does.
LEMMA SoleSuspender ==
  ASSUME UserInv, OneSuspender, NEW u \in Users, NEW v \in Users,
         user[u].op = "suspend", user[v].op = "suspend"
  PROVE  u = v
<1>1. "suspend" \in OpsOf[u] \cap OpsOf[v]
      /\ user[u].pc # "idle" /\ user[v].pc # "idle"
  BY DEF UserInv
<1> QED BY <1>1 DEF UserInv, OneSuspender

\* Neither a count that does not grow nor one below its bound exceeds it.
LEMMA WithinBound ==
  ASSUME NEW c \in Nat, NEW n \in Nat, NEW M \in Nat, NEW N \in Nat,
         NEW d, NEW m \in Nat, d = c,
         (c + n <= M + N /\ m <= n) \/ (c < M /\ m <= N)
  PROVE  d + m <= M + N
OBVIOUS

(***************************************************************************)
(* A suspend is counted when it begins, whoever enters to suspend is below *)
(* MaxCycles, and no more tasks than there are suspend.                    *)
(***************************************************************************)
LEMMA CycleStep ==
  ASSUME TypeOK, UserInv, CycleInv, [Next]_vars
  PROVE  CycleInv'
<1> DEFINE n == Cardinality(SuspendersOf)
           N == Cardinality(Users)
<1>0. cycles + n <= MaxCycles + N /\ cycles \in Nat /\ n \in Nat /\ n' \in Nat
      /\ N \in Nat /\ MaxCycles \in Nat
  <2>1. cycles + n <= MaxCycles + N
    BY DEF CycleInv, SuspendersOf, Suspending
  <2> QED BY <2>1, SuspendersFinite DEF TypeOK
<1>1. ASSUME SuspendersOf' \subseteq SuspendersOf PROVE n' <= n
  BY <1>1, SuspendersFinite, FS_Subset
<1>2. n' <= N
  <2>1. SuspendersOf' \subseteq Users
    BY DEF SuspendersOf
  <2> QED BY <2>1, RunAssumption, FS_Subset
<1>3. \A v \in Users : v \in SuspendersOf <=> Suspending(v)
  BY DEF SuspendersOf
<1>4. \A v \in Users : v \in SuspendersOf' <=> Suspending(v)'
  BY DEF SuspendersOf
<1>5. SuspendersOf \subseteq Users /\ SuspendersOf' \subseteq Users
  BY DEF SuspendersOf
<1>9. ASSUME cycles' = cycles, n' <= n
      PROVE  cycles' + n' <= MaxCycles + N
  <2> HIDE DEF n, N
  <2> QED BY <1>0, <1>9, WithinBound
<1>10. ASSUME cycles' = cycles, cycles < MaxCycles
       PROVE  cycles' + n' <= MaxCycles + N
  <2> HIDE DEF n, N
  <2> QED BY <1>0, <1>2, <1>10, WithinBound
<1>6. ASSUME NEW u \in Users, UserAction(u)
      PROVE  cycles' + n' <= MaxCycles + N
  <2>1. \A v \in Users \ {u} : user'[v] = user[v]
    BY <1>6, UserStep
  <2>2. \A v \in Users \ {u} : v \in SuspendersOf' <=> v \in SuspendersOf
    BY <1>3, <1>4, <2>1 DEF Suspending
  <2>3. ASSUME Suspending(u) \/ ~Suspending(u)' PROVE n' <= n
    <3>1. SuspendersOf' \subseteq SuspendersOf
      BY <1>3, <1>4, <1>5, <2>2, <2>3
    <3> QED BY <1>1, <3>1
  <2>4. ASSUME NEW op \in Operations, Enter(u, op)
        PROVE  cycles' + n' <= MaxCycles + N
    <3>1. cycles' = cycles /\ (op = "suspend" => cycles < MaxCycles)
      BY <2>4 DEF Enter, countVars
    <3>2. CASE op = "suspend"
      <4>1. cycles' = cycles /\ cycles < MaxCycles
        BY <3>1, <3>2
      <4> QED BY <1>10, <4>1
    <3>3. CASE op # "suspend"
      <4>1. user'[u].op = op
        <5>1. Step(u, "in", op) /\ op \in Operations \cup {"idle"}
          BY <2>4 DEF Enter
        <5>2. "in" \in {"idle", "in", "start", "sent", "wait"}
          OBVIOUS
        <5>3. user'[u] = [pc |-> "in", op |-> op]
          BY <5>1, <5>2, StepType
        <5> QED BY <5>3
      <4>2. n' <= n
        BY <2>3, <3>3, <4>1 DEF Suspending
      <4> QED BY <1>9, <3>1, <4>2
    <3> QED BY <3>2, <3>3
  <2>5. ASSUME NEW ok \in BOOLEAN, SuspendPower(u, ok)
        PROVE  cycles' + n' <= MaxCycles + N
    <3>1. user[u] = [pc |-> "in", op |-> "suspend"] /\ cycles' = cycles
      BY <2>5 DEF SuspendPower
    <3>2. Suspending(u)
      BY <3>1 DEF Suspending
    <3>3. n' <= n
      BY <2>3, <3>2
    <3> QED BY <1>9, <3>1, <3>3
  <2>6. ASSUME NEW ok \in BOOLEAN, SuspendStart(u, ok)
        PROVE  cycles' + n' <= MaxCycles + N
    <3>1. user[u] = [pc |-> "start", op |-> "suspend"]
          /\ (cycles' = cycles + 1 \/ cycles' = cycles)
      BY <2>6 DEF SuspendStart, countVars
    <3>2. Suspending(u)
      BY <3>1 DEF Suspending
    <3>3. user'[u].pc \in {"sent", "idle"}
      <4>1. Step(u, "sent", "suspend") \/ Step(u, "idle", "idle")
        BY <2>6 DEF SuspendStart
      <4> QED BY <4>1, StepType DEF Operations
    <3>4. u \notin SuspendersOf' /\ u \in SuspendersOf
      BY <1>3, <1>4, <3>2, <3>3 DEF Suspending
    <3>5. SuspendersOf' = SuspendersOf \ {u}
      BY <1>5, <2>2, <3>4
    <3>6. n' = n - 1
      BY <3>4, <3>5, SuspendersFinite, FS_RemoveElement
    <3> HIDE DEF n, N
    <3> QED BY <1>0, <3>1, <3>6
  <2>7. ASSUME \/ \E ok \in BOOLEAN : UserPower(u, ok) \/ UserCommand(u, ok)
               \/ SuspendSent(u) \/ Api_TxGetStatus(u) \/ WaitOver(u)
        PROVE  cycles' + n' <= MaxCycles + N
    <3>0. Step(u, "idle", "idle") \/ Step(u, "wait", "query")
      BY <2>7 DEF UserPower, UserCommand, SuspendSent, Api_TxGetStatus,
                  WaitOver
    <3>1. cycles' = cycles
      BY <2>7 DEF UserPower, UserCommand, SuspendSent, Api_TxGetStatus,
                  WaitOver, countVars
    <3>2. user'[u].pc \in {"idle", "wait"}
      BY <3>0, StepType DEF Operations
    <3>3. n' <= n
      BY <2>3, <3>2 DEF Suspending
    <3> QED BY <1>9, <3>1, <3>3
  <2> QED BY <1>6, <2>4, <2>5, <2>6, <2>7 DEF UserAction
<1>7. ASSUME DriverAction \/ TargetAction \/ UNCHANGED vars
      PROVE  cycles' + n' <= MaxCycles + N
  <2>1. cycles' = cycles /\ \A v \in Users : \/ user'[v] = user[v]
                                             \/ user'[v].pc = "idle"
    BY <1>7, OthersStep DEF vars
  <2>2. SuspendersOf' \subseteq SuspendersOf
    BY <1>3, <1>4, <1>5, <2>1 DEF Suspending
  <2>3. n' <= n
    BY <1>1, <2>2
  <2> QED BY <1>9, <2>1, <2>3
<1>8. cycles' + n' <= MaxCycles + N
  BY <1>6, <1>7, NextIs
<1> QED BY <1>8 DEF CycleInv, SuspendersOf, Suspending

(***************************************************************************)
(* The steps of the driver task and of the target, and what each of them   *)
(* leaves alone.                                                           *)
(***************************************************************************)
TableEvent == \E id \in DSET_STORE_RECALL, ok \in BOOLEAN :
                \/ Api_HostDsetCreateEvent(id, ok)
                \/ Api_HostDsetWriteEvent(id, ok)
ReadbackEvent == \E id \in DSET_STORE_RECALL, ok \in BOOLEAN,
                    extra \in {0, Header} :
                   Api_HostDsetReadbackEvent(id, extra, ok)
StoreEvent == Api_StoreRecallStartEvent \/ Api_StoreRecallEvent
Finish == \E stack, recall, restore \in BOOLEAN :
            Strrcl_ChipUpFinish(stack, recall, restore)
ChipUp == \E ok \in BOOLEAN : Strrcl_ChipUpStart(ok)
Idle == /\ UNCHANGED <<hd, strrcl, power, txq, target, drv, asserted>>
        /\ asynchRequest' = asynchRequest \/ asynchRequest' = "NULL"

\* The steps, in the groups that the proofs below treat alike.
LEMMA Steps ==
  ASSUME [Next]_vars
  PROVE  \/ \E u \in Users : UserAction(u)
         \/ SendCommand \/ Finish \/ ChipUp \/ TableEvent \/ ReadbackEvent
         \/ StoreEvent \/ WmiReadyEvent
         \/ Idle /\ (UNCHANGED vars \/ RunQuery)
<1>1. UNCHANGED vars => Idle
  BY DEF vars, Idle
<1>2. RunQuery => Idle
  BY DEF RunQuery, Idle, countVars
<1>3. DriverAction => SendCommand \/ RunQuery \/ Finish \/ ChipUp
  BY DEF DriverAction, Finish, ChipUp
<1>4. TargetAction => \/ TableEvent \/ ReadbackEvent
                      \/ StoreEvent \/ WmiReadyEvent
  BY DEF TargetAction, TableEvent, ReadbackEvent, StoreEvent
<1> QED BY <1>1, <1>2, <1>3, <1>4, NextIs

\* The events that create and write data sets change little else.
LEMMA TableFrame ==
  ASSUME TableEvent
  PROVE  /\ CanEvent
         /\ UNCHANGED <<strrcl, asynchRequest, power, txq, user, drv, asserted,
                        cycles, setting>>
BY DEF TableEvent, Api_HostDsetCreateEvent, Api_HostDsetWriteEvent

\* A readback may restore the power mode.
LEMMA ReadbackFrame ==
  ASSUME ReadbackEvent
  PROVE  /\ drv = "run" /\ target.phase = "up" /\ target.todo # {}
         /\ UNCHANGED <<hd, strrcl, asynchRequest, user, drv, asserted,
                        cycles, setting>>
         /\ \E ok \in BOOLEAN :
              /\ power' = RestorePower(power, txq, 1, ok).power
              /\ txq' = RestorePower(power, txq, 1, ok).txq
              /\ ok \/ "no_buffer" \in Happens
BY DEF ReadbackEvent, Api_HostDsetReadbackEvent, MayFail

\* The target boots, or stays off.
LEMMA ChipUpFrame ==
  ASSUME ChipUp
  PROVE  /\ drv = "down" /\ drv' = "run"
         /\ UNCHANGED <<hd, strrcl, power, txq, user, asserted, cycles,
                        setting>>
         /\ \/ /\ asynchRequest' = "finish"
               /\ target' = [target EXCEPT !.phase = "boot"]
            \/ /\ asynchRequest' = asynchRequest
               /\ target' = [target EXCEPT !.phase = "off"]
BY DEF ChipUp, Strrcl_ChipUpStart, countVars

\* The last step of a recall changes neither users nor target.
LEMMA FinishFrame ==
  ASSUME TypeOK, UserInv, Finish
  PROVE  UNCHANGED <<hd, target, user, drv, cycles, setting>>
BY FinishStep DEF Finish

\* What the target stored is where it was if neither changes.
LEMMA SameStored ==
  ASSUME hd' = hd, target'.saved = target.saved, NEW id
  PROVE  Stored(id)' <=> Stored(id)
BY DEF Stored, Holds

(***************************************************************************)
(* The table stays sound: only the events that create and write a data set *)
(* change it.                                                              *)
(***************************************************************************)
LEMMA TableSoundStep ==
  ASSUME TypeOK, UserInv, TableSound, [Next]_vars
  PROVE  TableSound'
<1>1. TableEvent => TableSound'
  BY TableStep DEF TableEvent
<1>2. ~TableEvent => hd' = hd
  <2>1. ASSUME NEW u \in Users, UserAction(u) PROVE hd' = hd
    BY <2>1, UserStep
  <2>2. SendCommand \/ StoreEvent \/ WmiReadyEvent \/ Idle => hd' = hd
    BY EventStep DEF SendCommand, StoreEvent, WmiReadyEvent, Idle
  <2> QED BY <2>1, <2>2, Steps, FinishFrame, ChipUpFrame, ReadbackFrame
<1>3. hd' = hd => TableSound'
  BY DEF TableSound
<1> QED BY <1>1, <1>2, <1>3

(***************************************************************************)
(* Votes: a module that wants full performance adds its own, one that no   *)
(* longer needs it takes it away, and the last turns power save on.        *)
(***************************************************************************)
LEMMA PowerVotesStep ==
  ASSUME TypeOK, UserInv, PowerVotes, [Next]_vars
  PROVE  PowerVotes'
<1>0. power \in PowerRec
  BY DEF TypeOK, PowerRec
<1>1. ASSUME power'.user = power.user, power'.setting = power.setting
      PROVE  PowerVotes'
  BY <1>1 DEF PowerVotes
<1>2. ASSUME NEW u \in Users, UserAction(u)
      PROVE  PowerVotes'
  <2>1. ASSUME NEW ok \in BOOLEAN, SuspendPower(u, ok)
        PROVE  PowerVotes'
    <3>1. power' \in {power, [power EXCEPT !.module = 1]}
      BY <2>1 DEF SuspendPower, move_power_state_to_maxperf
    <3>2. power'.user = power.user /\ power'.setting = power.setting
      BY <1>0, <3>1 DEF PowerRec
    <3> QED BY <1>1, <3>2
  <2>2. ASSUME NEW ok \in BOOLEAN, UserPower(u, ok)
        PROVE  PowerVotes'
    <3> DEFINE mode == IF user[u].op = "rec" THEN "REC" ELSE "MAX"
               votes == IF mode = "REC" THEN power.setting \ {u}
                        ELSE power.setting \cup {u}
               userMode == IF mode = "MAX" THEN "MAX"
                           ELSE IF votes = {} THEN "REC" ELSE power.user
    <3>1. power' = [power EXCEPT !.setting = votes, !.user = userMode]
      BY <2>2 DEF UserPower, Api_SetPowerMode
    <3>2. power'.setting = votes /\ power'.user = userMode
      BY <1>0, <3>1 DEF PowerRec
    <3>3. userMode = "MAX" <=> votes # {}
      BY <1>0 DEF PowerVotes, PowerRec, Modes
    <3> HIDE DEF votes, userMode
    <3> QED BY <3>2, <3>3 DEF PowerVotes
  <2>3. \/ power' = power
        \/ \E ok \in BOOLEAN : SuspendPower(u, ok) \/ UserPower(u, ok)
    BY <1>2 DEF UserAction, Enter, SuspendStart, SuspendSent, UserCommand,
                Api_TxGetStatus, WaitOver
  <2> QED BY <1>1, <2>1, <2>2, <2>3
<1>3. ASSUME DriverAction \/ TargetAction \/ UNCHANGED vars
      PROVE  PowerVotes'
  BY <1>1, <1>3, OthersStep DEF vars
<1> QED BY <1>2, <1>3, NextIs

-----------------------------------------------------------------------------
(***************************************************************************)
(* What the target stores: it is written to the table, stays there while   *)
(* the target is off and boots, and is read back.                          *)
(***************************************************************************)
LEMMA ContextStep ==
  ASSUME TypeOK, UserInv, TableSound, ContextInv, [Next]_vars
  PROVE  ContextInv'
<1>0. target \in TargetRec
  BY DEF TypeOK, TargetRec
<1>00. Whole' = Whole
  BY SameSetting DEF Whole
<1>1. ASSUME UNCHANGED <<hd, drv>>, target'.phase = target.phase,
             target'.todo = target.todo, target'.ctx = target.ctx,
             target'.saved = target.saved, target'.written = target.written
      PROVE  ContextInv'
  <2>1. \A id : Stored(id)' <=> Stored(id)
    BY <1>1, SameStored
  <2> QED BY <1>00, <1>1, <2>1 DEF ContextInv
<1>2. ASSUME NEW u \in Users, UserAction(u) PROVE ContextInv'
  <2>1. UNCHANGED <<hd, target, drv>>
    BY <1>2, UserStep
  <2> QED BY <1>1, <2>1
<1>3. CASE Finish \/ Idle
  <2>1. UNCHANGED <<hd, target, drv>>
    BY <1>3, FinishFrame DEF Idle
  <2> QED BY <1>1, <2>1
<1>4. CASE SendCommand
  <2>0. drv = "run" /\ UNCHANGED <<hd, drv>>
    BY <1>4, SendStep
  <2>1. ASSUME NEW h, target' = [target EXCEPT !.heard = h]
        PROVE  ContextInv'
    BY <1>0, <1>1, <2>0, <2>1 DEF TargetRec
  <2>2. ASSUME NEW h, NEW m, target' = [target EXCEPT !.heard = h, !.mode = m]
        PROVE  ContextInv'
    BY <1>0, <1>1, <2>0, <2>2 DEF TargetRec
  <2>3. ASSUME NEW h, NEW new,
               target' = [target EXCEPT !.heard = h, !.phase = "store",
                            !.ctx = new, !.saved = new,
                            !.todo = DSET_STORE_RECALL,
                            !.written = Nothing]
        PROVE  ContextInv'
    <3>1. target'.phase = "store" /\ target'.ctx = target'.saved
          /\ target'.todo = DSET_STORE_RECALL /\ target'.written = Nothing
      BY <1>0, <2>3 DEF TargetRec
    <3> QED BY <2>0, <3>1 DEF ContextInv, Nothing
  <2>4. ASSUME NEW h, NEW ids \in SUBSET DSET_STORE_RECALL,
               target' = [target EXCEPT !.heard = h, !.phase = "up",
                            !.mode = "MAX", !.todo = ids],
               \A id \in ids : \E i \in Slots : hd.slot[i].dset_id = id
        PROVE  ContextInv'
    <3>1. target'.phase = "up" /\ target'.todo = ids
      BY <1>0, <2>4 DEF TargetRec
    <3> QED BY <2>0, <2>4, <3>1 DEF ContextInv
  <2> QED BY <1>4, <2>1, <2>2, <2>3, <2>4, SendStep
<1>5. CASE ChipUp
  <2>1. hd' = hd /\ drv' = "run" /\ target.phase = "off" /\ target.todo = {}
        /\ (Whole => \A id \in DSET_STORE_RECALL : Stored(id))
    BY <1>5, ChipUpFrame DEF ContextInv
  <2>2. target'.phase \in {"off", "boot"} /\ target'.todo = target.todo
        /\ target'.saved = target.saved
    BY <1>0, <1>5, ChipUpFrame DEF TargetRec
  <2>3. \A id : Stored(id)' <=> Stored(id)
    BY <2>1, <2>2, SameStored
  <2> QED BY <1>00, <2>1, <2>2, <2>3 DEF ContextInv
<1>6. CASE TableEvent
  <2>1. PICK id \in DSET_STORE_RECALL, ok \in BOOLEAN :
          Api_HostDsetCreateEvent(id, ok) \/ Api_HostDsetWriteEvent(id, ok)
    BY <1>6 DEF TableEvent
  <2>2. drv' = drv /\ drv = "run" /\ target.phase = "store"
    BY <1>6, TableFrame DEF CanEvent
  <2>3. /\ \A other, data : other \notin {0, id} /\ Holds(hd, other, data)
                              => Holds(hd', other, data)
        /\ \/ target' = target
           \/ \E n \in Nat, s \in {target.todo, target.todo \ {id}} :
                /\ target' = [target EXCEPT !.written[id] = n, !.todo = s]
                /\ Whole =>
                     /\ s = target.todo \ {id}
                     /\ target.written[id] = 0
                          => Holds(hd', id, <<"header">> \o target.ctx[id])
    BY <2>1, TableStep
  <2>4. target'.phase = "store" /\ target'.ctx = target.ctx
        /\ target'.saved = target.saved
    BY <1>0, <2>2, <2>3 DEF TargetRec
  <2>5. target.ctx = target.saved
        /\ (Whole => \A other \in DSET_STORE_RECALL :
              IF other \in target.todo THEN target.written[other] = 0
                                       ELSE Stored(other))
    BY <2>2 DEF ContextInv
  <2>6. id \in target.todo
    BY <2>1 DEF Api_HostDsetCreateEvent, Api_HostDsetWriteEvent
  <2>7. Whole => \/ target' = target
                 \/ /\ target'.todo = target.todo \ {id}
                    /\ \A other \in DSET_STORE_RECALL \ {id} :
                         target'.written[other] = target.written[other]
                    /\ Holds(hd', id, <<"header">> \o target'.saved[id])
    BY <1>0, <2>3, <2>4, <2>5, <2>6 DEF TargetRec
  <2>8. ASSUME Whole, NEW other \in DSET_STORE_RECALL
        PROVE  IF other \in target'.todo THEN target'.written[other] = 0
                                         ELSE Stored(other)'
    <3>1. CASE other \in target'.todo
      BY <2>5, <2>7, <2>8, <3>1
    <3>2. CASE other \notin target'.todo /\ other = id
      BY <2>6, <2>7, <2>8, <3>2 DEF Stored, Holds
    <3>3. CASE other \notin target'.todo /\ other # id
      <4>1. Holds(hd, other, <<"header">> \o target.saved[other])
        BY <2>5, <2>7, <2>8, <3>3 DEF Stored
      <4>2. other # 0
        BY DsetAssumption
      <4>3. Holds(hd', other, <<"header">> \o target'.saved[other])
        BY <2>3, <2>4, <3>3, <4>1, <4>2
      <4> QED BY <3>3, <4>3 DEF Stored, Holds
    <3> QED BY <3>1, <3>2, <3>3
  <2> QED BY <1>00, <2>2, <2>4, <2>5, <2>8 DEF ContextInv
<1>7. CASE ReadbackEvent
  <2>1. PICK id \in DSET_STORE_RECALL, ok \in BOOLEAN, extra \in {0, Header} :
          Api_HostDsetReadbackEvent(id, extra, ok)
    BY <1>7 DEF ReadbackEvent
  <2> DEFINE c == target'.ctx[id]
  <2>2. target.phase = "up"
        /\ target' = [target EXCEPT !.todo = @ \ {id}, !.ctx[id] = c]
    BY <2>1, ReadbackStep
  <2> HIDE DEF c
  <2>3. target'.phase = "up" /\ target'.todo = target.todo \ {id}
    BY <1>0, <2>2 DEF TargetRec
  <2>4. hd' = hd /\ drv' = "run"
    BY <1>7, ReadbackFrame
  <2> QED BY <2>2, <2>3, <2>4 DEF ContextInv
<1>8. CASE StoreEvent
  <2>0. hd' = hd /\ target.phase = "store" /\ drv = "run"
    BY <1>8, EventStep DEF StoreEvent, CanEvent
  <2>1. CASE target.todo = {} /\ Strrcl_ChipDown("ACTIVE")
    <3>1. target' = [target EXCEPT !.phase = "off", !.ctx = Blank,
                                   !.heard = <<>>]
      BY <2>1 DEF Strrcl_ChipDown
    <3>2. target'.phase = "off" /\ target'.todo = {}
          /\ target'.saved = target.saved
      BY <1>0, <2>1, <3>1 DEF TargetRec
    <3>3. Whole => \A id \in DSET_STORE_RECALL : Stored(id)'
      BY <2>0, <2>1, <3>2, SameStored DEF ContextInv
    <3> QED BY <1>00, <3>2, <3>3 DEF ContextInv
  <2>2. CASE Abort
    <3>1. target'.phase = "up" /\ target'.todo = {} /\ drv' = "run"
      BY <1>0, <2>0, <2>2 DEF Abort, TargetRec
    <3> QED BY <3>1 DEF ContextInv
  <2>3. CASE UNCHANGED <<strrcl, target, drv>>
    BY <1>1, <2>0, <2>3
  <2> QED BY <1>8, <2>1, <2>2, <2>3, EventStep DEF StoreEvent
<1>9. CASE WmiReadyEvent
  <2>1. hd' = hd /\ drv' = "run" /\ target.phase = "boot"
    BY <1>9 DEF WmiReadyEvent
  <2>2. target'.phase = "booted" /\ target'.todo = target.todo
        /\ target'.saved = target.saved
    BY <1>0, <1>9 DEF WmiReadyEvent, TargetRec
  <2>3. \A id : Stored(id)' <=> Stored(id)
    BY <2>1, <2>2, SameStored
  <2> QED BY <1>00, <2>1, <2>2, <2>3 DEF ContextInv
<1> QED BY <1>2, <1>3, <1>4, <1>5, <1>6, <1>7, <1>8, <1>9, Steps

(***************************************************************************)
(* The target reads back what it stored: it is told to recall when all of  *)
(* its context is in the table, and to store only after that.              *)
(***************************************************************************)
LEMMA ReadbackInvStep ==
  ASSUME TypeOK, UserInv, TableSound, ContextInv, ReadbackInv, OrderInv,
         [Next]_vars
  PROVE  ReadbackInv'
<1> SUFFICES ASSUME OneSuspender, Whole, target'.phase = "up"
             PROVE  \A id \in DSET_STORE_RECALL :
                      IF id \in target'.todo
                      THEN Stored(id)'
                      ELSE target'.ctx[id] = target'.saved[id]
  BY SameSetting DEF ReadbackInv, Whole
<1>0. target \in TargetRec
  BY DEF TypeOK, TargetRec
<1> DEFINE Goal == \A id \in DSET_STORE_RECALL :
                     IF id \in target'.todo
                     THEN Stored(id)'
                     ELSE target'.ctx[id] = target'.saved[id]
<1>1. ASSUME hd' = hd, target'.phase = target.phase,
             target'.todo = target.todo, target'.ctx = target.ctx,
             target'.saved = target.saved
      PROVE  Goal
  <2>1. \A id : Stored(id)' <=> Stored(id)
    BY <1>1, SameStored
  <2> QED BY <1>1, <2>1 DEF ReadbackInv
<1>2. ASSUME NEW u \in Users, UserAction(u) PROVE Goal
  <2>1. UNCHANGED <<hd, target>>
    BY <1>2, UserStep
  <2> QED BY <1>1, <2>1
<1>3. CASE Finish \/ Idle
  <2>1. UNCHANGED <<hd, target>>
    BY <1>3, FinishFrame DEF Idle
  <2> QED BY <1>1, <2>1
<1>4. CASE SendCommand
  <2>0. hd' = hd
    BY <1>4, SendStep
  <2>1. ASSUME NEW h, target' = [target EXCEPT !.heard = h]
        PROVE  Goal
    BY <1>0, <1>1, <2>0, <2>1 DEF TargetRec
  <2>2. ASSUME NEW h, NEW m, target' = [target EXCEPT !.heard = h, !.mode = m]
        PROVE  Goal
    BY <1>0, <1>1, <2>0, <2>2 DEF TargetRec
  <2>3. ASSUME NEW h, NEW new,
               target' = [target EXCEPT !.heard = h, !.phase = "store",
                            !.ctx = new, !.saved = new,
                            !.todo = DSET_STORE_RECALL,
                            !.written = Nothing]
        PROVE  Goal
    BY <1>0, <2>3 DEF TargetRec
  <2>4. ASSUME Head(txq) = RECALL,
               NEW h, NEW ids \in SUBSET DSET_STORE_RECALL,
               target' = [target EXCEPT !.heard = h, !.phase = "up",
                            !.mode = "MAX", !.todo = ids],
               (\A id \in DSET_STORE_RECALL : Stored(id))
                 => ids = DSET_STORE_RECALL
        PROVE  Goal
    <3>1. Queued(RECALL)
      <4>1. txq \in Seq(Commands) /\ txq # <<>> /\ txq' = Tail(txq)
        BY <1>4, SendStep DEF TypeOK
      <4> QED BY <2>4, <4>1, QueueTail
    <3>2. \A id \in DSET_STORE_RECALL : Stored(id)
      BY <3>1 DEF OrderInv, Order, ContextInv
    <3>3. target'.todo = DSET_STORE_RECALL /\ target'.saved = target.saved
      BY <1>0, <2>4, <3>2 DEF TargetRec
    <3>4. \A id : Stored(id)' <=> Stored(id)
      BY <2>0, <3>3, SameStored
    <3> QED BY <3>2, <3>3, <3>4
  <2> HIDE DEF Goal
  <2>5. ASSUME \E m \in Modes :
                 target' = [target EXCEPT !.heard = Heard(POWER(m)), !.mode = m]
        PROVE  Goal
    BY <2>2, <2>5
  <2>6. ASSUME target' = [target EXCEPT !.heard = Heard(Head(txq))]
        PROVE  Goal
    BY <2>1, <2>6
  <2>7. ASSUME \E new \in [DSET_STORE_RECALL -> Seq(Words)] :
                 target' = [target EXCEPT !.heard = Heard(READY),
                              !.phase = "store", !.ctx = new, !.saved = new,
                              !.todo = DSET_STORE_RECALL,
                              !.written = Nothing]
        PROVE  Goal
    BY <2>3, <2>7
  <2>8. ASSUME Head(txq) = RECALL,
               \E ids \in SUBSET DSET_STORE_RECALL :
                 /\ target' = [target EXCEPT !.heard = Heard(RECALL),
                                 !.phase = "up", !.mode = "MAX",
                                 !.todo = ids]
                 /\ (\A id \in DSET_STORE_RECALL : Stored(id))
                      => ids = DSET_STORE_RECALL
        PROVE  Goal
    BY <2>4, <2>8
  <2>9. Goal
    BY <1>4, <2>5, <2>6, <2>7, <2>8, SendStep
  <2> QED BY <2>9 DEF Goal
<1>5. CASE ChipUp
  <2>1. target'.phase \in {"off", "boot"}
    BY <1>0, <1>5, ChipUpFrame DEF TargetRec
  <2> QED BY <2>1
<1>6. CASE TableEvent
  <2>1. target.phase = "store"
    BY <1>6, TableFrame DEF CanEvent
  <2>2. target'.phase = "store"
    BY <1>0, <1>6, <2>1, TableStep DEF TableEvent, TargetRec
  <2> QED BY <2>2
<1>7. CASE ReadbackEvent
  <2>1. PICK id \in DSET_STORE_RECALL, ok \in BOOLEAN, extra \in {0, Header} :
          Api_HostDsetReadbackEvent(id, extra, ok)
    BY <1>7 DEF ReadbackEvent
  <2> DEFINE c == target'.ctx[id]
  <2>2. target.phase = "up" /\ id \in target.todo
        /\ target' = [target EXCEPT !.todo = @ \ {id}, !.ctx[id] = c]
        /\ \A x \in Seq(Words) : Holds(hd, id, <<"header">> \o x) => c = x
    BY <2>1, ReadbackStep
  <2> HIDE DEF c
  <2>3. /\ target'.todo = target.todo \ {id} /\ target'.saved = target.saved
        /\ target'.ctx = [target.ctx EXCEPT ![id] = c]
        /\ target.saved \in [DSET_STORE_RECALL -> Seq(Words)]
        /\ target.ctx \in [DSET_STORE_RECALL -> Seq(Words)]
    BY <1>0, <2>2 DEF TargetRec
  <2>4. c = target.saved[id]
    BY <2>2, <2>3 DEF ReadbackInv, Stored
  <2>5. \A other : Stored(other)' <=> Stored(other)
    BY <1>7, <2>3, ReadbackFrame, SameStored
  <2> QED BY <2>2, <2>3, <2>4, <2>5 DEF ReadbackInv
<1>8. CASE StoreEvent
  <2>0. hd' = hd /\ target.phase = "store"
    BY <1>8, EventStep DEF StoreEvent, CanEvent
  <2>1. CASE target.todo = {} /\ Strrcl_ChipDown("ACTIVE")
    BY <1>0, <2>1 DEF Strrcl_ChipDown, TargetRec
  <2>2. CASE Abort
    <3>1. target'.todo = {} /\ target'.ctx = target.ctx
          /\ target'.saved = target.saved
      BY <1>0, <2>2 DEF Abort, TargetRec
    <3>2. target.ctx = target.saved
      BY <2>0 DEF ContextInv
    <3> QED BY <3>1, <3>2
  <2>3. CASE UNCHANGED <<strrcl, target, drv>>
    BY <2>0, <2>3
  <2> QED BY <1>8, <2>1, <2>2, <2>3, EventStep DEF StoreEvent
<1>9. CASE WmiReadyEvent
  <2>1. target'.phase = "booted"
    BY <1>0, <1>9 DEF WmiReadyEvent, TargetRec
  <2> QED BY <2>1
<1> QED BY <1>2, <1>3, <1>4, <1>5, <1>6, <1>7, <1>8, <1>9, Steps

-----------------------------------------------------------------------------
(***************************************************************************)
(* The order of the commands in the queue.                                 *)
(***************************************************************************)
LEMMA AppendIn ==
  ASSUME NEW q \in Seq(Commands), NEW c \in Commands
  PROVE  /\ Append(q, c) \in Seq(Commands)
         /\ \A x : In(Append(q, c), x) <=> In(q, x) \/ c = x
<1> DEFINE r == Append(q, c)
<1>1. /\ DOMAIN q = 1 .. Len(q) /\ DOMAIN r = 1 .. Len(q) + 1
      /\ Len(q) \in Nat /\ r[Len(q) + 1] = c /\ r \in Seq(Commands)
      /\ \A k \in DOMAIN q : r[k] = q[k]
  OBVIOUS
<1>2. DOMAIN r = DOMAIN q \cup {Len(q) + 1}
  BY <1>1
<1> HIDE DEF r
<1>3. \A x : In(r, x) <=> In(q, x) \/ c = x
  BY <1>1, <1>2 DEF In
<1> QED BY <1>1, <1>3 DEF r

\* A first READY may follow anything, a first RECALL anything but a READY.
LEMMA AppendOrdered ==
  ASSUME NEW q \in Seq(Commands), NEW c \in Commands, Ordered(q),
         c \in {READY, RECALL} => ~In(q, c),
         c = RECALL => ~In(q, READY)
  PROVE  Ordered(Append(q, c))
<1> DEFINE r == Append(q, c)
<1>1. /\ DOMAIN q = 1 .. Len(q) /\ DOMAIN r = 1 .. Len(q) + 1
      /\ Len(q) \in Nat /\ r[Len(q) + 1] = c
      /\ \A k \in DOMAIN q : r[k] = q[k]
  OBVIOUS
<1>2. DOMAIN r = DOMAIN q \cup {Len(q) + 1} /\ \A k \in DOMAIN q : k < Len(q) + 1
  BY <1>1
<1> HIDE DEF r
<1>3. ASSUME NEW k \in DOMAIN r, NEW l \in DOMAIN r, r[k] = r[l],
             r[k] \in {READY, RECALL}
      PROVE  k = l
  <2>1. CASE k \in DOMAIN q /\ l \in DOMAIN q
    BY <1>1, <1>3, <2>1 DEF Ordered
  <2>2. CASE k = Len(q) + 1 /\ l \in DOMAIN q
    BY <1>1, <1>3, <2>2 DEF In
  <2>3. CASE l = Len(q) + 1 /\ k \in DOMAIN q
    BY <1>1, <1>3, <2>3 DEF In
  <2>4. CASE k = Len(q) + 1 /\ l = Len(q) + 1
    BY <2>4
  <2> QED BY <1>2, <2>1, <2>2, <2>3, <2>4
<1>4. ASSUME NEW k \in DOMAIN r, NEW l \in DOMAIN r, r[k] = READY,
             r[l] = RECALL
      PROVE  l < k
  <2>1. READY # RECALL
    BY CommandsAre
  <2>2. CASE k \in DOMAIN q /\ l \in DOMAIN q
    BY <1>1, <1>4, <2>2 DEF Ordered
  <2>3. CASE k = Len(q) + 1 /\ l \in DOMAIN q
    BY <1>2, <2>3
  <2>4. CASE l = Len(q) + 1 /\ k \in DOMAIN q
    BY <1>1, <1>4, <2>4 DEF In
  <2>5. CASE k = Len(q) + 1 /\ l = Len(q) + 1
    BY <1>4, <2>1, <2>5
  <2> QED BY <1>2, <2>2, <2>3, <2>4, <2>5
<1> QED BY <1>3, <1>4 DEF Ordered, r

\* What READY leaves behind is neither, what RECALL does no RECALL.
LEMMA TailOrdered ==
  ASSUME NEW q \in Seq(Commands), q # <<>>, Ordered(q)
  PROVE  /\ Ordered(Tail(q)) /\ Tail(q) \in Seq(Commands)
         /\ \A x : In(q, x) <=> In(Tail(q), x) \/ Head(q) = x
         /\ Head(q) = READY => ~In(Tail(q), READY) /\ ~In(Tail(q), RECALL)
         /\ Head(q) = RECALL => ~In(Tail(q), RECALL)
<1> DEFINE r == Tail(q)
<1>1. /\ DOMAIN q = 1 .. Len(q) /\ DOMAIN r = 1 .. Len(q) - 1
      /\ Len(q) \in Nat /\ Len(q) > 0 /\ Head(q) = q[1] /\ r \in Seq(Commands)
      /\ \A k \in DOMAIN r : r[k] = q[k + 1]
  OBVIOUS
<1>2. /\ \A k \in DOMAIN r : k + 1 \in DOMAIN q /\ k \in Nat /\ k + 1 # 1
                             /\ ~(k + 1 < 1)
      /\ \A k \in DOMAIN q : k = 1 \/ (k - 1 \in DOMAIN r /\ (k - 1) + 1 = k)
      /\ 1 \in DOMAIN q
  BY <1>1
<1> HIDE DEF r
<1>3. \A k, l \in DOMAIN r : r[k] = r[l] /\ r[k] \in {READY, RECALL} => k = l
  <2> SUFFICES ASSUME NEW k \in DOMAIN r, NEW l \in DOMAIN r, r[k] = r[l],
                      r[k] \in {READY, RECALL}
               PROVE  k = l
    OBVIOUS
  <2>1. k + 1 = l + 1
    BY <1>1, <1>2 DEF Ordered
  <2> QED BY <1>2, <2>1
<1>4. \A k, l \in DOMAIN r : r[k] = READY /\ r[l] = RECALL => l < k
  <2> SUFFICES ASSUME NEW k \in DOMAIN r, NEW l \in DOMAIN r, r[k] = READY,
                      r[l] = RECALL
               PROVE  l < k
    OBVIOUS
  <2>1. l + 1 < k + 1
    BY <1>1, <1>2 DEF Ordered
  <2> QED BY <1>2, <2>1
<1>5. ASSUME NEW x PROVE In(q, x) <=> In(r, x) \/ Head(q) = x
  <2>1. ASSUME NEW k \in DOMAIN q, q[k] = x PROVE In(r, x) \/ Head(q) = x
    BY <1>1, <1>2, <2>1 DEF In
  <2>2. ASSUME NEW k \in DOMAIN r, r[k] = x PROVE In(q, x)
    BY <1>1, <1>2, <2>2 DEF In
  <2> QED BY <1>1, <1>2, <2>1, <2>2 DEF In
<1>6. ASSUME Head(q) = READY
      PROVE  ~In(r, READY) /\ ~In(r, RECALL)
  <2>1. ASSUME NEW k \in DOMAIN r, r[k] = READY PROVE FALSE
    <3>1. k + 1 = 1
      BY <1>1, <1>2, <1>6, <2>1 DEF Ordered
    <3> QED BY <1>2, <3>1
  <2>2. ASSUME NEW k \in DOMAIN r, r[k] = RECALL PROVE FALSE
    <3>1. k + 1 < 1
      BY <1>1, <1>2, <1>6, <2>2 DEF Ordered
    <3> QED BY <1>2, <3>1
  <2> QED BY <2>1, <2>2 DEF In
<1>7. ASSUME Head(q) = RECALL
      PROVE  ~In(r, RECALL)
  <2>1. ASSUME NEW k \in DOMAIN r, r[k] = RECALL PROVE FALSE
    <3>1. k + 1 = 1
      BY <1>1, <1>2, <1>7, <2>1 DEF Ordered
    <3> QED BY <1>2, <3>1
  <2> QED BY <2>1 DEF In
<1> QED BY <1>1, <1>3, <1>4, <1>5, <1>6, <1>7 DEF Ordered, r

\* Order is about READY and RECALL, the phase, the state and the request.
LEMMA SameOrder ==
  ASSUME Order, Ordered(txq'), Queued(READY)' => Queued(READY),
         Queued(RECALL)' <=> Queued(RECALL),
         target'.phase = target.phase, strrcl'.state = strrcl.state,
         strrcl'.wmiReady = strrcl.wmiReady, Sent => Sent',
         asynchRequest' = "finish" => asynchRequest = "finish"
  PROVE  Order'
BY DEF Order, Restarting

\* A task queues ready with nothing of a store and recall under way.
LEMMA UserOrder ==
  ASSUME TypeOK, UserInv, OneSuspender, Order, NEW u \in Users, UserAction(u)
  PROVE  Order'
<1>0. /\ txq \in Seq(Commands) /\ Ordered(txq)
      /\ \A v \in Users \ {u} : user'[v] = user[v]
      /\ UNCHANGED target
      /\ strrcl \in [state : States, block : BOOLEAN, chipDown : BOOLEAN,
                     wmiReady : BOOLEAN]
  BY UserStep DEF TypeOK, Order
<1>1. CASE /\ user[u] = [pc |-> "start", op |-> "suspend"]
           /\ strrcl.state = "INIT"
           /\ strrcl' = [strrcl EXCEPT !.block = TRUE]
           /\ txq' = Append(txq, READY)
           /\ user'[u] = [pc |-> "sent", op |-> "suspend"]
           /\ UNCHANGED <<asynchRequest, power>>
  <2>1. ~Sent
    <3>1. ASSUME NEW v \in Users, user[v].pc = "sent" PROVE FALSE
      <4>1. user[u].op = "suspend" /\ user[v].op = "suspend"
            /\ user[u].pc = "start"
        BY <1>1, <3>1 DEF UserInv
      <4>2. u = v
        BY <4>1, SoleSuspender
      <4> QED BY <3>1, <4>1, <4>2
    <3> QED BY <3>1 DEF Sent
  <2>2. ~Queued(READY) /\ target.phase # "store" /\ ~Restarting
    BY <1>1, <2>1 DEF Order
  <2>3. target.phase \in {"up", "booted"}
    BY <2>2 DEF TypeOK, Restarting
  <2>4. READY \in Commands /\ READY # RECALL
    BY CommandsAre
  <2>5. Ordered(txq') /\ (Queued(RECALL)' <=> Queued(RECALL))
    BY <1>0, <1>1, <2>2, <2>4, AppendOrdered, AppendIn DEF Queued
  <2>6. Sent'
    BY <1>1 DEF Sent
  <2>7. strrcl'.state = "INIT" /\ strrcl'.wmiReady = strrcl.wmiReady
    BY <1>0, <1>1
  <2> QED BY <1>0, <1>1, <2>2, <2>3, <2>5, <2>6, <2>7 DEF Order, Restarting
<1>2. CASE /\ user[u] = [pc |-> "sent", op |-> "suspend"]
           /\ user'[u] = [pc |-> "idle", op |-> "idle"]
           /\ strrcl' = [strrcl EXCEPT !.state = "START"]
           /\ UNCHANGED <<asynchRequest, power, txq>>
  <2>1. strrcl'.state = "START" /\ strrcl'.wmiReady = strrcl.wmiReady
    BY <1>0, <1>2
  <2>2. Queued(READY)' = Queued(READY) /\ Queued(RECALL)' = Queued(RECALL)
    BY <1>2 DEF Queued
  <2> QED BY <1>0, <1>2, <2>1, <2>2 DEF Order, Restarting
<1>3. ASSUME user[u].pc # "sent", asynchRequest' \in {asynchRequest, "query"},
             strrcl'.state = strrcl.state,
             strrcl'.wmiReady = strrcl.wmiReady,
             txq' = txq \/ \E c \in Plain : txq' = Append(txq, c)
      PROVE  Order'
  <2>1. Sent => Sent'
    BY <1>0, <1>3 DEF Sent
  <2>2. Ordered(txq') /\ (Queued(READY)' <=> Queued(READY))
        /\ (Queued(RECALL)' <=> Queued(RECALL))
    <3>1. CASE txq' = txq
      BY <1>0, <3>1 DEF Queued
    <3>2. ASSUME NEW c \in Plain, txq' = Append(txq, c)
          PROVE  Ordered(txq') /\ (Queued(READY)' <=> Queued(READY))
                 /\ (Queued(RECALL)' <=> Queued(RECALL))
      <4>1. c \in Commands /\ c \notin {READY, RECALL}
        BY DEF Plain
      <4> QED BY <1>0, <3>2, <4>1, AppendIn, AppendOrdered DEF Queued
    <3> QED BY <1>3, <3>1, <3>2
  <2> QED BY <1>0, <1>3, <2>1, <2>2, SameOrder
<1>4. CASE /\ user[u] = [pc |-> "start", op |-> "suspend"]
           /\ strrcl' = strrcl \/ strrcl' = [strrcl EXCEPT !.block = FALSE]
           /\ UNCHANGED <<asynchRequest, power, txq>>
  <2>1. user[u].pc # "sent" /\ strrcl'.state = strrcl.state
        /\ strrcl'.wmiReady = strrcl.wmiReady
    BY <1>0, <1>4
  <2> QED BY <1>3, <1>4, <2>1
<1> QED BY <1>1, <1>2, <1>3, <1>4, UserStep

\* The commands that a restore or SOCK_STACK_INIT queues are no others.
LEMMA RestoreQueue ==
  ASSUME NEW p \in PowerRec, NEW q \in Seq(Commands), NEW ok \in BOOLEAN
  PROVE  LET r == RestorePower(p, q, 1, ok).txq
         IN \/ r = q
            \/ p.user = "REC" /\ r = Append(q, POWER("REC"))
<1>1. p.user \in {"REC", "MAX"}
  BY DEF PowerRec, Modes
<1> DEFINE r == RestorePower(p, q, 1, ok)
<1>2. \/ r.power = p /\ r.txq = q
      \/ r.txq = IF p.user # "MAX" THEN Append(q, POWER(p.user)) ELSE q
  BY RestoreType
<1> HIDE DEF r
<1>3. r.txq = q \/ (p.user = "REC" /\ r.txq = Append(q, POWER("REC")))
  BY <1>1, <1>2
<1> QED BY <1>3 DEF r

\* Other commands do not disturb the order.
LEMMA PlainAppend ==
  ASSUME NEW q \in Seq(Commands), NEW c \in Commands, c \notin {READY, RECALL},
         Ordered(q)
  PROVE  LET r == Append(q, c)
         IN /\ r \in Seq(Commands) /\ Ordered(r)
            /\ In(r, READY) <=> In(q, READY)
            /\ In(r, RECALL) <=> In(q, RECALL)
BY AppendIn, AppendOrdered

\* Nor does a restore of the power mode.
LEMMA RestoreOrdered ==
  ASSUME NEW p \in PowerRec, NEW q \in Seq(Commands), NEW ok \in BOOLEAN,
         Ordered(q)
  PROVE  LET r == RestorePower(p, q, 1, ok).txq
         IN /\ r \in Seq(Commands) /\ Ordered(r)
            /\ In(r, READY) <=> In(q, READY)
            /\ In(r, RECALL) <=> In(q, RECALL)
<1>1. POWER("REC") \in Commands /\ POWER("REC") \notin {READY, RECALL}
  BY CommandsAre
<1> DEFINE r == RestorePower(p, q, 1, ok).txq
<1>2. r = q \/ r = Append(q, POWER("REC"))
  BY RestoreQueue
<1> HIDE DEF r
<1>3. /\ r \in Seq(Commands) /\ Ordered(r)
      /\ In(r, READY) <=> In(q, READY)
      /\ In(r, RECALL) <=> In(q, RECALL)
  BY <1>1, <1>2, PlainAppend
<1> QED BY <1>3 DEF r

\* The command that goes out is the first one.
LEMMA SendOrder ==
  ASSUME TypeOK, UserInv, TableSound, OneSuspender, Order, SendCommand
  PROVE  Order'
<1>0. /\ txq \in Seq(Commands) /\ txq # <<>> /\ txq' = Tail(txq)
      /\ Ordered(txq) /\ target \in TargetRec
      /\ UNCHANGED <<strrcl, asynchRequest, user>>
  BY SendStep DEF TypeOK, Order, TargetRec
<1>1. Sent' <=> Sent
  BY <1>0 DEF Sent
<1>2. /\ Ordered(txq')
      /\ Queued(READY)' => Queued(READY)
      /\ Queued(RECALL)' => Queued(RECALL)
      /\ Head(txq) # RECALL => (Queued(RECALL)' <=> Queued(RECALL))
      /\ Head(txq) = READY => Queued(READY) /\ ~Queued(READY)'
                              /\ ~Queued(RECALL)'
      /\ Head(txq) = RECALL => Queued(RECALL) /\ ~Queued(RECALL)'
  BY <1>0, TailOrdered DEF Queued
<1>3. ASSUME Head(txq) # RECALL, target'.phase = target.phase PROVE Order'
  BY <1>0, <1>1, <1>2, <1>3, SameOrder
<1>4. ASSUME NEW m \in Modes, Head(txq) = POWER(m),
             target' = [target EXCEPT !.heard = Heard(POWER(m)), !.mode = m]
      PROVE  Order'
  <2>1. target'.phase = target.phase
    BY <1>0, <1>4 DEF TargetRec
  <2>2. Head(txq) # RECALL
    BY <1>4, CommandsAre
  <2> QED BY <1>3, <2>1, <2>2
<1>5. ASSUME Head(txq) \in {INITSTACK, <<"command", "">>},
             target' = [target EXCEPT !.heard = Heard(Head(txq))]
      PROVE  Order'
  <2>1. target'.phase = target.phase
    BY <1>0, <1>5 DEF TargetRec
  <2>2. Head(txq) # RECALL
    BY <1>5, CommandsAre
  <2> QED BY <1>3, <2>1, <2>2
<1>6. ASSUME Head(txq) = READY, target'.phase = "store"
      PROVE  Order'
  <2>1. asynchRequest # "finish"
    BY <1>2, <1>6 DEF Order, Restarting
  <2>2. strrcl.state = "START" \/ (strrcl.state = "INIT" /\ Sent)
    BY <1>2, <1>6 DEF Order
  <2> QED BY <1>0, <1>1, <1>2, <1>6, <2>1, <2>2 DEF Order, Restarting
<1>7. ASSUME Head(txq) = RECALL, target'.phase = "up"
      PROVE  Order'
  <2>1. asynchRequest # "finish"
    BY <1>2, <1>7 DEF Order
  <2> QED BY <1>0, <1>1, <1>2, <1>7, <2>1 DEF Order, Restarting
<1>8. ASSUME NEW new, target' = [target EXCEPT !.heard = Heard(READY),
                                   !.phase = "store", !.ctx = new,
                                   !.saved = new, !.todo = DSET_STORE_RECALL,
                                   !.written = Nothing]
      PROVE  target'.phase = "store"
  BY <1>0, <1>8 DEF TargetRec
<1>9. ASSUME NEW ids, target' = [target EXCEPT !.heard = Heard(RECALL),
                                   !.phase = "up", !.mode = "MAX",
                                   !.todo = ids]
      PROVE  target'.phase = "up"
  BY <1>0, <1>9 DEF TargetRec
<1> QED BY <1>4, <1>5, <1>6, <1>7, <1>8, <1>9, SendStep

\* The recall is queued once, with no ready in the queue.
LEMMA FinishOrder ==
  ASSUME TypeOK, UserInv, Order, Finish
  PROVE  Order'
<1>1. PICK stack \in BOOLEAN, recall \in BOOLEAN, restore \in BOOLEAN :
        Strrcl_ChipUpFinish(stack, recall, restore)
  BY DEF Finish
<1>0. /\ txq \in Seq(Commands) /\ Ordered(txq) /\ power \in PowerRec
      /\ UNCHANGED <<target, user>> /\ asynchRequest = "finish"
      /\ strrcl \in [state : States, block : BOOLEAN, chipDown : BOOLEAN,
                     wmiReady : BOOLEAN]
      /\ strrcl.wmiReady
  BY <1>1, FinishStep DEF TypeOK, Order, PowerRec
<1>2. target.phase = "booted" /\ ~Queued(RECALL) /\ ~Queued(READY)
      /\ strrcl.state # "INIT"
  BY <1>0 DEF Order, Restarting
<1>3. Sent' <=> Sent
  BY <1>0 DEF Sent
<1>4. FinishQueue \in Seq(Commands) /\ Ordered(FinishQueue)
      /\ ~In(FinishQueue, RECALL) /\ ~In(FinishQueue, READY)
  <2>1. INITSTACK \in Commands /\ INITSTACK \notin {READY, RECALL}
    BY CommandsAre
  <2> QED BY <1>0, <1>2, <2>1, PlainAppend DEF FinishQueue, Queued
<1>5. CASE UNCHANGED <<strrcl, asynchRequest, power, txq>>
  BY <1>0, <1>3, <1>5, SameOrder DEF Queued
<1>6. CASE /\ strrcl.state = "ACTIVE"
           /\ strrcl' = [strrcl EXCEPT !.chipDown = FALSE]
           /\ UNCHANGED <<txq, asynchRequest, power, asserted>>
  <2>1. strrcl'.state = strrcl.state /\ strrcl'.wmiReady = strrcl.wmiReady
    BY <1>0, <1>6
  <2> QED BY <1>0, <1>3, <1>6, <2>1, SameOrder DEF Queued
<1>7. CASE /\ strrcl' = [strrcl EXCEPT !.state = "ACTIVE_B",
                                       !.chipDown = FALSE]
           /\ txq' = FinishQueue
           /\ UNCHANGED <<asynchRequest, power, asserted>>
  <2>1. strrcl'.state = "ACTIVE_B" /\ ~Queued(READY)' /\ ~Queued(RECALL)'
        /\ Ordered(txq')
    BY <1>0, <1>4, <1>7 DEF Queued
  <2> QED BY <1>0, <1>2, <2>1 DEF Order
<1>8. CASE /\ strrcl' = [strrcl EXCEPT !.state = "INIT", !.block = FALSE,
                                       !.chipDown = FALSE]
           /\ asynchRequest' = "NULL"
           /\ LET r == RestorePower(power, Append(FinishQueue, RECALL), 1,
                                    restore)
              IN power' = r.power /\ txq' = r.txq
  <2>1. RECALL \in Commands /\ RECALL # READY
    BY CommandsAre
  <2> DEFINE q == Append(FinishQueue, RECALL)
  <2>2. q \in Seq(Commands) /\ Ordered(q) /\ In(q, RECALL) /\ ~In(q, READY)
    BY <1>4, <2>1, AppendIn, AppendOrdered
  <2>3. txq' = RestorePower(power, q, 1, restore).txq
    BY <1>8
  <2> HIDE DEF q
  <2>4. Ordered(txq') /\ Queued(RECALL)' /\ ~Queued(READY)'
    BY <1>0, <2>2, <2>3, RestoreOrdered DEF Queued
  <2> QED BY <1>0, <1>2, <1>8, <2>4 DEF Order, Restarting
<1> QED BY <1>1, <1>5, <1>6, <1>7, <1>8, FinishStep

(***************************************************************************)
(* The order of a store and recall.                                        *)
(***************************************************************************)
LEMMA OrderStep ==
  ASSUME TypeOK, UserInv, TableSound, ContextInv, OrderInv, [Next]_vars
  PROVE  OrderInv'
<1> SUFFICES ASSUME OneSuspender, Order PROVE Order'
  BY SameSetting DEF OrderInv
<1>0. /\ txq \in Seq(Commands) /\ Ordered(txq) /\ power \in PowerRec
      /\ target \in TargetRec
      /\ strrcl \in [state : States, block : BOOLEAN, chipDown : BOOLEAN,
                     wmiReady : BOOLEAN]
  BY DEF TypeOK, Order, PowerRec, TargetRec
<1>1. ASSUME UNCHANGED <<strrcl, txq>>, target'.phase = target.phase,
             asynchRequest' = asynchRequest \/ asynchRequest' = "NULL",
             Sent => Sent'
      PROVE  Order'
  BY <1>0, <1>1, SameOrder DEF Queued
<1>2. CASE Idle /\ (UNCHANGED vars \/ RunQuery)
  <2>1. Sent => Sent'
    BY <1>2 DEF Sent, RunQuery, vars, TypeOK
  <2> QED BY <1>1, <1>2, <2>1 DEF Idle
<1>3. CASE ChipUp
  <2>1. target.phase = "off" /\ UNCHANGED <<strrcl, txq>>
    BY <1>3, ChipUpFrame DEF ContextInv
  <2>2. ~Queued(READY) /\ ~Queued(RECALL) /\ strrcl.state # "INIT"
        /\ ~strrcl.wmiReady /\ asynchRequest # "finish"
    BY <2>1 DEF Order, Restarting
  <2>3. ~Queued(READY)' /\ ~Queued(RECALL)' /\ Ordered(txq')
    BY <1>0, <2>1, <2>2 DEF Queued
  <2>4. /\ target'.phase \in {"off", "boot"}
        /\ asynchRequest' = "finish" => target'.phase = "boot"
    BY <1>0, <1>3, <2>2, ChipUpFrame DEF TargetRec
  <2> QED BY <2>1, <2>2, <2>3, <2>4 DEF Order
<1>4. CASE TableEvent
  <2>1. target'.phase = target.phase
    BY <1>0, <1>4, TableStep DEF TableEvent, TargetRec
  <2> QED BY <1>1, <1>4, <2>1, TableFrame DEF Sent
<1>5. CASE ReadbackEvent
  <2>1. target'.phase = target.phase
    <3>1. PICK id \in DSET_STORE_RECALL, ok \in BOOLEAN,
               extra \in {0, Header} : Api_HostDsetReadbackEvent(id, extra, ok)
      BY <1>5 DEF ReadbackEvent
    <3> DEFINE c == target'.ctx[id]
    <3>2. target' = [target EXCEPT !.todo = @ \ {id}, !.ctx[id] = c]
      BY <3>1, ReadbackStep
    <3> HIDE DEF c
    <3> QED BY <1>0, <3>2 DEF TargetRec
  <2>2. Ordered(txq') /\ (Queued(READY)' <=> Queued(READY))
        /\ (Queued(RECALL)' <=> Queued(RECALL))
    BY <1>0, <1>5, ReadbackFrame, RestoreOrdered DEF Queued
  <2> QED BY <1>5, <2>1, <2>2, ReadbackFrame, SameOrder DEF Sent
<1>6. CASE StoreEvent
  <2>1. /\ target.phase = "store" /\ drv = "run"
        /\ UNCHANGED <<asynchRequest, txq, user>>
    BY <1>6, EventStep DEF StoreEvent, CanEvent
  <2>2. ~Queued(READY) /\ ~Queued(RECALL) /\ asynchRequest # "finish"
    BY <2>1 DEF Order
  <2>3. ~Queued(READY)' /\ ~Queued(RECALL)' /\ Ordered(txq')
        /\ asynchRequest' # "finish"
    BY <1>0, <2>1, <2>2 DEF Queued
  <2>4. CASE Strrcl_ChipDown("ACTIVE")
    <3>1. strrcl'.state = "ACTIVE" /\ ~strrcl'.wmiReady
          /\ target'.phase = "off"
      BY <1>0, <2>4 DEF Strrcl_ChipDown, TargetRec
    <3> QED BY <2>3, <3>1 DEF Order
  <2>5. CASE Abort
    <3>1. target'.phase = "up"
      BY <1>0, <2>5 DEF Abort, TargetRec
    <3> QED BY <2>3, <3>1 DEF Order, Restarting
  <2>6. CASE UNCHANGED <<strrcl, target, drv>>
    BY <1>1, <2>1, <2>6 DEF Sent
  <2> QED BY <1>6, <2>4, <2>5, <2>6, EventStep DEF StoreEvent
<1>7. CASE WmiReadyEvent
  <2>1. /\ target.phase = "boot" /\ target'.phase = "booted"
        /\ strrcl'.state = strrcl.state
        /\ UNCHANGED <<txq, asynchRequest>>
    BY <1>0, <1>7 DEF WmiReadyEvent, TargetRec
  <2>2. ~Queued(READY) /\ ~Queued(RECALL) /\ strrcl.state # "INIT"
    BY <2>1 DEF Order, Restarting
  <2>3. ~Queued(READY)' /\ ~Queued(RECALL)' /\ Ordered(txq')
    BY <1>0, <2>1, <2>2 DEF Queued
  <2> QED BY <2>1, <2>2, <2>3 DEF Order
<1> QED BY <1>2, <1>3, <1>4, <1>5, <1>6, <1>7, UserOrder, SendOrder,
           FinishOrder, Steps

-----------------------------------------------------------------------------
(***************************************************************************)
(* What a command that is sent and a pass of Strrcl_ChipUpFinish do to the *)
(* order.                                                                  *)
(***************************************************************************)
LEMMA SendFacts ==
  ASSUME TypeOK, UserInv, TableSound, OneSuspender, Order, SendCommand
  PROVE  \/ /\ Head(txq) \notin {READY, RECALL}
            /\ target'.phase = target.phase /\ target'.todo = target.todo
            /\ Queued(READY)' <=> Queued(READY)
            /\ Queued(RECALL)' <=> Queued(RECALL)
         \/ /\ Head(txq) = READY /\ target'.phase = "store"
            /\ Queued(READY) /\ ~Queued(READY)' /\ ~Queued(RECALL)'
         \/ /\ Head(txq) = RECALL /\ target'.phase = "up"
            /\ target.phase = "booted" /\ Queued(RECALL) /\ ~Queued(RECALL)'
            /\ Queued(READY)' <=> Queued(READY)
<1>0. /\ txq \in Seq(Commands) /\ txq # <<>> /\ txq' = Tail(txq)
      /\ Ordered(txq) /\ target \in TargetRec
  BY SendStep DEF TypeOK, Order, TargetRec
<1>1. READY # RECALL
  BY CommandsAre
<1>2. /\ Head(txq) # READY => (Queued(READY)' <=> Queued(READY))
      /\ Head(txq) # RECALL => (Queued(RECALL)' <=> Queued(RECALL))
      /\ Head(txq) = READY => Queued(READY) /\ ~Queued(READY)'
                              /\ ~Queued(RECALL)'
      /\ Head(txq) = RECALL => Queued(RECALL) /\ ~Queued(RECALL)'
  BY <1>0, TailOrdered DEF Queued
<1>3. ASSUME NEW m \in Modes, Head(txq) = POWER(m),
             target' = [target EXCEPT !.heard = Heard(POWER(m)), !.mode = m]
      PROVE  /\ Head(txq) \notin {READY, RECALL}
             /\ target'.phase = target.phase /\ target'.todo = target.todo
  BY <1>0, <1>3, CommandsAre DEF TargetRec
<1>4. ASSUME Head(txq) \in {INITSTACK, <<"command", "">>},
             target' = [target EXCEPT !.heard = Heard(Head(txq))]
      PROVE  /\ Head(txq) \notin {READY, RECALL}
             /\ target'.phase = target.phase /\ target'.todo = target.todo
  BY <1>0, <1>4, CommandsAre DEF TargetRec
<1>5. ASSUME NEW new, target' = [target EXCEPT !.heard = Heard(READY),
                                   !.phase = "store", !.ctx = new,
                                   !.saved = new, !.todo = DSET_STORE_RECALL,
                                   !.written = Nothing]
      PROVE  target'.phase = "store"
  BY <1>0, <1>5 DEF TargetRec
<1>6. ASSUME NEW ids, target' = [target EXCEPT !.heard = Heard(RECALL),
                                   !.phase = "up", !.mode = "MAX",
                                   !.todo = ids]
      PROVE  target'.phase = "up"
  BY <1>0, <1>6 DEF TargetRec
<1>7. Queued(RECALL) => target.phase = "booted"
  BY DEF Order
<1> QED BY <1>1, <1>2, <1>3, <1>4, <1>5, <1>6, <1>7, SendStep

\* A pass of Strrcl_ChipUpFinish ends with or without the recall.
LEMMA FinishFacts ==
  ASSUME TypeOK, UserInv, Order, Finish
  PROVE  /\ target.phase = "booted" /\ ~Queued(RECALL) /\ ~Queued(READY)
         /\ strrcl.state # "INIT" /\ asynchRequest = "finish" /\ drv = "run"
         /\ ~Queued(READY)'
         /\ \/ /\ strrcl.state \notin {"ACTIVE", "ACTIVE_B"}
               /\ asynchRequest' = "finish" /\ strrcl' = strrcl
            \/ /\ strrcl.state \in {"ACTIVE", "ACTIVE_B"}
               /\ strrcl'.state \in {"ACTIVE", "ACTIVE_B"}
               /\ asynchRequest' = "finish" /\ strrcl'.block = strrcl.block
               /\ asserted' = asserted
            \/ /\ strrcl.state \in {"ACTIVE", "ACTIVE_B"}
               /\ strrcl'.state = "INIT" /\ ~strrcl'.block
               /\ asynchRequest' = "NULL" /\ Queued(RECALL)'
               /\ asserted' = asserted
<1>1. PICK stack \in BOOLEAN, recall \in BOOLEAN, restore \in BOOLEAN :
        Strrcl_ChipUpFinish(stack, recall, restore)
  BY DEF Finish
<1>0. /\ txq \in Seq(Commands) /\ Ordered(txq) /\ power \in PowerRec
      /\ UNCHANGED <<target, user>> /\ asynchRequest = "finish"
      /\ strrcl \in [state : States, block : BOOLEAN, chipDown : BOOLEAN,
                     wmiReady : BOOLEAN]
      /\ strrcl.wmiReady /\ drv = "run"
  BY <1>1, FinishStep DEF TypeOK, Order, PowerRec
<1>2. target.phase = "booted" /\ ~Queued(RECALL) /\ ~Queued(READY)
      /\ strrcl.state # "INIT"
  BY <1>0 DEF Order, Restarting
<1>4. FinishQueue \in Seq(Commands) /\ Ordered(FinishQueue)
      /\ ~In(FinishQueue, RECALL) /\ ~In(FinishQueue, READY)
  <2>1. INITSTACK \in Commands /\ INITSTACK \notin {READY, RECALL}
    BY CommandsAre
  <2> QED BY <1>0, <1>2, <2>1, PlainAppend DEF FinishQueue, Queued
<1>5. CASE /\ strrcl.state \notin {"ACTIVE", "ACTIVE_B"}
           /\ UNCHANGED <<strrcl, asynchRequest, power, txq>>
  BY <1>0, <1>2, <1>5 DEF Queued
<1>6. CASE /\ strrcl.state = "ACTIVE"
           /\ strrcl' = [strrcl EXCEPT !.chipDown = FALSE]
           /\ UNCHANGED <<txq, asynchRequest, power, asserted>>
  BY <1>0, <1>2, <1>6 DEF Queued
<1>7. CASE /\ strrcl.state \in {"ACTIVE", "ACTIVE_B"}
           /\ strrcl' = [strrcl EXCEPT !.state = "ACTIVE_B",
                                       !.chipDown = FALSE]
           /\ txq' = FinishQueue
           /\ UNCHANGED <<asynchRequest, power, asserted>>
  BY <1>0, <1>2, <1>4, <1>7 DEF Queued
<1>8. CASE /\ strrcl.state \in {"ACTIVE", "ACTIVE_B"}
           /\ strrcl' = [strrcl EXCEPT !.state = "INIT", !.block = FALSE,
                                       !.chipDown = FALSE]
           /\ asynchRequest' = "NULL" /\ asserted' = asserted
           /\ LET r == RestorePower(power, Append(FinishQueue, RECALL), 1,
                                    restore)
              IN power' = r.power /\ txq' = r.txq
  <2>1. RECALL \in Commands /\ RECALL # READY
    BY CommandsAre
  <2> DEFINE q == Append(FinishQueue, RECALL)
  <2>2. q \in Seq(Commands) /\ Ordered(q) /\ In(q, RECALL) /\ ~In(q, READY)
    BY <1>4, <2>1, AppendIn, AppendOrdered
  <2>3. txq' = RestorePower(power, q, 1, restore).txq
    BY <1>8
  <2> HIDE DEF q
  <2>4. Queued(RECALL)' /\ ~Queued(READY)'
    BY <1>0, <2>2, <2>3, RestoreOrdered DEF Queued
  <2> QED BY <1>0, <1>2, <1>8, <2>4
<1> QED BY <1>1, <1>5, <1>6, <1>7, <1>8, FinishStep

\* Without interruptions one task suspends at a time.
LEMMA OneUnlessInterrupted == "interleave" \notin Happens => OneSuspender
BY DEF OneSuspender

(***************************************************************************)
(* The last step of a store and recall runs in its states: whoever has     *)
(* sent the command to store sets START before the target is done.         *)
(***************************************************************************)
LEMMA UserFinish ==
  ASSUME TypeOK, UserInv, ContextInv, OneSuspender, Order, FinishOk,
         NEW u \in Users, UserAction(u)
  PROVE  FinishOk'
<1>0. /\ txq \in Seq(Commands) /\ UNCHANGED <<target, drv, asserted>>
      /\ \A v \in Users \ {u} : user'[v] = user[v]
      /\ strrcl \in [state : States, block : BOOLEAN, chipDown : BOOLEAN,
                     wmiReady : BOOLEAN]
  BY UserStep DEF TypeOK
<1>1. CASE /\ user[u] = [pc |-> "start", op |-> "suspend"]
           /\ strrcl.state = "INIT"
           /\ strrcl' = [strrcl EXCEPT !.block = TRUE]
           /\ txq' = Append(txq, READY)
           /\ user'[u] = [pc |-> "sent", op |-> "suspend"]
           /\ UNCHANGED <<asynchRequest, power>>
  <2>1. Queued(READY)'
    BY <1>0, <1>1, AppendIn, CommandsAre DEF Queued
  <2>2. strrcl'.state = strrcl.state
    BY <1>0, <1>1
  <2> QED BY <1>0, <1>1, <2>1, <2>2 DEF FinishOk
<1>2. CASE /\ user[u] = [pc |-> "sent", op |-> "suspend"]
           /\ user'[u] = [pc |-> "idle", op |-> "idle"]
           /\ strrcl' = [strrcl EXCEPT !.state = "START"]
           /\ UNCHANGED <<asynchRequest, power, txq>>
  <2>1. Sent
    BY <1>2 DEF Sent
  <2>2. asynchRequest # "finish" /\ drv # "down"
    BY <2>1 DEF FinishOk, Order, Restarting, ContextInv
  <2>3. ~Sent'
    <3>1. ASSUME NEW v \in Users, user'[v].pc = "sent" PROVE FALSE
      <4>1. v # u /\ user[v].pc = "sent"
        BY <1>0, <1>2, <3>1
      <4>2. user[v].op = "suspend" /\ user[u].op = "suspend"
        BY <1>2, <4>1 DEF UserInv
      <4> QED BY <4>1, <4>2, SoleSuspender
    <3> QED BY <3>1 DEF Sent
  <2> QED BY <1>0, <1>2, <2>2, <2>3 DEF FinishOk
<1>3. ASSUME user'[u].pc # "sent", asynchRequest' \in {asynchRequest, "query"},
             strrcl'.state = strrcl.state, Queued(READY) => Queued(READY)'
      PROVE  FinishOk'
  <2>1. Sent' => Sent
    BY <1>0, <1>3 DEF Sent
  <2> QED BY <1>0, <1>3, <2>1 DEF FinishOk
<1>4. CASE /\ user[u] = [pc |-> "start", op |-> "suspend"]
           /\ strrcl' = strrcl \/ strrcl' = [strrcl EXCEPT !.block = FALSE]
           /\ user'[u] = [pc |-> "idle", op |-> "idle"]
           /\ UNCHANGED <<asynchRequest, power, txq>>
  <2>1. user'[u].pc # "sent" /\ strrcl'.state = strrcl.state
    BY <1>0, <1>4
  <2> QED BY <1>3, <1>4, <2>1 DEF Queued
<1>5. CASE /\ user'[u].pc # "sent" /\ strrcl' = strrcl
           /\ asynchRequest' \in {asynchRequest, "query"}
           /\ txq' = txq \/ \E c \in Plain : txq' = Append(txq, c)
  <2>1. Queued(READY) => Queued(READY)'
    <3>1. CASE txq' = txq
      BY <3>1 DEF Queued
    <3>2. ASSUME NEW c \in Plain, txq' = Append(txq, c)
          PROVE  Queued(READY) => Queued(READY)'
      <4>1. c \in Commands
        BY DEF Plain
      <4> QED BY <1>0, <3>2, <4>1, AppendIn DEF Queued
    <3> QED BY <1>5, <3>1, <3>2
  <2> QED BY <1>3, <1>5, <2>1
<1> QED BY <1>1, <1>2, <1>4, <1>5, UserStep

\* FinishInv is kept by every step.
LEMMA FinishInvStep ==
  ASSUME TypeOK, UserInv, TableSound, ContextInv, OrderInv, FinishInv,
         [Next]_vars
  PROVE  FinishInv'
<1> SUFFICES ASSUME OneSuspender, "early_event" \notin Happens, Order, FinishOk
             PROVE  FinishOk'
  BY SameSetting DEF FinishInv, OrderInv
<1>0. /\ txq \in Seq(Commands) /\ target \in TargetRec /\ power \in PowerRec
      /\ strrcl \in [state : States, block : BOOLEAN, chipDown : BOOLEAN,
                     wmiReady : BOOLEAN]
      /\ Ordered(txq)
  BY DEF TypeOK, TargetRec, PowerRec, Order
<1>1. ASSUME UNCHANGED <<drv, asserted>>, strrcl'.state = strrcl.state,
             asynchRequest' \in {asynchRequest, "NULL"}, Sent' => Sent,
             Queued(READY) \/ target.phase = "store"
               => Queued(READY)' \/ target'.phase = "store"
      PROVE  FinishOk'
  BY <1>1 DEF FinishOk
<1>2. CASE Idle /\ (UNCHANGED vars \/ RunQuery)
  <2>1. Sent' => Sent
    BY <1>2 DEF Sent, RunQuery, vars
  <2> QED BY <1>1, <1>2, <2>1 DEF Idle, Queued
<1>3. CASE SendCommand
  <2>1. UNCHANGED <<drv, asserted, strrcl, asynchRequest, user>>
    BY <1>3, SendStep
  <2> QED BY <1>1, <1>3, <2>1, SendFacts DEF Sent
<1>4. CASE Finish
  <2>1. ~Sent
    BY <1>4, FinishFacts DEF FinishOk
  <2>2. ~Sent'
    BY <1>4, <2>1, FinishFrame DEF Sent
  <2>3. drv' = "run"
    BY <1>4, FinishFacts, FinishFrame
  <2> QED BY <1>4, <2>2, <2>3, FinishFacts DEF FinishOk
<1>5. CASE ChipUp
  <2>1. target.phase = "off" /\ drv = "down" /\ drv' = "run"
        /\ UNCHANGED <<strrcl, user, asserted>>
    BY <1>5, ChipUpFrame DEF ContextInv
  <2>2. ~Sent
    BY <2>1 DEF FinishOk, Order
  <2> QED BY <2>1, <2>2 DEF FinishOk, Sent
<1>6. CASE TableEvent
  <2>1. target'.phase = target.phase
    BY <1>0, <1>6, TableStep DEF TableEvent, TargetRec
  <2> QED BY <1>1, <1>6, <2>1, TableFrame DEF Sent, Queued
<1>7. CASE ReadbackEvent
  <2>1. Queued(READY)' <=> Queued(READY)
    BY <1>0, <1>7, ReadbackFrame, RestoreOrdered DEF Queued
  <2> QED BY <1>1, <1>7, <2>1, ReadbackFrame DEF Sent
<1>8. CASE StoreEvent
  <2>1. /\ target.phase = "store" /\ drv = "run" /\ ~Sent
        /\ UNCHANGED <<asynchRequest, user, asserted, txq>>
    BY <1>8, EventStep DEF StoreEvent, CanEvent, Sent
  <2>2. asynchRequest # "finish" /\ ~Sent'
    BY <2>1 DEF Order, Sent
  <2>3. CASE Strrcl_ChipDown("ACTIVE")
    BY <1>0, <2>1, <2>2, <2>3 DEF Strrcl_ChipDown, FinishOk
  <2>4. CASE Abort
    BY <2>1, <2>2, <2>4 DEF Abort, FinishOk
  <2>5. CASE UNCHANGED <<strrcl, target, drv>>
    BY <2>1, <2>2, <2>5 DEF FinishOk
  <2> QED BY <1>8, <2>3, <2>4, <2>5, EventStep DEF StoreEvent
<1>9. CASE WmiReadyEvent
  <2>1. target.phase = "boot" /\ strrcl'.state = strrcl.state
        /\ UNCHANGED <<drv, asserted, asynchRequest, user>>
    BY <1>0, <1>9 DEF WmiReadyEvent
  <2>2. ~Sent
    BY <2>1 DEF FinishOk, Order
  <2> QED BY <2>1, <2>2 DEF FinishOk, Sent
<1> QED BY <1>2, <1>3, <1>4, <1>5, <1>6, <1>7, <1>8, <1>9, UserFinish, Steps

(***************************************************************************)
(* Users are out from the command to store until the recall is queued.     *)
(***************************************************************************)
LEMMA UserBlock ==
  ASSUME TypeOK, UserInv, "interleave" \notin Happens, Blocked,
         NEW u \in Users, UserAction(u)
  PROVE  Blocked'
<1>0. /\ txq \in Seq(Commands) /\ UNCHANGED target
      /\ \A v \in Users \ {u} : user'[v] = user[v]
      /\ strrcl \in [state : States, block : BOOLEAN, chipDown : BOOLEAN,
                     wmiReady : BOOLEAN]
  BY UserStep DEF TypeOK
<1>1. CASE /\ user[u] = [pc |-> "start", op |-> "suspend"]
           /\ strrcl' = [strrcl EXCEPT !.block = TRUE]
           /\ user'[u] = [pc |-> "sent", op |-> "suspend"]
           /\ UNCHANGED <<asynchRequest, power>>
  <2>1. user[u].pc = "start" /\ strrcl'.block
    BY <1>0, <1>1
  <2>2. \A v \in Users \ {u} : user[v].pc = "idle"
    BY <2>1 DEF UserInv
  <2>3. asynchRequest # "query"
    BY <2>1, <2>2 DEF UserInv
  <2>4. \A v \in Users : Out(v)'
    BY <1>0, <1>1, <2>2 DEF Out
  <2> QED BY <1>1, <2>1, <2>3, <2>4 DEF Blocked
<1>2. ASSUME ~strrcl.block, ~strrcl'.block,
             txq' = txq \/ \E c \in Plain : txq' = Append(txq, c)
      PROVE  Blocked'
  <2>1. /\ Queued(READY)' <=> Queued(READY)
        /\ Queued(RECALL)' <=> Queued(RECALL)
    <3>1. CASE txq' = txq
      BY <3>1 DEF Queued
    <3>2. ASSUME NEW c \in Plain, txq' = Append(txq, c)
          PROVE  /\ Queued(READY)' <=> Queued(READY)
                 /\ Queued(RECALL)' <=> Queued(RECALL)
      <4>1. c \in Commands /\ c # READY /\ c # RECALL
        BY DEF Plain
      <4> QED BY <1>0, <3>2, <4>1, AppendIn DEF Queued
    <3> QED BY <1>2, <3>1, <3>2
  <2> QED BY <1>0, <1>2, <2>1 DEF Blocked, Restarting
<1>3. CASE /\ user[u] = [pc |-> "start", op |-> "suspend"]
           /\ strrcl' = strrcl \/ strrcl' = [strrcl EXCEPT !.block = FALSE]
           /\ txq' = txq
  <2>1. user[u].pc = "start"
    BY <1>3
  <2>2. ~strrcl.block
    BY <2>1 DEF Blocked, Out
  <2>3. ~strrcl'.block
    BY <1>0, <1>3, <2>2
  <2> QED BY <1>2, <1>3, <2>2, <2>3
<1>4. ASSUME strrcl'.block = strrcl.block, asynchRequest' = asynchRequest,
             txq' = txq, user'[u].pc = "idle"
      PROVE  Blocked'
  <2>1. (\A v \in Users : Out(v)) => \A v \in Users : Out(v)'
    BY <1>0, <1>4 DEF Out
  <2> QED BY <1>0, <1>4, <2>1 DEF Blocked, Restarting, Queued
<1>5. CASE /\ user'[u] = [pc |-> "idle", op |-> "idle"]
           /\ strrcl' = [strrcl EXCEPT !.state = "START"]
           /\ UNCHANGED <<asynchRequest, power, txq>>
  BY <1>0, <1>4, <1>5
<1>6. CASE /\ user[u].pc \notin {"start", "sent"} /\ strrcl' = strrcl
           /\ \/ asynchRequest' = asynchRequest
              \/ user[u].pc = "in"
           /\ user[u].pc = "idle" => ~strrcl.block
           /\ user[u].pc = "wait" => txq' = txq /\ user'[u].pc = "idle"
           /\ txq' = txq \/ \E c \in Plain : txq' = Append(txq, c)
  <2>1. CASE user[u].pc = "wait"
    BY <1>4, <1>6, <2>1
  <2>2. CASE user[u].pc \in {"idle", "in"}
    <3>1. ~strrcl.block
      BY <1>6, <2>2 DEF Blocked, Out
    <3> QED BY <1>2, <1>6, <3>1
  <2> QED BY <1>6, <2>1, <2>2 DEF TypeOK
<1> QED BY <1>1, <1>3, <1>5, <1>6, UserStep

\* BlockInv is kept by every step.
LEMMA BlockStep ==
  ASSUME TypeOK, UserInv, TableSound, ContextInv, OrderInv, BlockInv,
         [Next]_vars
  PROVE  BlockInv'
<1> SUFFICES ASSUME "interleave" \notin Happens, OneSuspender, Order, Blocked
             PROVE  Blocked'
  BY SameSetting, OneUnlessInterrupted DEF BlockInv, OrderInv
<1>0. /\ txq \in Seq(Commands) /\ target \in TargetRec /\ power \in PowerRec
      /\ strrcl \in [state : States, block : BOOLEAN, chipDown : BOOLEAN,
                     wmiReady : BOOLEAN]
      /\ Ordered(txq)
  BY DEF TypeOK, TargetRec, PowerRec, Order
<1>1. ASSUME strrcl'.block = strrcl.block, asynchRequest' # "query"
                                           \/ asynchRequest' = asynchRequest,
             \A v \in Users : user'[v] = user[v] \/ user'[v].pc = "idle",
             Queued(READY)' \/ target'.phase = "store" \/ Restarting'
               => Queued(READY) \/ target.phase = "store" \/ Restarting
      PROVE  Blocked'
  <2>1. (\A v \in Users : Out(v)) => \A v \in Users : Out(v)'
    BY <1>1 DEF Out
  <2> QED BY <1>1, <2>1 DEF Blocked
<1>2. CASE Idle /\ (UNCHANGED vars \/ RunQuery)
  <2>1. \A v \in Users : user'[v] = user[v] \/ user'[v].pc = "idle"
    BY <1>2 DEF RunQuery, vars
  <2> QED BY <1>1, <1>2, <2>1 DEF Idle, Queued, Restarting
<1>3. CASE SendCommand
  <2>1. UNCHANGED <<strrcl, asynchRequest, user>>
        /\ target.phase \in {"up", "store", "booted"}
    BY <1>3, SendStep
  <2>2. Queued(READY)' \/ target'.phase = "store" \/ Restarting'
          => Queued(READY) \/ target.phase = "store" \/ Restarting
    BY <1>3, <2>1, SendFacts DEF Restarting
  <2> QED BY <1>1, <2>1, <2>2
<1>4. CASE Finish
  <2>1. UNCHANGED <<user, target>> /\ Restarting
    BY <1>4, FinishFacts, FinishFrame DEF Restarting
  <2>2. CASE strrcl'.block = strrcl.block /\ asynchRequest' = "finish"
    BY <1>1, <2>1, <2>2
  <2>3. CASE ~strrcl'.block /\ Queued(RECALL)'
    BY <1>4, <2>1, <2>3, FinishFacts DEF Blocked, Restarting
  <2> QED BY <1>4, <2>2, <2>3, FinishFacts
<1>5. CASE ChipUp
  <2>1. target.phase = "off" /\ asynchRequest' \in {asynchRequest, "finish"}
        /\ UNCHANGED <<strrcl, user>>
    BY <1>5, ChipUpFrame DEF ContextInv
  <2> QED BY <1>1, <2>1 DEF Restarting
<1>6. CASE TableEvent
  <2>1. target'.phase = target.phase
    BY <1>0, <1>6, TableStep DEF TableEvent, TargetRec
  <2> QED BY <1>1, <1>6, <2>1, TableFrame DEF Restarting, Queued
<1>7. CASE ReadbackEvent
  <2>1. target'.phase = "up"
    <3>1. PICK id \in DSET_STORE_RECALL, ok \in BOOLEAN,
               extra \in {0, Header} : Api_HostDsetReadbackEvent(id, extra, ok)
      BY <1>7 DEF ReadbackEvent
    <3> DEFINE c == target'.ctx[id]
    <3>2. target' = [target EXCEPT !.todo = @ \ {id}, !.ctx[id] = c]
      BY <3>1, ReadbackStep
    <3> HIDE DEF c
    <3> QED BY <1>0, <1>7, <3>2, ReadbackFrame DEF TargetRec
  <2>2. Queued(READY)' <=> Queued(READY)
    BY <1>0, <1>7, ReadbackFrame, RestoreOrdered DEF Queued
  <2> QED BY <1>1, <1>7, <2>1, <2>2, ReadbackFrame DEF Restarting
<1>8. CASE StoreEvent
  <2>1. /\ target.phase = "store"
        /\ UNCHANGED <<asynchRequest, user, txq>>
    BY <1>8, EventStep DEF StoreEvent, CanEvent
  <2>2. ~Queued(READY)'
    BY <2>1 DEF Order, Queued
  <2>3. CASE Strrcl_ChipDown("ACTIVE")
    <3>1. strrcl'.block = strrcl.block
      BY <1>0, <2>3 DEF Strrcl_ChipDown
    <3> QED BY <1>1, <2>1, <3>1
  <2>4. CASE Abort
    <3>1. ~strrcl'.block /\ target'.phase = "up"
      BY <1>0, <2>4 DEF Abort, TargetRec
    <3> QED BY <2>2, <3>1 DEF Blocked, Restarting
  <2>5. CASE UNCHANGED <<strrcl, target, drv>>
    BY <1>1, <2>1, <2>5
  <2> QED BY <1>8, <2>3, <2>4, <2>5, EventStep DEF StoreEvent
<1>9. CASE WmiReadyEvent
  <2>1. target.phase = "boot" /\ strrcl'.block = strrcl.block
        /\ UNCHANGED <<asynchRequest, user>>
    BY <1>0, <1>9 DEF WmiReadyEvent
  <2> QED BY <1>1, <2>1 DEF Restarting
<1> QED BY <1>2, <1>3, <1>4, <1>5, <1>6, <1>7, <1>8, <1>9, UserBlock, Steps

-----------------------------------------------------------------------------
(***************************************************************************)
(* What a booted target hears: nothing, SOCK_STACK_INIT, its recall.       *)
(***************************************************************************)

\* Only a task that is in to suspend goes on to do so.
LEMMA SuspendGoesOn ==
  ASSUME TypeOK, UserInv, NEW u \in Users, UserAction(u),
         user[u].pc # "idle", Suspending(u)'
  PROVE  Suspending(u)
<1>1. ASSUME NEW ok \in BOOLEAN, SuspendPower(u, ok) \/ SuspendStart(u, ok)
      PROVE  Suspending(u)
  <2>1. \/ user[u] = [pc |-> "in", op |-> "suspend"]
        \/ user[u] = [pc |-> "start", op |-> "suspend"]
    BY <1>1 DEF SuspendPower, SuspendStart
  <2> QED BY <2>1 DEF Suspending
<1>2. ASSUME \/ \E ok \in BOOLEAN : UserPower(u, ok) \/ UserCommand(u, ok)
             \/ SuspendSent(u) \/ Api_TxGetStatus(u) \/ WaitOver(u)
      PROVE  FALSE
  <2>1. Step(u, "idle", "idle") \/ Step(u, "wait", "query")
    BY <1>2 DEF UserPower, UserCommand, SuspendSent, Api_TxGetStatus,
                WaitOver
  <2>2. user'[u].pc \in {"idle", "wait"}
    BY <2>1, StepType DEF Operations
  <2> QED BY <2>2 DEF Suspending
<1>3. ASSUME NEW op \in Operations, Enter(u, op) PROVE FALSE
  BY <1>3 DEF Enter
<1> QED BY <1>1, <1>2, <1>3 DEF UserAction

\* A task queues nothing while a booted target has yet to be told.
LEMMA UserHears ==
  ASSUME TypeOK, UserInv, Order, Blocked, HeardOk,
         Happens \cap {"resuspend", "interleave"} = {},
         NEW u \in Users, UserAction(u)
  PROVE  HeardOk'
<1>0. /\ txq \in Seq(Commands) /\ UNCHANGED target
      /\ \A v \in Users \ {u} : user'[v] = user[v]
      /\ strrcl \in [state : States, block : BOOLEAN, chipDown : BOOLEAN,
                     wmiReady : BOOLEAN]
      /\ \A v \in Users : user[v].pc # "idle" /\ user[u].pc # "idle" => u = v
      /\ \A v \in Users : user[v].pc = "idle" => ~Suspending(v)
      /\ user[u].pc # user'[u].pc
  BY UserStep DEF TypeOK, UserInv, Suspending
<1>1. ASSUME txq' = txq,
             strrcl'.state = strrcl.state \/ strrcl'.state = "START",
             \A v \in Users : Suspending(v)' => Suspending(v),
             user'[u].pc # "in"
      PROVE  HeardOk'
  <2>1. \A v \in Users : user'[v] = [pc |-> "in", op |-> "suspend"]
                           => user[v] = [pc |-> "in", op |-> "suspend"]
    BY <1>0, <1>1
  <2> QED BY <1>0, <1>1, <2>1 DEF HeardOk, Hears, Queued
<1>2. CASE user[u].pc = "idle"
  <2>1. /\ txq' = txq /\ strrcl' = strrcl /\ user'[u].pc = "in"
        /\ \A v \in Users : user[v].pc = "idle"
        /\ user'[u].op = "suspend" => Recalled
    BY <1>2, UserStep
  <2>2. CASE user'[u].op = "suspend"
    <3>1. target.phase = "up" /\ target.todo = {} /\ txq = <<>>
      BY <2>1, <2>2 DEF Recalled
    <3> QED BY <1>0, <2>1, <3>1 DEF HeardOk
  <2>3. CASE user'[u].op # "suspend"
    <3>1. \A v \in Users : /\ ~Suspending(v)'
                           /\ user'[v] # [pc |-> "in", op |-> "suspend"]
      BY <1>0, <2>1, <2>3 DEF Suspending
    <3> QED BY <1>0, <2>1, <3>1 DEF HeardOk, Hears, Queued
  <2> QED BY <2>2, <2>3
<1>3. CASE user[u].pc \in {"start", "sent", "wait"}
  <2>1. \A v \in Users \ {u} : user[v].pc = "idle"
    BY <1>0, <1>3
  <2>2. \A v \in Users : Suspending(v)' => Suspending(v)
    BY <1>0, <1>3, SuspendGoesOn DEF Suspending
  <2>3. user'[u].pc # "in"
    BY <1>3, UserStep
  <2>4. CASE /\ user[u] = [pc |-> "start", op |-> "suspend"]
             /\ strrcl.state = "INIT"
             /\ txq' = Append(txq, READY)
             /\ user'[u] = [pc |-> "sent", op |-> "suspend"]
    <3>1. target.phase = "up" /\ target.todo = {}
      BY <2>4 DEF HeardOk, Suspending
    <3>2. ~Sent
      BY <2>1, <2>4 DEF Sent
    <3>3. ~In(txq, READY)
      BY <2>4, <3>2 DEF Order, Queued
    <3>4. \A k \in DOMAIN txq' : txq'[k] = READY => k = Len(txq')
      <4>1. /\ DOMAIN txq = 1 .. Len(txq) /\ Len(txq) \in Nat
            /\ DOMAIN txq' = 1 .. Len(txq) + 1 /\ Len(txq') = Len(txq) + 1
            /\ \A k \in DOMAIN txq : txq'[k] = txq[k]
        BY <1>0, <2>4, CommandsAre, QueueAppend
      <4>2. \A k \in DOMAIN txq' : k \in DOMAIN txq \/ k = Len(txq')
        BY <4>1
      <4> QED BY <3>3, <4>1, <4>2 DEF In
    <3>5. \A v \in Users : user'[v] # [pc |-> "in", op |-> "suspend"]
      BY <1>0, <2>1, <2>3
    <3> QED BY <1>0, <3>1, <3>4, <3>5 DEF HeardOk
  <2>5. CASE UNCHANGED txq
    <3>1. strrcl'.state = strrcl.state \/ strrcl'.state = "START"
      BY <1>0, UserStep
    <3> QED BY <1>1, <2>2, <2>3, <2>5, <3>1
  <2> QED BY <1>3, <2>4, <2>5, UserStep
<1>4. CASE user[u].pc = "in"
  <2>1. ~strrcl.block
    BY <1>4 DEF Blocked, Out
  <2>2. ~Queued(READY) /\ target.phase # "store" /\ ~Restarting
    BY <2>1 DEF Blocked
  <2>3. /\ strrcl' = strrcl
        /\ txq' = txq \/ \E c \in Plain : txq' = Append(txq, c)
    BY <1>4, UserStep
  <2>4. \A v \in Users : Suspending(v)' => Suspending(v)
    BY <1>0, <1>4, SuspendGoesOn DEF Suspending
  <2>5. user'[u].pc # "in"
    BY <1>0, <1>4
  <2>6. ASSUME NEW c \in Plain, txq' = Append(txq, c)
        PROVE  HeardOk'
    <3>1. c \in Commands /\ c # READY /\ c # RECALL
      BY DEF Plain
    <3>2. ~Queued(READY)' /\ (Queued(RECALL)' <=> Queued(RECALL))
      BY <1>0, <2>2, <2>6, <3>1, AppendIn DEF Queued
    <3>3. \A v \in Users : user'[v] # [pc |-> "in", op |-> "suspend"]
      BY <1>0, <1>4, <2>5
    <3>4. target.phase = "booted" =>
            \/ BothQueued(txq, target.heard) \/ RecallQueued(txq, target.heard)
      <4>1. InitQueued(txq, target.heard) => ~Queued(RECALL)
        <5>1. INITSTACK # RECALL
          BY CommandsAre
        <5> QED BY <5>1 DEF InitQueued, Queued, In
      <4>2. Silent(txq, target.heard) \/ InitHeard(txq, target.heard)
              => ~Queued(RECALL)
        BY DEF Silent, InitHeard, Queued, In
      <4> QED BY <2>2, <4>1, <4>2 DEF HeardOk, Hears, Restarting
    <3>5. /\ BothQueued(txq, target.heard) => BothQueued(txq', target.heard)
          /\ RecallQueued(txq, target.heard) => RecallQueued(txq', target.heard)
      BY <1>0, <2>6, <3>1 DEF BothQueued, RecallQueued
    <3>6. target.phase = "booted" =>
            /\ \/ BothQueued(txq', target.heard)
               \/ RecallQueued(txq', target.heard)
            /\ strrcl.state # "ACTIVE"
      <4>1. target.phase = "booted" =>
              ~Silent(txq, target.heard)
        BY <3>4 DEF Silent, BothQueued, RecallQueued
      <4> QED BY <3>4, <3>5, <4>1 DEF HeardOk, Hears
    <3>7. target.phase = "booted" /\ strrcl.state = "ACTIVE_B"
            => target.heard = <<"stack_init">>
      <4>1. txq = <<INITSTACK>> => ~Queued(RECALL)
        <5>1. INITSTACK # RECALL
          BY CommandsAre
        <5> QED BY <5>1 DEF Queued, In
      <4> QED BY <2>2, <4>1 DEF HeardOk, Restarting
    <3>8. \A k \in DOMAIN txq' : txq'[k] # READY
      BY <3>2 DEF Queued, In
    <3>9. \A v \in Users :
            Suspending(v)' => target.phase = "up" /\ target.todo = {}
      BY <2>4 DEF HeardOk
    <3>10. target.phase \notin {"off", "boot"}
      BY <2>2 DEF Restarting
    <3> QED BY <1>0, <2>2, <2>3, <3>2, <3>3, <3>6, <3>7, <3>8, <3>9, <3>10
            DEF HeardOk, Hears
  <2> QED BY <1>1, <2>3, <2>4, <2>5, <2>6
<1> QED BY <1>2, <1>3, <1>4 DEF TypeOK

\* A booted target hears the commands in the order of the queue.
LEMMA SendHears ==
  ASSUME TypeOK, UserInv, TableSound, OneSuspender, Order, Blocked, HeardOk,
         SendCommand
  PROVE  HeardOk'
<1>0. /\ txq \in Seq(Commands) /\ txq # <<>> /\ txq' = Tail(txq)
      /\ target \in TargetRec /\ UNCHANGED <<strrcl, user>>
      /\ target.phase \in {"up", "store", "booted"}
  BY SendStep DEF TypeOK, TargetRec
<1>1. /\ Head(txq) = txq[1] /\ Len(txq) \in Nat /\ Len(txq) > 0
      /\ Len(txq') = Len(txq) - 1
      /\ DOMAIN txq' = 1 .. Len(txq) - 1 /\ DOMAIN txq = 1 .. Len(txq)
      /\ \A k \in DOMAIN txq' : txq'[k] = txq[k + 1]
  BY <1>0, QueueTail
<1>2. target.phase # "store"
  BY <1>0 DEF HeardOk
<1>3. \A k \in DOMAIN txq' : txq'[k] = READY => k = Len(txq')
  <2> SUFFICES ASSUME NEW k \in DOMAIN txq', txq'[k] = READY
               PROVE  k = Len(txq')
    OBVIOUS
  <2>1. k + 1 \in DOMAIN txq /\ txq[k + 1] = READY /\ k \in Nat
    BY <1>1
  <2>2. k + 1 = Len(txq)
    BY <2>1 DEF HeardOk
  <2> QED BY <1>1, <2>1, <2>2
<1>4. \A v \in Users : user[v] # [pc |-> "in", op |-> "suspend"]
  BY <1>0 DEF HeardOk
<1>5. \A v \in Users : Suspending(v)' <=> Suspending(v)
  BY <1>0 DEF Suspending
<1>6. ASSUME Head(txq) # READY, target'.phase = "up", target.phase = "up",
             target'.todo = target.todo, target'.heard = target.heard
      PROVE  HeardOk'
  <2>1. Queued(READY)' => Queued(READY)
    BY <1>0, TailOrdered DEF Queued, Order
  <2> QED BY <1>0, <1>3, <1>4, <1>5, <1>6, <2>1 DEF HeardOk
<1>7. CASE target.phase = "up"
  <2>1. CASE Head(txq) = READY
    <3>1. Queued(READY) /\ ~Queued(READY)' /\ target'.phase = "store"
      BY <1>0, <2>1, SendFacts, CommandsAre
    <3>2. \A v \in Users : Out(v)
      BY <3>1 DEF Blocked
    <3>3. \A v \in Users : ~Suspending(v)'
      BY <1>5, <3>2 DEF Out, Suspending
    <3>4. txq' = <<>>
      <4>1. 1 \in DOMAIN txq /\ txq[1] = READY
        BY <1>1, <2>1
      <4>2. Len(txq) = 1
        BY <4>1 DEF HeardOk
      <4> QED BY <1>0, <4>2
    <3>5. target'.heard = target.heard
      <4>1. Heard(READY) = target.heard
        BY <1>7 DEF Heard
      <4>2. ASSUME NEW new, NEW h,
                   target' = [target EXCEPT !.heard = h,
                                 !.phase = "store", !.ctx = new,
                                 !.saved = new, !.todo = DSET_STORE_RECALL,
                                 !.written = Nothing]
            PROVE  target'.heard = h
        BY <1>0, <4>2 DEF TargetRec
      <4>3. \E new : target' = [target EXCEPT !.heard = Heard(READY),
                                 !.phase = "store", !.ctx = new,
                                 !.saved = new, !.todo = DSET_STORE_RECALL,
                                 !.written = Nothing]
        BY <2>1, CommandsAre, SendStep
      <4> QED BY <4>1, <4>2, <4>3
    <3> QED BY <1>0, <1>4, <3>1, <3>3, <3>4, <3>5 DEF HeardOk
  <2>2. CASE Head(txq) # READY
    <3>1. Head(txq) # RECALL
      BY <1>7, <2>2, SendFacts
    <3>2. ASSUME NEW c, target.phase = "up" PROVE Heard(c) = target.heard
      BY <3>2 DEF Heard
    <3>3. \/ \E c : \E m \in Modes :
               target' = [target EXCEPT !.heard = Heard(c), !.mode = m]
          \/ target' = [target EXCEPT !.heard = Heard(Head(txq))]
      BY <2>2, <3>1, SendStep
    <3>4. target'.heard = target.heard /\ target'.phase = target.phase
          /\ target'.todo = target.todo
      BY <1>0, <1>7, <3>2, <3>3 DEF TargetRec
    <3> QED BY <1>6, <1>7, <2>2, <3>4
  <2> QED BY <2>1, <2>2
<1>8. CASE target.phase = "booted"
  <2>1. ~Queued(READY) /\ \A v \in Users : ~Suspending(v)
    BY <1>8 DEF HeardOk
  <2>2. ~Queued(READY)'
    BY <1>0, <2>1, TailOrdered DEF Queued, Order
  <2>3. \/ InitQueued(txq, target.heard) \/ BothQueued(txq, target.heard)
        \/ RecallQueued(txq, target.heard)
    BY <1>0, <1>8 DEF HeardOk, Hears, Silent, InitHeard
  <2>4. strrcl.state # "ACTIVE"
    BY <1>0, <1>8 DEF HeardOk, Hears, Silent
  <2>5. CASE InitQueued(txq, target.heard) \/ BothQueued(txq, target.heard)
    <3>1. Head(txq) = INITSTACK /\ target.heard = <<>>
      BY <1>1, <2>5 DEF InitQueued, BothQueued
    <3>2. target' = [target EXCEPT !.heard = Heard(INITSTACK)]
      BY <3>1, SendStep, CommandsAre
    <3>3. Heard(INITSTACK) = <<"stack_init">>
      <4>1. Heard(INITSTACK) = Append(target.heard, INITSTACK[1])
        BY <1>8 DEF Heard
      <4>2. INITSTACK[1] = "stack_init"
        BY DEF INITSTACK
      <4> QED BY <3>1, <4>1, <4>2
    <3>4. target'.heard = <<"stack_init">> /\ target'.phase = "booted"
          /\ target'.todo = target.todo
      BY <1>0, <1>8, <3>2, <3>3 DEF TargetRec
    <3>5. InitHeard(txq', target'.heard) \/ RecallQueued(txq', target'.heard)
      <4>1. CASE InitQueued(txq, target.heard)
        <5>1. txq' = <<>>
          BY <1>0, <4>1 DEF InitQueued
        <5> QED BY <3>4, <5>1 DEF InitHeard
      <4>2. CASE BothQueued(txq, target.heard)
        <5>1. Len(txq') > 0 /\ txq'[1] = RECALL
          BY <1>1, <4>2 DEF BothQueued
        <5> QED BY <3>4, <5>1 DEF RecallQueued
      <4> QED BY <2>5, <4>1, <4>2
    <3> QED BY <1>0, <1>3, <1>4, <1>5, <2>1, <2>2, <2>4, <3>4, <3>5
            DEF HeardOk, Hears
  <2>6. CASE RecallQueued(txq, target.heard)
    <3>1. Head(txq) = RECALL /\ target.heard = <<"stack_init">>
      BY <1>1, <2>6 DEF RecallQueued
    <3>2. Heard(RECALL) = <<"stack_init", "recall">>
      <4>1. Heard(RECALL) = Append(target.heard, RECALL[1])
        BY <1>8 DEF Heard
      <4>2. RECALL[1] = "recall"
        BY DEF RECALL
      <4>3. Heard(RECALL) = Append(<<"stack_init">>, "recall")
        BY <3>1, <4>1, <4>2
      <4>4. Append(<<"stack_init">>, "recall") = <<"stack_init", "recall">>
        <5> DEFINE S == {"stack_init", "recall"}
                   p == Append(<<"stack_init">>, "recall")
                   q == <<"stack_init", "recall">>
        <5>1. p \in Seq(S) /\ Len(p) = 2 /\ p[1] = "stack_init"
              /\ p[2] = "recall"
          OBVIOUS
        <5>2. q \in Seq(S) /\ Len(q) = 2 /\ q[1] = "stack_init"
              /\ q[2] = "recall"
          OBVIOUS
        <5> HIDE DEF p, q, S
        <5>3. \A i \in 1 .. 2 : p[i] = q[i]
          BY <5>1, <5>2
        <5>4. p = q
          BY <5>1, <5>2, <5>3
        <5> QED BY <5>4 DEF p, q
      <4> QED BY <4>3, <4>4
    <3>3. \E ids : target' = [target EXCEPT !.heard = Heard(RECALL),
                                   !.phase = "up", !.mode = "MAX",
                                   !.todo = ids]
      BY <3>1, SendStep, CommandsAre
    <3>4. ASSUME NEW ids, NEW h,
                 target' = [target EXCEPT !.heard = h, !.phase = "up",
                              !.mode = "MAX", !.todo = ids]
          PROVE  target'.heard = h /\ target'.phase = "up"
      BY <1>0, <3>4 DEF TargetRec
    <3>5. target'.heard = <<"stack_init", "recall">> /\ target'.phase = "up"
      BY <3>2, <3>3, <3>4
    <3> QED BY <1>0, <1>3, <1>4, <1>5, <2>1, <2>2, <3>5 DEF HeardOk
  <2> QED BY <2>3, <2>5, <2>6
<1> QED BY <1>0, <1>2, <1>7, <1>8

\* Strrcl_ChipUpFinish queues SOCK_STACK_INIT once, then the recall.
LEMMA FinishHears ==
  ASSUME TypeOK, UserInv, Order, HeardOk, Finish
  PROVE  HeardOk'
<1>1. PICK stack \in BOOLEAN, recall \in BOOLEAN, restore \in BOOLEAN :
        Strrcl_ChipUpFinish(stack, recall, restore)
  BY DEF Finish
<1>0. /\ txq \in Seq(Commands) /\ power \in PowerRec
      /\ UNCHANGED <<target, user>> /\ FinishQueue \in Seq(Commands)
      /\ strrcl \in [state : States, block : BOOLEAN, chipDown : BOOLEAN,
                     wmiReady : BOOLEAN]
  BY <1>1, FinishStep DEF TypeOK, PowerRec
<1>2. target.phase = "booted" /\ ~Queued(RECALL) /\ ~Queued(READY)
      /\ ~Queued(READY)'
  BY FinishFacts
<1>3. \A v \in Users : ~Suspending(v) /\ ~Suspending(v)'
                       /\ user'[v] # [pc |-> "in", op |-> "suspend"]
  <2>1. \A v \in Users : ~Suspending(v)
    BY <1>2 DEF HeardOk
  <2> QED BY <1>0, <2>1 DEF Suspending
<1>4. \A k \in DOMAIN txq' : txq'[k] # READY
  BY <1>2 DEF Queued, In
<1>5. ASSUME Hears', strrcl'.state = "ACTIVE_B" =>
                       txq' = <<INITSTACK>> \/ target.heard = <<"stack_init">>
      PROVE  HeardOk'
  BY <1>0, <1>2, <1>3, <1>4, <1>5 DEF HeardOk
<1>6. \/ Silent(txq, target.heard)
      \/ /\ strrcl.state # "ACTIVE"
         /\ InitQueued(txq, target.heard) \/ InitHeard(txq, target.heard)
  <2>1. BothQueued(txq, target.heard) => Queued(RECALL)
    <3>1. BothQueued(txq, target.heard) => 2 \in DOMAIN txq /\ txq[2] = RECALL
      BY <1>0 DEF BothQueued
    <3> QED BY <3>1 DEF Queued, In
  <2>2. RecallQueued(txq, target.heard) => Queued(RECALL)
    <3>1. RecallQueued(txq, target.heard)
            => 1 \in DOMAIN txq /\ txq[1] = RECALL
      BY <1>0 DEF RecallQueued
    <3> QED BY <3>1 DEF Queued, In
  <2> QED BY <1>2, <2>1, <2>2 DEF HeardOk, Hears
<1>7. strrcl.state = "ACTIVE_B" =>
        InitQueued(txq, target.heard) \/ InitHeard(txq, target.heard)
  BY <1>2, <1>6 DEF HeardOk, Silent
<1>8. CASE UNCHANGED txq /\ strrcl'.state = strrcl.state
  <2>1. Hears'
    BY <1>0, <1>2, <1>8 DEF HeardOk, Hears
  <2> QED BY <1>2, <1>5, <1>8, <2>1 DEF HeardOk
<1>9. ASSUME strrcl.state \in {"ACTIVE", "ACTIVE_B"}
      PROVE  InitQueued(FinishQueue, target.heard)
             \/ InitHeard(FinishQueue, target.heard)
  <2>1. CASE strrcl.state = "ACTIVE"
    <3>1. txq = <<>> /\ target.heard = <<>>
      BY <1>6, <2>1 DEF Silent
    <3>2. FinishQueue = <<INITSTACK>>
      BY <2>1, <3>1 DEF FinishQueue
    <3> QED BY <3>1, <3>2 DEF InitQueued
  <2>2. CASE strrcl.state = "ACTIVE_B"
    BY <1>7, <2>2 DEF FinishQueue
  <2> QED BY <1>9, <2>1, <2>2
<1>10. CASE /\ strrcl.state \in {"ACTIVE", "ACTIVE_B"}
            /\ strrcl' = [strrcl EXCEPT !.state = "ACTIVE_B",
                                        !.chipDown = FALSE]
            /\ txq' = FinishQueue
  <2>1. strrcl'.state = "ACTIVE_B"
    BY <1>0, <1>10
  <2>2. InitQueued(txq', target'.heard) \/ InitHeard(txq', target'.heard)
    BY <1>0, <1>9, <1>10
  <2>3. Hears'
    BY <2>1, <2>2 DEF Hears
  <2> QED BY <1>0, <1>5, <2>2, <2>3 DEF InitQueued, InitHeard
<1>11. CASE /\ strrcl.state \in {"ACTIVE", "ACTIVE_B"}
            /\ strrcl' = [strrcl EXCEPT !.state = "INIT", !.block = FALSE,
                                        !.chipDown = FALSE]
            /\ LET r == RestorePower(power, Append(FinishQueue, RECALL), 1,
                                     restore)
               IN power' = r.power /\ txq' = r.txq
  <2> DEFINE q == Append(FinishQueue, RECALL)
  <2>1. strrcl'.state = "INIT"
    BY <1>0, <1>11
  <2>2. q \in Seq(Commands) /\ RECALL \in Commands /\ POWER("REC") \in Commands
    <3>1. RECALL \in Commands /\ POWER("REC") \in Commands
      BY CommandsAre
    <3> QED BY <1>0, <3>1
  <2>3. BothQueued(q, target.heard) \/ RecallQueued(q, target.heard)
    <3>1. InitQueued(FinishQueue, target.heard) => BothQueued(q, target.heard)
      BY DEF InitQueued, BothQueued
    <3>2. InitHeard(FinishQueue, target.heard) => RecallQueued(q, target.heard)
      BY DEF InitHeard, RecallQueued
    <3> QED BY <1>9, <1>11, <3>1, <3>2
  <2>4. txq' = RestorePower(power, q, 1, restore).txq
    BY <1>11
  <2> HIDE DEF q
  <2>5. txq' = q \/ txq' = Append(q, POWER("REC"))
    BY <1>0, <2>2, <2>4, RestoreQueue
  <2>6. BothQueued(txq', target.heard) \/ RecallQueued(txq', target.heard)
    <3>1. CASE txq' = q
      BY <2>3, <3>1
    <3>2. CASE txq' = Append(q, POWER("REC"))
      <4>1. Len(q) \in Nat /\ Len(txq') = Len(q) + 1
            /\ \A k \in 1 .. Len(q) : txq'[k] = q[k]
        BY <2>2, <3>2
      <4>2. BothQueued(q, target.heard) => BothQueued(txq', target.heard)
        BY <4>1 DEF BothQueued
      <4>3. RecallQueued(q, target.heard) => RecallQueued(txq', target.heard)
        BY <4>1 DEF RecallQueued
      <4> QED BY <2>3, <4>2, <4>3
    <3> QED BY <2>5, <3>1, <3>2
  <2>7. Hears'
    BY <1>0, <2>1, <2>6 DEF Hears
  <2> QED BY <1>5, <2>1, <2>7
<1>12. strrcl' = [strrcl EXCEPT !.chipDown = FALSE]
         => strrcl'.state = strrcl.state
  BY <1>0
<1> QED BY <1>1, <1>8, <1>10, <1>11, <1>12, FinishStep

(***************************************************************************)
(* A task that suspends finds nothing on its way, so that nothing is left  *)
(* in the queue that a booted target could hear.                           *)
(***************************************************************************)
LEMMA HeardStep ==
  ASSUME TypeOK, UserInv, TableSound, ContextInv, OrderInv, BlockInv,
         HeardInv, [Next]_vars
  PROVE  HeardInv'
<1> SUFFICES ASSUME Happens \cap {"resuspend", "interleave"} = {},
                    OneSuspender, Order, Blocked, HeardOk
             PROVE  HeardOk'
  BY SameSetting, OneUnlessInterrupted DEF HeardInv, OrderInv, BlockInv
<1>0. /\ txq \in Seq(Commands) /\ target \in TargetRec /\ power \in PowerRec
      /\ strrcl \in [state : States, block : BOOLEAN, chipDown : BOOLEAN,
                     wmiReady : BOOLEAN]
      /\ Ordered(txq)
  BY DEF TypeOK, TargetRec, PowerRec, Order
<1>1. ASSUME UNCHANGED txq, strrcl'.state = strrcl.state,
             \A v \in Users : user'[v] = user[v] \/ user'[v].pc = "idle",
             target'.phase = target.phase, target'.heard = target.heard,
             target.phase = "store" \/ target'.todo = target.todo
      PROVE  HeardOk'
  <2>1. \A v \in Users :
          /\ Suspending(v)' => Suspending(v)
          /\ user'[v] = [pc |-> "in", op |-> "suspend"]
               => user[v] = [pc |-> "in", op |-> "suspend"]
    BY <1>1 DEF Suspending
  <2> QED BY <1>1, <2>1 DEF HeardOk, Hears, Queued
<1>2. CASE Idle /\ (UNCHANGED vars \/ RunQuery)
  <2>1. \A v \in Users : user'[v] = user[v] \/ user'[v].pc = "idle"
    BY <1>2 DEF RunQuery, vars
  <2> QED BY <1>1, <1>2, <2>1 DEF Idle
<1>3. CASE ChipUp
  <2>1. target.phase = "off" /\ UNCHANGED <<strrcl, user, txq>>
    BY <1>3, ChipUpFrame DEF ContextInv
  <2>2. target'.phase \in {"off", "boot"} /\ target'.heard = target.heard
    BY <1>0, <1>3, ChipUpFrame DEF TargetRec
  <2>3. ~Queued(READY)' /\ \A v \in Users : ~Suspending(v)'
    <3>1. ~Queued(READY) /\ \A v \in Users : ~Suspending(v)
      BY <2>1 DEF HeardOk
    <3> QED BY <2>1, <3>1 DEF Queued, Suspending
  <2> QED BY <2>1, <2>2, <2>3 DEF HeardOk
<1>4. CASE TableEvent
  <2>1. target'.phase = target.phase /\ target'.heard = target.heard
    BY <1>0, <1>4, TableStep DEF TableEvent, TargetRec
  <2> QED BY <1>1, <1>4, <2>1, TableFrame DEF CanEvent
<1>5. CASE ReadbackEvent
  <2>1. target'.phase = "up" /\ target'.heard = target.heard
    <3>1. PICK id \in DSET_STORE_RECALL, ok \in BOOLEAN,
               extra \in {0, Header} : Api_HostDsetReadbackEvent(id, extra, ok)
      BY <1>5 DEF ReadbackEvent
    <3> DEFINE c == target'.ctx[id]
    <3>2. target' = [target EXCEPT !.todo = @ \ {id}, !.ctx[id] = c]
      BY <3>1, ReadbackStep
    <3> HIDE DEF c
    <3> QED BY <1>0, <1>5, <3>2, ReadbackFrame DEF TargetRec
  <2>2. ~Queued(READY) /\ \A v \in Users : ~Suspending(v)
    BY <1>5, ReadbackFrame DEF HeardOk
  <2>3. ~Queued(READY)'
    BY <1>0, <1>5, <2>2, ReadbackFrame, RestoreOrdered DEF Queued
  <2>4. \A v \in Users : /\ ~Suspending(v)'
                         /\ user'[v] # [pc |-> "in", op |-> "suspend"]
    BY <1>5, <2>2, ReadbackFrame DEF Suspending
  <2>5. \A k \in DOMAIN txq' : txq'[k] # READY
    BY <2>3 DEF Queued, In
  <2> QED BY <2>1, <2>3, <2>4, <2>5 DEF HeardOk
<1>6. CASE StoreEvent
  <2>1. /\ target.phase = "store" /\ txq = <<>>
        /\ UNCHANGED <<user, txq>>
    BY <1>6, EventStep DEF StoreEvent, CanEvent, HeardOk
  <2>2. \A v \in Users : /\ ~Suspending(v)'
                         /\ user'[v] # [pc |-> "in", op |-> "suspend"]
    <3>1. \A v \in Users : ~Suspending(v)
      BY <2>1 DEF HeardOk
    <3> QED BY <2>1, <3>1 DEF Suspending
  <2>3. txq' = <<>> /\ ~Queued(READY)'
    BY <2>1 DEF Queued, In
  <2>4. CASE Strrcl_ChipDown("ACTIVE")
    <3>1. target'.phase = "off" /\ target'.heard = <<>>
          /\ strrcl'.state = "ACTIVE"
      BY <1>0, <2>4 DEF Strrcl_ChipDown, TargetRec
    <3> QED BY <2>2, <2>3, <3>1 DEF HeardOk
  <2>5. CASE Abort
    <3>1. target'.phase = "up" /\ target'.heard = target.heard
      BY <1>0, <2>5 DEF Abort, TargetRec
    <3> QED BY <2>2, <2>3, <3>1 DEF HeardOk
  <2>6. CASE UNCHANGED <<strrcl, target, drv>>
    BY <1>1, <2>1, <2>6
  <2> QED BY <1>6, <2>4, <2>5, <2>6, EventStep DEF StoreEvent
<1>7. CASE WmiReadyEvent
  <2>1. /\ target.phase = "boot" /\ target'.phase = "booted"
        /\ target'.heard = target.heard
        /\ strrcl'.state = strrcl.state /\ UNCHANGED <<txq, user>>
    BY <1>0, <1>7 DEF WmiReadyEvent, TargetRec
  <2>2. txq' = <<>> /\ target'.heard = <<>> /\ strrcl'.state # "ACTIVE_B"
    BY <2>1 DEF HeardOk
  <2>3. ~Queued(READY)' /\ \A v \in Users : ~Suspending(v)'
    <3>1. \A v \in Users : ~Suspending(v)
      BY <2>1 DEF HeardOk
    <3> QED BY <2>1, <2>2, <3>1 DEF Queued, In, Suspending
  <2> QED BY <2>1, <2>2, <2>3 DEF HeardOk, Hears, Silent
<1> QED BY <1>2, <1>3, <1>4, <1>5, <1>6, <1>7, UserHears, SendHears,
           FinishHears, Steps

-----------------------------------------------------------------------------
(***************************************************************************)
(* The power mode that is coming.                                          *)
(***************************************************************************)
\* The last command decides if it sets the mode.
LEMMA ModeLast ==
  ASSUME NEW q \in Seq(Commands), NEW mode, NEW m, Len(q) > 0,
         Sets(q[Len(q)], m)
  PROVE  ModeComing(q, mode, m)
<1>1. Len(q) \in Nat /\ Len(q) \in DOMAIN q
      /\ Len(q) + 1 .. Len(q) = {}
  OBVIOUS
<1> QED BY <1>1 DEF ModeComing

\* A command that sets no mode leaves the one that is coming.
LEMMA ModeAppend ==
  ASSUME NEW q \in Seq(Commands), NEW c \in Commands, NEW mode, NEW m,
         ~SetsMode(c), ModeComing(q, mode, m)
  PROVE  ModeComing(Append(q, c), mode, m)
<1> DEFINE r == Append(q, c)
<1>1. /\ Len(q) \in Nat /\ Len(r) = Len(q) + 1
      /\ r[Len(q) + 1] = c
      /\ DOMAIN r = 1 .. Len(q) + 1 /\ DOMAIN q = 1 .. Len(q)
      /\ \A k \in DOMAIN q : r[k] = q[k]
  OBVIOUS
<1> HIDE DEF r
<1>2. CASE mode = m /\ \A k \in DOMAIN q : ~SetsMode(q[k])
  <2>1. \A k \in DOMAIN r : k \in DOMAIN q \/ k = Len(q) + 1
    BY <1>1
  <2>2. \A k \in DOMAIN r : ~SetsMode(r[k])
    BY <1>1, <1>2, <2>1
  <2> QED BY <1>2, <2>2 DEF ModeComing, r
<1>3. CASE \E k \in DOMAIN q :
             /\ Sets(q[k], m)
             /\ \A j \in k + 1 .. Len(q) : ~SetsMode(q[j])
  <2>1. PICK k \in DOMAIN q :
             /\ Sets(q[k], m)
             /\ \A j \in k + 1 .. Len(q) : ~SetsMode(q[j])
    BY <1>3
  <2>2. k \in DOMAIN r /\ r[k] = q[k]
    BY <1>1
  <2>3. \A j \in k + 1 .. Len(r) :
          (j \in k + 1 .. Len(q) /\ j \in DOMAIN q) \/ j = Len(q) + 1
    BY <1>1
  <2>4. \A j \in k + 1 .. Len(r) : ~SetsMode(r[j])
    BY <1>1, <2>1, <2>3
  <2> QED BY <2>1, <2>2, <2>4 DEF ModeComing, r
<1> QED BY <1>2, <1>3 DEF ModeComing, r

\* A command that is carried out moves its mode from the queue to the target.
LEMMA ModeTail ==
  ASSUME NEW q \in Seq(Commands), q # <<>>, NEW mode, NEW new, NEW m,
         ModeComing(q, mode, m),
         \A n : Sets(Head(q), n) => new = n,
         ~SetsMode(Head(q)) => new = mode
  PROVE  ModeComing(Tail(q), new, m)
<1> DEFINE r == Tail(q)
<1>1. /\ Head(q) = q[1] /\ Len(q) \in Nat /\ Len(q) > 0
      /\ Len(r) = Len(q) - 1
      /\ DOMAIN r = 1 .. Len(q) - 1 /\ DOMAIN q = 1 .. Len(q)
      /\ \A k \in DOMAIN r : r[k] = q[k + 1]
  OBVIOUS
<1> HIDE DEF r
<1>2. ASSUME NEW k \in Nat,
             \A j \in k + 1 .. Len(q) : ~SetsMode(q[j])
      PROVE  \A j \in k .. Len(r) : j \in Nat /\ j > 0 => ~SetsMode(r[j])
  <2> SUFFICES ASSUME NEW j \in k .. Len(r), j > 0
               PROVE  ~SetsMode(r[j])
    OBVIOUS
  <2>1. j \in DOMAIN r /\ j + 1 \in k + 1 .. Len(q)
    BY <1>1
  <2> QED BY <1>1, <1>2, <2>1
<1>3. CASE mode = m /\ \A k \in DOMAIN q : ~SetsMode(q[k])
  <2>1. ~SetsMode(Head(q))
    BY <1>1, <1>3
  <2>2. \A k \in DOMAIN r : k + 1 \in DOMAIN q
    BY <1>1
  <2>3. \A k \in DOMAIN r : ~SetsMode(r[k])
    BY <1>1, <1>3, <2>2
  <2> QED BY <1>3, <2>1, <2>3 DEF ModeComing, r
<1>4. CASE \E k \in DOMAIN q :
             /\ Sets(q[k], m)
             /\ \A j \in k + 1 .. Len(q) : ~SetsMode(q[j])
  <2>1. PICK k \in DOMAIN q :
             /\ Sets(q[k], m)
             /\ \A j \in k + 1 .. Len(q) : ~SetsMode(q[j])
    BY <1>4
  <2>2. CASE k = 1
    <3>1. new = m
      BY <1>1, <2>1, <2>2
    <3>2. \A i \in DOMAIN r : i \in k .. Len(r) /\ i \in Nat /\ i > 0
      BY <1>1, <2>2
    <3>3. \A i \in DOMAIN r : ~SetsMode(r[i])
      BY <1>2, <2>1, <2>2, <3>2
    <3> QED BY <3>1, <3>3 DEF ModeComing, r
  <2>3. CASE k # 1
    <3>1. k - 1 \in DOMAIN r /\ r[k - 1] = q[k] /\ k \in Nat
          /\ (k - 1) + 1 = k
      BY <1>1, <2>3
    <3>2. \A j \in k .. Len(r) : j \in Nat /\ j > 0
      BY <1>1, <3>1
    <3>3. \A j \in k .. Len(r) : ~SetsMode(r[j])
      BY <1>2, <2>1, <3>1, <3>2
    <3> QED BY <2>1, <3>1, <3>3 DEF ModeComing, r
  <2> QED BY <2>2, <2>3
<1> QED BY <1>3, <1>4 DEF ModeComing, r

\* The mode that a command sets.
LEMMA SetsWhat ==
  /\ \A m, n \in Modes : Sets(POWER(m), n) <=> m = n
  /\ \A n : Sets(POWER("MAX"), n) <=> n = "MAX"
  /\ \A n : Sets(POWER("REC"), n) => n = "REC"
  /\ \A n : Sets(RECALL, n) <=> n = "MAX"
  /\ \A c \in {READY, INITSTACK, <<"command", "">>} :
       ~SetsMode(c) /\ \A n : ~Sets(c, n)
<1>1. \A m, n : POWER(m) = POWER(n) <=> m = n
  BY DEF POWER
<1>2. \A n : /\ READY # POWER(n) /\ INITSTACK # POWER(n)
             /\ <<"command", "">> # POWER(n) /\ RECALL # POWER(n)
  BY DEF POWER, READY, INITSTACK, RECALL
<1>3. READY # RECALL /\ INITSTACK # RECALL /\ <<"command", "">> # RECALL
  BY CommandsAre
<1> QED BY <1>1, <1>2, <1>3 DEF Sets, SetsMode

\* Nobody has begun to suspend when a task that suspends finds nothing.
LEMMA StartFacts ==
  ASSUME UserInv, HeardOk, Starting
  PROVE  target.phase = "up" /\ target.todo = {}
         /\ \E u \in Users : Suspending(u)
BY DEF UserInv, HeardOk, Starting, Suspending

\* What changes neither queue nor votes nor phase keeps PowerOk.
LEMMA SamePower ==
  ASSUME PowerOk, UNCHANGED <<txq, power>>, target'.phase = target.phase,
         target'.mode = target.mode, strrcl'.state = strrcl.state,
         Starting' <=> Starting
  PROVE  PowerOk'
<1>1. \A c : Queued(c)' <=> Queued(c)
  BY DEF Queued
<1>2. (Quiet' <=> Quiet) /\ (Restarting' <=> Restarting)
  BY <1>1 DEF Quiet, Restarting
<1> QED BY <1>1, <1>2 DEF PowerOk

(***************************************************************************)
(* A user task that is in finds no store and recall under way, so that its *)
(* command comes after what the last one restored; the first command of a  *)
(* suspend finds nothing on its way, the second one the first at most.     *)
(***************************************************************************)
LEMMA UserPowerStep ==
  ASSUME TypeOK, UserInv, Order, Blocked, HeardOk, PowerOk, Undisturbed,
         NEW u \in Users, UserAction(u)
  PROVE  PowerOk'
<1>0. /\ txq \in Seq(Commands) /\ UNCHANGED target /\ power \in PowerRec
      /\ \A v \in Users \ {u} : user'[v] = user[v]
      /\ strrcl \in [state : States, block : BOOLEAN, chipDown : BOOLEAN,
                     wmiReady : BOOLEAN]
      /\ \A v \in Users : user[v].pc # "idle" /\ user[u].pc # "idle" => u = v
      /\ Happens \cap {"no_buffer", "short_time"} = {}
  BY UserStep DEF TypeOK, UserInv, Undisturbed, PowerRec
<1>1. ASSUME user[u].pc # "start", user'[u].pc # "start"
      PROVE  Starting' <=> Starting
  BY <1>0, <1>1 DEF Starting
<1>2. ASSUME user[u].pc \notin {"idle", "start"} PROVE ~Starting
  BY <1>0, <1>2 DEF Starting
<1>3. ASSUME user[u].pc = "in"
      PROVE  ~Queued(READY) /\ target.phase # "store" /\ ~Restarting
             /\ (strrcl.state = "INIT" => Quiet)
  BY <1>2, <1>3 DEF Blocked, Out, Quiet
<1>4. \A c : \A ok \in BOOLEAN : wmi_cmd_start(c, ok) => txq' = Append(txq, c)
  BY <1>0 DEF wmi_cmd_start, MayFail
<1>5. ASSUME NEW op \in Operations, Enter(u, op) PROVE PowerOk'
  <2>1. UNCHANGED <<txq, power, strrcl>> /\ user[u].pc = "idle"
    BY <1>5 DEF Enter
  <2>2. user'[u].pc = "in"
    BY <1>5, <2>1, UserStep
  <2> QED BY <1>0, <1>1, <2>1, <2>2, SamePower
<1>6. ASSUME UNCHANGED <<strrcl, target>>, user[u].pc = "in",
             ~Queued(READY)', Restarting' => Restarting, ~Starting',
             strrcl.state = "INIT" =>
               power'.module = 0 /\ ModeComing(txq', target'.mode, power'.user)
      PROVE  PowerOk'
  BY <1>3, <1>6 DEF PowerOk, Quiet
<1>7. ASSUME NEW ok \in BOOLEAN, SuspendPower(u, ok) PROVE PowerOk'
  <2>1. user[u] = [pc |-> "in", op |-> "suspend"] /\ strrcl' = strrcl
        /\ move_power_state_to_maxperf(1, ok)
    BY <1>7 DEF SuspendPower
  <2>2. user[u].pc = "in"
    BY <2>1
  <2>3. txq = <<>>
    BY <2>1 DEF HeardOk
  <2>4. \/ power.module >= 1 /\ ok /\ txq' = txq /\ power' = power
        \/ /\ ~(power.module >= 1) /\ ok
           /\ power' = [power EXCEPT !.module = 1]
           /\ txq' = Append(txq, POWER("MAX")) /\ power.user = "REC"
        \/ /\ ~(power.module >= 1) /\ ok
           /\ power' = [power EXCEPT !.module = 1]
           /\ txq' = txq /\ power.user # "REC"
    <3>1. ok
      BY <1>0, <2>1 DEF move_power_state_to_maxperf, wmi_cmd_start, MayFail
    <3> QED BY <1>4, <2>1, <3>1 DEF move_power_state_to_maxperf, POWER
  <2>5. Step(u, "start", "suspend")
    BY <1>7, <2>4 DEF SuspendPower
  <2>6. user'[u].pc = "start"
    BY <2>5, StepType DEF Operations
  <2>7. Starting'
    BY <2>6 DEF Starting
  <2>8. txq' = <<>> \/ txq' = <<POWER("MAX")>>
    BY <2>3, <2>4
  <2>9. ~Queued(READY)'
    <3>1. POWER("MAX") # READY
      BY CommandsAre
    <3> QED BY <2>8, <3>1 DEF Queued, In
  <2>10. ~Queued(RECALL)
    BY <2>3 DEF Queued, In
  <2>11. ~Restarting'
    BY <1>0, <1>3, <2>2, <2>10 DEF Restarting
  <2>12. ASSUME strrcl.state = "INIT"
         PROVE  power'.module = 1 /\ FullComing(txq', target'.mode)
    <3>1. power.module = 0 /\ ModeComing(txq, target.mode, power.user)
      BY <1>3, <2>2, <2>12 DEF PowerOk
    <3>2. target.mode = power.user
      BY <2>3, <3>1 DEF ModeComing
    <3>3. power'.module = 1
      BY <1>0, <2>4, <3>1 DEF PowerRec
    <3>4. CASE power.user = "REC" /\ txq' = Append(txq, POWER("MAX"))
      BY <2>3, <3>3, <3>4 DEF FullComing
    <3>5. CASE power.user # "REC" /\ txq' = txq
      <4>1. power.user = "MAX"
        BY <1>0, <3>5 DEF PowerRec, Modes
      <4> QED BY <1>0, <2>3, <3>2, <3>3, <3>5, <4>1 DEF FullComing
    <3> QED BY <2>4, <3>1, <3>4, <3>5
  <2> QED BY <1>0, <1>3, <2>1, <2>2, <2>7, <2>9, <2>11, <2>12
          DEF PowerOk, Quiet
<1>8. ASSUME NEW ok \in BOOLEAN, SuspendStart(u, ok) PROVE PowerOk'
  <2>1. user[u] = [pc |-> "start", op |-> "suspend"]
    BY <1>8 DEF SuspendStart
  <2>2. Starting /\ user[u].pc = "start"
    BY <2>1 DEF Starting
  <2>3. target.phase = "up"
    BY <2>2, StartFacts
  <2>4. CASE /\ strrcl.state = "INIT" /\ txq' = Append(txq, READY)
             /\ user'[u] = [pc |-> "sent", op |-> "suspend"]
             /\ UNCHANGED power
    <3>1. power.module = 1 /\ FullComing(txq, target.mode)
      BY <2>2, <2>4 DEF PowerOk
    <3>2. \/ txq' = <<READY>> /\ target.mode = "MAX"
          \/ txq' = <<POWER("MAX"), READY>>
      <4>1. CASE txq = <<>> /\ target.mode = "MAX"
        BY <2>4, <4>1
      <4>2. CASE txq = <<POWER("MAX")>>
        <5>1. POWER("MAX") \in Commands /\ READY \in Commands
          BY CommandsAre
        <5> DEFINE q == <<POWER("MAX"), READY>>
        <5>2. q \in Seq(Commands) /\ Len(q) = 2 /\ q[1] = POWER("MAX")
              /\ q[2] = READY
          BY <5>1
        <5>3. txq' \in Seq(Commands) /\ Len(txq') = 2
              /\ txq'[1] = POWER("MAX") /\ txq'[2] = READY
          BY <2>4, <4>2, <5>1
        <5> HIDE DEF q
        <5>4. \A k \in 1 .. 2 : txq'[k] = q[k]
          BY <5>2, <5>3
        <5>5. txq' = q
          BY <5>2, <5>3, <5>4
        <5> QED BY <5>5 DEF q
      <4> QED BY <3>1, <4>1, <4>2 DEF FullComing
    <3>3. Queued(READY)'
      BY <1>0, <2>4, AppendIn, CommandsAre DEF Queued
    <3>4. ~Starting'
      BY <1>0, <2>2, <2>4 DEF Starting
    <3>5. ~Restarting'
      BY <1>0, <2>3 DEF Restarting
    <3> QED BY <1>0, <2>3, <2>4, <3>1, <3>2, <3>3, <3>4, <3>5
            DEF PowerOk, Quiet
  <2>5. CASE /\ strrcl.state # "INIT" /\ strrcl' = strrcl
             /\ UNCHANGED <<power, txq>>
    BY <1>0, <2>3, <2>5 DEF PowerOk, Quiet, Queued, Restarting
  <2> QED BY <1>0, <2>2, <2>4, <2>5, UserStep
<1>9. ASSUME SuspendSent(u) PROVE PowerOk'
  <2>1. strrcl'.state = "START" /\ UNCHANGED <<power, txq>>
    BY <1>0, <1>9 DEF SuspendSent
  <2> QED BY <1>0, <2>1 DEF PowerOk, Quiet, Queued, Restarting
<1>10. ASSUME NEW ok \in BOOLEAN, UserPower(u, ok) PROVE PowerOk'
  <2>0. Step(u, "idle", "idle")
    BY <1>10 DEF UserPower
  <2>1. user[u].pc = "in" /\ strrcl' = strrcl
    BY <1>10 DEF UserPower
  <2> DEFINE mode == IF user[u].op = "rec" THEN "REC" ELSE "MAX"
             votes == IF mode = "REC" THEN power.setting \ {u}
                      ELSE power.setting \cup {u}
             userMode == IF mode = "MAX" THEN "MAX"
                         ELSE IF votes = {} THEN "REC" ELSE power.user
  <2>2. /\ power' = [power EXCEPT !.setting = votes, !.user = userMode]
        /\ wmi_cmd_start(<<"power", userMode>>, ok)
    BY <1>10 DEF UserPower, Api_SetPowerMode
  <2>3. userMode \in Modes /\ power'.user = userMode
        /\ power'.module = power.module
    BY <1>0, <2>2 DEF PowerRec, Modes
  <2> HIDE DEF userMode
  <2>4. txq' = Append(txq, POWER(userMode))
    BY <1>4, <2>2 DEF POWER
  <2>5. /\ POWER(userMode) \in Commands /\ POWER(userMode) # READY
        /\ POWER(userMode) # RECALL
    BY <2>3, CommandsAre
  <2>6. ~Queued(READY)' /\ (Queued(RECALL)' <=> Queued(RECALL))
    BY <1>0, <1>3, <2>1, <2>4, <2>5, AppendIn DEF Queued
  <2>7. Restarting' => Restarting
    BY <1>0, <2>6 DEF Restarting
  <2>8. user'[u].pc = "idle"
    BY <2>0, StepType DEF Operations
  <2>9. ~Starting'
    BY <1>1, <1>2, <2>1, <2>8
  <2>10. ModeComing(txq', target'.mode, userMode)
    <3>1. txq' \in Seq(Commands) /\ Len(txq') > 0
          /\ txq'[Len(txq')] = POWER(userMode)
      BY <1>0, <2>4, <2>5
    <3>2. Sets(POWER(userMode), userMode)
      BY <2>3, SetsWhat
    <3> QED BY <3>1, <3>2, ModeLast
  <2>11. ModeComing(txq', target'.mode, power'.user)
    BY <2>3, <2>10
  <2>12. strrcl.state = "INIT" => power'.module = 0
    BY <1>3, <2>1, <2>3 DEF PowerOk
  <2> QED BY <1>0, <1>6, <2>1, <2>6, <2>7, <2>9, <2>11, <2>12
<1>11. ASSUME NEW ok \in BOOLEAN, UserCommand(u, ok) PROVE PowerOk'
  <2>0. Step(u, "idle", "idle")
    BY <1>11 DEF UserCommand
  <2>1. UNCHANGED <<strrcl, power>> /\ wmi_cmd_start(<<"command", "">>, ok)
    BY <1>11 DEF UserCommand
  <2>2. user[u].pc = "in"
    <3>1. user[u] = [pc |-> "in", op |-> "command"]
      BY <1>11 DEF UserCommand
    <3> QED BY <3>1
  <2> DEFINE c == <<"command", "">>
  <2>3. txq' = Append(txq, c)
    BY <1>4, <2>1
  <2>4. c \in Commands /\ c # READY /\ c # RECALL
    BY CommandsAre
  <2>5. ~SetsMode(c)
    BY SetsWhat
  <2> HIDE DEF c
  <2>6. ~Queued(READY)' /\ (Queued(RECALL)' <=> Queued(RECALL))
    BY <1>0, <1>3, <2>2, <2>3, <2>4, AppendIn DEF Queued
  <2>7. Restarting' => Restarting
    BY <1>0, <2>6 DEF Restarting
  <2>8. user'[u].pc = "idle"
    BY <2>0, StepType DEF Operations
  <2>9. ~Starting'
    BY <1>1, <1>2, <2>2, <2>8
  <2>10. ASSUME strrcl.state = "INIT"
         PROVE  power'.module = 0
                /\ ModeComing(txq', target'.mode, power'.user)
    <3>1. power.module = 0 /\ ModeComing(txq, target.mode, power.user)
      BY <1>3, <2>2, <2>10 DEF PowerOk
    <3>2. ModeComing(txq', target.mode, power.user)
      BY <1>0, <2>3, <2>4, <2>5, <3>1, ModeAppend
    <3> QED BY <1>0, <2>1, <3>1, <3>2
  <2> QED BY <1>0, <1>6, <2>1, <2>2, <2>6, <2>7, <2>9, <2>10
<1>12. CASE Api_TxGetStatus(u) \/ WaitOver(u)
  <2>1. UNCHANGED <<strrcl, power, txq>>
    BY <1>12 DEF Api_TxGetStatus, WaitOver
  <2>2. Step(u, "idle", "idle") \/ Step(u, "wait", "query")
    BY <1>12 DEF Api_TxGetStatus, WaitOver
  <2>3. user[u].pc \in {"in", "wait"}
    <3>1. \/ user[u] = [pc |-> "in", op |-> "query"]
          \/ user[u] = [pc |-> "wait", op |-> "query"]
      BY <1>12 DEF Api_TxGetStatus, WaitOver
    <3> QED BY <3>1
  <2>4. user'[u].pc \in {"idle", "wait"}
    BY <2>2, StepType DEF Operations
  <2> QED BY <1>0, <1>1, <2>1, <2>3, <2>4, SamePower
<1> QED BY <1>5, <1>7, <1>8, <1>9, <1>10, <1>11, <1>12 DEF UserAction

\* A command that goes out takes its mode to the target.
LEMMA SendPower ==
  ASSUME TypeOK, UserInv, TableSound, OneSuspender, Order, Blocked, HeardOk,
         PowerOk, SendCommand
  PROVE  PowerOk'
<1>0. /\ txq \in Seq(Commands) /\ txq # <<>> /\ txq' = Tail(txq)
      /\ target \in TargetRec /\ UNCHANGED <<strrcl, user, power>>
      /\ target.phase \in {"up", "store", "booted"}
  BY SendStep DEF TypeOK, TargetRec
<1>1. /\ Head(txq) = txq[1] /\ Len(txq) \in Nat /\ Len(txq) > 0
      /\ 1 \in DOMAIN txq
  BY <1>0
<1>2. target.phase # "store"
  BY <1>0 DEF HeardOk
<1>3. Starting' <=> Starting
  BY <1>0 DEF Starting
<1>4. READY \in Commands /\ POWER("MAX") \in Commands /\ POWER("MAX") # READY
      /\ POWER("MAX") # RECALL
  BY CommandsAre
<1>5. ASSUME txq = <<POWER("MAX")>>
      PROVE  Head(txq) = POWER("MAX") /\ txq' = <<>>
  BY <1>0, <1>4, <1>5
<1>6. ASSUME txq = <<POWER("MAX"), READY>>
      PROVE  Head(txq) = POWER("MAX") /\ txq' = <<READY>>
  <2>1. txq' \in Seq(Commands) /\ Len(txq') = 1 /\ txq'[1] = READY
        /\ Head(txq) = POWER("MAX")
    BY <1>0, <1>4, <1>6
  <2> DEFINE q == <<READY>>
  <2>2. q \in Seq(Commands) /\ Len(q) = 1 /\ q[1] = READY
    BY <1>4
  <2> HIDE DEF q
  <2>3. \A k \in 1 .. 1 : txq'[k] = q[k]
    BY <2>1, <2>2
  <2>4. txq' = q
    BY <2>1, <2>2, <2>3
  <2> QED BY <2>1, <2>4 DEF q
<1>7. ASSUME txq = <<READY>> PROVE Head(txq) = READY
  BY <1>7
<1>8. ASSUME NEW m, ModeComing(txq, target.mode, m),
             \A n : Sets(Head(txq), n) => target'.mode = n,
             ~SetsMode(Head(txq)) => target'.mode = target.mode
      PROVE  ModeComing(txq', target'.mode, m)
  BY <1>0, <1>8, ModeTail
<1>9. ASSUME Head(txq) \notin {READY, RECALL}, target'.phase = target.phase,
             Queued(READY)' <=> Queued(READY),
             Queued(RECALL)' <=> Queued(RECALL)
      PROVE  (Quiet' <=> Quiet) /\ (Restarting' <=> Restarting)
  BY <1>0, <1>3, <1>9 DEF Quiet, Restarting
<1>10. ASSUME Head(txq) \notin {READY, RECALL},
              target'.mode = target.mode, ~SetsMode(Head(txq))
       PROVE  PowerOk'
  <2>1. /\ target'.phase = target.phase
        /\ Queued(READY)' <=> Queued(READY)
        /\ Queued(RECALL)' <=> Queued(RECALL)
    BY <1>10, SendFacts
  <2>2. (Quiet' <=> Quiet) /\ (Restarting' <=> Restarting)
    BY <1>9, <1>10, <2>1
  <2>3. Head(txq) # POWER("MAX")
    <3>1. Sets(POWER("MAX"), "MAX") /\ "MAX" \in Modes
      BY SetsWhat DEF Modes
    <3> QED BY <1>10, <3>1 DEF SetsMode
  <2>4. ~FullComing(txq, target.mode)
    BY <1>0, <1>5, <2>3 DEF FullComing
  <2>5. ~Queued(READY)
    <3>1. txq # <<READY>>
      BY <1>7, <1>10
    <3>2. txq # <<POWER("MAX"), READY>>
      BY <1>6, <2>3
    <3> QED BY <3>1, <3>2 DEF PowerOk
  <2>6. \A n : ~Sets(Head(txq), n)
    <3>1. \A m \in Modes : Head(txq) # POWER(m)
      <4>1. \A m \in Modes : Sets(POWER(m), m)
        BY SetsWhat
      <4> QED BY <1>10, <4>1 DEF SetsMode
    <3>2. Head(txq) \in {READY, INITSTACK, <<"command", "">>}
      BY <1>10, <3>1, SendStep, CommandsAre
    <3> QED BY <3>2, SetsWhat
  <2>7. Quiet => ModeComing(txq', target'.mode, power'.user)
    BY <1>0, <1>8, <1>10, <2>6 DEF PowerOk
  <2> QED BY <1>0, <1>2, <1>3, <2>1, <2>2, <2>4, <2>5, <2>7 DEF PowerOk
<1>11. ASSUME NEW m \in Modes, Head(txq) = POWER(m), target'.mode = m
       PROVE  PowerOk'
  <2>0. Head(txq) \notin {READY, RECALL}
    BY <1>11, CommandsAre
  <2>1. /\ target'.phase = target.phase
        /\ Queued(READY)' <=> Queued(READY)
        /\ Queued(RECALL)' <=> Queued(RECALL)
    BY <2>0, SendFacts
  <2>2. (Quiet' <=> Quiet) /\ (Restarting' <=> Restarting)
    BY <1>9, <2>0, <2>1
  <2>3. Quiet => ModeComing(txq', target'.mode, power'.user)
    <3>1. \A n : Sets(POWER(m), n) => m = n
      BY DEF Sets, POWER, RECALL
    <3>2. SetsMode(POWER(m))
      BY SetsWhat DEF SetsMode
    <3> QED BY <1>0, <1>8, <1>11, <3>1, <3>2 DEF PowerOk
  <2>4. POWER(m) = POWER("MAX") => m = "MAX"
    BY DEF POWER
  <2>5. FullComing(txq, target.mode) => FullComing(txq', target'.mode)
    BY <1>0, <1>5, <1>11, <2>4 DEF FullComing
  <2>6. Queued(READY) => txq' = <<READY>> /\ target'.mode = "MAX"
    <3>1. txq # <<READY>>
      BY <1>7, <2>0
    <3> QED BY <1>6, <1>11, <2>4, <3>1 DEF PowerOk
  <2> QED BY <1>0, <1>2, <1>3, <2>1, <2>2, <2>3, <2>5, <2>6 DEF PowerOk
<1>12. CASE Head(txq) = READY
  <2>1. Queued(READY) /\ ~Queued(READY)' /\ target'.phase = "store"
    BY <1>0, <1>12, SendFacts, CommandsAre
  <2>2. power.module = 1 /\ target.mode = "MAX"
    <3>1. txq # <<POWER("MAX"), READY>>
      BY <1>4, <1>6, <1>12
    <3> QED BY <2>1, <3>1 DEF PowerOk
  <2>3. ~Starting'
    BY <1>3, <2>1 DEF Blocked, Out, Starting
  <2>4. ASSUME NEW new, NEW h,
               target' = [target EXCEPT !.heard = h,
                             !.phase = "store", !.ctx = new,
                             !.saved = new, !.todo = DSET_STORE_RECALL,
                             !.written = Nothing]
        PROVE  target'.mode = target.mode
    BY <1>0, <2>4 DEF TargetRec
  <2>5. target'.mode = target.mode
    BY <1>12, <2>4, CommandsAre, SendStep
  <2> QED BY <1>0, <2>1, <2>2, <2>3, <2>5 DEF PowerOk, Quiet
<1>13. CASE Head(txq) = RECALL
  <2>1. target.phase = "booted" /\ target'.phase = "up"
        /\ (Queued(READY)' <=> Queued(READY)) /\ Queued(RECALL)
    BY <1>0, <1>13, SendFacts, CommandsAre
  <2>2. ~Starting /\ ~Queued(READY)
    BY <2>1, StartFacts DEF HeardOk
  <2>3. ~Restarting /\ ~Restarting'
    BY <2>1 DEF Restarting
  <2>4. Quiet' => Quiet
    BY <1>0, <2>1, <2>2, <2>3 DEF Quiet
  <2>5. ASSUME NEW ids, NEW h,
               target' = [target EXCEPT !.heard = h, !.phase = "up",
                            !.mode = "MAX", !.todo = ids]
        PROVE  target'.mode = "MAX"
    BY <1>0, <2>5 DEF TargetRec
  <2>6. target'.mode = "MAX"
    BY <1>13, <2>5, CommandsAre, SendStep
  <2>7. Quiet => ModeComing(txq', target'.mode, power'.user)
    <3>1. \A n : Sets(RECALL, n) => n = "MAX"
      BY SetsWhat
    <3>2. SetsMode(RECALL)
      BY SetsWhat DEF SetsMode, Modes
    <3> QED BY <1>0, <1>8, <1>13, <2>6, <3>1, <3>2 DEF PowerOk
  <2> QED BY <1>0, <1>3, <2>1, <2>2, <2>3, <2>4, <2>7 DEF PowerOk
<1>14. CASE Head(txq) \in {INITSTACK, <<"command", "">>}
  <2>1. Head(txq) \notin {READY, RECALL} /\ ~SetsMode(Head(txq))
    BY <1>14, CommandsAre, SetsWhat
  <2>2. \A c : target' = [target EXCEPT !.heard = c]
                 => target'.mode = target.mode
    BY <1>0 DEF TargetRec
  <2>3. target'.mode = target.mode
    BY <1>14, <2>2, CommandsAre, SendStep
  <2> QED BY <1>10, <2>1, <2>3
<1>15. ASSUME NEW m \in Modes, NEW h,
              target' = [target EXCEPT !.heard = h, !.mode = m]
       PROVE  target'.mode = m
  BY <1>0, <1>15 DEF TargetRec
<1> QED BY <1>11, <1>12, <1>13, <1>14, <1>15, SendStep

\* The restore comes after the recall, which turns full performance on.
LEMMA FinishPower ==
  ASSUME TypeOK, UserInv, Order, HeardOk, PowerOk, Undisturbed, Finish
  PROVE  PowerOk'
<1>1. PICK stack \in BOOLEAN, recall \in BOOLEAN, restore \in BOOLEAN :
        Strrcl_ChipUpFinish(stack, recall, restore)
  BY DEF Finish
<1>0. /\ txq \in Seq(Commands) /\ power \in PowerRec
      /\ UNCHANGED <<target, user>> /\ FinishQueue \in Seq(Commands)
      /\ stack /\ recall /\ restore
  BY <1>1, FinishStep DEF TypeOK, PowerRec, Undisturbed
<1>2. target.phase = "booted" /\ ~Queued(RECALL) /\ ~Queued(READY)
      /\ ~Queued(READY)' /\ strrcl.state # "INIT"
  BY FinishFacts
<1>3. ~Starting /\ ~Starting'
  <2>1. ~Starting
    BY <1>2, StartFacts
  <2> QED BY <1>0, <2>1 DEF Starting
<1>4. power.module = 1
  BY <1>2 DEF PowerOk, Restarting
<1>5. CASE UNCHANGED <<strrcl, power, txq>>
  BY <1>0, <1>3, <1>5, SamePower
<1>6. CASE LET r == RestorePower(power, Append(FinishQueue, RECALL), 1,
                                 restore)
           IN power' = r.power /\ txq' = r.txq
  <2> DEFINE q == Append(FinishQueue, RECALL)
  <2>1. q \in Seq(Commands) /\ Len(q) > 0 /\ q[Len(q)] = RECALL
    <3>1. RECALL \in Commands
      BY CommandsAre
    <3> QED BY <1>0, <3>1
  <2>2. power' = RestorePower(power, q, 1, restore).power
        /\ txq' = RestorePower(power, q, 1, restore).txq
    BY <1>6
  <2> HIDE DEF q
  <2>3. /\ power' = [power EXCEPT !.module = 0]
        /\ txq' = IF power.user # "MAX" THEN Append(q, POWER(power.user))
                  ELSE q
    BY <1>0, <1>4, <2>2 DEF RestorePower, POWER
  <2>4. power'.module = 0 /\ power'.user = power.user
        /\ power.user \in Modes
    BY <1>0, <2>3 DEF PowerRec
  <2>5. In(q, RECALL)
    <3>1. Len(q) \in DOMAIN q
      BY <2>1
    <3> QED BY <2>1, <3>1 DEF In
  <2>6. Queued(RECALL)'
    <3>1. POWER(power.user) \in Commands
      BY <2>4, CommandsAre
    <3> QED BY <2>1, <2>3, <2>5, <3>1, AppendIn DEF Queued
  <2>7. ~Restarting'
    BY <1>0, <1>2, <2>6 DEF Restarting
  <2>8. ModeComing(txq', target'.mode, power.user)
    <3>1. CASE power.user = "MAX"
      <4>1. txq' = q /\ Sets(RECALL, "MAX")
        BY <2>3, <3>1, SetsWhat
      <4> QED BY <2>1, <3>1, <4>1, ModeLast
    <3>2. CASE power.user # "MAX"
      <4>1. /\ POWER(power.user) \in Commands
            /\ Sets(POWER(power.user), power.user)
        BY <2>4, CommandsAre, SetsWhat
      <4>2. txq' \in Seq(Commands) /\ Len(txq') > 0
            /\ txq'[Len(txq')] = POWER(power.user)
        BY <2>1, <2>3, <3>2, <4>1
      <4> QED BY <4>1, <4>2, ModeLast
    <3> QED BY <3>1, <3>2
  <2> QED BY <1>0, <1>2, <1>3, <2>4, <2>7, <2>8 DEF PowerOk
<1> QED BY <1>0, <1>1, <1>5, <1>6, FinishStep

(***************************************************************************)
(* The votes for full performance are one from SuspendPower until the      *)
(* restore, which comes once: nothing fails, and nobody comes between.     *)
(***************************************************************************)
LEMMA PowerStep ==
  ASSUME TypeOK, UserInv, TableSound, ContextInv, OrderInv, BlockInv,
         HeardInv, PowerInv, [Next]_vars
  PROVE  PowerInv'
<1> SUFFICES ASSUME Undisturbed, OneSuspender, Order, Blocked, HeardOk, PowerOk
             PROVE  PowerOk'
  <2>1. Undisturbed => /\ "interleave" \notin Happens
                       /\ Happens \cap {"resuspend", "interleave"} = {}
    BY DEF Undisturbed
  <2> QED BY <2>1, SameSetting, OneUnlessInterrupted
          DEF PowerInv, HeardInv, OrderInv, BlockInv
<1>0. /\ txq \in Seq(Commands) /\ target \in TargetRec /\ power \in PowerRec
      /\ strrcl \in [state : States, block : BOOLEAN, chipDown : BOOLEAN,
                     wmiReady : BOOLEAN]
      /\ "no_buffer" \notin Happens /\ "abort" \notin Happens
  BY DEF TypeOK, TargetRec, PowerRec, Undisturbed
<1>1. CASE Idle /\ (UNCHANGED vars \/ RunQuery)
  <2>1. Starting' <=> Starting
    <3>1. CASE UNCHANGED vars
      BY <3>1 DEF Starting, vars
    <3>2. CASE RunQuery
      <4>1. \A v \in Users :
              user'[v] = IF user[v].pc = "wait"
                         THEN [pc |-> "idle", op |-> "idle"] ELSE user[v]
        BY <3>2 DEF RunQuery
      <4>2. \A v \in Users : user'[v].pc = "start" <=> user[v].pc = "start"
        BY <4>1
      <4> QED BY <4>2 DEF Starting
    <3> QED BY <1>1, <3>1, <3>2
  <2> QED BY <1>1, <2>1, SamePower DEF Idle
<1>2. CASE ChipUp
  <2>1. target.phase = "off" /\ UNCHANGED <<strrcl, user, txq, power>>
    BY <1>2, ChipUpFrame DEF ContextInv
  <2>2. target'.phase \in {"off", "boot"}
    BY <1>0, <1>2, ChipUpFrame DEF TargetRec
  <2>3. ~Queued(READY) /\ ~Starting /\ power.module = 1
    BY <2>1, StartFacts DEF HeardOk, PowerOk, Restarting
  <2>4. ~Queued(READY)' /\ ~Starting' /\ Restarting'
    BY <2>1, <2>2, <2>3 DEF Queued, Starting, Restarting
  <2> QED BY <2>1, <2>2, <2>3, <2>4 DEF PowerOk, Quiet
<1>3. CASE TableEvent
  <2>1. target'.phase = target.phase /\ target'.mode = target.mode
    <3>1. PICK id \in DSET_STORE_RECALL, ok \in BOOLEAN :
                 \/ Api_HostDsetCreateEvent(id, ok)
                 \/ Api_HostDsetWriteEvent(id, ok)
      BY <1>3 DEF TableEvent
    <3>2. \/ target' = target
          \/ \E n, s : target' = [target EXCEPT !.written[id] = n, !.todo = s]
      BY <3>1, TableStep
    <3> QED BY <1>0, <3>2 DEF TargetRec
  <2>2. UNCHANGED <<strrcl, power, txq, user>>
    BY <1>3, TableFrame
  <2> QED BY <2>1, <2>2, SamePower DEF Starting
<1>4. CASE ReadbackEvent
  <2>1. target'.phase = "up" /\ target'.mode = target.mode
    <3>1. PICK id \in DSET_STORE_RECALL, ok \in BOOLEAN,
               extra \in {0, Header} : Api_HostDsetReadbackEvent(id, extra, ok)
      BY <1>4 DEF ReadbackEvent
    <3> DEFINE c == target'.ctx[id]
    <3>2. target' = [target EXCEPT !.todo = @ \ {id}, !.ctx[id] = c]
      BY <3>1, ReadbackStep
    <3> HIDE DEF c
    <3> QED BY <1>0, <1>4, <3>2, ReadbackFrame DEF TargetRec
  <2>2. /\ target.phase = "up" /\ target.todo # {} /\ strrcl' = strrcl
        /\ user' = user
        /\ \E ok \in BOOLEAN :
             /\ power' = RestorePower(power, txq, 1, ok).power
             /\ txq' = RestorePower(power, txq, 1, ok).txq
    BY <1>4, ReadbackFrame
  <2>3. ~Queued(READY) /\ ~Starting
    BY <2>2, StartFacts DEF HeardOk
  <2>4. ~Queued(READY)'
    BY <1>0, <1>4, <2>3, ReadbackFrame, RestoreOrdered DEF Queued, Order
  <2>5. ~Starting' /\ ~Restarting /\ ~Restarting'
    BY <2>1, <2>2, <2>3 DEF Starting, Restarting
  <2>6. CASE strrcl.state = "INIT"
    <3>1. power.module = 0
      BY <2>2, <2>3, <2>5, <2>6 DEF Quiet, PowerOk
    <3>2. UNCHANGED <<power, txq>>
      BY <2>2, <3>1 DEF RestorePower
    <3> QED BY <2>1, <2>2, <2>3, <2>5, <3>2, SamePower
  <2>7. CASE strrcl.state # "INIT"
    BY <2>1, <2>2, <2>4, <2>5, <2>7 DEF PowerOk, Quiet
  <2> QED BY <2>6, <2>7
<1>5. CASE StoreEvent
  <2>1. target.phase = "store" /\ UNCHANGED <<user, txq, power>>
    BY <1>5, EventStep DEF StoreEvent, CanEvent
  <2>2. CASE Strrcl_ChipDown("ACTIVE")
    <3>1. target'.phase = "off" /\ strrcl'.state = "ACTIVE"
      BY <1>0, <2>2 DEF Strrcl_ChipDown, TargetRec
    <3>2. txq' = <<>> /\ power'.module = 1
      BY <2>1 DEF HeardOk, PowerOk
    <3>3. ~Queued(READY)'
      BY <3>2 DEF Queued, In
    <3> QED BY <3>1, <3>2, <3>3 DEF PowerOk, Quiet
  <2>3. CASE UNCHANGED <<strrcl, target, drv>>
    BY <2>1, <2>3, SamePower DEF Starting
  <2> QED BY <1>0, <1>5, <2>2, <2>3, EventStep DEF StoreEvent
<1>6. CASE WmiReadyEvent
  <2>1. /\ target.phase = "boot" /\ target'.phase = "booted"
        /\ strrcl'.state = strrcl.state /\ UNCHANGED <<txq, user, power>>
    BY <1>0, <1>6 DEF WmiReadyEvent, TargetRec
  <2>2. txq' = <<>> /\ power'.module = 1 /\ ~Starting
    BY <2>1, StartFacts DEF HeardOk, PowerOk, Restarting
  <2>3. ~Queued(READY)' /\ Restarting' /\ ~Starting'
    BY <2>1, <2>2 DEF Queued, In, Restarting, Starting
  <2> QED BY <2>1, <2>2, <2>3 DEF PowerOk, Quiet
<1> QED BY <1>1, <1>2, <1>3, <1>4, <1>5, <1>6, UserPowerStep, SendPower,
           FinishPower, Steps

-----------------------------------------------------------------------------
(***************************************************************************)
(* The inductive invariant holds at first and with every step.             *)
(***************************************************************************)
LEMMA InitTypes == ASSUME Init PROVE TypeOK /\ CycleInv
<1>0. /\ setting \in Settings /\ setting.faults \in Nat
      /\ MaxCycles \in Nat /\ IsFiniteSet(Users)
  BY RunAssumption DEF Init
<1>1. Cardinality(Users) \in Nat
  BY <1>0, FS_CardinalityType
<1>2. hd \in Table
  <2>1. <<>> \in Seq(Words) /\ NoData \in Seq(Words)
    BY DsetAssumption DEF NoData
  <2> QED BY <2>1 DEF Init, EmptyTable, Table, SlotRec
<1>3. Blank \in [DSET_STORE_RECALL -> Seq(Words)]
      /\ Nothing \in [DSET_STORE_RECALL -> Nat]
  BY DEF Blank, Nothing
<1>4. /\ txq \in Seq(Commands)
      /\ <<>> \in Seq({c[1] : c \in Commands})
  BY DEF Init
<1>5. target \in TargetRec
  <2>1. "REC" \in Modes
    BY DEF Modes
  <2> HIDE DEF Blank, Nothing
  <2> QED BY <1>3, <1>4, <2>1 DEF Init, TargetRec
<1>6. power \in PowerRec
  BY DEF Init, PowerRec, Modes
<1>7. cycles \in 0 .. MaxCycles + Cardinality(Users)
      /\ faults \in 0 .. setting.faults
  BY <1>0, <1>1 DEF Init
<1>8. user \in [Users -> [pc : {"idle", "in", "start", "sent", "wait"},
                         op : Operations \cup {"idle"}]]
  BY DEF Init
<1>9. strrcl \in [state : States, block : BOOLEAN, chipDown : BOOLEAN,
                  wmiReady : BOOLEAN]
  BY DEF Init, States
<1>10. CycleInv
  <2>1. {u \in Users : /\ user[u].pc \in {"in", "start"}
                       /\ user[u].op = "suspend"} = {}
    BY DEF Init
  <2>2. cycles = 0 /\ Cardinality({}) = 0
    BY FS_EmptySet DEF Init
  <2>3. Cardinality({u \in Users : /\ user[u].pc \in {"in", "start"}
                                    /\ user[u].op = "suspend"}) = 0
    BY <2>1, <2>2
  <2>4. 0 <= MaxCycles + Cardinality(Users)
    BY <1>0, <1>1
  <2> QED BY <2>2, <2>3, <2>4 DEF CycleInv
<1>11. asynchRequest \in {"NULL", "query", "finish"} /\ drv \in {"run", "down"}
       /\ asserted \in BOOLEAN
  BY DEF Init
<1> QED BY <1>2, <1>4, <1>5, <1>6, <1>7, <1>8, <1>9, <1>10, <1>11
        DEF TypeOK, Table, SlotRec, TargetRec, PowerRec

\* Nothing is under way at first.
LEMMA InitIInv == Init => IInv
<1> SUFFICES ASSUME Init PROVE IInv
  OBVIOUS
<1>0. /\ txq = <<>> /\ \A c : ~Queued(c)
      /\ \A u \in Users : user[u].pc = "idle" /\ user[u].op = "idle"
      /\ target.phase = "up" /\ target.mode = "REC" /\ target.todo = {}
      /\ target.ctx = target.saved /\ target.heard = <<>>
      /\ strrcl.state = "INIT" /\ ~strrcl.block /\ asynchRequest = "NULL"
      /\ drv = "run" /\ ~asserted
      /\ power.user = "REC" /\ power.setting = {} /\ power.module = 0
  BY DEF Init, Queued, In
<1>1. UserInv
  BY <1>0 DEF UserInv, Init
<1>2. TableSound
  <2>1. \A i \in Slots : hd.slot[i].dset_id = 0 /\ hd.slot[i].data = NoData
    BY DEF Init, EmptyTable
  <2>2. hd.blocks = 0 /\ Cardinality({}) = 0
    BY FS_EmptySet DEF Init, EmptyTable
  <2>3. {i \in Slots : hd.slot[i].data # NoData} = {}
    BY <2>1
  <2> QED BY <2>1, <2>2, <2>3 DEF TableSound
<1>3. PowerVotes
  BY <1>0 DEF PowerVotes
<1>4. ContextInv /\ ReadbackInv
  BY <1>0 DEF ContextInv, ReadbackInv
<1>5. ~Restarting /\ ~Sent /\ ~Starting /\ \A u \in Users : ~Suspending(u)
  BY <1>0 DEF Restarting, Sent, Starting, Suspending
<1>6. OrderInv
  BY <1>0, <1>5 DEF OrderInv, Order, Ordered
<1>7. FinishInv /\ BlockInv
  BY <1>0, <1>5 DEF FinishInv, FinishOk, BlockInv, Blocked
<1>8. HeardInv
  <2>1. \A u \in Users : user[u] # [pc |-> "in", op |-> "suspend"]
    BY <1>0
  <2> QED BY <1>0, <1>5, <2>1 DEF HeardInv, HeardOk
<1>9. PowerInv
  BY <1>0, <1>5 DEF PowerInv, PowerOk, Quiet, ModeComing
<1> QED BY <1>1, <1>2, <1>3, <1>4, <1>6, <1>7, <1>8, <1>9, InitTypes DEF IInv

\* Each part is kept, by its lemma.
LEMMA StepIInv == IInv /\ [Next]_vars => IInv'
<1> SUFFICES ASSUME IInv, [Next]_vars PROVE IInv'
  OBVIOUS
<1>1. /\ TypeOK /\ UserInv /\ CycleInv /\ TableSound /\ PowerVotes
      /\ ContextInv /\ ReadbackInv /\ OrderInv /\ FinishInv /\ BlockInv
      /\ HeardInv /\ PowerInv
  BY DEF IInv
<1>2. TypeOK' /\ UserInv' /\ CycleInv' /\ TableSound' /\ PowerVotes'
  BY <1>1, TypeStep, UserInvStep, CycleStep, TableSoundStep, PowerVotesStep
<1>3. ContextInv' /\ ReadbackInv' /\ OrderInv' /\ FinishInv' /\ BlockInv'
  BY <1>1, ContextStep, ReadbackInvStep, OrderStep, FinishInvStep, BlockStep
<1>4. HeardInv' /\ PowerInv'
  BY <1>1, HeardStep, PowerStep
<1> QED BY <1>2, <1>3, <1>4 DEF IInv

(***************************************************************************)
(* IInv is an invariant: the table, the users, the queue, the target and   *)
(* the votes stay in step through every store and recall.                  *)
(***************************************************************************)
THEOREM InvariantHolds == Spec => []IInv
BY InitIInv, StepIInv, PTL DEF Spec

(***************************************************************************)
(* The target's context survives a suspend (ContextKept): Strrcl_Recall's  *)
(* list and the answer to a sync name all of it, and what is read back in  *)
(* pieces is what was stored, for any number, size and order of data sets, *)
(* each written in one event.                                              *)
(***************************************************************************)
THEOREM ContextIsKept == Spec => []ContextKept
<1>1. ASSUME IInv PROVE ContextKept
  <2>1. TypeOK /\ TableSound /\ ContextInv /\ ReadbackInv
    BY <1>1 DEF IInv
  <2>2. ContextRestored
    <3> SUFFICES ASSUME OneSuspender, Whole,
                        target.phase = "up", target.todo = {}
                 PROVE  target.ctx = target.saved
      BY DEF ContextRestored, Whole
    <3>1. \A id \in DSET_STORE_RECALL : target.ctx[id] = target.saved[id]
      BY <2>1 DEF ReadbackInv
    <3>2. target.ctx \in [DSET_STORE_RECALL -> Seq(Words)]
          /\ target.saved \in [DSET_STORE_RECALL -> Seq(Words)]
      BY <2>1 DEF TypeOK
    <3> QED BY <3>1, <3>2
  <2>3. ContextListed
    <3> SUFFICES ASSUME Whole, target.phase \in {"off", "boot", "booted"},
                        NEW list \in {setup_host_dset(hd),
                                      Api_HostDsetSyncEvent(MAX_DSET_SIZE)}
                 PROVE  /\ Len(list) = Cardinality(DSET_STORE_RECALL)
                        /\ {list[k] : k \in DOMAIN list}
                             = {[dset_id |-> id,
                                 length |-> Header + Len(target.saved[id])]
                                  : id \in DSET_STORE_RECALL}
      BY DEF ContextListed, Whole
    <3>1. hd \in Table /\ Sound(hd)
      BY <2>1, TableType
    <3>2. target.saved \in [DSET_STORE_RECALL -> Seq(Words)]
      BY <2>1 DEF TypeOK
    <3>3. \A id \in DSET_STORE_RECALL :
            Holds(hd, id, <<"header">> \o target.saved[id])
      BY <2>1 DEF ContextInv, Stored
    <3>4. ~(MAX_DSET_SIZE < MAX_DSET_SIZE)
      BY DsetAssumption
    <3>5. Api_HostDsetSyncEvent(MAX_DSET_SIZE) = dset_fill(hd, MAX_DSET_SIZE)
      BY <3>4 DEF Api_HostDsetSyncEvent
    <3>6. Lists(list, hd, Used(hd, 1))
      BY <3>1, <3>5, RecallListsAll, SyncListsAll DEF setup_host_dset
    <3> QED BY <3>1, <3>2, <3>3, <3>6, ContextIsListed
  <2> QED BY <2>1, <2>2, <2>3 DEF ContextKept
<1> QED BY <1>1, InvariantHolds, PTL

(***************************************************************************)
(* Store and recall happens in its order (RecallOrdered): users are out    *)
(* while it lasts, the recall is the first command but SOCK_STACK_INIT,    *)
(* and the A_ASSERT of Strrcl_ChipUpFinish is not reached.                 *)
(***************************************************************************)
THEOREM RecallIsOrdered == Spec => []RecallOrdered
<1>1. ASSUME IInv PROVE RecallOrdered
  <2>1. HeardInv /\ BlockInv /\ FinishInv
    BY <1>1 DEF IInv
  <2>2. RecallFirst
    BY <2>1 DEF RecallFirst, HeardInv, HeardOk
  <2>3. UsersKeptOut
    BY <2>1 DEF UsersKeptOut, BlockInv, Blocked, Out
  <2>4. FinishExpected
    BY <2>1 DEF FinishExpected, FinishInv, FinishOk
  <2> QED BY <2>2, <2>3, <2>4 DEF RecallOrdered
<1> QED BY <1>1, InvariantHolds, PTL

(***************************************************************************)
(* The power mode is the one asked for, full while the target stores       *)
(* (PowerRight), for any number of modules that vote and of suspends.      *)
(***************************************************************************)
THEOREM PowerIsRight == Spec => []PowerRight
<1>1. ASSUME IInv PROVE PowerRight
  <2>1. PowerInv /\ BlockInv /\ PowerVotes /\ TypeOK
    BY <1>1 DEF IInv
  <2>2. StoreAtFullPower
    BY <2>1 DEF StoreAtFullPower, PowerInv, PowerOk
  <2>3. PowerAsAsked
    <3> SUFFICES ASSUME Undisturbed, strrcl.state = "INIT", ~strrcl.block,
                        txq = <<>>, \A u \in Users : user[u].pc # "start"
                 PROVE  target.mode = power.user
      BY DEF PowerAsAsked
    <3>1. PowerOk /\ Blocked
      BY <2>1 DEF PowerInv, BlockInv, Undisturbed
    <3>2. Quiet
      BY <3>1 DEF Quiet, Blocked, Starting
    <3>3. ModeComing(txq, target.mode, power.user)
      BY <3>1, <3>2 DEF PowerOk
    <3>4. DOMAIN txq = {}
      OBVIOUS
    <3> QED BY <3>3, <3>4 DEF ModeComing
  <2> QED BY <2>1, <2>2, <2>3 DEF PowerRight
<1> QED BY <1>1, InvariantHolds, PTL

(***************************************************************************)
(* A request placed for the driver task is not replaced by the one that    *)
(* finishes a recall (QueryNotLost): whoever places it keeps the others    *)
(* out until it has run, and is himself out while the chip is down.        *)
(***************************************************************************)
THEOREM QueriesAreKept == Spec => QueryNotLost
<1>1. ASSUME IInv, [Next]_vars, asynchRequest = "query",
             "interleave" \notin Happens
      PROVE  asynchRequest' \in {"query", "NULL"}
  <2>0. TypeOK /\ UserInv /\ ContextInv /\ Blocked
    BY <1>1 DEF IInv, BlockInv
  <2>1. drv # "down"
    BY <1>1, <2>0 DEF ContextInv, Blocked, Restarting
  <2>2. ASSUME NEW u \in Users, UserAction(u)
        PROVE  asynchRequest' \in {"query", "NULL"}
    BY <1>1, <2>0, <2>2, UserStep
  <2>3. ~Finish
    BY <1>1, <2>0, FinishStep DEF Finish
  <2>4. ~ChipUp
    BY <2>1, ChipUpFrame
  <2>5. SendCommand \/ TableEvent \/ ReadbackEvent \/ StoreEvent
          \/ WmiReadyEvent => asynchRequest' = asynchRequest
    BY <2>0, TableFrame, ReadbackFrame, EventStep
       DEF SendCommand, StoreEvent, WmiReadyEvent
  <2>6. Idle => asynchRequest' \in {"query", "NULL"}
    BY <1>1 DEF Idle
  <2> QED BY <1>1, <2>2, <2>3, <2>4, <2>5, <2>6, Steps
<1>2. IInv /\ [Next]_vars
        => [asynchRequest = "query" /\ "interleave" \notin Happens
              => asynchRequest' \in {"query", "NULL"}]_vars
  BY <1>1
<1> QED BY <1>2, InvariantHolds, PTL DEF Spec, QueryNotLost
=============================================================================
