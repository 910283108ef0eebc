------------------------------ MODULE HostDset ------------------------------
(***************************************************************************)
(* The host's table of data sets (common_src/storerecall/dset.c): data     *)
(* that the target keeps in the host's memory, above all its own context   *)
(* while it is switched off by a store and recall.                         *)
(*                                                                         *)
(* A table is [slot |-> host_dsets, blocks |-> allocated blocks of data].  *)
(* A slot's data is its data_ptr, a sequence of words whose length is the  *)
(* slot's length; a slot whose data_ptr is NULL has NoData.  The operators *)
(* are the functions of dset.c on tables; loops over the slots are folds   *)
(* or recursive functions.                                                 *)
(***************************************************************************)
EXTENDS Integers, Sequences, FiniteSets

CONSTANTS
  MAX_DSET_SIZE,      \* slots
  DSET_STORE_RECALL,  \* ids DSET_STORE_RECALL_START .. DSET_STORE_RECALL_END
  MAX_EVENT_SIZE,     \* words of data in one message
  Words,              \* the words data is made of
  Junk                \* a word nobody wrote

NoData == <<"NULL">>
Header == 1           \* sizeof(WMI_STORERECALL_RECALL_DSET) in words

ASSUME DsetAssumption ==
          /\ MAX_DSET_SIZE \in Nat \ {0}
          /\ MAX_EVENT_SIZE \in Nat \ {0}
          /\ DSET_STORE_RECALL \subseteq Nat \ {0}
          /\ IsFiniteSet(DSET_STORE_RECALL)
          /\ {Junk, "NULL", "header"} \subseteq Words
          /\ Junk \notin {"NULL", "header"}

IS_STRRCL_DSET(id) == id \in DSET_STORE_RECALL

Slots == 1 .. MAX_DSET_SIZE

EmptyTable ==
  [slot |-> [i \in Slots |-> [dset_id |-> 0, data |-> NoData]], blocks |-> 0]

First(S) == CHOOSE i \in S : \A j \in S : i <= j

\* The slot of a data set, 0 when it has none.
dset_find(t, id) ==
  LET S == {i \in Slots : t.slot[i].dset_id = id}
  IN IF S = {} THEN 0 ELSE First(S)

Free(t, i) ==
  IF t.slot[i].data = NoData THEN t
  ELSE [t EXCEPT !.slot[i].data = NoData, !.blocks = @ - 1]

\* The table with a new data set, and its slot: 0 when none is free.
dset_insert(t, id) ==
  LET i == dset_find(t, 0)
  IN IF i = 0 THEN [table |-> t, at |-> 0]
     ELSE [table |-> Free([t EXCEPT !.slot[i].dset_id = id], i), at |-> i]

(***************************************************************************)
(* dset_get finds or inserts a data set, frees what it holds and allocates *)
(* length words.  mem says whether A_MALLOC succeeds.                      *)
(***************************************************************************)
dset_get(t, id, length, mem) ==
  LET found == IF dset_find(t, id) # 0
               THEN [table |-> t, at |-> dset_find(t, id)]
               ELSE dset_insert(t, id)
      freed == Free(found.table, found.at)
  IN IF found.at = 0 THEN found
     ELSE IF ~mem
     THEN [table |-> [freed EXCEPT !.slot[found.at].dset_id = 0], at |-> 0]
     ELSE [table |-> [freed EXCEPT
                        !.slot[found.at].data = [k \in 1 .. length |-> Junk],
                        !.blocks = @ + 1],
           at |-> found.at]

\* How many words an access of length words at offset may touch.
Clip(t, i, offset, length) ==
  LET size == Len(t.slot[i].data)
  IN IF offset + length > size THEN size - offset ELSE length

dset_write(t, i, data, offset) ==
  [t EXCEPT !.slot[i].data =
     [k \in DOMAIN @ |->
        IF k \in offset + 1 .. offset + Clip(t, i, offset, Len(data))
        THEN data[k - offset] ELSE @[k]]]

\* The words of a buffer of length words that dset_read fills from offset on.
dset_read(t, i, offset, length) ==
  [k \in 1 .. length |-> IF k <= Clip(t, i, offset, length)
                         THEN t.slot[i].data[offset + k] ELSE Junk]

Item(s) == [dset_id |-> s.dset_id, length |-> Len(s.data)]

\* The first max_dset_count data sets in use.
dset_fill(t, max_dset_count) ==
  LET upTo[i \in 0 .. MAX_DSET_SIZE] ==
        IF i = 0 THEN <<>>
        ELSE IF t.slot[i].dset_id # 0 /\ Len(upTo[i - 1]) < max_dset_count
        THEN Append(upTo[i - 1], Item(t.slot[i])) ELSE upTo[i - 1]
  IN upTo[MAX_DSET_SIZE]

\* The slot in use at or after next_dset_ndx (counted from 0), 0 for none.
dset_get_next(t, next_dset_ndx) ==
  LET S == {i \in Slots : i > next_dset_ndx /\ t.slot[i].dset_id # 0}
  IN IF S = {} THEN 0 ELSE First(S)

dset_get_first(t) == dset_get_next(t, 0)

(***************************************************************************)
(* The list of the context's data sets that goes with the recall command,  *)
(* built in tempStorage (wmi.c, called by setup_host_dset of               *)
(* driver_main.c).                                                         *)
(***************************************************************************)
wmi_dset_host_cfg_cmd(t) ==
  LET from[i \in 0 .. MAX_DSET_SIZE] ==
        IF i = 0 THEN <<>>
        ELSE (IF IS_STRRCL_DSET(t.slot[i].dset_id)
              THEN <<Item(t.slot[i])>> ELSE <<>>)
             \o from[dset_get_next(t, i)]
  IN from[dset_get_first(t)]

setup_host_dset(t) == wmi_dset_host_cfg_cmd(t)

MUT_ReadbackMessages(t, id, offset, length) ==
  LET i == dset_find(t, id)
      len == Clip(t, i, offset, length)
      from[o \in 0 .. len] ==
        IF o = len THEN <<>>
        ELSE LET size == IF len - o > MAX_EVENT_SIZE
                         THEN MAX_EVENT_SIZE ELSE len - o
             IN << [offset |-> offset + o,
                    data |-> dset_read(t, i, offset + Header, size)] >>
                \o from[o + size]
  IN from[0]

(***************************************************************************)
(* The messages that answer a readback of length words from offset, in     *)
(* pieces of MAX_EVENT_SIZE (Api_HostDsetReadbackEvent).  The host skips   *)
(* the header that the target stored before its data.                      *)
(***************************************************************************)
ReadbackMessages(t, id, offset, length) ==
  LET i == dset_find(t, id)
      len == Clip(t, i, offset, length)
      from[o \in 0 .. len] ==
        IF o = len THEN <<>>
        ELSE LET size == IF len - o > MAX_EVENT_SIZE
                         THEN MAX_EVENT_SIZE ELSE len - o
             IN << [offset |-> offset + o,
                    data |-> dset_read(t, i, offset + o + Header, size)] >>
                \o from[o + size]
  IN from[0]
=============================================================================
