------------------------------ MODULE RcvAggr -------------------------------
(***************************************************************************)
(* The receive order filter of 11n aggregation                             *)
(* (common_src/reorder/rcv_aggr.c): per traffic id, frames older than the  *)
(* last one forwarded are dropped.  Sequence numbers are counted modulo    *)
(* MaxSeqNo + 1 (IEEE80211_MAX_SEQ_NO, 0xFFF in the code); frameNo is the  *)
(* number the sender would give its frames if they did not wrap.           *)
(***************************************************************************)
EXTENDS Integers

CONSTANTS
  Tids,       \* traffic ids
  MaxSeqNo,   \* IEEE80211_MAX_SEQ_NO
  Reorder,    \* how far from the last one a frame of a session can be
  MaxFrameNo  \* bound: frames of a session

Half  == MaxSeqNo \div 2     \* IEEE80211_MAX_SEQ_NO>>1
Wrap(n) == n % (MaxSeqNo + 1)

ASSUME TidAssumption == Tids \subseteq 0..7
ASSUME SeqAssumption == MaxSeqNo \in Nat /\ MaxFrameNo \in Nat
ASSUME ReorderAssumption == Reorder \in 0..Half

VARIABLES
  aggr_enabled_tid_mask,  \* the traffic ids whose bit is set
  seq_last,
  frameNo,                \* unwrapped number of the last frame forwarded
  verdict                 \* the last frame judged, and the result

vars == <<aggr_enabled_tid_mask, seq_last, frameNo, verdict>>

Init == /\ aggr_enabled_tid_mask = {}
        /\ seq_last = [t \in Tids |-> 0] /\ frameNo = [t \in Tids |-> 0]
        /\ verdict = [enabled |-> FALSE, inOrder |-> TRUE, result |-> TRUE]

-----------------------------------------------------------------------------
aggr_recv_addba_req_evt(t, n) ==
  /\ aggr_enabled_tid_mask' = aggr_enabled_tid_mask \cup {t}
  /\ seq_last' = [seq_last EXCEPT ![t] = Wrap(n)]
  /\ frameNo' = [frameNo EXCEPT ![t] = n]
  /\ UNCHANGED verdict

aggr_recv_delba_req_evt(t) ==
  /\ aggr_enabled_tid_mask' = aggr_enabled_tid_mask \ {t}
  /\ UNCHANGED <<seq_last, frameNo, verdict>>

\* Called on a connect and on a disconnect event.
aggr_reset_state ==
  /\ aggr_enabled_tid_mask' = {}
  /\ UNCHANGED <<seq_last, frameNo, verdict>>

(***************************************************************************)
(* The test !aggr_enabled_tid_mask & (1<<tid) negates the whole mask       *)
(* first: it is non-zero only for tid 0 with no traffic id enabled.        *)
(***************************************************************************)
NotMonitored(t) == aggr_enabled_tid_mask = {} /\ t = 0

\* Mutant: numbers are compared without regard to the wrap.
OutOfOrderLinear(t, s) == seq_last[t] > s

OutOfOrder(t, s) == IF seq_last[t] > s THEN seq_last[t] - s <= Half
                                       ELSE s - seq_last[t] > Half

(***************************************************************************)
(* A frame of a session is at most Reorder away from the last one; frames  *)
(* outside a session have any number.                                      *)
(***************************************************************************)
aggr_process_recv_frm(t, n) ==
  LET enabled == t \in aggr_enabled_tid_mask
      result  == NotMonitored(t) \/ ~OutOfOrder(t, Wrap(n))
  IN  /\ enabled => n - frameNo[t] \in -Reorder..Reorder
      /\ verdict' = [enabled |-> enabled, inOrder |-> n >= frameNo[t],
                     result |-> result]
      /\ seq_last' = IF result /\ ~NotMonitored(t)
                     THEN [seq_last EXCEPT ![t] = Wrap(n)] ELSE seq_last
      /\ frameNo' = IF result THEN [frameNo EXCEPT ![t] = n] ELSE frameNo
      /\ UNCHANGED aggr_enabled_tid_mask

Next == \E t \in Tids :
          \/ \E n \in 0..MaxFrameNo : \/ aggr_recv_addba_req_evt(t, n)
                                      \/ aggr_process_recv_frm(t, n)
          \/ aggr_recv_delba_req_evt(t)
          \/ aggr_reset_state

Spec == Init /\ [][Next]_vars

-----------------------------------------------------------------------------
(***************************************************************************)
(* Within a session aggr_process_recv_frm forwards a frame exactly when it *)
(* is not older than the last one forwarded, across every wrap of the      *)
(* twelve-bit number and every reordering of at most half the numbers.     *)
(***************************************************************************)
FilterIsExact == verdict.enabled => verdict.result = verdict.inOrder

=============================================================================
