--------------------------- MODULE RcvAggrProofs ----------------------------
(***************************************************************************)
(* Proofs about RcvAggr for every size of the sequence number, every       *)
(* number of frames and every reordering of at most half the numbers.      *)
(***************************************************************************)
EXTENDS RcvAggr, TLAPS

M == MaxSeqNo + 1

(***************************************************************************)
(* The filter's inductive invariant: the number it keeps for a traffic id  *)
(* with a session is the last forwarded frame's, wrapped.  Outside a       *)
(* session the two may part (NotMonitored forwards and remembers nothing). *)
(***************************************************************************)
IInv ==
  /\ aggr_enabled_tid_mask \subseteq Tids
  /\ seq_last \in [Tids -> 0..MaxSeqNo] /\ frameNo \in [Tids -> Nat]
  /\ \A t \in aggr_enabled_tid_mask : seq_last[t] = Wrap(frameNo[t])
  /\ FilterIsExact

-----------------------------------------------------------------------------
\* What the division of the wrap leaves.
LEMMA DivisionIsExact ==
  ASSUME NEW n \in Nat, NEW m \in Nat, m > 0
  PROVE  /\ n \div m \in Nat /\ n % m \in 0..(m - 1)
         /\ n = (n \div m) * m + (n % m)
OBVIOUS

\* A wrapped number is one the frame's field can carry.
LEMMA WrapIsNumber ==
  ASSUME NEW n \in Nat
  PROVE  /\ Wrap(n) \in 0..MaxSeqNo
         /\ \E q \in Nat : n = q * M + Wrap(n)
<1>1. M \in Nat /\ M > 0 /\ M - 1 = MaxSeqNo
  BY SeqAssumption DEF M
<1>2. Wrap(n) = n % M
  BY DEF Wrap, M
<1>3. n \div M \in Nat /\ n % M \in 0..(M - 1) /\ n = (n \div M) * M + (n % M)
  BY <1>1, DivisionIsExact
<1>4. n % M \in 0..MaxSeqNo
  BY <1>1, <1>3
<1>5. \E q \in Nat : n = q * M + (n % M)
  BY <1>3, Zenon
<1> QED BY <1>2, <1>4, <1>5, Zenon

(***************************************************************************)
(* The wrapped numbers of two frames less than M apart differ by as much   *)
(* as the frames do, or by one whole range more or less.                   *)
(***************************************************************************)
LEMMA WrapKeepsDistance ==
  ASSUME NEW f \in Nat, NEW n \in Nat, n - f < M, f - n < M
  PROVE  Wrap(n) - Wrap(f) \in {n - f, n - f - M, n - f + M}
<1>1. M \in Nat /\ M > 0
  BY SeqAssumption DEF M
<1>2. Wrap(n) \in 0..MaxSeqNo /\ Wrap(f) \in 0..MaxSeqNo
  BY WrapIsNumber
<1>3. PICK q \in Nat : n = q * M + Wrap(n)
  BY WrapIsNumber
<1>4. PICK p \in Nat : f = p * M + Wrap(f)
  BY WrapIsNumber
<1> DEFINE k == q - p
<1>5. k \in Int /\ k * M = q * M - p * M
  BY <1>1
<1>6. k * M = (n - f) - (Wrap(n) - Wrap(f))
  BY <1>1, <1>2, <1>3, <1>4, <1>5
<1> HIDE DEF k
<1>7. Wrap(n) - Wrap(f) < M /\ Wrap(f) - Wrap(n) < M
  BY <1>1, <1>2, SeqAssumption DEF M
<1>8. k * M < 2 * M /\ k * M > -(2 * M)
  BY <1>1, <1>2, <1>6, <1>7
<1>9. k \in {-1, 0, 1}
  <2>1. k < 2
    BY <1>1, <1>5, <1>8
  <2>2. k > -2
    BY <1>1, <1>5, <1>8
  <2> QED BY <1>5, <2>1, <2>2
<1>10. k * M \in {-M, 0, M}
  BY <1>1, <1>9
<1> QED BY <1>1, <1>2, <1>6, <1>10

(***************************************************************************)
(* aggr_process_recv_frm's comparison decides the age of a frame: with the *)
(* last frame's number kept, a frame no more than Reorder away is out of   *)
(* order exactly when it is older.                                         *)
(***************************************************************************)
LEMMA ComparisonDecidesAge ==
  ASSUME NEW t \in Tids, NEW n \in Nat, NEW f \in Nat,
         n - f \in -Reorder..Reorder, seq_last[t] = Wrap(f)
  PROVE  OutOfOrder(t, Wrap(n)) <=> n < f
<1>1. /\ Half \in Nat /\ 2 * Half <= MaxSeqNo /\ MaxSeqNo \in Nat
      /\ Reorder \in Nat /\ Reorder <= Half
  BY SeqAssumption, ReorderAssumption DEF Half
<1>2. Wrap(n) \in 0..MaxSeqNo /\ Wrap(f) \in 0..MaxSeqNo
  BY WrapIsNumber
<1>3. Wrap(n) - Wrap(f) \in {n - f, n - f - M, n - f + M}
  BY <1>1, WrapKeepsDistance DEF M
<1> QED BY <1>1, <1>2, <1>3 DEF OutOfOrder, M

-----------------------------------------------------------------------------
\* No session, and nothing forwarded.
LEMMA InitHolds == Init => IInv
<1>1. Wrap(0) = 0
  BY SeqAssumption DEF Wrap
<1> QED BY <1>1, SeqAssumption DEF Init, IInv, FilterIsExact

\* An ADDBA event starts the session at the frame it names.
LEMMA SessionStartKeeps ==
  ASSUME IInv, NEW t \in Tids, NEW n \in 0..MaxFrameNo,
         aggr_recv_addba_req_evt(t, n)
  PROVE  IInv'
<1>1. n \in Nat /\ Wrap(n) \in 0..MaxSeqNo
  BY SeqAssumption, WrapIsNumber
<1> QED BY <1>1 DEF IInv, aggr_recv_addba_req_evt, FilterIsExact, Wrap

\* A DELBA event and a reset end sessions and forward nothing.
LEMMA SessionEndKeeps ==
  ASSUME IInv, \/ \E t \in Tids : aggr_recv_delba_req_evt(t)
               \/ aggr_reset_state
               \/ UNCHANGED vars
  PROVE  IInv'
BY DEF IInv, aggr_recv_delba_req_evt, aggr_reset_state, vars, FilterIsExact,
       Wrap

\* A frame that the filter lets through is the newest of its session.
LEMMA FrameKeeps ==
  ASSUME IInv, NEW t \in Tids, NEW n \in 0..MaxFrameNo,
         aggr_process_recv_frm(t, n)
  PROVE  IInv'
<1> DEFINE enabled == t \in aggr_enabled_tid_mask
           result  == NotMonitored(t) \/ ~OutOfOrder(t, Wrap(n))
<1>1. n \in Nat /\ Wrap(n) \in 0..MaxSeqNo /\ frameNo[t] \in Nat
  BY SeqAssumption, WrapIsNumber DEF IInv
<1>2. enabled => n - frameNo[t] \in -Reorder..Reorder
  BY DEF aggr_process_recv_frm
<1>3. verdict' = [enabled |-> enabled, inOrder |-> n >= frameNo[t],
                  result |-> result]
  BY DEF aggr_process_recv_frm
<1>4. enabled => ~NotMonitored(t)
  BY DEF NotMonitored
<1>5. enabled => (result = (n >= frameNo[t]))
  BY <1>1, <1>2, <1>4, ComparisonDecidesAge DEF IInv
<1>6. FilterIsExact'
  <2>1. /\ verdict'.enabled = enabled /\ verdict'.result = result
        /\ verdict'.inOrder = (n >= frameNo[t])
    BY <1>3
  <2>2. verdict'.enabled => verdict'.result = verdict'.inOrder
    BY <1>5, <2>1, Zenon
  <2> QED BY <2>2 DEF FilterIsExact
<1>7. aggr_enabled_tid_mask' = aggr_enabled_tid_mask
  BY DEF aggr_process_recv_frm
<1>8. CASE result /\ ~NotMonitored(t)
  <2>1. /\ seq_last' = [seq_last EXCEPT ![t] = Wrap(n)]
        /\ frameNo' = [frameNo EXCEPT ![t] = n]
    BY <1>8 DEF aggr_process_recv_frm
  <2> QED BY <1>1, <1>6, <1>7, <2>1 DEF IInv, Wrap
<1>9. CASE NotMonitored(t)
  <2>1. seq_last' = seq_last /\ frameNo' = [frameNo EXCEPT ![t] = n]
    BY <1>9 DEF aggr_process_recv_frm
  <2>2. aggr_enabled_tid_mask = {}
    BY <1>9 DEF NotMonitored
  <2> QED BY <1>1, <1>6, <1>7, <2>1, <2>2 DEF IInv
<1>10. CASE ~result
  <2>1. seq_last' = seq_last /\ frameNo' = frameNo
    BY <1>10 DEF aggr_process_recv_frm
  <2> QED BY <1>6, <1>7, <2>1 DEF IInv, Wrap
<1> QED BY <1>8, <1>9, <1>10

(***************************************************************************)
(* Within a session the filter of aggr_process_recv_frm is exact, for      *)
(* every length of the session: FilterIsExact, across every wrap.          *)
(***************************************************************************)
THEOREM FilterExactness == Spec => []FilterIsExact
<1>1. IInv /\ [Next]_vars => IInv'
  BY SessionStartKeeps, SessionEndKeeps, FrameKeeps DEF Next
<1>2. IInv => FilterIsExact
  BY DEF IInv
<1> QED BY InitHolds, <1>1, <1>2, PTL DEF Spec
=============================================================================
