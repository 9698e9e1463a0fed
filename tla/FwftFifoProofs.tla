--------------------------- MODULE FwftFifoProofs ---------------------------
(***************************************************************************)
(* Proofs about FwftFifo for every depth and every set of words: the       *)
(* pointers stay consistent, the flags are exact, and the FIFO implements  *)
(* the bounded queue.                                                      *)
(***************************************************************************)
EXTENDS FwftFifo, SequenceTheorems, TLAPS

(***************************************************************************)
(* Pointer arithmetic.                                                     *)
(***************************************************************************)

LEMMA ZeroPointer == 0 \in Pointers
BY DepthAssumption DEF Pointers

\* Count measures the flags exactly.
LEMMA CountIsFlags ==
  IInv => /\ Count \in 0 .. Depth
          /\ o_full <=> Count = Depth
          /\ o_empty <=> Count = 0
<1> SUFFICES ASSUME IInv
             PROVE  /\ Count \in 0 .. Depth
                    /\ o_full <=> Count = Depth
                    /\ o_empty <=> Count = 0
  OBVIOUS
<1> USE DepthAssumption DEF IInv, TypeOK, PointersConsistent, Pointers, Count, Distance
<1>1. Count \in 0 .. Depth
  OBVIOUS
<1>2. o_full <=> Count = Depth
  BY DEF o_full, WrapBit, Slot
<1>3. o_empty <=> Count = 0
  BY DEF o_empty
<1> QED
  BY <1>1, <1>2, <1>3

\* Each pointer increment moves Count by one.
LEMMA CountMoves ==
  ASSUME NEW w \in Pointers, NEW r \in Pointers
  PROVE  /\ Inc(w) \in Pointers
         /\ Distance(w, r) < Depth => Distance(Inc(w), r) = Distance(w, r) + 1
         /\ Distance(w, r) > 0 => Distance(w, Inc(r)) = Distance(w, r) - 1
         /\ Distance(Inc(w), Inc(r)) = Distance(w, r)
BY DepthAssumption DEF Pointers, Inc, Distance

\* The words behind the read pointer occupy slots other than the one the
\* write pointer addresses, as long as the FIFO is not full.
LEMMA SlotsBehind ==
  ASSUME IInv
  PROVE  /\ Slot(w_ptr) \in 0 .. Depth-1
         /\ Slot(Inc(r_ptr)) \in 0 .. Depth-1
         /\ Slot(w_ptr) = Slot(Ahead(r_ptr, Count))
         /\ Slot(Inc(r_ptr)) = Slot(Ahead(r_ptr, 1))
         /\ \A k \in 0 .. Depth : Slot(Ahead(r_ptr, k)) \in 0 .. Depth-1
         /\ \A k \in 0 .. Depth-1 :
              Slot(Ahead(Inc(r_ptr), k)) = Slot(Ahead(r_ptr, k + 1))
         /\ \A k \in 0 .. Count-1 :
              Count < Depth => Slot(Ahead(r_ptr, k)) # Slot(w_ptr)
BY DepthAssumption
   DEF IInv, TypeOK, PointersConsistent, Pointers, Count, Distance, Slot,
       Inc, Ahead

(***************************************************************************)
(* The RAM and the fall-through register keep their types.                 *)
(***************************************************************************)

LEMMA BlocksKeepTypes ==
  ASSUME IInv, NEW push \in BOOLEAN, NEW pop \in BOOLEAN, NEW din \in Data,
         Ram(push, pop, din), FallThrough(push, pop, din)
  PROVE  /\ ram' \in [0 .. Depth-1 -> Data]
         /\ ram_q' \in Data
         /\ bypass_r' \in BOOLEAN
         /\ bypass_dat_r' \in Data
         /\ status_r' \in BOOLEAN
         /\ dat_r' \in Data
<1>1. /\ Slot(w_ptr) \in 0 .. Depth-1
      /\ Slot(Inc(r_ptr)) \in 0 .. Depth-1
  BY SlotsBehind
<1>2. ram' \in [0 .. Depth-1 -> Data] /\ ram_q' \in Data
  BY <1>1 DEF IInv, TypeOK, Ram
<1>3. bypass_r' \in BOOLEAN /\ bypass_dat_r' \in Data
  BY DEF IInv, TypeOK, Ram
<1>4. status_r' \in BOOLEAN /\ dat_r' \in Data
  BY DEF IInv, TypeOK, FallThrough, o_empty
<1> QED
  BY <1>2, <1>3, <1>4

(***************************************************************************)
(* The inductive invariant.                                                *)
(***************************************************************************)

LEMMA PushStep ==
  ASSUME IInv, NEW din \in Data, Push(din)
  PROVE  IInv' /\ Count < Depth /\ Count' = Count + 1
<1>1. TypeOK'
  BY BlocksKeepTypes, CountMoves DEF Push, IInv, TypeOK
<1>2. Count < Depth /\ Count \in Nat
  BY CountIsFlags, DepthAssumption DEF Push
<1>3. Count' = Count + 1
  BY <1>2, CountMoves DEF Push, Count, IInv, TypeOK
<1> QED
  BY <1>1, <1>2, <1>3, DepthAssumption DEF IInv, PointersConsistent

LEMMA PopStep ==
  ASSUME IInv, NEW din \in Data, Pop(din)
  PROVE  IInv' /\ Count > 0 /\ Count' = Count - 1
<1>1. TypeOK'
  BY BlocksKeepTypes, CountMoves DEF Pop, IInv, TypeOK
<1>2. Count > 0 /\ Count \in Nat
  BY CountIsFlags, DepthAssumption DEF Pop
<1>3. Count' = Count - 1
  BY <1>2, CountMoves DEF Pop, Count, IInv, TypeOK
<1>4. ~status_r'
  BY DEF Pop, FallThrough
<1> QED
  BY <1>1, <1>2, <1>3, <1>4, DepthAssumption DEF IInv, PointersConsistent

LEMMA PushPopStep ==
  ASSUME IInv, NEW din \in Data, PushPop(din)
  PROVE  IInv' /\ Count > 0 /\ Count < Depth /\ Count' = Count
<1>1. TypeOK'
  BY BlocksKeepTypes, CountMoves DEF PushPop, IInv, TypeOK
<1>2. Count > 0 /\ Count < Depth /\ Count \in Nat
  BY CountIsFlags, DepthAssumption DEF PushPop
<1>3. Count' = Count
  BY <1>2, CountMoves DEF PushPop, Count, IInv, TypeOK
<1> QED
  BY <1>1, <1>2, <1>3, DepthAssumption DEF IInv, PointersConsistent

LEMMA ResetStep ==
  ASSUME IInv, Reset
  PROVE  IInv' /\ Count' = 0
<1>1. Count' = 0
  BY DepthAssumption DEF Reset, Count, Distance
<1>2. TypeOK'
  BY ZeroPointer DEF Reset, IInv, TypeOK
<1>3. PointersConsistent'
  BY <1>1, DepthAssumption DEF Reset, PointersConsistent
<1> QED
  BY <1>1, <1>2, <1>3 DEF IInv

LEMMA InitInv == Init => IInv
<1> SUFFICES ASSUME Init
             PROVE  IInv
  OBVIOUS
<1>1. TypeOK
  BY ZeroPointer DEF Init, TypeOK
<1>2. PointersConsistent
  BY DepthAssumption DEF Init, PointersConsistent, Count, Distance
<1> QED
  BY <1>1, <1>2 DEF IInv

LEMMA NextInv == IInv /\ [Next]_vars => IInv'
<1> SUFFICES ASSUME IInv, [Next]_vars
             PROVE  IInv'
  OBVIOUS
<1>1. ASSUME NEW din \in Data, Push(din)
      PROVE  IInv'
  BY <1>1, PushStep
<1>2. ASSUME NEW din \in Data, Pop(din)
      PROVE  IInv'
  BY <1>2, PopStep
<1>3. ASSUME NEW din \in Data, PushPop(din)
      PROVE  IInv'
  BY <1>3, PushPopStep
<1>4. CASE Reset
  BY <1>4, ResetStep
<1>5. CASE UNCHANGED vars
  BY <1>5 DEF vars, ram_vars, IInv, TypeOK, PointersConsistent, Count
<1> QED
  BY <1>1, <1>2, <1>3, <1>4, <1>5 DEF Next

(* Type correctness and pointer consistency of every reachable state, for  *)
(* every depth: the strengthening of TypeOK that is inductive.             *)
THEOREM Invariance == Spec => []IInv
<1> QED
  BY InitInv, NextInv, PTL DEF Spec

(* Every register of the FIFO keeps its type. *)
THEOREM TypeCorrect == Spec => []TypeOK
<1>1. IInv => TypeOK
  BY DEF IInv
<1> QED
  BY <1>1, Invariance, PTL

(* The pointers are never further apart than the RAM is deep, and the      *)
(* fall-through register is never valid in an empty FIFO.                  *)
THEOREM PointersStayConsistent == Spec => []PointersConsistent
<1>1. IInv => PointersConsistent
  BY DEF IInv
<1> QED
  BY <1>1, Invariance, PTL

(* o_full and o_empty (fifo_fwft_sclk.v, l. 39-41) are exact at any depth. *)
THEOREM FlagsCorrect == Spec => []FlagsExact
<1>1. IInv => FlagsExact
  BY CountIsFlags DEF FlagsExact
<1> QED
  BY <1>1, Invariance, PTL

(***************************************************************************)
(* Refinement: the contents behave as the bounded queue.                   *)
(***************************************************************************)

\* The k-th word behind the head, k >= 1, as the RAM holds it.
Behind(k) == ram[Slot(Ahead(r_ptr, k))]

\* Contents is a sequence: the output of the FIFO, then the words behind.
ContentsShape ==
  /\ Contents \in Seq(Data)
  /\ Len(Contents) = Count
  /\ \A i \in 1 .. Count :
       Contents[i] = IF i = 1 THEN o_dout ELSE Behind(i - 1)

LEMMA ContentsIsQueue == IInv => ContentsShape
<1> SUFFICES ASSUME IInv
             PROVE  ContentsShape
  OBVIOUS
<1>1. Count \in Nat /\ Count <= Depth /\ Depth \in Nat
  BY CountIsFlags, DepthAssumption
<1>2. o_dout \in Data
  BY DEF IInv, TypeOK, o_dout, doutb
<1>3. \A k \in 0 .. Depth : Behind(k) \in Data
  BY SlotsBehind DEF IInv, TypeOK, Behind
<1>4. Contents \in [1 .. Count -> Data]
  BY <1>1, <1>2, <1>3 DEF Contents, Behind
<1>5. Contents \in Seq(Data) /\ Len(Contents) = Count
  BY <1>1, <1>4, SeqDef
<1>6. \A i \in 1 .. Count :
        Contents[i] = IF i = 1 THEN o_dout ELSE Behind(i - 1)
  BY DEF Contents, Behind
<1> QED
  BY <1>5, <1>6 DEF ContentsShape

LEMMA NextContentsIsQueue == IInv' => ContentsShape'
BY ContentsIsQueue, PTL

\* A push leaves the words behind the head where they are, and writes the
\* new word behind them.
LEMMA PushContents ==
  ASSUME IInv, NEW din \in Data, Push(din)
  PROVE  Contents' = Append(Contents, din)
<1> DEFINE A == Append(Contents, din)
<1>1. /\ Count \in Nat
      /\ Count < Depth
      /\ Count' = Count + 1
      /\ ContentsShape
      /\ ContentsShape'
  BY PushStep, CountIsFlags, ContentsIsQueue, NextContentsIsQueue
<1>2. /\ A \in Seq(Data)
      /\ Len(A) = Count + 1
      /\ \A i \in 1 .. Count : A[i] = Contents[i]
      /\ A[Count + 1] = din
  BY <1>1, AppendProperties DEF ContentsShape
<1>3. Count = 0 => o_dout' = din
  BY CountIsFlags DEF Push, FallThrough, o_dout, o_empty
<1>4. Count # 0 => o_dout' = o_dout
  BY CountIsFlags
  DEF Push, FallThrough, Ram, o_dout, doutb, IInv, TypeOK
<1>5. ram' = [ram EXCEPT ![Slot(w_ptr)] = din] /\ r_ptr' = r_ptr
  BY DEF Push, Ram
<1>6. ASSUME NEW k \in 1 .. Count - 1
      PROVE  Behind(k)' = Behind(k)
  <2>1. Slot(Ahead(r_ptr, k)) # Slot(w_ptr)
    BY <1>1, SlotsBehind
  <2>2. Slot(Ahead(r_ptr, k)) \in 0 .. Depth-1
    BY <1>1, SlotsBehind, DepthAssumption
  <2> QED
    BY <1>5, <2>1, <2>2 DEF Behind, Slot, Ahead, IInv, TypeOK
<1>7. ASSUME NEW k \in Nat, k = Count
      PROVE  Behind(k)' = din
  <2>1. Slot(Ahead(r_ptr, k)) = Slot(w_ptr) /\ Slot(w_ptr) \in 0 .. Depth-1
    BY <1>7, SlotsBehind
  <2>2. Behind(k)' = ram'[Slot(Ahead(r_ptr', k))]
    BY DEF Behind, Slot, Ahead
  <2> QED
    BY <1>5, <2>1, <2>2 DEF IInv, TypeOK
<1>8. ASSUME NEW i \in 1 .. Count + 1
      PROVE  Contents'[i] = A[i]
  <2>1. Contents'[i] = IF i = 1 THEN o_dout' ELSE Behind(i - 1)'
    BY <1>1 DEF ContentsShape
  <2>2. CASE i = 1
    BY <1>1, <1>2, <1>3, <1>4, <2>1, <2>2 DEF ContentsShape
  <2>3. CASE i # 1 /\ i = Count + 1
    BY <1>1, <1>2, <1>7, <2>1, <2>3
  <2>4. CASE i # 1 /\ i # Count + 1
    BY <1>1, <1>2, <1>6, <2>1, <2>4 DEF ContentsShape
  <2> QED
    BY <2>2, <2>3, <2>4
<1> QED
  BY <1>1, <1>2, <1>8, SeqEqual DEF ContentsShape

\* A pop moves every word one place forward: the RAM read behind the head
\* becomes the output.
LEMMA PopContents ==
  ASSUME IInv, NEW din \in Data, Pop(din)
  PROVE  Contents # <<>> /\ Contents' = Tail(Contents)
<1> DEFINE T == Tail(Contents)
<1>1. /\ Count \in Nat /\ Count > 0 /\ Count <= Depth
      /\ Count' = Count - 1
      /\ ContentsShape
      /\ ContentsShape'
  BY PopStep, CountIsFlags, ContentsIsQueue, NextContentsIsQueue
<1>2. Contents # <<>>
  BY <1>1, EmptySeq DEF ContentsShape
<1>3. /\ T \in Seq(Data)
      /\ Len(T) = Count - 1
      /\ \A i \in 1 .. Count - 1 : T[i] = Contents[i + 1]
  BY <1>1, <1>2, HeadTailProperties DEF ContentsShape
<1>4. o_dout' = ram[Slot(Inc(r_ptr))]
  BY DEF Pop, FallThrough, Ram, o_dout, doutb, o_empty, IInv, TypeOK
<1>5. o_dout' = Behind(1)
  BY <1>4, SlotsBehind DEF Behind
<1>6. ASSUME NEW k \in 1 .. Count - 1
      PROVE  Behind(k)' = Behind(k + 1)
  <2>1. Slot(Ahead(Inc(r_ptr), k)) = Slot(Ahead(r_ptr, k + 1))
    BY <1>1, SlotsBehind, DepthAssumption
  <2> QED
    BY <2>1 DEF Pop, Ram, Behind, Slot, Ahead
<1>7. ASSUME NEW i \in 1 .. Count - 1
      PROVE  Contents'[i] = T[i]
  <2>1. Contents'[i] = IF i = 1 THEN o_dout' ELSE Behind(i - 1)'
    BY <1>1 DEF ContentsShape
  <2>2. T[i] = Behind(i)
    BY <1>1, <1>3 DEF ContentsShape
  <2>3. CASE i = 1
    BY <1>5, <2>1, <2>2, <2>3
  <2>4. CASE i # 1
    <3>1. i - 1 \in 1 .. Count - 1 /\ (i - 1) + 1 = i
      BY <1>1, <2>4
    <3> QED
      BY <1>6, <2>1, <2>2, <2>4, <3>1
  <2> QED
    BY <2>3, <2>4
<1>8. Contents' = T
  BY <1>1, <1>3, <1>7, SeqEqual DEF ContentsShape
<1> QED
  BY <1>2, <1>8

\* A cycle that pushes and pops does both: with one word inside, the word
\* pushed is answered by the bypass of the RAM.
LEMMA PushPopContents ==
  ASSUME IInv, NEW din \in Data, PushPop(din)
  PROVE  Contents # <<>> /\ Contents' = Append(Tail(Contents), din)
<1> DEFINE A == Append(Tail(Contents), din)
<1>1. /\ Count \in Nat /\ Count > 0 /\ Count < Depth
      /\ Count' = Count
      /\ ContentsShape
      /\ ContentsShape'
  BY PushPopStep, CountIsFlags, ContentsIsQueue, NextContentsIsQueue
<1>2. Contents # <<>>
  BY <1>1, EmptySeq DEF ContentsShape
<1>3. /\ Tail(Contents) \in Seq(Data)
      /\ Len(Tail(Contents)) = Count - 1
      /\ \A i \in 1 .. Count - 1 : Tail(Contents)[i] = Contents[i + 1]
  BY <1>1, <1>2, HeadTailProperties DEF ContentsShape
<1>4. /\ A \in Seq(Data)
      /\ Len(A) = Count
      /\ \A i \in 1 .. Count - 1 : A[i] = Contents[i + 1]
      /\ A[Count] = din
  BY <1>1, <1>3, AppendProperties
<1>5. /\ ram' = [ram EXCEPT ![Slot(w_ptr)] = din]
      /\ r_ptr' = Inc(r_ptr)
      /\ ~status_r'
      /\ bypass_r' = (Slot(Inc(r_ptr)) = Slot(w_ptr))
      /\ bypass_dat_r' = din
      /\ ram_q' = IF Slot(Inc(r_ptr)) = Slot(w_ptr) THEN ram_q
                                                    ELSE ram[Slot(Inc(r_ptr))]
  BY DEF PushPop, Ram, FallThrough, o_empty, IInv, TypeOK
<1>6. Count = 1 => o_dout' = din
  BY <1>1, <1>5, SlotsBehind DEF o_dout, doutb
<1>7. Count > 1 => o_dout' = Behind(1)
  <2>1. Count > 1 => Slot(Ahead(r_ptr, 1)) # Slot(w_ptr)
    BY <1>1, SlotsBehind
  <2>2. Slot(Inc(r_ptr)) = Slot(Ahead(r_ptr, 1))
    BY SlotsBehind
  <2> QED
    BY <1>5, <2>1, <2>2 DEF o_dout, doutb, Behind
<1>8. ASSUME NEW k \in 1 .. Count - 1
      PROVE  Behind(k)' = IF k = Count - 1 THEN din ELSE Behind(k + 1)
  <2>1. /\ Slot(Ahead(Inc(r_ptr), k)) = Slot(Ahead(r_ptr, k + 1))
        /\ Slot(Ahead(r_ptr, k + 1)) \in 0 .. Depth-1
    BY <1>1, SlotsBehind, DepthAssumption
  <2>2. Behind(k)' = ram'[Slot(Ahead(r_ptr, k + 1))]
    BY <1>5, <2>1 DEF Behind, Slot, Ahead
  <2>3. CASE k = Count - 1
    BY <1>1, <1>5, <2>1, <2>2, <2>3, SlotsBehind DEF IInv, TypeOK
  <2>4. CASE k # Count - 1
    <3>1. Slot(Ahead(r_ptr, k + 1)) # Slot(w_ptr)
      BY <1>1, <2>4, SlotsBehind
    <3> QED
      BY <1>5, <2>1, <2>2, <2>4, <3>1 DEF Behind, IInv, TypeOK
  <2> QED
    BY <2>3, <2>4
<1>9. ASSUME NEW i \in 1 .. Count
      PROVE  Contents'[i] = A[i]
  <2> HIDE DEF A
  <2>1. Contents'[i] = IF i = 1 THEN o_dout' ELSE Behind(i - 1)'
    BY <1>1 DEF ContentsShape
  <2>2. A[i] = IF i = Count THEN din ELSE Behind(i)
    BY <1>1, <1>4 DEF ContentsShape
  <2>3. CASE i = 1 /\ Count = 1
    BY <1>6, <2>1, <2>2, <2>3
  <2>4. CASE i = 1 /\ Count > 1
    BY <1>1, <1>7, <2>1, <2>2, <2>4
  <2>5. CASE i # 1
    <3>1. /\ i - 1 \in 1 .. Count - 1
          /\ (i - 1) + 1 = i
          /\ i - 1 = Count - 1 <=> i = Count
      BY <1>1, <2>5
    <3>2. Behind(i - 1)' = IF i = Count THEN din ELSE Behind(i)
      BY <1>8, <3>1
    <3> QED
      BY <2>1, <2>2, <2>5, <3>2
  <2> QED
    BY <1>1, <2>3, <2>4, <2>5
<1>10. Contents' = A
  BY <1>1, <1>4, <1>9, SeqEqual DEF ContentsShape
<1> QED
  BY <1>2, <1>10

LEMMA RefinementInit == Init => Queue!Init
<1> SUFFICES ASSUME Init
             PROVE  Contents = <<>>
  BY DEF Queue!Init
<1>1. Count = 0
  BY DepthAssumption DEF Init, Count, Distance
<1>2. Contents \in Seq(Data) /\ Len(Contents) = 0
  BY <1>1, InitInv, ContentsIsQueue DEF ContentsShape
<1> QED
  BY <1>2, EmptySeq

LEMMA RefinementStep == IInv /\ [Next]_vars => [Queue!Next]_<<Contents, pushed>>
<1> SUFFICES ASSUME IInv, [Next]_vars
             PROVE  Queue!Next \/ UNCHANGED <<Contents, pushed>>
  OBVIOUS
<1>1. Len(Contents) = Count
  BY ContentsIsQueue DEF ContentsShape
<1>2. ASSUME NEW din \in Data, Push(din)
      PROVE  Queue!Push(din)
  BY <1>1, <1>2, PushStep, PushContents DEF Push, Queue!Push
<1>3. ASSUME NEW din \in Data, Pop(din)
      PROVE  Queue!Pop
  BY <1>3, PopContents DEF Pop, Queue!Pop
<1>4. ASSUME NEW din \in Data, PushPop(din)
      PROVE  Queue!PushPop(din)
  BY <1>1, <1>4, PushPopStep, PushPopContents DEF PushPop, Queue!PushPop
<1>5. CASE Reset
  <2>1. Contents' \in Seq(Data) /\ Len(Contents') = 0
    BY <1>5, ResetStep, NextContentsIsQueue DEF ContentsShape
  <2> QED
    BY <1>5, <2>1, EmptySeq DEF Reset, Queue!Next, Queue!Reset
<1>6. CASE UNCHANGED vars
  <2>1. Count' = Count
    BY <1>6 DEF vars, Count, Distance
  <2> QED
    BY <1>6, <2>1
    DEF vars, ram_vars, Contents, o_dout, doutb, Slot, Ahead
<1> QED
  BY <1>2, <1>3, <1>4, <1>5, <1>6 DEF Next, Queue!Next

(* The FIFO implements the bounded queue of capacity Depth: whatever mix   *)
(* of pushes, pops and resets, and whatever Depth, words leave in the      *)
(* order they entered, and none is lost, duplicated or altered.            *)
THEOREM Refinement == Spec => QueueSpec
<1> QED
  BY RefinementInit, RefinementStep, Invariance, PTL
  DEF Spec, QueueSpec, Queue!Spec
=============================================================================
