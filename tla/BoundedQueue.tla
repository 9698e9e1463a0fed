---------------------------- MODULE BoundedQueue ----------------------------
(***************************************************************************)
(* What a synchronous FIFO of Capacity words promises to the two sides     *)
(* that share its clock: words leave in the order they entered, none is    *)
(* lost or duplicated, and a cycle may push and pop at once.               *)
(*                                                                         *)
(* The queue is full or empty as of the beginning of the cycle, so a full  *)
(* queue refuses a word even in a cycle that pops one.                     *)
(***************************************************************************)
EXTENDS Naturals, Sequences

CONSTANTS Data, Capacity

VARIABLES
  q,
  pushed   \* the word that entered last

Init == q = <<>>

Push(d) == /\ Len(q) < Capacity
           /\ q' = Append(q, d)
           /\ pushed' = d

Pop == /\ q # <<>>
       /\ q' = Tail(q)
       /\ UNCHANGED pushed

PushPop(d) == /\ q # <<>>
              /\ Len(q) < Capacity
              /\ q' = Append(Tail(q), d)
              /\ pushed' = d

\* The asynchronous reset drops the contents.
Reset == /\ q' = <<>>
         /\ UNCHANGED pushed

Next == \/ \E d \in Data : Push(d) \/ PushPop(d)
        \/ Pop
        \/ Reset

Spec == Init /\ [][Next]_<<q, pushed>>
=============================================================================
