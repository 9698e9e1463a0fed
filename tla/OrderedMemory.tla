--------------------------- MODULE OrderedMemory ----------------------------
(***************************************************************************)
(* What a program may rely on in one RAM: stores are accepted in program   *)
(* order, held in a bounded buffer, and reach the RAM one at a time in the *)
(* order accepted, each exactly once. A reset forgets the stores that have *)
(* not reached the RAM yet, and perhaps applies the oldest of them.        *)
(***************************************************************************)
EXTENDS Naturals, Sequences

CONSTANTS
  Stores,         \* the stores a program can make
  Apply(_, _),    \* the RAM after a store
  Limit           \* how many accepted stores may be outstanding

VARIABLES
  memory,    \* the RAM
  pending    \* stores accepted and not yet in the RAM, oldest first

Commit == /\ pending # <<>>
          /\ memory' = Apply(memory, Head(pending))
          /\ pending' = Tail(pending)

Accept(s) == /\ Len(pending) < Limit
             /\ pending' = Append(pending, s)
             /\ UNCHANGED memory

CommitAndAccept(s) == /\ pending # <<>>
                      /\ memory' = Apply(memory, Head(pending))
                      /\ pending' = Append(Tail(pending), s)

Forget == /\ pending' = <<>>
          /\ \/ UNCHANGED memory
             \/ pending # <<>> /\ memory' = Apply(memory, Head(pending))

Init == pending = <<>>

Next == \/ Commit
        \/ \E s \in Stores : Accept(s) \/ CommitAndAccept(s)
        \/ Forget

Spec == Init /\ [][Next]_<<memory, pending>>
=============================================================================
