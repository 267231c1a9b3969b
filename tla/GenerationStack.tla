--------------------------- MODULE GenerationStack ---------------------------
(***************************************************************************)
(* What apply and rollback promise together: the generations in use are a  *)
(* stack.  An apply puts one on top, a rollback takes the top off, and     *)
(* whatever fails or is killed changes nothing.                            *)
(***************************************************************************)
EXTENDS Sequences, Integers

CONSTANT Contents \* what a generation can consist of

VARIABLE stack \* the generation in use is the last of these

Init == stack = <<>>

Apply == \E c \in Contents : stack' = Append(stack, c)

Rollback ==
  /\ Len(stack) > 1
  /\ stack' = SubSeq(stack, 1, Len(stack) - 1)

Next == Apply \/ Rollback

Spec == Init /\ [][Next]_stack
=============================================================================
