-------------------------------- MODULE Ranks --------------------------------
(***************************************************************************)
(* Sets of positions listed from the least: the operations a walk collects *)
(* from a block, or the arguments of one kind.                             *)
(***************************************************************************)
EXTENDS Integers, FiniteSets, Sequences

rankOf(n, numbers) == Cardinality({m \in numbers : m <= n})

inOrder(numbers) == [k \in 1..Cardinality(numbers) |-> CHOOSE n \in numbers : rankOf(n, numbers) = k]

(* What a list has at these places.                                        *)
picked(list, places) ==
  LET upTo[n \in 0..Len(list)] ==
        IF n = 0 THEN << >>
        ELSE IF n \in places THEN Append(upTo[n - 1], list[n]) ELSE upTo[n - 1]
  IN  upTo[Len(list)]
==============================================================================
