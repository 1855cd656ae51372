------------------------------ MODULE Selections ------------------------------
(***************************************************************************)
(* The part of a list that a comprehension or a loop with a condition      *)
(* keeps.  Keep(s, S) is SelectSeq(s, LAMBDA e : e \in S), as a recursive  *)
(* function, so that it can be reasoned about.                             *)
(***************************************************************************)
EXTENDS Integers, Sequences

Keep(s, S) ==
  LET Kept[n \in 0..Len(s)] ==
        IF n = 0 THEN <<>>
        ELSE IF s[n] \in S THEN Append(Kept[n - 1], s[n])
        ELSE Kept[n - 1]
  IN Kept[Len(s)]
=============================================================================
