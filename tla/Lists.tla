------------------------------- MODULE Lists -------------------------------
(***************************************************************************)
(* A list comprehension of the code, written with a recursive function of  *)
(* the positions, so that what it returns can be proved (ListsProofs).     *)
(***************************************************************************)
EXTENDS Integers, Sequences

\* [x for x in s if x in keep]
Filter(s, keep) ==
  LET upto[i \in 0..Len(s)] ==
        IF i = 0 THEN <<>>
        ELSE IF s[i] \in keep THEN Append(upto[i - 1], s[i]) ELSE upto[i - 1]
  IN  upto[Len(s)]

=============================================================================
