--------------------------------- MODULE Texts ---------------------------------
(***************************************************************************)
(* A file, or a list, as the sequence of its lines.                        *)
(***************************************************************************)
EXTENDS Naturals, Sequences

\* The elements of s that are in T, in order: SelectSeq, as a recursive function
\* that proofs can reason about.
Select(s, T) ==
  LET picked[n \in 0..Len(s)] ==
        IF n = 0 THEN <<>>
        ELSE IF s[n] \in T THEN Append(picked[n - 1], s[n])
        ELSE picked[n - 1]
  IN picked[Len(s)]
=============================================================================
