------------------------------- MODULE Lists -------------------------------
(***************************************************************************)
(* Lists, next to the operators of SequencesExt.                           *)
(***************************************************************************)
EXTENDS Integers, Sequences

InList(s, x) == \E i \in DOMAIN s : s[i] = x

\* The elements of s that are in S, in their order: SelectSeq, by recursion
\* over the prefixes of s, which can be reasoned about.
Those(s, S) ==
    LET upTo[n \in 0..Len(s)] ==
            IF n = 0 THEN <<>>
            ELSE IF s[n] \in S THEN Append(upTo[n - 1], s[n])
            ELSE upTo[n - 1]
    IN  upTo[Len(s)]
=============================================================================
