------------------------------- MODULE Filter -------------------------------
(***************************************************************************)
(* Selection from a sequence by a set: SelectSeq(s, LAMBDA x : x \in S) as *)
(* a recursive function, about which facts can be proved (SequenceFacts).  *)
(***************************************************************************)
EXTENDS Naturals, Sequences

\* The elements of s that are in S, in the order of s.
Keep(s, S) ==
    LET kept[n \in 0..Len(s)] ==
            IF n = 0 THEN <<>>
            ELSE IF s[n] \in S THEN Append(kept[n - 1], s[n]) ELSE kept[n - 1]
    IN  kept[Len(s)]
=============================================================================
