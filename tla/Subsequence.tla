---------------------------- MODULE Subsequence ------------------------------
(* Loops that keep some elements of a sequence and pass over the others.    *)
EXTENDS Integers, Sequences

(* The elements of s at the positions in K, in their order. *)
Select(s, K) ==
    LET kept[n \in 0..Len(s)] ==
            IF n = 0 THEN <<>> ELSE kept[n - 1] \o (IF n \in K THEN <<s[n]>> ELSE <<>>)
    IN  kept[Len(s)]
=============================================================================
