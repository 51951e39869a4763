-------------------------------- MODULE Slices ---------------------------------
(* Two loops that several components write out: from a slice to the slice of   *)
(* its elements that pass a test, and from a slice of numbers to their sum.    *)
EXTENDS Integers, Sequences

(* The elements of s that are in S, in their order.                            *)
Keep(s, S) ==
    LET kept[n \in 0..Len(s)] ==
          IF n = 0 THEN <<>>
          ELSE IF s[n] \in S THEN Append(kept[n - 1], s[n]) ELSE kept[n - 1]
    IN  kept[Len(s)]

(* The numbers of s, added up.                                                 *)
Total(s) ==
    LET total[n \in 0..Len(s)] == IF n = 0 THEN 0 ELSE total[n - 1] + s[n]
    IN  total[Len(s)]
================================================================================
