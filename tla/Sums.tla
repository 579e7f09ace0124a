-------------------------------- MODULE Sums --------------------------------
(***************************************************************************)
(* The total of a sequence of numbers, as a recursive function over its    *)
(* prefixes: limits on sizes and characters are stated with it.            *)
(***************************************************************************)
EXTENDS Naturals, Sequences

Total(s) ==
    LET upTo[n \in 0 .. Len(s)] == IF n = 0 THEN 0 ELSE upTo[n - 1] + s[n]
    IN  upTo[Len(s)]
=============================================================================
