------------------------------ MODULE Filtering ------------------------------
(***************************************************************************)
(* The loop that the runner, the queue of workload jobs and the broker     *)
(* have in common: it goes through a slice and appends what it keeps to    *)
(* another one.  SelectSeq says the same, but nothing is known of it to    *)
(* the prover, while a recursive function can be reasoned about; the       *)
(* lemmas are in FilteringProofs.                                          *)
(***************************************************************************)
EXTENDS Naturals, Sequences

\* The entries of s that are in K, in the order of s.
Keeping(s, K) ==
    LET kept[n \in 0 .. Len(s)] ==
            IF n = 0 THEN <<>>
            ELSE IF s[n] \in K THEN Append(kept[n - 1], s[n]) ELSE kept[n - 1]
    IN  kept[Len(s)]
=============================================================================
