----------------------------- MODULE LineFilter -----------------------------
(* Filtering a sequence, as Iterator::filter and Vec::retain do: a          *)
(* recursive function, which can be reasoned about.                         *)
EXTENDS Naturals, Sequences

(* What is kept of the first n items, for each n. *)
KeptOf(items, drop) ==
    LET kept[n \in 0 .. Len(items)] ==
            IF n = 0 THEN << >>
            ELSE IF items[n] \in drop THEN kept[n - 1] ELSE Append(kept[n - 1], items[n])
    IN  kept
Without(items, drop) == KeptOf(items, drop)[Len(items)]
=============================================================================
