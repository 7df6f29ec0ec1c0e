------------------------------- MODULE Selection -------------------------------
(* std::erase_if, and a loop that passes some elements over: what is left of a   *)
(* sequence, in its order.                                                       *)
EXTENDS Integers, Sequences

\* The elements of s at the positions I.
Chosen(s, I) ==
    LET left[n \in 0 .. Len(s)] ==
            IF n = 0 THEN <<>>
            ELSE IF n \in I THEN Append(left[n - 1], s[n]) ELSE left[n - 1]
    IN  left[Len(s)]

===============================================================================
