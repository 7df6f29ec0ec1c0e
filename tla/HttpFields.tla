------------------------------ MODULE HttpFields -------------------------------
(* What a container of header fields promises: for each name, whatever its case, *)
(* the values it has, in order.  There are no entries, no positions and no empty *)
(* values.                                                                       *)
EXTENDS Sequences, Selection

CONSTANTS
    Keys,       \* names in lower case
    Values,
    Empty       \* the value that counts as none

VARIABLE fields

Init == fields = [k \in Keys |-> <<>>]

Only(v) == IF v = Empty THEN <<>> ELSE <<v>>

\* A field gets the value v and no other, or v after those it had; an empty value is
\* none.
Put(f, k, v) == [f EXCEPT ![k] = Only(v)]
Add(f, k, v) == [f EXCEPT ![k] = @ \o Only(v)]

\* A field goes, or those of its values that are v.
Drop(f, k) == [f EXCEPT ![k] = <<>>]
DropValue(f, k, v) == [f EXCEPT ![k] = LET had == f[k] IN Chosen(had, {i \in DOMAIN had : had[i] # v})]

\* The fields of another message take the place of these.  None occurs twice.
Replace == fields' \in [Keys -> {Only(v) : v \in Values}]

Next ==
    \/ Replace
    \/ \E k \in Keys, v \in Values :
            fields' \in {Put(fields, k, v), Add(fields, k, v), Drop(fields, k), DropValue(fields, k, v)}

Spec == Init /\ [][Next]_fields

===============================================================================
