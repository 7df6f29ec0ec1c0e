------------------------------ MODULE Distributor ------------------------------
(* The static table of ngx::agent::distributor (agent/distributor.cpp).  A name   *)
(* is a sequence of tokens, a port 0 is one that is missing or is no number.      *)
EXTENDS Integers, Sequences, SequencesExt

CONSTANT Addresses      \* the texts that make_address takes: no names among them

LocalHost == <<"localhost">>

Usable(backend) == backend.host \in Addresses /\ backend.port # 0
Endpoint(backend) == <<backend.host, backend.port>>

\* The table with this backend for a name.
With(map, name, endpoint) == [x \in DOMAIN map \cup {name} |-> IF x = name THEN endpoint ELSE map[x]]

\* The addressable section, under the name of the positive one.
Addressable(config) ==
    IF ~ Usable(config.addressable) THEN <<>>
    ELSE With(<<>>, IF config.positive = <<>> THEN LocalHost ELSE config.positive, Endpoint(config.addressable))

\* load_reverse_map: an entry that names no address is skipped, and of several with
\* the same name the last counts.
Enter(map, e) == IF e.name = <<>> \/ ~ Usable(e) THEN map ELSE With(map, e.name, Endpoint(e))
LoadReverseMap(config) ==
    LET map[n \in 0 .. Len(config.reverseMap)] ==
            IF n = 0 THEN Addressable(config) ELSE Enter(map[n - 1], config.reverseMap[n])
    IN  map[Len(config.reverseMap)]

===============================================================================
