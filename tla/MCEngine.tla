------------------------------ MODULE MCEngine --------------------------------
(* Instances of Engine for TLC.                                              *)
EXTENDS Engine, TLC

CONSTANTS c1, c2, s1, s2, s3, e1, e2, h1, h2, h3

MCSessions == {c1, c2}
MCSockets == {s1, s2, s3}
MCEndpoints == {e1, e2}
MCHosts == {h1, h2, h3}

\* h1 has a backend behind the reverse proxy, h2 is blacklisted as a forward host, h3
\* is neither.
MCReverseMap == [h \in {h1} |-> e1]
MCBlocked == {h2}

\* Sessions and sockets are interchangeable; only safety is checked with this.
MCSymmetry == Permutations(MCSessions) \cup Permutations(MCSockets)
===============================================================================
