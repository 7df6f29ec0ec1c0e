--------------------------- MODULE MCConnectionPool ---------------------------
(* Instances of ConnectionPool for TLC.                                      *)
EXTENDS ConnectionPool, TLC

CONSTANTS c1, c2, c3, s1, s2, s3, e1, e2

MCCallers == {c1, c2, c3}
MCSockets == {s1, s2, s3}
MCEndpoints == {e1, e2}

\* Callers and sockets are interchangeable, and so are endpoints; the properties
\* checked with this set are safety properties.
MCSymmetry == Permutations(MCCallers) \cup Permutations(MCSockets) \cup Permutations(MCEndpoints)
===============================================================================
