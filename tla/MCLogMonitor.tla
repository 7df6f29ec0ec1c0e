----------------------------- MODULE MCLogMonitor -----------------------------
(* Instances of LogMonitor for TLC.                                           *)
EXTENDS LogMonitor, TLC

CONSTANTS w1, w2, w3, w4

MCWriters == {w1, w2, w3, w4}

MCAllFaults == {"open", "rename", "write"}

\* Writers are interchangeable; only safety is checked.
MCSymmetry == Permutations(MCWriters)
===============================================================================
