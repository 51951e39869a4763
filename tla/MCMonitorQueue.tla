---------------------------- MODULE MCMonitorQueue -----------------------------
(* Small instances of MonitorQueue for TLC.                                    *)
EXTENDS MonitorQueue, TLC

CONSTANTS m1, m2

Symmetry == Permutations(Monitors)
================================================================================
