---------------------------- MODULE MCCondBuffer ----------------------------
(* Instances of CondBuffer for TLC.                                        *)
EXTENDS CondBuffer, TLC

CONSTANTS t1, t2, t3, a, b

ThreeThreads == {t1, t2, t3}
ItemSet == {a, b}
OneItem == {a}
AllSites == Sites
\* Everything but a signal or a broadcast that reports an error.
WakeupsDelivered == Sites \ {"cond_signal", "cond_broadcast"}
ThreadSymmetry == Permutations(ThreeThreads)
=============================================================================
