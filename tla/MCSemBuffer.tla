---------------------------- MODULE MCSemBuffer -----------------------------
(* Instances of SemBuffer for TLC.                                         *)
EXTENDS SemBuffer, TLC

CONSTANTS t1, t2, t3, a, b

ThreadSet == {t1, t2, t3}
ItemSet == {a, b}
AllFaults == {"once", "sem_init", "sem_wait", "mutex_lock", "mutex_unlock", "sem_post"}
\* Nothing fails, everything may fail, or everything but pthread_once.
ThreeFaultSets == {{}, AllFaults, AllFaults \ {"once"}}
Symmetry == Permutations(ThreadSet) \cup Permutations(ItemSet)
=============================================================================
