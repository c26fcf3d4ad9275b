------------------------------ MODULE MCPcMain ------------------------------
(* Instances of PcMain for TLC.                                            *)
EXTENDS PcMain, TLC

CONSTANTS p1, p2, c1, c2, main, sig, a

ProducerSet == {p1, p2}
OneProducer == {p1}
ConsumerSet == {c1, c2}
OneConsumer == {c1}
LiveThreadSet == OneProducer \cup ConsumerSet \cup {main, sig}
SafeThreadSet == ProducerSet \cup OneConsumer \cup {main, sig}
OneItem == {a}
AllSites == Sites
\* Signals and broadcasts may fail; lock, wait and unlock do not, and no
\* spurious wakeup comes to the rescue of a lost one.
WakeupsMayFail == {"cond_signal", "cond_broadcast"}
\* Every failure of the program but that of the lock in seterror.
ErrorsReported == FaultKinds \ {"errorlock"}
\* The failures that end a thread but not the program.
ThreadsFail == {"rand", "sigthread"}
ProducerSymmetry == Permutations(ProducerSet)
=============================================================================
