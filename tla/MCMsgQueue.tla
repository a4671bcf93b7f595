----------------------------- MODULE MCMsgQueue -----------------------------
(* MsgQueue on small sets of threads and buffers.                          *)
EXTENDS MsgQueue, TLC

CONSTANTS p1, p2, c1, c2, m1, m2, m3

TwoProducers == {p1, p2}
OneConsumer == {c1}
TwoConsumers == {c1, c2}
TwoMessages == {m1, m2}
ThreeMessages == {m1, m2, m3}

\* Threads and buffers are interchangeable: sound for safety properties only.
Symmetry == Permutations(TwoProducers) \cup Permutations(TwoConsumers)
                \cup Permutations(ThreeMessages)
=============================================================================
