------------------------------- MODULE MCSem -------------------------------
EXTENDS Sem, TLC

MCMaxTicket == [s \in WaitQueues |-> 1]

MCSymmetry == Permutations(Threads)
=============================================================================
