------------------------------ MODULE MCNetRx ------------------------------
EXTENDS NetRx, TLC

\* sem_init(&rxef_sem, 1)
MCMaxTicket == [s \in WaitQueues |-> 1]
=============================================================================
