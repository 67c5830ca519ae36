------------------------------ MODULE MCSched ------------------------------
EXTENDS SchedInv
=============================================================================
