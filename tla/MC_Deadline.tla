---------------------------- MODULE MC_Deadline ----------------------------
EXTENDS Deadline
=============================================================================
