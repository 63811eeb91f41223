--------------------------- MODULE MC_Multiplexer ---------------------------
EXTENDS Multiplexer

\* two dialling users, one of them in rendezvous mode
MCUsers == {"u1", "u2"}
MCRvUsers == {"u2"}
=============================================================================
