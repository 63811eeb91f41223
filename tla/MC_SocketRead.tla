---------------------------- MODULE MC_SocketRead ----------------------------
EXTENDS SocketRead
=============================================================================
