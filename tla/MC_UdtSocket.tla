---------------------------- MODULE MC_UdtSocket ----------------------------
(* Instances of UdtSocket for TLC: one initial sequence number (the peers  *)
(* in the model always echo it) and two packet sizes, so that both sides   *)
(* can start with different MTUs.                                          *)
EXTENDS UdtSocket

MCInitSeqs == {1}
MCMTUs == {1, 2}
=============================================================================
