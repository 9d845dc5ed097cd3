-------------------------- MODULE MCPcapFileReader --------------------------
(* Small capture files for TLC. *)
EXTENDS PcapFileReader

Sizes4 == <<3, 5, 2, 6>>
Sizes3 == <<3, 5, 2>>
=============================================================================
