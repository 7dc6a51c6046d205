------------------------------ MODULE MCLogdisk ------------------------------
(* A small buffer, to which the longest line is a quarter.                 *)
EXTENDS Logdisk

MCPendingMax == 8
MCLineMax == 2
MCMaxBytes == 9
=============================================================================
