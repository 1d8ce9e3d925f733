------------------------------ MODULE MC_Memory ------------------------------
(* The heap of the transfer engine under the requests of MC_FileTransfer.   *)
EXTENDS Memory, MC_FileTransfer
=============================================================================
