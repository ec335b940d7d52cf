---------------------------- MODULE MCPipeSync ------------------------------
(* A small instance of the publish pipe for TLC.                           *)
EXTENDS PipeSync, TLC
=============================================================================
