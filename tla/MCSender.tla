------------------------------- MODULE MCSender -------------------------------
(* Ids up to GenWrap; an origin is an incarnation and a block of it.       *)
EXTENDS Sender
MCGens == 0 .. GenWrap - 1
MCOrigins == (1 .. MaxRuns) \X (0 .. Blocks - 1)
=============================================================================
