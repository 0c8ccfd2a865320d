-------------------------------- MODULE MCLink --------------------------------
(* Generation ids are small numbers, an origin is an incarnation of the    *)
(* sender and a block of it, and every frame is one the assembler makes.   *)
EXTENDS Link

MCGens == 0 .. GenWrap - 1
MCOrigins == (1 .. MaxRuns) \X (0 .. Blocks - 1)
MCFrames ==
  UNION {{S!assemble_block(o, g, TxN, TxK, l)[p] : p \in 0 .. TxN + TxK - 1} :
           o \in MCOrigins, g \in MCGens, l \in TxLens}
=============================================================================
