------------------------------ MODULE MCBlocks ------------------------------
(* Three heap blocks, two variables; a closure captures a variable, two, a *)
(* block, or a variable and a block.                                       *)
EXTENDS Blocks

CONSTANTS b1, b2, b3, v1, v2

MCHeapBlocks == {b1, b2, b3}
MCVars == {v1, v2}
MCCaptures ==
  {<<>>, <<Var(v1)>>, <<Var(v1), Var(v2)>>, <<Blk(b1)>>, <<Var(v1), Blk(b2)>>,
   <<Blk(b1), Var(v2)>>}
=============================================================================
