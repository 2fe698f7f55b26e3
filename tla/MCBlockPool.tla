---------------------------- MODULE MCBlockPool ----------------------------
(* Layouts in which the alignment costs nothing, some bytes or a block, and  *)
(* pools with fewer blocks than tasks.                                       *)
EXTENDS BlockPool

MCArguments ==
    {a \in [blk_size : {3, 6}, align : {1, 4, 8}, pool_addr : {4},
            pool_size : {16, 17, 24, 25}] :
        Created(a).blk_total \in {1, 2}}
=============================================================================
