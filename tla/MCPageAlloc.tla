---------------------------- MODULE MCPageAlloc ----------------------------
(* PageAlloc on seven page frames, of which 0 to 4 are ZONE_DMA and 5 and 6
   ZONE_NORMAL: 4 and 5 are buddies in different zones, the buddy of 6 is a hole. *)
EXTENDS PageAlloc

MCPfns == 0 .. 6
MCZone == [p \in Pfns |-> IF p < 5 THEN "DMA" ELSE "NORMAL"]
MCBootBlocks == {<<0, 2>>, <<4, 0>>, <<5, 0>>, <<6, 0>>}
MCCpu == [t \in Tasks |-> t]
=============================================================================
