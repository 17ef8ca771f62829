---------------------------- MODULE MCUserVDO -----------------------------
(* Model-checking instance of UserVDO: a twelve-block device.              *)
EXTENDS UserVDO

(* Two nonces, so that a format may reuse the nonce of the VDO it          *)
(* replaces and the nonce check of vdo_validate_component_states cannot    *)
(* tell the two apart.                                                     *)
MCNonces == {1, 2}

(* No index, an index of three blocks, one of six (whose layout holds no   *)
(* slab, so configureVDO fails), and one vdo_compute_index_blocks refuses.  *)
(* The data region starts at block 1 or 4: the second layout's super block *)
(* and block map fall on the first one's block map and slabs.              *)
MCIndexSizes == {0, 3, 6, -1}

(* Block map roots 2..4 or 5..7 (three writer calls of one block each),    *)
(* slabs of two blocks from 5 or 8, the journal at 10 and the summary at   *)
(* 11.                                                                      *)
MCPhysicalBlocks == 12
MCRootCount == 3
MCJournalSize == 1
MCSummaryBlocks == 1
MCSlabSize == 2

MCMaxFormats == 2
MCMaxArgs == 2
=============================================================================
