------------------------------- MODULE UserVDO -------------------------------
(***************************************************************************)
(* The offline VDO tools of src/src/c++/vdo/user: formatVDOWithNonce and   *)
(* configureAndWriteVDO, setVDOReadOnlyMode and forceVDORebuild            *)
(* (vdoConfig.c), loadVDO, saveVDO and the slab arithmetic of userVDO.c,   *)
(* and the argument parsing and slab lookup of vdoDebugMetadata.c.  One    *)
(* tool runs at a time against the device; between tool runs the VDO the   *)
(* device holds may be started, which writes its own metadata.             *)
(*                                                                         *)
(* Every block of the device after the geometry block is tagged with the   *)
(* format that produced it (gen, a history variable; 0 for what was on the *)
(* device at the start).  A block is zeroed, holds a VDO's metadata, or    *)
(* holds a super block with its component states.  The geometry block is   *)
(* kept as the geometry it decodes to: GeometryBlock checks that a load of *)
(* it returns the geometry last written, or fails.  Each write of a tool   *)
(* is one step, and a tool whose write fails, or that dies, stops between  *)
(* two steps.                                                              *)
(***************************************************************************)
EXTENDS Integers, FiniteSets

CONSTANTS
  Nonces,          \* nonces a format is given (formatVDO: current_time_us())
  IndexSizes,      \* vdo_compute_index_blocks of the index configurations
                   \* formatted with; -1 for one it refuses
  PhysicalBlocks,  \* config->physical_blocks: the size of the device
  RootCount,       \* DEFAULT_VDO_BLOCK_MAP_TREE_ROOT_COUNT
  JournalSize,     \* config->recovery_journal_size
  SummaryBlocks,   \* VDO_SLAB_SUMMARY_BLOCKS
  SlabSize,        \* config->slab_size, a power of two
  MaxFormats,      \* bound: formats in a behaviour
  MaxArgs          \* MAX_PBNS and MAX_SEARCH_LBNS

Pbns == 1 .. PhysicalBlocks - 1          \* the blocks after the geometry block
Gens == 0 .. MaxFormats
VdoStates == {"NEW", "CLEAN", "READ_ONLY_MODE", "FORCE_REBUILD"}

(* The component states a super block records: the nonce, the vdo_state   *)
(* and where the data region, and so the fixed layout, starts.            *)
NoStates == [nonce |-> 0, state |-> "NONE", start |-> 0]
Zero(g) == [gen |-> g, kind |-> "zero", vdo |-> NoStates]
Meta(g) == [gen |-> g, kind |-> "meta", vdo |-> NoStates]
Super(g, vdo) == [gen |-> g, kind |-> "super", vdo |-> vdo]

(* A geometry as a load decodes it: the format that wrote it, its nonce   *)
(* and vdo_get_data_region_start (1 + the index blocks, as                 *)
(* vdo_initialize_volume_geometry lays the regions out).                  *)
NoGeometry == [gen |-> -1, nonce |-> 0, start |-> 0]

-----------------------------------------------------------------------------
(* The fixed layout makeFixedLayoutFromConfig asks for, one block past the *)
(* super block: the block map roots first, the journal and the slab       *)
(* summary at the end of the device, the block allocator between.  The    *)
(* layout code (vdo-layout.c) and vdo_configure_slab_depot are not among   *)
(* the sources; the depot holds as many whole slabs as its partition does. *)
BlockMapPartition(s) == s + 1 .. s + RootCount
AllocatorEnd == PhysicalBlocks - SummaryBlocks - JournalSize
JournalPartition == AllocatorEnd .. PhysicalBlocks - SummaryBlocks - 1
Metadata(s) == BlockMapPartition(s) \cup JournalPartition
Depot(s) ==
  [first |-> s + 1 + RootCount,
   last |-> s + 1 + RootCount + SlabSize * ((AllocatorEnd - (s + 1 + RootCount)) \div SlabSize)]
Configurable(s) == Depot(s).last > Depot(s).first

(* A VDO of format g with the given states, over a device of zeros. *)
VdoImage(g, vdo) ==
  [p \in Pbns |-> CASE p = vdo.start -> Super(g, vdo)
                    [] p \in Metadata(vdo.start) -> Meta(g)
                    [] OTHER -> Zero(0)]

-----------------------------------------------------------------------------
VARIABLES
  geometry,        \* the geometry block, as a load decodes it
  blocks,          \* the rest of the device
  tool,            \* the format in progress: its step, format, nonce,
                   \* data region start, and the next block clearPartition writes
  formats,         \* formats started
  formatResult,    \* what the last format returned
  lookup,          \* the last slab findSlabJournalEntries read
  pbnCount,        \* vdoDebugMetadata's pbnCount
  searchLBNCount,  \* vdoDebugMetadata's searchLBNCount
  argWrite         \* the index processArgs last stored an argument at

vars == <<geometry, blocks, tool, formats, formatResult, lookup, pbnCount,
          searchLBNCount, argWrite>>
debugVars == <<lookup, pbnCount, searchLBNCount, argWrite>>

Idle == [step |-> "idle", gen |-> 0, nonce |-> 0, start |-> 0, at |-> 0]
NoLookup == [slab |-> -1, slabs |-> 0]
NoWrite == -1

Starts == {1 + i : i \in IndexSizes \ {-1}}

Init ==
  /\ \/ geometry = NoGeometry /\ blocks = [p \in Pbns |-> Zero(0)]
     \/ \E n \in Nonces, s \in Starts, st \in {"CLEAN", "READ_ONLY_MODE"} :
          /\ Configurable(s)
          /\ geometry = [gen |-> 0, nonce |-> n, start |-> s]
          /\ blocks = VdoImage(0, [nonce |-> n, state |-> st, start |-> s])
  /\ tool = Idle
  /\ formats = 0
  /\ formatResult = "NONE"
  /\ lookup = NoLookup
  /\ pbnCount = 0
  /\ searchLBNCount = 0
  /\ argWrite = NoWrite

-----------------------------------------------------------------------------
(* loadVDO: vdo_load_volume_geometry, then loadVDOWithGeometry: read and   *)
(* decode the super block at the start of the data region (a block that   *)
(* is not a super block fails its checksum) and, when validateConfig,      *)
(* vdo_validate_component_states, which refuses a nonce other than the     *)
(* geometry's.                                                             *)
LoadVDO(validateConfig) ==
  LET sb == blocks[geometry.start]
  IN  IF \/ geometry = NoGeometry
         \/ sb.kind # "super"
         \/ validateConfig /\ sb.vdo.nonce # geometry.nonce
      THEN [ok |-> FALSE, gen |-> -1, vdo |-> NoStates]
      ELSE [ok |-> TRUE, gen |-> sb.gen, vdo |-> sb.vdo]

(* clearPartition's buffer: the largest power of two, up to 4096 blocks,  *)
(* that divides the partition's size.                                      *)
RECURSIVE Doubled(_, _)
Doubled(bufferBlocks, n) ==
  IF bufferBlocks < 4096 /\ n % 2 = 0 THEN Doubled(2 * bufferBlocks, n \div 2) ELSE bufferBlocks
BufferBlocks(size) == Doubled(1, size)

(* Mutant: the geometry block is left in place while the format writes. *)
FormatKeepGeometry(nonce, indexBlocks) ==
  /\ tool = Idle
  /\ formats < MaxFormats
  /\ indexBlocks # -1
  /\ Configurable(1 + indexBlocks)
  /\ formats' = formats + 1
  /\ tool' = [step |-> "clearBlockMap", gen |-> formats + 1, nonce |-> nonce,
              start |-> 1 + indexBlocks, at |-> 2 + indexBlocks]
  /\ formatResult' = "NONE"
  /\ UNCHANGED <<geometry, blocks>>
  /\ UNCHANGED debugVars

(* formatVDOWithNonce, up to the first partition clear: validate the      *)
(* config, make the UserVDO, initialize the geometry (which refuses an    *)
(* index configuration vdo_compute_index_blocks refuses), clear the        *)
(* geometry block, then configureVDO, which fails when the layout holds no *)
(* slab.  Either the call fails before anything is written, or the         *)
(* geometry is gone.                                                       *)
FormatVDOWithNonce(nonce, indexBlocks) ==
  /\ tool = Idle
  /\ formats < MaxFormats
  /\ \/ /\ formatResult' = "ERROR"
        /\ UNCHANGED <<geometry, blocks, tool, formats>>
     \/ /\ indexBlocks # -1
        /\ geometry' = NoGeometry
        /\ formats' = formats + 1
        /\ IF Configurable(1 + indexBlocks)
             THEN /\ tool' = [step |-> "clearBlockMap", gen |-> formats + 1, nonce |-> nonce,
                              start |-> 1 + indexBlocks, at |-> 2 + indexBlocks]
                  /\ formatResult' = "NONE"
             ELSE /\ tool' = Idle
                  /\ formatResult' = "ERROR"
        /\ UNCHANGED blocks
  /\ UNCHANGED debugVars

(* One writer call of clearPartition: bufferBlocks zeroed blocks from pbn, *)
(* while pbn < start + size.  The block map partition is cleared first,   *)
(* then the recovery journal.                                              *)
ClearPartition ==
  LET part == IF tool.step = "clearBlockMap" THEN BlockMapPartition(tool.start) ELSE JournalPartition
      end == tool.at + BufferBlocks(Cardinality(part))
  IN  /\ tool.step \in {"clearBlockMap", "clearJournal"}
      /\ blocks' = [p \in Pbns |-> IF tool.at <= p /\ p < end THEN Zero(tool.gen) ELSE blocks[p]]
      /\ tool' = CASE end \in part -> [tool EXCEPT !.at = end]
                   [] tool.step = "clearBlockMap" -> [tool EXCEPT !.step = "clearJournal", !.at = AllocatorEnd]
                   [] OTHER -> [tool EXCEPT !.step = "saveSuperBlock"]
      /\ UNCHANGED <<geometry, formats, formatResult>>
      /\ UNCHANGED debugVars

(* saveVDO(vdo, true), first write: encode the component states (state    *)
(* VDO_NEW, as configureVDO leaves it) and write the super block.          *)
SaveSuperBlock ==
  /\ tool.step = "saveSuperBlock"
  /\ blocks' = [blocks EXCEPT ![tool.start] =
                  Super(tool.gen, [nonce |-> tool.nonce, state |-> "NEW", start |-> tool.start])]
  /\ tool' = [tool EXCEPT !.step = "writeGeometry"]
  /\ UNCHANGED <<geometry, formats, formatResult>>
  /\ UNCHANGED debugVars

(* Mutant: saveVDO(vdo, false): the super block is written, the geometry *)
(* is not.                                                                 *)
WriteGeometrySkipped ==
  /\ tool.step = "writeGeometry"
  /\ tool' = Idle
  /\ formatResult' = "SUCCESS"
  /\ UNCHANGED <<geometry, blocks, formats>>
  /\ UNCHANGED debugVars

(* saveVDO(vdo, true), second write: vdo_write_volume_geometry; the format *)
(* returns its result.                                                     *)
WriteVolumeGeometry ==
  /\ tool.step = "writeGeometry"
  /\ geometry' = [gen |-> tool.gen, nonce |-> tool.nonce, start |-> tool.start]
  /\ tool' = Idle
  /\ formatResult' = "SUCCESS"
  /\ UNCHANGED <<blocks, formats>>
  /\ UNCHANGED debugVars

(* A write of the format fails, and configureAndWriteVDO returns its      *)
(* error; or the process dies.  What it wrote stays.                       *)
FormatFails ==
  /\ tool # Idle
  /\ tool' = Idle
  /\ formatResult' = "ERROR"
  /\ UNCHANGED <<geometry, blocks, formats>>
  /\ UNCHANGED debugVars

(* updateVDOSuperBlockState: loadVDO without validating the config, the   *)
(* read-only check, and saveVDO(vdo, false), which writes the super block  *)
(* at the data region start of the geometry it loaded.  A call that fails  *)
(* writes nothing.                                                          *)
UpdateVDOSuperBlockState(requireReadOnly, newState) ==
  LET l == LoadVDO(FALSE)
  IN  /\ tool = Idle
      /\ l.ok
      /\ requireReadOnly => l.vdo.state = "READ_ONLY_MODE"
      /\ blocks' = [blocks EXCEPT ![geometry.start] = Super(l.gen, [l.vdo EXCEPT !.state = newState])]
      /\ UNCHANGED <<geometry, tool, formats, formatResult>>
      /\ UNCHANGED debugVars

(* vdoForceRebuild and vdoReadOnly. *)
ForceVDORebuild == UpdateVDOSuperBlockState(TRUE, "FORCE_REBUILD")
SetVDOReadOnlyMode == UpdateVDOSuperBlockState(FALSE, "READ_ONLY_MODE")

(* The VDO is started (by the kernel module, not among the sources): it   *)
(* loads and validates the super block, writes block map pages and        *)
(* journal blocks into its partitions, and leaves the super block clean   *)
(* or, after an error, in read-only mode.                                  *)
RunVDO ==
  LET l == LoadVDO(TRUE)
  IN  /\ tool = Idle
      /\ l.ok
      /\ \E st \in {"CLEAN", "READ_ONLY_MODE"} :
           blocks' = [p \in Pbns |-> CASE p = geometry.start -> Super(l.gen, [l.vdo EXCEPT !.state = st])
                                       [] p \in Metadata(l.vdo.start) -> Meta(l.gen)
                                       [] OTHER -> blocks[p]]
      /\ UNCHANGED <<geometry, tool, formats, formatResult>>
      /\ UNCHANGED debugVars

-----------------------------------------------------------------------------
(* setDerivedSlabParameters: the slab size shift (ilog2), the slab count   *)
(* (vdo_compute_slab_count) and the slab offset mask.                      *)
RECURSIVE ILog2(_)
ILog2(x) == IF x <= 1 THEN 0 ELSE 1 + ILog2(x \div 2)
SlabSizeShift == ILog2(SlabSize)
ComputeSlabCount(depot) == (depot.last - depot.first) \div 2 ^ SlabSizeShift

(* Mutant: --pbn stored without the MAX_PBNS test. *)
ProcessArgUnchecked(c) ==
  /\ tool = Idle
  /\ IF c = "end"
       THEN /\ pbnCount' = 0 /\ searchLBNCount' = 0 /\ argWrite' = NoWrite
       ELSE /\ searchLBNCount <= MaxArgs /\ pbnCount <= MaxArgs
            /\ IF c = "pbn"
                 THEN /\ argWrite' = pbnCount /\ pbnCount' = pbnCount + 1
                      /\ UNCHANGED searchLBNCount
                 ELSE /\ argWrite' = searchLBNCount /\ searchLBNCount' = (searchLBNCount + 1) % 256
                      /\ UNCHANGED pbnCount
  /\ UNCHANGED <<geometry, blocks, tool, formats, formatResult, lookup>>

(* vdoDebugMetadata's processArgs, one option at a time: a --pbn is       *)
(* refused once pbnCount is MAX_PBNS, and a --searchLBN on the same test   *)
(* of pbnCount; a refusal, or the end of the arguments, ends the tool      *)
(* (main exits), and the next run starts from 0.  Bound: no option is      *)
(* parsed once an argument has been stored one past its array.            *)
ProcessArg(c) ==
  /\ tool = Idle
  /\ IF c = "end" \/ pbnCount = MaxArgs
       THEN /\ pbnCount' = 0 /\ searchLBNCount' = 0 /\ argWrite' = NoWrite
       ELSE /\ searchLBNCount <= MaxArgs
            /\ IF c = "pbn"
                 THEN /\ argWrite' = pbnCount /\ pbnCount' = pbnCount + 1
                      /\ UNCHANGED searchLBNCount
                 ELSE /\ argWrite' = searchLBNCount /\ searchLBNCount' = (searchLBNCount + 1) % 256
                      /\ UNCHANGED pbnCount
  /\ UNCHANGED <<geometry, blocks, tool, formats, formatResult, lookup>>

(* findSlabJournalEntries on a dump of the device's VDO (readVDOFromDump    *)
(* loads it without validating the config; allocateMetadataSpace reads one *)
(* SlabState per slab of vdo->slabCount): a pbn outside the depot is       *)
(* skipped, any other is looked up in slabs[offset >> slabSizeShift].      *)
FindSlabJournalEntries(pbn) ==
  LET l == LoadVDO(FALSE)
      depot == Depot(l.vdo.start)
  IN  /\ tool = Idle
      /\ l.ok
      /\ lookup' = IF pbn < depot.first \/ pbn > depot.last THEN NoLookup
                   ELSE [slab |-> (pbn - depot.first) \div 2 ^ SlabSizeShift,
                         slabs |-> ComputeSlabCount(depot)]
      /\ UNCHANGED <<geometry, blocks, tool, formats, formatResult, pbnCount, searchLBNCount, argWrite>>

-----------------------------------------------------------------------------
Next ==
  \/ \E n \in Nonces, i \in IndexSizes : FormatVDOWithNonce(n, i)
  \/ ClearPartition
  \/ SaveSuperBlock
  \/ WriteVolumeGeometry
  \/ FormatFails
  \/ ForceVDORebuild
  \/ SetVDOReadOnlyMode
  \/ RunVDO
  \/ \E c \in {"pbn", "searchLBN", "end"} : ProcessArg(c)
  \/ \E pbn \in Pbns : FindSlabJournalEntries(pbn)

Spec == Init /\ [][Next]_vars

-----------------------------------------------------------------------------
Contents == [gen : Gens, kind : {"zero", "meta"}, vdo : {NoStates}]
            \cup [gen : Gens, kind : {"super"},
                  vdo : [nonce : Nonces, state : VdoStates, start : Starts]]

TypeOK ==
  /\ geometry \in {NoGeometry} \cup [gen : Gens, nonce : Nonces, start : Starts]
  /\ blocks \in [Pbns -> Contents]
  /\ tool.step \in {"idle", "clearBlockMap", "clearJournal", "saveSuperBlock", "writeGeometry"}
  /\ formats \in 0 .. MaxFormats
  /\ formatResult \in {"NONE", "SUCCESS", "ERROR"}
  /\ pbnCount \in 0 .. MaxArgs
  /\ searchLBNCount \in 0 .. MaxArgs + 1
  /\ argWrite \in {NoWrite} \cup 0 .. MaxArgs

(* Whenever loadVDO would succeed, what it loads is one format's VDO whole: *)
(* the super block at the geometry's data region start, the layout its    *)
(* states record, and every block of that layout's block map and recovery *)
(* journal come from the format that wrote the geometry.  This is what    *)
(* configureAndWriteVDO's order (clear the geometry first, write it last) *)
(* must give whatever step a format fails or dies at, and what            *)
(* setVDOReadOnlyMode and forceVDORebuild rely on, since they load without *)
(* checking the super block's nonce.                                       *)
LoadableVdoIsWhole ==
  LET l == LoadVDO(FALSE)
  IN  l.ok => /\ l.gen = geometry.gen
              /\ l.vdo.start = geometry.start
              /\ \A p \in Metadata(l.vdo.start) : blocks[p].gen = l.gen

(* A format that returned success leaves a device that loadVDO, with the  *)
(* config validated, loads as that format's VDO, whatever tools and runs  *)
(* of the VDO came after it.                                               *)
FormattedVdoLoads ==
  formatResult = "SUCCESS" => LoadVDO(TRUE).ok /\ LoadVDO(TRUE).gen = formats

(* findSlabJournalEntries reads only the slabs allocateMetadataSpace read: *)
(* a pbn it does not skip lies in one of vdo->slabCount slabs.             *)
SlabLookupInRange == lookup # NoLookup => lookup.slab < lookup.slabs

(* processArgs stores every --pbn and --searchLBN inside its arrays of     *)
(* MAX_PBNS and MAX_SEARCH_LBNS entries.                                   *)
ArgumentsInArrays == argWrite < MaxArgs
====
