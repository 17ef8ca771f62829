\* Formats over a blank device or over an existing VDO, failing or dying at
\* any write, the read-only and force-rebuild tools, runs of the VDO, and
\* the debug tool's argument parsing and slab lookups.
CONSTANTS
  Nonces <- MCNonces
  IndexSizes <- MCIndexSizes
  PhysicalBlocks <- MCPhysicalBlocks
  RootCount <- MCRootCount
  JournalSize <- MCJournalSize
  SummaryBlocks <- MCSummaryBlocks
  SlabSize <- MCSlabSize
  MaxFormats <- MCMaxFormats
  MaxArgs <- MCMaxArgs
SPECIFICATION Spec
INVARIANTS
  TypeOK
  LoadableVdoIsWhole
  FormattedVdoLoads
