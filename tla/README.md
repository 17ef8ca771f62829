# TLA+ models of the UDS index core (vdo-devel)

This directory holds TLA+ models of the deduplication index (UDS) sources in
`src/unnamed/` and of the mutable delta index in
`src/src/c++/uds/src/uds/delta-index.c`, and of the offline VDO tools in
`src/src/c++/vdo/user/`. TLC checks them. `PROJECT.json` lists the following:

- the components;
- the runs;
- the mutants that show each property can fail;
- the map from every TLA+ definition to the source lines it models;
- the findings;
- the hazards still open.

## 1. The sources and their parts

| File | Contents | Modelled |
|---|---|---|
| `part_001` | `index.c`: the index core. This covers the zones, the close protocol, the chapter writer, request dispatch, load/rebuild/replay, save and free. | The close protocol, writer, save and shutdown (`IndexChapters`); the dense request path of a zone (`IndexRequests`); load, rebuild, replay and suspend (`IndexRebuild`). Triage and the sparse barrier are not. |
| `part_000` | Memory allocation wrappers. | No. They have no state. An allocation failure appears as `AnnounceMayFail`. |
| `part_002` | Record-name byte extraction helpers. | No. Names stay abstract. |
| `part_003` | `volume-geometry.c`: the geometry block (index config, regions, release, checksum) and its write, clear and load. | Yes: `GeometryBlock`. |
| `part_004`–`part_006` | The offline VDO tools: block map examiner, metadata dump and slab summary reader. | No. They are single-threaded I/O with nothing for TLC to explore. |
| `uds/delta-index.c` | The delta index: zones of bit-packed delta lists, the coding of deltas, search with a hint, put, remove, set, the bit moves and rebalancing; the immutable page form and save/restore. | The mutable index on one zone (`DeltaIndex`, abstracted by `DeltaLists`). It also models the immutable page form that `pack_delta_index_page` writes and `verify_delta_index_page` and the search read, and saving a zone to a stream and restoring it (`DeltaIndexSave`). The big-endian page fallback, several zones and statistics are not modelled. |
| `uds/buffer.c` | The byte buffer used to encode and decode on-disk structures. The buffer itself (`Buffer`): wrap, make, compact, ensure space, reset end, get and put of bytes and of little-endian integers, as the delta index header is encoded and decoded through it. `GeometryBlock` uses its own little-endian codec of the same functions. |
| `vdo/base/encodings.h` | On-disk VDO structures and their inline helpers. | `vdo_crc32`, in `GeometryBlock`; `vdo_compute_slab_count`, in `UserVDO`. The slab, journal and block map layouts are data declarations with no operations. |
| `uds/index-page-map.h`, `vdo/base/slab.h`, `userLinux/uds/minisyslog.h` | Declarations of the index page map and of the slab, and a syslog wrapper. | No: declarations and logging, with no state changes of their own. |
| `vdo/user/vdoConfig.c`, `userVDO.c`, `vdoDebugMetadata.c` | The user-space tools that format a VDO, read and write its super block, and dump metadata. | `UserVDO`: formatting with its write order, the super-block state tools, loading, the slab arithmetic, and the debugger's argument parsing and slab lookup. The debugger's reading and printing of the dump are not. |

The specification also names these parts:

- the volume index;
- the open chapter;
- the chapter index;
- the volume and page cache;
- the sparse cache;
- the index page map.

Their code is not among the sources. The models use only their effects as `index.c` sees them:

- `put_open_chapter` returns the space remaining;
- `forget_chapter` forgets a chapter;
- `close_open_chapter` writes a chapter and returns a result;
- `discard_open_chapter` discards the saved open chapter and returns a result.

### How the index core works (`index.c`)

**Zones.** An index has `zone_count` zones. Each zone is served by its own thread, which reads a request queue. Each zone keeps the following:

- an open chapter;
- a writing chapter;
- `newest_virtual_chapter`;
- `oldest_virtual_chapter`.

**Chapter writer.** One chapter-writer thread merges the zones' closed chapters into one chapter and writes it to the volume. It works with these under `writer->mutex`:

- `zones_to_write`;
- `chapters[]`;
- `result`;
- `stop`;
- the index's own newest and oldest chapters.

**Closing a chapter (`open_next_chapter`).** A zone closes its open chapter either when the chapter fills (`put_record_in_zone`) or when an `ANNOUNCE_CHAPTER_CLOSED` message names it (`handle_chapter_closed`). The steps are:

1. `finish_previous_chapter` waits until the writer has committed the zone's previous chapter. It returns the writer's sticky `result`.
2. The zone swaps its open and writing chapters and bumps its newest chapter.
3. `start_closing_chapter` increments `zones_to_write` and hands the writing chapter to the writer.
4. The first zone to close the chapter announces it to every other zone. Each announcement is a separately allocated message, and each allocation can fail.
5. Every zone advances its oldest chapter by `chapters_to_expire`.
6. The last zone to close calls `forget_chapter` on the expired chapter.

**The writer (`close_chapters`).** The writer waits until `zones_to_write == zone_count`, then:

1. If the index was loaded from, or last saved as, a clean save, it discards the saved open chapter.
2. It writes the chapter.
3. Under the mutex, it bumps the index's chapters, records `result`, resets `zones_to_write` and broadcasts.

**Stopping.** The writer exits only when `stop` is set and `zones_to_write == 0`. `free_index` finishes the request queues and then joins the writer through `stop_chapter_writer`.

**Saving.** `save_index` runs only after requests have drained. It waits for `zones_to_write == 0`, saves the index state with the open chapter, and sets `has_saved_open_chapter`.

## 2. Modules

### `IndexChapters.tla`: the zones, the chapter writer, save and shutdown

**State.**

| Variable | Code |
|---|---|
| `newest[z]`, `oldest[z]` | `zone->newest/oldest_virtual_chapter` |
| `openSize[z]` | `open_chapter->size` |
| `queue[z]` | the chapter-closed messages in zone `z`'s queue, by the chapter they name |
| `zpc[z]` | where zone `z`'s thread is inside `open_next_chapter`: `closing` (waiting in `finish_previous_chapter`) or `announcing` (after `start_closing_chapter`) |
| `finished[z]` | the `finished_zones` value that `start_closing_chapter` returned |
| `wpc` | where the writer is |
| `zonesToWrite`, `chapters`, `result`, `stop` | the `struct chapter_writer` fields |
| `indexNewest`, `indexOldest` | `index->newest/oldest_virtual_chapter` |
| `hasSavedOpen`, `needToSave` | the `index` flags of the same names |
| `forgotten` | the chapters `forget_chapter` was called on |
| `quiesced` | requests have stopped arriving |
| `written` | the chapters the writer has written, including failed attempts |
| `savedOpen` | a saved open chapter is on disk |
| `savedNewest` | the index newest chapter at that save |

**Actions.**

| Action | Code |
|---|---|
| `ZonePutRecord(z)` | A data request adds a record (`put_record_in_zone`). `execute_zone_request` sets `need_to_save` as part of it. |
| `HandleChapterClosed(z)` | A chapter-closed message is dequeued. |
| `OpenNextChapter(z)` | `open_next_chapter` up to `start_closing_chapter`. It has two outcomes: `finish_previous_chapter` returns an error, or the chapter is closed. |
| `FinishClosingChapter(z)` | The rest of `open_next_chapter`: announce, expire, forget. |
| `AnnounceFails(z)` | `launch_zone_message` fails after `k` zones were sent the message, so `open_next_chapter` returns early. |
| `WriterStartClose` | The writer wakes with every zone counted and discards the saved open chapter. It has three outcomes: nothing saved, discarded, or discard failed. |
| `WriterCommit` | `close_open_chapter` and the commit under the mutex. The write may fail. |
| `WriterExit` | The writer's exit test. |
| `Quiesce` | The session stops sending requests. |
| `StopChapterWriter` | `free_index` after draining: `stop` is set. |
| `SaveIndex` | `save_index` after draining. |

**Constants.**

- `ZoneCount`, `Capacity`: records per zone's open chapter.
- `ChaptersPerVolume`: sets when chapters start to expire.
- `MaxChapter`: a bound on the chapter numbers.
- `AnnounceMayFail`, `DiscardMayFail`, `WriteMayFail`: switch each failure on or off.

`MCIndexChapters.tla` gives the constants their values.

**Abstractions.**

- **Data requests are not queued.** A client may enqueue a request before or after any message, so "a record is added" can happen whenever the zone thread is idle.
- **The drain before `free_index` and `save_index` is atomic.** Both functions run after requests stop and the zone queues are empty. Handling a chapter-closed message never produces a second message for a zone that has already seen the chapter, so draining first loses no behaviour. `ChapterClosedMessagesCurrent` checks the assumption `save_index` depends on: once `zones_to_write` is 0, every queued message is stale.
- **`Init` starts at chapter 0.** A loaded index starts at its saved chapter number. Every state after that is reachable from 0 by closing chapters, so no behaviour is lost.
- **`chapters_to_expire` comes from the specification.** It is 1 once the newest chapter reaches `chapters_per_volume` and 0 before that, because its code (`geometry.c`) is not among the sources.

### Fairness

Weak fairness is assumed only for the threads the index owns:

- each zone thread's handling of a queued message;
- each zone thread's closing steps;
- the writer's three steps.

Each of these threads waits on a condition variable that is broadcast on every change it depends on: `start_closing_chapter`, the commit and `stop_chapter_writer` all broadcast. So a runnable step of these threads stays enabled until it is taken.

Clients get no fairness. Requests, saves and shutdown may never come.

`CHECK_DEADLOCK FALSE` is set because the model really stops once the writer has exited. The hangs that matter are stated as the liveness properties `ChapterEventuallyCommitted` and `ShutdownCompletes`.

### `IndexRequests.tla`: the request path of a zone

This module covers one dense zone serving data requests:

- `execute_zone_request` and `dispatch_index_request`;
- `search_index_zone` and `remove_from_index_zone`;
- `get_record_from_zone`, `set_request_location`, `set_chapter_location`;
- `put_record_in_zone`, including the close of a full chapter;
- `enqueue_request` at `STAGE_INDEX`.

With one zone and a dense geometry, triage and the sparse barrier do nothing, and a chapter closes only when it fills. The multi-zone close is `IndexChapters`.

| State | Code |
|---|---|
| `newest`, `oldest` | `zone->newest_virtual_chapter`, `zone->oldest_virtual_chapter` |
| `openRecs`, `openDel` | the open chapter's live and deleted (tombstoned) records |
| `chapterRecs[c]` | the records chapter `c` holds once closed (the writing chapter, then the volume) |
| `vi[a]` | the volume index delta list at address `a`: a sequence of entries, the first a non-collision hint, the rest collision entries with the name |
| `cached` | chapters whose record pages are in the page cache |
| `reqs[s]`, `zq` | the request in client buffer `s` (type, name, `requeued`, `location`, `virtual_chapter`, `status`, `found`) and the zone's queue |
| `settled`, `lastPut` | ghost: the client-visible dictionary and the chapter each name was last put into |

**Actions.** Each zone action is one pass of `execute_zone_request` over the request at the head of the queue:

- `SearchParks`, `SearchHit` and `SearchMiss` are the three outcomes of `search_index_zone`: the page must be read; the volume index has an entry for the name (or an overflow collision entry); it has none, or only another name's hint.
- `RemoveParks`, `RemoveNothing` and `RemoveRecord` are the outcomes of `remove_from_index_zone`.
- `FailedRequeue` is the early answer at line 645.

Outside the zone thread:

- `ReadPage` and `ReadPageFails` are the page reader. It searches the page, sets the location to `RECORD_PAGE_LOOKUP` or `UNAVAILABLE` (or records the error), sets `requeued` and enqueues the request behind the zone's other requests.
- `EvictPage` is the page cache's eviction.
- `Submit` and `Collect` are clients.

**Abstractions.**

- The volume index's delta lists (not among the sources) are modelled by the effect the specification gives them. The lookup returns the collision entry with the name if there is one, else the first entry. Removing or expiring the first entry promotes the next entry to be the list's hint.
- Names are model values. `NameAddr` chooses which names share a delta list.
- Metadata is left out, because no property distinguishes it.

**Fairness.** Weak fairness is assumed for the zone thread and for each reader, because both serve their queues whenever there is work. Clients and eviction get no fairness.

**The client dictionary.** `settled[n]` is what a linearizable index would answer for `n`:

- it is "unknown" while a POST, UPDATE or DELETE of `n` is in flight, or after one failed;
- otherwise it is the effect of the last of those that completed.

A request records the answer `settled` implies when it is submitted. A mutating submit reopens the answers of every request for the name still in flight.

### `ChapterLifecycle.tla`: the abstract chapter window

What the close protocol promises, with threads, messages and the writer's handshake left out. Each zone has an open chapter (`open[z]`) and the oldest chapter it still searches (`oldest[z]`). The index has the count of committed chapters and the set of durable chapters. There are three actions:

- `Close(z)`: a zone closes only the chapter being collected, and only while its window fits in the volume;
- `Commit`: writes and commits the chapter once every zone has closed it;
- `Expire(z)`: drops the oldest chapter of a window that a close made too wide.

Commit and expiry are weakly fair. `IndexChapters` implements it through `Lifecycle == INSTANCE ChapterLifecycle WITH open <- newest, committed <- indexNewest, oldest <- oldest, durable <- written`. `OpenNextChapter` is `Close`, `FinishClosingChapter` is `Expire` (or a stutter before the volume is full), `WriterCommit` is `Commit`, and every other step stutters.

### `VolumeIndex.tla`: the volume index as `index.c` calls it

The delta lists (`volume-index.c`, `delta-index.c`) are not among the sources. `VolumeIndex` gives the effect the specification states for each call `index.c` makes: `Lookup` (`get_volume_index_record`), `PutEntry`, `SetEntryChapter`, `RemoveEntry` and `Purge` (expiry by `set_volume_index_open_chapter`). A list is a sequence of entries: the first is a hint with no name, the later ones are collision entries that carry the name. `NameAddr` decides which names share a list. `IndexRequests` and `IndexRebuild` extend it.

### `IndexRebuild.tla`: crash, load, rebuild, replay and suspend

This module covers what survives a crash and how `make_index` gets it back:

- `close_chapters` discards the saved open chapter on its first close after a load or a save (`StartWrite`), then writes the chapter into its slot (`FinishWrite`);
- `save_index` (`SaveIndex`);
- a crash, or a close and reopen, with open type `LOAD` or `NO_REBUILD` (`Restart`);
- `load_index` (`LoadSaved`) and its failure (`LoadFails`);
- `rebuild_index` (`StartRebuild`): the chapter boundaries on disk, and the skip of the chapter the open chapter shadows;
- `replay_volume`, `replay_chapter` and `replay_record` (`ReplayChapter`, `ReplayFails`, `ReplayRecord`, `NextChapter`, `ReplayDone`);
- `check_for_suspend` (`SuspendReplay`, `ReplayBusy`, and `PastSuspendCheck`: it returns false for any status but SUSPENDING, and a waiting replay goes on only once resumed), with the session's suspend, resume and free (`SessionSuspend`, `SessionResume`, `SessionFree`). The session is not among the sources, so these three are modelled from the specification.

| State | Code |
|---|---|
| `volume[p]` | physical chapter slot `p`: the chapter in it, its records, and whether its write completed |
| `newest`, `oldest`, `hasSaved` | the `index` fields of the same names |
| `writing` | the writer is between the discard and the end of its write |
| `save` | the saved index state: whether it loads, and the chapters it records |
| `phase`, `openType`, `status` | where `make_index` is, its `open_type`, and `load_context->status` |
| `vi`, `cur`, `pending`, `started`, `waiting` | the volume index being rebuilt and the replay's position in `replay_volume` and `check_for_suspend` |
| `restarts` | crashes and reopens so far, bounded by `MaxRestarts` |

One chapter closes at a time; the zones and the multi-zone close are `IndexChapters`. A chapter written in part does not read back, so `ReplayFails` is the only step a replay of it can take. `QuickResuspend` lets the session suspend again before a resumed replay thread has run; it is off in the passing run (see finding 5).

**Fairness.** Weak fairness on the loading thread's steps (`Loader`) and on the end of a chapter write (`FinishWrite`). Both are threads the index owns and that run while they have work. Clients, crashes and the session get none.

### `GeometryBlock.tla`: the volume geometry block

The geometry block is the first block of a VDO device. It records the release that wrote it, a nonce and uuid, the bio offset (version 5 only), the index and data regions, and the index configuration, followed by a CRC-32 of everything before it. The module models it byte for byte:

- `LE`/`FromLE`, `EncodeBool`/`DecodeBool`, `EncodeHeader`/`DecodeHeader`, `ValidateHeader` and `Crc32` stand for the buffer, header and checksum helpers, which are not among the sources. The CRC is the standard reflected CRC-32; `MCGeometryBlock` checks its value on "123456789".
- `Encode*`/`Decode*` follow the field order of `encode_volume_geometry`, `decode_volume_geometry` and their helpers, including the version test on `bio_offset` at each side.
- `DecodeGeometryBlock`, `ParseGeometryBlock` and `EncodeGeometryBlock` keep every check of the code in its order: magic, header by major version, the size assertion, the release check, then the checksum.
- `ComputeIndexBlocks` and `InitializeVolumeGeometry` build the geometries a tool writes.

| State | Meaning |
|---|---|
| `disk` | the first 101 bytes of the block (no decode reads past them); the rest of the 4096-byte buffer is zero |
| `written` | the last write (geometry and version), or cleared, or blank |
| `faults` | bytes that went bad since the last write |
| `loaded` | the last load's result, and the faults it saw |

The actions are `WriteGeometry(g, v)` (`vdo_write_volume_geometry_with_version`), `ClearGeometry`, `LoadGeometry`, and `Corrupt(p)`, a bad byte at position `p`. `Init` is a blank device or a block another release wrote. Nothing runs concurrently here. What the model checks is that the decoder and the encoder agree, for each version, and that the checks turn away every damaged block. Every block a write can produce is computed once, as a set, when TLC starts.


### `DeltaIndex.tla` and `DeltaLists.tla`: the mutable delta index

`DeltaIndex` models one zone of `delta-index.c` bit for bit. `mem` is the
zone's memory as bits (bit i is bit i % 8 of byte i / 8), `dl` the delta
list headers with the head guard at 0 and the tail guard at `ListCount + 1`,
and `recordCount`/`collisionCount` the zone's counters. An entry is stored
as the code stores it: the payload, the key delta in the code of
`compute_coding_constants` (`EncodeDelta`, `DecodeDelta`, `SetDelta`), and
for a collision entry the full name.

- `GetDeltaIndexEntry` is `get_delta_index_entry`: `StartDeltaIndexSearch`
  takes the hint when the key is past it, `WalkToKey` steps with
  `NextDeltaIndexEntry`, the place is remembered, and `WalkCollisions` looks
  among the collision entries for the name.
- `PutOutcome`, `RemoveOutcome` and the actions keep every branch and
  assertion of `put_delta_index_entry`, `remove_delta_index_entry` and
  `set_delta_entry_value`, in the code's order.
- `InsertBits`/`DeleteBits` choose the side to move as the code does;
  `ExtendDeltaZone`, `ComputeNewListOffsets` and `RebalanceDeltaZone` move
  the lists byte by byte, in the order of the code's recursion.

A step is one call: a search followed by the put, remove or set on the
entry it returned, with the full name passed to a put only when the search
found the key. This is how the comments on `put_delta_index_entry` describe
the entry's use; the cursor does not outlive the call. A search alone is also a step, since it moves the hint.

Abstractions: a name is `NameBits` wide instead of 256 bits; `ListSizeMax`
stands for the u16 limit on a list's size. Walks are bounded by
`ListSizeMax + 1` steps, enough because each step passes at least one bit.
`readBack` is derived: after every step it holds the lists as
`next_delta_index_entry` reads them back from memory, and a list that does
not decode ends in an entry no caller could store.

`DeltaLists` is what the index promises: each list a sorted sequence in
which exactly the collision entries carry a name; a search stops at the
first entry at or after the key or at the collision entry with the name; a
put inserts there, a remove deletes and promotes a following collision
entry, a set changes the value, and a failed put changes nothing.
`DeltaIndex` implements it through
`Lists == INSTANCE DeltaLists WITH lists <- readBack`.

The immutable page form is a pure function of the zone, not an action:
`PackDeltaIndexPage` is `pack_delta_index_page` with its fit loop
(`PackedListCount`: each list costs its 19-bit offset and its bits, out of
the page less the header, one offset and the guard bytes), its offset table
and its copies. `PackedPage` builds the bits in the order the code writes
them: a zeroed buffer, the table, the lists back to back from the table's
end, and the guard bytes set last. The header's nonce, first list and list
count are kept as record fields, and only the little-endian reading is
modelled. `VerifyDeltaIndexPage` is `verify_delta_index_page`.
`ImmutableLists` is the list header that `start_delta_index_search` makes on
a page from two adjacent offsets. A search of a page list reads exactly the
bits between those offsets, with the same decoder as on the zone. Comparing
those bits with the zone's list bits (`PageListBits`, `ZoneListBits`)
therefore shows that a search of the page walks the same entries.

### `DeltaIndexSave.tla` and `Buffer.tla`: saving and restoring a zone

`Buffer` is `buffer.c`'s `struct buffer` as a record (`data`, `start`,
`end`, `length`) with one operator per function; each returns the result
code, the buffer after it and what a getter got. `PutAll` and `GetAll` are
the chains of puts and gets that stop at the first error, as
`encode_delta_index_header` and `decode_delta_index_header` write them.

`DeltaIndexSave` extends `DeltaIndex` with the save and restore of one
zone to and from one stream, a sequence of bytes, as pure operators of the
zone:

- `SaveDeltaIndex` is `start_saving_delta_index` (the 40-byte header
  through a buffer, then each list's size as a le16),
  `finish_saving_delta_index` (`FlushDeltaList` per non-empty list: tag,
  bit offset, byte count, list number, then the list's bytes) and
  `write_guard_delta_list`.
- `RestoreDeltaIndex` is `start_restoring_delta_index`
  (`ReadDeltaIndexHeader` through a buffer, the header checks in the code's
  order, the reset, the counts, the sizes and `RebalanceLists`),
  `finish_restoring_delta_index` (`RestoreDeltaListData` and
  `RestoreDeltaListToZone`, with every check and the `move_bits` into the
  zone) and `check_guard_delta_lists`. The zone restored into is a new one:
  zeroed memory and the reset's guard.
- `ComputeRestoreOffsets` is `compute_new_list_offsets` as
  `rebalance_lists` calls it, in the code's `size_t`/`u64` arithmetic:
  values are four 16-bit limbs and every sum, difference, product and
  quotient is taken modulo 2^64 (`U64Add`, `U64Sub`, `U64Times`,
  `U64Div`). A resulting offset of 2^30 or more is `Huge`: past any zone,
  so its `move_bits` would write outside the allocation, which the model
  stops at with `OUT_OF_BOUNDS`.

The calls that sequence save and restore are in `volume-index.c`, which is
not among the sources; `SaveDeltaIndex`, `RestoreDeltaIndex` and
`FinishFrom` follow the order the functions' comments give.

`RebalanceMovesEveryList` checks `rebalance_delta_zone` on its own, apart
from the zone's run: every layout of three lists of 2 or 7 bits at bit
offset 0 or 5 of their bytes in a 6-byte memory (1,159 layouts), moved to
every ordered layout with bytes of its own that keeps each list's bit
offset (17,176 cases). The memory's bits are labelled with their own
index, so a bit overwritten before it moves shows. The check is a constant
that TLC computes once.

`MCDeltaIndex` uses a VIEW that leaves out `last`, which no action reads,
and takes the free bits between lists as zero: every step writes such bits
before a decode reads them, because an insertion shifts list bits over them
and a rebalance copies whole lists. The view is therefore sound for the
invariants and for the refinement, whose steps `last` records.
### `UserVDO.tla`: formatting and the offline tools

One tool runs at a time against a device; between tools the VDO on it may be started. The device is the decoded geometry block (`geometry`: the format that wrote it, its nonce and the data region start, or `NoGeometry` once cleared; `GeometryBlock` checks the encoding) and the blocks after it (`blocks`), each tagged with the format that wrote it (a history variable) and holding zeros, VDO metadata, or a super block with its component states (nonce, `vdo_state`, data region start).

| Action | Code |
|---|---|
| `FormatVDOWithNonce(n, i)` | `formatVDOWithNonce` and `configureAndWriteVDO` up to `configureVDO`: fails with nothing written, or clears the geometry and then fails in `configureVDO` (no slab fits the layout) or goes on to clear the partitions |
| `ClearPartition` | one `writer` call of `clearPartition`: `bufferBlocks` zero blocks (the largest power of two up to 4096 dividing the size), block map first, then the recovery journal |
| `SaveSuperBlock`, `WriteVolumeGeometry` | the two writes of `saveVDO(vdo, true)` |
| `FormatFails` | a write of the format fails, or the process dies, between any two of its writes |
| `ForceVDORebuild`, `SetVDOReadOnlyMode` | `updateVDOSuperBlockState`: `loadVDO(layer, false)`, the read-only check, `saveVDO(vdo, false)` |
| `RunVDO` | the kernel starting the VDO (not among the sources): a validated load, metadata writes, a clean or read-only super block |
| `ProcessArg(c)` | one option of `vdoDebugMetadata`'s `processArgs`; `"end"` (or a refusal) ends the tool |
| `FindSlabJournalEntries(pbn)` | the range check and slab number of `findSlabJournalEntries`, on the loaded VDO |

`LoadVDO(validateConfig)` is `loadVDO`: the geometry, the super block at its data region start, and the nonce check only when validating. The layout follows `makeFixedLayoutFromConfig` (block map roots after the super block, journal and slab summary at the end, the depot between); `vdo-layout.c` and `vdo_configure_slab_depot` are not among the sources, so the depot holds as many whole slabs as fit.

## 3. Properties

| Property | What it says |
|---|---|
| `TypeOK` | Type invariant. |
| `ZonesWithinOneChapter` | Every zone's newest chapter is the index's newest or the one after. `finish_previous_chapter` holds back a zone that runs ahead. |
| `WriterSeesEachZoneOnce` | `zones_to_write` equals the number of zones that closed the index's newest chapter, and each of them handed in exactly that chapter. This is the counting handshake between `start_closing_chapter`, the announce and the writer's reset. |
| `ChapterClosedMessagesCurrent` | A queued chapter-closed message that is not stale names the zone's open chapter, which is the chapter being collected, and then `zones_to_write > 0`. |
| `WriterOverwritesOnlyExpired` | When the writer writes chapter N into its physical slot, chapter N - chapters_per_volume was forgotten and every zone's oldest chapter is past it. |
| `SavedOpenChapterIsCurrent` | While a saved open chapter is on disk, no chapter has been written since that save. |
| `ChapterEventuallyCommitted` (liveness) | Once a zone has closed a chapter, the writer commits it with no further client action. |
| `ShutdownCompletes` (liveness) | Once `stop` is set, the writer exits, so `free_index`'s join returns. |
| `ImplementsChapterLifecycle` (refinement) | `IndexChapters` implements `ChapterLifecycle`, fairness included. Checked only without failures: an announce failure skips the expiry (finding 1), so the zone's window stays too wide when it closes again. |
| `NoFalseNegative` (`IndexRequests`, action) | A request for a name whose last POST or UPDATE completed before the request was submitted, with no change to the name since, is answered found. Exceptions: the name's chapter has expired, or a page read failed. Cases it covers: requests parked and requeued while chapters close and entries move; collision entries promoted on expiry. |
| `NoResurrection` (`IndexRequests`, action) | A request for a name whose DELETE completed before the request was submitted is not answered found. |
| `RequestsComplete` (`IndexRequests`, liveness) | Every request taken by the zone, including one parked on a page read or whose read failed, is eventually answered. |
| `LoadedWindowOnDisk` (`IndexRebuild`, action) | When `make_index` opens the index, every chapter of its window reads back from its slot, no chapter on disk is at or past the open chapter, and the window fits in the volume. |
| `RebuildIndexesEveryRecord` (`IndexRebuild`, action) | A completed rebuild sends a lookup of every name in the window to the newest chapter holding it, through hints or collision entries, and leaves no entry outside the window. |
| `SuspendAnswered` (`IndexRebuild`, liveness) | A suspend asked of a running load is answered: SUSPENDED, READY, or the load ends. |
| `LoadedIsWritten` (`GeometryBlock`) | A load that succeeds returns the geometry last written, as its version stores it, and that geometry is from a loadable release, whatever single byte went bad. |
| `ListsInPlace` (`DeltaIndex`) | The lists lie in order inside the zone without overlapping, between the empty head guard and the tail guard, which keeps the last `GUARD_BITS` bits of the zone all ones. Decoding relies on it to read past a list and stop at a one bit, through insertions, deletions and rebalancing. |
| `RecordCountsMatch` (`DeltaIndex`) | `record_count` and `collision_count`, which the calls keep by hand (a promoted collision entry included), equal the entries and collision entries the lists hold when read back. |
| `PackedPagesReadBack` (`DeltaIndex`) | In every reachable zone, the page `pack_delta_index_page` packs from either first list on passes `verify_delta_index_page`. It holds each packed list's bits at the start and size that a search of the page takes from the offset table. The fit loop, the table, the copies and the guard bytes must agree, right up to a full page. |
| `ImplementsDeltaLists` (`DeltaIndex`, refinement) | Every call does to the lists, as read back from memory, what `DeltaLists` allows: the same search whether it starts at the hint or not, insertion at the search's place, removal with promotion, and no change on a failed call. |
| `FittingSaveRestores` (`DeltaIndexSave`) | In every reachable zone whose lists fit the zone at the bit offsets the reset gives them, saving the zone and restoring the stream into a new zone succeeds, lays the lists out in order in the zone, gives every list the bits it had and restores both counts. The header, the sizes, each save_info's bit offset and byte count, and the re-alignment of each list to a different bit offset must agree. |
| `RebalanceMovesEveryList` (`DeltaIndexSave`) | `rebalance_delta_zone`'s recursive order of moves never overwrites a list before it has moved, over every bounded three-list layout and every target layout. |
| `SavedIndexRestores` (`DeltaIndexSave`, violation run) | The same as `FittingSaveRestores` for every reachable zone. |
| `LoadableVdoIsWhole` (`UserVDO`) | Whenever `loadVDO` would succeed, the super block it finds is the one the geometry's format wrote, at the start the geometry records, and the block map and journal of its layout are that format's: no failed or interrupted format, no read-only or rebuild tool and no run of the VDO leaves a loadable super block over another format's metadata. |
| `FormattedVdoLoads` (`UserVDO`) | After a format returns success, a validated `loadVDO` returns that format's VDO, whatever tools ran since. |
| `SlabLookupInRange` (`UserVDO`, checked once) | A pbn `findSlabJournalEntries` does not skip lies in one of the `vdo->slabCount` slabs it read. |
| `ArgumentsInArrays` (`UserVDO`, checked once) | `processArgs` stores every `--pbn` and `--searchLBN` inside its arrays. |
| `IntactBlockLoads` (`GeometryBlock`) | A block with no bad byte loads exactly when a loadable release wrote it; a cleared or blank device reports a bad magic number. |

## 4. Runs

| Run (cfg) | Expect | What it shows |
|---|---|---|
| `chapters` (`MCIndexChapters.cfg`) | pass | 2 zones, 2 records per chapter, a 2-chapter volume and chapters 0..4, with chapter writes that may fail and no other failure. Chapters expire from chapter 2 on, so the overwrite case happens. All eight properties, and the refinement of `ChapterLifecycle`, hold: 29,674 states. |
| `chapters_failures` (`MCIndexChaptersFailures.cfg`) | pass | 3 zones and chapters 0..3, with every failure switched on. Three zones are needed for a partial announce, where some zones get the message and some do not. The safety invariants of the handshake still hold: about 1.5M states. |
| `announce_fail_expiry` (`MCAnnounceFailExpiry.cfg`) | violation | `WriterOverwritesOnlyExpired` fails: see finding 1. |
| `requests` (`MCIndexRequests.cfg`) | pass | 3 names, 1 buffer, 2 records per chapter, 3 chapters on disk, and clients active until chapter 3. Page reads park requests and may fail. No symmetry, because `RequestsComplete` is temporal. `TypeOK` and `RequestsComplete` hold: 93k states. |
| `requests_concurrent` (`MCRequestsConcurrent.cfg`) | pass | The same with two buffers and symmetry over names and buffers: while one request is parked the other buffer's requests fill and close chapters, move entries and expire chapters. `NoFalseNegative` holds: 2.1M states. Its mutant (search_index_zone keeping the page search's answer after the entry moved) is caught here and not with one buffer. |
| `requeue_resurrection` (`MCRequeueResurrection.cfg`) | violation | `NoResurrection` fails: see finding 4. 2 buffers, with symmetry. |
| `rebuild` (`MCIndexRebuild.cfg`) | pass | 3 names (two share a delta list), 3 chapter slots, chapters 0..4, 2 restarts of either open type, replays that may fail. All four properties hold: 591k states. |
| `rebuild_write_fail` (`MCRebuildWriteFail.cfg`) | violation | `LoadedWindowOnDisk` fails when a chapter write may fail: see finding 6. |
| `delta_index` (`MCDeltaIndex.cfg`) | pass | Two lists in a 9-byte zone, mean delta 3, keys 0..2, names 0 and 1, 1-bit values, up to 2 records built on. A 35-byte page. `ListsInPlace`, `RecordCountsMatch`, `PackedPagesReadBack`, `FittingSaveRestores`, `RebalanceMovesEveryList` and the refinement of `DeltaLists` hold: 15,806 states. |
| `delta_restore` (`MCDeltaRestore.cfg`) | violation | The same zone, saved and restored in every state: `SavedIndexRestores` fails after three puts, see finding 8. |
| `geometry` (`MCGeometryBlock.cfg`) | pass | Writes of versions 4 and 5 with nonces and bio offsets of 0 and 2^31-1, dense, sparse and no index configurations, clears, a block of a compatible and one of an unsupported release, and one bad byte at any of 12 positions. Both properties hold: 728 states. |
| `vdo_tools` (`MCUserVDO.cfg`) | pass | A 12-block device, blank or holding a clean or read-only VDO, two formats with nonces 1 and 2 and data region starts 1, 4 and 7 (or a refused index), failures after every write, the state tools, runs of the VDO, and the debugger. `TypeOK`, `LoadableVdoIsWhole` and `FormattedVdoLoads` hold: 324,996 states. |

Four checks were made once and are not kept as runs: `MCDebugSlabLookup.cfg` (`UserVDO`, `SlabLookupInRange` violated, finding 9), `MCDiscardFail.cfg` (`IndexChapters`, `SavedOpenChapterIsCurrent` violated, finding 3), `MCRebuildResuspend.cfg` (`IndexRebuild`, `SuspendAnswered` violated, finding 5) and `MCDebugArgs.cfg` (`UserVDO`, `ArgumentsInArrays` violated, finding 10). Each is run with `tlc -config <cfg> <MC module>` (`MCIndexChapters`, `MCIndexRebuild`, `MCUserVDO`).

**Why the bounds of the request runs are enough.** With 3 names and 2 records per chapter, two names can fill chapters while the third stays behind in an older chapter whose page is not cached, so requests park. Two buffers, in the resurrection run, let a second request for the name overtake a parked one. With two buffers, a request parks while the other buffer's requests close chapters and move or remove its entry before the reader requeues it; `NoFalseNegative` is checked there (`requests_concurrent`), with symmetry, which is sound for an action property. Without symmetry that state space is over 25M states, too large to check liveness on, so the `requests` run keeps one buffer for `RequestsComplete`: there a parked request is the only one in flight, so nothing closes or moves while it waits, but a failed read, its requeue and its UNAVAILABLE answer all happen. A 3-chapter volume, with clients active until chapter 3, makes chapter 0 expire with requests still in flight.

The `requests` run gives every name its own delta list. With shared lists, a DELETE through a hint made for a colliding name in the same chapter gives stale advice later, which `remove_from_index_zone` accepts in its comment at lines 574-576 ("very rare case (1 in 2^21)"); TLC finds that case at once, so such a run would only restate the comment. Shared lists are explored by the `rebuild` run and, bit for bit, by `delta_index`.

**Why the bounds of the rebuild runs are enough.** With 3 slots and chapters up to 4, chapter 3 overwrites the slot of chapter 0, so both the skip of the shadowed chapter and expiry happen. Two restarts give a crash, a recovery, and a crash or reopen after it, so a load can follow a rebuild and the reverse. n1 and n2 share a delta list, so the replay meets hints made for the other name, both in the chapter being replayed and in older ones.

**Why the bounds of the geometry run are enough.** The 12 fault positions are the low byte of each field of a version 5 block: magic, header id, version, size, release, nonce, bio offset, a region start, index memory, the sparse flag and the checksum. In a version 4 block the same offsets fall on a region id, the sparse flag and the zeros after the checksum. Every load result the code can return is reached except `ASSERTION_FAILED`. That one is unreachable because `vdo_validate_header` already checks the size exactly. The extreme nonce and bio offset fill every byte of their low words.

**Why the bounds of the delta index runs are enough.** Two lists give a neighbour on each side of a list, so both sides of `insert_bits` and `delete_bits` are taken. Nine bytes leave two bytes for the lists, so a third entry forces `extend_delta_zone`, whose rebalance moves lists in both directions, and a fourth overflows it. Keys 0..2 with mean delta 3 give deltas in the short code (0, 1) and the long one (2), and names 0 and 1 give collision entries, a search that passes the other name's collision entry, and a removal that promotes one. `ListSizeMax` 8 makes the u16 overflow of a list happen at its third entry. A 35-byte page has 45 bits for lists beyond the header, one offset and the guard bytes. Both lists fit only when their sizes add up to at most 7 bits, so the reachable zones pack pages of both lists and pages where the second list does not fit. Rebalancing in the wrong order needs three lists and several free bytes, which the zone's run does not have, so `RebalanceMovesEveryList` checks it on its own over three lists in six bytes: lists of 2 and 7 bits at bit offsets 0 and 5 take one or two bytes and share a byte with a neighbour, and every target layout moves each list left, right or not at all. The zone's lists fit the reset layout in most reachable zones and not in some, so `FittingSaveRestores` is checked on both sides of its condition.

**Why the bounds of the tools run are enough.** Twelve blocks with three block-map roots, a one-block journal and two-block slabs give three layouts: start 1 (two slabs), start 4 (one slab; its super block and block map lie on start 1's block map and slabs), and start 7, where no slab fits, so `configureVDO` fails after the geometry is cleared. A format over an old VDO therefore overwrites some of the old VDO's blocks and not others, and a failure after each write leaves every mix of old and new blocks. Three block-map roots take three writer calls, the journal one. Two formats let a second format reuse the nonce of the first, which the nonce check cannot tell apart.

**Why the bounds of the chapter runs are enough.** With 2 records per chapter, a zone can close a chapter either by filling it or on a message. With a 2-chapter volume, expiry starts at chapter 2, and `MaxChapter` 4 lets two chapters be overwritten. A run with 3 zones already reaches every position of the first closer and the last closer, and every partial announce.

## 5. Findings

1. **`open_next_chapter` skips the expiry when the announce fails** (`part_001:281`). It returns when `announce_chapter_closed` fails, before `oldest_virtual_chapter += expire_chapters`. The zone's oldest chapter lags from then on. The writer later overwrites a slot this zone still treats as live, and if this zone is the last to close it forgets the wrong chapter.
2. **The same early return can hang `free_index`** (`part_001:697`). The zones that were never told do not close the chapter, so `zones_to_write` stays between 0 and `zone_count`. `close_chapters` never exits and `stop_chapter_writer`'s join waits forever. It is recorded with finding 1 in `PROJECT.json`, having the same cause; the `chapters_failures` run reaches these hung states, which is why its deadlock check is off.
3. **A failed discard of the saved open chapter is ignored** (`part_001:723`). `has_saved_open_chapter` is cleared first and the discard result is only logged. The stale saved open chapter survives newer chapter writes. The comment at that line says the absence of that chapter is what tells a later load to recover.

4. **A requeued QUERY resurrects a deleted record** (`part_001:490`). A QUERY parks on a page read of the chapter holding its name. A DELETE of the name is queued behind it and completes before the reader requeues the QUERY. When the QUERY runs again, the volume index has no entry, so `search_index_zone` takes the not-found branch. There it sees `location == RECORD_PAGE_LOOKUP` and counts the record as found. Because the request is a QUERY, it puts the name back into the volume index and the open chapter. A POST submitted after the DELETE completed is then answered as a duplicate (trace: 22 states).

   Line 448 discards stale page results only when an entry is still found. The specification (section 4.6) says `requeued` plus the prior virtual chapter let the zone detect a move and re-search.

5. **A suspend that arrives before a resume is taken up hangs the load** (`part_001:1003`, spec gap). `check_for_suspend` publishes SUSPENDED and then waits until the status is OPENING or FREEING. Suppose the session resumes (OPENING) and suspends again (SUSPENDING) before the waiting replay thread reacquires the mutex. Then the replay keeps waiting, and the suspender, which waits for SUSPENDED or READY, waits on it. The specification does not say whether a session may do this.
6. **A failed chapter write still advances the chapter window** (`part_001:745`). The specification says the writer advances the newest and oldest chapters when `close_open_chapter` succeeds. `close_chapters` advances them whatever the result and only stores it in `writer->result`. `save_index` (line 1362) never looks at that result. A save after a failed write therefore records a window that includes the unwritten chapter, and a later `load_index` opens it. A failed discard of the saved open chapter (finding 3) also lets a later load take the stale save; that case was checked once and is not kept as a run.
9. **`vdoDebugMetadata` reads one slab past its array** (`vdoDebugMetadata.c:433`). `findSlabJournalEntries` skips only `pbn > depot.last_block`, but `last_block` is exclusive: `vdo_compute_slab_count` divides `last_block - first_block`, and `getSlabNumber` (`userVDO.c:178`) refuses `pbn >= last_block`. For `--pbn` equal to `last_block` the slab number is `vdo->slabCount`, and `slabs[slabNumber]` reads past the array `allocateMetadataSpace` allocated (trace: 2 states; checked once with `MCDebugSlabLookup.cfg`).
10. **`processArgs` checks the wrong counter for `--searchLBN`** (`vdoDebugMetadata.c:148`). It tests `pbnCount == MAX_SEARCH_LBNS`, so with fewer than 255 `--pbn` options the 256th `--searchLBN` is stored past the 255-entry `searchLBNs` array, and the `uint8_t` `searchLBNCount` wraps. Checked once with `MCDebugArgs.cfg` (`MaxArgs` 2: the third `--searchLBN`).
7. **`set_delta` wraps for small mean deltas** (`delta-index.c:1608`). `key_bits = min_bits + (incr_keys - min_keys + delta) / incr_keys` is computed in unsigned int. When `incr_keys + 1` is a power of two, `min_keys = incr_keys + 2` and the difference wraps for deltas 0 and 1. For mean deltas 1 and 2 (`incr_keys` 1) `key_bits` becomes the delta instead of 2, so `encode_entry` writes two key bits into an entry sized for fewer and the list no longer decodes. For `incr_keys` 3, 7, ... every such put overflows. The mean deltas the index uses (4096, 65536) are unaffected. This was found with `MCDeltaIndex` at `MeanDelta` 2 and `ImplementsDeltaLists`; it is not kept as a run.
8. **Restoring a nearly full zone can overlap its lists** (`delta-index.c:968`). `start_restoring_delta_index` resets the zone, which gives every list a new bit offset in its first byte, sets the saved sizes and calls `rebalance_lists`. That counts the bytes the lists take at the new offsets, up to one byte more per list than when they were saved, and `compute_new_list_offsets` computes `spacing = (size - used_space) / list_count` in `size_t` with no check (`extend_delta_zone` checks first). When the zone was nearly full at the save (a full zone is normal: `put_volume_index_record`'s `UDS_OVERFLOW` is ignored), the difference wraps. In the trace (lists of 3 and 7 bits in the nine-byte zone, 10 bytes needed) the u64 offsets come out as bit 4 for both lists: the restore returns success and the second list overwrites the first. With other list counts the offsets fall outside the zone and `move_bits` writes past the allocation.

## 6. Plan

1. **Done:** `IndexChapters`, covering the close protocol, the writer, save and shutdown, with failures.
2. **Done, dense zone:** `IndexRequests`. Left: `triage_index_request`, the sparse barrier messages and `search_sparse_cache_in_zone`, which need a sparse geometry and several zones.
3. **Done:** `IndexRebuild`, covering crash, load, rebuild, replay and suspend, with one chapter closing at a time. Left: composing it with `IndexChapters`, so that a crash can fall between the zones' closes, and sparse chapters, whose records `replay_record` may skip.
4. **Done:** `GeometryBlock`. Left: a layer write that fails or tears (writes are atomic in the model).
5. **Done:** `ChapterLifecycle`, the abstract chapter window, which `IndexChapters` implements (checked in the `chapters` run). Left: a matching abstraction for `IndexRebuild` (a rebuild restores the committed window).
6. **Done, mutable form:** `DeltaIndex` with its abstraction `DeltaLists`. **Done:** the immutable page form (`pack_delta_index_page`, `verify_delta_index_page`, the page search's list header). **Done:** save and restore of one zone (`DeltaIndexSave`), the buffer (`Buffer`), and `rebalance_delta_zone`'s order on its own. Left: the big-endian fallback of `initialize_delta_index_page`, more than one zone (and restoring lists into a different zone count), and a failing or torn stream.
7. **Done:** `UserVDO`, formatting, the super-block state tools and the debugger's lookups. Left: the other tools (`part_004`–`part_006`) and the name helpers (`part_002`), sequential I/O and byte extraction with nothing for TLC to explore; `vdoDebugMetadata`'s reading and printing of the dump; and a geometry write that tears, which `GeometryBlock`'s checksum would have to catch.

## 7. Not modelled

- **`vdo/base/encodings.h`, beyond `vdo_crc32` and `vdo_compute_slab_count`.** The rest are packed on-disk structures and pack/unpack helpers. They are field-by-field conversions with no state. They would matter only through a decoder that reads them back, and none is among the sources.
- **`vdo/base/slab.h`, `uds/index-page-map.h` and `userLinux/uds/minisyslog.h`.** These are declarations and a logging wrapper.
- **`vdoDebugMetadata.c`, beyond argument parsing and the slab lookup.** `readMetadata`, `allocateMetadataSpace`'s reads and the journal printers copy blocks of a dump into memory and print them. That is sequential I/O, and the only hazards in it (findings 9 and 10) are modelled.
- **`part_000`, `part_002` and `part_004`–`part_006`.** These are memory wrappers, name byte extraction, and single-threaded tools.
