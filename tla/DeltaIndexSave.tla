---------------------------- MODULE DeltaIndexSave ----------------------------
(***************************************************************************)
(* Saving a zone of the mutable delta index to a stream and restoring it   *)
(* (src/c++/uds/src/uds/delta-index.c): start_saving_delta_index writes   *)
(* the header through a buffer and the lists' sizes, finish_saving writes *)
(* each non-empty list as a save_info and its bytes, and the guard list   *)
(* ends the stream; start_restoring reads and checks the header, resets   *)
(* the zone, takes the sizes and rebalances the empty lists to receive    *)
(* the data, finish_restoring moves each list's bits into place, and      *)
(* check_guard_delta_lists reads the guard.  The stream is a sequence of  *)
(* bytes; the index has one zone, saved to and restored from one stream.  *)
(***************************************************************************)
EXTENDS DeltaIndex

LOCAL B == INSTANCE Buffer

-----------------------------------------------------------------------------
(* u64 arithmetic for compute_new_list_offsets, where new_offsets[] is u64 *)
(* and the spacing is size_t: a value is four 16-bit limbs, least          *)
(* significant first, and every result is taken modulo 2^64.               *)
LIMB == 65536
U64(x) == <<x % LIMB, (x \div LIMB) % LIMB, 0, 0>>

(* The carry chain: limbs that may exceed 16 bits brought back into range, *)
(* the carry out of the top limb dropped.                                 *)
Normalize(t) ==
  LET c[k \in 0 .. 4] ==
        IF k = 0 THEN [limbs |-> <<>>, carry |-> 0]
        ELSE LET v == t[k] + c[k - 1].carry
             IN [limbs |-> Append(c[k - 1].limbs, v % LIMB), carry |-> v \div LIMB]
  IN c[4].limbs

U64Add(a, b) == Normalize([k \in 1 .. 4 |-> a[k] + b[k]])
U64Sub(a, b) == Normalize([k \in 1 .. 4 |-> a[k] + (LIMB - 1 - b[k]) + (IF k = 1 THEN 1 ELSE 0)])
U64Times(a, n) == Normalize([k \in 1 .. 4 |-> a[k] * n])

(* Long division by a small n, from the top limb down. *)
U64Div(a, n) ==
  LET d[k \in 0 .. 4] ==
        IF k = 0 THEN [limbs |-> <<0, 0, 0, 0>>, rem |-> 0]
        ELSE LET cur == d[k - 1].rem * LIMB + a[5 - k]
             IN [limbs |-> [d[k - 1].limbs EXCEPT ![5 - k] = cur \div n], rem |-> cur % n]
  IN d[4].limbs

(* A u64 below 2^30 as a number; anything larger is past any zone. *)
Huge == -1
U64Value(a) == IF a[4] = 0 /\ a[3] = 0 /\ a[2] < 2^14 THEN a[1] + LIMB * a[2] ELSE Huge

-----------------------------------------------------------------------------
(* compute_new_list_offsets as rebalance_lists calls it, growing nothing,  *)
(* in the code's u64 arithmetic: the spacing (size - used_space) /        *)
(* list_count wraps when the lists' bytes exceed the zone.                *)
RestoreSpacing(usedSpace) ==
  U64Div(U64Sub(U64(ZoneBytes), U64(usedSpace)), ListCount)

OffsetsForSpacing(d, spacing) ==
  LET bytes[i \in 0 .. TailGuard] ==
        IF i = 0 THEN U64(0)
        ELSE U64Sub(U64Add(U64Add(bytes[i - 1], U64(GetDeltaListByteSize(d[i - 1]))), spacing),
                    IF i = 1 THEN U64Div(spacing, 2) ELSE U64(0))
  IN [i \in 0 .. TailGuard |->
        IF i = TailGuard THEN ZoneBits - d[TailGuard].size
        ELSE U64Value(U64Add(U64Times(bytes[i], BITS_PER_BYTE), U64(d[i].start % BITS_PER_BYTE)))]

ComputeRestoreOffsets(d, usedSpace) == OffsetsForSpacing(d, RestoreSpacing(usedSpace))

(* rebalance_lists: the bytes every list and guard takes at its present    *)
(* bit offset, then each list and the tail guard set to its new offset;   *)
(* nothing moves, since the lists are still empty.                        *)
RestoreUsedSpace(d) == SumFunction([i \in 0 .. TailGuard |-> GetDeltaListByteSize(d[i])])
MoveStarts(d, new) == [i \in 0 .. TailGuard |-> IF i = 0 THEN d[i] ELSE [d[i] EXCEPT !.start = new[i]]]
RebalanceLists(d) == MoveStarts(d, ComputeRestoreOffsets(d, RestoreUsedSpace(d)))

-----------------------------------------------------------------------------
(* The saved form. *)
DELTA_INDEX_MAGIC == <<68, 73, 45, 48, 48, 48, 48, 50>>    \* "DI-00002"
HEADER_SIZE == 40                                          \* sizeof(struct delta_index_header)
SAVE_INFO_SIZE == 8                                        \* sizeof(struct delta_list_save_info)
GUARD_TAG == 122                                           \* 'z'
Tag == 109                                                 \* the volume index's tag, 'm'
DELTA_LIST_MAX_BYTE_COUNT == (ListSizeMax + BITS_PER_BYTE) \div BITS_PER_BYTE + POST_FIELD_GUARD_BYTES

(* Byte j of the zone's memory, bit 0 of the byte first. *)
ZoneByte(m, j) == SumFunction([k \in 0 .. 7 |-> m[j * BITS_PER_BYTE + k] * 2^k])
ZoneBytesAt(m, at, n) == [k \in 1 .. n |-> ZoneByte(m, at + k - 1)]

(* encode_delta_index_header: the magic and the fields, in order, into a   *)
(* buffer of the header's size, then the check that it is full.           *)
CheckedEncoding(r) ==
  IF r.res = "SUCCESS" /\ B!ContentLength(r.buf) # HEADER_SIZE THEN [r EXCEPT !.res = "ASSERTION"] ELSE r
EncodeDeltaIndexHeader(buf, h) ==
  CheckedEncoding(B!PutAll(buf, <<<<0, DELTA_INDEX_MAGIC>>, <<4, h.zoneNumber>>, <<4, h.zoneCount>>,
                                 <<4, h.firstList>>, <<4, h.listCount>>, <<8, h.recordCount>>,
                                 <<8, h.collisionCount>>>>))

(* start_saving_delta_index for zone 0 of one: the header's bytes as      *)
(* get_buffer_contents gives them, then each list's size as a le16.       *)
HeaderBytes(r) == SubSeq(B!GetBufferContents(r.buf), 1, B!ContentLength(r.buf))
StartSavingDeltaIndex(d, rc, cc) ==
  HeaderBytes(EncodeDeltaIndexHeader(B!MakeBuffer(HEADER_SIZE),
                                    [zoneNumber |-> 0, zoneCount |-> 1, firstList |-> 0, listCount |-> ListCount,
                                     recordCount |-> rc, collisionCount |-> cc]))
  \o FoldLeft(LAMBDA s, i : s \o B!EncodeLE(d[i].size, 2), <<>>, [k \in 1 .. ListCount |-> k])

(* flush_delta_list: tag, bit offset in the first byte, byte count and    *)
(* list number, then the list's bytes from its first byte.  Mutant: the   *)
(* bit offset left out of the byte count.                                 *)
FlushWithoutPhase(m, d, i) ==
  <<Tag, d[i].start % BITS_PER_BYTE>> \o B!EncodeLE(ByteSizeWithoutPhase(d[i]), 2)
  \o B!EncodeLE(i - 1, 4) \o ZoneBytesAt(m, GetDeltaListByteStart(d[i]), ByteSizeWithoutPhase(d[i]))
FlushDeltaList(m, d, i) ==
  <<Tag, d[i].start % BITS_PER_BYTE>> \o B!EncodeLE(GetDeltaListByteSize(d[i]), 2)
  \o B!EncodeLE(i - 1, 4) \o ZoneBytesAt(m, GetDeltaListByteStart(d[i]), GetDeltaListByteSize(d[i]))

(* finish_saving_delta_index: every non-empty list, in order. *)
FinishSavingDeltaIndex(m, d) ==
  FoldLeft(LAMBDA s, i : IF d[i].size > 0 THEN s \o FlushDeltaList(m, d, i) ELSE s,
           <<>>, [k \in 1 .. ListCount |-> k])

(* write_guard_delta_list: a save_info of zeros but for the tag 'z'. *)
WriteGuardDeltaList == <<GUARD_TAG>> \o B!Zeros(SAVE_INFO_SIZE - 1)

SaveDeltaIndex(m, d, rc, cc) ==
  StartSavingDeltaIndex(d, rc, cc) \o FinishSavingDeltaIndex(m, d) \o WriteGuardDeltaList
-----------------------------------------------------------------------------
(* Restoring.  A step that fails returns its error; the rest is skipped,   *)
(* as the code's "return" on the first error does.                        *)
Failed(res) == [res |-> res]
Field(s, at, n) == B!DecodeLE(SubSeq(s, at + 1, at + n))

(* decode_delta_index_header: the magic and the fields in order, g being  *)
(* the run of gets, then the check that nothing is left.                  *)
DecodeDeltaIndexHeader(g) ==
  CASE g.res # "SUCCESS" -> Failed(g.res)
    [] B!ContentLength(g.buf) # 0 -> Failed("ASSERTION")
    [] OTHER -> [res |-> "SUCCESS", magic |-> g.value[1], zoneNumber |-> g.value[2],
                 zoneCount |-> g.value[3], firstList |-> g.value[4], listCount |-> g.value[5],
                 recordCount |-> g.value[6], collisionCount |-> g.value[7]]

(* read_delta_index_header: the header's bytes read into a new buffer, r  *)
(* the result of resetting its end to its length, then the decode.        *)
DecodeAfterReset(r) ==
  IF r.res # "SUCCESS" THEN Failed(r.res)
  ELSE DecodeDeltaIndexHeader(B!GetAll(r.buf, TRUE, <<8, 4, 4, 4, 4, 8, 8>>))
ReadDeltaIndexHeader(s) ==
  IF Len(s) < HEADER_SIZE THEN Failed("READ_ERROR")
  ELSE DecodeAfterReset(B!ResetBufferEnd([B!MakeBuffer(HEADER_SIZE) EXCEPT !.data = SubSeq(s, 1, HEADER_SIZE)],
                                         HEADER_SIZE))

(* The lists of a reset zone with the saved sizes. *)
LoadedLists(sizes) == [i \in 0 .. TailGuard |->
                        IF i \in 1 .. ListCount THEN [ResetLists[i] EXCEPT !.size = sizes[i]]
                        ELSE ResetLists[i]]
SavedSizes(s) == [i \in 1 .. ListCount |-> Field(s, HEADER_SIZE + 2 * (i - 1), 2)]

(* start_restoring_delta_index from one stream: the checks of header h in *)
(* the code's order, reset_delta_index, the counts, the sizes (counting   *)
(* the lists with data to load) and rebalance_lists.  The restored zone   *)
(* is a new one, its memory zeroed when allocated and its guard set by    *)
(* the reset.                                                             *)
LoadSizes(h, sizes) ==
  [res |-> "SUCCESS", mem |-> SetGuard([i \in 0 .. ZoneBits - 1 |-> 0]),
   dl |-> RebalanceLists(LoadedLists(sizes)),
   recordCount |-> h.recordCount, collisionCount |-> h.collisionCount,
   loadLists |-> Cardinality({i \in 1 .. ListCount : sizes[i] > 0}),
   pos |-> HEADER_SIZE + 2 * ListCount]
StartRestoringFrom(h, s) ==
  CASE h.res # "SUCCESS" -> h
    [] h.magic # DELTA_INDEX_MAGIC -> Failed("CORRUPT_DATA")
    [] h.zoneCount # 1 \/ h.zoneNumber >= 1 \/ h.zoneNumber # 0 -> Failed("CORRUPT_DATA")
    [] h.firstList # 0 -> Failed("CORRUPT_DATA")
    [] h.listCount # ListCount -> Failed("CORRUPT_DATA")
    [] h.collisionCount > h.recordCount -> Failed("CORRUPT_DATA")
    [] Len(s) < HEADER_SIZE + 2 * ListCount -> Failed("READ_ERROR")
    [] OTHER -> LoadSizes(h, SavedSizes(s))
StartRestoringDeltaIndex(s) == StartRestoringFrom(ReadDeltaIndexHeader(s), s)

(* Bit j of a byte array, bit 0 of the first byte first. *)
DataBit(data, j) == (data[j \div BITS_PER_BYTE + 1] \div 2^(j % BITS_PER_BYTE)) % 2

(* move_bits of size bits of data, from its bit offset, to start. *)
MoveInBits(m, data, offset, start, size) ==
  [i \in DOMAIN m |-> IF start <= i /\ i < start + size THEN DataBit(data, offset + i - start) ELSE m[i]]

(* restore_delta_list_to_zone: the list number in range, a list expected  *)
(* to have data, the byte count its size needs at the saved bit offset,   *)
(* then move_bits of its bits to its start.  A start past the zone's      *)
(* memory is a write outside the allocation, undefined behaviour that the *)
(* model stops at.                                                        *)
RestoreDeltaListToZone(st, info, data) ==
  CASE info.index >= ListCount -> Failed("CORRUPT_DATA")
    [] st.dl[info.index + 1].size = 0 -> Failed("CORRUPT_DATA")
    [] info.byteCount # BitsToBytes(info.bitOffset + st.dl[info.index + 1].size) -> Failed("CORRUPT_DATA")
    [] st.dl[info.index + 1].start = Huge
       \/ st.dl[info.index + 1].start + st.dl[info.index + 1].size > ZoneBits -> Failed("OUT_OF_BOUNDS")
    [] OTHER -> [st EXCEPT !.mem = MoveInBits(@, data, info.bitOffset, st.dl[info.index + 1].start,
                                              st.dl[info.index + 1].size)]

(* restore_delta_list_data: a save_info read at p, its checks, the list's *)
(* bytes, one list fewer to load, and the list restored.                  *)
SaveInfoAt(s, p) ==
  [tag |-> s[p + 1], bitOffset |-> s[p + 2], byteCount |-> Field(s, p + 2, 2), index |-> Field(s, p + 4, 4)]
RestoreSavedList(st, s, info) ==
  CASE info.bitOffset >= BITS_PER_BYTE \/ info.byteCount > DELTA_LIST_MAX_BYTE_COUNT -> Failed("CORRUPT_DATA")
    [] info.tag # Tag -> Failed("CORRUPT_DATA")
    [] info.index >= ListCount -> Failed("CORRUPT_DATA")
    [] Len(s) < st.pos + SAVE_INFO_SIZE + info.byteCount -> Failed("READ_ERROR")
    [] OTHER -> RestoreDeltaListToZone([st EXCEPT !.loadLists = @ - 1,
                                                  !.pos = @ + SAVE_INFO_SIZE + info.byteCount], info,
                                       SubSeq(s, st.pos + SAVE_INFO_SIZE + 1, st.pos + SAVE_INFO_SIZE + info.byteCount))
RestoreDeltaListData(st, s) ==
  IF Len(s) < st.pos + SAVE_INFO_SIZE THEN Failed("READ_ERROR")
  ELSE RestoreSavedList(st, s, SaveInfoAt(s, st.pos))

(* finish_restoring_delta_index: lists while any are left to load, the    *)
(* first error ending the loop.                                           *)
RestoreNextList(st, s) ==
  IF st.res # "SUCCESS" \/ st.loadLists = 0 THEN st ELSE RestoreDeltaListData(st, s)
FinishRestoringDeltaIndex(st, s) ==
  FoldLeft(LAMBDA z, k : RestoreNextList(z, s), st, [k \in 1 .. ListCount |-> k])

(* check_guard_delta_lists: the next save_info is the guard's. *)
CheckGuardDeltaLists(st, s) ==
  CASE st.res # "SUCCESS" -> st
    [] Len(s) < st.pos + SAVE_INFO_SIZE -> Failed("READ_ERROR")
    [] s[st.pos + 1] # GUARD_TAG -> Failed("CORRUPT_DATA")
    [] OTHER -> st

FinishFrom(st, s) ==
  IF st.res # "SUCCESS" THEN st ELSE CheckGuardDeltaLists(FinishRestoringDeltaIndex(st, s), s)
RestoreDeltaIndex(s) == FinishFrom(StartRestoringDeltaIndex(s), s)

-----------------------------------------------------------------------------
(* The lists of a restored zone lie in order inside it, the tail guard in  *)
(* its place, as ListsInPlace says of the live zone.                      *)
LaidOut(d) ==
  /\ d[TailGuard].start = ListBits
  /\ \A i \in 0 .. ListCount : d[i + 1].start # Huge /\ d[i].start + d[i].size <= d[i + 1].start

(* The restored zone r is the live one: restored, laid out, the same bits *)
(* in each list, the same counts.                                         *)
RestoredWhole(r) ==
  /\ r.res = "SUCCESS"
  /\ LaidOut(r.dl)
  /\ \A l \in 1 .. ListCount : ZoneListBits(r.mem, r.dl, l) = ZoneListBits(mem, dl, l)
  /\ r.recordCount = recordCount /\ r.collisionCount = collisionCount

(* A zone saved with start_saving, finish_saving and write_guard, and     *)
(* restored from that stream into a new zone with start_restoring,        *)
(* finish_restoring and check_guard_delta_lists, comes back whole: the    *)
(* restore succeeds, its lists lie in order in the zone, each holds the   *)
(* bits it held when saved and the counts are the saved ones.  What the   *)
(* restore rebalances into is the reset layout's bytes, which are not the *)
(* bytes the lists took when saved.                                       *)
SavedIndexRestores == RestoredWhole(RestoreDeltaIndex(SaveDeltaIndex(mem, dl, recordCount, collisionCount)))

(* The same whenever the saved lists fit the zone at the bit offsets the   *)
(* reset gives them, where rebalance_lists's free space is not negative:  *)
(* the header, the sizes, each save_info and its bytes, and the bit       *)
(* offset a list is saved at and restored from, agree.                    *)
RestoredListsFit == RestoreUsedSpace(LoadedLists([i \in 1 .. ListCount |-> dl[i].size])) <= ZoneBytes
FittingSaveRestores == RestoredListsFit => SavedIndexRestores

-----------------------------------------------------------------------------
(* rebalance_delta_zone on its own, over every layout of three lists in a  *)
(* memory of RB_BYTES bytes: each list RB_SIZES bits long at phase 0 or 5 *)
(* of its byte, moved to any ordered layout with disjoint bytes that keeps *)
(* each list's phase, as compute_new_list_offsets gives.  The memory's    *)
(* bits are labelled with their own index, so a bit overwritten before it *)
(* is moved shows.                                                        *)
RB_LISTS == 3
RB_BYTES == 6
RB_SIZES == {2, 7}
RB_PHASES == {0, 5}
RbMem == [i \in 0 .. RB_BYTES * BITS_PER_BYTE - 1 |-> i]
RbTail == RB_BYTES * BITS_PER_BYTE

RbLayout(starts, sizes) ==
  [i \in 0 .. RB_LISTS + 1 |->
     [start |-> CASE i = 0 -> 0 [] i = RB_LISTS + 1 -> RbTail [] OTHER -> starts[i],
      size |-> IF i \in 1 .. RB_LISTS THEN sizes[i] ELSE 0, saveKey |-> 0, saveOffset |-> 0]]

RbOldLayouts ==
  {d \in {RbLayout(<<8 * b[1] + p[1], 8 * b[2] + p[2], 8 * b[3] + p[3]>>, z) :
          b \in (0 .. RB_BYTES - 1) \X (0 .. RB_BYTES - 1) \X (0 .. RB_BYTES - 1),
          p \in RB_PHASES \X RB_PHASES \X RB_PHASES, z \in RB_SIZES \X RB_SIZES \X RB_SIZES} :
     \A i \in 0 .. RB_LISTS : d[i].start + d[i].size <= d[i + 1].start}

(* New offsets with each list in bytes of its own, in order, in the zone. *)
RbNewOffsets(d) ==
  {new \in {[i \in 0 .. RB_LISTS + 1 |->
              CASE i = 0 -> 0 [] i = RB_LISTS + 1 -> RbTail
                [] OTHER -> 8 * nb[i] + (d[i].start % BITS_PER_BYTE)] :
            nb \in (0 .. RB_BYTES - 1) \X (0 .. RB_BYTES - 1) \X (0 .. RB_BYTES - 1)} :
     \A i \in 1 .. RB_LISTS :
       new[i] \div 8 + GetDeltaListByteSize([d[i] EXCEPT !.start = new[i]]) <= new[i + 1] \div 8}

(* The recursion's order of moves never overwrites a list before it has   *)
(* moved: after rebalance_delta_zone every list holds, at its new offset, *)
(* the bits it held at its old one, whichever way each list moves (the    *)
(* choice at delta-index.c:279 of which half to move first).  The check   *)
(* is a constant, computed once; the invariant states it of every state   *)
(* of the zone's run.                                                     *)
MovedWhole(d, new, r) ==
  \A i \in 1 .. RB_LISTS : \A k \in 0 .. d[i].size - 1 : r.mem[new[i] + k] = d[i].start + k
RebalanceOrderChecked ==
  \A d \in RbOldLayouts : \A new \in RbNewOffsets(d) :
    MovedWhole(d, new, RebalanceDeltaZone(RbMem, d, new, 1, RB_LISTS + 1))
RebalanceMovesEveryList == RebalanceOrderChecked /\ mem = mem
====
