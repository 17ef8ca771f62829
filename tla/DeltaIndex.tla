------------------------------ MODULE DeltaIndex ------------------------------
(***************************************************************************)
(* One zone of a mutable delta index (src/c++/uds/src/uds/delta-index.c):  *)
(* its memory as a bit array and the delta list headers (start and size in *)
(* bits, the search hint save_key/save_offset).  Entries are stored as the *)
(* code stores them: the payload, then the key delta in the Huffman code   *)
(* of compute_coding_constants, then, for a collision entry, the full      *)
(* name.  Inserting and deleting shift bits before or after the list; when *)
(* the neighbouring gaps are too small the zone is rebalanced byte by byte.*)
(* A call is a search followed by the put, remove or value change on the   *)
(* delta_index_entry the search returned, the way the entry's comments    *)
(* describe its use; the cursor does not outlive the call.                 *)
(*                                                                         *)
(* Abstractions: a record name is NameBits wide instead of 256 bits, and   *)
(* the u16 limit on a list's size is ListSizeMax; bit lists in the model   *)
(* never exceed the 57 bits move_bits moves in one field.  The bit stream  *)
(* is little endian, so bit i is bit i % 8 of byte i \div 8.               *)
(***************************************************************************)
EXTENDS Integers, Sequences, SequencesExt, FiniteSets

CONSTANTS
  ListCount,    \* delta lists in the zone
  ZoneBytes,    \* zone->size, the bytes of list memory
  MeanDelta,    \* the mean delta the coding constants are computed for
  ValueBits,    \* payload_bits
  NameBits,     \* COLLISION_BITS, a record name's width
  ListSizeMax,  \* U16_MAX, the largest size of a delta list in bits
  PageBytes,    \* the size of a chapter index page the lists are packed into
  Keys,         \* the keys callers search for and insert
  Names         \* collision names, as NameBits-bit numbers

ASSUME
  /\ ListCount \in Nat \ {0}
  /\ ZoneBytes \in Nat /\ ZoneBytes * 8 > 56
  /\ Names \subseteq 0 .. 2^NameBits - 1
  /\ PageBytes \in Nat

NoName == -1
Values == 0 .. 2^ValueBits - 1

BITS_PER_BYTE == 8
POST_FIELD_GUARD_BYTES == 7
GUARD_BITS == POST_FIELD_GUARD_BYTES * BITS_PER_BYTE
BitsToBytes(b) == (b + BITS_PER_BYTE - 1) \div BITS_PER_BYTE

TailGuard == ListCount + 1     \* the index of the tail guard list
ZoneBits == ZoneBytes * BITS_PER_BYTE

-----------------------------------------------------------------------------
(* compute_coding_constants, with the kernel's bits_per(n) = ilog2(n) + 1. *)
BitsPer(n) == IF n < 2 THEN 1 ELSE CHOOSE b \in 1 .. 32 : 2^(b - 1) <= n /\ n < 2^b

IncrKeys == (836158 * MeanDelta + 603160) \div 1206321
MinBits == BitsPer(IncrKeys + 1)
MinKeys == 2^MinBits - IncrKeys

(* floor((2^32 + y) / d) for -2 <= y < 0 and d >= 2, in 31-bit steps. *)
U32DivWrapped(y, d) ==
  2 * (2147483647 \div d) + (2 * (2147483647 % d) + 2 + y) \div d

(* set_delta's key_bits: min_bits + (incr_keys - min_keys + delta) /      *)
(* incr_keys in unsigned int arithmetic, stored into an int.  When the    *)
(* difference is negative it wraps around 2^32; with incr_keys = 1 the    *)
(* sum then wraps back.                                                   *)
SetDeltaKeyBits(delta) ==
  LET n == IncrKeys - MinKeys + delta
  IN CASE n >= 0        -> MinBits + n \div IncrKeys
       [] IncrKeys = 1  -> MinBits + n
       [] OTHER         -> MinBits + U32DivWrapped(n, IncrKeys)

-----------------------------------------------------------------------------
(* The bit utilities: get_field/set_field and their big forms, set_zero,  *)
(* move_bits (as if through a temporary) and memmove of whole bytes.      *)
GetField(m, o, s) == SumFunction([i \in 0 .. s - 1 |-> m[o + i] * 2^i])

SetField(m, o, s, v) ==
  [i \in DOMAIN m |-> IF o <= i /\ i < o + s THEN (v \div 2^(i - o)) % 2 ELSE m[i]]

SetZero(m, o, s) == [i \in DOMAIN m |-> IF o <= i /\ i < o + s THEN 0 ELSE m[i]]

MoveBits(m, from, to, s) ==
  [i \in DOMAIN m |-> IF to <= i /\ i < to + s THEN m[from + i - to] ELSE m[i]]

MemMove(m, src, dst, n) ==
  MoveBits(m, src * BITS_PER_BYTE, dst * BITS_PER_BYTE, n * BITS_PER_BYTE)

(* The number of 0 bits from bit p up to the next 1 bit; the all-ones tail *)
(* guard stops it.                                                         *)
ZerosFrom(m, p) ==
  LET top == Cardinality(DOMAIN m) - 1
      z[k \in 0 .. top - p] == IF m[p + k] = 1 \/ p + k = top THEN k ELSE z[k + 1]
  IN z[0]

-----------------------------------------------------------------------------
VARIABLES
  mem,             \* delta_zone->memory, as bits
  dl,              \* delta_zone->delta_lists[0 .. list_count + 1]
  recordCount,     \* delta_zone->record_count
  collisionCount,  \* delta_zone->collision_count
  last,            \* the last call: operation, arguments, success
  readBack         \* the lists as next_delta_index_entry reads them back

vars == <<mem, dl, recordCount, collisionCount, last, readBack>>

NoEntry == [list |-> 0, key |-> 0, offset |-> 0, delta |-> 0, entryBits |-> 0,
            atEnd |-> FALSE, isCollision |-> FALSE]

GetDeltaListByteStart(d) == d.start \div BITS_PER_BYTE
(* Mutant: the bit offset in the first byte left out of the byte size. *)
ByteSizeWithoutPhase(d) == BitsToBytes(d.size)

GetDeltaListByteSize(d) == BitsToBytes((d.start % BITS_PER_BYTE) + d.size)

(* reset_delta_index: empty lists evenly spaced, the tail guard at the     *)
(* end of the zone with its bytes all ones, hints and counts cleared.      *)
ListBits == ZoneBits - GUARD_BITS
Spacing == ListBits \div ListCount
ResetLists ==
  [i \in 0 .. TailGuard |->
     [start |-> CASE i = 0 -> 0
                  [] i = TailGuard -> ListBits
                  [] OTHER -> Spacing \div 2 + (i - 1) * Spacing,
      size |-> IF i = TailGuard THEN GUARD_BITS ELSE 0,
      saveKey |-> 0, saveOffset |-> 0]]
SetGuard(m) == [i \in DOMAIN m |-> IF i >= ListBits THEN 1 ELSE m[i]]

-----------------------------------------------------------------------------
(* compute_new_list_offsets: byte offsets spaced by an even share of the   *)
(* free bytes, half a share before the first list, growing_size more       *)
(* before list growing_index; each list keeps its bit offset in its byte   *)
(* and the tail guard stays at the end.                                    *)
ComputeNewListOffsets(d, growingIndex, growingSize, usedSpace) ==
  LET spacing == (ZoneBytes - usedSpace) \div ListCount
      B[i \in 0 .. TailGuard] ==
        IF i = 0 THEN 0
        ELSE B[i - 1] + GetDeltaListByteSize(d[i - 1]) + spacing
               - (IF i = 1 THEN spacing \div 2 ELSE 0)
               + (IF i = growingIndex THEN growingSize ELSE 0)
  IN [i \in 0 .. TailGuard |->
        IF i = TailGuard THEN ZoneBits - d[TailGuard].size
        ELSE B[i] * BITS_PER_BYTE + (d[i].start % BITS_PER_BYTE)]

(* Move list i to its new offset, a memmove of its bytes. *)
MoveList(m, d, new, i) ==
  IF d[i].start = new[i] THEN [mem |-> m, dl |-> d]
  ELSE LET d2 == [d EXCEPT ![i].start = new[i]]
       IN [mem |-> MemMove(m, GetDeltaListByteStart(d[i]), GetDeltaListByteStart(d2[i]),
                           GetDeltaListByteSize(d2[i])),
           dl |-> d2]

(* Mutant: the lower half always moved first, whichever way the middle   *)
(* list moves.                                                            *)
RebalanceLeftFirst(m, d, new, first, lastList) ==
  LET ranges == {r \in (first .. lastList) \X (first .. lastList) : r[1] <= r[2]}
      order[r \in ranges] ==
        IF r[1] = r[2] THEN <<r[1]>>
        ELSE order[<<r[1], (r[1] + r[2]) \div 2>>] \o order[<<(r[1] + r[2]) \div 2 + 1, r[2]>>]
  IN FoldLeft(LAMBDA z, i : MoveList(z.mem, z.dl, new, i), [mem |-> m, dl |-> d],
              order[<<first, lastList>>])

(* rebalance_delta_zone: move lists first .. last to their new offsets,    *)
(* halving the range and doing first the half the middle list moves       *)
(* towards.  No list moves before the decisions about the ranges holding   *)
(* it are made, so the recursion is the order of the single moves.         *)
RebalanceDeltaZone(m, d, new, first, lastList) ==
  LET ranges == {r \in (first .. lastList) \X (first .. lastList) : r[1] <= r[2]}
      order[r \in ranges] ==
        IF r[1] = r[2] THEN <<r[1]>>
        ELSE LET middle == (r[1] + r[2]) \div 2
             IN IF new[middle] > d[middle].start
                  THEN order[<<middle + 1, r[2]>>] \o order[<<r[1], middle>>]
                  ELSE order[<<r[1], middle>>] \o order[<<middle + 1, r[2]>>]
  IN FoldLeft(LAMBDA z, i : MoveList(z.mem, z.dl, new, i), [mem |-> m, dl |-> d],
              order[<<first, lastList>>])

(* extend_delta_zone: fail with UDS_OVERFLOW when the lists and the        *)
(* growth do not fit the zone, else rebalance every list and the tail.     *)
Succeeded(r) == [res |-> "SUCCESS", mem |-> r.mem, dl |-> r.dl]

ExtendToUse(m, d, growingIndex, growingSize, used) ==
  IF ZoneBytes < used THEN [res |-> "OVERFLOW", mem |-> m, dl |-> d]
  ELSE Succeeded(RebalanceDeltaZone(m, d,
                   ComputeNewListOffsets(d, growingIndex, growingSize, used), 1, TailGuard))

ExtendDeltaZone(m, d, growingIndex, growingSize) ==
  ExtendToUse(m, d, growingIndex, growingSize,
              growingSize + SumFunction([i \in 0 .. TailGuard |-> GetDeltaListByteSize(d[i])]))

-----------------------------------------------------------------------------
(* insert_bits: make room for size bits at the entry's offset.  A list     *)
(* over the u16 limit overflows; otherwise the bits before or after the    *)
(* offset move into a neighbouring gap, the side chosen to move less data *)
(* (a tie going to the larger gap); when neither gap is large enough the   *)
(* zone is first extended with the growth on the side that moves less.     *)
(* The shift itself, in the zone x the room was made in. *)
ShiftForInsert(e, size, beforeFlag, x) ==
  LET l == e.list
      start == x.dl[l].start
  IN IF x.res # "SUCCESS" THEN x
     ELSE [res |-> "SUCCESS",
           dl |-> [x.dl EXCEPT ![l].size = @ + size,
                               ![l].start = IF beforeFlag THEN @ - size ELSE @],
           mem |-> IF beforeFlag
                     THEN MoveBits(x.mem, start, start - size, e.offset)
                     ELSE MoveBits(x.mem, start + e.offset, start + e.offset + size,
                                   x.dl[l].size - e.offset)]

InsertBits(m, d, e, size) ==
  LET l == e.list
      totalSize == d[l].size
      beforeSize == e.offset
      afterSize == totalSize - e.offset
      freeBefore == d[l].start - (d[l - 1].start + d[l - 1].size)
      freeAfter == d[l + 1].start - (d[l].start + d[l].size)
      roomBefore == size <= freeBefore
      roomAfter == size <= freeAfter
      beforeFlag ==
        CASE roomBefore /\ roomAfter ->
               IF beforeSize # afterSize THEN beforeSize < afterSize
                                         ELSE freeBefore > freeAfter
          [] roomBefore -> TRUE
          [] roomAfter -> FALSE
          [] OTHER -> beforeSize < afterSize
  IN IF totalSize + size > ListSizeMax THEN [res |-> "OVERFLOW", mem |-> m, dl |-> d]
     ELSE ShiftForInsert(e, size, beforeFlag,
                         IF roomBefore \/ roomAfter THEN [res |-> "SUCCESS", mem |-> m, dl |-> d]
                         ELSE ExtendDeltaZone(m, d, IF beforeFlag THEN l ELSE l + 1,
                                              BitsToBytes(size)))

(* delete_bits: close up size bits at the entry's offset, moving the       *)
(* smaller side, a tie going to the smaller gap.                           *)
DeleteBits(m, d, e, size) ==
  LET l == e.list
      beforeSize == e.offset
      afterSize == d[l].size - e.offset - size
      freeBefore == d[l].start - (d[l - 1].start + d[l - 1].size)
      freeAfter == d[l + 1].start - (d[l].start + d[l].size)
      beforeFlag == IF beforeSize # afterSize THEN beforeSize < afterSize
                                              ELSE freeBefore < freeAfter
      start == d[l].start
  IN [dl |-> [d EXCEPT ![l].size = @ - size,
                       ![l].start = IF beforeFlag THEN @ + size ELSE @],
      mem |-> IF beforeFlag
                THEN MoveBits(m, start, start + size, beforeSize)
                ELSE MoveBits(m, start + e.offset + size, start + e.offset, afterSize)]

-----------------------------------------------------------------------------
(* encode_delta: a delta below min_keys in min_bits bits; otherwise        *)
(* t1 = (delta - min_keys) % incr_keys + min_keys in min_bits bits, then   *)
(* t2 = (delta - min_keys) / incr_keys zero bits and a one bit.            *)
EncodeDelta(m, p, delta) ==
  IF delta < MinKeys THEN SetField(m, p, MinBits, delta)
  ELSE LET temp == delta - MinKeys
           t1 == (temp % IncrKeys) + MinKeys
           t2 == temp \div IncrKeys
       IN SetField(SetZero(SetField(m, p, MinBits, t1), p + MinBits, t2),
                   p + MinBits + t2, 1, 1)

(* encode_entry: the payload, the delta and, for a collision, the name.    *)
EncodeEntry(m, d, e, value, name) ==
  LET o == d[e.list].start + e.offset
      m2 == EncodeDelta(SetField(m, o, ValueBits, value), o + ValueBits, e.delta)
  IN IF name = NoName THEN m2
     ELSE SetField(m2, o + e.entryBits - NameBits, NameBits, name)

(* set_delta: the new delta and the entry size it is encoded in. *)
SetDelta(e, delta) ==
  [e EXCEPT !.delta = delta, !.entryBits = ValueBits + SetDeltaKeyBits(delta)]

GetDeltaEntryValue(m, d, e) == GetField(m, d[e.list].start + e.offset, ValueBits)
GetCollisionName(m, d, e) ==
  GetField(m, d[e.list].start + e.offset + e.entryBits - NameBits, NameBits)

(* decode_delta: read the delta of the entry at the entry's offset; a      *)
(* delta of zero after the start of the list is a collision entry.         *)
DecodedEntry(e, low, zeros) ==
  LET keyBits == IF low < MinKeys THEN MinBits ELSE MinBits + zeros + 1
      delta == IF low < MinKeys THEN low ELSE low + zeros * IncrKeys
      collision == delta = 0 /\ e.offset > 0
  IN [e EXCEPT !.delta = delta, !.key = @ + delta, !.isCollision = collision,
               !.entryBits = ValueBits + keyBits + (IF collision THEN NameBits ELSE 0)]

DecodeDelta(m, d, e) ==
  LET p == d[e.list].start + e.offset + ValueBits
  IN DecodedEntry(e, GetField(m, p, MinBits), ZerosFrom(m, p + MinBits))

(* next_delta_index_entry: step past the current entry; reaching the list  *)
(* size is the end, and an entry that would run past it is corrupt.        *)
StepPast(e, off, size, n) ==
  CASE e.atEnd -> [res |-> "BAD_STATE", e |-> e]
       [] off >= size ->
            [res |-> IF off = size THEN "SUCCESS" ELSE "CORRUPT_DATA",
             e |-> [e EXCEPT !.offset = off, !.atEnd = TRUE, !.delta = 0,
                             !.isCollision = FALSE]]
       [] off + n.entryBits > size -> [res |-> "CORRUPT_DATA", e |-> n]
       [] OTHER -> [res |-> "SUCCESS", e |-> n]

NextDeltaIndexEntry(m, d, e) ==
  LET off == e.offset + e.entryBits
  IN StepPast(e, off, d[e.list].size, DecodeDelta(m, d, [e EXCEPT !.offset = off]))

(* remember_delta_index_offset: the key before the entry and its offset. *)
RememberDeltaIndexOffset(d, e) ==
  [d EXCEPT ![e.list].saveKey = e.key - e.delta, ![e.list].saveOffset = e.offset]

(* get_delta_index_entry: start at the hint when the key is past it, walk *)
(* to the first entry whose key is not below the key, remember that place, *)
(* and, on an entry with the key, look among its collision entries for     *)
(* the name.                                                               *)
(* The loops along a list take a step until one says it is done.  Every  *)
(* step moves past at least one bit of the list, so ListSizeMax + 1 steps  *)
(* reach its end.                                                          *)
MaxSteps == ListSizeMax + 1

KeyStep(r, key) ==
  [res |-> r.res, e |-> r.e, done |-> ~(r.res = "SUCCESS" /\ ~r.e.atEnd /\ key > r.e.key)]

KeyAdvance(m, d, key, w) ==
  IF w.done THEN w ELSE KeyStep(NextDeltaIndexEntry(m, d, w.e), key)

WalkToKey(m, d, e, key) ==
  LET it[i \in 0 .. MaxSteps] ==
        IF i = 0 THEN [res |-> "SUCCESS", e |-> e, done |-> FALSE]
        ELSE KeyAdvance(m, d, key, it[i - 1])
  IN it[MaxSteps]

CollisionStep(m, d, found, name, r) ==
  CASE r.res # "SUCCESS" -> [res |-> r.res, e |-> r.e, done |-> TRUE]
    [] r.e.atEnd \/ ~r.e.isCollision -> [res |-> "SUCCESS", e |-> found, done |-> TRUE]
    [] GetCollisionName(m, d, r.e) = name -> [res |-> r.res, e |-> r.e, done |-> TRUE]
    [] OTHER -> [res |-> r.res, e |-> r.e, done |-> FALSE]

CollisionAdvance(m, d, found, name, w) ==
  IF w.done THEN w ELSE CollisionStep(m, d, found, name, NextDeltaIndexEntry(m, d, w.e))

WalkCollisions(m, d, found, c, name) ==
  LET it[i \in 0 .. MaxSteps] ==
        IF i = 0 THEN [res |-> "SUCCESS", e |-> c, done |-> FALSE]
        ELSE CollisionAdvance(m, d, found, name, it[i - 1])
  IN it[MaxSteps]

(* Mutant: the hint also taken for the key it was saved for. *)
StartAtHintInclusive(d, l, key) ==
  IF key >= d[l].saveKey
    THEN [NoEntry EXCEPT !.list = l, !.key = d[l].saveKey, !.offset = d[l].saveOffset]
    ELSE [NoEntry EXCEPT !.list = l]

StartDeltaIndexSearch(d, l, key) ==
  IF key > d[l].saveKey
    THEN [NoEntry EXCEPT !.list = l, !.key = d[l].saveKey, !.offset = d[l].saveOffset]
    ELSE [NoEntry EXCEPT !.list = l]

Searched(res, d, e) == [res |-> res, dl |-> d, e |-> e]
WithCollisions(d, c) == Searched(c.res, d, c.e)

SearchOutcome(m, d, key, name, w) ==
  LET d2 == RememberDeltaIndexOffset(d, w.e)
  IN CASE w.res # "SUCCESS" -> Searched(w.res, d, w.e)
       [] w.e.isCollision -> Searched("ASSERTION", d, w.e)
       [] ~w.e.atEnd /\ key = w.e.key ->
            WithCollisions(d2, WalkCollisions(m, d2, w.e, w.e, name))
       [] OTHER -> Searched("SUCCESS", d2, w.e)

GetDeltaIndexEntry(m, d, l, key, name) ==
  SearchOutcome(m, d, key, name, WalkToKey(m, d, StartDeltaIndexSearch(d, l, key), key))

(* A cursor offset before the hint moves the hint to the insertion point. *)
HintAtInsertion(d, e) ==
  IF e.offset < d[e.list].saveOffset THEN RememberDeltaIndexOffset(d, e) ELSE d

(* put_delta_index_entry, up to the final encode_entry: a collision entry  *)
(* goes after the entry, a new last entry at the end, and any other entry  *)
(* before the entry, whose delta is then re-encoded.                       *)
WithEntry(x, ne) == [res |-> x.res, mem |-> x.mem, dl |-> x.dl, e |-> ne]

(* After an insertion before an entry, that entry with its new delta. *)
ReencodeNext(nx, value, x) ==
  IF x.res # "SUCCESS" THEN x
  ELSE [x EXCEPT !.mem = EncodeEntry(x.mem, x.dl, nx, value, NoName)]

PutOutcome(m, d0, e, key, name) ==
  LET l == e.list
      d == HintAtInsertion(d0, e)
      Fail(res, dd) == [res |-> res, mem |-> m, dl |-> dd, e |-> e]
      Insert(ne, size) == WithEntry(InsertBits(m, d, ne, size), ne)
  IN CASE e.isCollision -> Fail("DUPLICATE_NAME", d0)
       [] name # NoName ->
            LET c == [SetDelta([e EXCEPT !.offset = @ + e.entryBits], 0)
                        EXCEPT !.isCollision = TRUE, !.entryBits = @ + NameBits]
            IN CASE e.atEnd -> Fail("BAD_STATE", d)
                 [] key # e.key -> Fail("ASSERTION", d)
                 [] OTHER -> Insert(c, c.entryBits)
       [] e.atEnd ->
            LET a == [SetDelta(e, key - e.key) EXCEPT !.key = key, !.atEnd = FALSE]
            IN IF key < e.key THEN Fail("ASSERTION", d) ELSE Insert(a, a.entryBits)
       [] OTHER ->
            LET a == [SetDelta(e, key - (e.key - e.delta)) EXCEPT !.key = key]
                nx == [SetDelta(e, e.key - key) EXCEPT !.offset = e.offset + a.entryBits]
            IN IF key >= e.key \/ key < e.key - e.delta THEN Fail("ASSERTION", d)
               ELSE ReencodeNext(nx, GetDeltaEntryValue(m, d, e),
                                 Insert(a, a.entryBits + nx.entryBits - e.entryBits))

(* Mutant: a promoted collision entry still counted as one. *)
PromotedStillCounted(n) == 0

(* A collision entry after the removed entry stops being one. *)
PromotedCollisions(n) == IF n.isCollision THEN 1 ELSE 0

(* remove_delta_index_entry, up to the hint check: delete the entry's bits *)
(* and, when an entry follows, re-encode it with the two deltas summed; a  *)
(* following collision entry stops being one.                              *)
Removed(x, ne, collisions) ==
  [mem |-> x.mem, dl |-> x.dl, e |-> ne, collisions |-> collisions]

RemoveOutcome(m, d, e, n) ==
  CASE e.isCollision ->
         Removed(DeleteBits(m, d, e, e.entryBits), [n EXCEPT !.offset = e.offset], 1)
    [] n.atEnd ->
         Removed(DeleteBits(m, d, e, e.entryBits),
                 [n EXCEPT !.key = @ - e.delta, !.offset = e.offset], 0)
    [] OTHER ->
         LET n2 == [SetDelta([n EXCEPT !.isCollision = FALSE], e.delta + n.delta)
                      EXCEPT !.offset = e.offset]
             x == Removed(DeleteBits(m, d, e, e.entryBits + n.entryBits - n2.entryBits),
                          n2, PromotedCollisions(n))
         IN [x EXCEPT !.mem = EncodeEntry(@, x.dl, n2, GetDeltaEntryValue(m, d, n), NoName)]

-----------------------------------------------------------------------------
(* The entries of list l read back from memory by next_delta_index_entry, *)
(* with their offsets; a list that does not decode ends in an entry no    *)
(* caller could have stored.                                               *)
Garbage == [key |-> -1, value |-> -1, name |-> NoName, offset |-> -1]
DecodeStep(m, d, w, r) ==
  CASE r.res # "SUCCESS" -> [w EXCEPT !.s = @ \o <<Garbage>>, !.done = TRUE]
    [] r.e.atEnd -> [w EXCEPT !.done = TRUE]
    [] OTHER ->
         [w EXCEPT !.e = r.e, !.s = @ \o
            <<[key |-> r.e.key, value |-> GetDeltaEntryValue(m, d, r.e),
               name |-> IF r.e.isCollision THEN GetCollisionName(m, d, r.e) ELSE NoName,
               offset |-> r.e.offset]>>]

DecodeAdvance(m, d, w) ==
  IF w.done THEN w ELSE DecodeStep(m, d, w, NextDeltaIndexEntry(m, d, w.e))

DecodeFrom(m, d, e) ==
  LET it[i \in 0 .. MaxSteps] ==
        IF i = 0 THEN [e |-> e, s |-> <<>>, done |-> FALSE]
        ELSE DecodeAdvance(m, d, it[i - 1])
  IN it[MaxSteps].s

WithoutOffsets(s) ==
  [i \in DOMAIN s |-> [key |-> s[i].key, value |-> s[i].value, name |-> s[i].name]]
ReadBack(m, d) ==
  [l \in 1 .. ListCount |-> WithoutOffsets(DecodeFrom(m, d, [NoEntry EXCEPT !.list = l]))]

-----------------------------------------------------------------------------
(* The immutable form.  pack_delta_index_page copies the zone's lists from *)
(* first_list on onto a chapter index page: a header, a table of 19-bit    *)
(* bit offsets (one per list and one for the end) and the lists' bits,     *)
(* with the guard bytes at the end of the page.  The header's fields are  *)
(* kept as fields; the rest of the page is a fresh zeroed buffer.          *)
IMMUTABLE_HEADER_SIZE == 19
PAGE_HEADER_BITS == 20 * BITS_PER_BYTE      \* sizeof(struct delta_page_header)
PageBits == PageBytes * BITS_PER_BYTE

GetImmutableHeaderOffset(n) == PAGE_HEADER_BITS + n * IMMUTABLE_HEADER_SIZE
GetImmutableStart(bits, n) ==
  GetField(bits, GetImmutableHeaderOffset(n), IMMUTABLE_HEADER_SIZE)

(* Mutant: the fit loop charges each list its bits but not its offset.    *)
PackedBitsWithoutOffsets(d, first, n) ==
  SumFunction([j \in 1 .. n |-> d[first + j].size])

(* The lists first+1 .. first+n of the zone and their offsets, in bits. *)
PackedBits(d, first, n) ==
  n * IMMUTABLE_HEADER_SIZE + SumFunction([j \in 1 .. n |-> d[first + j].size])

(* The loop that counts the lists that fit: each needs its offset and its  *)
(* bits, from what the page has beyond the header, one offset and the      *)
(* guard bytes.                                                            *)
PackedListCount(d, first) ==
  LET freeBits == PageBits - GetImmutableHeaderOffset(1) - GUARD_BITS
      maxLists == ListCount - first
  IN CHOOSE n \in 0 .. maxLists :
       /\ PackedBits(d, first, n) <= freeBits
       /\ n < maxLists => PackedBits(d, first, n + 1) > freeBits

(* A page of n lists, as the code writes it into a zeroed buffer: the     *)
(* header (kept in the fields), the offset table, each list's bits copied *)
(* to the offset the table gives it (the lists lie back to back from the  *)
(* table's end on), and last the guard bytes set to ones.                  *)
PackedPage(m, d, nonce, first, n) ==
  LET offs[j \in 0 .. n] ==
        IF j = 0 THEN GetImmutableHeaderOffset(n + 1) ELSE offs[j - 1] + d[first + j].size
      OffsetBits(v) == [k \in 1 .. IMMUTABLE_HEADER_SIZE |-> (v \div 2^(k - 1)) % 2]
      CopiedBits(l) == [k \in 1 .. d[l].size |-> m[d[l].start + k - 1]]
      table[j \in 0 .. n + 1] ==
        IF j = 0 THEN <<>> ELSE table[j - 1] \o OffsetBits(offs[j - 1])
      lists[j \in 0 .. n] ==
        IF j = 0 THEN <<>> ELSE lists[j - 1] \o CopiedBits(first + j)
      written == [k \in 1 .. PAGE_HEADER_BITS |-> 0] \o table[n + 1] \o lists[n]
  IN [res |-> "SUCCESS", nonce |-> nonce, firstList |-> first, listCount |-> n,
      bits |-> [i \in 0 .. PageBits - 1 |->
                  IF i >= PageBits - GUARD_BITS THEN 1
                  ELSE IF i < Len(written) THEN written[i + 1] ELSE 0]]

PackDeltaIndexPage(m, d, nonce, first) ==
  IF PageBits - GetImmutableHeaderOffset(1) - GUARD_BITS < IMMUTABLE_HEADER_SIZE
    THEN [res |-> "OVERFLOW"]
    ELSE PackedPage(m, d, nonce, first, PackedListCount(d, first))

(* verify_delta_index_page, as initialize_delta_index_page applies it to  *)
(* the header read little endian.                                          *)
VerifyDeltaIndexPage(p, expectedNonce) ==
  LET n == p.listCount
  IN /\ p.nonce = expectedNonce
     /\ n <= ((PageBytes - 20) * BITS_PER_BYTE) \div IMMUTABLE_HEADER_SIZE
     /\ GetImmutableStart(p.bits, 0) = GetImmutableHeaderOffset(n + 1)
     /\ \A i \in 0 .. n - 1 : GetImmutableStart(p.bits, i) <= GetImmutableStart(p.bits, i + 1)
     /\ GetImmutableStart(p.bits, n) <= PageBits - GUARD_BITS
     /\ \A i \in PageBits - GUARD_BITS .. PageBits - 1 : p.bits[i] = 1

(* start_delta_index_search on a page: list j's header is made from the   *)
(* offset table, with no hint.                                             *)
ImmutableLists(bits, n) ==
  [j \in 0 .. n - 1 |->
     [start |-> GetImmutableStart(bits, j),
      size |-> GetImmutableStart(bits, j + 1) - GetImmutableStart(bits, j),
      saveKey |-> 0, saveOffset |-> 0]]

(* The bits of list j of a page, from the start and size a search of the *)
(* page takes out of the offset table, and the bits of list l of a zone.  *)
PageListBits(p, j) ==
  LET h == ImmutableLists(p.bits, p.listCount)[j]
  IN [k \in 0 .. h.size - 1 |-> p.bits[h.start + k]]
ZoneListBits(m, d, l) == [k \in 0 .. d[l].size - 1 |-> m[d[l].start + k]]

-----------------------------------------------------------------------------
(* initialize_delta_index for one zone: zeroed memory, then               *)
(* reset_delta_index.                                                      *)
Init ==
  /\ mem = SetGuard([i \in 0 .. ZoneBits - 1 |-> 0])
  /\ dl = ResetLists
  /\ recordCount = 0
  /\ collisionCount = 0
  /\ last = [op |-> "reset", list |-> 0, key |-> CHOOSE k \in Keys : TRUE,
             value |-> CHOOSE v \in Values : TRUE, name |-> NoName, ok |-> TRUE]
  /\ readBack = ReadBack(mem, dl)

Called(op, l, k, v, nm, ok) ==
  last' = [op |-> op, list |-> l, key |-> k, value |-> v, name |-> nm, ok |-> ok]
AnyValue == CHOOSE v \in Values : TRUE

(* Every change to a list starts with get_delta_index_entry for its key    *)
(* and name, and works on the entry the search returns, as the comments on *)
(* put_delta_index_entry describe; a lookup is the search alone, which     *)
(* still moves the list's hint.                                            *)
FoundKey(g, k) == g.res = "SUCCESS" /\ ~g.e.atEnd /\ g.e.key = k

GetEntry(l, k, nm) ==
  \E g \in {GetDeltaIndexEntry(mem, dl, l, k, nm)} :
     /\ dl' = g.dl
     /\ Called("search", l, k, AnyValue, nm, g.res = "SUCCESS")
     /\ UNCHANGED <<mem, recordCount, collisionCount>>

(* put_delta_index_entry on the search's entry, with the full name when   *)
(* the search found the key: a collision entry is then inserted.          *)
PutDeltaIndexEntry(l, k, v, nm) ==
  \E g \in {GetDeltaIndexEntry(mem, dl, l, k, nm)} :
  LET name == IF FoundKey(g, k) THEN nm ELSE NoName
  IN \E r \in {PutOutcome(mem, g.dl, g.e, k, name)} :
       IF g.res = "SUCCESS" /\ r.res = "SUCCESS"
         THEN /\ mem' = EncodeEntry(r.mem, r.dl, r.e, v, name)
              /\ dl' = r.dl
              /\ recordCount' = recordCount + 1
              /\ collisionCount' = collisionCount + (IF r.e.isCollision THEN 1 ELSE 0)
              /\ Called("put", l, k, v, nm, TRUE)
         ELSE /\ dl' = IF g.res = "SUCCESS" THEN r.dl ELSE g.dl
              /\ Called("put", l, k, v, nm, FALSE)
              /\ UNCHANGED <<mem, recordCount, collisionCount>>

(* A hint past the cursor after a removal goes back to the list start. *)
ForgetPassedHint(d, e) ==
  IF e.offset < d[e.list].saveOffset
    THEN [d EXCEPT ![e.list].saveKey = 0, ![e.list].saveOffset = 0]
    ELSE d

(* remove_delta_index_entry on the search's entry when it has the key.    *)
(* The entry after it is decoded first; when the removal leaves the       *)
(* cursor before the hint, the hint goes back to the start of the list.   *)
RemoveDeltaIndexEntry(l, k, nm) ==
  \E g \in {GetDeltaIndexEntry(mem, dl, l, k, nm)} :
  \E nr \in {NextDeltaIndexEntry(mem, g.dl, g.e)} :
    IF FoundKey(g, k) /\ nr.res = "SUCCESS"
      THEN \E r \in {RemoveOutcome(mem, g.dl, g.e, nr.e)} :
             /\ mem' = r.mem
             /\ dl' = ForgetPassedHint(r.dl, r.e)
             /\ recordCount' = recordCount - 1
             /\ collisionCount' = collisionCount - r.collisions
             /\ Called("remove", l, k, AnyValue, nm, TRUE)
      ELSE /\ dl' = g.dl
           /\ Called("remove", l, k, AnyValue, nm, g.res = "SUCCESS" /\ ~FoundKey(g, k))
           /\ UNCHANGED <<mem, recordCount, collisionCount>>

(* set_delta_entry_value on the search's entry when it has the key. *)
SetDeltaEntryValue(l, k, nm, v) ==
  \E g \in {GetDeltaIndexEntry(mem, dl, l, k, nm)} :
     /\ dl' = g.dl
     /\ mem' = IF FoundKey(g, k)
                 THEN SetField(mem, g.dl[l].start + g.e.offset, ValueBits, v)
                 ELSE mem
     /\ Called("set", l, k, v, nm, g.res = "SUCCESS")
     /\ UNCHANGED <<recordCount, collisionCount>>

ResetDeltaIndex ==
  /\ mem' = SetGuard(mem)
  /\ dl' = ResetLists
  /\ recordCount' = 0
  /\ collisionCount' = 0
  /\ last' = [last EXCEPT !.op = "reset", !.ok = TRUE]

Operation ==
  \/ ResetDeltaIndex
  \/ \E l \in 1 .. ListCount, k \in Keys, nm \in Names :
       \/ GetEntry(l, k, nm) \/ RemoveDeltaIndexEntry(l, k, nm)
       \/ \E v \in Values : PutDeltaIndexEntry(l, k, v, nm) \/ SetDeltaEntryValue(l, k, nm, v)

Next == Operation /\ readBack' = ReadBack(mem', dl')

Spec == Init /\ [][Next]_vars

-----------------------------------------------------------------------------
Lists == INSTANCE DeltaLists WITH Lists <- 1 .. ListCount, lists <- readBack

-----------------------------------------------------------------------------
TypeOK ==
  /\ mem \in [0 .. ZoneBits - 1 -> {0, 1}]
  /\ dl \in [0 .. TailGuard -> [start : Nat, size : Nat, saveKey : Nat, saveOffset : Nat]]
  /\ recordCount \in Nat /\ collisionCount \in Nat
  /\ last \in Lists!Calls

(* The lists lie in order inside the zone without overlapping, between the *)
(* empty head guard at bit 0 and the tail guard, which keeps the last      *)
(* GUARD_BITS bits of the zone and keeps them all ones: what lets decode   *)
(* read past a list and stop at a one bit (reset_delta_index, insert_bits, *)
(* extend_delta_zone, rebalance_delta_zone).                               *)
ListsInPlace ==
  /\ dl[0].start = 0 /\ dl[0].size = 0
  /\ dl[TailGuard].start = ListBits /\ dl[TailGuard].size = GUARD_BITS
  /\ \A i \in 0 .. ListCount : dl[i].start + dl[i].size <= dl[i + 1].start
  /\ \A i \in ListBits .. ZoneBits - 1 : mem[i] = 1

(* record_count and collision_count, which put, remove and reset keep      *)
(* (a promoted collision entry included), count the entries and the        *)
(* collision entries the lists hold.                                       *)
RecordCountsMatch ==
  LET collisions(l) == {i \in DOMAIN readBack[l] : readBack[l][i].name # NoName}
  IN /\ recordCount = SumFunction([l \in 1 .. ListCount |-> Len(readBack[l])])
     /\ collisionCount =
          SumFunction([l \in 1 .. ListCount |-> Cardinality(collisions(l))])

(* A page that pack_delta_index_page fills from the zone, from any first  *)
(* list on, passes the checks initialize_delta_index_page makes, and the   *)
(* bits a search of each list on it reads, at the start and size it takes *)
(* from the offset table, are that list's bits in the zone: the offset     *)
(* table, the copies, the count of lists that fit and the guard bytes      *)
(* agree.                                                                  *)
PageNonce == 1
PageReadsBack(first, p) ==
  /\ p.res = "SUCCESS"
  /\ VerifyDeltaIndexPage(p, PageNonce)
  /\ \A j \in 0 .. p.listCount - 1 : PageListBits(p, j) = ZoneListBits(mem, dl, first + 1 + j)
PackedPagesReadBack ==
  \A first \in 0 .. ListCount - 1 :
    PageReadsBack(first, PackDeltaIndexPage(mem, dl, PageNonce, first))

(* Every call does to the lists, as next_delta_index_entry reads them back *)
(* from memory, what the delta index promises (DeltaLists): the search     *)
(* finds the first entry at or after its key whether it starts at the hint *)
(* or not; a put inserts its entry there and nowhere else, a remove or     *)
(* value change alters only the entry found; the re-encoded neighbour,     *)
(* the bit moves and the rebalancing of the zone lose nothing.             *)
ImplementsDeltaLists == Lists!Spec

=============================================================================
