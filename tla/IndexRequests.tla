--------------------------- MODULE IndexRequests ---------------------------
(***************************************************************************)
(* The request path of one index zone (src/unnamed/part_001, index.c):     *)
(* execute_zone_request, dispatch_index_request, search_index_zone,        *)
(* remove_from_index_zone, get_record_from_zone and put_record_in_zone,    *)
(* over the zone's volume index, its open and writing chapters and the     *)
(* volume's page cache.  A lookup that needs a page that is not cached is  *)
(* parked (UDS_QUEUED) until a reader thread has read the page; the reader *)
(* then requeues it behind the zone's other requests with requeued set and *)
(* its location set by the page search.  The index is dense and has one    *)
(* zone, so triage and sparse barriers do nothing and a chapter closes     *)
(* only when it is full; the multi-zone close protocol is IndexChapters.   *)
(*                                                                         *)
(* Record names are model values; NameAddr gives each name its volume      *)
(* index delta address, so two names with one address exercise collision  *)
(* entries and hints.  A client dictionary (settled) records what a        *)
(* linearizable index must answer for a name no request is changing.      *)
(***************************************************************************)
EXTENDS Integers, FiniteSets, Sequences, VolumeIndex

CONSTANTS
  Capacity,           \* records per open chapter
  ChaptersPerVolume,  \* chapters on disk, the open one included
  MaxChapter,         \* clients stop submitting once the zone reaches it
  Slots,              \* request buffers a client may have in flight
  ReadsQueue,         \* a page that is not cached must be read first
  ReadMayFail,        \* a page read may fail
  ClientTypes         \* the request types clients submit

ASSUME
  /\ NameAddr \in [Names -> Addrs]
  /\ Capacity \in Nat \ {0}
  /\ ChaptersPerVolume \in Nat \ {0, 1}
  /\ MaxChapter \in Nat
  /\ IsFiniteSet(Slots)
  /\ ReadsQueue \in BOOLEAN /\ ReadMayFail \in BOOLEAN

(* Requests in flight when clients stop each put at most one record. *)
Chapters == 0 .. MaxChapter + Cardinality(Slots)

Types == {"POST", "UPDATE", "QUERY", "QUERY_NO_UPDATE", "DELETE"}
Searches == Types \ {"DELETE"}
Mutating == {"POST", "UPDATE", "DELETE"}
ASSUME ClientTypes \subseteq Types
Locations == {"UNKNOWN", "IN_OPEN_CHAPTER", "IN_DENSE", "IN_SPARSE",
              "RECORD_PAGE_LOOKUP", "UNAVAILABLE"}

VARIABLES
  newest,        \* zone->newest_virtual_chapter
  oldest,        \* zone->oldest_virtual_chapter
  openRecs,      \* names of the open chapter's live records
  openDel,       \* names of the open chapter's deleted (tombstoned) records
  chapterRecs,   \* chapterRecs[c]: the names chapter c holds once closed
  vi,            \* vi[a]: the delta list of address a, a sequence of entries
  cached,        \* chapters whose pages are in the page cache
  reqs,          \* reqs[s]: the request in buffer s
  zq,            \* the zone's request queue, as buffer numbers
  settled,       \* the client dictionary: "present", "absent" or "unknown"
  lastPut        \* lastPut[n]: the chapter n was last put into

vars == <<newest, oldest, openRecs, openDel, chapterRecs, vi, cached, reqs, zq,
          settled, lastPut>>
zoneVars == <<newest, oldest, openRecs, openDel, chapterRecs, vi, cached, lastPut>>

FreeRequest ==
  [type |-> "QUERY", name |-> NoName, stage |-> "free", requeued |-> FALSE,
   location |-> "UNKNOWN", vchapter |-> NoChapter, status |-> "ok",
   found |-> FALSE, expect |-> "any"]

-----------------------------------------------------------------------------
(* chapters_to_expire: once the volume is full, each new chapter expires   *)
(* the oldest one.                                                         *)
ChaptersToExpire(c) == IF c >= ChaptersPerVolume THEN 1 ELSE 0

(* A single zone closes its chapter only when it is full, so its writing   *)
(* chapter holds Capacity records once a chapter has been closed.          *)
WritingSize == IF newest > 0 THEN Capacity ELSE 0

(* Mutant: the oldest chapter in the volume is taken as already expired. *)
GetRecordFromZoneOldestGone(r, c) ==
  LET answer(b) == IF b THEN "found" ELSE "missing"
  IN CASE r.location = "RECORD_PAGE_LOOKUP" -> "found"
       [] r.location = "UNAVAILABLE" -> "missing"
       [] c = newest -> answer(r.name \in openRecs)
       [] newest > 0 /\ c = newest - 1 /\ WritingSize > 0 ->
            answer(r.name \in chapterRecs[c])
       [] ReadsQueue /\ c \notin cached -> "queued"
       [] OTHER -> answer(c > oldest /\ r.name \in chapterRecs[c])

(* get_record_from_zone: a location left by the page search decides; else  *)
(* the open chapter, the writing chapter, or the page cache, which parks   *)
(* the request when the page must be read.                                 *)
GetRecordFromZone(r, c) ==
  LET answer(b) == IF b THEN "found" ELSE "missing"
  IN CASE r.location = "RECORD_PAGE_LOOKUP" -> "found"
       [] r.location = "UNAVAILABLE" -> "missing"
       [] c = newest -> answer(r.name \in openRecs)
       [] newest > 0 /\ c = newest - 1 /\ WritingSize > 0 ->
            answer(r.name \in chapterRecs[c])
       [] ReadsQueue /\ c \notin cached -> "queued"
       [] OTHER -> answer(c >= oldest /\ r.name \in chapterRecs[c])

(* set_request_location and set_chapter_location (a dense index has no     *)
(* sparse chapters).                                                       *)
SetRequestLocation(r, loc) ==
  [r EXCEPT !.location = loc,
            !.found = loc \in {"IN_OPEN_CHAPTER", "IN_DENSE", "IN_SPARSE"}]
SetChapterLocation(r, c) ==
  [r EXCEPT !.found = TRUE,
            !.location = IF c = newest THEN "IN_OPEN_CHAPTER" ELSE "IN_DENSE"]

-----------------------------------------------------------------------------
InFlight(s) == reqs[s].stage \in {"queued", "reading"}

(* The zone thread is serving request s: it is at the head of the queue   *)
(* and is a data request (execute_zone_request) of one of the types.       *)
ExecutesData(s, types) ==
  /\ zq # <<>> /\ Head(zq) = s
  /\ reqs[s].type \in types
  /\ ~(reqs[s].requeued /\ reqs[s].status = "error")

(* The client dictionary settles when the last change in flight for the   *)
(* name completes, unless that change failed and left it open.             *)
Settle(s, r) ==
  settled' =
    IF /\ r.type \in Mutating /\ r.status = "ok"
       /\ ~\E o \in Slots \ {s} :
             InFlight(o) /\ reqs[o].name = r.name /\ reqs[o].type \in Mutating
      THEN [settled EXCEPT ![r.name] = IF r.type = "DELETE" THEN "absent" ELSE "present"]
      ELSE settled

(* The end of execute_zone_request: a request that found nothing is marked *)
(* UNAVAILABLE and the callback gets it.                                   *)
Complete(s, r) ==
  /\ reqs' = [reqs EXCEPT ![s] =
                [r EXCEPT !.stage = "done",
                          !.location = IF r.found THEN r.location ELSE "UNAVAILABLE"]]
  /\ zq' = Tail(zq)
  /\ Settle(s, r)

(* dispatch_index_request returned UDS_QUEUED: the request now belongs to *)
(* the page cache and the zone goes on with its next request.              *)
Park(s, r) ==
  /\ reqs' = [reqs EXCEPT ![s] = [r EXCEPT !.stage = "reading"]]
  /\ zq' = Tail(zq)
  /\ UNCHANGED <<zoneVars, settled>>

(* Mutant: the chapter is taken as full one record too late. *)
PutRecordInZoneLate(n, v) ==
  LET size == Cardinality(openRecs \cup openDel \cup {n})
  IN /\ lastPut' = [lastPut EXCEPT ![n] = newest]
     /\ IF size > Capacity
          THEN /\ chapterRecs' = [chapterRecs EXCEPT ![newest] = openRecs \cup {n}]
               /\ newest' = newest + 1
               /\ oldest' = oldest + ChaptersToExpire(newest + 1)
               /\ vi' = Purge(v, oldest + ChaptersToExpire(newest + 1))
               /\ openRecs' = {} /\ openDel' = {}
               /\ cached' = cached \ (oldest .. oldest + ChaptersToExpire(newest + 1) - 1)
          ELSE /\ openRecs' = openRecs \cup {n} /\ openDel' = openDel \ {n}
               /\ vi' = v
               /\ UNCHANGED <<newest, oldest, chapterRecs, cached>>

(* put_record_in_zone with the volume index v already updated for the     *)
(* name: put_open_chapter reuses the name's slot (a tombstone included)    *)
(* or adds one; no space left runs open_next_chapter, which for one zone   *)
(* writes the chapter, advances the volume index, expires the oldest       *)
(* chapter and forgets its pages.                                          *)
PutRecordInZone(n, v) ==
  LET size == Cardinality(openRecs \cup openDel \cup {n})
      expire == ChaptersToExpire(newest + 1)
  IN /\ lastPut' = [lastPut EXCEPT ![n] = newest]
     /\ IF size = Capacity
          THEN /\ chapterRecs' = [chapterRecs EXCEPT ![newest] = openRecs \cup {n}]
               /\ newest' = newest + 1
               /\ oldest' = oldest + expire
               /\ vi' = Purge(v, oldest + expire)
               /\ openRecs' = {}
               /\ openDel' = {}
               /\ cached' = cached \ (oldest .. oldest + expire - 1)
          ELSE /\ openRecs' = openRecs \cup {n}
               /\ openDel' = openDel \ {n}
               /\ vi' = v
               /\ UNCHANGED <<newest, oldest, chapterRecs, cached>>

(* Mutant: a requeued request keeps the page search's answer even when its *)
(* entry has moved to another chapter since.                               *)
SearchRequestKeepsLocation(s) ==
  LET r == reqs[s]
      rec == Lookup(vi, r.name)
  IN IF rec.found THEN [r EXCEPT !.vchapter = rec.ch] ELSE r

(* search_index_zone, up to get_record_from_zone: a requeued request whose *)
(* entry moved to another chapter forgets what the page search told it.    *)
SearchRequest(s) ==
  LET r == reqs[s]
      rec == Lookup(vi, r.name)
  IN IF rec.found
       THEN [(IF r.requeued /\ r.vchapter # rec.ch
                THEN SetRequestLocation(r, "UNKNOWN") ELSE r)
               EXCEPT !.vchapter = rec.ch]
       ELSE r

SearchResult(s) ==
  LET rec == Lookup(vi, reqs[s].name)
  IN IF rec.found THEN GetRecordFromZone(SearchRequest(s), rec.ch) ELSE "missing"

(* search_index_zone: the record's page is not cached. *)
SearchParks(s) ==
  /\ ExecutesData(s, Searches)
  /\ SearchResult(s) = "queued"
  /\ Park(s, SearchRequest(s))

(* search_index_zone, found (or a collision entry whose record is gone):   *)
(* a query without update is done; otherwise the entry moves to the open   *)
(* chapter and the record is put there, unless it is already there and    *)
(* this is no UPDATE.                                                      *)
SearchHit(s) ==
  LET r == SearchRequest(s)
      rec == Lookup(vi, r.name)
      found == SearchResult(s) = "found"
      overflow == rec.coll /\ ~found
  IN /\ ExecutesData(s, Searches)
     /\ rec.found /\ SearchResult(s) # "queued"
     /\ found \/ overflow
     /\ Complete(s, IF found THEN SetChapterLocation(r, rec.ch) ELSE r)
     /\ IF \/ r.type = "QUERY_NO_UPDATE"
           \/ r.type = "QUERY" /\ overflow
           \/ rec.ch = newest /\ r.type # "UPDATE"
          THEN UNCHANGED zoneVars
          ELSE PutRecordInZone(r.name,
                 IF rec.ch # newest THEN SetEntryChapter(vi, r.name, rec, newest) ELSE vi)

(* Mutant: a hint made for another name is moved to the open chapter      *)
(* instead of a new entry being added beside it.                           *)
SearchMissMoves(s) ==
  LET r == SearchRequest(s)
      rec == Lookup(vi, r.name)
      found == r.location = "RECORD_PAGE_LOOKUP"
  IN /\ ExecutesData(s, Searches)
     /\ SearchResult(s) # "queued"
     /\ ~(rec.found /\ (SearchResult(s) = "found" \/ rec.coll))
     /\ Complete(s, IF found THEN SetRequestLocation(r, "IN_SPARSE") ELSE r)
     /\ IF r.type = "QUERY_NO_UPDATE" \/ (r.type = "QUERY" /\ ~found)
          THEN UNCHANGED zoneVars
          ELSE PutRecordInZone(r.name, IF rec.found THEN SetEntryChapter(vi, r.name, rec, newest)
                                       ELSE PutEntry(vi, r.name, rec, newest))

(* search_index_zone, not in the volume index (or only a hint for another *)
(* name): a page search that found the record counts; a query is done;    *)
(* otherwise a new entry is made for the open chapter and the record put.  *)
SearchMiss(s) ==
  LET r == SearchRequest(s)
      rec == Lookup(vi, r.name)
      found == r.location = "RECORD_PAGE_LOOKUP"
  IN /\ ExecutesData(s, Searches)
     /\ SearchResult(s) # "queued"
     /\ ~(rec.found /\ (SearchResult(s) = "found" \/ rec.coll))
     /\ Complete(s, IF found THEN SetRequestLocation(r, "IN_SPARSE") ELSE r)
     /\ IF r.type = "QUERY_NO_UPDATE" \/ (r.type = "QUERY" /\ ~found)
          THEN UNCHANGED zoneVars
          ELSE PutRecordInZone(r.name, PutEntry(vi, r.name, rec, newest))

(* remove_from_index_zone up to get_record_from_zone: only a non-collision *)
(* entry is a hint that must be resolved in its chapter.                   *)
RemoveRequest(s) ==
  LET r == reqs[s]
      rec == Lookup(vi, r.name)
  IN IF rec.found /\ ~rec.coll
       THEN [(IF r.requeued /\ r.vchapter # rec.ch
                THEN SetRequestLocation(r, "UNKNOWN") ELSE r)
               EXCEPT !.vchapter = rec.ch]
       ELSE r

RemoveResult(s) ==
  LET rec == Lookup(vi, reqs[s].name)
  IN CASE ~rec.found -> "missing"
       [] rec.coll -> "found"
       [] OTHER -> GetRecordFromZone(RemoveRequest(s), rec.ch)

(* remove_from_index_zone: the hinted chapter's page is not cached. *)
RemoveParks(s) ==
  /\ ExecutesData(s, {"DELETE"})
  /\ RemoveResult(s) = "queued"
  /\ Park(s, RemoveRequest(s))

(* remove_from_index_zone: no entry, or the hinted chapter lacks the name. *)
RemoveNothing(s) ==
  /\ ExecutesData(s, {"DELETE"})
  /\ RemoveResult(s) = "missing"
  /\ Complete(s, RemoveRequest(s))
  /\ UNCHANGED zoneVars

(* remove_from_index_zone: the entry goes, and a record found in the open  *)
(* chapter is tombstoned there (remove_from_open_chapter).                 *)
RemoveRecord(s) ==
  LET r == RemoveRequest(s)
      rec == Lookup(vi, r.name)
      done == SetChapterLocation(r, rec.ch)
  IN /\ ExecutesData(s, {"DELETE"})
     /\ RemoveResult(s) = "found"
     /\ Complete(s, done)
     /\ vi' = RemoveEntry(vi, r.name, rec)
     /\ IF done.location = "IN_OPEN_CHAPTER" /\ r.name \in openRecs
          THEN /\ openRecs' = openRecs \ {r.name}
               /\ openDel' = openDel \cup {r.name}
          ELSE UNCHANGED <<openRecs, openDel>>
     /\ UNCHANGED <<newest, oldest, chapterRecs, cached, lastPut>>

(* Mutant: a requeued request whose read failed is dropped unanswered. *)
FailedRequeueDropped(s) ==
  /\ zq # <<>> /\ Head(zq) = s
  /\ reqs[s].requeued /\ reqs[s].status = "error"
  /\ zq' = Tail(zq)
  /\ UNCHANGED <<zoneVars, reqs, settled>>

(* execute_zone_request: a requeued request whose page read failed is     *)
(* answered UNAVAILABLE without being dispatched again.                    *)
FailedRequeue(s) ==
  /\ zq # <<>> /\ Head(zq) = s
  /\ reqs[s].requeued /\ reqs[s].status = "error"
  /\ Complete(s, SetRequestLocation(reqs[s], "UNAVAILABLE"))
  /\ UNCHANGED zoneVars

(* The zone thread takes the request at the head of its queue. *)
ZoneStep(s) ==
  \/ SearchParks(s)
  \/ SearchHit(s)
  \/ SearchMiss(s)
  \/ RemoveParks(s)
  \/ RemoveNothing(s)
  \/ RemoveRecord(s)
  \/ FailedRequeue(s)

-----------------------------------------------------------------------------
(* A reader thread reads the parked request's page into the cache, searches *)
(* it for the name (RECORD_PAGE_LOOKUP or UNAVAILABLE; a chapter expired    *)
(* meanwhile holds nothing) and requeues the request to its zone.           *)
ReadPage(s) ==
  LET r == reqs[s]
      c == r.vchapter
      hit == c >= oldest /\ r.name \in chapterRecs[c]
  IN /\ r.stage = "reading"
     /\ reqs' = [reqs EXCEPT ![s] =
                   [r EXCEPT !.stage = "queued", !.requeued = TRUE, !.found = FALSE,
                             !.location = IF hit THEN "RECORD_PAGE_LOOKUP" ELSE "UNAVAILABLE"]]
     /\ zq' = Append(zq, s)
     /\ cached' = IF c >= oldest THEN cached \cup {c} ELSE cached
     /\ UNCHANGED <<newest, oldest, openRecs, openDel, chapterRecs, vi, lastPut, settled>>

(* The read fails: the request is requeued with the error as its status. *)
ReadPageFails(s) ==
  /\ ReadMayFail
  /\ reqs[s].stage = "reading"
  /\ reqs' = [reqs EXCEPT ![s].stage = "queued", ![s].requeued = TRUE, ![s].status = "error"]
  /\ zq' = Append(zq, s)
  /\ UNCHANGED <<zoneVars, settled>>

(* The page cache evicts a page to make room for another. *)
EvictPage(c) ==
  /\ c \in cached
  /\ cached' = cached \ {c}
  /\ UNCHANGED <<newest, oldest, openRecs, openDel, chapterRecs, vi, lastPut, reqs, zq, settled>>

(* A client submits a request in a free buffer (enqueue_request,           *)
(* STAGE_INDEX). It expects what the dictionary says, unless a change to   *)
(* the name is in flight; a change makes every answer for it open.         *)
Submit(s, t, n) ==
  LET expect == CASE settled[n] = "present" -> "found"
                  [] settled[n] = "absent" -> "missing"
                  [] OTHER -> "any"
      new == [FreeRequest EXCEPT !.type = t, !.name = n, !.stage = "queued",
                                 !.expect = expect]
  IN /\ reqs[s].stage = "free"
     /\ newest < MaxChapter
     /\ reqs' = [o \in Slots |->
                   IF o = s THEN new
                   ELSE IF t \in Mutating /\ InFlight(o) /\ reqs[o].name = n
                     THEN [reqs[o] EXCEPT !.expect = "any"]
                   ELSE reqs[o]]
     /\ settled' = IF t \in Mutating THEN [settled EXCEPT ![n] = "unknown"] ELSE settled
     /\ zq' = Append(zq, s)
     /\ UNCHANGED zoneVars

(* The callback has run; the client reuses the buffer. *)
Collect(s) ==
  /\ reqs[s].stage = "done"
  /\ reqs' = [reqs EXCEPT ![s] = FreeRequest]
  /\ UNCHANGED <<zoneVars, zq, settled>>

-----------------------------------------------------------------------------
Init ==
  /\ newest = 0
  /\ oldest = 0
  /\ openRecs = {}
  /\ openDel = {}
  /\ chapterRecs = [c \in Chapters |-> {}]
  /\ vi = EmptyIndex
  /\ cached = {}
  /\ reqs = [s \in Slots |-> FreeRequest]
  /\ zq = <<>>
  /\ settled = [n \in Names |-> "absent"]
  /\ lastPut = [n \in Names |-> NoChapter]

Next ==
  \/ \E s \in Slots :
       \/ ZoneStep(s)
       \/ ReadPage(s)
       \/ ReadPageFails(s)
       \/ Collect(s)
       \/ \E t \in ClientTypes, n \in Names : Submit(s, t, n)
  \/ \E c \in cached : EvictPage(c)

(* The zone thread and the reader threads run whenever they have work;     *)
(* clients and the cache's eviction are not fair.                          *)
Fairness ==
  /\ WF_vars(\E s \in Slots : ZoneStep(s))
  /\ \A s \in Slots : WF_vars(ReadPage(s) \/ ReadPageFails(s))

Spec == Init /\ [][Next]_vars /\ Fairness

-----------------------------------------------------------------------------
Entry == [ch : Chapters, nm : Names \cup {NoName}]
Request == [type : Types, name : Names \cup {NoName},
            stage : {"free", "queued", "reading", "done"}, requeued : BOOLEAN,
            location : Locations, vchapter : Chapters \cup {NoChapter},
            status : {"ok", "error"}, found : BOOLEAN,
            expect : {"found", "missing", "any"}]

TypeOK ==
  /\ newest \in Chapters
  /\ oldest \in 0 .. newest
  /\ openRecs \cap openDel = {}
  /\ Cardinality(openRecs \cup openDel) < Capacity
  /\ chapterRecs \in [Chapters -> SUBSET Names]
  /\ vi \in [Addrs -> Seq(Entry)]
  /\ cached \subseteq Chapters
  /\ reqs \in [Slots -> Request]
  /\ zq \in Seq(Slots)
  /\ settled \in [Names -> {"present", "absent", "unknown"}]
  /\ lastPut \in [Names -> Chapters \cup {NoChapter}]

Completes(s) == reqs[s].stage = "queued" /\ reqs'[s].stage = "done"

(* No false negative (the first testable property of the design): a       *)
(* request for a name whose last POST or UPDATE completed before it was    *)
(* submitted, with no change to the name since, finds the record unless   *)
(* its chapter has expired or a page read failed.  This covers a request  *)
(* parked on a page read and requeued after chapters closed and entries    *)
(* moved (search_index_zone's requeued check).                             *)
NoFalseNegative ==
  [][\A s \in Slots :
       /\ Completes(s)
       /\ reqs[s].expect = "found"
       /\ reqs'[s].status = "ok"
       /\ lastPut[reqs[s].name] >= oldest
       => reqs'[s].found]_vars

(* No resurrection: a request for a name whose DELETE completed before it  *)
(* was submitted, with no change to the name since, does not find it.      *)
NoResurrection ==
  [][\A s \in Slots :
       Completes(s) /\ reqs[s].expect = "missing" => ~reqs'[s].found]_vars

(* Every request the zone takes is answered: a request parked on a page    *)
(* read is requeued by the reader and finished by the zone.                *)
RequestsComplete ==
  \A s \in Slots : InFlight(s) ~> (reqs[s].stage = "done")

=============================================================================
