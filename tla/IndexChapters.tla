--------------------------- MODULE IndexChapters ----------------------------
(***************************************************************************)
(* The chapter lifecycle of the UDS index core (src/unnamed/part_001,      *)
(* index.c): every zone thread fills its own open chapter, closes it       *)
(* (open_next_chapter), hands it to the single chapter writer thread       *)
(* (start_closing_chapter) and, if it is the first zone to close, sends a  *)
(* chapter-closed message to every other zone (announce_chapter_closed).   *)
(* The writer commits the chapter once every zone has closed it            *)
(* (close_chapters).  A clean save (save_index) leaves a saved open        *)
(* chapter on disk that the writer discards before it writes the next      *)
(* chapter, so that its absence tells the next load to rebuild.            *)
(*                                                                         *)
(* Records are abstracted to a count per open chapter; message queues hold *)
(* only the zone-control messages, since a data request may be enqueued    *)
(* before or after any of them.                                            *)
(***************************************************************************)
EXTENDS Integers, FiniteSets, Sequences

CONSTANTS
  ZoneCount,          \* index->zone_count
  Capacity,           \* open chapter capacity: records_per_chapter / zone_count
  ChaptersPerVolume,  \* geometry->chapters_per_volume
  MaxChapter,         \* bound: no record is put into a chapter >= MaxChapter
  AnnounceMayFail,    \* launch_zone_message can fail to allocate a message
  DiscardMayFail,     \* discard_open_chapter can fail (its result is ignored)
  WriteMayFail        \* close_open_chapter can fail

ASSUME ZoneCount \in Nat \ {0}
ASSUME Capacity \in Nat \ {0}
ASSUME ChaptersPerVolume \in Nat \ {0}
ASSUME MaxChapter \in Nat
ASSUME {AnnounceMayFail, DiscardMayFail, WriteMayFail} \subseteq BOOLEAN

Zones == 0 .. ZoneCount - 1
NoChapter == -1       \* a NULL entry of writer->chapters[]

VARIABLES
  \* per index zone (struct index_zone)
  newest,        \* zone->newest_virtual_chapter
  oldest,        \* zone->oldest_virtual_chapter
  openSize,      \* zone->open_chapter->size
  zpc,           \* where the zone thread is: "idle", "closing" (waiting in
                 \* finish_previous_chapter), "announcing" (after
                 \* start_closing_chapter, before the rest of open_next_chapter)
  finished,      \* the finished_zones value start_closing_chapter returned
  queue,         \* the zone's request queue: chapter-closed messages
  \* chapter writer (struct chapter_writer)
  wpc,           \* "wait" (in its condvar loop), "writing", "exited"
  zonesToWrite,  \* writer->zones_to_write
  chapters,      \* writer->chapters[], as the virtual chapter handed over
  result,        \* writer->result
  stop,          \* writer->stop
  \* index (struct uds_index) and the volume
  indexNewest,   \* index->newest_virtual_chapter
  indexOldest,   \* index->oldest_virtual_chapter
  hasSavedOpen,  \* index->has_saved_open_chapter
  needToSave,    \* index->need_to_save
  forgotten,     \* chapters the volume was told to forget (forget_chapter)
  quiesced,      \* the session submits no more requests (before free_index)
  \* on disk
  written,       \* virtual chapters close_open_chapter has written to
  savedOpen,     \* a saved open chapter is present in the layout
  savedNewest    \* index newest chapter recorded by the last clean save

zoneVars == <<newest, oldest, openSize, zpc, finished, queue>>
writerVars == <<wpc, zonesToWrite, chapters, result, stop>>
indexVars == <<indexNewest, indexOldest, hasSavedOpen, needToSave, forgotten, quiesced>>
diskVars == <<written, savedOpen, savedNewest>>
vars == <<zoneVars, writerVars, indexVars, diskVars>>

-----------------------------------------------------------------------------
(* chapters_to_expire(geometry, newest): once the volume is full, opening  *)
(* a chapter expires the oldest one.                                       *)
ChaptersToExpire(n) == IF n >= ChaptersPerVolume THEN 1 ELSE 0

(* The first k zones other than z, in the order announce_chapter_closed    *)
(* enqueues to them.                                                       *)
FirstOthers(z, k) == {i \in Zones \ {z} : (IF i < z THEN i ELSE i - 1) < k}

(* launch_zone_message for every zone of targets: enqueue_request with     *)
(* STAGE_MESSAGE appends to that zone's queue.                             *)
Send(targets, vc) ==
  [i \in Zones |-> IF i \in targets THEN Append(queue[i], vc) ELSE queue[i]]

-----------------------------------------------------------------------------
(* make_index: a new index, or one loaded from a clean save, starts every  *)
(* zone at the index's chapters; has_saved_open_chapter = loaded.          *)
Init ==
  \E loaded \in BOOLEAN :
    /\ newest = [z \in Zones |-> 0]
    /\ oldest = [z \in Zones |-> 0]
    /\ openSize = [z \in Zones |-> 0]
    /\ zpc = [z \in Zones |-> "idle"]
    /\ finished = [z \in Zones |-> 0]
    /\ queue = [z \in Zones |-> <<>>]
    /\ wpc = "wait"
    /\ zonesToWrite = 0
    /\ chapters = [z \in Zones |-> NoChapter]
    /\ result = "ok"
    /\ stop = FALSE
    /\ indexNewest = 0
    /\ indexOldest = 0
    /\ hasSavedOpen = loaded
    /\ needToSave = ~loaded
    /\ forgotten = {}
    /\ quiesced = FALSE
    /\ written = {}
    /\ savedOpen = loaded
    /\ savedNewest = 0

(* execute_zone_request for a data request that adds a record to the open  *)
(* chapter (search_index_zone -> put_record_in_zone -> put_open_chapter).  *)
(* A full chapter (left full by a failed close) accepts nothing and again  *)
(* reports no space; no space left starts open_next_chapter.               *)
ZonePutRecord(z) ==
  /\ zpc[z] = "idle"
  /\ ~quiesced
  /\ newest[z] < MaxChapter
  /\ LET size == IF openSize[z] < Capacity THEN openSize[z] + 1 ELSE openSize[z]
     IN /\ openSize' = [openSize EXCEPT ![z] = size]
        /\ zpc' = [zpc EXCEPT ![z] = IF size = Capacity THEN "closing" ELSE "idle"]
  /\ needToSave' = TRUE
  /\ UNCHANGED <<newest, oldest, finished, queue, writerVars, diskVars>>
  /\ UNCHANGED <<indexNewest, indexOldest, hasSavedOpen, forgotten, quiesced>>

(* Mutant: handle_chapter_closed compares the message with the chapter    *)
(* before the open one, so a chapter-closed message never closes anything. *)
HandleChapterClosedOffByOne(z) ==
  /\ zpc[z] = "idle"
  /\ queue[z] # <<>>
  /\ queue' = [queue EXCEPT ![z] = Tail(@)]
  /\ zpc' = [zpc EXCEPT ![z] = IF Head(queue[z]) = newest[z] - 1 THEN "closing" ELSE "idle"]
  /\ UNCHANGED <<newest, oldest, openSize, finished, writerVars, indexVars, diskVars>>

(* execute_zone_request for an ANNOUNCE_CHAPTER_CLOSED message:            *)
(* handle_chapter_closed closes the open chapter only if the message names *)
(* it; the message is then freed.                                          *)
HandleChapterClosed(z) ==
  /\ zpc[z] = "idle"
  /\ queue[z] # <<>>
  /\ queue' = [queue EXCEPT ![z] = Tail(@)]
  /\ zpc' = [zpc EXCEPT ![z] = IF Head(queue[z]) = newest[z] THEN "closing" ELSE "idle"]
  /\ UNCHANGED <<newest, oldest, openSize, finished, writerVars, indexVars, diskVars>>

(* Mutant: finish_previous_chapter waits only for the chapter before the  *)
(* previous one to be committed.                                           *)
OpenNextChapterEarly(z) ==
  /\ zpc[z] = "closing"
  /\ indexNewest >= newest[z] - 1
  /\ \/ /\ result = "error"
        /\ zpc' = [zpc EXCEPT ![z] = "idle"]
        /\ UNCHANGED <<newest, openSize, finished, zonesToWrite, chapters>>
     \/ /\ result = "ok"
        /\ newest' = [newest EXCEPT ![z] = @ + 1]
        /\ openSize' = [openSize EXCEPT ![z] = 0]
        /\ zonesToWrite' = zonesToWrite + 1
        /\ chapters' = [chapters EXCEPT ![z] = newest[z]]
        /\ finished' = [finished EXCEPT ![z] = zonesToWrite + 1]
        /\ zpc' = [zpc EXCEPT ![z] = "announcing"]
  /\ UNCHANGED <<oldest, queue, wpc, result, stop, indexVars, diskVars>>

(* open_next_chapter up to start_closing_chapter: finish_previous_chapter  *)
(* waits under the writer mutex until the index has committed every older  *)
(* chapter and returns writer->result; on success the zone swaps its open  *)
(* and writing chapters, bumps its newest chapter, resets the open chapter *)
(* and hands the writing chapter to the writer.                            *)
OpenNextChapter(z) ==
  /\ zpc[z] = "closing"
  /\ indexNewest >= newest[z]
  /\ \/ /\ result = "error"
        /\ zpc' = [zpc EXCEPT ![z] = "idle"]
        /\ UNCHANGED <<newest, openSize, finished, zonesToWrite, chapters>>
     \/ /\ result = "ok"
        /\ newest' = [newest EXCEPT ![z] = @ + 1]
        /\ openSize' = [openSize EXCEPT ![z] = 0]
        /\ zonesToWrite' = zonesToWrite + 1
        /\ chapters' = [chapters EXCEPT ![z] = newest[z]]
        /\ finished' = [finished EXCEPT ![z] = zonesToWrite + 1]
        /\ zpc' = [zpc EXCEPT ![z] = "announcing"]
  /\ UNCHANGED <<oldest, queue, wpc, result, stop, indexVars, diskVars>>

(* Mutants of the rest of open_next_chapter: the announcement carries the *)
(* zone's new open chapter instead of the closed one; the expiry is        *)
(* computed from the closed chapter; the announce test is inverted to      *)
(* "last zone to close".                                                   *)
FinishClosingAnnounceNewest(z) ==
  LET announce == finished[z] = 1 /\ ZoneCount > 1
      expire == ChaptersToExpire(newest[z])
  IN /\ zpc[z] = "announcing"
     /\ queue' = IF announce THEN Send(Zones \ {z}, newest[z]) ELSE queue
     /\ oldest' = [oldest EXCEPT ![z] = @ + expire]
     /\ forgotten' = IF finished[z] = ZoneCount
                     THEN forgotten \cup (oldest[z] .. oldest[z] + expire - 1)
                     ELSE forgotten
     /\ zpc' = [zpc EXCEPT ![z] = "idle"]
     /\ finished' = [finished EXCEPT ![z] = 0]
     /\ UNCHANGED <<newest, openSize, writerVars, diskVars>>
     /\ UNCHANGED <<indexNewest, indexOldest, hasSavedOpen, needToSave, quiesced>>

FinishClosingExpireClosed(z) ==
  LET closed == newest[z] - 1
      announce == finished[z] = 1 /\ ZoneCount > 1
      expire == ChaptersToExpire(closed)
  IN /\ zpc[z] = "announcing"
     /\ queue' = IF announce THEN Send(Zones \ {z}, closed) ELSE queue
     /\ oldest' = [oldest EXCEPT ![z] = @ + expire]
     /\ forgotten' = IF finished[z] = ZoneCount
                     THEN forgotten \cup (oldest[z] .. oldest[z] + expire - 1)
                     ELSE forgotten
     /\ zpc' = [zpc EXCEPT ![z] = "idle"]
     /\ finished' = [finished EXCEPT ![z] = 0]
     /\ UNCHANGED <<newest, openSize, writerVars, diskVars>>
     /\ UNCHANGED <<indexNewest, indexOldest, hasSavedOpen, needToSave, quiesced>>

FinishClosingAnnounceLast(z) ==
  LET closed == newest[z] - 1
      announce == finished[z] = ZoneCount /\ ZoneCount > 1
      expire == ChaptersToExpire(newest[z])
  IN /\ zpc[z] = "announcing"
     /\ queue' = IF announce THEN Send(Zones \ {z}, closed) ELSE queue
     /\ oldest' = [oldest EXCEPT ![z] = @ + expire]
     /\ forgotten' = IF finished[z] = ZoneCount
                     THEN forgotten \cup (oldest[z] .. oldest[z] + expire - 1)
                     ELSE forgotten
     /\ zpc' = [zpc EXCEPT ![z] = "idle"]
     /\ finished' = [finished EXCEPT ![z] = 0]
     /\ UNCHANGED <<newest, openSize, writerVars, diskVars>>
     /\ UNCHANGED <<indexNewest, indexOldest, hasSavedOpen, needToSave, quiesced>>

(* The rest of open_next_chapter: the first zone to close (of several)     *)
(* announces the closed chapter to the others; then the zone advances its  *)
(* oldest chapter, and the last zone to close tells the volume to forget   *)
(* the expired chapters.                                                   *)
FinishClosingChapter(z) ==
  LET closed == newest[z] - 1
      announce == finished[z] = 1 /\ ZoneCount > 1
      expire == ChaptersToExpire(newest[z])
  IN /\ zpc[z] = "announcing"
     /\ queue' = IF announce THEN Send(Zones \ {z}, closed) ELSE queue
     /\ oldest' = [oldest EXCEPT ![z] = @ + expire]
     /\ forgotten' = IF finished[z] = ZoneCount
                     THEN forgotten \cup (oldest[z] .. oldest[z] + expire - 1)
                     ELSE forgotten
     /\ zpc' = [zpc EXCEPT ![z] = "idle"]
     /\ finished' = [finished EXCEPT ![z] = 0]
     /\ UNCHANGED <<newest, openSize, writerVars, diskVars>>
     /\ UNCHANGED <<indexNewest, indexOldest, hasSavedOpen, needToSave, quiesced>>

(* announce_chapter_closed returns the error of the first message that     *)
(* cannot be allocated, after enqueueing to the zones before it; so does   *)
(* open_next_chapter, skipping the expiry of its oldest chapter.           *)
AnnounceFails(z) ==
  /\ AnnounceMayFail
  /\ zpc[z] = "announcing"
  /\ finished[z] = 1 /\ ZoneCount > 1
  /\ \E k \in 0 .. ZoneCount - 2 :
       queue' = Send(FirstOthers(z, k), newest[z] - 1)
  /\ zpc' = [zpc EXCEPT ![z] = "idle"]
  /\ finished' = [finished EXCEPT ![z] = 0]
  /\ UNCHANGED <<newest, oldest, openSize, writerVars, indexVars, diskVars>>

(* Mutant: the saved open chapter is left in place when a chapter is      *)
(* written (discarded only after close_open_chapter, or not at all).       *)
WriterStartCloseKeepSaved ==
  /\ wpc = "wait"
  /\ zonesToWrite = ZoneCount
  /\ wpc' = "writing"
  /\ UNCHANGED <<hasSavedOpen, savedOpen>>
  /\ UNCHANGED <<zoneVars, zonesToWrite, chapters, result, stop>>
  /\ UNCHANGED <<indexNewest, indexOldest, needToSave, forgotten, quiesced>>
  /\ UNCHANGED <<written, savedNewest>>

(* close_chapters, once every zone has submitted its chapter: it releases  *)
(* the mutex and, the first time after a load or a clean save, discards    *)
(* the saved open chapter (clearing has_saved_open_chapter whatever        *)
(* discard_open_chapter returns).                                          *)
WriterStartClose ==
  /\ wpc = "wait"
  /\ zonesToWrite = ZoneCount
  /\ wpc' = "writing"
  /\ \/ /\ ~hasSavedOpen
        /\ UNCHANGED <<hasSavedOpen, savedOpen>>
     \/ /\ hasSavedOpen
        /\ hasSavedOpen' = FALSE
        /\ savedOpen' = FALSE
     \/ /\ hasSavedOpen /\ DiscardMayFail
        /\ hasSavedOpen' = FALSE
        /\ UNCHANGED savedOpen
  /\ UNCHANGED <<zoneVars, zonesToWrite, chapters, result, stop>>
  /\ UNCHANGED <<indexNewest, indexOldest, needToSave, forgotten, quiesced>>
  /\ UNCHANGED <<written, savedNewest>>

(* Mutant: close_chapters does not reset zones_to_write after a write.    *)
WriterCommitKeepCount ==
  /\ wpc = "writing"
  /\ written' = written \cup {indexNewest}
  /\ result' \in {"ok"} \cup (IF WriteMayFail THEN {"error"} ELSE {})
  /\ indexNewest' = indexNewest + 1
  /\ indexOldest' = indexOldest + ChaptersToExpire(indexNewest + 1)
  /\ UNCHANGED zonesToWrite
  /\ wpc' = "wait"
  /\ UNCHANGED <<zoneVars, chapters, stop, hasSavedOpen, needToSave>>
  /\ UNCHANGED <<forgotten, quiesced, savedOpen, savedNewest>>

(* close_chapters after close_open_chapter has written the chapter: under  *)
(* the mutex it commits the index's newest chapter, expires the oldest,    *)
(* records the write's result and starts waiting for the next chapter.     *)
WriterCommit ==
  /\ wpc = "writing"
  /\ written' = written \cup {indexNewest}
  /\ result' \in {"ok"} \cup (IF WriteMayFail THEN {"error"} ELSE {})
  /\ indexNewest' = indexNewest + 1
  /\ indexOldest' = indexOldest + ChaptersToExpire(indexNewest + 1)
  /\ zonesToWrite' = 0
  /\ wpc' = "wait"
  /\ UNCHANGED <<zoneVars, chapters, stop, hasSavedOpen, needToSave>>
  /\ UNCHANGED <<forgotten, quiesced, savedOpen, savedNewest>>

(* close_chapters returns when told to stop while no zone has submitted a  *)
(* chapter.                                                                *)
WriterExit ==
  /\ wpc = "wait"
  /\ stop
  /\ zonesToWrite = 0
  /\ wpc' = "exited"
  /\ UNCHANGED <<zoneVars, zonesToWrite, chapters, result, stop, indexVars, diskVars>>

(* The session stops submitting requests (before a save or free_index).    *)
Quiesce ==
  /\ ~quiesced
  /\ quiesced' = TRUE
  /\ UNCHANGED <<zoneVars, writerVars, diskVars>>
  /\ UNCHANGED <<indexNewest, indexOldest, hasSavedOpen, needToSave, forgotten>>

(* free_index: uds_request_queue_finish drains and stops every zone queue, *)
(* then stop_chapter_writer sets stop and wakes the writer.                *)
StopChapterWriter ==
  /\ quiesced
  /\ ~stop
  /\ \A z \in Zones : zpc[z] = "idle" /\ queue[z] = <<>>
  /\ stop' = TRUE
  /\ UNCHANGED <<zoneVars, wpc, zonesToWrite, chapters, result, indexVars, diskVars>>

(* save_index, with no request in progress: wait_for_idle_index, then      *)
(* save_index_state records the newest chapter and the open chapters.      *)
SaveIndex ==
  /\ ~stop
  /\ needToSave
  /\ \A z \in Zones : zpc[z] = "idle"
  /\ zonesToWrite = 0
  /\ hasSavedOpen' = TRUE
  /\ needToSave' = FALSE
  /\ savedOpen' = TRUE
  /\ savedNewest' = indexNewest
  /\ UNCHANGED <<zoneVars, writerVars, indexNewest, indexOldest, forgotten, quiesced, written>>

ZoneStep(z) ==
  \/ ZonePutRecord(z)
  \/ HandleChapterClosed(z)
  \/ OpenNextChapter(z)
  \/ FinishClosingChapter(z)
  \/ AnnounceFails(z)

Next ==
  \/ \E z \in Zones : ZoneStep(z)
  \/ WriterStartClose
  \/ WriterCommit
  \/ WriterExit
  \/ Quiesce
  \/ StopChapterWriter
  \/ SaveIndex

(* Zone threads and the writer thread run whenever they are runnable: the  *)
(* writer broadcasts its condvar on every change a waiter depends on.      *)
(* Clients are not fair: requests, saves and shutdown may never come.      *)
Fairness ==
  /\ \A z \in Zones :
       /\ WF_vars(HandleChapterClosed(z))
       /\ WF_vars(OpenNextChapter(z))
       /\ WF_vars(FinishClosingChapter(z) \/ AnnounceFails(z))
  /\ WF_vars(WriterStartClose)
  /\ WF_vars(WriterCommit)
  /\ WF_vars(WriterExit)

Spec == Init /\ [][Next]_vars /\ Fairness

-----------------------------------------------------------------------------
TypeOK ==
  /\ newest \in [Zones -> 0 .. MaxChapter]
  /\ oldest \in [Zones -> 0 .. MaxChapter]
  /\ openSize \in [Zones -> 0 .. Capacity]
  /\ zpc \in [Zones -> {"idle", "closing", "announcing"}]
  /\ finished \in [Zones -> 0 .. ZoneCount]
  /\ queue \in [Zones -> Seq(0 .. MaxChapter)]
  /\ wpc \in {"wait", "writing", "exited"}
  /\ zonesToWrite \in 0 .. ZoneCount
  /\ chapters \in [Zones -> {NoChapter} \cup (0 .. MaxChapter)]
  /\ result \in {"ok", "error"}
  /\ stop \in BOOLEAN
  /\ indexNewest \in 0 .. MaxChapter
  /\ indexOldest \in 0 .. MaxChapter
  /\ {hasSavedOpen, needToSave, quiesced, savedOpen} \subseteq BOOLEAN
  /\ forgotten \subseteq 0 .. MaxChapter
  /\ written \subseteq 0 .. MaxChapter
  /\ savedNewest \in 0 .. MaxChapter

(* No zone opens a chapter while another zone still has the previous one   *)
(* open: finish_previous_chapter holds every zone to the index's newest    *)
(* chapter or the one after it, so zones differ by at most one chapter.    *)
ZonesWithinOneChapter ==
  \A z \in Zones : newest[z] \in {indexNewest, indexNewest + 1}

(* The writer's zones_to_write counts exactly the zones that have closed   *)
(* the index's newest chapter, each of which has handed that chapter to    *)
(* the writer: no zone is counted twice and none is missed, so             *)
(* close_open_chapter merges one chapter of every zone.                    *)
WriterSeesEachZoneOnce ==
  /\ zonesToWrite = Cardinality({z \in Zones : newest[z] > indexNewest})
  /\ \A z \in Zones : newest[z] > indexNewest => chapters[z] = indexNewest

(* A chapter-closed message still queued for a zone either names a chapter *)
(* that zone has already closed, or names the chapter the writer is        *)
(* collecting right now: handle_chapter_closed never closes a chapter      *)
(* other zones are not closing, and once zones_to_write is back to zero    *)
(* (as save_index waits for) every queued message is stale.                *)
ChapterClosedMessagesCurrent ==
  \A z \in Zones : \A i \in 1 .. Len(queue[z]) :
    queue[z][i] >= newest[z] =>
      /\ queue[z][i] = newest[z]
      /\ newest[z] = indexNewest
      /\ zonesToWrite > 0

(* When close_chapters writes chapter N to its physical slot, the chapter  *)
(* that slot held (N - chapters_per_volume) has been forgotten by the      *)
(* volume (open_next_chapter of the last zone to close) and every zone has *)
(* moved its oldest chapter past it.                                       *)
WriterOverwritesOnlyExpired ==
  wpc = "writing" /\ indexNewest >= ChaptersPerVolume =>
    LET shadowed == indexNewest - ChaptersPerVolume
    IN /\ shadowed \in forgotten
       /\ \A z \in Zones : oldest[z] > shadowed

(* While a saved open chapter is on disk, no chapter has been written      *)
(* since that save: a load that finds it would resume from the saved state *)
(* without a rebuild, so close_chapters must discard it before writing.    *)
SavedOpenChapterIsCurrent ==
  savedOpen => \A c \in written : c < savedNewest

(* Once one zone has closed a chapter, every zone closes it (by filling    *)
(* its own chapter or on the chapter-closed message) and the writer        *)
(* commits it, with no further client requests needed.                     *)
ChapterEventuallyCommitted ==
  \A n \in 0 .. MaxChapter :
    (zonesToWrite > 0 /\ indexNewest = n) ~> (indexNewest > n)

(* free_index returns: once stop_chapter_writer has set stop, the writer   *)
(* thread exits and can be joined.                                         *)
ShutdownCompletes == stop ~> (wpc = "exited")

-----------------------------------------------------------------------------
(* The zones and the writer implement ChapterLifecycle: a zone's open      *)
(* chapter is zone->newest_virtual_chapter, the committed count is         *)
(* index->newest_virtual_chapter, a zone's window starts at               *)
(* zone->oldest_virtual_chapter, and the durable chapters are those        *)
(* close_open_chapter wrote.  open_next_chapter is Close once              *)
(* start_closing_chapter has run, the rest of open_next_chapter is Expire  *)
(* (or a stutter before the volume is full), and the commit under the      *)
(* writer mutex is Commit; every other step is a stutter.                  *)
Lifecycle == INSTANCE ChapterLifecycle
               WITH open <- newest, committed <- indexNewest, oldest <- oldest,
                    durable <- written

(* The close protocol keeps the chapter lifecycle's order: finish_previous *)
(* _chapter stops a zone from closing a chapter the writer has not         *)
(* committed the one before of, the writer commits only after              *)
(* zones_to_write counts every zone, each zone expires its oldest chapter  *)
(* before it can close again, and the writer and the zone threads do not   *)
(* leave a commit or an expiry undone.                                     *)
ImplementsChapterLifecycle == Lifecycle!Spec

=============================================================================
