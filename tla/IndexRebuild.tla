--------------------------- MODULE IndexRebuild ---------------------------
(***************************************************************************)
(* What survives a crash of the index and how make_index gets it back      *)
(* (src/unnamed/part_001, index.c).  While the index runs, the chapter     *)
(* writer (close_chapters) discards the saved open chapter the first time  *)
(* it closes a chapter after a load or a save, then writes the chapter     *)
(* into its physical slot; save_index saves the index state.  The process  *)
(* may crash at any point, or be closed and reopened.  make_index then     *)
(* loads the saved state (load_index) or, with UDS_LOAD, rebuilds it:      *)
(* rebuild_index finds the chapters on disk, replay_volume replays each    *)
(* one (replay_chapter, replay_record) into an empty volume index, and     *)
(* check_for_suspend lets the session suspend, resume or free the replay   *)
(* between chapters.                                                       *)
(*                                                                         *)
(* The zones and the close protocol are IndexChapters; here one chapter    *)
(* closes at a time with the records clients put into it.                  *)
(***************************************************************************)
EXTENDS Integers, FiniteSets, VolumeIndex

CONSTANTS
  ChaptersPerVolume,  \* physical chapter slots of the volume
  MaxChapter,         \* clients stop once the index reaches it
  MaxRestarts,        \* crashes and reopens
  DiscardMayFail,     \* discard_open_chapter may fail
  WriteMayFail,       \* close_open_chapter may fail
  ReplayMayFail,      \* reading a chapter during replay may fail
  QuickResuspend      \* the session may suspend again before a resumed replay runs

ASSUME
  /\ ChaptersPerVolume \in Nat \ {0, 1}
  /\ MaxChapter \in Nat /\ MaxRestarts \in Nat
  /\ {DiscardMayFail, WriteMayFail, ReplayMayFail, QuickResuspend} \subseteq BOOLEAN

Chapters == 0 .. MaxChapter
Slots == 0 .. ChaptersPerVolume - 1
Slot(c) == c % ChaptersPerVolume            \* map_to_physical_chapter
EmptySlot == [ch |-> NoChapter, recs |-> {}, valid |-> FALSE]

Statuses == {"OPENING", "SUSPENDING", "SUSPENDED", "FREEING", "READY"}
Phases == {"running", "loading", "replaying", "failed", "freed"}

VARIABLES
  volume,       \* volume[p]: the chapter in slot p, its records, whether it reads back
  newest,       \* index->newest_virtual_chapter
  oldest,       \* index->oldest_virtual_chapter
  writing,      \* the writer is between discard and the end of its write
  hasSaved,     \* index->has_saved_open_chapter
  save,         \* the saved index state: whether it loads, and its chapters
  phase,        \* running, or where make_index is
  openType,     \* the open_type of the current make_index
  status,       \* load_context->status
  vi,           \* the volume index the rebuild is building
  cur,          \* the chapter replay_volume is at
  pending,      \* records of chapter cur not yet replayed
  started,      \* replay_chapter has read chapter cur
  waiting,      \* the replay waits in check_for_suspend
  restarts

vars == <<volume, newest, oldest, writing, hasSaved, save, phase, openType,
          status, vi, cur, pending, started, waiting, restarts>>
loadVars == <<vi, cur, pending, started, waiting>>

ChaptersToExpire(c) == IF c >= ChaptersPerVolume THEN 1 ELSE 0

(* A chapter reads back from disk when its slot holds it whole. *)
OnDisk(c) == volume[Slot(c)].valid /\ volume[Slot(c)].ch = c
Written == {volume[p].ch : p \in {q \in Slots : volume[q].valid}}

-----------------------------------------------------------------------------
(* close_chapters, up to close_open_chapter: the first close after a load  *)
(* or a save clears has_saved_open_chapter and discards the saved open     *)
(* chapter, whose result is only logged; the write then starts and the    *)
(* slot no longer holds its old chapter.                                   *)
StartWrite(recs) ==
  /\ phase = "running" /\ ~writing
  /\ newest < MaxChapter
  /\ hasSaved' = FALSE
  /\ \/ /\ hasSaved
        /\ \/ save' = [save EXCEPT !.valid = FALSE]
           \/ DiscardMayFail /\ UNCHANGED save
     \/ ~hasSaved /\ UNCHANGED save
  /\ volume' = [volume EXCEPT ![Slot(newest)] = [ch |-> newest, recs |-> recs, valid |-> FALSE]]
  /\ writing' = TRUE
  /\ UNCHANGED <<newest, oldest, phase, openType, status, loadVars, restarts>>

(* close_chapters after close_open_chapter: the chapter is on disk, or the *)
(* write failed; either way the index moves on to the next chapter.        *)
FinishWrite ==
  /\ phase = "running" /\ writing
  /\ \/ volume' = [volume EXCEPT ![Slot(newest)].valid = TRUE]
     \/ WriteMayFail /\ UNCHANGED volume
  /\ newest' = newest + 1
  /\ oldest' = oldest + ChaptersToExpire(newest + 1)
  /\ writing' = FALSE
  /\ UNCHANGED <<hasSaved, save, phase, openType, status, loadVars, restarts>>

(* save_index: after wait_for_idle_index, the state is saved with the open *)
(* chapter and has_saved_open_chapter is set.                              *)
SaveIndex ==
  /\ phase = "running" /\ ~writing
  /\ save' = [valid |-> TRUE, newest |-> newest, oldest |-> oldest]
  /\ hasSaved' = TRUE
  /\ UNCHANGED <<volume, newest, oldest, writing, phase, openType, status, loadVars, restarts>>

(* The process dies, or the index is closed and opened again: only the    *)
(* volume and the saved state remain; make_index starts with an open type. *)
Restart(t) ==
  /\ restarts < MaxRestarts
  /\ restarts' = restarts + 1
  /\ phase' = "loading"
  /\ openType' = t
  /\ status' = "OPENING"
  /\ writing' = FALSE
  /\ hasSaved' = FALSE
  /\ vi' = EmptyIndex
  /\ cur' = 0 /\ pending' = {} /\ started' = FALSE /\ waiting' = FALSE
  /\ UNCHANGED <<volume, newest, oldest, save>>

-----------------------------------------------------------------------------
(* The end of make_index: zones take the index's chapters, the load        *)
(* context is made READY and broadcast, and has_saved_open_chapter says    *)
(* whether the state was loaded.                                           *)
Opened(loaded) ==
  /\ phase' = "running"
  /\ status' = "READY"
  /\ hasSaved' = loaded

(* Mutant: the loaded newest chapter taken one past the saved one. *)
LoadSavedPastSave ==
  /\ phase = "loading" /\ save.valid
  /\ newest' = save.newest + 1 /\ oldest' = save.oldest
  /\ Opened(TRUE)
  /\ UNCHANGED <<volume, writing, save, openType, loadVars, restarts>>

(* make_index, load_index succeeds: the saved state is the index. *)
LoadSaved ==
  /\ phase = "loading" /\ save.valid
  /\ newest' = save.newest /\ oldest' = save.oldest
  /\ Opened(TRUE)
  /\ UNCHANGED <<volume, writing, save, openType, loadVars, restarts>>

(* make_index, load_index fails with UDS_NO_REBUILD: make_index fails. *)
LoadFails ==
  /\ phase = "loading" /\ ~save.valid /\ openType = "NO_REBUILD"
  /\ phase' = "failed"
  /\ UNCHANGED <<volume, newest, oldest, writing, hasSaved, save, openType, status,
                 loadVars, restarts>>

(* Mutant: rebuild_index without the skip of the shadowed chapter. *)
StartRebuildNoSkip ==
  /\ phase = "loading" /\ ~save.valid /\ openType = "LOAD"
  /\ IF Written = {}
       THEN /\ newest' = 0 /\ oldest' = 0
            /\ Opened(FALSE)
            /\ UNCHANGED cur
       ELSE /\ newest' = (CHOOSE c \in Written : \A d \in Written : c >= d) + 1
            /\ oldest' = CHOOSE c \in Written : \A d \in Written : c <= d
            /\ cur' = oldest'
            /\ phase' = "replaying"
            /\ UNCHANGED <<status, hasSaved>>
  /\ UNCHANGED <<volume, writing, save, openType, vi, pending, started, waiting, restarts>>

(* rebuild_index: find_volume_chapter_boundaries over the chapters that   *)
(* read back; an empty volume opens at chapter 0, otherwise the newest     *)
(* chapter follows the highest and the chapter the open chapter shadows    *)
(* is skipped.                                                             *)
StartRebuild ==
  /\ phase = "loading" /\ ~save.valid /\ openType = "LOAD"
  /\ IF Written = {}
       THEN /\ newest' = 0 /\ oldest' = 0
            /\ Opened(FALSE)
            /\ UNCHANGED cur
       ELSE LET lowest == CHOOSE c \in Written : \A d \in Written : c <= d
                highest == CHOOSE c \in Written : \A d \in Written : c >= d
            IN /\ newest' = highest + 1
               /\ oldest' = IF highest + 1 = lowest + ChaptersPerVolume
                              THEN lowest + 1 ELSE lowest
               /\ cur' = oldest'
               /\ phase' = "replaying"
               /\ UNCHANGED <<status, hasSaved>>
  /\ UNCHANGED <<volume, writing, save, openType, vi, pending, started, waiting, restarts>>

-----------------------------------------------------------------------------
(* Mutant: check_for_suspend waits without publishing SUSPENDED. *)
SuspendReplaySilent ==
  /\ phase = "replaying" /\ cur < newest /\ ~started /\ ~waiting
  /\ status = "SUSPENDING"
  /\ waiting' = TRUE
  /\ UNCHANGED <<volume, newest, oldest, writing, hasSaved, save, phase, openType,
                 status, vi, cur, pending, started, restarts>>

(* check_for_suspend at the start of replay_chapter: a SUSPENDING status   *)
(* becomes SUSPENDED, broadcast, and the replay waits.                     *)
SuspendReplay ==
  /\ phase = "replaying" /\ cur < newest /\ ~started /\ ~waiting
  /\ status = "SUSPENDING"
  /\ status' = "SUSPENDED"
  /\ waiting' = TRUE
  /\ UNCHANGED <<volume, newest, oldest, writing, hasSaved, save, phase, openType,
                 vi, cur, pending, started, restarts>>

(* check_for_suspend returns true once the status is FREEING: the replay   *)
(* ends with -EBUSY and make_index frees the index.                        *)
ReplayBusy ==
  /\ phase = "replaying" /\ waiting
  /\ status = "FREEING"
  /\ phase' = "freed"
  /\ waiting' = FALSE
  /\ UNCHANGED <<volume, newest, oldest, writing, hasSaved, save, openType, status,
                 vi, cur, pending, started, restarts>>

(* check_for_suspend returns false: the status is not SUSPENDING, or a     *)
(* waiting replay was resumed (OPENING).                                   *)
PastSuspendCheck ==
  IF waiting THEN status = "OPENING" ELSE status # "SUSPENDING"

(* replay_chapter past check_for_suspend: set_volume_index_open_chapter    *)
(* expires the entries of chapters that left the window, and the          *)
(* chapter's pages are read.                                               *)
ReplayChapter ==
  /\ phase = "replaying" /\ cur < newest /\ ~started
  /\ PastSuspendCheck
  /\ OnDisk(cur)
  /\ vi' = Purge(vi, cur + 1 - ChaptersPerVolume)
  /\ pending' = volume[Slot(cur)].recs
  /\ started' = TRUE
  /\ waiting' = FALSE
  /\ UNCHANGED <<volume, newest, oldest, writing, hasSaved, save, phase, openType,
                 status, cur, restarts>>

(* replay_chapter: rebuild_index_page_map or a page read fails, as it     *)
(* must for a chapter whose write never completed (its pages are corrupt); *)
(* make_index fails and frees the index.                                   *)
ReplayFails ==
  /\ phase = "replaying" /\ cur < newest /\ ~started
  /\ PastSuspendCheck
  /\ ReplayMayFail \/ ~OnDisk(cur)
  /\ phase' = "failed"
  /\ UNCHANGED <<volume, newest, oldest, writing, hasSaved, save, openType, status,
                 loadVars, restarts>>

(* Mutant: replay_record moves any hint for another chapter to cur without *)
(* reading that chapter for the name.                                      *)
ReplayRecordTrustHint(n) ==
  LET rec == Lookup(vi, n)
  IN /\ phase = "replaying" /\ started
     /\ n \in pending
     /\ vi' = CASE rec.coll /\ rec.ch = cur -> vi
                [] rec.found /\ rec.ch # cur -> SetEntryChapter(vi, n, rec, cur)
                [] OTHER -> PutEntry(vi, n, rec, cur)
     /\ pending' = pending \ {n}
     /\ UNCHANGED <<volume, newest, oldest, writing, hasSaved, save, phase, openType,
                    status, cur, started, waiting, restarts>>

(* replay_record for record n of chapter cur (a dense chapter: no record is *)
(* skipped).  A collision entry for n is moved to cur; a hint for cur is   *)
(* taken to be another name's, and a hint for another chapter is resolved *)
(* by reading that chapter; anything else gets a new entry.                *)
ReplayRecord(n) ==
  LET rec == Lookup(vi, n)
      update == /\ rec.found
                /\ IF rec.coll THEN rec.ch # cur
                   ELSE rec.ch # cur /\ n \in volume[Slot(rec.ch)].recs
  IN /\ phase = "replaying" /\ started
     /\ n \in pending
     /\ vi' = CASE rec.coll /\ rec.ch = cur -> vi
                [] update -> SetEntryChapter(vi, n, rec, cur)
                [] OTHER -> PutEntry(vi, n, rec, cur)
     /\ pending' = pending \ {n}
     /\ UNCHANGED <<volume, newest, oldest, writing, hasSaved, save, phase, openType,
                    status, cur, started, waiting, restarts>>

(* replay_volume's loop moves to the next chapter. *)
NextChapter ==
  /\ phase = "replaying" /\ started /\ pending = {}
  /\ cur' = cur + 1
  /\ started' = FALSE
  /\ UNCHANGED <<volume, newest, oldest, writing, hasSaved, save, phase, openType,
                 status, vi, pending, waiting, restarts>>

(* replay_volume, after the loop: the chapter replaced by the open chapter *)
(* is reaped; rebuild_index returns and make_index completes.              *)
ReplayDone ==
  /\ phase = "replaying" /\ cur = newest /\ ~started
  /\ vi' = Purge(vi, newest + 1 - ChaptersPerVolume)
  /\ Opened(FALSE)
  /\ UNCHANGED <<volume, newest, oldest, writing, save, openType, cur, pending,
                 started, waiting, restarts>>

-----------------------------------------------------------------------------
(* The session (not among the sources) asks a load to suspend, resumes a   *)
(* suspended replay, or frees it.                                          *)
SessionSuspend ==
  /\ status = "OPENING" /\ phase \in {"loading", "replaying"}
  /\ QuickResuspend \/ ~waiting
  /\ status' = "SUSPENDING"
  /\ UNCHANGED <<volume, newest, oldest, writing, hasSaved, save, phase, openType,
                 loadVars, restarts>>

SessionResume ==
  /\ status = "SUSPENDED"
  /\ status' = "OPENING"
  /\ UNCHANGED <<volume, newest, oldest, writing, hasSaved, save, phase, openType,
                 loadVars, restarts>>

SessionFree ==
  /\ status = "SUSPENDED"
  /\ status' = "FREEING"
  /\ UNCHANGED <<volume, newest, oldest, writing, hasSaved, save, phase, openType,
                 loadVars, restarts>>

-----------------------------------------------------------------------------
Init ==
  /\ volume = [p \in Slots |-> EmptySlot]
  /\ newest = 0 /\ oldest = 0
  /\ writing = FALSE
  /\ hasSaved = FALSE
  /\ save = [valid |-> FALSE, newest |-> 0, oldest |-> 0]
  /\ phase = "running"
  /\ openType = "LOAD"
  /\ status = "READY"
  /\ vi = EmptyIndex
  /\ cur = 0 /\ pending = {} /\ started = FALSE /\ waiting = FALSE
  /\ restarts = 0

Loader ==
  \/ LoadSaved \/ LoadFails \/ StartRebuild
  \/ SuspendReplay \/ ReplayBusy \/ ReplayChapter \/ ReplayFails
  \/ \E n \in Names : ReplayRecord(n)
  \/ NextChapter \/ ReplayDone

Next ==
  \/ \E recs \in SUBSET Names \ {{}} : StartWrite(recs)
  \/ FinishWrite
  \/ SaveIndex
  \/ \E t \in {"LOAD", "NO_REBUILD"} : Restart(t)
  \/ Loader
  \/ SessionSuspend \/ SessionResume \/ SessionFree

(* The loading thread and the writer run while they have work; clients,    *)
(* crashes and the session are not fair.                                   *)
Fairness == WF_vars(Loader) /\ WF_vars(FinishWrite)

Spec == Init /\ [][Next]_vars /\ Fairness

-----------------------------------------------------------------------------
SlotContent == [ch : Chapters \cup {NoChapter}, recs : SUBSET Names, valid : BOOLEAN]
Entry == [ch : Chapters, nm : Names \cup {NoName}]

TypeOK ==
  /\ volume \in [Slots -> SlotContent]
  /\ newest \in Chapters /\ oldest \in 0 .. newest
  /\ writing \in BOOLEAN /\ hasSaved \in BOOLEAN
  /\ save \in [valid : BOOLEAN, newest : Chapters, oldest : Chapters]
  /\ phase \in Phases /\ openType \in {"LOAD", "NO_REBUILD"} /\ status \in Statuses
  /\ vi \in [Addrs -> Seq(Entry)]
  /\ cur \in Chapters /\ pending \subseteq Names
  /\ started \in BOOLEAN /\ waiting \in BOOLEAN
  /\ restarts \in 0 .. MaxRestarts

(* make_index completes a load or a rebuild. *)
Opens == phase \in {"loading", "replaying"} /\ phase' = "running"

(* What make_index opens is what is on disk: every chapter of the window   *)
(* from oldest to newest - 1 reads back from its slot, no chapter on disk  *)
(* is at or past the open chapter, and the window and the open chapter     *)
(* fit in the volume.  This is what the saved open chapter's discard       *)
(* (close_chapters) and the skip of the shadowed chapter (rebuild_index)   *)
(* are for.                                                                *)
LoadedWindowOnDisk ==
  [][Opens =>
       /\ \A c \in oldest' .. newest' - 1 : OnDisk(c)
       /\ \A c \in Written : c < newest'
       /\ newest' - oldest' < ChaptersPerVolume]_vars

(* The chapters of the window that hold name n. *)
Holding(n, lo, hi) == {c \in lo .. hi - 1 : OnDisk(c) /\ n \in volume[Slot(c)].recs}

(* A rebuild indexes every record of the window under the newest chapter   *)
(* that holds it: a lookup of the name is sent to that chapter, whether    *)
(* replay_record left a hint or a collision entry for it, even where it    *)
(* shares a delta list with other names.  No entry is left for a chapter   *)
(* outside the window.                                                     *)
RebuildIndexesEveryRecord ==
  [][phase = "replaying" /\ phase' = "running" =>
       /\ \A n \in Names :
            Holding(n, oldest', newest') # {} =>
              LET rec == Lookup(vi', n)
              IN /\ rec.found
                 /\ rec.ch \in Holding(n, oldest', newest')
                 /\ \A c \in Holding(n, oldest', newest') : rec.ch >= c
       /\ \A a \in Addrs : \A i \in 1 .. Len(vi'[a]) :
            vi'[a][i].ch \in oldest' .. newest' - 1]_vars

(* A suspend asked of a running load is answered: the replay reports       *)
(* SUSPENDED from check_for_suspend, or make_index sets READY and          *)
(* broadcasts, or the load ends.                                           *)
SuspendAnswered ==
  status = "SUSPENDING" ~> (status # "SUSPENDING" \/ phase \notin {"loading", "replaying"})

=============================================================================
