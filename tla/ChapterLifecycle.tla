-------------------------- MODULE ChapterLifecycle --------------------------
(***************************************************************************)
(* What the index core promises about its chapters, with the threads, the  *)
(* messages and the writer's handshake left out.  Every zone has an open   *)
(* chapter and a window of chapters it still searches; the index has a    *)
(* count of committed chapters, and the chapters made durable.             *)
(*                                                                         *)
(*   - a zone closes only the chapter the index is collecting, so no zone  *)
(*     is ever more than one chapter ahead of the committed ones;          *)
(*   - a chapter is committed, and written, only once every zone has       *)
(*     closed it;                                                          *)
(*   - once a close makes a zone's window wider than the volume, the zone  *)
(*     expires its oldest chapter before it closes another one.            *)
(***************************************************************************)
EXTENDS Naturals

CONSTANTS
  Zones,              \* the index zones
  ChaptersPerVolume   \* physical chapters of the volume

VARIABLES
  open,       \* open[z]: the chapter zone z is filling
  committed,  \* chapters 0 .. committed - 1 are committed
  oldest,     \* oldest[z]: the oldest chapter zone z still searches
  durable     \* the chapters written to the volume

avars == <<open, committed, oldest, durable>>

Init ==
  /\ open = [z \in Zones |-> 0]
  /\ committed = 0
  /\ oldest = [z \in Zones |-> 0]
  /\ durable = {}

(* Zone z closes its open chapter and opens the next one. *)
Close(z) ==
  /\ open[z] = committed
  /\ open[z] - oldest[z] < ChaptersPerVolume
  /\ open' = [open EXCEPT ![z] = @ + 1]
  /\ UNCHANGED <<committed, oldest, durable>>

(* Zone z drops its oldest chapter from a window that no longer fits. *)
Expire(z) ==
  /\ open[z] - oldest[z] = ChaptersPerVolume
  /\ oldest' = [oldest EXCEPT ![z] = @ + 1]
  /\ UNCHANGED <<open, committed, durable>>

(* The chapter every zone has closed is written and committed. *)
Commit ==
  /\ \A z \in Zones : open[z] = committed + 1
  /\ durable' = durable \cup {committed}
  /\ committed' = committed + 1
  /\ UNCHANGED <<open, oldest>>

Next ==
  \/ \E z \in Zones : Close(z) \/ Expire(z)
  \/ Commit

(* Closing depends on clients filling chapters; committing and expiring   *)
(* do not, and must happen.                                                *)
Spec ==
  /\ Init /\ [][Next]_avars
  /\ WF_avars(Commit)
  /\ \A z \in Zones : WF_avars(Expire(z))

=============================================================================
