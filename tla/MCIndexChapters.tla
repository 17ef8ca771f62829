-------------------------- MODULE MCIndexChapters ---------------------------
(* Model-checking instance of IndexChapters: the chapter state beyond the  *)
(* bound is cut off by MaxChapter in the module itself.                    *)
EXTENDS IndexChapters

(* Two zones so that announce messages and "first/last zone to close"      *)
(* both happen; capacity two so that chapters close both when full and on  *)
(* an announce; a two-chapter volume so that expiry starts at chapter 2.   *)
MCZoneCount == 2
MCCapacity == 2
MCChaptersPerVolume == 2
MCMaxChapter == 4

(* Three zones for the failure runs, so that announce_chapter_closed can   *)
(* fail after reaching only some of the other zones.                       *)
MCFailZoneCount == 3
MCFailMaxChapter == 3
=============================================================================
