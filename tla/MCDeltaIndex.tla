---------------------------- MODULE MCDeltaIndex ----------------------------
(* A two-list zone of a mutable delta index for TLC: the constants are in *)
(* MCDeltaIndex.cfg and MCDeltaRestore.cfg.  Keys 0 .. 2 give deltas in the  *)
(* short and the long code; names 0 and 1 let a search pass a collision   *)
(* entry of the other name and a remove promote one.                      *)
EXTENDS DeltaIndexSave

MCKeys == 0 .. 2
MCNames == {0, 1}

(* Bit i lies inside a list or a guard. *)
InList(i) == \E l \in 0 .. TailGuard : dl[l].start <= i /\ i < dl[l].start + dl[l].size

(* The state as far as any later step can tell: without the last call,    *)
(* which no action reads, and with the free bits between lists, which no  *)
(* step reads before it writes them, taken as zero.                       *)
MCView == <<[i \in DOMAIN mem |-> IF InList(i) THEN mem[i] ELSE 0], dl,
            recordCount, collisionCount>>

(* States with two records are explored further; a third record is put,  *)
(* and checked, but not built on: the two list bytes are then nearly full. *)
MCRecordBound == recordCount <= 2
====
