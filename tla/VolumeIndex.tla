---------------------------- MODULE VolumeIndex ----------------------------
(***************************************************************************)
(* The volume index as index.c uses it: a map from record names to         *)
(* chapters kept in delta lists, one list per address.  Its code           *)
(* (volume-index.c, delta-index.c) is not among the sources; what is here  *)
(* is the behaviour the specification gives the calls index.c makes.       *)
(* A list is a sequence of entries.  Its first entry carries no name: it   *)
(* is a hint that may have been made for any name with that address.      *)
(* A later entry is a collision entry and carries the full name.           *)
(***************************************************************************)
EXTENDS Integers, Sequences
LOCAL INSTANCE SequencesExt

CONSTANTS
  Names,     \* record names
  NameAddr   \* the delta list address of each name

Addrs == {NameAddr[n] : n \in Names}
NoChapter == -1
NoName == "no name"      \* the name field of a non-collision entry

(* get_volume_index_record: the collision entry carrying the name if there *)
(* is one, else the list's first (non-collision) entry.                    *)
Lookup(v, n) ==
  LET es == v[NameAddr[n]]
      exact == {i \in 2 .. Len(es) : es[i].nm = n}
  IN IF es = <<>>
       THEN [found |-> FALSE, coll |-> FALSE, ch |-> NoChapter, idx |-> 0]
     ELSE IF exact # {}
       THEN LET i == CHOOSE i \in exact : TRUE
            IN [found |-> TRUE, coll |-> TRUE, ch |-> es[i].ch, idx |-> i]
     ELSE [found |-> TRUE, coll |-> FALSE, ch |-> es[1].ch, idx |-> 1]

(* put_volume_index_record: a new first entry, or a collision entry with   *)
(* the full name when the address already has one.                        *)
PutEntry(v, n, rec, c) ==
  [v EXCEPT ![NameAddr[n]] =
     Append(@, [ch |-> c, nm |-> IF rec.found THEN n ELSE NoName])]

(* set_volume_index_record_chapter *)
SetEntryChapter(v, n, rec, c) == [v EXCEPT ![NameAddr[n]][rec.idx].ch = c]

(* The first entry of a list carries no name: removing or expiring it makes *)
(* the next collision entry the list's non-collision entry.                *)
AsList(es) == IF es = <<>> THEN es ELSE [es EXCEPT ![1].nm = NoName]

(* remove_volume_index_record *)
RemoveEntry(v, n, rec) ==
  [v EXCEPT ![NameAddr[n]] = AsList(RemoveAt(@, rec.idx))]

(* set_volume_index_open_chapter: entries of chapters before low vanish. *)
Purge(v, low) == [a \in Addrs |-> AsList(SelectSeq(v[a], LAMBDA e : e.ch >= low))]

EmptyIndex == [a \in Addrs |-> <<>>]

=============================================================================
