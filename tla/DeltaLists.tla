------------------------------ MODULE DeltaLists ------------------------------
(***************************************************************************)
(* What a mutable delta index promises the volume index, with the bit      *)
(* stream left out.  Each delta list is a sequence of entries sorted by    *)
(* key; an entry with the key of the entry before it is a collision entry  *)
(* and carries the full record name, any other entry carries no name.      *)
(* Every operation first searches a list for a key and a name: the search  *)
(* stops at the first entry at or after the key, or at the collision entry *)
(* of that key with the name.  A put then inserts a new entry there (a     *)
(* collision entry when an entry with the key exists), a remove deletes    *)
(* the entry found and a set changes its value.  A put may fail instead,   *)
(* for want of room or when the name is already there; a failed call      *)
(* changes no list.                                                        *)
(***************************************************************************)
EXTENDS Naturals, Sequences, SequencesExt

CONSTANTS
  Lists,    \* the delta list numbers
  Keys,     \* delta list keys (address bits below the list number)
  Values,   \* entry payloads
  Names,    \* full record names
  NoName    \* the name an entry that is not a collision carries

VARIABLES
  lists,    \* lists[l]: the entries of delta list l, in order
  last      \* the last call: its operation, its arguments and its outcome

vars == <<lists, last>>

Entry == [key : Keys, value : Values, name : Names \cup {NoName}]
Calls == [op : {"search", "put", "remove", "set", "reset"}, list : Lists \cup {0},
         key : Keys, value : Values, name : Names \cup {NoName}, ok : BOOLEAN]

IsCollision(s, i) == i > 1 /\ s[i].key = s[i - 1].key

(* Keys never decrease, and exactly the collision entries carry a name. *)
WellFormed(s) ==
  \A i \in 1 .. Len(s) :
    /\ i > 1 => s[i - 1].key <= s[i].key
    /\ IsCollision(s, i) <=> s[i].name # NoName

(* Where a search for key k and name nm stops: the first entry at or after *)
(* k, or the collision entry of k that carries nm.                         *)
FirstAtOrAfter(s, k) ==
  LET at == {i \in 1 .. Len(s) : s[i].key >= k}
  IN IF at = {} THEN Len(s) + 1 ELSE CHOOSE i \in at : \A j \in at : i <= j
Found(s, k, nm) ==
  LET i == FirstAtOrAfter(s, k)
      named == {j \in i + 1 .. Len(s) :
                  /\ \A t \in i + 1 .. j : IsCollision(s, t)
                  /\ s[j].name = nm}
  IN IF i <= Len(s) /\ s[i].key = k /\ named # {}
       THEN CHOOSE j \in named : \A t \in named : j <= t
       ELSE i
HasKey(s, i, k) == i <= Len(s) /\ s[i].key = k

(* A removed entry's successor with the same key stops being a collision *)
(* once it follows an entry of a smaller key, and loses its name.         *)
Promote(s, i) ==
  IF i <= Len(s) /\ ~IsCollision(s, i) THEN [s EXCEPT ![i].name = NoName]
                                       ELSE s

Init ==
  /\ lists = [l \in Lists |-> <<>>]
  /\ last = [op |-> "reset", list |-> 0, key |-> CHOOSE k \in Keys : TRUE,
             value |-> CHOOSE v \in Values : TRUE, name |-> NoName, ok |-> TRUE]

Called(op, l, k, v, nm, ok) ==
  last' = [op |-> op, list |-> l, key |-> k, value |-> v, name |-> nm, ok |-> ok]

Search(l, k, nm) ==
  /\ UNCHANGED lists
  /\ Called("search", l, k, CHOOSE v \in Values : TRUE, nm, TRUE)

(* The new entry goes where the search stopped, or, when the search found *)
(* an entry with the key, just after it as a collision entry.             *)
Put(l, k, v, nm) ==
  LET s == lists[l]
      i == Found(s, k, nm)
  IN \/ /\ ~(HasKey(s, i, k) /\ IsCollision(s, i))
        /\ lists' = [lists EXCEPT ![l] =
                       IF HasKey(s, i, k)
                         THEN InsertAt(s, i + 1, [key |-> k, value |-> v, name |-> nm])
                         ELSE InsertAt(s, i, [key |-> k, value |-> v, name |-> NoName])]
        /\ Called("put", l, k, v, nm, TRUE)
     \/ /\ UNCHANGED lists
        /\ Called("put", l, k, v, nm, FALSE)

RemoveRecord(l, k, nm) ==
  LET s == lists[l]
      i == Found(s, k, nm)
  IN /\ lists' = IF HasKey(s, i, k)
                   THEN [lists EXCEPT ![l] = Promote(RemoveAt(s, i), i)]
                   ELSE lists
     /\ Called("remove", l, k, CHOOSE v \in Values : TRUE, nm, TRUE)

SetRecord(l, k, nm, v) ==
  LET s == lists[l]
      i == Found(s, k, nm)
  IN /\ lists' = IF HasKey(s, i, k) THEN [lists EXCEPT ![l][i].value = v]
                                     ELSE lists
     /\ Called("set", l, k, v, nm, TRUE)

Reset ==
  /\ lists' = [l \in Lists |-> <<>>]
  /\ last' = [last EXCEPT !.op = "reset", !.ok = TRUE]

Next ==
  \/ Reset
  \/ \E l \in Lists, k \in Keys, nm \in Names :
       \/ Search(l, k, nm) \/ RemoveRecord(l, k, nm)
       \/ \E v \in Values : Put(l, k, v, nm) \/ SetRecord(l, k, nm, v)

Spec == Init /\ [][Next]_vars

TypeOK ==
  /\ lists \in [Lists -> Seq(Entry)]
  /\ last \in Calls

(* Every list stays sorted, with names on exactly its collision entries. *)
ListsWellFormed == \A l \in Lists : WellFormed(lists[l])

=============================================================================
