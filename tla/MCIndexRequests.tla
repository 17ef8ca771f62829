-------------------------- MODULE MCIndexRequests --------------------------
(* Small instances of IndexRequests for TLC. *)
EXTENDS IndexRequests, TLC

CONSTANTS n1, n2, n3, s1, s2

\* Three names: two of them can fill chapters while the record of the
\* third stays behind in an older chapter, whose page must then be read.
MCNames == {n1, n2, n3}

\* Each name in its own delta list (named after it): every entry is exact.
MCDistinctAddr == [n \in MCNames |-> n]

\* Two buffers: one request can overtake another parked on a page read.
MCSlots == {s1, s2}

\* One buffer, for liveness, where symmetry cannot be used.
MCOneSlot == {s1}

\* Two records per chapter: a chapter closes after two puts.
MCCapacity == 2

\* Three chapters on disk: chapters 0 and 1 stay on disk while chapter 2 is
\* open, so parked reads happen; chapter 0 expires when chapter 3 opens.
MCChaptersPerVolume == 3

\* Clients stop once chapter 3 is open, which expired chapter 0.
MCMaxChapter == 3

\* Clients submit every request type.
MCAllTypes == Types

\* Names with their own delta lists, and buffers, are interchangeable.
MCSymmetry == Permutations(MCNames) \cup Permutations(MCSlots)

=============================================================================
