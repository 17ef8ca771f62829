-------------------------- MODULE MCIndexRebuild ---------------------------
(* Small instances of IndexRebuild for TLC. *)
EXTENDS IndexRebuild, TLC

CONSTANTS n1, n2, n3

MCNames == {n1, n2, n3}

\* n1 and n2 share a delta list: the replay meets hints made for the other
\* name, in the same chapter and in older ones.
MCSharedAddr == [n \in MCNames |-> IF n = n3 THEN 2 ELSE 1]

\* Three slots: chapters 0..2 fill the volume and chapter 3 overwrites the
\* slot of chapter 0, so the shadowed chapter and expiry both happen.
MCChaptersPerVolume == 3

\* Clients stop at chapter 4.
MCMaxChapter == 4

\* Two restarts: a crash, and a crash or reopen after the first recovery.
MCMaxRestarts == 2

=============================================================================
