--------------------------- MODULE MCEntryGuards ----------------------------
(* A small instance of EntryGuards: the equities and results it may read. *)
EXTENDS EntryGuards

OpenResults == {-1, 0}

=============================================================================
