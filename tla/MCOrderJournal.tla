--------------------------- MODULE MCOrderJournal ---------------------------
(* Small instances of OrderJournal: one or two orders of one market, all with *)
(* the same volume.                                                           *)
EXTENDS OrderJournal

CONSTANTS o1, o2, m1

OneMarket == [o \in Order |-> m1]

=============================================================================
