-------------------------- MODULE MCPositionExits --------------------------
(***************************************************************************)
(* Levels of an instance of PositionExits: -1 is both stops, 0 the average *)
(* price and what breakeven protects, 1 the first partial sale and the     *)
(* start of trailing, 2 the second partial sale.                           *)
(***************************************************************************)
EXTENDS PositionExits
MinusOne == -1
============================================================================
