----------------------------- MODULE FillLedger -----------------------------
(***************************************************************************)
(* What order reconciliation promises: whatever an exchange executes is    *)
(* booked downstream later, no lot twice and no lot that was not executed. *)
(***************************************************************************)
EXTENDS Naturals

CONSTANTS Order, Lots

VARIABLES executed, booked

Init == /\ executed = [o \in Order |-> 0]
        /\ booked = [o \in Order |-> 0]

Execute(o) == /\ executed[o] < Lots
              /\ executed' = [executed EXCEPT ![o] = @ + 1]
              /\ UNCHANGED booked

\* One booking may cover several executions.
Book(o) == /\ booked[o] < executed[o]
           /\ \E n \in (booked[o] + 1)..executed[o] : booked' = [booked EXCEPT ![o] = n]
           /\ UNCHANGED executed

Next == \E o \in Order : Execute(o) \/ Book(o)

Spec == Init /\ [][Next]_<<executed, booked>>

=============================================================================
