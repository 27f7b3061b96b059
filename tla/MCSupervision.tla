--------------------------- MODULE MCSupervision ---------------------------
EXTENDS Settings
\* whoever launches finds a number
NumbersSuffice == Fresh # {}
\* the page changes the slots for swing only
MCChoices == [k \in Slots |-> IF k = "swing" THEN {0, 1} ELSE {1}]
=============================================================================
