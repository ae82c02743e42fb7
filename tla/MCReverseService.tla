-------------------------- MODULE MCReverseService --------------------------
(* A reverse and a reverse_many over the same sources.                     *)
EXTENDS ReverseService

CONSTANTS r1, e1

MCExtens == [r \in Requests |-> IF r = r1 THEN {e1} ELSE Items]
=============================================================================
