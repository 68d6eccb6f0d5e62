--------------------------- MODULE MCDurableOutbox --------------------------
(***************************************************************************)
(* TLC instances of DurableOutbox in which every row targets the same      *)
(* round, so that one start kills all of them.                             *)
(***************************************************************************)
EXTENDS DurableOutbox

CONSTANT g1

OneTarget == [r \in Rows |-> g1]
=============================================================================
