------------------------- MODULE MCResponseGateway -------------------------
(* Instances of ResponseGateway for model checking.                        *)
EXTENDS ResponseGateway, TLC

ToolSymmetry == Permutations(Tools)
=============================================================================
