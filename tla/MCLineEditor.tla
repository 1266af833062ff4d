---------------------------- MODULE MCLineEditor -----------------------------
(***************************************************************************)
(* The texts commands print, for TLC: one that ends its line and one that  *)
(* does not, as clear and an empty text do.                                *)
(***************************************************************************)
EXTENDS LineEditor

CONSTANT a

MCOutputs == {<<a>>, <<a, a, NL>>}
=============================================================================
