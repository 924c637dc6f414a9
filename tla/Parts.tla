-------------------------------- MODULE Parts --------------------------------
(***************************************************************************)
(* An instance for TLC that holds several components which share no state  *)
(* is checked as a sum: "about" says which of them moves in a behaviour,   *)
(* the others rest in an initial state of theirs.                          *)
(***************************************************************************)
VARIABLE about

=============================================================================
