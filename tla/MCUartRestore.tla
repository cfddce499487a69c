---------------------------- MODULE MCUartRestore ----------------------------
(* Seven stock blocks in chunks of three, three and one, one block behind   *)
(* them; the mutable area crosses the border of the first two chunks.  Two  *)
(* bad blocks can be neighbours, or lie on both sides of the border.        *)
EXTENDS UartRestore
MCMutable == 1..3
==============================================================================
