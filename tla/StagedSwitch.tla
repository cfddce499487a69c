---------------------------- MODULE StagedSwitch ----------------------------
(***************************************************************************)
(* What every NAND migration of the kit promises: a large payload is       *)
(* staged beside a small selector that decides what the device boots, and  *)
(* the selector is touched only after the payload has been read back.      *)
(*                                                                         *)
(*   stage 1        payload = transition bundle in mtd14                   *)
(*                  selector = U-Boot environment block of mtd0            *)
(*   stage 2        payload = the six UBI volumes, selector = BL2          *)
(*                                                                         *)
(* The module says nothing about workers, retries, I/O errors or power:    *)
(* those are the business of the modules that implement it.                *)
(***************************************************************************)
VARIABLES
    payload,    \* "old", "mixed" (erased or half written) or "new"
    selector    \* "old", "torn" (erased or half written) or "new"

vars == <<payload, selector>>

TypeOK == /\ payload \in {"old", "mixed", "new"}
          /\ selector \in {"old", "torn", "new"}

Init == /\ payload \in {"old", "mixed", "new"}
        /\ selector = "old"

\* The payload may be rewritten, successfully or not, while nothing points at it.
Stage == /\ selector = "old"
         /\ payload' \in {"mixed", "new"}
         /\ UNCHANGED selector

\* The selector moves forward only, over a complete payload that stays put.
Switch == /\ payload = "new"
          /\ \/ selector = "old" /\ selector' \in {"torn", "new"}
             \/ selector = "torn" /\ selector' = "new"
          /\ UNCHANGED payload

Next == Stage \/ Switch

Spec == Init /\ [][Next]_vars

\* A selector that left its old value stands over a complete payload.
SwitchedOverComplete == selector # "old" => payload = "new"
=============================================================================
