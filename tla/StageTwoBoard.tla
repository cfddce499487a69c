---------------------------- MODULE StageTwoBoard ----------------------------
(***************************************************************************)
(* What stage 2 on the router shows to the PC, and what a power cut would  *)
(* make of it: the state autoflash publishes, the numbered steps of its    *)
(* log, and whether the NAND holds a boot chain.  UbiInstaller implements  *)
(* this specification when autoflash is alone on the board.                *)
(***************************************************************************)
EXTENDS Naturals

VARIABLES
    mode,    \* what runs on the board
    state,   \* STATE published by autoflash
    logged,  \* last numbered step in the log of this boot: 0; 1 for 1 to 5;
             \*   6 for 6 and 7; 8 for 8 and what follows it
    marked,  \* /tmp/NOKIA_UBI_INSTALL_COMPLETE exists
    chain,   \* what BL2 starts: the "old" layout, "none", the "new" U-Boot
    fit      \* what the new U-Boot finds: "transition", "production" or "none"

boardvars == <<mode, state, logged, marked, chain, fit>>

Safe == {"BOOTING", "WAITING_FOR_SYSTEM", "CHECKING"}
States == Safe \cup {"FORMATTING_AND_FLASHING", "FULLFLASH_RETURNED_0", "FAILED"}

BoardTypeOK ==
    /\ mode \in {"transition", "upgrading", "production", "rescue", "off", "stuck"}
    /\ state \in States
    /\ logged \in {0, 1, 6, 8}
    /\ marked \in BOOLEAN
    /\ chain \in {"old", "none", "new"}
    /\ fit \in {"transition", "production", "none"}

BoardInit ==
    /\ mode = "transition" /\ state = "BOOTING"
    /\ logged = 0 /\ marked = FALSE
    /\ chain = "old" /\ fit = "none"

\* What the board would run after a power cut.
Survivor(c, f) ==
    IF c = "old" THEN "transition"
    ELSE IF c = "none" THEN "stuck"
    ELSE IF f = "none" THEN "rescue" ELSE f

BootAs(m) == mode' = m /\ state' = "BOOTING" /\ logged' = 0 /\ marked' = FALSE

Settle ==
    /\ mode = "transition" /\ state \in Safe
    /\ state' \in Safe \ {"BOOTING"}
    /\ UNCHANGED <<mode, logged, marked, chain, fit>>

\* The check finds the sysupgrade image behind the bundle in the stock layout only.
BeginFlash ==
    /\ mode = "transition" /\ state \in Safe
    /\ chain = "old"
    /\ state' = "FORMATTING_AND_FLASHING"
    /\ UNCHANGED <<mode, logged, marked, chain, fit>>

Flashing == mode = "transition" /\ state = "FORMATTING_AND_FLASHING"

Format ==
    /\ Flashing
    /\ \/ logged = 0 /\ logged' = 1 /\ UNCHANGED chain
       \/ logged = 1 /\ chain' = "none" /\ UNCHANGED logged
       \/ logged = 1 /\ chain = "none" /\ logged' = 6 /\ UNCHANGED chain
    /\ UNCHANGED <<mode, state, marked, fit>>

WriteBl2 ==
    /\ Flashing /\ logged = 6
    /\ chain' = "new" /\ fit' = "transition"
    /\ UNCHANGED <<mode, state, logged, marked>>

Complete ==
    /\ Flashing /\ chain = "new"
    /\ logged' = 8
    /\ marked' \in {marked, logged = 8}
    /\ UNCHANGED <<mode, state, chain, fit>>

\* procd takes over for sysupgrade, at once or after fullflash returned 0; or
\* never, and the transition stays up with that state.
Handover ==
    /\ mode = "transition" /\ marked
    /\ state \in {"FORMATTING_AND_FLASHING", "FULLFLASH_RETURNED_0"}
    /\ \/ mode' = "upgrading" /\ state' \in {state, "FULLFLASH_RETURNED_0"}
       \/ mode' = mode /\ state' = "FULLFLASH_RETURNED_0"
    /\ UNCHANGED <<logged, marked, chain, fit>>

\* A format or a BL2 write that stops halfway leaves nothing to boot.
Torn == IF Flashing /\ logged \in {1, 6} /\ chain # "new" THEN {chain, "none"} ELSE {chain}

\* Autoflash has ended once it published FAILED or the 0 of fullflash.
Fail ==
    /\ mode = "transition"
    /\ state \in Safe \cup {"FORMATTING_AND_FLASHING"}
    /\ state' = "FAILED"
    /\ chain' \in Torn
    /\ UNCHANGED <<mode, logged, marked, fit>>

\* sysupgrade removes the fit volume before it writes it, then reboots.
Upgrade ==
    /\ mode = "upgrading"
    /\ fit' \in {"production", "none"}
    /\ BootAs(Survivor(chain, fit'))
    /\ UNCHANGED chain

PowerCut ==
    /\ mode # "off"
    /\ mode' = "off" /\ logged' = 0 /\ marked' = FALSE
    /\ chain' \in Torn
    /\ fit' \in {fit} \cup (IF mode = "upgrading" THEN {"none"} ELSE {})
    /\ UNCHANGED state

PowerOn ==
    /\ mode = "off"
    /\ BootAs(Survivor(chain, fit))
    /\ UNCHANGED <<chain, fit>>

\* What is served to the rescue loop is the FIT alone, without the production
\* image behind it.
Rescue ==
    /\ mode = "rescue"
    /\ BootAs("transition")
    /\ UNCHANGED <<chain, fit>>

BoardAlone ==
    \/ Settle \/ BeginFlash \/ Format \/ WriteBl2 \/ Complete \/ Handover \/ Fail
    \/ Upgrade \/ PowerCut \/ PowerOn

BoardNext == BoardAlone \/ Rescue

BoardSpec == BoardInit /\ [][BoardNext]_boardvars
=============================================================================
