---------------------------- MODULE UbiInstaller ----------------------------
(***************************************************************************)
(* Stage 2 on the router: the transition system booted in RAM by stage 1   *)
(* formats the NAND from 0x20000 on as UBI, fills six volumes, writes BL2  *)
(* last and hands over to sysupgrade.  Modelled from the scripts the       *)
(* transition images ship: nokia-ubi-autoflash (started at boot),          *)
(* nokia-ubi-installer (check, install, fullflash, attach, status) and     *)
(* nokia-ubi-finish.  An operator, or the PC wizard over SSH, may run the  *)
(* same commands by hand.                                                  *)
(*                                                                         *)
(* /tmp is lost at every boot; the NAND keeps whatever was half done.      *)
(***************************************************************************)
EXTENDS Naturals

CONSTANTS
    Operators,   \* shells in which the installer commands may be run by hand
    Automatic,   \* TRUE: the image starts autoflash (the manual images do not)
    Overlap,     \* TRUE: they may run while another command is not over
    Bl2Gate,     \* TRUE in the MF installer: check_transition_bl2_write_gate
    IOFaults,    \* TRUE: a NAND or UBI operation may fail or be misreported
    PowerCuts    \* TRUE: the board may lose power

ASSUME ConstantsAssumption ==
    /\ "auto" \notin Operators
    /\ Automatic \in BOOLEAN
    /\ Overlap \in BOOLEAN
    /\ Bl2Gate \in BOOLEAN
    /\ IOFaults \in BOOLEAN
    /\ PowerCuts \in BOOLEAN

VARIABLES
    raw,         \* stock contents from 0x20000: "intact", "damaged" (first
                 \*   blocks erased, images further on readable) or "gone"
    header,      \* a UBI EC header is found in the first 64 eraseblocks
    named,       \* the volumes 0..5 exist under their canonical names
    content,     \* what each data volume holds
    bl2,         \* the BL2 partition: "old", "torn" or "new"
    bl2Writable, \* the transition device tree leaves BL2 writable
    mode,        \* what runs on the board
    state,       \* STATE published by autoflash
    logged,      \* last numbered step in the log of autoflash: 0, 1 for 1 to 5,
                 \*   6 for 6 and 7, 8 for 8 and what follows it
    image,       \* the embedded sysupgrade image has been copied to /tmp
    complete,    \* /tmp/NOKIA_UBI_INSTALL_COMPLETE exists
    cmd,         \* per process: the command it runs
    pc           \* per process: the step it is at

nand == <<raw, header, named, content, bl2>>
vars == <<raw, header, named, content, bl2, bl2Writable, mode, state, logged, image, complete,
          cmd, pc>>

Procs == Operators \cup {"auto"}
Volumes == {"bosa", "ri", "fip", "fit"}
Commands == {"install", "fullflash", "attach", "finish"}
Steps == {"idle", "system", "check", "base", "capture", "format", "mkvol",
          "bosa", "ri", "fip", "fit", "verify", "bl2", "bl2read", "mark",
          "attach", "finish", "status", "exec"}
States == {"BOOTING", "WAITING_FOR_SYSTEM", "CHECKING", "FORMATTING_AND_FLASHING",
           "FULLFLASH_RETURNED_0", "FAILED"}

TypeOK ==
    /\ raw \in {"intact", "damaged", "gone"}
    /\ header \in BOOLEAN
    /\ named \in BOOLEAN
    /\ content \in [Volumes -> {"none", "torn", "good", "production"}]
    /\ bl2 \in {"old", "torn", "new"}
    /\ bl2Writable \in BOOLEAN
    /\ mode \in {"transition", "upgrading", "production", "rescue", "off", "stuck"}
    /\ state \in States
    /\ logged \in {0, 1, 6, 8}
    /\ image \in BOOLEAN
    /\ complete \in BOOLEAN
    /\ cmd \in [Procs -> Commands]
    /\ pc \in [Procs -> Steps]

Empty == [v \in Volumes |-> "none"]

\* The processes of a freshly booted system.
Started(m) == [p \in Procs |->
    IF p = "auto" /\ Automatic /\ m = "transition" THEN "system" ELSE "idle"]

\* Stage 1 has just rebooted into the transition system over the stock layout.
Init ==
    /\ raw = "intact" /\ header = FALSE /\ named = FALSE /\ content = Empty
    /\ bl2 = "old"
    /\ bl2Writable \in BOOLEAN
    /\ mode = "transition"
    /\ state = "BOOTING" /\ logged = 0 /\ image = FALSE /\ complete = FALSE
    /\ cmd = [p \in Procs |-> "fullflash"]
    /\ pc = Started("transition")

Busy(p) == pc[p] # "idle"

\* The "[n/8]" a step writes to the log of its process when it is begun.
Number(at) ==
    IF at \in {"format", "mkvol"} \cup Volumes THEN 1
    ELSE IF at \in {"verify", "bl2", "bl2read"} THEN 6
    ELSE IF at \in {"mark", "finish", "status", "exec"} THEN 8 ELSE 0

Goes(p, from, to) ==
    /\ mode = "transition"
    /\ pc[p] = from
    /\ pc' = [pc EXCEPT ![p] = to]
    /\ logged' = IF p = "auto" /\ Number(to) # 0 THEN Number(to) ELSE logged
    /\ UNCHANGED <<bl2Writable, mode, cmd>>

\* layout_complete compares the six names and nothing else.
LayoutComplete == named

(***************************************************************************)
(* nokia-ubi-autoflash: once per boot, wait for the system, check, flash.  *)
(***************************************************************************)
AutoWait ==
    /\ Goes("auto", "system", "check")
    /\ state' = "CHECKING"
    /\ UNCHANGED <<nand, image, complete>>

\* (Mutant: the state is published after the flash instead of before.)
AutoCheckLateState ==
    /\ Bl2Gate => bl2Writable
    /\ image \/ raw # "gone"
    /\ Goes("auto", "check", "base")
    /\ image' = TRUE
    /\ UNCHANGED <<nand, state, complete>>

\* nokia-ubi-installer check embedded-openwrt-sysupgrade, read-only: the image
\* is copied to /tmp from behind the bundle, or found there.
AutoCheck ==
    /\ Bl2Gate => bl2Writable
    /\ image \/ raw # "gone"
    /\ Goes("auto", "check", "base")
    /\ image' = TRUE
    /\ state' = "FORMATTING_AND_FLASHING"
    /\ UNCHANGED <<nand, complete>>

(***************************************************************************)
(* nokia-ubi-installer.                                                    *)
(***************************************************************************)
\* A command typed by hand.  Without Overlap the operator waits for the end of
\* every other command; the installer itself takes no lock.
Run(p, c) ==
    /\ mode = "transition"
    /\ p \in Operators
    /\ ~Busy(p)
    /\ Overlap \/ \A q \in Procs : ~Busy(q)
    /\ cmd' = [cmd EXCEPT ![p] = c]
    /\ pc' = [pc EXCEPT ![p] = IF c = "finish" THEN "finish" ELSE "base"]
    /\ UNCHANGED <<nand, bl2Writable, mode, state, logged, image, complete>>

\* (Mutant: the MF gate is missing from base_check.)
BaseCheckUngated(p) ==
    /\ Goes(p, "base", IF cmd[p] \in {"attach", "finish"} \/ header THEN "attach" ELSE "capture")
    /\ UNCHANGED <<nand, state, image, complete>>

\* base_check (and check_transition_bl2_write_gate on MF), then the choice:
\* UBI headers are never formatted again, the attach path is taken instead.
BaseCheck(p) ==
    /\ Bl2Gate => bl2Writable
    /\ Goes(p, "base", IF cmd[p] \in {"attach", "finish"} \/ header THEN "attach" ELSE "capture")
    /\ UNCHANGED <<nand, state, image, complete>>

\* read_board_data and capture_current_fit: what the volumes will be filled with.
Capture(p) ==
    /\ raw # "gone"
    /\ Goes(p, "capture", "format")
    /\ UNCHANGED <<nand, state, image, complete>>

\* ubidetach, ubiformat -y, ubiattach: nothing of the stock layout is left.
Format(p) ==
    /\ Goes(p, "format", "mkvol")
    /\ raw' = "gone" /\ header' = TRUE /\ named' = FALSE /\ content' = Empty
    /\ UNCHANGED <<bl2, state, image, complete>>

\* ubimkvol for the ids 0..5; an id that exists is an error.
MakeVolumes(p) ==
    /\ ~named
    /\ Goes(p, "mkvol", "bosa")
    /\ named' = TRUE
    /\ UNCHANGED <<raw, header, content, bl2, state, image, complete>>

NextVolume(v) == IF v = "bosa" THEN "ri" ELSE IF v = "ri" THEN "fip"
                 ELSE IF v = "fip" THEN "fit" ELSE "verify"

\* ubiupdatevol; its exit status is not evidence of what was written.
WriteVolume(p) ==
    /\ named
    /\ pc[p] \in Volumes
    /\ Goes(p, pc[p], NextVolume(pc[p]))
    /\ content' \in {[content EXCEPT ![pc[p]] = c] :
                        c \in {"good"} \cup (IF IOFaults THEN {"torn"} ELSE {})}
    /\ UNCHANGED <<raw, header, named, bl2, state, image, complete>>

\* (Mutant: the readback compares three volumes of four.)
VerifyForgetsFip(p) ==
    /\ \A v \in Volumes \ {"fip"} : content[v] = "good"
    /\ Goes(p, "verify", "bl2")
    /\ UNCHANGED <<nand, state, image, complete>>

\* (Mutant: a readback that differs rewrites the volumes.)
VerifyRewrites(p) ==
    /\ Goes(p, "verify", IF \A v \in Volumes : content[v] = "good" THEN "bl2" ELSE "bosa")
    /\ UNCHANGED <<nand, state, image, complete>>

\* The four data volumes read back with the SHA256 of their sources (on MF the
\* prepared BL2 image is hashed once more as well).
Verify(p) ==
    /\ \A v \in Volumes : content[v] = "good"
    /\ Goes(p, "verify", "bl2")
    /\ UNCHANGED <<nand, state, image, complete>>

WriteBl2(p) ==
    /\ bl2Writable
    /\ Goes(p, "bl2", "bl2read")
    /\ bl2' \in {"new"} \cup (IF IOFaults THEN {"torn"} ELSE {})
    /\ UNCHANGED <<raw, header, named, content, state, image, complete>>

\* (Mutant: the BL2 readback is skipped.)
ReadBackBl2Skipped(p) ==
    /\ Goes(p, "bl2read", "mark")
    /\ UNCHANGED <<nand, state, image, complete>>

\* The partition, its FF prefix and the preloader in it read back.
ReadBackBl2(p) ==
    /\ bl2 = "new"
    /\ Goes(p, "bl2read", "mark")
    /\ UNCHANGED <<nand, state, image, complete>>

\* run_fullflash goes on to nokia-ubi-finish, nokia-ubi-finish to its checks.
AfterInstall(p) == IF cmd[p] = "fullflash" THEN "finish"
                   ELSE IF cmd[p] = "finish" THEN "status" ELSE "idle"

MarkComplete(p) ==
    /\ Goes(p, "mark", AfterInstall(p))
    /\ complete' = TRUE
    /\ UNCHANGED <<nand, state, image>>

\* attach_existing: a region with UBI headers and the six names is declared
\* complete; neither the contents nor BL2 are looked at.
AttachExisting(p) ==
    /\ header /\ LayoutComplete
    /\ Goes(p, "attach", AfterInstall(p))
    /\ complete' = TRUE
    /\ UNCHANGED <<nand, state, image>>

(***************************************************************************)
(* nokia-ubi-finish and sysupgrade.                                        *)
(***************************************************************************)
Finish(p) ==
    /\ Goes(p, "finish", IF complete THEN "status" ELSE "base")
    /\ complete \/ cmd[p] = "finish"
    /\ UNCHANGED <<nand, state, image, complete>>

\* nokia-ubi-installer status, sysupgrade -T, the confirmation.
Status(p) ==
    /\ LayoutComplete
    /\ Goes(p, "status", "exec")
    /\ UNCHANGED <<nand, state, image, complete>>

\* exec sysupgrade -v -n asks procd to take the system over and every process of
\* it ends; or sysupgrade returns 0 and the transition stays up.  Autoflash, where
\* it still runs, publishes the 0.
ExecSysupgrade(p) ==
    /\ mode = "transition"
    /\ pc[p] = "exec"
    /\ LET returned == IF p = "auto" THEN "FULLFLASH_RETURNED_0" ELSE state IN
           \/ /\ mode' = "upgrading"
              /\ pc' = [q \in Procs |-> "idle"]
              /\ state' \in {state, returned}
           \/ /\ UNCHANGED mode
              /\ pc' = [pc EXCEPT ![p] = "idle"]
              /\ state' = returned
    /\ UNCHANGED <<nand, bl2Writable, logged, image, complete, cmd>>

\* procd may also take over after the 0 was published, or never.
TakeOver ==
    /\ mode = "transition" /\ state = "FULLFLASH_RETURNED_0"
    /\ mode' = "upgrading"
    /\ pc' = [q \in Procs |-> "idle"]
    /\ UNCHANGED <<nand, bl2Writable, state, logged, image, complete, cmd>>

(***************************************************************************)
(* Failures.                                                               *)
(***************************************************************************)
\* What the NAND may hold when the operation of p stops halfway.
HalfDone(p) ==
    \/ UNCHANGED nand
    \/ /\ pc[p] = "format"
       /\ raw' \in IF raw = "gone" THEN {"gone"} ELSE {"damaged", "gone"}
       /\ header' \in BOOLEAN
       /\ named' = FALSE /\ content' = Empty
       /\ UNCHANGED bl2
    \/ /\ pc[p] \in Volumes
       /\ content' = [content EXCEPT ![pc[p]] = "torn"]
       /\ UNCHANGED <<raw, header, named, bl2>>
    \/ /\ pc[p] = "bl2" /\ bl2Writable
       /\ bl2' = "torn"
       /\ UNCHANGED <<raw, header, named, content>>

\* The checks that look at state this module keeps.
Refused(p) ==
    \/ pc[p] = "check" /\ ~image /\ raw = "gone"
    \/ pc[p] \in {"check", "base"} /\ Bl2Gate /\ ~bl2Writable
    \/ pc[p] = "capture" /\ raw = "gone"
    \/ pc[p] = "mkvol" /\ named
    \/ pc[p] \in Volumes /\ ~named
    \/ pc[p] = "attach" /\ ~(header /\ LayoutComplete)
    \/ pc[p] = "verify" /\ \E v \in Volumes : content[v] # "good"
    \/ pc[p] = "bl2" /\ ~bl2Writable
    \/ pc[p] = "bl2read" /\ bl2 # "new"
    \/ pc[p] = "status" /\ ~LayoutComplete

\* (Mutant: autoflash ends without publishing FAILED.)
FailUnreported(p) ==
    /\ mode = "transition"
    /\ Busy(p)
    /\ IOFaults \/ Refused(p)
    /\ HalfDone(p)
    /\ pc' = [pc EXCEPT ![p] = "idle"]
    /\ UNCHANGED <<bl2Writable, mode, state, logged, image, complete, cmd>>

\* die and critical end the command; the transition system stays up.
Fail(p) ==
    /\ mode = "transition"
    /\ Busy(p)
    /\ IOFaults \/ Refused(p)
    /\ HalfDone(p)
    /\ pc' = [pc EXCEPT ![p] = "idle"]
    /\ state' = IF p = "auto" THEN "FAILED" ELSE state
    /\ UNCHANGED <<bl2Writable, mode, logged, image, complete, cmd>>

(***************************************************************************)
(* The board: BL2 and U-Boot, sysupgrade and power.                        *)
(***************************************************************************)
\* The old BL2 needs the stock U-Boot and the environment of stage 1, the new
\* one the FIP volume; the new U-Boot boots fit or asks for a rescue image.
BootTarget(r, c, b) ==
    IF b = "new" /\ c["fip"] = "good"
    THEN IF c["fit"] = "good" THEN "transition"
         ELSE IF c["fit"] = "production" THEN "production" ELSE "rescue"
    ELSE IF b = "old" /\ r = "intact" THEN "transition" ELSE "stuck"

BootInto(m) ==
    /\ mode' = m
    /\ state' = "BOOTING" /\ logged' = 0 /\ image' = FALSE /\ complete' = FALSE
    /\ cmd' = [p \in Procs |-> "fullflash"]
    /\ pc' = Started(m)
    /\ UNCHANGED bl2Writable

\* sysupgrade removes and rewrites the fit volume, then reboots.
Upgrade ==
    /\ mode = "upgrading"
    /\ content' \in {[content EXCEPT !["fit"] = c] :
                        c \in {"production"} \cup (IF IOFaults THEN {"torn"} ELSE {})}
    /\ BootInto(BootTarget(raw, content', bl2))
    /\ UNCHANGED <<raw, header, named, bl2>>

PowerCut ==
    /\ PowerCuts
    /\ mode # "off"
    /\ mode' = "off"
    /\ \/ \E p \in Procs : HalfDone(p)
       \/ /\ mode = "upgrading"
          /\ content' = [content EXCEPT !["fit"] = "torn"]
          /\ UNCHANGED <<raw, header, named, bl2>>
    /\ pc' = [p \in Procs |-> "idle"]
    /\ logged' = 0 /\ complete' = FALSE
    /\ UNCHANGED <<bl2Writable, state, image, cmd>>

PowerOn ==
    /\ mode = "off"
    /\ BootInto(BootTarget(raw, content, bl2))
    /\ UNCHANGED nand

\* The PC serves the FIT the new U-Boot asks for over TFTP.  The transition runs
\* again, from RAM, over UBI and without the sysupgrade image that followed the
\* bundle in the stock layout.
Rescue ==
    /\ mode = "rescue"
    /\ BootInto("transition")
    /\ UNCHANGED nand

Installer(p) ==
    \/ BaseCheck(p) \/ Capture(p) \/ Format(p) \/ MakeVolumes(p) \/ WriteVolume(p)
    \/ Verify(p) \/ WriteBl2(p) \/ ReadBackBl2(p) \/ MarkComplete(p)
    \/ AttachExisting(p) \/ Finish(p) \/ Status(p) \/ ExecSysupgrade(p) \/ Fail(p)

Next ==
    \/ AutoWait \/ AutoCheck
    \/ \E p \in Operators, c \in Commands : Run(p, c)
    \/ \E p \in Procs : Installer(p)
    \/ TakeOver \/ Upgrade \/ PowerCut \/ PowerOn \/ Rescue

\* Processes of a running kernel are scheduled and their tools return; procd
\* finishes an upgrade it began.  Nothing obliges procd to begin one, operators to
\* act, a PC to serve the rescue loop, or the power to stay.
Fairness == /\ WF_vars(AutoWait \/ AutoCheck)
            /\ \A p \in Procs : WF_vars(Installer(p))
            /\ WF_vars(Upgrade)

Spec == Init /\ [][Next]_vars
FairSpec == Spec /\ Fairness

(***************************************************************************)
(* Properties.                                                             *)
(***************************************************************************)
\* The boot chain of the new BL2: sysupgrade may rewrite fit, nothing else.
ChainGood == \A v \in Volumes \ {"fit"} : content[v] = "good"

Switch == INSTANCE StagedSwitch WITH
    payload <- IF raw = "intact" THEN "old" ELSE IF ChainGood THEN "new" ELSE "mixed",
    selector <- bl2

\* Every step of stage 2, retries, power cuts (inside sysupgrade too) and rescued
\* boots included, is a step of the staged switch: BL2 moves once, forward, over
\* volumes that stay verified, and a board whose fit was lost is never formatted.
ImplementsSwitch == Switch!Spec

BootChain == IF bl2 = "new" /\ content["fip"] = "good" THEN "new"
             ELSE IF bl2 = "old" /\ raw = "intact" THEN "old" ELSE "none"

Shown == INSTANCE StageTwoBoard WITH
    marked <- complete,
    chain <- BootChain,
    fit <- IF BootChain # "new" THEN "none"
           ELSE IF content["fit"] = "good" THEN "transition"
           ELSE IF content["fit"] = "production" THEN "production" ELSE "none"

\* Every step of autoflash, sysupgrade, failures and power cuts is one the PC's
\* watch is prepared for: the published state, the log and the NAND go together
\* as StageTwoBoard says.
ImplementsBoard == Shown!BoardSpec

\* "BL2 is written last on purpose": a BL2 that is no longer the stock one
\* stands over bosa, ri and fip volumes that read back.
Bl2Last == bl2 # "old" => ChainGood

\* SAFE_TO_POWER_CYCLE=1 (BOOTING, WAITING_FOR_SYSTEM, CHECKING) is published
\* only while a power cut would bring the board up again.
SafeToPowerCycleIsTrue ==
    Automatic /\ mode = "transition"
      /\ state \in {"BOOTING", "WAITING_FOR_SYSTEM", "CHECKING"}
        => BootTarget(raw, content, bl2) # "stuck"

\* MF: "transition DT leaves BL2 read-only; refusing to format UBI".
FormatOnlyIfBl2Writable == ~bl2Writable => raw = "intact"

\* "Migration completed and verified": the marker that lets the board go on to
\* sysupgrade stands for volumes that were verified and a BL2 that was written.
\* (Holds of autoflash alone; an operator who retries breaks it: README, Known
\* disagreements.)
CompleteMeansVerified == complete => bl2 = "new" /\ ChainGood

\* The steps of a command have no way round in them: whatever its tools return,
\* as long as each of them returns, it fails, ends, hands over or loses power.
CommandsEnd == \A p \in Procs : Busy(p) ~> ~Busy(p)

\* Whatever it meets, the automatic image comes to an end the PC can tell apart:
\* production OpenWrt, FAILED or FULLFLASH_RETURNED_0 with the transition still
\* online, the rescue loop of the new U-Boot, or a loss of power.
AutoflashConcludes ==
    mode = "transition" /\ state = "BOOTING"
        ~> \/ mode \in {"production", "rescue", "off"}
           \/ mode = "transition" /\ state \in {"FAILED", "FULLFLASH_RETURNED_0"}
=============================================================================
