--------------------------- MODULE RestoreOverSsh ---------------------------
(***************************************************************************)
(* The way back to the stock firmware without a UART: menu entry 3 of the  *)
(* PC wizard, the board it writes to over SSH, and the latch that decides  *)
(* what the menus still allow after a write whose end nobody saw.          *)
(*                                                                         *)
(* The wizard boots a recovery system into the RAM of an installed OpenWrt *)
(* (one U-Boot command that puts the normal bootcmd back first), pipes a   *)
(* payload into mtd for the area `ibu', reads it back, does the same for   *)
(* `bl2', reads the whole flash and reboots.  Each pipeline is one remote  *)
(* command: it runs on the board whatever becomes of the SSH channel, and  *)
(* the PC may lose the channel at any moment.  _restore_probe_ssh runs a   *)
(* command in one authentication mode and, on any error, in the other.     *)
(***************************************************************************)
EXTENDS Naturals

CONSTANTS
    Attempts,   \* tries to boot the recovery system (3)
    Runs,       \* bound: menu entries and starts of the program
    Cuts        \* bound: losses of power on the board

ASSUME ConstantsAssumption ==
    Attempts \in Nat \ {0} /\ Runs \in Nat /\ Cuts \in Nat

VARIABLES
    latch,      \* _INTERACTIVE_DESTRUCTIVE_LATCH["blocked"]
    pc,         \* where the wizard is
    attempt,    \* the attempt to boot recovery
    from,       \* the transport the preflight chose
    cand,       \* the transport being tried
    target,     \* the area being restored
    try,        \* the authentication mode the pipeline runs in: 1, then 2
    unproven,   \* history: areas this process wrote and has not read back
    job,        \* the pipelines of this payload on the board, one per try
    stray,      \* areas an abandoned pipeline is still writing
    nand,       \* what the two areas hold
    system,     \* what the board runs; in U-Boot, "network" is the part of the
                \*   one-boot command after its saveenv
    bootcmd,    \* U-Boot's saved bootcmd
    spent,      \* history: "network" was entered since bootcmd was armed, and no
                \*   saveenv failed
    runs, cuts

wizard == <<attempt, from, cand, target, try>>
env == <<bootcmd, spent>>
board == <<stray, nand, system, env>>
bounds == <<runs, cuts>>
vars == <<latch, pc, wizard, unproven, job, board, bounds>>

Targets == {"ibu", "bl2"}
Scp == 3
Transports == 1..Scp        \* nokia-tftp, TCP/nc, SCP: the order of fallback
Tries == 1..2
NoJob == [k \in Tries |-> "none"]

TypeOK ==
    /\ latch \in BOOLEAN
    /\ pc \in {"menu", "detect", "ready", "reboot", "serve", "preflight", "confirm",
               "transfer", "ssh", "wait", "verify", "allflash", "bye"}
    /\ attempt \in 1..Attempts
    /\ from \in Transports /\ cand \in Transports
    /\ target \in Targets
    /\ try \in Tries
    /\ unproven \subseteq Targets
    /\ job \in [Tries -> {"none", "running", "ok", "failed", "starved"}]
    /\ stray \subseteq Targets
    /\ nand \in [Targets -> {"openwrt", "partial", "stock"}]
    /\ system \in {"uboot", "network", "production", "recovery", "stock", "down"}
    /\ bootcmd \in {"normal", "armed"} /\ spent \in BOOLEAN
    /\ runs \in 0..Runs /\ cuts \in 0..Cuts

Init ==
    /\ latch = FALSE /\ pc = "menu"
    /\ attempt = 1 /\ from = 1 /\ cand = 1 /\ target = "ibu" /\ try = 1
    /\ unproven = {} /\ job = NoJob /\ stray = {}
    /\ nand = [t \in Targets |-> "openwrt"]
    /\ system \in {"production", "recovery"} /\ bootcmd = "normal" /\ spent = FALSE
    /\ runs = 0 /\ cuts = 0

(***************************************************************************)
(* The board.                                                              *)
(***************************************************************************)
\* What the flash can boot.  A half-written ibu may still hold what OpenWrt's
\* bootloader needs.
Boots ==
    CASE nand["bl2"] = "stock" /\ nand["ibu"] = "stock" -> {"stock"}
      [] nand["bl2"] = "openwrt" /\ nand["ibu"] # "stock" ->
             {"uboot"} \cup (IF nand["ibu"] = "partial" THEN {"down"} ELSE {})
      [] OTHER -> {"down"}

\* A reset ends what was running.
Reboots ==
    /\ system' \in Boots
    /\ stray' = {} /\ UNCHANGED <<nand, env>>

\* run boot_ubi.
BootUbi == system' \in {"production"} \cup (IF nand["ibu"] = "partial" THEN {"down"} ELSE {})

NormalBoot ==
    /\ system = "uboot" /\ bootcmd = "normal"
    /\ BootUbi
    /\ UNCHANGED <<latch, pc, wizard, unproven, job, stray, nand, env, bounds>>

\* (Mutant: the one-boot command tries the network before it saves.)
NetworkBeforeSave ==
    /\ system = "uboot" /\ bootcmd = "armed"
    /\ system' = "network"
    /\ spent' = TRUE
    /\ UNCHANGED <<latch, pc, wizard, unproven, job, stray, nand, bootcmd, bounds>>

\* setenv bootcmd; saveenv; -- the command goes on, also when saveenv failed.
SaveNormalBootcmd ==
    /\ system = "uboot" /\ bootcmd = "armed"
    /\ system' = "network"
    /\ \/ bootcmd' = "normal" /\ spent' = TRUE
       \/ UNCHANGED env
    /\ UNCHANGED <<latch, pc, wizard, unproven, job, stray, nand, bounds>>

\* tftpboot && bootm, twenty times; run boot_ubi.
NetworkBoot ==
    /\ system = "network"
    /\ system' = "recovery" \/ BootUbi
    /\ UNCHANGED <<latch, pc, wizard, unproven, job, stray, nand, env, bounds>>

\* The job of a try, once the board no longer runs it.
Killed == [k \in Tries |-> IF job[k] = "running" THEN "failed" ELSE job[k]]

\* Somebody pulls the plug.
PowerCut ==
    /\ cuts < Cuts /\ cuts' = cuts + 1
    /\ Reboots /\ job' = Killed
    /\ UNCHANGED <<latch, pc, wizard, unproven, runs>>

\* Another pipeline still writes the area.
Shared(t, k) == \/ t \in stray
                \/ \E o \in Tries \ {k} : job[o] = "running"

\* gzip | mtd write comes to its end.  Exit status 0 is no proof of content.
JobEnds ==
    \E k \in Tries, end \in {"ok", "failed"} :
        /\ job[k] = "running"
        /\ job' = [job EXCEPT ![k] = end]
        /\ nand' \in {nand} \cup IF end = "ok" /\ ~Shared(target, k)
                                 THEN {[nand EXCEPT ![target] = "stock"]} ELSE {}
    /\ UNCHANGED <<latch, pc, wizard, unproven, stray, system, env, bounds>>

\* So does a pipeline the wizard has left behind.
StrayEnds ==
    \E t \in stray :
        /\ stray' = stray \ {t}
        /\ nand' \in {nand} \cup IF t = target /\ \E k \in Tries : job[k] = "running"
                                 THEN {} ELSE {[nand EXCEPT ![t] = "stock"]}
    /\ UNCHANGED <<latch, pc, wizard, unproven, job, system, env, bounds>>

(***************************************************************************)
(* The menus.                                                              *)
(***************************************************************************)
\* Every error ends the wizard in the menu; what still runs on the board runs on.
BackToMenu ==
    /\ pc' = "menu" /\ job' = NoJob
    /\ stray' = stray \cup {t \in {target} : \E k \in Tries : job[k] = "running"}
    /\ UNCHANGED <<wizard, nand, system, runs, cuts>>

\* (Mutant: the menu does not look at the latch.)
ChooseRestoreAnyway ==
    /\ pc = "menu" /\ runs < Runs /\ runs' = runs + 1
    /\ pc' = "detect"
    /\ UNCHANGED <<latch, wizard, unproven, job, board, cuts>>

\* firmware_menu, entry 3: a latched process does not get past it.
ChooseRestore ==
    /\ pc = "menu" /\ ~latch /\ runs < Runs /\ runs' = runs + 1
    /\ pc' = "detect"
    /\ UNCHANGED <<latch, wizard, unproven, job, board, cuts>>

\* Entry 4, recovery over the UART, succeeds: the flash is stock, the latch open.
UartRecovers ==
    /\ pc = "menu" /\ runs < Runs /\ runs' = runs + 1
    /\ nand' = [t \in Targets |-> "stock"] /\ system' = "stock" /\ bootcmd' = "normal"
    /\ spent' = FALSE
    /\ stray' = {} /\ unproven' = {} /\ latch' = FALSE
    /\ UNCHANGED <<pc, wizard, job, cuts>>

\* It fails, at the BootROM or in the middle of its writes; the latch stays.
UartFails ==
    /\ pc = "menu" /\ runs < Runs /\ runs' = runs + 1
    /\ nand' \in {nand, [nand EXCEPT !["ibu"] = "partial"],
                  [ibu |-> "stock", bl2 |-> "partial"]}
    /\ system' = "down" /\ stray' = {}
    /\ UNCHANGED <<latch, pc, wizard, unproven, job, env, cuts>>

\* The window is closed and opened again: the latch was in memory only.
RestartProgram ==
    /\ runs < Runs /\ runs' = runs + 1
    /\ pc' = "menu" /\ job' = NoJob /\ latch' = FALSE /\ unproven' = {}
    /\ stray' = stray \cup {t \in {target} : \E k \in Tries : job[k] = "running"}
    /\ UNCHANGED <<wizard, nand, system, env, cuts>>

(***************************************************************************)
(* From the installed OpenWrt to the recovery system in RAM.               *)
(***************************************************************************)
Detect ==
    /\ pc = "detect"
    /\ \/ system = "recovery" /\ pc' = "preflight" /\ UNCHANGED attempt
       \/ system = "production" /\ bootcmd = "normal" /\ pc' = "ready" /\ attempt' = 1
    /\ UNCHANGED <<latch, from, cand, target, try, unproven, job, board, bounds>>

\* fw_setenv reaches the board; without the readback there is no reboot.
Arm ==
    /\ pc = "ready" /\ system = "production"
    /\ bootcmd' = "armed" /\ spent' = FALSE
    /\ \/ /\ pc' = "reboot"
          /\ UNCHANGED <<wizard, job, stray, nand, system, bounds>>
       \/ BackToMenu
    /\ UNCHANGED <<latch, unproven>>

\* The command may die with the channel; nobody expects its status.
RebootToRecovery ==
    /\ pc = "reboot" /\ pc' = "serve"
    /\ \/ system = "production" /\ Reboots
       \/ UNCHANGED board
    /\ UNCHANGED <<latch, wizard, unproven, job, bounds>>

RecoveryUp ==
    /\ pc = "serve" /\ system = "recovery"
    /\ pc' = "preflight"
    /\ UNCHANGED <<latch, wizard, unproven, job, board, bounds>>

\* (Mutant: the attempt is not counted.)
TryAgainUncounted ==
    /\ pc = "serve" /\ system = "production"
    /\ pc' = "ready"
    /\ UNCHANGED <<latch, wizard, unproven, job, board, bounds>>

TryAgain ==
    /\ pc = "serve" /\ system = "production" /\ attempt < Attempts
    /\ pc' = "ready" /\ attempt' = attempt + 1
    /\ UNCHANGED <<latch, from, cand, target, try, unproven, job, board, bounds>>

\* Two probes in a row saw recovery; its tools decide the transport.
Preflight ==
    /\ pc = "preflight" /\ system = "recovery"
    /\ from' \in Transports /\ pc' = "confirm"
    /\ UNCHANGED <<latch, attempt, cand, target, try, unproven, job, board, bounds>>

\* RESTORE STOCK BACKUP, typed exactly.
Confirm ==
    /\ pc = "confirm" /\ pc' = "transfer"
    /\ target' = "ibu" /\ cand' = from
    /\ UNCHANGED <<latch, attempt, from, try, unproven, job, board, bounds>>

\* A plain Error before the first write: no answer, another layout, the
\* operator declines, no server, no attempt left.
GiveUp ==
    /\ pc \in {"detect", "ready", "serve", "preflight", "confirm"}
    /\ BackToMenu
    /\ UNCHANGED <<latch, unproven, env>>

(***************************************************************************)
(* One payload: serve_restore_payload.                                     *)
(***************************************************************************)
\* TransportError before the pipeline was sent: the next transport, if any.
PrewriteFails ==
    /\ pc = "transfer"
    /\ \/ /\ cand < Scp /\ cand' = cand + 1
          /\ UNCHANGED <<pc, attempt, from, target, try, job, board, bounds>>
       \/ cand = Scp /\ BackToMenu /\ UNCHANGED env
    /\ UNCHANGED <<latch, unproven>>

Issue ==
    /\ pc = "transfer" /\ pc' = "ssh" /\ try' = 1
    /\ UNCHANGED <<latch, attempt, from, cand, target, unproven, job, board, bounds>>

\* The PC serves one client per payload; the SCP file lasts until a pipeline
\* has ended.  A pipeline with nothing to read writes nothing.
Fed == \/ job[1] = "none"
       \/ cand = Scp /\ job[1] = "running"

\* The board receives the command and starts it.
Reach ==
    /\ pc = "ssh" /\ system = "recovery" /\ pc' = "wait"
    /\ unproven' = unproven \cup {target}
    /\ IF Fed THEN /\ job' = [job EXCEPT ![try] = "running"]
                   /\ nand' = [nand EXCEPT ![target] = "partial"]
              ELSE job' = [job EXCEPT ![try] = "starved"] /\ UNCHANGED nand
    /\ UNCHANGED <<latch, wizard, stray, system, env, bounds>>

\* _restore_write_unknown, which _run_interactive_action turns into the latch.
WriteUnknown ==
    /\ BackToMenu /\ latch' = TRUE
    /\ UNCHANGED <<unproven, env>>

\* An Error in one authentication mode: connection refused, channel lost, time
\* up, exit status.  The same command goes out in the other mode.
SshError ==
    /\ pc \in {"ssh", "wait"}
    /\ \/ /\ try = 1 /\ try' = 2 /\ pc' = "ssh"
          /\ UNCHANGED <<latch, attempt, from, cand, target, unproven, job,
                         board, bounds>>
       \/ try = 2 /\ WriteUnknown

\* Exit status 0 and, for a stream, a server that sent the whole file.
WriteDone ==
    /\ pc = "wait" /\ job[try] \in {"ok", "starved"} /\ pc' = "verify"
    /\ UNCHANGED <<latch, wizard, unproven, job, board, bounds>>

\* (Mutant: an error of the server falls back to the next transport.)
ServerFailedFallsBack ==
    /\ pc = "wait" /\ job[try] \in {"ok", "starved"} /\ cand < Scp
    /\ pc' = "transfer" /\ cand' = cand + 1
    /\ UNCHANGED <<latch, attempt, from, target, try, unproven, job, board, bounds>>

\* Exit status 0, but the server failed, is still there or sent too little.
ServerFailed ==
    /\ pc = "wait" /\ job[try] \in {"ok", "starved"} /\ cand < Scp
    /\ WriteUnknown

\* (Mutant: any digest in the output will do.)
ReadsBackAnything(t) == system = "recovery"

\* The digest of the area, read by the board, is the digest of the backup.
ReadsBack(t) == system = "recovery" /\ nand[t] = "stock"

\* The readback agrees: on to bl2, or to the whole flash.
Verify ==
    /\ pc = "verify" /\ ReadsBack(target)
    /\ unproven' = unproven \ {target}
    /\ job' = NoJob
    /\ IF target = "ibu" THEN pc' = "transfer" /\ target' = "bl2" /\ cand' = from
                         ELSE pc' = "allflash" /\ UNCHANGED <<target, cand>>
    /\ UNCHANGED <<latch, attempt, from, try, board, bounds>>

AllFlash ==
    /\ pc = "allflash" /\ pc' = "bye"
    /\ \A t \in Targets : ReadsBack(t)
    /\ UNCHANGED <<latch, wizard, unproven, job, board, bounds>>

\* No digest or another one: a plain Error.
VerifyFails ==
    /\ pc \in {"verify", "allflash"}
    /\ BackToMenu
    /\ UNCHANGED <<latch, unproven, env>>

\* sync; reboot -f.  That it is lost is not an error.
Bye ==
    /\ pc = "bye" /\ pc' = "menu"
    /\ \/ system = "recovery" /\ Reboots
       \/ UNCHANGED board
    /\ UNCHANGED <<latch, wizard, unproven, job, bounds>>

Wizard ==
    \/ Detect \/ Arm \/ RebootToRecovery \/ RecoveryUp \/ TryAgain
    \/ Preflight \/ Confirm \/ GiveUp
    \/ PrewriteFails \/ Issue \/ Reach \/ SshError \/ WriteDone \/ ServerFailed
    \/ Verify \/ AllFlash \/ VerifyFails \/ Bye

Environment ==
    \/ ChooseRestore \/ UartRecovers \/ UartFails \/ RestartProgram
    \/ PowerCut \/ NormalBoot \/ SaveNormalBootcmd \/ NetworkBoot \/ JobEnds \/ StrayEnds

Next == Wizard \/ Environment

Spec == Init /\ [][Next]_vars

\* Every wait of the wizard has a timeout and the operator answers a prompt.
\* Nothing makes the operator start anything, nor a pipeline end.
FairSpec == Spec /\ WF_vars(Wizard)

(***************************************************************************)
(* Properties.                                                             *)
(***************************************************************************)
\* A pipeline that has data starts writing the area.
Starts(t) == target = t /\ \E k \in Tries : job[k] # "running" /\ job'[k] = "running"

\* Bootloader last: no pipeline starts writing bl2 unless ibu holds the stock
\* image and no abandoned pipeline, of this process or of an earlier one, is at it
\* (perform_stock_restore_over_ssh, R2 before R3).
BootloaderLast ==
    [][Starts("bl2") => nand["ibu"] = "stock" /\ "ibu" \notin stray]_vars

\* The final reboot goes out only over a flash that is stock throughout and that
\* nobody writes any more (R4 before R5).
RebootOverStock ==
    pc = "bye" => stray = {} /\ \A t \in Targets : nand[t] = "stock"

\* The transport is changed only while no pipeline of this payload has been
\* started on the board (serve_restore_payload).
FallbackBeforeWrite == [][cand' > cand => job = NoJob]_vars

\* Once a write has ended in WRITE_STATE_UNKNOWN, the process starts no other,
\* until a recovery over the UART has succeeded.
NoWriteAfterUnknown == [][\A t \in Targets : Starts(t) => ~latch]_vars

\* The command is for one boot: wherever the power goes in it, and whether or not
\* the recovery system was served, the board does not go to the network again by
\* itself, unless saveenv failed (arm_one_shot_recovery_boot).
RecoveryIsOneShot == [][system # "network" /\ system' = "network" => ~spent]_vars

\* Whatever is lost, the wizard gets back to the menu.
WizardReturns == pc # "menu" ~> pc = "menu"

\* "Once the SSH pipeline is issued [...] any disconnect/error is
\* WRITE_STATE_UNKNOWN": one payload, one pipeline (_restore_stream_transport).
\* (Does not hold: README, Known disagreements.)
PipelineIssuedOnce == \E k \in Tries : job[k] = "none"

\* The latch's promise: at the menu, a write whose readback is missing blocks the
\* menus (the class WriteStateUnknownError and the message of the latch).
\* (Does not hold: README, Known disagreements.)
UnprovenIsLatched == pc = "menu" /\ unproven # {} => latch
=============================================================================
