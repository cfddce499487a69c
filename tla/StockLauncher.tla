--------------------------- MODULE StockLauncher ---------------------------
(***************************************************************************)
(* Stage 1 on the router: data/stock-launcher.sh.in, deployed as INSTALL.sh*)
(* and run by the PC wizard in a Telnet shell of the stock firmware.       *)
(*                                                                         *)
(* One attempt is a shell running "INSTALL.sh --flash" (the launcher) and  *)
(* the detached worker it may leave behind ("--ram-flash").  Attempts share*)
(* the NAND and one fixed tmpfs directory, /tmp/nokia-medveflasher-ram.    *)
(* Checks that only read (geometry, bundle hashes, free space, applets)    *)
(* are the two outcomes of their step: pass or die.                        *)
(***************************************************************************)
CONSTANTS
    Attempts,   \* runs of INSTALL.sh --flash the operator may have open
    Overlap,    \* TRUE: a run may start while an earlier one is not over
    IOFaults,   \* TRUE: mtd_debug, dd and the self tests may fail
    PowerCuts,  \* TRUE: the board may lose power
    StockWrites \* TRUE: the stock firmware may rewrite its own environment

ASSUME ConstantsAssumption ==
    /\ Overlap \in BOOLEAN
    /\ IOFaults \in BOOLEAN
    /\ PowerCuts \in BOOLEAN
    /\ StockWrites \in BOOLEAN

VARIABLES
    mtd14,      \* nsb_master: "stock", "mixed" (erased, partial) or "bundle"
    env,        \* mtd0+0x60000: "source" (the backed-up block), "foreign"
                \*   (another valid block), "torn" or "personal"
    active,     \* the slot the stock firmware runs from and boots again
    mode,       \* what runs on the board
    ram,        \* STAGE_RAM: "none", "partial" or "ready"
    launcher,   \* per attempt: where the foreground script is
    out,        \* per attempt: what the PC can read from the shell
    worker,     \* per attempt: where the detached RAM worker is
    wrote       \* per attempt: its worker changed the NAND

nand == <<mtd14, env>>
vars == <<mtd14, env, active, mode, ram, launcher, out, worker, wrote>>

LauncherSteps == {"idle", "preflight", "plan", "stage", "confirm", "watch"}
Outputs == {"none", "started", "died"}
WorkerLive == {"verify", "erase14", "write14", "read14", "recheck",
               "erase0", "write0", "read0", "reboot"}
WorkerSteps == WorkerLive \cup {"none", "failed"}

TypeOK ==
    /\ mtd14 \in {"stock", "mixed", "bundle"}
    /\ env \in {"source", "foreign", "torn", "personal"}
    /\ active \in {"master", "slave"}
    /\ mode \in {"stock", "off", "transition", "stuck"}
    /\ ram \in {"none", "partial", "ready"}
    /\ launcher \in [Attempts -> LauncherSteps]
    /\ out \in [Attempts -> Outputs]
    /\ worker \in [Attempts -> WorkerSteps]
    /\ wrote \in [Attempts -> BOOLEAN]

Init ==
    /\ mtd14 = "stock"
    /\ env = "source"
    /\ active \in {"master", "slave"}
    /\ mode = "stock"
    /\ ram = "none"
    /\ launcher = [a \in Attempts |-> "idle"]
    /\ out = [a \in Attempts |-> "none"]
    /\ worker = [a \in Attempts |-> "none"]
    /\ wrote = [a \in Attempts |-> FALSE]

Alive(a) == worker[a] \in WorkerLive
Busy(a) == launcher[a] # "idle" \/ Alive(a)

(***************************************************************************)
(* The foreground launcher.                                                *)
(***************************************************************************)
\* A new shell enters --flash.  Without Overlap the operator waits for the end
\* of the previous run, as the wizard does; the script itself takes no lock.
Start(a) ==
    /\ mode = "stock"
    /\ ~Busy(a)
    /\ Overlap \/ \A b \in Attempts : ~Busy(b)
    /\ launcher' = [launcher EXCEPT ![a] = "preflight"]
    /\ out' = [out EXCEPT ![a] = "none"]
    /\ worker' = [worker EXCEPT ![a] = "none"]
    /\ wrote' = [wrote EXCEPT ![a] = FALSE]
    /\ UNCHANGED <<mtd14, env, active, mode, ram>>

LauncherGoes(a, from, to) ==
    /\ launcher[a] = from
    /\ launcher' = [launcher EXCEPT ![a] = to]
    /\ UNCHANGED <<out, worker, wrote>>

\* Layout, aliases, bundle and free package directory; the one check that looks
\* at state this module keeps is the SHA256 of the current environment block.
Preflight(a) ==
    /\ env = "source"
    /\ LauncherGoes(a, "preflight", "plan")
    /\ UNCHANGED <<mtd14, env, active, mode, ram>>

\* rm -rf of the staging directory, whoever it belongs to.
PrepareStagePlan(a) ==
    /\ LauncherGoes(a, "plan", "stage")
    /\ ram' = "none"
    /\ UNCHANGED <<mtd14, env, active, mode>>

\* Copies, self tests and hashes all passed.
StageRuntime(a) ==
    /\ LauncherGoes(a, "stage", "confirm")
    /\ ram' = "ready"
    /\ UNCHANGED <<mtd14, env, active, mode>>

\* The exact phrase, then the worker is spawned with HUP ignored.
ConfirmAndSpawn(a) ==
    /\ launcher[a] = "confirm"
    /\ launcher' = [launcher EXCEPT ![a] = "watch"]
    /\ worker' = [worker EXCEPT ![a] = "verify"]
    /\ UNCHANGED <<mtd14, env, active, mode, ram, out, wrote>>

\* sleep 2; kill -0: the marker when the worker still runs, die when it does not.
WatchWorker(a) ==
    /\ launcher[a] = "watch"
    /\ launcher' = [launcher EXCEPT ![a] = "idle"]
    /\ out' = [out EXCEPT ![a] = IF Alive(a) THEN "started" ELSE "died"]
    /\ UNCHANGED <<mtd14, env, active, mode, ram, worker, wrote>>

\* Any check before the spawn may end the script; a failed one always does.
Die(a) ==
    /\ launcher[a] \in {"preflight", "plan", "stage", "confirm"}
    /\ launcher' = [launcher EXCEPT ![a] = "idle"]
    /\ out' = [out EXCEPT ![a] = "died"]
    /\ ram' \in IF launcher[a] = "stage" THEN {"none", "partial", "ready"}
                ELSE IF launcher[a] = "plan" THEN {"none"} ELSE {ram}
    /\ UNCHANGED <<mtd14, env, active, mode, worker, wrote>>

\* The Telnet session drops: the foreground script gets HUP, the worker ignores it.
Hangup(a) ==
    /\ launcher[a] # "idle"
    /\ launcher' = [launcher EXCEPT ![a] = "idle"]
    /\ ram' \in IF launcher[a] = "stage" THEN {"none", "partial", "ready"} ELSE {ram}
    /\ UNCHANGED <<mtd14, env, active, mode, out, worker, wrote>>

(***************************************************************************)
(* The detached worker.  Every tool it runs is a file of the staging       *)
(* directory, so a step succeeds only while that directory is whole.       *)
(***************************************************************************)
WorkerGoes(a, from, to) ==
    /\ worker[a] = from
    /\ worker' = [worker EXCEPT ![a] = to]
    /\ UNCHANGED <<active, mode, ram, launcher, out>>

Tools == ram = "ready"

\* (Mutant: the environment is switched before the bundle is written.)
WVerifyEnvFirst(a) ==
    /\ Tools /\ env = "source"
    /\ WorkerGoes(a, "verify", "erase0")
    /\ UNCHANGED <<nand, wrote>>

\* RAM copies and the current environment are hashed once more.
WVerify(a) ==
    /\ Tools /\ env = "source"
    /\ WorkerGoes(a, "verify", "erase14")
    /\ UNCHANGED <<nand, wrote>>

WErase14(a) ==
    /\ Tools
    /\ WorkerGoes(a, "erase14", "write14")
    /\ mtd14' = "mixed"
    /\ wrote' = [wrote EXCEPT ![a] = TRUE]
    /\ UNCHANGED env

\* mtd_debug may return 0 over bytes that do not read back.
WWrite14(a) ==
    /\ Tools
    /\ WorkerGoes(a, "write14", "read14")
    /\ mtd14' \in {"bundle"} \cup (IF IOFaults THEN {"mixed"} ELSE {})
    /\ UNCHANGED <<env, wrote>>

\* (Mutants: a readback that is not compared; one that retries for ever.)
WRead14Unchecked(a) ==
    /\ Tools
    /\ WorkerGoes(a, "read14", "recheck")
    /\ UNCHANGED <<nand, wrote>>
WRead14Retry(a) ==
    /\ Tools
    /\ WorkerGoes(a, "read14", IF mtd14 = "bundle" THEN "recheck" ELSE "write14")
    /\ UNCHANGED <<nand, wrote>>

\* The SHA256 of what mtd14 now holds is that of the bundle.
WRead14(a) ==
    /\ Tools /\ mtd14 = "bundle"
    /\ WorkerGoes(a, "read14", "recheck")
    /\ UNCHANGED <<nand, wrote>>

WRecheckEnv(a) ==
    /\ Tools /\ env = "source"
    /\ WorkerGoes(a, "recheck", "erase0")
    /\ UNCHANGED <<nand, wrote>>

WEraseEnv(a) ==
    /\ Tools
    /\ WorkerGoes(a, "erase0", "write0")
    /\ env' = "torn"
    /\ UNCHANGED <<mtd14, wrote>>

WWriteEnv(a) ==
    /\ Tools
    /\ WorkerGoes(a, "write0", "read0")
    /\ env' \in {"personal"} \cup (IF IOFaults THEN {"torn"} ELSE {})
    /\ UNCHANGED <<mtd14, wrote>>

WReadEnv(a) ==
    /\ Tools /\ env = "personal"
    /\ WorkerGoes(a, "read0", "reboot")
    /\ UNCHANGED <<nand, wrote>>

\* What an erase or a write of the workers in S leaves when it stops halfway.
InterruptedMtd14(S) == {mtd14} \cup
    (IF Tools /\ \E a \in S : worker[a] \in {"erase14", "write14"} THEN {"mixed"} ELSE {})
InterruptedEnv(S) == {env} \cup
    (IF Tools /\ \E a \in S : worker[a] \in {"erase0", "write0"} THEN {"torn"} ELSE {})

\* rfail: a check that does not hold, or an operation that fails with whatever
\* part of its effect it had.  The board stays up; nothing is undone.
WFail(a) ==
    /\ Alive(a)
    /\ \/ IOFaults \/ ~Tools
       \/ worker[a] \in {"verify", "recheck"} /\ env # "source"
       \/ worker[a] = "read14" /\ mtd14 # "bundle"
       \/ worker[a] = "read0" /\ env # "personal"
    /\ worker' = [worker EXCEPT ![a] = "failed"]
    /\ mtd14' \in InterruptedMtd14({a})
    /\ env' \in InterruptedEnv({a})
    /\ wrote' = [wrote EXCEPT ![a] = @ \/ mtd14' # mtd14]
    /\ UNCHANGED <<active, mode, ram, launcher, out>>

(***************************************************************************)
(* The board: what U-Boot starts, and what power and the stock firmware do.*)
(***************************************************************************)
\* A valid environment decides: the raw FIT at mtd14 for the personal one, the
\* active stock slot otherwise (nsb_master is mtd14).  Over a torn block U-Boot
\* falls back to built-in defaults the code does not describe.
SlotIntact == active = "slave" \/ mtd14 = "stock"
Boots(system) ==
    \/ system = "transition" /\ env = "personal" /\ mtd14 = "bundle"
    \/ system = "stock" /\ env # "personal" /\ SlotIntact
    \/ system = "stuck" /\ \/ env = "torn"
                           \/ env = "personal" /\ mtd14 # "bundle"
                           \/ env \in {"source", "foreign"} /\ ~SlotIntact
BootTargets == {system \in {"stock", "transition", "stuck"} : Boots(system)}

LoseVolatile ==
    /\ ram' = "none"
    /\ launcher' = [a \in Attempts |-> "idle"]
    /\ worker' = [a \in Attempts |-> "none"]
    /\ UNCHANGED <<mtd14, env, active, wrote>>

\* sync, sleep 3, reboot -f of the worker.
WReboot(a) ==
    /\ Tools
    /\ worker[a] = "reboot"
    /\ mode' \in BootTargets
    /\ LoseVolatile
    /\ UNCHANGED out

\* Power may go in the middle of an erase or a write.
PowerCut ==
    /\ PowerCuts
    /\ mode # "off"
    /\ mode' = "off"
    /\ ram' = "none"
    /\ launcher' = [a \in Attempts |-> "idle"]
    /\ worker' = [a \in Attempts |-> "none"]
    /\ mtd14' \in InterruptedMtd14(Attempts)
    /\ env' \in InterruptedEnv(Attempts)
    /\ UNCHANGED <<active, out, wrote>>

PowerOn ==
    /\ mode = "off"
    /\ mode' \in BootTargets
    /\ UNCHANGED <<mtd14, env, active, ram, launcher, out, worker, wrote>>

StockRewritesEnv ==
    /\ StockWrites
    /\ mode = "stock"
    /\ env \in {"source", "foreign"}
    /\ env' \in {"source", "foreign"} \ {env}
    /\ UNCHANGED <<mtd14, active, mode, ram, launcher, out, worker, wrote>>

Launcher(a) ==
    \/ Preflight(a) \/ PrepareStagePlan(a) \/ StageRuntime(a)
    \/ ConfirmAndSpawn(a) \/ WatchWorker(a)

Worker(a) ==
    \/ WVerify(a) \/ WErase14(a) \/ WWrite14(a) \/ WRead14(a) \/ WRecheckEnv(a)
    \/ WEraseEnv(a) \/ WWriteEnv(a) \/ WReadEnv(a) \/ WReboot(a) \/ WFail(a)

Next ==
    \/ \E a \in Attempts : Start(a) \/ Launcher(a) \/ Die(a) \/ Hangup(a) \/ Worker(a)
    \/ PowerCut \/ PowerOn \/ StockRewritesEnv

\* The worker is a process of a running kernel: it is scheduled, and each of its
\* tools returns.  Nothing obliges the operator, the launcher or the power.
Fairness == \A a \in Attempts : WF_vars(Worker(a))

Spec == Init /\ [][Next]_vars
FairSpec == Spec /\ Fairness

(***************************************************************************)
(* Properties.                                                             *)
(***************************************************************************)
\* The stage-1 NAND as a staged switch: bundle first, environment last.
Payload == IF mtd14 = "stock" THEN "old" ELSE IF mtd14 = "bundle" THEN "new" ELSE "mixed"
Selector == IF env = "personal" THEN "new" ELSE IF env = "torn" THEN "torn" ELSE "old"

Switch == INSTANCE StagedSwitch WITH payload <- Payload, selector <- Selector

\* "Writes the selected transition bundle to nsb_master, verifies it, then
\* writes a device-specific U-Boot environment erase block last": whatever
\* fails, is cut or is run again, an environment block that is no longer a
\* stock one stands over a complete bundle.
EnvOnlyOverBundle == env \in {"torn", "personal"} => mtd14 = "bundle"

\* Every step of stage 1 is a step of the staged switch: once the environment
\* block has been touched, no attempt rewrites mtd14 or puts the block back.
ImplementsSwitch == Switch!Spec

\* The worker's steps have no way round in them: whatever its tools return, as
\* long as each of them returns, it reboots, fails or loses power.
WorkerEnds == \A a \in Attempts : Alive(a) ~> ~Alive(a)

\* docs/ARCHITECTURE_EN.md: "Since the bootloader is not replaced, a failure
\* leaves the device normally bootable right up to the NAND format step" (that
\* step belongs to stage 2): after a cut in stage 1 the board boots something.
\* (Does not hold: README, Known disagreements.)
BootableUntilFormat == mode = "off" => BootTargets # {"stuck"}

\* master.py tells the operator of a launcher that died without the worker
\* marker "RAM worker did not start; NAND writing did not continue".
\* (Does not hold: README, Known disagreements.)
DeadLauncherLeftNandAlone == \A a \in Attempts : out[a] = "died" => ~wrote[a]

\* "Clean remnants from earlier failed staging attempts": what the clean-up
\* removes is not the runtime of a worker that is still flashing.
\* (Does not hold of overlapping runs: README, Known disagreements.)
CleansOnlyFailedAttempts ==
    [][ ram = "ready" /\ ram' # "ready" /\ mode' = mode
        => \A a \in Attempts : ~Alive(a) ]_vars
=============================================================================
