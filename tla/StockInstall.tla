---------------------------- MODULE StockInstall ----------------------------
(* One installation from the stock firmware, as the PC runs it (master.py): *)
(* the backup of the NAND, over TFTP or over a USB stick and Samba or FTP,  *)
(* its validation, the personal package made from it, the package's way to  *)
(* the board, the two preflights and the hand-off to the RAM worker.        *)
(*                                                                          *)
(* The PC knows the board only as the host that answers at one address.  So *)
(* the board behind the cable may be exchanged, reboot, save its            *)
(* environment or drop the Telnet session between any two steps.  Getting a *)
(* root shell is one step here (StockAccess has its own); what the worker   *)
(* does to the NAND is StockLauncher's.                                     *)
(*                                                                          *)
(* From the moment --flash is sent, three go on at their own pace: the PC,  *)
(* which waits for a marker or an exit status, the launcher in the Telnet   *)
(* session, which a lost session takes with it, and the RAM worker, which   *)
(* ignores the hang-up.                                                     *)
EXTENDS Naturals, Sequences

CONSTANTS
  Boards,      \* boards on the bench, all running the stock firmware
  None,        \* no board, no package, nothing read
  MaxGen,      \* saves of its environment a board may make (a bound)
  Attempts,    \* attempts at one partition (3 in the code)
  Budget       \* disturbances in one behaviour (a bound)

ASSUME InstallAssumption ==
  /\ None \notin Boards /\ MaxGen \in Nat /\ Budget \in Nat /\ Attempts \in Nat \ {0}

VARIABLES
  wired,       \* the board the PC's cable ends at
  plug,        \* the board that holds the USB stick
  ours,        \* boards of the profile's family
  gen,         \* how often each board has saved its environment
  tmp, stick,  \* the package in each board's /tmp and on the stick
  budget,      \* disturbances left
  phase,       \* place of the wizard
  existing,    \* an older backup was chosen
  via,         \* transport
  shell,       \* the board the root session was opened on, "lost" if it died since
  got,         \* the backup on the PC
  part,        \* the partition being read
  attempt,     \* and its attempt
  pkg,         \* the package made from the backup
  launch,      \* the --flash that was sent: its board, its step, its package
  worker       \* the RAM worker: its board, its step, its package, the environment
               \*   of the board when it began to flash

bench == <<wired, plug, ours, gen, budget>>
held == <<tmp, stick>>
session == <<existing, via>>
backup == <<got, part, attempt>>
flash == <<launch, worker>>
vars == <<bench, held, session, backup, phase, shell, pkg, flash>>

\* The environment block in mtd0 (and in mtd16, which spans mtd0); of the other
\* partitions only the board matters.
EnvOf(b) == <<b, gen[b]>>
Envs == Boards \X (0 .. MaxGen)

\* EXPECTED_NUMBERS in the order they are read: mtd0, the other static slices
\* (mtd1, mtd6, mtd7, mtd14, mtd15), then mtd16.
Parts == <<"mtd0", "fixed", "mtd16">>
Backups == [mtd0 : Envs \cup {None}, fixed : Boards \cup {None}, mtd16 : Envs \cup {None}]
Blank == [mtd0 |-> None, fixed |-> None, mtd16 |-> None]

\* verify_backup: all partitions are there with their sizes and hashes.
Complete(r) == r.mtd0 \in Envs /\ r.fixed \in Boards /\ r.mtd16 \in Envs
\* (Mutant of Valid: mtd0 is a live slice too, whose differences only warn.)
ValidWithLiveEnv(r) == Complete(r) /\ r.fixed = r.mtd16[1]
\* verify_stock_restore_backup: every static slice is found in mtd16.
Valid(r) == Complete(r) /\ r.mtd0 = r.mtd16 /\ r.fixed = r.mtd16[1]
\* _validate_install_backup: and it is of the family.  What else it refuses
\* (sizes, OpenWrt preloaders) is left to the choice to fail.
ValidForInstall(r) == Valid(r) /\ r.fixed \in ours

\* create_image changes bootcmd and nothing else; the package carries the hash
\* of the environment block it replaces.
PackageOf(r) == [source |-> r.mtd0, backup |-> r]
Packages == [source : Envs, backup : Backups]
OldPackage(b) == PackageOf([mtd0 |-> <<b, 0>>, fixed |-> b, mtd16 |-> <<b, 0>>])

\* The package the launcher of board b would run.
PackageAt(b) == IF via = "tftp" THEN tmp[b] ELSE IF plug = b THEN stick ELSE None
\* verify_personal_env: made from the environment the board has now.
PreflightOk(b) == PackageAt(b) # None /\ PackageAt(b).source = EnvOf(b)

Alive == shell = wired

\* The line on its way; the preflight passed; a worker was spawned; the marker; an
\* exit status other than 0.
LaunchSteps == {"line", "stage", "look", "started", "failed"}
WorkerSteps == {"checking", "refused", "flashing", "ended"}
WorkerAlive == worker # None /\ worker.step \in {"checking", "flashing"}

Phases == {"kit", "start", "transport", "share", "login1", "gate1", "login2", "setup",
           "identity", "dump", "verify", "login3", "gate3", "mount", "fetch", "validate", "personalize",
           "deploy", "preflight", "confirm", "rearm", "repreflight", "dispatch",
           "sent", "watch", "failed"}

Init ==
  /\ wired \in Boards /\ plug \in Boards \cup {None} /\ ours \in SUBSET Boards
  /\ gen = [b \in Boards |-> 0] /\ budget = Budget
  /\ tmp \in {t \in [Boards -> {OldPackage(b) : b \in Boards} \cup {None}] :
                \A b \in Boards : t[b] \in {None, OldPackage(b)}}
  /\ stick \in {OldPackage(b) : b \in Boards} \cup {None}
  /\ phase = "kit" /\ existing = FALSE /\ via = "tftp" /\ shell = None
  /\ got = Blank /\ part = 1 /\ attempt = 1 /\ pkg = None
  /\ launch = None /\ worker = None

Goto(p) == phase' = p
\* Any error ends the wizard; the finally clause closes the session.
Fail == Goto("failed") /\ shell' = None

(* ----------------------------------------------------------- transport -- *)

\* verify_kit: the kit's own files.
VerifyKit ==
  /\ phase = "kit"
  /\ \/ Goto("start") /\ UNCHANGED shell
     \/ Fail
  /\ UNCHANGED <<bench, held, session, backup, pkg, flash>>

\* The mode, and an older backup if one is used; it is validated first.
Start ==
  /\ phase = "start"
  /\ \/ Goto("transport") /\ UNCHANGED <<existing, got, shell>>
     \/ /\ got' \in {r \in Backups : Complete(r)} /\ existing' = TRUE
        /\ \/ ValidForInstall(got') /\ Goto("transport") /\ UNCHANGED shell
           \/ Fail
     \/ Fail /\ UNCHANGED <<existing, got>>
  /\ UNCHANGED <<bench, held, via, part, attempt, pkg, flash>>

\* After the choice of the transport: an older backup needs no dump.
AfterTransport == IF existing THEN "login3" ELSE "login1"

ChooseTransport ==
  /\ phase = "transport"
  /\ \/ via' \in {"tftp", "ftp"} /\ Goto(AfterTransport) /\ UNCHANGED shell
     \/ via' = "share" /\ Goto("share") /\ UNCHANGED shell
     \/ Fail /\ UNCHANGED via
  /\ UNCHANGED <<bench, held, existing, backup, pkg, flash>>

\* connect_samba_share, with its one more try.
OpenShare ==
  /\ phase = "share"
  /\ \/ Goto(AfterTransport) /\ UNCHANGED shell
     \/ Fail
  /\ UNCHANGED <<bench, held, session, backup, pkg, flash>>

(* -------------------------------------------------------------- backup -- *)

\* login_root_family: a shell on whichever board answers.
Opened(p) == \/ Goto(p) /\ shell' = wired
             \/ Fail
LoginRoot ==
  /\ \/ phase = "login1" /\ Opened("gate1")
     \/ phase = "login2" /\ Opened("setup")
     \/ phase = "login3" /\ Opened("gate3")
  /\ UNCHANGED <<bench, held, session, backup, pkg, flash>>

AfterGate == IF existing THEN "personalize" ELSE IF via = "tftp" THEN "validate" ELSE "mount"
\* _install_live_gate; the session of the first gate is closed.
LiveGate ==
  /\ \/ /\ phase = "gate1" /\ Alive /\ wired \in ours
        /\ Goto(IF via = "tftp" THEN "login2" ELSE "login3") /\ shell' = None
     \/ phase = "gate3" /\ Alive /\ wired \in ours /\ Goto(AfterGate) /\ UNCHANGED shell
     \/ phase \in {"gate1", "gate3"} /\ Fail
  /\ UNCHANGED <<bench, held, session, backup, pkg, flash>>

\* backup_tftp up to the first partition: the tools and the geometry, then
\* DEVICE_MAC.txt.  The directory is new, so no older address contradicts.
SetupDump ==
  /\ phase = "setup"
  /\ \/ Alive /\ Goto("identity") /\ UNCHANGED shell
     \/ Fail
  /\ UNCHANGED <<bench, held, session, backup, pkg, flash>>
WriteIdentity ==
  /\ phase = "identity"
  /\ \/ Alive /\ Goto("dump") /\ UNCHANGED shell
     \/ Fail
  /\ UNCHANGED <<bench, held, session, backup, pkg, flash>>

\* The USB paths: the stick is found and writable on the board.
Mount ==
  /\ phase = "mount"
  /\ \/ Alive /\ plug = wired /\ Goto("dump") /\ UNCHANGED shell
     \/ Fail
  /\ UNCHANGED <<bench, held, session, backup, pkg, flash>>

\* What a part of the wired board's NAND holds.
Content(p) == IF p = "fixed" THEN wired ELSE EnvOf(wired)

\* Over TFTP a part needs the file (receive_tftp_put) and the shell's report.
PutResults == {"file", "error"}
Reports == {"rc 0", "rc 1", "none"}
\* The shell is given up when it can no longer be trusted to be in step.
OutOfStep(put, report) == put = "error" \/ report = "none"

NextPart ==
  /\ attempt' = 1
  /\ IF part < Len(Parts) THEN part' = part + 1 /\ UNCHANGED phase
     ELSE part' = part /\ Goto(IF via = "tftp" THEN "verify" ELSE "fetch")

\* A part is complete: received whole, its gzip sound, its hash recorded.
ReadPart ==
  /\ phase = "dump" /\ Alive /\ (via = "tftp" \/ plug = wired)
  /\ got' = [got EXCEPT ![Parts[part]] = Content(Parts[part])]
  /\ NextPart
  /\ UNCHANGED <<bench, held, session, shell, pkg, flash>>

\* (Mutant of PartFails: an attempt counts only if the shell kept in step.)
PartFailsUncounted ==
  /\ phase = "dump" /\ via = "tftp" /\ shell # None
  /\ \/ /\ attempt < Attempts
        /\ \E put \in PutResults, report \in Reports :
             /\ Alive \/ OutOfStep(put, report)
             /\ IF OutOfStep(put, report) THEN shell' = None /\ UNCHANGED attempt
                ELSE attempt' = attempt + 1 /\ UNCHANGED shell
        /\ UNCHANGED phase
     \/ attempt >= Attempts /\ Fail /\ UNCHANGED attempt
  /\ UNCHANGED <<bench, held, session, got, part, pkg, flash>>

\* An attempt fails, for want of the file, of the report, of a sound gzip: the
\* same partition again, on the same shell if that is still in step.
PartFails ==
  /\ phase = "dump" /\ via = "tftp" /\ shell # None
  /\ \/ /\ attempt < Attempts /\ attempt' = attempt + 1
        /\ \E put \in PutResults, report \in Reports :
             /\ Alive \/ OutOfStep(put, report)
             /\ shell' = IF OutOfStep(put, report) THEN None ELSE shell
        /\ UNCHANGED phase
     \/ attempt = Attempts /\ Fail /\ UNCHANGED attempt
  /\ UNCHANGED <<bench, held, session, got, part, pkg, flash>>

\* The next attempt opens a shell of its own, on the board that answers then.
Reopen ==
  /\ phase = "dump" /\ shell = None
  /\ Opened("dump")
  /\ UNCHANGED <<bench, held, session, backup, pkg, flash>>

\* What ends the dump at once: the agent on the board, or over TFTP a port that
\* cannot be bound and a transport hash that differs.
DumpAborts ==
  /\ phase = "dump" /\ Fail
  /\ UNCHANGED <<bench, held, session, backup, pkg, flash>>

\* The files of the stick, through the board that has it: copy_tree_verified
\* over the share, ftp_walk_download over FTP.
FetchShare == via = "share" /\ plug = wired
FetchFtp == via = "ftp" /\ plug = wired
Fetch ==
  /\ phase = "fetch"
  /\ \/ (FetchShare \/ FetchFtp) /\ Goto("validate") /\ UNCHANGED shell
     \/ Fail
  /\ UNCHANGED <<bench, held, session, backup, pkg, flash>>

\* The end of backup_tftp, and _validate_install_backup on both paths.
Validate ==
  /\ \/ phase = "verify" /\ Valid(got) /\ Goto("login3") /\ shell' = None
     \/ phase = "validate" /\ ValidForInstall(got) /\ Goto("personalize") /\ UNCHANGED shell
     \/ phase \in {"verify", "validate"} /\ Fail
  /\ UNCHANGED <<bench, held, session, backup, pkg, flash>>

(* ------------------------------------------------------------- package -- *)

\* personalize_transition validates the backup once more.
Personalize ==
  /\ phase = "personalize"
  /\ \/ ValidForInstall(got) /\ pkg' = PackageOf(got) /\ Goto("deploy") /\ UNCHANGED shell
     \/ Fail /\ UNCHANGED pkg
  /\ UNCHANGED <<bench, held, session, backup, flash>>

\* Over TFTP into /tmp of the board: emptied first, every file hashed.
DeployTftp ==
  /\ via = "tftp" /\ UNCHANGED stick
  /\ \/ Alive /\ tmp' = [tmp EXCEPT ![wired] = pkg] /\ Goto("preflight") /\ UNCHANGED shell
     \/ tmp' \in {tmp, [tmp EXCEPT ![wired] = None]} /\ Fail
\* detect_router_install_dir, and sha256sum -c on the board.
FoundOnBoard == Alive /\ plug = wired
\* Onto the stick: a failure may leave part of the package, which its own hashes
\* give away.
DeployUsb ==
  /\ via \in {"share", "ftp"} /\ UNCHANGED tmp
  /\ \/ FoundOnBoard /\ stick' = pkg /\ Goto("preflight") /\ UNCHANGED shell
     \/ stick' \in (IF plug = wired THEN {stick, None, pkg} ELSE {stick}) /\ Fail
Deploy ==
  /\ phase = "deploy" /\ (DeployTftp \/ DeployUsb)
  /\ UNCHANGED <<bench, session, backup, pkg, flash>>

(* ------------------------------------------------------------- stage 1 -- *)

\* INSTALL.sh --preflight.
Preflight ==
  /\ \/ /\ phase \in {"preflight", "repreflight"} /\ Alive /\ PreflightOk(wired)
        /\ Goto(IF phase = "preflight" THEN "confirm" ELSE "dispatch") /\ UNCHANGED shell
     \/ phase \in {"preflight", "repreflight"} /\ Fail
  /\ UNCHANGED <<bench, held, session, backup, pkg, flash>>

\* The operator takes his time.
Confirm ==
  /\ phase = "confirm"
  /\ \/ Goto("rearm") /\ UNCHANGED shell
     \/ Fail
  /\ UNCHANGED <<bench, held, session, backup, pkg, flash>>

\* _stage1_rearm_after_confirmation: the session answers its nonce, or a new one
\* is opened.
Rearm ==
  /\ phase = "rearm"
  /\ \/ Alive /\ Goto("repreflight") /\ UNCHANGED shell
     \/ Opened("repreflight")
  /\ UNCHANGED <<bench, held, session, backup, pkg, flash>>

\* --flash is sent once; the line reaches a session that is still there.
Send ==
  /\ phase = "dispatch" /\ Goto("sent")
  /\ launch' = IF shell \in Boards THEN [board |-> shell, step |-> "line", package |-> None]
               ELSE None
  /\ UNCHANGED <<bench, held, session, backup, shell, pkg, worker>>

\* What the session brings: the marker (or an exit status 0 without it), or a refusal.
HearStarted == Alive /\ launch # None /\ launch.step = "started" /\ Goto("watch") /\ UNCHANGED shell
HearRefusal == Alive /\ launch # None /\ launch.step = "failed" /\ Fail

\* (Mutant of Hear: a session that breaks off after the command is an error like
\* any other.)
HearOrError ==
  /\ phase = "sent"
  /\ HearStarted \/ HearRefusal \/ Fail
  /\ UNCHANGED <<bench, held, session, backup, pkg, flash>>

\* Whatever else ends the wait, a broken session or 900 seconds, says nothing of the
\* board: it is watched and --flash is not repeated.
Hear ==
  /\ phase = "sent"
  /\ \/ HearStarted
     \/ HearRefusal
     \/ Goto("watch") /\ shell' = None
  /\ UNCHANGED <<bench, held, session, backup, pkg, flash>>

Wizard ==
  \/ VerifyKit \/ Start \/ ChooseTransport \/ OpenShare \/ LoginRoot \/ LiveGate
  \/ SetupDump \/ WriteIdentity \/ Mount \/ ReadPart \/ PartFails \/ Reopen \/ DumpAborts \/ Fetch \/ Validate
  \/ Personalize \/ Deploy \/ Preflight \/ Confirm \/ Rearm \/ Send \/ Hear

(* ------------------------------------------------ launcher and worker ---- *)

Step(x, s) == [x EXCEPT !.step = s]

\* The launcher's own preflight, on the board that has the line.
LauncherChecks ==
  /\ launch # None /\ launch.step = "line" /\ wired = launch.board
  /\ \/ /\ PreflightOk(launch.board)
        /\ launch' = [Step(launch, "stage") EXCEPT !.package = PackageAt(launch.board)]
     \/ launch' = Step(launch, "failed")
  /\ UNCHANGED worker

\* stage_runtime copies the package the preflight saw and starts the worker.
LauncherStages ==
  /\ launch # None /\ launch.step = "stage"
  /\ \/ /\ PackageAt(launch.board) = launch.package
        /\ worker' = [board |-> launch.board, step |-> "checking",
                      package |-> launch.package, env |-> None]
        /\ launch' = Step(launch, "look")
     \/ launch' = Step(launch, "failed") /\ UNCHANGED worker

\* Two seconds later: kill -0.
LauncherLooks ==
  /\ launch # None /\ launch.step = "look"
  /\ launch' = Step(launch, IF WorkerAlive THEN "started" ELSE "failed")
  /\ UNCHANGED worker

\* The session is gone and takes its launcher with it, wherever it is.
Hangup ==
  /\ launch # None /\ shell # launch.board
  /\ launch' = None
  /\ UNCHANGED worker

\* ram_flash, up to the first erase: the environment once more.
WorkerChecks ==
  /\ worker # None /\ worker.step = "checking"
  /\ \/ /\ worker.package.source = EnvOf(worker.board)
        /\ worker' = [Step(worker, "flashing") EXCEPT !.env = EnvOf(worker.board)]
     \/ worker' = Step(worker, "refused")
  /\ UNCHANGED launch

\* A board restarts: /tmp, its session and what ran on it are gone.
Reboot(b) ==
  /\ tmp' = [tmp EXCEPT ![b] = None]
  /\ shell' = IF shell = b THEN "lost" ELSE shell
  /\ launch' = IF launch # None /\ launch.board = b THEN None ELSE launch
  /\ worker' = IF ~WorkerAlive \/ worker.board # b THEN worker
               ELSE Step(worker, IF worker.step = "checking" THEN "refused" ELSE "ended")
  /\ UNCHANGED <<wired, plug, gen>>
\* A tool failed.
WorkerFails ==
  /\ worker # None /\ worker.step = "flashing"
  /\ worker' = Step(worker, "ended")
  /\ UNCHANGED launch

\* Done: reboot -f.
WorkerReboots ==
  /\ worker # None /\ worker.step = "flashing"
  /\ Reboot(worker.board)

OnBoard ==
  \/ /\ \/ LauncherChecks \/ LauncherStages \/ LauncherLooks \/ Hangup
        \/ WorkerChecks \/ WorkerFails
     /\ UNCHANGED <<bench, held, session, backup, phase, shell, pkg>>
  \/ /\ WorkerReboots
     /\ UNCHANGED <<ours, budget, stick, session, backup, phase, pkg>>

(* --------------------------------------------------------- the bench ---- *)

\* Cable and stick are moved about.
Swap ==
  /\ wired' \in Boards /\ plug' \in Boards \cup {None}
  /\ UNCHANGED <<gen, tmp, shell, flash>>
\* The Telnet session dies.
SessionLost ==
  /\ shell \in Boards /\ shell' = "lost"
  /\ UNCHANGED <<wired, plug, gen, tmp, flash>>
\* The stock firmware saves its environment.
SaveEnv(b) ==
  /\ gen[b] < MaxGen /\ gen' = [gen EXCEPT ![b] = @ + 1]
  /\ UNCHANGED <<wired, plug, tmp, shell, flash>>
\* (Bound: Budget disturbances, none after the wizard has ended.)
Disturb ==
  /\ budget > 0 /\ budget' = budget - 1 /\ phase \notin {"watch", "failed"}
  /\ Swap \/ SessionLost \/ \E b \in Boards : Reboot(b) \/ SaveEnv(b)
  /\ UNCHANGED <<ours, stick, session, backup, phase, pkg>>

Stop == phase \in {"watch", "failed"} /\ UNCHANGED vars

Next == Wizard \/ OnBoard \/ Disturb \/ Stop

\* Every wait of the wizard has a timeout and every prompt is answered.
Spec == Init /\ [][Next]_vars /\ WF_vars(Wizard)

(* Properties.                                                              *)

\* Types of the variables.
TypeOK ==
  /\ wired \in Boards /\ plug \in Boards \cup {None} /\ ours \in SUBSET Boards
  /\ gen \in [Boards -> 0 .. MaxGen] /\ budget \in 0 .. Budget
  /\ tmp \in [Boards -> Packages \cup {None}] /\ stick \in Packages \cup {None}
  /\ phase \in Phases /\ existing \in BOOLEAN /\ via \in {"tftp", "share", "ftp"}
  /\ shell \in Boards \cup {None, "lost"}
  /\ got \in Backups /\ part \in 1 .. Len(Parts) /\ attempt \in 1 .. Attempts
  /\ pkg \in Packages \cup {None}
  /\ launch \in [board : Boards, step : LaunchSteps, package : Packages \cup {None}] \cup {None}
  /\ worker \in [board : Boards, step : WorkerSteps, package : Packages \cup {None},
                 env : Envs \cup {None}] \cup {None}

\* A worker that touches the NAND of a board has a package made from that board's
\* own backup, with the environment the board had when the worker began: whatever
\* was exchanged, restarted or saved since the backup, also while the launcher was
\* at work, the board can be brought back from it (verify_stock_restore_backup,
\* verify_personal_env, ram_flash).
FlashedFromOwnBackup ==
  worker # None /\ worker.step \in {"flashing", "ended"} =>
    /\ worker.package.backup.mtd0 = worker.env /\ worker.package.backup.mtd16 = worker.env
    /\ worker.package.backup.fixed = worker.board /\ worker.env[1] = worker.board

\* A worker that may be writing, or that may still be started by a --flash that was
\* sent, is never reported as a failed installation, however the session ends: the
\* wizard goes on to watch it ("do not touch power").
MayStart == launch # None /\ launch.step \in {"line", "stage"}
AliveWorkerIsWatched == WorkerAlive \/ MayStart => phase \in {"sent", "watch"}

\* Retries of partitions and sessions are bounded: the wizard gets to the watch
\* or to an error.
InstallEnds == <>(phase \in {"watch", "failed"})
=============================================================================
