# MedveFlasher in TLA+

A verification project for Nokia MedveFlasher (XG-040G-MD / XG-040G-MF): the PC
wizard and the scripts it puts on the router, which together replace the stock
firmware by OpenWrt on UBI, back it up first and restore it afterwards.  The
modules model the program's control: what is checked before which NAND write, in
which order the writes happen, what a failure, a dropped session, a lost packet
or a power cut leaves behind, and what the next attempt makes of it.

## 1. Inventory of the system

| Part | Code (`src/`) | State it keeps | Operations | Talks to |
|---|---|---|---|---|
| PC wizard, menus, destructive latch | `data/master.py` 983-1100, 11490-11730, 12380-12980 | latch (process), `state.json`, session log | install, resume stage 2, restore, recover | everything below |
| Stock access: web login, SSH/Telnet provisioning | `data/stock_web.py`, `data/master.py` 1960-2860 | web session, Telnet session, provisioned account | login, su/uid 0 account, enable service, restore settings | stock firmware over HTTP/Telnet |
| Backup of the stock NAND | `data/master.py` 3253-3960, `data/backup-agent.sh`, `data/nokia-stock-tftp-backup-safe.sh` | backup directory, resume state | per-partition transfer, hash, verify, resume | TFTP server, Telnet |
| TFTP transport | `data/master.py` 2987-3250, 5977-6080, `data/tftp-rescue.py`, `data/recovery/recovery-clients-source/nokia-tftp.c` | block counters, per-transfer sockets | RRQ/WRQ, OACK, DATA/ACK, retransmission | UDP |
| Slot and backup validation | `data/master.py` 1567-1850, `data/stock-launcher.sh.in` 236-350 | none | layout, revision pair and slot match, backup verification | - |
| Personal package | `data/env_patcher.py`, `data/master.py` 1847-1960 | package directory | patch `bootcmd`, CRC, fill the launcher template | - |
| Stage 1 hand-off | `data/master.py` 4943-5136 | Telnet session, result | preflight, confirm, re-arm, dispatch `--flash` | stage-1 launcher |
| Stage-1 launcher | `data/stock-launcher.sh.in` | tmpfs staging directory, mtd14, environment block of mtd0 | preflight, stage, confirm, RAM worker | PC wizard, NAND |
| Transition system (stage 2) | `data/recovery/transition-control-source/*`, `data/payload-refresh/md-transition-runtime-*` | UBI volumes, BL2, marker files in /tmp, state files | autoflash, installer check/install/attach/status/fullflash, finish | PC watch, NAND |
| Manual image transfer | `data/master.py` 5137-5648, 5449-5611 | `.part` and image file on the board, the chosen image | wait, three transports, check, launch | manual transition system |
| Stage-2 watch | `data/master.py` 5449-6590 | probe history, timers | probe transition/production, rescue TFTP, classify | transition system, production OpenWrt |
| Restore over SSH | `data/master.py` 8228-9030 | restore payloads, latch | classify, preflight, stream or SCP, readback, BL2 last | recovery initramfs |
| Brick recovery over UART | `data/master.py` 6846-8226, 10577-10770 | serial port, U-Boot prompt, chunk list, bad blocks | XMODEM, FIT service, chunk TFTP, verify, BL2 last | BootROM, U-Boot |
| BootROM backup | `data/master.py` 10200-10577 | chunk files | capture chunks, retry, hash | RAM shell |
| Diagnostics | `data/diagnostics/*` | none | audit and parse | - |
| Payload builders, provenance, CI | `data/payload-refresh/*.py`, `data/recovery/*/patch_*.py`, `.github/workflows` | build outputs | build, verify | - |
| Vendored console library | `data/vendor/rich` | - | - | - |

How the parts interact.  The wizard holds one Telnet session and dispatches
`INSTALL.sh --flash` once; from then on the launcher's detached worker owns the
NAND and the wizard can only watch.  The worker reboots into the transition
system, which formats the rest of the NAND by itself, writes BL2 last and hands
over to `sysupgrade`; the wizard watches with probes and keeps a rescue TFTP
server up.  Restore and recovery write the same NAND in the other direction.

Behaviours that are hard: the PC cannot know what the router did after a dropped
session; the NAND keeps half-finished work over a power cut while tmpfs markers
vanish; a retry meets the leftovers of the first try; readbacks and hashes are
the only evidence of a write; UDP loses, duplicates and delays.

What makes each part correct:

* *Stage 1*: the environment block that redirects the boot is touched only over a
  bundle that has been read back; a rerun never undoes that; a worker always ends.
* *Stage 2*: BL2 is written only over verified volumes; `SAFE_TO_POWER_CYCLE=1` is
  shown only while the NAND is untouched; sysupgrade is reached only over a
  completed layout; a retry never declares complete what was never verified.
* *Backup, package and hand-off*: a board is flashed only with a package made from
  its own validated backup; `--flash` is dispatched once; a worker that may be
  writing is never reported as one that is not.
* *Stage-2 watch*: no step is drawn from silence; the operator's continuation starts
  sysupgrade only over a new boot chain; a wrong guess never hides production; the
  rescue net catches.
* *Stock access*: no service is switched on for nothing; never both families.
* *Manual image*: the image that was checked is the image that is flashed.
* *TFTP*: a received file is the sent file or the transfer fails; both ends end.
* *Restore and recovery*: BL2 last; bad blocks never shift data; a latch that only
  a full recovery clears.
* *Slot match*: what the PC takes for a family, the launcher accepts as that family.

## 2. Plan

The order is by what a mistake costs: first the writes that can leave a board
without a system, then the transport they use, then the PC's side.  Steps 1 to 9
are done.

1. `StagedSwitch` (abstract), `StockLauncher`, `StockLauncherProofs`: stage 1.
2. `UbiInstaller`, `UbiInstallerProofs`: stage 2, implementing `StagedSwitch` with
   BL2 as selector.
3. `TftpGet`, `TftpGetProofs`: the transport from the PC to the board.
4. `RestoreOverSsh`, `RestoreOverSshProofs`: the restore over SSH and the latch.
5. `StageTwoBoard` (abstract, implemented by `UbiInstaller`) and `StageTwoWatch`, the
   PC's watch composed with it.
6. `SlotLayouts` and `StockAccess`: the two slot tables, and the way to a root shell on
   a board of the right family.  `WizardProofs` proves both the access and the watch.
7. `StockInstall`, `StockInstallProofs`: backup, validation, package, deployment and
   the hand-off to the RAM worker.
8. `ManualImage`, `ManualImageProofs`: the image of a manual migration.
9. `XmodemSend` and `UartRestore`, `BrickRecoveryProofs`: brick recovery.

Every safety and action property a run checks is also proved (section 6).  Left:
properties for the hazards that have none yet, above all the two installers that
may write at once (`PROJECT.json` lists them with the reason).

## 3. Modules

### StagedSwitch: the promise

A *payload* is staged beside a small *selector* that decides what the board
boots.  `Stage` rewrites the payload while the selector still has its old value,
`Switch` moves the selector forward over a complete payload that stays put.  Both
migration stages are shown to implement it, so whatever order of failures,
retries and power cuts they meet, they never go back and never switch early.

### StockLauncher: stage 1 on the router

`data/stock-launcher.sh.in`.  State: `mtd14` and `env` are the NAND (the transition
bundle in `nsb_master`, the last erase block of `mtd0`), `active` the stock slot in
use, `ram` the fixed tmpfs directory, `mode` what runs on the board; per attempt
`launcher` is the step of the foreground script, `out` what the PC can read,
`worker` the step of the detached `--ram-flash` process, `wrote` whether it changed
the NAND (a history variable).

| Action | Code |
|---|---|
| `Start`, `Preflight`, `PrepareStagePlan`, `StageRuntime`, `ConfirmAndSpawn`, `WatchWorker` | `--flash`: preflight, `rm -rf` of the staging directory, copies and self tests, the phrase and the spawn, `sleep 2; kill -0` |
| `Die`, `Hangup` | `die` anywhere before the spawn; the Telnet session ends (the worker ignores HUP) |
| `WVerify` ... `WReadEnv`, `WReboot` | `ram_flash` steps 1/7 to 7/7, in the order of the script |
| `WFail` | `rfail`, with whatever part of an erase or a write took effect |
| `PowerCut`, `PowerOn` | external; a cut may fall inside an erase or a write |
| `StockRewritesEnv` | external: the stock firmware saves its environment |

Checks that only read are the two outcomes of their step; a check that reads
modelled state (environment hash, readbacks) is a guard.  A tool runs only while
the staging directory is whole (`Tools`).  U-Boot's choice (`Boots`) is external and
taken from how the launcher uses it; over a torn environment nothing is promised,
so the model says the board is stuck.

### UbiInstaller: stage 2 on the router

`shipped-md-nokia-ubi-autoflash.sh`, `shipped-md-nokia-ubi-installer.sh`, the MF
installer where it differs (`Bl2Gate`), and `nokia-ubi-finish`.  State: `raw` (the
stock region), `header` (a UBI header is found near its start), `named` (the six
volumes exist), `content` per data volume, `bl2`, `bl2Writable`; in RAM `state` (what
autoflash publishes), `image`, `complete` (the marker in `/tmp`); per process `cmd`
and `pc`.  Autoflash and any operator shell run the same commands: the steps of an
install are the actions `BaseCheck` to `MarkComplete` in the order [1/8] to [8/8];
`AttachExisting` is the path taken when UBI headers are already there; `Finish`,
`Status`, `ExecSysupgrade` hand over to `Upgrade` (external): procd takes the system over
at once, or sysupgrade returns 0, autoflash publishes `FULLFLASH_RETURNED_0` and the
transition stays up, until procd takes over after all (`TakeOver`) or for good.
`logged` is what the log of autoflash shows, `Rescue` the transition that the PC serves to
a new U-Boot without a system.  `Fail` is `die` and `critical`; `HalfDone` is what the NAND holds when an operation stops halfway, by an
error or by `PowerCut`.  `BootTarget` is what BL2 and U-Boot do with the result.

### TftpGet: from the PC to the board

`serve_tftp_get` in `data/master.py` and `nokia-tftp.c`, over a cable (`Sent`,
external) that may lose or repeat a datagram but keeps their order.  One variable,
`rescue`, chosen at the start, says which of two uses a behaviour is: one call, or
the endless loop of `_RescueTftpServer` with a U-Boot that asks once a second for
ever.  Server state: `call` (which loop it is in), `peer`, `block`, `tries`; client
state: `board`, `port`, `expected`, `got`, `last`, `waits`; `toServer` and `toBoard`
are socket buffers.  A restart of the board is a new `port`: datagrams for an older
one are not delivered, while its own old datagrams still reach the server.

| Action | Code |
|---|---|
| `HearRequest`, `RequestTimeout` | the loop before a request, `request_deadline` |
| `HearAck`, `HearOther`, `ServerTimeout` | the option loop (block 0) and the data loop: the awaited ACK, anything else, a receive timeout |
| `ServeAgain` | `_RescueTftpServer._loop` |
| `Start` | the client sends its read request; again after a power cut |
| `HearOack`, `HearData`, `HearOldData`, `ClientTimeout` | the receive loop of `nokia-tftp` |
| `Unheard` | external: no socket is open any more |

Blocks are counted without wrapping, only `Wire(n)` is compared, as on the wire.
The two loops of the server send the same packet at every turn, so each turn's
`sendto` is folded into the step that starts it.  A block's contents are its
number.  ERROR packets (never sent by `nokia-tftp`), file errors and the path for a
request without options (3206, no OACK: `nokia-tftp` and the U-Boots here always send
some) are left out.

### RestoreOverSsh: back to stock, and the latch

`stock_restore_running_wizard` and what it calls in `data/master.py`, with
`_run_interactive_action`, `firmware_menu` and the latch around it.  State of the PC:
`latch`, `pc` (the step of the wizard), `attempt`, `from` and `cand` (the transport the
preflight chose, the one being tried), `target`, `try` (the authentication mode);
`unproven` is a history variable: areas written by this start of the program and not
read back since.  State of the board: `system` (in U-Boot, `"uboot"` before the `saveenv` of
the one-boot command and `"network"` after it), `bootcmd`, `spent` (history: the network
part has run since `bootcmd` was armed, and no `saveenv` failed), `nand` (what `ibu` and
`bl2` hold), `job` (the pipelines of the current payload, one per try), `stray` (areas that
pipelines the wizard has left behind still write).

| Action | Code |
|---|---|
| `Detect`, `Arm`, `RebootToRecovery`, `RecoveryUp`, `TryAgain` | `inspect_restore_environment`, `arm_one_shot_recovery_boot`, the attempts of `boot_recovery_from_production_openwrt` |
| `Preflight`, `Confirm`, `GiveUp` | `transition_preflight_for_restore`, the phrase, every plain error before a write |
| `PrewriteFails`, `Issue` | `serve_restore_payload`: `TransportError`, or the command goes out |
| `Reach`, `SshError`, `WriteDone`, `ServerFailed` | the pipeline starts; `_restore_probe_ssh` fails in one mode and tries the other; exit status 0; the server's verdict |
| `Verify`, `AllFlash`, `VerifyFails`, `Bye` | readbacks, R4, R5 |
| `ChooseRestore`, `UartRecovers`, `UartFails`, `RestartProgram` | menu entries 3 and 4, closing the window |
| `NormalBoot`; `SaveNormalBootcmd`, `NetworkBoot` | U-Boot: `run boot_ubi`; the command that `arm_one_shot_recovery_boot` saves (8739-8747), part by part: the old `bootcmd` is saved, or `saveenv` fails and the command goes on, then the network, then `boot_ubi` |
| `JobEnds`, `StrayEnds`, `PowerCut` | external; a cut falls between any two parts of that command |

A remote pipeline is started without a terminal, so it outlives its SSH channel; it
ends when it likes, with an exit status that says nothing certain about the content.
While it runs, its area is `partial`.  A pipeline that finds no data (the server has
served its one client, the SCP file is gone) writes nothing and may still exit 0.
The five tries to arm are one action with three outcomes: armed and read back, armed
without proof, nothing.  The TFTP server's behaviour is that of `TftpGet`; here it
has succeeded or not.  Not modelled: Ctrl-C in the middle of a transfer, which leaves
the daemon thread of the TFTP server running (8554, 8588); no property speaks of
it.  The order promised by `StagedSwitch` holds within one restore
only: a second restore may rewrite `ibu` under a `bl2` that is stock already, so no
refinement is claimed.

### StageTwoBoard and StageTwoWatch: the PC watches stage 2

`StageTwoBoard` is what stage 2 shows and what a power cut would make of it: the
published `state`, the last numbered step in the log, the completion marker, what BL2
starts (`chain`) and what the new U-Boot finds (`fit`).  `UbiInstaller` implements it
when autoflash is alone on the board (`ImplementsBoard`, checked and proved), so that the
watch is checked against a small board instead of the whole installer.

`StageTwoWatch` is `run_stage2`, `_run_stage2_watch`, `resume_stage2_wizard` and
`_RescueTftpServer`, over that board.  `at` is the place in a turn; `heard`, `ports`, `prev`,
`step`, `announced`, `explicit`, `outage`, `safe`, `retried`, `advised` are the local variables
of the loop; `expected` says whether the board is the one `expected_board` names; `rescue`
and `served` are the rescue server, `port69` who holds UDP/69 and `call` what its
`serve_tftp_get` is doing.  `serving` is external: the services of production are up.

| Action | Code |
|---|---|
| `WatchAfterInstall`, `Resume` | the end of the installation wizard; menu "continue", which may refuse |
| `Scan` | the four TCP connects and the handoff guessed from silence |
| `HearTransition`, `HearLog` | the status, and the log as a second request that may come back empty; a state file that is not there yet is `UNKNOWN`; a guess may be taken back |
| `ProbeSilent` | no channel answers, or not completely |
| `ProbeProduction` | production over SSH: with the volumes, the release and the expected board (6337), with or without LuCI; or "OpenWrt responds" (6362-6365), and the wizard goes on waiting |
| `FudanCheck`, `FudanContinue`, `Failed` | the known false NAND signature: the markers, the operator's word, sysupgrade; `FAILED` |
| `WebVerified`, `TurnEnds`, `StopWaiting`, `AnswerNo`, `PermittedCut` | LuCI; advice and prompts; the operator's answers |
| `Rebind`, `Answer`, `TransferEnds`, `TransferBreaks`, `CallTimesOut` | the rescue thread: bind again, a request, the end of a transfer, a board that asks again from another port, 25 s or five silent waits |
| `Board`, `ServicesUp` | any step of the board, between any two of these |

Any look may fail and an open port may be missed, until `serving`.  Elapsed times (3 s,
120 s, 240 s, 30 min) are a free choice of the turn.  `KeptAlive` is the case of
`RescueAnswers` (section 5): the requests of a board that a call does not serve keep
that call from timing out, so nothing is promised then.  A constant, `Holders`, says who
has UDP/69 at the start: nobody, another program for good, or the last call of an
earlier watch, which was stopped but has not returned.

### SlotLayouts and StockAccess: a root shell on the right board

`SlotLayouts` holds the two classifications of `mtd2..mtd5`, one as the PC has it (exact
layouts, then a window around each reference) and one as the launcher has it, as
operators over all sizes.  `Genuine` is the drift the code's comments report.

`StockAccess` is the wizard's way in: web login, model page, Telnet toggle
(`SendToggle`: one POST, done or not, answered or not, repeated without an answer), the
manual fallback, the LAN1 warning, the discovery cycles of `login_root_profile_dynamic`
(`NoShell`, `NoCandidate`, `AllRefused`, `RootFound`) with FTP and Samba switched on in
between, and the two gates.  The board answers truthfully or not at all.  Noticed on
the way: a service whose port opens too late stays on without a notice; a cycle whose
transport failed skips the provisioning, so that Samba may never be tried; "N" at the
LAN1 warning precedes the `try` that logs out, so the web session stays open.

### StockInstall: backup, package, hand-off

`install_openwrt_wizard` from the choice of the mode to the watch.  The PC knows the
board only as the host that answers at one address, so `wired` may change between any
two steps; `gen` counts how often each board has saved its environment, which is all of
a backup's content that the properties tell apart besides the board.  `tmp` and `stick`
hold packages, those of earlier runs included; `got` is the backup, `part` and `attempt`
the place in it; `shell` the board the root session is on, `"lost"` if it died unseen;
`launch` the `--flash` that was sent, with its board and the launcher's place in the script;
`worker` the RAM worker, with its package and the environment of its board when it
began to flash.  Launcher and worker go on by themselves: between the dispatch and
the answer the session may die, the board restart, the environment be saved.

| Action | Code |
|---|---|
| `VerifyKit`, `Start`, `ChooseTransport`, `OpenShare` | the kit, an older backup or a new one, TFTP, Samba or FTP |
| `LoginRoot`, `LiveGate` | `login_root_family`, `_install_live_gate`, up to three times |
| `SetupDump`, `WriteIdentity`, `Mount` | before the first partition |
| `ReadPart`, `PartFails`, `Reopen`, `DumpAborts` | `backup_tftp`: an attempt, its failures, a new login; `backup_to_usb` |
| `Fetch`, `Validate` | the copy to the PC; `verify_backup`, `verify_stock_restore_backup` |
| `Personalize`, `Deploy` | `personalize_transition`; into `/tmp` or onto the stick |
| `Preflight`, `Confirm`, `Rearm` | `run_stage1` up to the dispatch |
| `Send`, `Hear` | `--flash` goes out once; the marker, a refusal, or anything else (a lost session, 900 s), which says nothing of the board and leads to the watch |
| `LauncherChecks`, `LauncherStages`, `LauncherLooks`, `Hangup` | the launcher: its own preflight, staging and spawn, `kill -0` after two seconds; the session ends under it |
| `WorkerChecks`, `WorkerFails`, `WorkerReboots` | the worker: the environment once more, a failing tool, `reboot -f` |
| `Swap`, `SessionLost`, `Reboot`, `SaveEnv` | external |

The launcher's preflight and once more the worker's own check, that the environment
block in the package is the one of the board it runs on, are what makes
`FlashedFromOwnBackup` hold: after an exchange at the confirmation an old package of
the other board may be flashed, but from that board's own earlier backup.  Other
causes for which a validation fails are a free choice to fail; so is what
`receive_tftp_put` returns.  One start of the wizard is modelled: a second `--flash`,
typed by an operator beside it, is `StockLauncher`'s matter (`Overlap`).  Assumed: what the
launcher prints reaches a session that lives.

### ManualImage: the image of a manual migration

`run_custom_stage2`: the PC waits for the transition (`Wait`), has an image chosen, tries
TFTP, SCP and an SSH stream in turn (`Start`, `Sent`, `Rename`, `Verify`; `Skip` and `GiveUp`
to the next), has the board check it, asks and launches the installer.  `file` is what
the `.part` file and the image file hold; `strays` are transports the PC gave up that go
on: writing into a file that may have been unlinked or renamed under them, and doing
a `mv` of their own (`StrayWrites`, `StrayMoves`).  Assumed: a remote command has opened
its `.part` before the PC starts the next transport, and one whose SSH call has ended is
not delivered later.  A lost answer to the launch leaves the wizard "failed" over a
running installer, which `Resume` then refuses to watch.

### XmodemSend and UartRestore: brick recovery

`XmodemSend` is `xmodem_send` and a BootROM that receives as XMODEM-CRC receivers do, over a
line that keeps the order of bytes and loses or damages them.  `late` counts timeouts
that overtook an answer: the spare answer then meets the next block.  With
`MaxLate + 2 <= Modulus` (an assumption: 254 timeouts of 12 s in one transfer) no block
is ever taken for another.  Each late timeout may cost one block at the end of the
file, which is why `SuccessIsDelivery` says `Len(got) + late >= Total`; the SAFE marker gate
(7522-7560) catches a loader that lacks its end.

`UartRestore` is `stock_recovery_wizard` from the preloader to the reset: the scans of bad
blocks before and after the erase, the chunks cut into spans of good blocks, load,
write, readback, the final scan and BL2 last.  The `nand` has a content per eraseblock;
U-Boot's `mtd write` and `mtd read` shift over a bad block they meet, in the same way.
`Wear` makes a block bad at any moment, `noise` loses a line of a listing or of a
message, `Stop` ends a run anywhere with half of an erase or write done, and the
operator may start again.  The two safety properties speak of runs that lost one line
at most (`noise <= 1`): with two, both the message of the write and the line of the last
scan can be lost, and nothing is left that could tell.  The run still explores two.

Definitions marked `(Mutant ...)` are deliberately wrong variants of an action; no
specification uses them.  Put in the place of the action, each makes the property
it was written for fail, which shows that the property depends on the code.

## 4. Runs

| Run | Question | Bounds |
|---|---|---|
| `stock_serial` | Is stage 1 a staged switch, over any reruns, errors and cuts? Does a worker end? | 2 attempts |
| `ubi_serial` | Is stage 2 a staged switch? Is `SAFE_TO_POWER_CYCLE=1` true? Does BL2 come last, the gate before the format, every command to an end? | autoflash and 1 operator, MF gate |
| `ubi_auto` | Does autoflash alone mark only verified migrations complete, and conclude? Does it implement `StageTwoBoard`? | autoflash |
| `tftp_get` | Is what arrives the file, is success delivery, do both loops end? | 4 blocks modulo 2, 2 starts, 3 datagrams, 3 and 2 timeouts |
| `restore_ssh` | Bootloader last, reboot only over a proven flash, no fallback and no write after an unknown one, one-shot recovery boot, back to the menu? | 2 attempts, 3 runs, 1 cut |
| `restore_once` | Is a write pipeline sent once? (No: section 5.) | same |
| `watch` | Are steps true, does the wizard's sysupgrade meet only a new boot chain, does the net catch, is production noticed? | 1 watch, UDP/69 held by the last call of an earlier one |
| `access` | Is nothing enabled in vain, is the board of our family, does the launcher agree? | 2 families, layouts at every border, 3 cycles, 3 sends |
| `install` | Is what is flashed made from the board's own backup, is a worker that lives or may still start watched, does the wizard end? | 2 boards, 1 saved environment, 3 attempts, 2 disturbances |
| `manual` | Is the image kept, does a transfer end? | 2 images, 3 starts, 2 abandoned transports |
| `uart` | BL2 only over a stock image in place, success only over a complete one, restored at last? | 8 blocks, chunks of 3, 2 bad, 2 lost lines per run, 2 upsets |
| `xmodem` | In order, success is delivery, an end? | 5 blocks modulo 4, 3 tries, 2 late |

All hold but `restore_once`.  The type invariant of each module is proved for all constants (section 6) and not run again.

Why the bounds are enough.  *Attempts*: an attempt can be started again without
limit, so two cover every rerun; a third could only repeat what the second does to
the first.  *Operators*: one shell can run every command in every state, again
without limit, and commands do not overlap in these runs.  *TFTP*: modulo 2 is the
hardest modulus, every second block looks like the awaited one; four blocks wrap
twice; two starts are one cut in the middle of a transfer; three datagrams let a
repeated and an old one stand before the awaited one.  The limits `ServerTries` and
`ClientTries` stand for timeout / 5 s on the PC (5 in the rescue, 360 in a restore)
and 12 on the board: only their being finite and reached matters.  *Restore*: two
attempts are one retry of three; three runs are a restore, a restart of the program
or a UART recovery, and another restore that meets what the first left; one cut can
fall into any step.  *Watch*: one watch, of an installation or resumed, since no
variable of the loop outlives a watch.  What an earlier one does leave behind, the last
call of its rescue server, is where the run starts (`Holders`); that call may end before
the watch begins, so a free port is covered.  A port that another program keeps for good
is not run: `NetCatches` excludes it.  The board itself is not bounded.  *Access*: the constants are the code's; the layouts lie on, just
inside and just outside every window.  *Install*: attempts are the code's; two boards
are the board and the other one; two disturbances are, for example, an exchange and
an exchange back, or a saved environment and a lost session.  *Manual*: three
transports are tried in a start, so two of them can be abandoned while the third
runs; three starts let those of an earlier start meet a later image.  *UART*: two
bad blocks can be neighbours or lie in two chunks, inside and outside the mutable
area; a chunk may be cut into two spans; the last chunk is short; two lost lines are
one more than the properties bear.  *XMODEM*: five
blocks wrap modulo four, the smallest modulus that bears two late answers.  The
theorems of section 6 remove the bounds where there is one.

Deadlock is checked, except in the TFTP, restore, watch and XMODEM runs: ended loops,
and menus whose bounded runs are used up, have nothing to do.  The wizards of the
access, install and manual runs end in an explicit `Stop`.

Fairness.  *Stage 1* `WF(Worker(a))`, *stage 2* `WF(Installer(p))`,
`WF(AutoWait \/ AutoCheck)`, `WF(Upgrade)`: processes of a running kernel are
scheduled and the tools they wait for return, which is what the scripts assume
(`rpulse` waits for its tool without a limit).  `WorkerEnds` and `CommandsEnd` therefore say
that a script has no way round in it; they cannot see a tool that hangs.  `WF(Upgrade)`
begins where procd has taken over; that it does is not assumed (`TakeOver`).
*TFTP* `WF(Server)`, `WF(Client)`: both loops run; every action of them is a received
datagram or a socket timeout, which the kernel delivers.  *Restore, install, manual*
`WF(Wizard)`: every SSH command, probe loop and server wait has a time limit, and the
operator answers a prompt; so these properties, too, see a step that is repeated for
ever and not a call that never returns.  In the installation nothing is assumed of
launcher and worker.
*Watch* `WF(Watch)` for the same reason; `WF(Rebind)` and `WF(Answer)`: the rescue thread
runs, and a request that a call waits for reaches it, since a board in its rescue loop
asks once a second; `WF(TransferEnds \/ TransferBreaks)`: a transfer does one or the
other; `WF(CallTimesOut /\ ~KeptAlive)`: a timeout is certain only while nobody keeps
the call alive.  No strong fairness is used, and none on what a look sees: that a
board in `serving` answers every look is a premise of `ProductionIsNoticed`, not an
assumption about boards.
*XMODEM* `WF` on the PC's loop and the BootROM.  *UART* `WF(Progress)`: the wizard goes on,
and an operator with a bricked board starts it again.  Nothing obliges an operator
elsewhere, a foreground launcher, the stock firmware or the power.  No fairness is put
on delivery: the TFTP and XMODEM liveness holds because timeouts are counted, not
because something arrives.

## 5. Known disagreements

`restore_once` is a run: the write pipeline is sent through `_restore_probe_ssh`, which runs
a failed command once more in the other authentication mode.  After a lost channel,
a time-out or a failed `mtd`, a second `mtd write` is started by the program itself,
with SCP while the first may still be writing; only then is the state called
unknown (`data/master.py` 8531-8533 says that no second one may be attempted).

The following properties are stated in the modules, say what a document or a message
of the program says, and do not hold.  Each can be seen by putting the property in the
place of those of the named configuration, with the changes given.

| Property | Where | What happens |
|---|---|---|
| `BootableUntilFormat` | `StockSerial.cfg` | The launcher erases `mtd14` also when `nsb_master` is the slot the stock firmware boots from (545 only warns); a cut before the environment write leaves nothing to boot, although no format has begun (`docs/ARCHITECTURE_EN.md` 121-123). |
| `DeadLauncherLeftNandAlone` | `StockSerial.cfg` | A worker that failed inside its first erase is told to the operator as one that did not start (`data/master.py` 5124-5127). |
| `CleansOnlyFailedAttempts` | `StockSerial.cfg`, `Overlap = TRUE` | A second `--flash` removes the runtime of a worker that is flashing (launcher 706-707). |
| `CompleteMeansVerified` | `UbiSerial.cfg`, `Bl2Gate = FALSE` | A second install in the same boot, after one that failed between `ubimkvol` and BL2, attaches and declares unverified volumes and an old BL2 complete (MD installer 410-416, 355-378). |
| `RescueAnswers` | `TftpGet.cfg`, `Rescues = {TRUE}`, `Faults = FALSE` | Datagrams from another port go round the loops of `serve_tftp_get` without counting as a timeout (3235). A board that restarts during a rescue transfer and asks once a second keeps the call for its old port alive and is never answered (`data/master.py` 5980-5993). With pauses of more than five seconds the rescue goes on. `NetCatches` has this case as its exception. |
| `UnprovenIsLatched` | `RestoreSsh.cfg` | A readback that disagrees or cannot be made raises a plain `Error` (8501-8507); only `WriteStateUnknownError` closes the latch, so the menus offer another write, with an abandoned pipeline possibly still running. |
| `BoardIsLearned` | `Watch.cfg` | "Automatic transition board is learned once SSH comes up in run_stage2" (`data/master.py` 12420): it is not. `resume_stage2_wizard` expects the MD board unless a verified MF one was found at startup, so a watch over a running MF transition finds no strong identity in its own production (6337) and goes on waiting, unless it knows of the reboot and LuCI answers. |
| `AdvisedCutIsSurvivable` | `Watch.cfg` | The permission to cut power rests on the last answer the PC saw; the board goes on while `input()` waits (6542-6552). The advice at 6520-6528 may follow a handoff only guessed, and a rescue port that never was bound. |
| `ResumeWatches` | `Watch.cfg` | `resume_stage2_wizard` raises whenever `_manual_transition_probe` returns a text (12403-12408), which it does for a running automatic flash (`docs/INSTRUCTION_EN.md` 457-458). |
| `TelnetStaysOn` | `Access.cfg` | `request()` repeats a POST whose answer was lost, and the button is a toggle (`data/stock_web.py` 381-401, 707-715). |

## 6. Theorems

Every theorem is proved with TLAPS for all values of the constants that satisfy
the assumption of its module (`ConstantsAssumption`, `AccessAssumption`, ...).  Together
they state every safety and action property the passing runs check.

*Stage 1* (`StockLauncherProofs`).  `TypeCorrect`; `EnvironmentLast` and
`StageOneRefinesSwitch` under `~Overlap`, the discipline of the wizard.  The invariant adds to the property what a worker knows at each step
(`WorkerKnows`: from the re-check on, `mtd14` holds the bundle; from the erase on, the
environment is torn or personal) and that at most one attempt is busy, which is
what makes that knowledge stable.

*Stage 2* (`UbiInstallerProofs`).  `TypeCorrect`; `Bl2WrittenLast`,
`SafeStatesAreSafe` and `StageTwoRefinesSwitch` under `~Overlap`; `GateBeforeFormat` under `Bl2Gate`.  The key strengthening is
`HeaderFirst`: UBI headers are older than everything else stage 2 writes, so a
command past the format knows BL2 is still the old one, and one that finds headers
never formats again.  `CompleteIsTrue` and `StageTwoRefinesBoard` hold of autoflash alone
(`Operators = {}`; with a shell beside it `CompleteMeansVerified` is false, section 5).
Their invariant `AutoInv` says that autoflash never attaches what a failed attempt left:
it begins on a board whose stock region is whole, and over such a one BL2 is the old
one and there are no UBI headers yet; and an upgrade starts only over a chain that is
good.  With it each step of the installer is a step of the board
the PC sees, or a stutter.

*TFTP* (`TftpGetProofs`).  `TypeCorrect`, `BlocksInOrder` and `SuccessMeansDelivery`, for
every file length and modulus greater than 1 and for faults of every pattern, in
both uses.  Comparing block numbers modulo `Wrap` is safe because the two ends stay
abreast: `BoardOrder` and `AckOrder` say that everything in flight since the board's
last start belongs to the two latest places of the server, in order, and `Abreast`
that the client waits for the server's block or the next.  Two neighbours differ
modulo any `Wrap > 1` (`Neighbours`), so equal numbers on the wire are equal blocks.
The argument needs a cable that does not reorder datagrams.  In the rescue use old
datagrams from an earlier call can be older than that, and the proof uses that a
rescue image has fewer blocks than the modulus (`Wire` is exact).

*Restore* (`RestoreOverSshProofs`).  `TypeCorrect`, `BootloaderIsLast`, `RebootIsSafe`,
`FallbackIsBeforeWrite`, `LatchHolds`, `OneShot`.  `OneShot`: once the network part of the
one-boot command has run, the old `bootcmd` is in the environment (`SpentIsRestored`),
whatever power cuts and resets do between its parts; it rests on `saveenv` standing
before the network, and says nothing of a `saveenv` that failed.  The invariant says that an area
somebody writes is `partial` (`StrayIsPartial`, `RunningIsPartial`), so that a readback
that agrees also proves that no abandoned pipeline is at it; that pipelines belong to
three steps of the wizard (`JobsInPipeline`); and what has been read back stays stock
until the restore ends (`IbuFirst`, `BothBefore`).  It assumes that a readback is one
look at the area: a pipeline that rewrites a block already read is seen as `partial`.

*Access* (`WizardProofs`).  `AccessTypes`;  `TablesAgree`: for every four slot sizes, what the PC takes
for a family its launcher accepts as that family; the windows of the two families are
disjoint, and an exact layout lies in its own window (`ExactIsWindow`), so the PC's table
of exact layouts decides nothing the window would not.  From it `LauncherFollows`, and
`FamiliesApart` because the field drift stays inside the window of its own family.
`NoServiceInVain` adds that a service seen to come up leaves a cycle to go.

*Install* (`StockInstallProofs`).  `TypeCorrect`, `OwnBackup`, `WorkerWatched`, for any number of
boards, attempts and disturbances.  The invariant says that every package anywhere, on a
board, on the stick or on the PC, was made from a valid backup (`PackagesSound`), and so
was the one launcher and worker have in hand (`FlashSound`); the worker's own comparison
with the environment of its board then gives `OwnBackup`, without anything said of
sessions or cables.  `WorkerWatched` rests on `HandedOver`: while the launcher has the line
or stages there is no worker yet, it says "failed" only when none lives, and a wizard
that ended in an error has read that refusal or never sent `--flash`.

*Watch* (`WizardProofs`).  `WatchTypes`, `StepsProven`, `SysupgradeIsLast`, for any number
of watches.  What the log, the marker and a running production say of the boot chain
is true when it is said (`Evidence`), and stays true: a new boot chain is never
formatted, since autoflash starts from the stock layout and writes BL2 after the steps
that destroy it (`FormatsBeforeBl2`).  So a step drawn from such evidence may be shown
long after the evidence is gone, and the sysupgrade the operator is asked about meets a
new chain although the board goes on, fails or restarts meanwhile (`CheckedOnce`: the
marker was seen before the prompt, and the chain stays).  That the installer behaves as
the board does here is `StageTwoRefinesBoard`.

*Manual image* (`ManualImageProofs`).  `ImageTypes`, `ImageIsKept`, for any number of images,
starts and abandoned transports.  The invariant: once a transport has started, no abandoned one
has its file open under a name, those that are left write into unlinked files
(`StraysUnlinked`); after the rename there is no `.part` for a late `mv` to take
(`NoPart`); so the image stays what its hash said (`ImageStays`).

*Brick recovery, the restore* (`BrickRecoveryProofs`).  `RestoreTypes`, `DoneIsComplete`,
`Bl2ComesLast`, for every partition, chunk size, mutable area, number of bad blocks and of
runs.  While the restore writes, `OnCourse` holds: either no block holds the data of
another (`Straight`) and all blocks but those still to be written (`Due`) are in place or
bad; or a line has been lost in this run and the bad blocks are no longer those the
wizard knows.  Data is shifted only by a block that went bad since the scan, and the
message of that write then stops the run or is the lost line.  In the second case the
last scan differs from `post` unless it loses a line as well, and that is the second one
(`FinalScanKeeps`).  A readback that agrees proves nothing by itself, since it skips the
same block; in the first case it does (`ReadBackTells`).  That every span lies in good blocks
of its chunk, and that the spans of a chunk cover its good blocks, are lemmas about
`ChunkGoodSpans`, from the least element of a set of naturals (`Least`).

*Brick recovery, XMODEM* (`BrickRecoveryProofs`).  `TransferTypes`, `BlocksInOrder`,
`SentIsDelivered`, for every length of file, number of tries and pattern of loss, damage
and delay.  What is on the line is sorted and lies between the block the board has and
the one the PC is at (`OnTheLine`, `Sorted`, `NotOld`).  The heart is the relation of four
counts: packets and answers on the way are at most those the PC waits for and one for
each late timeout, and behind every packet there are enough others to lead from its
block to the PC's (`Pending`).  So a second acknowledgement for a block the board has can
only arise while the PC is not yet as far ahead as its late timeouts allow, and the PC
is never further ahead (`Ahead`).  Since that is less than the modulus, equal numbers on
the wire are equal blocks (`SameNumber`), and at the end at most `late` blocks are missing.

Only model-checked: the liveness properties (`WorkerEnds`, `CommandsEnd`,
`AutoflashConcludes`, `BothEndsReturn`, `WizardReturns`, `NetCatches`, `ProductionIsNoticed`, `InstallEnds`,
`TransferEnds`, `RestoredAtLast`, `SenderReturns`), which rest on fairness and `ENABLED` and are
out of the prover's reach.

## 7. Not modelled

* *BootROM backup*: reads the NAND through a RAM shell in chunks, each hashed on both
  sides.  It writes nothing, and its attempts and hashes have the shape of those in
  `StockInstall`.
* *Stand-alone rescue server*: a console front end of the loop in `TftpGet`.
* *Diagnostics, payload builders, provenance, console library*: no state a migration
  depends on.
* *`receive_tftp_put`*: only the outcomes of a transfer, not its packets.
* *`state.json`*: written for the operator; it may keep a stale `final_result`, which
  nothing reads.

Inside the modelled parts, what a check reads of files and geometry, hashes as such,
texts, languages and logs are abstracted to the outcomes of their steps.  The boot
loaders, `sysupgrade`, the stock firmware, the cables and the power supply are
external and taken from how the code uses them.
