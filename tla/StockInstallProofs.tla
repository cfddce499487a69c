-------------------------- MODULE StockInstallProofs --------------------------
(* What holds of an installation for any number of boards, of saved          *)
(* environments, of attempts and of disturbances between two steps.          *)
EXTENDS StockInstall, TLAPS

\* A package is known by the backup it was made from, and that backup is whole.
Sound(p) == p # None => Valid(p.backup) /\ p.source = p.backup.mtd0

\* The packages on the boards, on the stick and on the PC, old ones included.
PackagesSound == /\ \A b \in Boards : Sound(tmp[b])
                 /\ Sound(stick) /\ Sound(pkg)

\* So are the one the launcher has checked and the one the worker was given.
FlashSound ==
  /\ launch # None /\ launch.step = "stage" => launch.package # None /\ Sound(launch.package)
  /\ worker # None => worker.package # None /\ Sound(worker.package)

\* Launcher and worker follow each other: the launcher spawns no worker before it
\* looks, and refuses only when none lives; nothing is under way before --flash is
\* sent, and after a refusal nothing is any more.
HandedOver ==
  /\ launch # None /\ launch.step \in {"line", "stage"} => worker = None
  /\ launch # None /\ launch.step = "failed" => ~WorkerAlive
  /\ phase \notin {"sent", "watch", "failed"} => launch = None /\ worker = None
  /\ phase = "failed" => ~WorkerAlive /\ (launch # None => launch.step = "failed")

\* The inductive invariant.
IInv == TypeOK /\ PackagesSound /\ FlashSound /\ FlashedFromOwnBackup /\ HandedOver

\* A whole backup, the package made from it.
LEMMA PackageOfType ==
    ASSUME NEW r \in Backups, Complete(r)
    PROVE  PackageOf(r) \in Packages
BY DEF PackageOf, Packages, Complete

\* A package of an earlier run is one that was made from a backup of its board.
LEMMA OldPackageSound ==
    ASSUME NEW b \in Boards
    PROVE  OldPackage(b) \in Packages /\ Sound(OldPackage(b))
<1> DEFINE r == [mtd0 |-> <<b, 0>>, fixed |-> b, mtd16 |-> <<b, 0>>]
<1>1. <<b, 0>> \in Envs
  BY InstallAssumption DEF InstallAssumption, Envs
<1>2. r \in Backups /\ Valid(r)
  BY <1>1 DEF Backups, Valid, Complete
<1>3. OldPackage(b) = PackageOf(r)
  BY DEF OldPackage
<1>4. PackageOf(r) \in Packages
  BY <1>2, PackageOfType DEF Valid
<1>5. PackageOf(r).source = r.mtd0 /\ PackageOf(r).backup = r
  BY DEF PackageOf
<1> QED
  BY <1>2, <1>3, <1>4, <1>5 DEF Sound

\* The environment of a board is one of Envs.
LEMMA EnvType ==
    ASSUME TypeOK, NEW b \in Boards
    PROVE  EnvOf(b) \in Envs
BY DEF TypeOK, EnvOf, Envs

\* What the launcher runs is a package.
LEMMA PackageAtType ==
    ASSUME TypeOK, NEW b \in Boards
    PROVE  PackageAt(b) \in Packages \cup {None}
BY DEF TypeOK, PackageAt

LEMMA InitInv ==
    ASSUME Init
    PROVE  IInv
<1>1. \A b \in Boards : tmp[b] \in Packages \cup {None} /\ Sound(tmp[b])
  BY OldPackageSound DEF Init, Sound
<1>2. tmp \in [Boards -> Packages \cup {None}]
  <2>1. \E S : tmp \in [Boards -> S]
    BY DEF Init
  <2> QED  BY <1>1, <2>1
<1>3. stick \in Packages \cup {None} /\ Sound(stick)
  BY OldPackageSound DEF Init, Sound
<1>4. Blank \in Backups
  BY DEF Blank, Backups
<1>5. gen \in [Boards -> 0 .. MaxGen] /\ budget \in 0 .. Budget /\ attempt \in 1 .. Attempts
  BY InstallAssumption DEF Init, InstallAssumption
<1>6. TypeOK
  <2>1. part \in 1 .. Len(Parts) /\ phase \in Phases
    BY DEF Init, Parts, Phases
  <2>2. got \in Backups
    BY <1>4 DEF Init
  <2>3. /\ wired \in Boards /\ plug \in Boards \cup {None} /\ ours \in SUBSET Boards
        /\ existing \in BOOLEAN /\ via \in {"tftp", "share", "ftp"}
        /\ shell = None /\ pkg = None /\ launch = None /\ worker = None
    BY DEF Init
  <2> QED
    BY <1>2, <1>3, <1>5, <2>1, <2>2, <2>3 DEF TypeOK
<1>7. PackagesSound
  BY <1>1, <1>3 DEF Init, PackagesSound, Sound
<1> QED
  BY <1>6, <1>7 DEF Init, IInv, FlashedFromOwnBackup, FlashSound, HandedOver, WorkerAlive

\* What a restart takes with it.
LEMMA RebootTypes ==
    ASSUME TypeOK, NEW b \in Boards, Reboot(b)
    PROVE  /\ tmp' \in [Boards -> Packages \cup {None}]
           /\ shell' \in Boards \cup {None, "lost"}
           /\ launch' \in [board : Boards, step : LaunchSteps, package : Packages \cup {None}] \cup {None}
           /\ worker' \in [board : Boards, step : WorkerSteps, package : Packages \cup {None},
                          env : Envs \cup {None}] \cup {None}
<1>1. launch' \in {launch, None}
  BY DEF Reboot
<1>2. worker' \in [board : Boards, step : WorkerSteps, package : Packages \cup {None},
                  env : Envs \cup {None}] \cup {None}
  BY DEF Reboot, TypeOK, WorkerAlive, WorkerSteps, Step
<1>3. tmp' \in [Boards -> Packages \cup {None}] /\ shell' \in {shell, "lost"}
  BY DEF Reboot, TypeOK
<1> QED
  BY <1>1, <1>2, <1>3 DEF TypeOK

LEMMA WorkerRebootIsReboot ==
    ASSUME TypeOK, WorkerReboots
    PROVE  \E b \in Boards : Reboot(b)
BY DEF WorkerReboots, TypeOK

\* Every step keeps the types.
LEMMA TypeStep ==
    ASSUME TypeOK, [Next]_vars
    PROVE  TypeOK'
<1> USE InstallAssumption DEF InstallAssumption
<1>1. CASE VerifyKit
  BY <1>1, SMTT(30) DEF VerifyKit, TypeOK, flash, bench, held, session, backup, Phases, Fail, Goto
<1>2. CASE Start
  <2>1. got' \in Backups
    BY <1>2 DEF Start, TypeOK
  <2>2. existing' \in BOOLEAN /\ phase' \in Phases /\ shell' \in {shell, None}
    BY <1>2 DEF Start, TypeOK, Phases, Fail, Goto
  <2> QED
    BY <1>2, <2>1, <2>2 DEF Start, TypeOK, flash, bench, held
<1>3. CASE ChooseTransport
  BY <1>3, SMTT(30) DEF ChooseTransport, TypeOK, flash, bench, held, session, backup, Phases, Fail, Goto, AfterTransport
<1>4. CASE OpenShare
  BY <1>4, SMTT(30) DEF OpenShare, TypeOK, flash, bench, held, session, backup, Phases, Fail, Goto, AfterTransport
<1>5. CASE LoginRoot
  BY <1>5, SMTT(30) DEF LoginRoot, TypeOK, flash, bench, held, session, backup, Phases, Opened, Fail, Goto
<1>6. CASE LiveGate
  BY <1>6, SMTT(30) DEF LiveGate, TypeOK, flash, bench, held, session, backup, Phases, AfterGate, Fail, Goto
<1>7. CASE SetupDump
  BY <1>7, SMTT(30) DEF SetupDump, TypeOK, flash, bench, held, session, backup, Phases, Fail, Goto
<1>8. CASE WriteIdentity
  BY <1>8, SMTT(30) DEF WriteIdentity, TypeOK, flash, bench, held, session, backup, Phases, Fail, Goto
<1>9. CASE Mount
  BY <1>9, SMTT(30) DEF Mount, TypeOK, flash, bench, held, session, backup, Phases, Fail, Goto
<1>10. CASE ReadPart
  <2>1. Content("mtd0") \in Envs /\ Content("mtd16") \in Envs /\ Content("fixed") \in Boards
    BY EnvType DEF Content, TypeOK
  <2>2. got' \in Backups
    <3>1. Parts[part] \in {"mtd0", "fixed", "mtd16"}
      BY DEF TypeOK, Parts
    <3>2. CASE Parts[part] = "mtd0"
      BY <1>10, <2>1, <3>2 DEF ReadPart, TypeOK, Backups
    <3>3. CASE Parts[part] = "fixed"
      BY <1>10, <2>1, <3>3 DEF ReadPart, TypeOK, Backups
    <3>4. CASE Parts[part] = "mtd16"
      BY <1>10, <2>1, <3>4 DEF ReadPart, TypeOK, Backups
    <3> QED  BY <3>1, <3>2, <3>3, <3>4
  <2>3. part' \in 1 .. Len(Parts) /\ attempt' \in 1 .. Attempts /\ phase' \in Phases
    BY <1>10 DEF ReadPart, NextPart, Goto, TypeOK, Parts, Phases
  <2> QED
    BY <1>10, <2>2, <2>3 DEF ReadPart, TypeOK, flash, bench, held, session
<1>11. CASE PartFails
  BY <1>11, SMTT(30) DEF PartFails, TypeOK, flash, bench, held, session, backup, Phases, Fail, Goto
<1>12. CASE Reopen
  BY <1>12, SMTT(30) DEF Reopen, TypeOK, flash, bench, held, session, backup, Phases, Opened, Fail, Goto
<1>13. CASE DumpAborts
  BY <1>13, SMTT(30) DEF DumpAborts, TypeOK, flash, bench, held, session, backup, Phases, Fail, Goto
<1>14. CASE Fetch
  BY <1>14, SMTT(30) DEF Fetch, TypeOK, flash, bench, held, session, backup, Phases, Fail, Goto
<1>15. CASE Validate
  BY <1>15, SMTT(30) DEF Validate, TypeOK, flash, bench, held, session, backup, Phases, Fail, Goto
<1>16. CASE Personalize
  <2>1. pkg' \in Packages \cup {None}
    BY <1>16, PackageOfType DEF Personalize, ValidForInstall, Valid, TypeOK
  <2> QED
    BY <1>16, <2>1, SMTT(30) DEF Personalize, TypeOK, flash, bench, held, session, backup, Phases, Fail, Goto
<1>17. CASE Deploy
  BY <1>17, SMTT(30) DEF Deploy, TypeOK, flash, bench, held, session, backup, Phases, DeployTftp, DeployUsb, Fail, Goto
<1>18. CASE Preflight
  BY <1>18, SMTT(30) DEF Preflight, TypeOK, flash, bench, held, session, backup, Phases, Fail, Goto
<1>19. CASE Confirm
  BY <1>19, SMTT(30) DEF Confirm, TypeOK, flash, bench, held, session, backup, Phases, Fail, Goto
<1>20. CASE Rearm
  BY <1>20, SMTT(30) DEF Rearm, TypeOK, flash, bench, held, session, backup, Phases, Opened, Fail, Goto
<1>21. CASE Send
  <2>1. launch' \in [board : Boards, step : LaunchSteps, package : Packages \cup {None}] \cup {None}
    BY <1>21 DEF Send, LaunchSteps
  <2> QED
    BY <1>21, <2>1 DEF Send, TypeOK, bench, held, session, backup, Phases, Goto
<1>22. CASE Hear
  BY <1>22, SMTT(30) DEF Hear, HearStarted, HearRefusal, TypeOK, flash, bench, held, session, backup, Phases, Fail, Goto
<1>23. CASE OnBoard
  <2>1. /\ launch' \in [board : Boards, step : LaunchSteps, package : Packages \cup {None}] \cup {None}
        /\ worker' \in [board : Boards, step : WorkerSteps, package : Packages \cup {None},
                       env : Envs \cup {None}] \cup {None}
    <3>1. CASE LauncherChecks
      <4>1. launch.board \in Boards
        BY <3>1 DEF LauncherChecks, TypeOK
      <4>2. PackageAt(launch.board) \in Packages \cup {None}
        BY <4>1, PackageAtType
      <4> QED
        BY <3>1, <4>2 DEF LauncherChecks, TypeOK, LaunchSteps, Step
    <3>2. CASE LauncherStages
      <4>1. launch.board \in Boards /\ launch.package \in Packages \cup {None}
        BY <3>2 DEF LauncherStages, TypeOK
      <4>2. launch' \in [board : Boards, step : LaunchSteps, package : Packages \cup {None}]
        BY <3>2 DEF LauncherStages, TypeOK, LaunchSteps, Step
      <4> QED
        BY <3>2, <4>1, <4>2 DEF LauncherStages, TypeOK, WorkerSteps
    <3>3. CASE LauncherLooks
      BY <3>3 DEF LauncherLooks, TypeOK, LaunchSteps, Step
    <3>4. CASE Hangup
      BY <3>4 DEF Hangup, TypeOK
    <3>5. CASE WorkerChecks
      <4>1. EnvOf(worker.board) \in Envs
        BY <3>5, EnvType DEF WorkerChecks, TypeOK
      <4> QED
        BY <3>5, <4>1 DEF WorkerChecks, TypeOK, WorkerSteps, Step
    <3>6. CASE WorkerFails
      BY <3>6 DEF WorkerFails, TypeOK, WorkerSteps, Step
    <3>7. CASE WorkerReboots
      BY <3>7, RebootTypes, WorkerRebootIsReboot
    <3> QED
      BY <1>23, <3>1, <3>2, <3>3, <3>4, <3>5, <3>6, <3>7 DEF OnBoard
  <2>2. CASE WorkerReboots /\ UNCHANGED <<ours, budget, stick, session, backup, phase, pkg>>
    <3>1. tmp' \in [Boards -> Packages \cup {None}] /\ shell' \in Boards \cup {None, "lost"}
      BY <2>2, RebootTypes, WorkerRebootIsReboot
    <3>2. UNCHANGED <<wired, plug, gen>>
      BY <2>2 DEF WorkerReboots, Reboot
    <3> QED
      BY <2>1, <2>2, <3>1, <3>2 DEF TypeOK, session, backup
  <2> QED
    BY <1>23, <2>1, <2>2 DEF OnBoard, TypeOK, bench, held, session, backup
<1>24. CASE Disturb
  <2>1. CASE Swap
    BY <1>24, <2>1 DEF Disturb, Swap, TypeOK, flash, session, backup
  <2>2. CASE SessionLost
    BY <1>24, <2>2 DEF Disturb, SessionLost, TypeOK, flash, session, backup
  <2>3. CASE \E b \in Boards : Reboot(b)
    <3> PICK b \in Boards : Reboot(b)
      BY <2>3
    <3>1. /\ tmp' \in [Boards -> Packages \cup {None}] /\ shell' \in Boards \cup {None, "lost"}
          /\ launch' \in [board : Boards, step : LaunchSteps, package : Packages \cup {None}] \cup {None}
          /\ worker' \in [board : Boards, step : WorkerSteps, package : Packages \cup {None},
                         env : Envs \cup {None}] \cup {None}
      BY RebootTypes
    <3>2. UNCHANGED <<wired, plug, gen>>
      BY DEF Reboot
    <3>3. budget' \in 0 .. Budget
      BY <1>24 DEF Disturb, TypeOK
    <3> QED
      BY <1>24, <3>1, <3>2, <3>3 DEF Disturb, TypeOK, session, backup
  <2>4. CASE \E b \in Boards : SaveEnv(b)
    BY <1>24, <2>4, SMTT(30) DEF Disturb, SaveEnv, TypeOK, flash, session, backup
  <2> QED  BY <1>24, <2>1, <2>2, <2>3, <2>4 DEF Disturb
<1>25. CASE UNCHANGED vars
  BY <1>25 DEF vars, TypeOK, flash, bench, held, session, backup
<1> QED
  BY <1>1, <1>2, <1>3, <1>4, <1>5, <1>6, <1>7, <1>8, <1>9, <1>10, <1>11, <1>12, <1>13, <1>14, <1>15, <1>16, <1>17, <1>18, <1>19, <1>20, <1>21, <1>22, <1>23, <1>24, <1>25 DEF Next, Wizard, Stop

\* A package goes from the PC to the boards and the stick as it is.
LEMMA PackageStep ==
    ASSUME TypeOK, PackagesSound, [Next]_vars
    PROVE  PackagesSound'
<1>1. CASE Personalize
  <2>1. Sound(pkg')
    BY <1>1 DEF Personalize, ValidForInstall, PackageOf, Sound, PackagesSound
  <2> QED
    BY <1>1, <2>1 DEF Personalize, PackagesSound, bench, held, Sound
<1>2. CASE Deploy
  <2>1. tmp' \in {tmp, [tmp EXCEPT ![wired] = pkg], [tmp EXCEPT ![wired] = None]}
    BY <1>2 DEF Deploy, DeployTftp, DeployUsb
  <2>2. stick' \in {stick, None, pkg} /\ pkg' = pkg
    BY <1>2 DEF Deploy, DeployTftp, DeployUsb
  <2>3. \A b \in Boards : tmp'[b] \in {tmp[b], pkg, None}
    BY <2>1 DEF TypeOK
  <2> QED
    BY <2>2, <2>3 DEF PackagesSound, Sound
<1>3. CASE Disturb \/ OnBoard
  <2>1. \A b \in Boards : tmp'[b] \in {tmp[b], None}
    BY <1>3 DEF Disturb, Swap, SessionLost, SaveEnv, OnBoard, WorkerReboots, Reboot, TypeOK, held
  <2>2. UNCHANGED <<stick, pkg>>
    BY <1>3 DEF Disturb, OnBoard, held
  <2> QED
    BY <2>1, <2>2 DEF PackagesSound, Sound
<1>4. CASE UNCHANGED <<tmp, stick, pkg>>
  BY <1>4 DEF PackagesSound, Sound
<1>5. [Next]_vars => Personalize \/ Deploy \/ Disturb \/ OnBoard \/ UNCHANGED <<tmp, stick, pkg>>
  BY DEF Next, Wizard, Stop, vars, held, VerifyKit, Start, ChooseTransport, OpenShare, LoginRoot, LiveGate, SetupDump, WriteIdentity, Mount, ReadPart, PartFails, Reopen, DumpAborts, Fetch, Validate, Preflight, Confirm, Rearm, Send, Hear
<1> QED
  BY <1>1, <1>2, <1>3, <1>4, <1>5

\* The package of launcher and worker is one that lay on the board.
LEMMA FlashStep ==
    ASSUME TypeOK, PackagesSound, FlashSound, [Next]_vars
    PROVE  FlashSound'
<1>1. CASE Send
  BY <1>1 DEF Send, FlashSound, Sound
<1>2. CASE LauncherChecks
  <2>1. Sound(PackageAt(launch.board))
    BY <1>2 DEF LauncherChecks, TypeOK, PackagesSound, PackageAt, Sound
  <2> QED
    BY <1>2, <2>1 DEF LauncherChecks, PreflightOk, FlashSound, TypeOK, Step, Sound
<1>3. CASE LauncherStages
  BY <1>3 DEF LauncherStages, FlashSound, TypeOK, Step, Sound
<1>4. CASE LauncherLooks \/ Hangup
  BY <1>4 DEF LauncherLooks, Hangup, FlashSound, TypeOK, Step, Sound
<1>5. CASE WorkerChecks \/ WorkerFails
  BY <1>5 DEF WorkerChecks, WorkerFails, FlashSound, TypeOK, Step, Sound
<1>6. CASE \E b \in Boards : Reboot(b)
  BY <1>6 DEF Reboot, FlashSound, TypeOK, WorkerAlive, Step, Sound
<1>7. CASE UNCHANGED flash
  BY <1>7 DEF flash, FlashSound, Sound
<1>8. Wizard => Send \/ UNCHANGED flash
  BY DEF Wizard, VerifyKit, Start, ChooseTransport, OpenShare, LoginRoot, LiveGate, SetupDump, WriteIdentity, Mount, ReadPart, PartFails, Reopen, DumpAborts, Fetch, Validate, Personalize, Deploy, Preflight, Confirm, Rearm, Hear
<1>9. Disturb => (\E b \in Boards : Reboot(b)) \/ UNCHANGED flash
  BY DEF Disturb, Swap, SessionLost, SaveEnv
<1>10. Stop \/ UNCHANGED vars => UNCHANGED flash
  BY DEF Stop, vars
<1> QED
  BY <1>1, <1>2, <1>3, <1>4, <1>5, <1>6, <1>7, <1>8, <1>9, <1>10, WorkerRebootIsReboot DEF Next, OnBoard

\* The worker compares the package with the board once more when it begins: this
\* is what makes the many checks before it superfluous for safety.
LEMMA WorkerStep ==
    ASSUME TypeOK, FlashSound, FlashedFromOwnBackup, [Next]_vars
    PROVE  FlashedFromOwnBackup'
<1>1. CASE WorkerChecks
  <2>1. CASE worker' = Step(worker, "refused")
    BY <2>1, <1>1 DEF FlashedFromOwnBackup, WorkerChecks, TypeOK, Step
  <2>2. CASE /\ worker.package.source = EnvOf(worker.board)
             /\ worker' = [Step(worker, "flashing") EXCEPT !.env = EnvOf(worker.board)]
    <3> DEFINE b == worker.board
               r == worker.package.backup
    <3>1. worker # None /\ worker.package # None
      BY <1>1 DEF WorkerChecks, FlashSound
    <3>2. Valid(r) /\ r.mtd0 = EnvOf(b)
      BY <2>2, <3>1 DEF FlashSound, Sound
    <3>3. r.mtd16 = EnvOf(b) /\ r.fixed = EnvOf(b)[1]
      BY <3>2 DEF Valid
    <3>4. EnvOf(b)[1] = b
      BY DEF EnvOf
    <3>5. worker'.board = b /\ worker'.env = EnvOf(b) /\ worker'.package.backup = r
      BY <1>1, <2>2 DEF WorkerChecks, TypeOK, Step
    <3> QED
      BY <3>2, <3>3, <3>4, <3>5 DEF FlashedFromOwnBackup
  <2> QED
    BY <1>1, <2>1, <2>2 DEF WorkerChecks
<1>2. CASE LauncherStages
  BY <1>2 DEF LauncherStages, FlashedFromOwnBackup
<1>3. CASE WorkerFails
  BY <1>3 DEF WorkerFails, FlashedFromOwnBackup, TypeOK, Step
<1>4. CASE \E b \in Boards : Reboot(b)
  BY <1>4 DEF Reboot, FlashedFromOwnBackup, TypeOK, WorkerAlive, Step
<1>5. CASE UNCHANGED worker
  BY <1>5 DEF FlashedFromOwnBackup
<1>6. Wizard => UNCHANGED worker
  BY DEF Wizard, flash, VerifyKit, Start, ChooseTransport, OpenShare, LoginRoot, LiveGate, SetupDump, WriteIdentity, Mount, ReadPart, PartFails, Reopen, DumpAborts, Fetch, Validate, Personalize, Deploy, Preflight, Confirm, Rearm, Send, Hear
<1>7. OnBoard => \/ WorkerChecks \/ LauncherStages \/ WorkerFails \/ UNCHANGED worker
                 \/ \E b \in Boards : Reboot(b)
  BY WorkerRebootIsReboot DEF OnBoard, LauncherChecks, LauncherLooks, Hangup
<1>8. Disturb => (\E b \in Boards : Reboot(b)) \/ UNCHANGED worker
  BY DEF Disturb, Swap, SessionLost, SaveEnv, flash
<1>9. Stop \/ UNCHANGED vars => UNCHANGED worker
  BY DEF Stop, vars, flash
<1> QED
  BY <1>1, <1>2, <1>3, <1>4, <1>5, <1>6, <1>7, <1>8, <1>9 DEF Next

\* The wizard calls an installation failed only before --flash is sent, or when the
\* launcher itself has said so: a launcher that spawned a worker says so only of one
\* that is dead.
LEMMA HandoverStep ==
    ASSUME TypeOK, HandedOver, [Next]_vars
    PROVE  HandedOver'
<1> USE DEF HandedOver, WorkerAlive
<1>1. CASE Send
  BY <1>1 DEF Send, Goto
<1>2. CASE Hear
  BY <1>2 DEF Hear, HearStarted, HearRefusal, Fail, Goto, flash
<1>3. CASE LauncherChecks /\ phase' = phase
  BY <1>3 DEF LauncherChecks, TypeOK, Step
<1>4. CASE LauncherStages /\ phase' = phase
  BY <1>4 DEF LauncherStages, TypeOK, Step
<1>5. CASE LauncherLooks /\ phase' = phase
  BY <1>5 DEF LauncherLooks, TypeOK, Step
<1>6. CASE Hangup /\ phase' = phase
  BY <1>6 DEF Hangup
<1>7. CASE (WorkerChecks \/ WorkerFails) /\ phase' = phase
  BY <1>7 DEF WorkerChecks, WorkerFails, TypeOK, Step
<1>8. CASE (\E b \in Boards : Reboot(b)) /\ phase' = phase
  BY <1>8 DEF Reboot, TypeOK, Step
<1>9. CASE UNCHANGED <<flash, phase>>
  BY <1>9 DEF flash
<1>10. Wizard => Send \/ Hear \/ (phase \notin {"sent", "watch", "failed"} /\ UNCHANGED flash)
  <2>1. VerifyKit \/ Start \/ ChooseTransport \/ OpenShare \/ LoginRoot \/ LiveGate
           => phase \notin {"sent", "watch", "failed"} /\ UNCHANGED flash
    BY DEF VerifyKit, Start, ChooseTransport, OpenShare, LoginRoot, LiveGate
  <2>2. SetupDump \/ WriteIdentity \/ Mount \/ ReadPart \/ PartFails \/ Reopen \/ DumpAborts
           => phase \notin {"sent", "watch", "failed"} /\ UNCHANGED flash
    BY DEF SetupDump, WriteIdentity, Mount, ReadPart, PartFails, Reopen, DumpAborts
  <2>3. Fetch \/ Validate \/ Personalize \/ Deploy \/ Preflight \/ Confirm \/ Rearm
           => phase \notin {"sent", "watch", "failed"} /\ UNCHANGED flash
    BY DEF Fetch, Validate, Personalize, Deploy, Preflight, Confirm, Rearm
  <2> QED  BY <2>1, <2>2, <2>3 DEF Wizard
<1>11. CASE phase \notin {"sent", "watch", "failed"} /\ UNCHANGED flash
  BY <1>11 DEF flash
<1>12. Disturb => \/ (\E b \in Boards : Reboot(b)) /\ phase' = phase
                  \/ UNCHANGED <<flash, phase>>
  BY DEF Disturb, Swap, SessionLost, SaveEnv
<1>13. Stop \/ UNCHANGED vars => UNCHANGED <<flash, phase>>
  BY DEF Stop, vars
<1>14. OnBoard => \/ LauncherChecks /\ phase' = phase
                  \/ LauncherStages /\ phase' = phase
                  \/ LauncherLooks /\ phase' = phase
                  \/ Hangup /\ phase' = phase
                  \/ (WorkerChecks \/ WorkerFails) /\ phase' = phase
                  \/ (\E b \in Boards : Reboot(b)) /\ phase' = phase
  BY WorkerRebootIsReboot DEF OnBoard
<1> QED
  BY <1>1, <1>2, <1>3, <1>4, <1>5, <1>6, <1>7, <1>8, <1>9, <1>10, <1>11, <1>12, <1>13, <1>14 DEF Next

\* The invariant holds always.
LEMMA Invariance == Spec => []IInv
<1>1. Init => IInv
  BY InitInv
<1>2. IInv /\ [Next]_vars => IInv'
  BY TypeStep, PackageStep, FlashStep, WorkerStep, HandoverStep DEF IInv
<1> QED
  BY <1>1, <1>2, PTL DEF Spec

\* Every variable of the installation keeps its type.
THEOREM TypeCorrect == Spec => []TypeOK
BY Invariance, PTL DEF IInv

\* Whatever happens to cable, stick, session and environment between two steps,
\* also under the launcher's hands, a worker flashes only with the package of a backup
\* of its own board.
THEOREM OwnBackup == Spec => []FlashedFromOwnBackup
BY Invariance, PTL DEF IInv

\* Whatever ends the session and whenever, a worker that may be writing, or may still
\* be started, is watched.
THEOREM WorkerWatched == Spec => []AliveWorkerIsWatched
<1>1. IInv => AliveWorkerIsWatched
  BY DEF IInv, HandedOver, AliveWorkerIsWatched, WorkerAlive, MayStart
<1> QED
  BY <1>1, Invariance, PTL
=============================================================================
