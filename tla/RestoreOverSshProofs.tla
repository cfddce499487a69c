------------------------ MODULE RestoreOverSshProofs ------------------------
(***************************************************************************)
(* What holds of the restore over SSH and of the latch for every number of *)
(* attempts, of runs of the wizard, of restarts and of losses of power.    *)
(***************************************************************************)
EXTENDS RestoreOverSsh, TLAPS

Stock(t) == nand[t] = "stock"

\* An area somebody writes is not what anybody wants it to be.
StrayIsPartial == \A t \in stray : nand[t] = "partial"
RunningIsPartial == (\E k \in Tries : job[k] = "running") => nand[target] = "partial"

\* Pipelines belong to the steps that send them, wait for them and read back.
JobsInPipeline == pc \notin {"ssh", "wait", "verify"} => job = NoJob

\* The order of the restore.
IbuFirst ==
    target = "bl2" /\ pc \in {"transfer", "ssh", "wait", "verify"} => Stock("ibu")
BothBefore == pc \in {"allflash", "bye"} => Stock("ibu") /\ Stock("bl2")

\* A payload starts with the chosen transport.
OnwardsOnly == pc \in {"transfer", "ssh", "wait", "verify"} => from <= cand

LatchedAtMenu == latch => pc = "menu"

\* The one-boot command goes to the network only over the bootcmd it has saved.
SpentIsRestored == spent => bootcmd = "normal"

\* The inductive invariant.
IInv ==
    /\ TypeOK
    /\ StrayIsPartial
    /\ RunningIsPartial
    /\ JobsInPipeline
    /\ IbuFirst
    /\ BothBefore
    /\ OnwardsOnly
    /\ LatchedAtMenu
    /\ SpentIsRestored

\* Every step keeps the types.
LEMMA TypeStep ==
    ASSUME TypeOK, [Next]_vars
    PROVE  TypeOK'
<1> USE ConstantsAssumption DEF ConstantsAssumption, TypeOK, wizard, board, env, bounds,
   NoJob
<1>1. CASE Detect
  BY <1>1, SMTT(30) DEF Detect
<1>2. CASE Arm
  <2>1. bootcmd' \in {"normal", "armed"} /\ spent' \in BOOLEAN
    BY <1>2 DEF Arm
  <2>2. latch' \in BOOLEAN
    BY <1>2 DEF Arm
  <2>3. CASE BackToMenu
    BY <1>2, <2>1, <2>2, <2>3, SMTT(30) DEF Arm, BackToMenu
  <2>4. CASE pc' = "reboot" /\ UNCHANGED <<wizard, job, stray, nand, system, bounds>>
    BY <1>2, <2>1, <2>2, <2>4, SMTT(30) DEF Arm
  <2> QED
    BY <1>2, <2>3, <2>4 DEF Arm
<1>3. CASE RebootToRecovery
  BY <1>3, SMTT(30) DEF RebootToRecovery, Reboots, Boots
<1>4. CASE RecoveryUp
  BY <1>4, SMTT(30) DEF RecoveryUp
<1>5. CASE TryAgain
  BY <1>5, SMTT(30) DEF TryAgain
<1>6. CASE Preflight
  BY <1>6, SMTT(30) DEF Preflight
<1>7. CASE Confirm
  BY <1>7, SMTT(30) DEF Confirm, Targets
<1>8. CASE GiveUp
  BY <1>8, SMTT(30) DEF GiveUp, BackToMenu
<1>9. CASE PrewriteFails
  BY <1>9, SMTT(30) DEF PrewriteFails, BackToMenu, Transports, Scp
<1>10. CASE Issue
  BY <1>10, SMTT(30) DEF Issue, Tries
<1>11. CASE Reach
  BY <1>11, SMTT(30) DEF Reach, Fed
<1>12. CASE SshError
  <2>1. CASE /\ try = 1 /\ try' = 2 /\ pc' = "ssh"
              /\ UNCHANGED <<latch, attempt, from, cand, target, unproven, job,
                             board, bounds>>
    BY <1>12, <2>1 DEF Tries
  <2>2. CASE WriteUnknown
    <3>1. latch' \in BOOLEAN
      BY <2>2 DEF WriteUnknown
    <3> QED
      BY <2>2, <3>1 DEF WriteUnknown, BackToMenu
  <2> QED
    BY <1>12, <2>1, <2>2 DEF SshError
<1>13. CASE WriteDone
  BY <1>13, SMTT(30) DEF WriteDone
<1>14. CASE ServerFailed
  BY <1>14, SMTT(30) DEF ServerFailed, BackToMenu, WriteUnknown
<1>15. CASE Verify
  BY <1>15, SMTT(30) DEF Verify, ReadsBack, Targets
<1>16. CASE AllFlash
  BY <1>16, SMTT(30) DEF AllFlash, ReadsBack
<1>17. CASE VerifyFails
  BY <1>17, SMTT(30) DEF VerifyFails, BackToMenu
<1>18. CASE Bye
  BY <1>18, SMTT(30) DEF Bye, Reboots, Boots
<1>19. CASE ChooseRestore
  BY <1>19, SMTT(30) DEF ChooseRestore
<1>20. CASE UartRecovers
  <2>1. latch' \in BOOLEAN
    BY <1>20 DEF UartRecovers
  <2>2. runs' \in 0..Runs
    BY <1>20 DEF UartRecovers
  <2>3. stray' \subseteq Targets /\ unproven' \subseteq Targets
    BY <1>20 DEF UartRecovers
  <2>4. nand' \in [Targets -> {"openwrt", "partial", "stock"}]
    BY <1>20 DEF UartRecovers
  <2> QED
    BY <1>20, <2>1, <2>2, <2>3, <2>4 DEF UartRecovers
<1>21. CASE UartFails
  BY <1>21, SMTT(30) DEF UartFails, Targets
<1>22. CASE RestartProgram
  <2>1. latch' \in BOOLEAN
    BY <1>22 DEF RestartProgram
  <2>2. runs' \in 0..Runs
    BY <1>22 DEF RestartProgram
  <2>3. stray' \subseteq Targets /\ unproven' \subseteq Targets
    BY <1>22 DEF RestartProgram
  <2>4. job' \in [Tries -> {"none", "running", "ok", "failed", "starved"}]
    BY <1>22 DEF RestartProgram
  <2> QED
    BY <1>22, <2>1, <2>2, <2>3, <2>4 DEF RestartProgram
<1>23. CASE PowerCut
  BY <1>23, SMTT(30) DEF PowerCut, Reboots, Boots, Killed
<1>24. CASE JobEnds
  BY <1>24, SMTT(30) DEF JobEnds, Shared
<1>25. CASE StrayEnds
  BY <1>25, SMTT(30) DEF StrayEnds
<1>26. CASE NormalBoot
  BY <1>26, SMTT(30) DEF NormalBoot, BootUbi
<1>27. CASE SaveNormalBootcmd
  <2>1. bootcmd' \in {"normal", "armed"}
    BY <1>27 DEF SaveNormalBootcmd
  <2>2. spent' \in BOOLEAN
    BY <1>27 DEF SaveNormalBootcmd
  <2>3. latch' \in BOOLEAN
    BY <1>27 DEF SaveNormalBootcmd
  <2> QED
    BY <1>27, <2>1, <2>2, <2>3, SMTT(30) DEF SaveNormalBootcmd
<1>28. CASE NetworkBoot
  BY <1>28, SMTT(30) DEF NetworkBoot, BootUbi
<1>29. CASE UNCHANGED vars
  BY <1>29, SMTT(30) DEF vars
<1>q. QED
  BY <1>1, <1>2, <1>3, <1>4, <1>5, <1>6, <1>7, <1>8, <1>9, <1>10, <1>11, <1>12,
     <1>13, <1>14, <1>15, <1>16, <1>17, <1>18, <1>19, <1>20, <1>21, <1>22, <1>23,
     <1>24, <1>25, <1>26, <1>27, <1>28, <1>29 DEF Next, Wizard, Environment

\* Every step keeps the rest of the invariant.
LEMMA OrderStep ==
    ASSUME IInv, TypeOK', [Next]_vars
    PROVE  /\ StrayIsPartial'
           /\ RunningIsPartial'
           /\ JobsInPipeline'
           /\ IbuFirst'
           /\ BothBefore'
           /\ OnwardsOnly'
           /\ LatchedAtMenu'
           /\ SpentIsRestored'
<1> USE ConstantsAssumption DEF ConstantsAssumption, IInv, TypeOK, wizard, board,
   env, bounds, Targets, Transports, Scp, Tries, NoJob, Stock,
          StrayIsPartial, RunningIsPartial, JobsInPipeline, IbuFirst,
             BothBefore, OnwardsOnly, LatchedAtMenu, SpentIsRestored
<1>1. CASE Detect
  BY <1>1, SMTT(30) DEF Detect
<1>2. CASE Arm
  BY <1>2, SMTT(30) DEF Arm, BackToMenu
<1>3. CASE RebootToRecovery
  BY <1>3, SMTT(30) DEF RebootToRecovery, Reboots, Boots
<1>4. CASE RecoveryUp
  BY <1>4, SMTT(30) DEF RecoveryUp
<1>5. CASE TryAgain
  BY <1>5, SMTT(30) DEF TryAgain
<1>6. CASE Preflight
  BY <1>6, SMTT(30) DEF Preflight
<1>7. CASE Confirm
  BY <1>7, SMTT(30) DEF Confirm
<1>8. CASE GiveUp
  BY <1>8, SMTT(30) DEF GiveUp, BackToMenu
<1>9. CASE PrewriteFails
  BY <1>9, SMTT(30) DEF PrewriteFails, BackToMenu
<1>10. CASE Issue
  BY <1>10, SMTT(30) DEF Issue
<1>11. CASE Reach
  BY <1>11, SMTT(30) DEF Reach, Fed
<1>12. CASE SshError
  BY <1>12, SMTT(30) DEF SshError, BackToMenu, WriteUnknown
<1>13. CASE WriteDone
  BY <1>13, SMTT(30) DEF WriteDone
<1>14. CASE ServerFailed
  BY <1>14, SMTT(30) DEF ServerFailed, BackToMenu, WriteUnknown
<1>15. CASE Verify
  BY <1>15, SMTT(30) DEF Verify, ReadsBack
<1>16. CASE AllFlash
  BY <1>16, SMTT(30) DEF AllFlash, ReadsBack
<1>17. CASE VerifyFails
  BY <1>17, SMTT(30) DEF VerifyFails, BackToMenu
<1>18. CASE Bye
  BY <1>18, SMTT(30) DEF Bye, Reboots, Boots
<1>19. CASE ChooseRestore
  BY <1>19, SMTT(30) DEF ChooseRestore
<1>20. CASE UartRecovers
  BY <1>20, SMTT(30) DEF UartRecovers
<1>21. CASE UartFails
  BY <1>21, SMTT(30) DEF UartFails
<1>22. CASE RestartProgram
  BY <1>22, SMTT(30) DEF RestartProgram
<1>23. CASE PowerCut
  BY <1>23, SMTT(30) DEF PowerCut, Reboots, Boots, Killed
<1>24. CASE JobEnds
  BY <1>24, SMTT(30) DEF JobEnds, Shared
<1>25. CASE StrayEnds
  BY <1>25, SMTT(30) DEF StrayEnds
<1>26. CASE NormalBoot
  BY <1>26, SMTT(30) DEF NormalBoot, BootUbi
<1>27. CASE SaveNormalBootcmd
  BY <1>27, SMTT(30) DEF SaveNormalBootcmd
<1>28. CASE NetworkBoot
  BY <1>28, SMTT(30) DEF NetworkBoot, BootUbi
<1>29. CASE UNCHANGED vars
  BY <1>29, SMTT(30) DEF vars
<1>q. QED
  BY <1>1, <1>2, <1>3, <1>4, <1>5, <1>6, <1>7, <1>8, <1>9, <1>10, <1>11, <1>12,
     <1>13, <1>14, <1>15, <1>16, <1>17, <1>18, <1>19, <1>20, <1>21, <1>22, <1>23,
     <1>24, <1>25, <1>26, <1>27, <1>28, <1>29 DEF Next, Wizard, Environment

\* The invariant holds at the start.
LEMMA InitInv == Init => IInv
<1> SUFFICES ASSUME Init PROVE IInv
  OBVIOUS
<1>1. TypeOK
  <2>1. latch \in BOOLEAN
    BY DEF Init
  <2>2. job \in [Tries -> {"none", "running", "ok", "failed", "starved"}]
    BY DEF Init, NoJob
  <2>3. nand \in [Targets -> {"openwrt", "partial", "stock"}]
    BY DEF Init
  <2>4. target \in Targets /\ try \in Tries /\ from \in Transports /\ cand \in
     Transports
    BY DEF Init, Targets, Tries, Transports, Scp
  <2>5. attempt \in 1..Attempts /\ runs \in 0..Runs /\ cuts \in 0..Cuts
    BY ConstantsAssumption DEF ConstantsAssumption, Init
  <2> QED
    BY <2>1, <2>2, <2>3, <2>4, <2>5 DEF Init, TypeOK
<1>2. StrayIsPartial /\ JobsInPipeline /\ IbuFirst /\ BothBefore /\ OnwardsOnly
      /\ LatchedAtMenu /\ SpentIsRestored
  BY DEF Init, StrayIsPartial, JobsInPipeline, IbuFirst, BothBefore, OnwardsOnly,
         LatchedAtMenu, SpentIsRestored
<1>3. RunningIsPartial
  BY DEF Init, RunningIsPartial, NoJob
<1> QED
  BY <1>1, <1>2, <1>3 DEF IInv

\* The invariant is inductive.
LEMMA Inductive == IInv /\ [Next]_vars => IInv'
<1> SUFFICES ASSUME IInv, [Next]_vars PROVE IInv'
  OBVIOUS
<1>1. TypeOK'
  BY TypeStep DEF IInv
<1> QED
  BY <1>1, OrderStep DEF IInv

LEMMA Invariant == Spec => []IInv
  BY InitInv, Inductive, PTL DEF Spec

\* Every variable keeps its type.
THEOREM TypeCorrect == Spec => []TypeOK
<1>1. IInv => TypeOK
  BY DEF IInv
<1> QED
  BY <1>1, Invariant, PTL

\* The final reboot is sent only over a flash that is stock throughout and that
\* no pipeline writes.
THEOREM RebootIsSafe == Spec => []RebootOverStock
<1>1. IInv => RebootOverStock
  <2> SUFFICES ASSUME IInv, pc = "bye"
               PROVE  stray = {} /\ \A t \in Targets : nand[t] = "stock"
    BY DEF RebootOverStock
  <2>1. \A t \in Targets : nand[t] = "stock"
    BY DEF IInv, BothBefore, Stock, Targets
  <2>2. stray = {}
    BY <2>1 DEF IInv, TypeOK, StrayIsPartial
  <2> QED
    BY <2>1, <2>2
<1> QED
  BY <1>1, Invariant, PTL

\* The one-boot command goes to the network once for each time it was armed, or a
\* saveenv of U-Boot failed.
THEOREM OneShot == Spec => RecoveryIsOneShot
<1>1. ASSUME IInv, [Next]_vars
      PROVE  [system # "network" /\ system' = "network" => ~spent]_vars
  <2>1. SUFFICES ASSUME Next, system # "network", system' = "network"
                 PROVE  ~spent
    BY <1>1
  <2>2. CASE SaveNormalBootcmd
    BY <1>1, <2>2 DEF SaveNormalBootcmd, IInv, SpentIsRestored
  <2>3. CASE ~SaveNormalBootcmd
    <3>1. system' \in {system, "stock", "down", "uboot", "production", "recovery"}
      <4>1. CASE RebootToRecovery \/ PowerCut \/ Bye
        BY <4>1 DEF RebootToRecovery, PowerCut, Bye, Reboots, Boots, board
      <4>2. CASE NormalBoot \/ NetworkBoot \/ UartRecovers \/ UartFails
        BY <4>2 DEF NormalBoot, NetworkBoot, BootUbi, UartRecovers, UartFails
      <4>3. CASE Wizard /\ ~RebootToRecovery /\ ~Bye
        BY <4>3 DEF Wizard, board, BackToMenu, WriteUnknown, Detect, Arm, RecoveryUp, TryAgain,
           Preflight, Confirm, GiveUp, PrewriteFails, Issue, Reach, SshError, WriteDone,
           ServerFailed, Verify, AllFlash, VerifyFails
      <4>4. CASE ChooseRestore \/ RestartProgram \/ JobEnds \/ StrayEnds
        BY <4>4 DEF ChooseRestore, RestartProgram, JobEnds, StrayEnds, board
      <4> QED  BY <2>1, <2>3, <4>1, <4>2, <4>3, <4>4 DEF Next, Environment
    <3> QED  BY <2>1, <3>1
  <2> QED  BY <2>2, <2>3
<1> QED
  BY <1>1, Invariant, PTL DEF Spec, RecoveryIsOneShot

\* Only Reach makes a pipeline run.
LEMMA OnlyReachStarts ==
    ASSUME IInv, [Next]_vars, NEW k \in Tries, job[k] # "running", job'[k] = "running"
    PROVE  Reach
<1> USE DEF IInv, TypeOK, Tries, NoJob, wizard, board, env, bounds
<1>1. ASSUME job' \in {job, NoJob, Killed} PROVE FALSE
  BY <1>1 DEF Killed
<1>2. ASSUME JobEnds PROVE FALSE
  BY <1>2 DEF JobEnds
<1>3. CASE Wizard
  <2>1. ASSUME Detect \/ Arm \/ RebootToRecovery \/ RecoveryUp \/ TryAgain \/
     Preflight
               \/ Confirm \/ GiveUp PROVE job' \in {job, NoJob, Killed}
    BY <2>1 DEF Detect, Arm, RebootToRecovery, RecoveryUp, TryAgain, Preflight,
       Confirm,
                GiveUp, BackToMenu
  <2>2. ASSUME PrewriteFails \/ Issue \/ SshError \/ WriteDone \/ ServerFailed
        PROVE  job' \in {job, NoJob, Killed}
    BY <2>2 DEF PrewriteFails, Issue, SshError, WriteDone, ServerFailed, WriteUnknown,
                BackToMenu
  <2>3. ASSUME Verify \/ AllFlash \/ VerifyFails \/ Bye PROVE job' \in {job,
     NoJob, Killed}
    BY <2>3 DEF Verify, AllFlash, VerifyFails, Bye, BackToMenu
  <2> QED
    BY <1>1, <1>3, <2>1, <2>2, <2>3 DEF Wizard
<1>4. CASE Environment
  <2>1. ASSUME \/ ChooseRestore \/ UartRecovers \/ UartFails \/ RestartProgram \/ PowerCut
               \/ NormalBoot \/ SaveNormalBootcmd \/ NetworkBoot \/ StrayEnds
        PROVE  job' \in {job, NoJob, Killed}
    BY <2>1 DEF ChooseRestore, UartRecovers, UartFails, RestartProgram, PowerCut,
       NormalBoot, SaveNormalBootcmd, NetworkBoot, StrayEnds
  <2> QED
    BY <1>1, <1>2, <1>4, <2>1 DEF Environment
<1>5. CASE UNCHANGED vars
  BY <1>1, <1>5 DEF vars
<1> QED
  BY <1>3, <1>4, <1>5 DEF Next

\* No pipeline writes the bootloader before the main area holds the stock image
\* and nobody writes it any more.
THEOREM BootloaderIsLast == Spec => BootloaderLast
<1>1. ASSUME IInv, [Next]_vars, Starts("bl2")
      PROVE  nand["ibu"] = "stock" /\ "ibu" \notin stray
  <2>1. Reach
    BY <1>1, OnlyReachStarts DEF Starts
  <2>2. nand["ibu"] = "stock"
    BY <1>1, <2>1 DEF IInv, IbuFirst, Stock, Reach, Starts
  <2> QED
    BY <1>1, <2>2 DEF IInv, StrayIsPartial
<1>2. IInv /\ [Next]_vars
        => [Starts("bl2") => nand["ibu"] = "stock" /\ "ibu" \notin stray]_vars
  BY <1>1
<1> QED
  BY <1>2, Invariant, PTL DEF Spec, BootloaderLast

\* The transport changes only while no pipeline of the payload has been started.
THEOREM FallbackIsBeforeWrite == Spec => FallbackBeforeWrite
<1>1. ASSUME IInv, Next, cand' > cand PROVE job = NoJob
  <2>1. CASE pc \notin {"ssh", "wait", "verify"}
    BY <1>1, <2>1 DEF IInv, JobsInPipeline
  <2>2. CASE pc \in {"ssh", "wait", "verify"}
    <3>1. from <= cand
      BY <2>2, <1>1 DEF IInv, OnwardsOnly
    <3>2. cand' \in {cand, from}
      <4>1. CASE Wizard
        BY <2>2, <4>1
        DEF Wizard, wizard, Detect, Arm, RebootToRecovery, RecoveryUp, TryAgain,
            Preflight, Confirm, GiveUp, PrewriteFails, Issue, Reach, SshError,
            WriteUnknown, WriteDone, ServerFailed, BackToMenu, Verify, AllFlash,
            VerifyFails, Bye
      <4>2. CASE Environment
        BY <4>2
        DEF Environment, wizard, ChooseRestore, UartRecovers, UartFails,
            RestartProgram, PowerCut, NormalBoot, SaveNormalBootcmd, NetworkBoot,
            JobEnds, StrayEnds
      <4> QED
        BY <1>1, <4>1, <4>2 DEF Next
    <3> QED
      BY <1>1, <3>1, <3>2 DEF IInv, TypeOK, Transports, Scp
  <2> QED
    BY <2>1, <2>2
<1>2. IInv /\ [Next]_vars => [cand' > cand => job = NoJob]_vars
  BY <1>1
<1> QED
  BY <1>2, Invariant, PTL DEF Spec, FallbackBeforeWrite

\* A latched process starts no pipeline.
THEOREM LatchHolds == Spec => NoWriteAfterUnknown
<1>1. ASSUME IInv, [Next]_vars, NEW t \in Targets, Starts(t) PROVE ~latch
  <2>1. Reach
    BY <1>1, OnlyReachStarts DEF Starts
  <2> QED
    BY <1>1, <2>1 DEF IInv, LatchedAtMenu, Reach
<1>2. IInv /\ [Next]_vars => [\A t \in Targets : Starts(t) => ~latch]_vars
  BY <1>1
<1> QED
  BY <1>2, Invariant, PTL DEF Spec, NoWriteAfterUnknown
=============================================================================
