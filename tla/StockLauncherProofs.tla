------------------------ MODULE StockLauncherProofs ------------------------
(***************************************************************************)
(* Theorems about stage 1, for any set of attempts, any faults and any     *)
(* number of reruns and power cuts.  The safety theorems assume ~Overlap:  *)
(* a second, concurrent run removes the runtime of the first.              *)
(***************************************************************************)
EXTENDS StockLauncher, TLAPS

StockEnv == {"source", "foreign"}

OneAtATime == \A a, b \in Attempts : Busy(a) /\ Busy(b) => a = b

BusyOnlyInStock == \A a \in Attempts : Busy(a) => mode = "stock"

\* What the worker of attempt a knows about the NAND at each step.
WorkerKnows(a) ==
    /\ worker[a] \in {"erase14", "write14", "read14"} => env \in StockEnv
    /\ worker[a] \in {"recheck", "erase0"} => env \in StockEnv /\ mtd14 = "bundle"
    /\ worker[a] \in {"write0", "read0"} => env \in {"torn", "personal"}
    /\ worker[a] = "reboot" => env = "personal"
    /\ worker[a] = "write0" => env = "torn"

IInv ==
    /\ TypeOK
    /\ OneAtATime
    /\ BusyOnlyInStock
    /\ \A a \in Attempts : WorkerKnows(a)
    /\ EnvOnlyOverBundle

\* What an interrupted erase or write can leave behind.
LEMMA InterruptedValues ==
    ASSUME NEW S
    PROVE  /\ \A m \in InterruptedMtd14(S) :
                \/ m = mtd14
                \/ m = "mixed" /\ \E a \in S : worker[a] \in {"erase14", "write14"}
           /\ \A e \in InterruptedEnv(S) :
                \/ e = env
                \/ e = "torn" /\ \E a \in S : worker[a] \in {"erase0", "write0"}
  BY DEF InterruptedMtd14, InterruptedEnv

LEMMA TypeStep == TypeOK /\ [Next]_vars => TypeOK'
<1> SUFFICES ASSUME TypeOK, [Next]_vars PROVE TypeOK'
  OBVIOUS
<1> USE DEF TypeOK, LauncherSteps, Outputs, WorkerSteps, WorkerLive, nand
<1>1. ASSUME NEW a \in Attempts, Start(a) PROVE TypeOK'
  BY <1>1 DEF Start
<1>2. ASSUME NEW a \in Attempts, Launcher(a) PROVE TypeOK'
  BY <1>2 DEF Launcher, Preflight, PrepareStagePlan, StageRuntime,
              ConfirmAndSpawn, WatchWorker, LauncherGoes
<1>3. ASSUME NEW a \in Attempts, Die(a) PROVE TypeOK'
  BY <1>3 DEF Die
<1>4. ASSUME NEW a \in Attempts, Hangup(a) PROVE TypeOK'
  BY <1>4 DEF Hangup
<1>5. ASSUME NEW a \in Attempts, Worker(a) PROVE TypeOK'
  <2>1. CASE WVerify(a) \/ WErase14(a) \/ WWrite14(a) \/ WRead14(a) \/ WRecheckEnv(a)
    BY <2>1 DEF WVerify, WErase14, WWrite14, WRead14, WRecheckEnv, WorkerGoes
  <2>2. CASE WEraseEnv(a) \/ WWriteEnv(a) \/ WReadEnv(a)
    BY <2>2 DEF WEraseEnv, WWriteEnv, WReadEnv, WorkerGoes
  <2>3. CASE WReboot(a)
    BY <2>3 DEF WReboot, LoseVolatile, BootTargets
  <2>4. CASE WFail(a)
    BY <2>4, InterruptedValues DEF WFail
  <2> QED BY <1>5, <2>1, <2>2, <2>3, <2>4 DEF Worker
<1>6. CASE PowerCut
  BY <1>6, InterruptedValues DEF PowerCut
<1>7. CASE PowerOn
  BY <1>7 DEF PowerOn, BootTargets
<1>8. CASE StockRewritesEnv
  BY <1>8 DEF StockRewritesEnv
<1>9. CASE UNCHANGED vars
  BY <1>9 DEF vars
<1> QED BY <1>1, <1>2, <1>3, <1>4, <1>5, <1>6, <1>7, <1>8, <1>9 DEF Next

\* The types of the variables, for every constant and every interleaving
\* (concurrent attempts included).
THEOREM TypeCorrect == Spec => []TypeOK
<1>1. Init => TypeOK
  BY DEF Init, TypeOK, LauncherSteps, Outputs, WorkerSteps
<1> QED BY <1>1, TypeStep, PTL DEF Spec

LEMMA InitIInv == Init => IInv
  BY DEF Init, IInv, TypeOK, LauncherSteps, Outputs, WorkerSteps, WorkerLive, OneAtATime,
         BusyOnlyInStock, Busy, Alive, WorkerKnows, EnvOnlyOverBundle

\* Without overlap every step keeps the inductive invariant.
LEMMA StepIInv == ASSUME ~Overlap PROVE IInv /\ [Next]_vars => IInv'
<1> SUFFICES ASSUME IInv, [Next]_vars PROVE IInv'
  OBVIOUS
<1>t. TypeOK'
  BY TypeStep DEF IInv
<1> USE DEF WorkerLive, StockEnv, Busy, Alive
<1>1. ASSUME NEW a \in Attempts, Start(a) PROVE IInv'
  <2>1. OneAtATime'
    BY <1>1, <1>t DEF Start, OneAtATime, IInv, TypeOK
  <2>2. BusyOnlyInStock' /\ (\A b \in Attempts : WorkerKnows(b))'
    BY <1>1, <1>t DEF Start, BusyOnlyInStock, WorkerKnows, IInv, TypeOK
  <2> QED BY <1>1, <1>t, <2>1, <2>2 DEF Start, IInv, EnvOnlyOverBundle
<1>2. ASSUME NEW a \in Attempts, Launcher(a) PROVE IInv'
  <2>1. UNCHANGED <<mtd14, env, active, mode>> /\ launcher[a] # "idle"
    BY <1>2 DEF Launcher, Preflight, PrepareStagePlan, StageRuntime, ConfirmAndSpawn,
                WatchWorker, LauncherGoes
  <2>2. /\ \A b \in Attempts \ {a} : launcher'[b] = launcher[b] /\ worker'[b] = worker[b]
        /\ worker'[a] = worker[a] \/ worker'[a] = "verify"
    BY <1>2 DEF Launcher, Preflight, PrepareStagePlan, StageRuntime, ConfirmAndSpawn,
                WatchWorker, LauncherGoes, IInv, TypeOK
  <2>3. OneAtATime'
    BY <2>1, <2>2 DEF OneAtATime, IInv
  <2>4. BusyOnlyInStock' /\ (\A b \in Attempts : WorkerKnows(b))'
    BY <2>1, <2>2 DEF BusyOnlyInStock, WorkerKnows, IInv
  <2> QED BY <1>t, <2>1, <2>3, <2>4 DEF IInv, EnvOnlyOverBundle
<1>3. ASSUME NEW a \in Attempts, Die(a) \/ Hangup(a) PROVE IInv'
  <2>1. UNCHANGED <<mtd14, env, active, mode, worker>>
    BY <1>3 DEF Die, Hangup
  <2>2. \A b \in Attempts : launcher'[b] = launcher[b] \/ launcher'[b] = "idle"
    BY <1>3 DEF Die, Hangup, IInv, TypeOK
  <2>3. OneAtATime' /\ BusyOnlyInStock' /\ (\A b \in Attempts : WorkerKnows(b))'
    BY <2>1, <2>2 DEF OneAtATime, BusyOnlyInStock, WorkerKnows, IInv
  <2> QED BY <1>t, <2>1, <2>3 DEF IInv, EnvOnlyOverBundle
<1>4. ASSUME NEW a \in Attempts, Worker(a) PROVE IInv'
  <2>1. Alive(a) /\ \A b \in Attempts \ {a} : worker[b] \notin WorkerLive
    BY <1>4 DEF Worker, WVerify, WErase14, WWrite14, WRead14, WRecheckEnv, WEraseEnv,
                WWriteEnv, WReadEnv, WReboot, WFail, WorkerGoes, OneAtATime, IInv
  <2>2. mode = "stock"
    BY <2>1 DEF IInv, BusyOnlyInStock
  <2>3. CASE WReboot(a)
    <3>1. \A b \in Attempts : launcher'[b] = "idle" /\ worker'[b] = "none"
      BY <2>3 DEF WReboot, LoseVolatile
    <3>2. OneAtATime' /\ BusyOnlyInStock' /\ (\A b \in Attempts : WorkerKnows(b))'
      BY <3>1 DEF OneAtATime, BusyOnlyInStock, WorkerKnows
    <3>3. UNCHANGED <<mtd14, env>>
      BY <2>3 DEF WReboot, LoseVolatile
    <3> QED BY <1>t, <3>2, <3>3 DEF IInv, EnvOnlyOverBundle
  <2>4. CASE ~WReboot(a)
    <3>1. /\ UNCHANGED <<active, mode, launcher>>
          /\ \A b \in Attempts \ {a} : worker'[b] = worker[b]
      BY <1>4, <2>4 DEF Worker, WVerify, WErase14, WWrite14, WRead14, WRecheckEnv, WEraseEnv,
                  WWriteEnv, WReadEnv, WFail, WorkerGoes, IInv, TypeOK
    <3>2. OneAtATime'
      BY <2>1, <3>1 DEF OneAtATime, IInv
    <3>3. BusyOnlyInStock'
      BY <2>2, <3>1 DEF BusyOnlyInStock
    <3>4. EnvOnlyOverBundle' /\ WorkerKnows(a)'
      <4>1. CASE WVerify(a) \/ WErase14(a) \/ WWrite14(a) \/ WRead14(a) \/ WRecheckEnv(a)
        BY <4>1 DEF WVerify, WErase14, WWrite14, WRead14, WRecheckEnv, WorkerGoes, nand,
                    IInv, TypeOK, WorkerKnows, EnvOnlyOverBundle
      <4>2. CASE WEraseEnv(a) \/ WWriteEnv(a) \/ WReadEnv(a)
        BY <4>2 DEF WEraseEnv, WWriteEnv, WReadEnv, WorkerGoes, nand,
                    IInv, TypeOK, WorkerKnows, EnvOnlyOverBundle
      <4>3. CASE WFail(a)
        <5>1. worker'[a] = "failed"
          BY <4>3 DEF WFail, IInv, TypeOK
        <5>2. mtd14' = mtd14 \/ worker[a] \in {"erase14", "write14"}
          BY <4>3, InterruptedValues DEF WFail
        <5>3. env' = env \/ (worker[a] \in {"erase0", "write0"} /\ env' = "torn")
          BY <4>3, InterruptedValues DEF WFail
        <5> QED BY <5>1, <5>2, <5>3 DEF IInv, WorkerKnows, EnvOnlyOverBundle
      <4> QED BY <1>4, <2>4, <4>1, <4>2, <4>3 DEF Worker
    <3>5. \A b \in Attempts \ {a} : WorkerKnows(b)'
      BY <2>1, <3>1 DEF WorkerKnows
    <3> QED BY <1>t, <2>2, <3>1, <3>2, <3>3, <3>4, <3>5 DEF IInv
  <2> QED BY <2>3, <2>4
<1>5. CASE PowerCut
  <2>1. \A b \in Attempts : launcher'[b] = "idle" /\ worker'[b] = "none"
    BY <1>5 DEF PowerCut
  <2>2. OneAtATime' /\ BusyOnlyInStock' /\ (\A b \in Attempts : WorkerKnows(b))'
    BY <2>1 DEF OneAtATime, BusyOnlyInStock, WorkerKnows
  <2>3. \/ mtd14' = mtd14
        \/ \E b \in Attempts : worker[b] \in {"erase14", "write14"}
    BY <1>5, InterruptedValues DEF PowerCut
  <2>4. \/ env' = env
        \/ env' = "torn" /\ \E b \in Attempts : worker[b] \in {"erase0", "write0"}
    BY <1>5, InterruptedValues DEF PowerCut
  <2>5. EnvOnlyOverBundle'
    BY <2>3, <2>4 DEF EnvOnlyOverBundle, IInv, WorkerKnows, OneAtATime
  <2> QED BY <1>5, <1>t, <2>2, <2>5 DEF PowerCut, IInv
<1>6. CASE PowerOn
  <2>1. UNCHANGED <<mtd14, env, active, launcher, worker>> /\ \A b \in Attempts : ~Busy(b)
    BY <1>6 DEF PowerOn, IInv, BusyOnlyInStock
  <2>2. OneAtATime' /\ BusyOnlyInStock' /\ (\A b \in Attempts : WorkerKnows(b))'
    BY <2>1 DEF OneAtATime, BusyOnlyInStock, WorkerKnows, IInv
  <2> QED BY <1>t, <2>1, <2>2 DEF IInv, EnvOnlyOverBundle
<1>7. CASE StockRewritesEnv
  <2>1. env \in StockEnv /\ env' \in StockEnv
        /\ UNCHANGED <<mtd14, active, mode, launcher, worker>>
    BY <1>7 DEF StockRewritesEnv
  <2>2. (\A b \in Attempts : WorkerKnows(b))'
    BY <2>1 DEF WorkerKnows, IInv
  <2> QED BY <1>t, <1>7, <2>1, <2>2
          DEF StockRewritesEnv, IInv, OneAtATime, BusyOnlyInStock, EnvOnlyOverBundle
<1>8. CASE UNCHANGED vars
  BY <1>8, <1>t DEF vars, IInv, OneAtATime, BusyOnlyInStock, WorkerKnows, EnvOnlyOverBundle
<1> QED BY <1>1, <1>2, <1>3, <1>4, <1>5, <1>6, <1>7, <1>8 DEF Next

LEMMA Inductive == ASSUME ~Overlap PROVE Spec => []IInv
  BY InitIInv, StepIInv, PTL DEF Spec

\* However often stage 1 fails, is cut and is run again, the environment block
\* leaves its stock value only over a complete, verified bundle in mtd14.
THEOREM EnvironmentLast == ASSUME ~Overlap PROVE Spec => []EnvOnlyOverBundle
<1>1. IInv => EnvOnlyOverBundle
  BY DEF IInv
<1> QED BY <1>1, Inductive, PTL

\* Stage 1 implements the staged switch: payload mtd14, selector environment.
THEOREM StageOneRefinesSwitch == ASSUME ~Overlap PROVE Spec => ImplementsSwitch
<1> USE DEF Payload, Selector
<1>1. Init => Switch!Init
  BY DEF Init, Switch!Init
<1>2. IInv /\ [Next]_vars => [Switch!Next]_(Switch!vars)
  <2> SUFFICES ASSUME IInv, [Next]_vars PROVE [Switch!Next]_(Switch!vars)
    OBVIOUS
  <2> USE DEF Switch!Next, Switch!Stage, Switch!Switch, Switch!vars
  <2>1. ASSUME UNCHANGED <<mtd14, env>> PROVE UNCHANGED Switch!vars
    BY <2>1
  <2>2. ASSUME NEW a \in Attempts, Worker(a) PROVE [Switch!Next]_(Switch!vars)
    <3>1. CASE WErase14(a) \/ WWrite14(a)
      BY <3>1 DEF WErase14, WWrite14, WorkerGoes, IInv, WorkerKnows, StockEnv
    <3>2. CASE WEraseEnv(a) \/ WWriteEnv(a)
      BY <3>2 DEF WEraseEnv, WWriteEnv, WorkerGoes, IInv, WorkerKnows, StockEnv, EnvOnlyOverBundle
    <3>3. CASE WFail(a)
      <4>1. \/ mtd14' = mtd14
            \/ mtd14' = "mixed" /\ worker[a] \in {"erase14", "write14"}
        BY <3>3, InterruptedValues DEF WFail
      <4>2. \/ env' = env
            \/ env' = "torn" /\ worker[a] \in {"erase0", "write0"}
        BY <3>3, InterruptedValues DEF WFail
      <4> QED BY <4>1, <4>2 DEF IInv, WorkerKnows, StockEnv, EnvOnlyOverBundle
    <3>4. CASE WVerify(a) \/ WRead14(a) \/ WRecheckEnv(a) \/ WReadEnv(a) \/ WReboot(a)
      BY <3>4, <2>1 DEF WVerify, WRead14, WRecheckEnv, WReadEnv, WReboot, nand, LoseVolatile
    <3> QED BY <2>2, <3>1, <3>2, <3>3, <3>4 DEF Worker
  <2>3. CASE PowerCut
    <3>1. \/ mtd14' = mtd14
          \/ mtd14' = "mixed" /\ \E a \in Attempts : worker[a] \in {"erase14", "write14"}
      BY <2>3, InterruptedValues DEF PowerCut
    <3>2. \/ env' = env
          \/ env' = "torn" /\ \E a \in Attempts : worker[a] \in {"erase0", "write0"}
      BY <2>3, InterruptedValues DEF PowerCut
    <3> QED BY <3>1, <3>2 DEF IInv, WorkerKnows, StockEnv, EnvOnlyOverBundle, OneAtATime, Busy, Alive, WorkerLive
  <2>4. CASE StockRewritesEnv
    BY <2>4 DEF StockRewritesEnv
  <2>5. ASSUME NEW a \in Attempts, Start(a) \/ Launcher(a) \/ Die(a) \/ Hangup(a)
        PROVE UNCHANGED Switch!vars
    BY <2>5, <2>1 DEF Start, Launcher, Die, Hangup, Preflight, PrepareStagePlan, StageRuntime,
                      ConfirmAndSpawn, WatchWorker
  <2>6. CASE PowerOn \/ UNCHANGED vars
    BY <2>6, <2>1 DEF PowerOn, vars
  <2> QED BY <2>2, <2>3, <2>4, <2>5, <2>6 DEF Next
<1> QED BY <1>1, <1>2, Inductive, PTL DEF Spec, ImplementsSwitch, Switch!Spec
=============================================================================
