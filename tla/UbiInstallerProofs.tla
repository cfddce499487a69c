------------------------- MODULE UbiInstallerProofs -------------------------
(***************************************************************************)
(* Theorems about stage 2, for any set of operator shells, either variant  *)
(* of the image (automatic, manual; MD, MF), any faults and any number of  *)
(* retries and power cuts.  Type correctness holds with overlapping        *)
(* commands too; the other theorems assume ~Overlap, because the installer *)
(* takes no lock.  The last two, that COMPLETE is true and that the board  *)
(* the PC watches is implemented, are about autoflash alone.               *)
(***************************************************************************)
EXTENDS UbiInstaller, TLAPS

SafeStates == {"BOOTING", "WAITING_FOR_SYSTEM", "CHECKING"}

OneAtATime == \A p, q \in Procs : Busy(p) /\ Busy(q) => p = q

BusyOnlyInTransition == \A p \in Procs : Busy(p) => mode = "transition"

\* What a command knows about the NAND at each step.
Knows(p) ==
    /\ pc[p] \in {"capture", "format"} => ~header
    /\ pc[p] \in Volumes \cup {"mkvol", "verify", "bl2"} => header /\ bl2 = "old"
    /\ pc[p] = "bl2" => ChainGood

\* The UBI headers are older than everything else stage 2 wrote.
HeaderFirst == /\ header => raw # "intact"
               /\ ~header => bl2 = "old"

\* While autoflash publishes a safe state it is waiting, and nothing was touched
\* since the boot.
AutoWaits ==
    /\ Automatic /\ mode = "transition" /\ state \in SafeStates
           => pc["auto"] \in {"system", "check"}
    /\ pc["auto"] \in {"system", "check"} => BootTarget(raw, content, bl2) # "stuck"

\* A board in the rescue loop has the new boot chain, whatever its fit is.
RescueOverChain == mode = "rescue" => bl2 = "new" /\ content["fip"] = "good"

IInv ==
    /\ TypeOK
    /\ OneAtATime
    /\ BusyOnlyInTransition
    /\ \A p \in Procs : Knows(p)
    /\ HeaderFirst
    /\ Bl2Last
    /\ AutoWaits
    /\ RescueOverChain

USE DEF Procs

\* What an interrupted NAND operation may leave has the types of the variables.
LEMMA HalfDoneTypes ==
    ASSUME TypeOK, NEW p \in Procs, HalfDone(p)
    PROVE  /\ raw' \in {"intact", "damaged", "gone"}
           /\ header' \in BOOLEAN /\ named' \in BOOLEAN
           /\ content' \in [Volumes -> {"none", "torn", "good", "production"}]
           /\ bl2' \in {"old", "torn", "new"}
<1>1. CASE UNCHANGED nand
  BY <1>1 DEF nand, TypeOK
<1>2. CASE pc[p] = "format" /\ ~UNCHANGED nand
  BY <1>2 DEF HalfDone, TypeOK, Empty, Volumes
<1>3. CASE pc[p] \in Volumes /\ ~UNCHANGED nand
  BY <1>3 DEF HalfDone, TypeOK, Volumes
<1>4. CASE pc[p] = "bl2" /\ ~UNCHANGED nand
  BY <1>4 DEF HalfDone, TypeOK, Volumes
<1> QED BY <1>1, <1>2, <1>3, <1>4 DEF HalfDone

LEMMA BootTargetType ==
    ASSUME NEW r, NEW c, NEW b
    PROVE  BootTarget(r, c, b) \in {"transition", "production", "rescue", "stuck"}
  BY DEF BootTarget

LEMMA NumberType == ASSUME NEW at PROVE Number(at) \in {0, 1, 6, 8}
  BY DEF Number

LEMMA StartedType == ASSUME NEW m PROVE Started(m) \in [Procs -> Steps]
  BY DEF Started, Steps

LEMMA TypeStep == TypeOK /\ [Next]_vars => TypeOK'
<1> SUFFICES ASSUME TypeOK, [Next]_vars PROVE TypeOK'
  OBVIOUS
<1>1. CASE AutoWait \/ AutoCheck
  <2>1. /\ \E to \in Steps : pc' = [pc EXCEPT !["auto"] = to]
        /\ logged' \in {0, 1, 6, 8}
        /\ UNCHANGED <<bl2Writable, mode, cmd>>
    BY <1>1, NumberType DEF AutoWait, AutoCheck, Goes, TypeOK, Steps
  <2>2. /\ state' \in {"CHECKING", "FORMATTING_AND_FLASHING"}
        /\ image' \in {image, TRUE}
        /\ UNCHANGED <<nand, complete>>
    BY <1>1 DEF AutoWait, AutoCheck
  <2>3. pc' \in [Procs -> Steps]
    BY <2>1 DEF TypeOK
  <2> QED BY <2>1, <2>2, <2>3 DEF nand, TypeOK, States
<1>2. ASSUME NEW p \in Operators, NEW c \in Commands, Run(p, c) PROVE TypeOK'
  BY <1>2 DEF Run, nand, TypeOK, Steps, Commands
<1>3. ASSUME NEW p \in Procs, Installer(p) PROVE TypeOK'
  <2>1. CASE BaseCheck(p) \/ Capture(p) \/ Verify(p) \/ ReadBackBl2(p) \/ Finish(p) \/ Status(p)
    BY <2>1, NumberType
       DEF BaseCheck, Capture, Verify, ReadBackBl2, Finish, Status, Goes, nand, TypeOK, Steps
  <2>2. CASE MarkComplete(p) \/ AttachExisting(p)
    <3>1. AfterInstall(p) \in Steps
      BY DEF AfterInstall, Steps
    <3>2. Goes(p, "mark", AfterInstall(p)) \/ Goes(p, "attach", AfterInstall(p))
      BY <2>2 DEF MarkComplete, AttachExisting
    <3>3. /\ pc' = [pc EXCEPT ![p] = AfterInstall(p)]
          /\ logged' \in {0, 1, 6, 8}
          /\ UNCHANGED <<bl2Writable, mode, cmd>>
      BY <3>2, NumberType DEF Goes, TypeOK
    <3>4. complete' = TRUE /\ UNCHANGED <<nand, state, image>>
      BY <2>2 DEF MarkComplete, AttachExisting
    <3> QED BY <3>1, <3>3, <3>4 DEF nand, TypeOK
  <2>3. CASE Format(p) \/ MakeVolumes(p)
    <3>1. PICK to \in {"mkvol", "bosa"} : pc' = [pc EXCEPT ![p] = to]
      BY <2>3 DEF Format, MakeVolumes, Goes
    <3>2. pc' \in [Procs -> Steps]
      BY <3>1 DEF TypeOK, Steps
    <3>3. raw' \in {raw, "gone"} /\ header' \in {header, TRUE} /\ named' \in {FALSE, TRUE}
          /\ content' \in {content, Empty}
      BY <2>3 DEF Format, MakeVolumes
    <3>4. Empty \in [Volumes -> {"none", "torn", "good", "production"}]
      BY DEF Empty
    <3>5. UNCHANGED <<bl2, bl2Writable, mode, state, image, complete, cmd>>
          /\ logged' \in {0, 1, 6, 8}
      BY <2>3, NumberType DEF Format, MakeVolumes, Goes, TypeOK
    <3>6. content' \in [Volumes -> {"none", "torn", "good", "production"}]
      BY <3>3, <3>4 DEF TypeOK
    <3> QED BY <3>2, <3>3, <3>5, <3>6 DEF TypeOK
  <2>4. CASE WriteVolume(p)
    <3>1. NextVolume(pc[p]) \in Steps
      BY DEF NextVolume, Steps
    <3>2. content' \in [Volumes -> {"none", "torn", "good", "production"}]
      <4>1. PICK c \in {"good", "torn"} : content' = [content EXCEPT ![pc[p]] = c]
        BY <2>4 DEF WriteVolume
      <4> QED BY <4>1 DEF TypeOK
    <3> QED BY <2>4, <3>1, <3>2, NumberType DEF WriteVolume, Goes, TypeOK
  <2>5. CASE WriteBl2(p)
    BY <2>5, NumberType DEF WriteBl2, Goes, TypeOK, Steps
  <2>6. CASE ExecSysupgrade(p)
    BY <2>6 DEF ExecSysupgrade, nand, TypeOK, Steps, States
  <2>7. CASE Fail(p)
    BY <2>7, HalfDoneTypes DEF Fail, TypeOK, Steps, States
  <2> QED BY <1>3, <2>1, <2>2, <2>3, <2>4, <2>5, <2>6, <2>7 DEF Installer
<1>4. CASE Upgrade
  <2>1. content' \in [Volumes -> {"none", "torn", "good", "production"}]
    BY <1>4 DEF Upgrade, TypeOK
  <2>2. PICK m \in {"transition", "production", "rescue", "stuck"} : BootInto(m)
    BY <1>4, BootTargetType DEF Upgrade
  <2>3. UNCHANGED <<raw, header, named, bl2>>
    BY <1>4 DEF Upgrade
  <2> QED BY <2>1, <2>2, <2>3, StartedType DEF BootInto, TypeOK, Commands, States
<1>5. CASE PowerCut
  <2>1. /\ raw' \in {"intact", "damaged", "gone"}
        /\ header' \in BOOLEAN /\ named' \in BOOLEAN
        /\ content' \in [Volumes -> {"none", "torn", "good", "production"}]
        /\ bl2' \in {"old", "torn", "new"}
    BY <1>5, HalfDoneTypes DEF PowerCut, TypeOK
  <2> QED BY <1>5, <2>1 DEF PowerCut, TypeOK, Steps
<1>6. CASE PowerOn
  <2>1. PICK m \in {"transition", "production", "rescue", "stuck"} : BootInto(m)
    BY <1>6, BootTargetType DEF PowerOn
  <2>2. UNCHANGED nand
    BY <1>6 DEF PowerOn
  <2> QED BY <2>1, <2>2, StartedType DEF BootInto, nand, TypeOK, Commands, States
<1>7. CASE UNCHANGED vars
  BY <1>7 DEF vars, nand, TypeOK
<1>8. CASE TakeOver
  <2>1. pc' \in [Procs -> Steps]
    BY <1>8 DEF TakeOver, Steps
  <2> QED BY <1>8, <2>1 DEF TakeOver, nand, TypeOK
<1>9. CASE Rescue
  <2>1. BootInto("transition") /\ UNCHANGED nand
    BY <1>9 DEF Rescue
  <2> QED BY <2>1, StartedType DEF BootInto, nand, TypeOK, Commands, States
<1> QED BY <1>1, <1>2, <1>3, <1>4, <1>5, <1>6, <1>7, <1>8, <1>9 DEF Next

LEMMA InitType == Init => TypeOK
<1> SUFFICES ASSUME Init PROVE TypeOK
  OBVIOUS
<1>1. content \in [Volumes -> {"none", "torn", "good", "production"}]
  BY DEF Init, Empty
<1>2. cmd \in [Procs -> Commands] /\ pc \in [Procs -> Steps]
  BY StartedType DEF Init, Commands
<1> QED BY <1>1, <1>2 DEF Init, TypeOK, States

\* The types of the variables, for every constant, overlapping commands included.
THEOREM TypeCorrect == Spec => []TypeOK
  BY InitType, TypeStep, PTL DEF Spec

\* A command that takes a step is the only one running; if it is not autoflash
\* in its waiting part, no safe state is published.
LEMMA Alone ==
    ASSUME IInv, NEW p \in Procs, Busy(p)
    PROVE  /\ mode = "transition"
           /\ \A q \in Procs \ {p} : pc[q] = "idle"
           /\ p # "auto" \/ pc[p] \notin {"system", "check"}
                  => ~(Automatic /\ state \in SafeStates)
  BY DEF IInv, OneAtATime, BusyOnlyInTransition, AutoWaits, Busy

LEMMA GoesOn ==
    ASSUME IInv, NEW p \in Procs, NEW from \in Steps, NEW to \in Steps, from # "idle",
           Goes(p, from, to)
    PROVE  /\ mode = "transition" /\ pc[p] = from /\ pc'[p] = to
           /\ \A q \in Procs \ {p} : pc'[q] = "idle"
           /\ OneAtATime' /\ BusyOnlyInTransition'
           /\ (\A q \in Procs \ {p} : Knows(q))'
           /\ RescueOverChain'
           /\ from \notin {"system", "check"} /\ to \notin {"system", "check"}
              /\ state' = state => AutoWaits'
<1>1. mode = "transition" /\ mode' = mode /\ pc[p] = from /\ Busy(p)
  BY DEF Goes, Busy
<1>2. pc'[p] = to /\ \A q \in Procs \ {p} : pc'[q] = pc[q]
  BY DEF Goes, IInv, TypeOK
<1>3. \A q \in Procs \ {p} : pc'[q] = "idle"
  BY <1>1, <1>2, Alone
<1>4. OneAtATime' /\ BusyOnlyInTransition'
  BY <1>1, <1>3 DEF OneAtATime, BusyOnlyInTransition, Busy
<1>5. (\A q \in Procs \ {p} : Knows(q))'
  BY <1>3 DEF Knows, Volumes
<1>6. ASSUME from \notin {"system", "check"}, to \notin {"system", "check"}, state' = state
      PROVE  AutoWaits'
  BY <1>1, <1>2, <1>3, <1>6, Alone DEF AutoWaits
<1>7. RescueOverChain'
  BY <1>1 DEF RescueOverChain
<1> QED BY <1>1, <1>2, <1>3, <1>4, <1>5, <1>6, <1>7

\* When every process is idle after a step, little is left to show.
LEMMA AllIdle ==
    ASSUME \A p \in Procs : pc'[p] = "idle"
    PROVE  OneAtATime' /\ BusyOnlyInTransition' /\ (\A p \in Procs : Knows(p))'
  BY DEF OneAtATime, BusyOnlyInTransition, Busy, Knows, Volumes

\* An interrupted operation keeps what the invariant says of the NAND.
LEMMA HalfDoneKeeps ==
    ASSUME IInv, NEW p \in Procs, HalfDone(p)
    PROVE  HeaderFirst' /\ Bl2Last'
<1> USE DEF IInv, HeaderFirst, Bl2Last
<1>1. CASE UNCHANGED nand
  BY <1>1 DEF nand, ChainGood
<1>2. CASE pc[p] = "format" /\ ~UNCHANGED nand
  BY <1>2 DEF HalfDone, Knows, Volumes
<1>3. CASE pc[p] \in Volumes /\ ~UNCHANGED nand
  BY <1>3 DEF HalfDone, Knows, Volumes
<1>4. CASE pc[p] = "bl2" /\ ~UNCHANGED nand
  BY <1>4 DEF HalfDone, Knows, Volumes, ChainGood
<1> QED BY <1>1, <1>2, <1>3, <1>4 DEF HalfDone

\* A boot starts at most autoflash, over the NAND it finds.
LEMMA Booted ==
    ASSUME NEW m, BootInto(m), m \in {"transition", "production", "rescue", "stuck"},
           m = "transition" => BootTarget(raw', content', bl2') # "stuck",
           m = "rescue" => BootTarget(raw', content', bl2') = "rescue"
    PROVE  /\ OneAtATime' /\ BusyOnlyInTransition' /\ (\A p \in Procs : Knows(p))'
           /\ AutoWaits' /\ RescueOverChain'
<1>1. /\ mode' = m
      /\ \A p \in Procs : pc'[p] \in {"idle", "system"}
      /\ \A p \in Procs : pc'[p] = "system" => p = "auto" /\ m = "transition"
      /\ Automatic /\ m = "transition" => pc'["auto"] = "system"
  BY DEF BootInto, Started
<1>2. OneAtATime' /\ BusyOnlyInTransition'
  BY <1>1 DEF OneAtATime, BusyOnlyInTransition, Busy
<1>3. (\A p \in Procs : Knows(p))'
  BY <1>1 DEF Knows, Volumes
<1>4. AutoWaits'
  BY <1>1 DEF AutoWaits
<1>5. RescueOverChain'
  BY <1>1 DEF RescueOverChain, BootTarget
<1> QED BY <1>2, <1>3, <1>4, <1>5

LEMMA InitIInv == Init => IInv
<1> SUFFICES ASSUME Init PROVE IInv
  OBVIOUS
<1>1. \A p \in Procs : pc[p] \in {"idle", "system"} /\ (pc[p] = "system" <=> p = "auto" /\ Automatic)
  BY DEF Init, Started
<1>2. TypeOK
  BY InitType
<1>3. OneAtATime /\ BusyOnlyInTransition /\ \A p \in Procs : Knows(p)
  BY <1>1 DEF Init, OneAtATime, BusyOnlyInTransition, Busy, Knows, Volumes
<1>4. AutoWaits
  BY <1>1 DEF Init, AutoWaits, BootTarget
<1> QED BY <1>2, <1>3, <1>4 DEF Init, IInv, HeaderFirst, Bl2Last, RescueOverChain

\* Without overlap every step keeps the inductive invariant.
LEMMA StepIInv == ASSUME ~Overlap PROVE IInv /\ [Next]_vars => IInv'
<1> SUFFICES ASSUME IInv, [Next]_vars PROVE IInv'
  OBVIOUS
<1>t. TypeOK'
  BY TypeStep DEF IInv
<1> USE DEF HeaderFirst, Bl2Last
<1>1. CASE AutoWait
  <2>1. Goes("auto", "system", "check") /\ UNCHANGED nand
    BY <1>1 DEF AutoWait
  <2>2. /\ OneAtATime' /\ BusyOnlyInTransition' /\ RescueOverChain'
        /\ (\A q \in Procs \ {"auto"} : Knows(q))'
        /\ pc["auto"] = "system" /\ pc'["auto"] = "check"
    BY <2>1, GoesOn DEF Steps
  <2>3. AutoWaits'
    BY <2>1, <2>2 DEF IInv, AutoWaits, nand
  <2> QED BY <1>t, <2>1, <2>2, <2>3 DEF IInv, nand, Knows, Volumes, ChainGood
<1>2. CASE AutoCheck
  <2>1. Goes("auto", "check", "base") /\ UNCHANGED nand /\ state' = "FORMATTING_AND_FLASHING"
    BY <1>2 DEF AutoCheck
  <2>2. /\ OneAtATime' /\ BusyOnlyInTransition' /\ RescueOverChain'
        /\ (\A q \in Procs \ {"auto"} : Knows(q))'
        /\ pc'["auto"] = "base"
    BY <2>1, GoesOn DEF Steps
  <2>3. AutoWaits'
    BY <2>1, <2>2 DEF AutoWaits, SafeStates
  <2> QED BY <1>t, <2>1, <2>2, <2>3 DEF IInv, nand, Knows, Volumes, ChainGood
<1>3. ASSUME NEW p \in Operators, NEW c \in Commands, Run(p, c) PROVE IInv'
  <2>1. \A q \in Procs : ~Busy(q)
    BY <1>3 DEF Run
  <2>2. /\ \A q \in Procs \ {p} : pc'[q] = "idle"
        /\ pc'[p] \in {"finish", "base"} /\ p # "auto"
    BY <1>3, <2>1, ConstantsAssumption DEF Run, Busy, IInv, TypeOK
  <2>3. UNCHANGED nand /\ mode = "transition" /\ mode' = mode /\ state' = state
    BY <1>3 DEF Run
  <2>4. OneAtATime' /\ BusyOnlyInTransition' /\ (\A q \in Procs : Knows(q))'
    BY <2>2, <2>3 DEF OneAtATime, BusyOnlyInTransition, Busy, Knows, Volumes
  <2>5. AutoWaits'
    BY <2>1, <2>2, <2>3 DEF IInv, AutoWaits, Busy
  <2>6. RescueOverChain'
    BY <2>3 DEF RescueOverChain
  <2> QED BY <1>t, <2>3, <2>4, <2>5, <2>6 DEF IInv, nand, ChainGood
<1>4. ASSUME NEW p \in Procs, Installer(p) PROVE IInv'
  <2>1. CASE BaseCheck(p) \/ Capture(p) \/ Verify(p) \/ ReadBackBl2(p) \/ MarkComplete(p)
             \/ AttachExisting(p) \/ Finish(p) \/ Status(p)
    <3>1. UNCHANGED nand /\ state' = state
      BY <2>1 DEF BaseCheck, Capture, Verify, ReadBackBl2, MarkComplete, AttachExisting,
                  Finish, Status
    <3>2. PICK from \in Steps \ {"idle", "system", "check"},
               to \in Steps \ {"system", "check"} : Goes(p, from, to)
      BY <2>1 DEF BaseCheck, Capture, Verify, ReadBackBl2, MarkComplete, AttachExisting,
                  Finish, Status, AfterInstall, Steps
    <3>3. Knows(p)'
      <4>1. CASE BaseCheck(p)
        <5>1. pc'[p] = "attach" \/ (pc'[p] = "capture" /\ ~header)
          BY <4>1 DEF BaseCheck, Goes, IInv, TypeOK
        <5> QED BY <3>1, <5>1 DEF Knows, Volumes, nand
      <4>2. CASE Capture(p)
        BY <3>1, <4>2 DEF Capture, Goes, IInv, TypeOK, Knows, Volumes, nand
      <4>3. CASE Verify(p)
        BY <3>1, <4>3 DEF Verify, Goes, IInv, TypeOK, Knows, Volumes, nand, ChainGood
      <4>4. CASE ReadBackBl2(p) \/ MarkComplete(p) \/ AttachExisting(p) \/ Finish(p) \/ Status(p)
        <5>1. pc'[p] \in {"mark", "finish", "status", "idle", "base", "exec"}
          BY <4>4 DEF ReadBackBl2, MarkComplete, AttachExisting, Finish, Status, AfterInstall,
                      Goes, IInv, TypeOK
        <5> QED BY <5>1 DEF Knows, Volumes
      <4> QED BY <2>1, <4>1, <4>2, <4>3, <4>4
    <3>4. /\ OneAtATime' /\ BusyOnlyInTransition' /\ AutoWaits' /\ RescueOverChain'
          /\ (\A q \in Procs \ {p} : Knows(q))'
      BY <3>1, <3>2, GoesOn
    <3> QED BY <1>t, <3>1, <3>3, <3>4 DEF IInv, nand, ChainGood
  <2>2. CASE Format(p) \/ MakeVolumes(p) \/ WriteVolume(p) \/ WriteBl2(p)
    <3>1. state' = state
      BY <2>2 DEF Format, MakeVolumes, WriteVolume, WriteBl2
    <3>2. PICK from \in Steps \ {"idle", "system", "check"},
               to \in Steps \ {"system", "check"} : Goes(p, from, to)
      BY <2>2 DEF Format, MakeVolumes, WriteVolume, WriteBl2, NextVolume, Steps, Volumes
    <3>3. /\ OneAtATime' /\ BusyOnlyInTransition' /\ AutoWaits' /\ RescueOverChain'
          /\ (\A q \in Procs \ {p} : Knows(q))'
      BY <3>1, <3>2, GoesOn
    <3>4. HeaderFirst' /\ Bl2Last' /\ Knows(p)'
      <4>1. CASE Format(p)
        BY <4>1 DEF Format, Goes, IInv, TypeOK, Knows, Volumes
      <4>2. CASE MakeVolumes(p)
        BY <4>2 DEF MakeVolumes, Goes, IInv, TypeOK, Knows, Volumes
      <4>3. CASE WriteVolume(p)
        <5>1. pc[p] \in Volumes /\ pc'[p] \in Volumes \cup {"verify"}
          BY <4>3 DEF WriteVolume, Goes, NextVolume, Volumes, IInv, TypeOK
        <5>2. header /\ bl2 = "old" /\ header' = header /\ bl2' = bl2 /\ raw' = raw
          BY <4>3, <5>1 DEF WriteVolume, IInv, Knows
        <5> QED BY <5>1, <5>2 DEF IInv, Knows, Volumes
      <4>4. CASE WriteBl2(p)
        BY <4>4 DEF WriteBl2, Goes, IInv, TypeOK, Knows, Volumes, ChainGood
      <4> QED BY <2>2, <4>1, <4>2, <4>3, <4>4
    <3> QED BY <1>t, <3>3, <3>4 DEF IInv
  <2>3. CASE ExecSysupgrade(p)
    <3>1. UNCHANGED nand /\ Busy(p) /\ mode = "transition" /\ mode' \in {"upgrading", "transition"}
          /\ pc[p] = "exec"
      BY <2>3 DEF ExecSysupgrade, Busy
    <3>2. \A q \in Procs : pc'[q] = "idle"
      BY <2>3, <3>1, Alone DEF ExecSysupgrade, IInv, TypeOK
    <3>3. AutoWaits'
      <4>1. mode' = "transition" => state' \in {state, "FULLFLASH_RETURNED_0"}
        BY <2>3 DEF ExecSysupgrade
      <4> QED BY <3>1, <3>2, <4>1, Alone DEF AutoWaits, SafeStates
    <3>4. RescueOverChain'
      BY <3>1 DEF RescueOverChain
    <3> QED BY <1>t, <3>1, <3>2, <3>3, <3>4, AllIdle DEF IInv, nand, ChainGood
  <2>4. CASE Fail(p)
    <3>1. Busy(p) /\ HalfDone(p) /\ mode' = mode
      BY <2>4 DEF Fail
    <3>2. \A q \in Procs : pc'[q] = "idle"
      BY <2>4, <3>1, Alone DEF Fail, IInv, TypeOK
    <3>3. AutoWaits'
      BY <2>4, <3>1, <3>2, Alone DEF Fail, AutoWaits, SafeStates
    <3>4. RescueOverChain'
      BY <3>1, Alone DEF RescueOverChain
    <3> QED BY <1>t, <3>1, <3>2, <3>3, <3>4, AllIdle, HalfDoneKeeps DEF IInv
  <2> QED BY <1>4, <2>1, <2>2, <2>3, <2>4 DEF Installer
<1>5. CASE Upgrade
  <2>1. PICK c \in {"production", "torn"} : content' = [content EXCEPT !["fit"] = c]
    BY <1>5 DEF Upgrade
  <2>2. ChainGood => ChainGood'
    BY <2>1 DEF ChainGood, Volumes, IInv, TypeOK
  <2>3. UNCHANGED <<raw, header, named, bl2>>
    BY <1>5 DEF Upgrade
  <2>4. PICK m \in {"transition", "production", "rescue", "stuck"} :
            BootInto(m) /\ m = BootTarget(raw, content', bl2)
    BY <1>5, BootTargetType DEF Upgrade
  <2>5. OneAtATime' /\ BusyOnlyInTransition' /\ (\A p \in Procs : Knows(p))' /\ AutoWaits' /\ RescueOverChain'
    BY <2>3, <2>4, Booted
  <2> QED BY <1>t, <2>2, <2>3, <2>5 DEF IInv
<1>6. CASE PowerCut
  <2>1. mode' = "off" /\ \A p \in Procs : pc'[p] = "idle"
    BY <1>6 DEF PowerCut
  <2>2. HeaderFirst' /\ Bl2Last'
    <3>1. CASE \E p \in Procs : HalfDone(p)
      BY <3>1, HalfDoneKeeps
    <3>2. CASE content' = [content EXCEPT !["fit"] = "torn"] /\ UNCHANGED <<raw, header, named, bl2>>
      BY <3>2 DEF IInv, TypeOK, ChainGood, Volumes
    <3> QED BY <1>6, <3>1, <3>2 DEF PowerCut
  <2>3. AutoWaits' /\ RescueOverChain'
    BY <2>1 DEF AutoWaits, RescueOverChain
  <2> QED BY <1>t, <2>1, <2>2, <2>3, AllIdle DEF IInv
<1>7. CASE PowerOn
  <2>1. PICK m \in {"transition", "production", "rescue", "stuck"} :
            BootInto(m) /\ m = BootTarget(raw, content, bl2)
    BY <1>7, BootTargetType DEF PowerOn
  <2>2. UNCHANGED nand
    BY <1>7 DEF PowerOn
  <2>3. OneAtATime' /\ BusyOnlyInTransition' /\ (\A p \in Procs : Knows(p))' /\ AutoWaits' /\ RescueOverChain'
    BY <2>1, <2>2, Booted DEF nand
  <2> QED BY <1>t, <2>2, <2>3 DEF IInv, nand, ChainGood
<1>8. CASE UNCHANGED vars
  BY <1>8, <1>t DEF vars, nand, IInv, OneAtATime, BusyOnlyInTransition, Busy, Knows, ChainGood, AutoWaits, RescueOverChain
<1>9. CASE TakeOver
  <2>1. mode' = "upgrading" /\ (\A p \in Procs : pc'[p] = "idle") /\ UNCHANGED nand
    BY <1>9 DEF TakeOver
  <2>2. AutoWaits' /\ RescueOverChain'
    BY <2>1 DEF AutoWaits, RescueOverChain
  <2> QED BY <1>t, <2>1, <2>2, AllIdle DEF IInv, nand, ChainGood
<1>10. CASE Rescue
  <2>1. UNCHANGED nand /\ BootInto("transition") /\ bl2 = "new" /\ content["fip"] = "good"
    BY <1>10 DEF Rescue, IInv, RescueOverChain
  <2>2. BootTarget(raw', content', bl2') # "stuck"
    BY <2>1 DEF nand, BootTarget
  <2>3. OneAtATime' /\ BusyOnlyInTransition' /\ (\A p \in Procs : Knows(p))' /\ AutoWaits' /\ RescueOverChain'
    BY <2>1, <2>2, Booted
  <2> QED BY <1>t, <2>1, <2>3 DEF IInv, nand, ChainGood
<1> QED BY <1>1, <1>2, <1>3, <1>4, <1>5, <1>6, <1>7, <1>8, <1>9, <1>10 DEF Next

LEMMA Inductive == ASSUME ~Overlap PROVE Spec => []IInv
  BY InitIInv, StepIInv, PTL DEF Spec

\* BL2 is written last, whatever failed or was cut and retried before: a BL2 that
\* left its stock value stands over verified bosa, ri and fip volumes.
THEOREM Bl2WrittenLast == ASSUME ~Overlap PROVE Spec => []Bl2Last
<1>1. IInv => Bl2Last
  BY DEF IInv
<1> QED BY <1>1, Inductive, PTL

\* SAFE_TO_POWER_CYCLE=1 is never published over a NAND that would not boot.
THEOREM SafeStatesAreSafe == ASSUME ~Overlap PROVE Spec => []SafeToPowerCycleIsTrue
<1>1. IInv => SafeToPowerCycleIsTrue
  BY DEF IInv, SafeToPowerCycleIsTrue, AutoWaits, SafeStates
<1> QED BY <1>1, Inductive, PTL

\* Stage 2 implements the staged switch: payload the UBI volumes, selector BL2.
THEOREM StageTwoRefinesSwitch == ASSUME ~Overlap PROVE Spec => ImplementsSwitch
<1> USE DEF HeaderFirst, Bl2Last
<1>1. Init => Switch!Init
  BY DEF Init, Switch!Init
<1>2. IInv /\ [Next]_vars => [Switch!Next]_(Switch!vars)
  <2> SUFFICES ASSUME IInv, [Next]_vars PROVE [Switch!Next]_(Switch!vars)
    OBVIOUS
  <2> USE DEF Switch!Next, Switch!Stage, Switch!Switch, Switch!vars
  <2>1. ASSUME raw' = raw, bl2' = bl2, ChainGood' = ChainGood PROVE UNCHANGED Switch!vars
    BY <2>1
  <2>2. ASSUME raw' # "intact", bl2 = "old", bl2' = "old" PROVE Switch!Stage
    BY <2>2
  <2>3. ASSUME header, ChainGood, bl2 = "old", bl2' \in {"torn", "new"}, UNCHANGED <<raw, content>>
        PROVE  Switch!Switch
    BY <2>3 DEF IInv, ChainGood
  <2>4. ASSUME UNCHANGED nand PROVE UNCHANGED Switch!vars
    BY <2>1, <2>4 DEF nand, ChainGood
  <2>5. ASSUME NEW p \in Procs, HalfDone(p) PROVE [Switch!Next]_(Switch!vars)
    <3>1. CASE pc[p] = "format" /\ ~UNCHANGED nand
      BY <2>2, <2>5, <3>1 DEF HalfDone, IInv, Knows, Volumes
    <3>2. CASE pc[p] \in Volumes /\ ~UNCHANGED nand
      BY <2>2, <2>5, <3>2 DEF HalfDone, IInv, Knows, Volumes
    <3>3. CASE pc[p] = "bl2" /\ ~UNCHANGED nand
      BY <2>3, <2>5, <3>3 DEF HalfDone, IInv, Knows, Volumes
    <3> QED BY <2>4, <2>5, <3>1, <3>2, <3>3 DEF HalfDone
  <2>6. ASSUME NEW c, content' = [content EXCEPT !["fit"] = c], UNCHANGED <<raw, bl2>>
        PROVE  UNCHANGED Switch!vars
    BY <2>1, <2>6 DEF ChainGood, Volumes, IInv, TypeOK
  <2>7. ASSUME NEW p \in Procs, Installer(p) PROVE [Switch!Next]_(Switch!vars)
    <3>1. CASE Format(p)
      BY <2>2, <3>1 DEF Format, Goes, IInv, Knows
    <3>2. CASE WriteVolume(p)
      BY <2>2, <3>2 DEF WriteVolume, IInv, Knows
    <3>3. CASE WriteBl2(p)
      BY <2>3, <3>3 DEF WriteBl2, Goes, IInv, Knows
    <3>4. CASE MakeVolumes(p)
      BY <2>1, <3>4 DEF MakeVolumes, ChainGood
    <3>5. CASE Fail(p)
      BY <2>5, <3>5 DEF Fail
    <3>6. CASE BaseCheck(p) \/ Capture(p) \/ Verify(p) \/ ReadBackBl2(p) \/ MarkComplete(p)
               \/ AttachExisting(p) \/ Finish(p) \/ Status(p) \/ ExecSysupgrade(p)
      BY <2>4, <3>6 DEF BaseCheck, Capture, Verify, ReadBackBl2, MarkComplete, AttachExisting,
                        Finish, Status, ExecSysupgrade
    <3> QED BY <2>7, <3>1, <3>2, <3>3, <3>4, <3>5, <3>6 DEF Installer
  <2>8. CASE AutoWait \/ AutoCheck \/ TakeOver \/ PowerOn \/ Rescue
    BY <2>4, <2>8 DEF AutoWait, AutoCheck, TakeOver, PowerOn, Rescue
  <2>9. ASSUME NEW p \in Operators, NEW c \in Commands, Run(p, c) PROVE UNCHANGED Switch!vars
    BY <2>4, <2>9 DEF Run
  <2>10. CASE Upgrade
    BY <2>6, <2>10 DEF Upgrade
  <2>11. CASE PowerCut
    BY <2>5, <2>6, <2>11 DEF PowerCut
  <2>12. CASE UNCHANGED vars
    BY <2>4, <2>12 DEF vars, nand
  <2> QED BY <2>7, <2>8, <2>9, <2>10, <2>11, <2>12 DEF Next
<1> QED BY <1>1, <1>2, Inductive, PTL DEF Spec, ImplementsSwitch, Switch!Spec

(***************************************************************************)
(* The MF write gate, overlapping commands included.                       *)
(***************************************************************************)
GateInv ==
    /\ TypeOK
    /\ FormatOnlyIfBl2Writable
    /\ \A p \in Procs : pc[p] \in {"capture", "format"} => bl2Writable

LEMMA GateStep == ASSUME Bl2Gate PROVE GateInv /\ [Next]_vars => GateInv'
<1> SUFFICES ASSUME GateInv, [Next]_vars PROVE GateInv'
  OBVIOUS
<1>t. TypeOK'
  BY TypeStep DEF GateInv
<1>1. bl2Writable' = bl2Writable
  BY DEF Next, AutoWait, AutoCheck, Run, Installer, BaseCheck, Capture, Format, MakeVolumes,
         WriteVolume, Verify, WriteBl2, ReadBackBl2, MarkComplete, AttachExisting, Finish,
         Status, ExecSysupgrade, Fail, Goes, TakeOver, Upgrade, PowerCut, PowerOn, Rescue, BootInto, vars
<1>2. ASSUME ~bl2Writable PROVE raw' = raw
  <2>1. \A p \in Procs : pc[p] # "format"
    BY <1>2 DEF GateInv
  <2>2. ASSUME NEW p \in Procs, HalfDone(p) PROVE raw' = raw
    BY <2>1, <2>2 DEF HalfDone, nand, Volumes
  <2> QED BY <2>1, <2>2
          DEF Next, AutoWait, AutoCheck, Run, Installer, BaseCheck, Capture, Format, MakeVolumes,
              WriteVolume, Verify, WriteBl2, ReadBackBl2, MarkComplete, AttachExisting, Finish,
              Status, ExecSysupgrade, Fail, Goes, TakeOver, Upgrade, PowerCut, PowerOn, Rescue, vars, nand
<1>3. ASSUME NEW q \in Procs, pc'[q] \in {"capture", "format"}, pc'[q] # pc[q] PROVE bl2Writable
  <2>1. CASE AutoWait \/ AutoCheck
    BY <1>3, <2>1 DEF AutoWait, AutoCheck, Goes, GateInv, TypeOK
  <2>2. ASSUME NEW p \in Operators, NEW c \in Commands, Run(p, c) PROVE bl2Writable
    BY <1>3, <2>2 DEF Run, GateInv, TypeOK
  <2>3. ASSUME NEW p \in Procs, Installer(p) PROVE bl2Writable
    <3>1. CASE BaseCheck(p)
      BY <3>1 DEF BaseCheck
    <3>2. CASE Capture(p)
      BY <3>2 DEF Capture, Goes, GateInv
    <3>3. CASE ~BaseCheck(p) /\ ~Capture(p)
      BY <1>3, <2>3, <3>3 DEF Installer, Format, MakeVolumes, WriteVolume, NextVolume, Verify,
              WriteBl2, ReadBackBl2, MarkComplete, AttachExisting, AfterInstall, Finish, Status,
              ExecSysupgrade, Fail, Goes, GateInv, TypeOK
    <3> QED BY <3>1, <3>2, <3>3
  <2>4. CASE Upgrade \/ PowerOn \/ Rescue
    <3>1. \A p \in Procs : pc'[p] \in {"idle", "system"}
      BY <2>4 DEF Upgrade, PowerOn, Rescue, BootInto, Started
    <3> QED BY <1>3, <3>1
  <2>5. CASE TakeOver \/ PowerCut \/ UNCHANGED vars
    BY <1>3, <2>5 DEF TakeOver, PowerCut, vars
  <2> QED BY <2>1, <2>2, <2>3, <2>4, <2>5 DEF Next
<1> QED BY <1>t, <1>1, <1>2, <1>3 DEF GateInv, FormatOnlyIfBl2Writable

\* MF: no command formats the NAND under a device tree that keeps BL2 read-only,
\* because it could then not finish what it began.
THEOREM GateBeforeFormat == ASSUME Bl2Gate PROVE Spec => []FormatOnlyIfBl2Writable
<1>1. Init => GateInv
  <2> SUFFICES ASSUME Init PROVE GateInv
    OBVIOUS
  <2>1. \A p \in Procs : pc[p] \in {"idle", "system"}
    BY DEF Init, Started
  <2> QED BY <2>1, InitType DEF Init, GateInv, FormatOnlyIfBl2Writable
<1>2. GateInv => FormatOnlyIfBl2Writable
  BY DEF GateInv
<1> QED BY <1>1, <1>2, GateStep, PTL DEF Spec

(***************************************************************************)
(* Autoflash alone: nobody types a command beside it.                      *)
(***************************************************************************)
\* What a boot finds before autoflash has begun: it can be booted again.
Bootable == IF bl2 = "old" THEN raw = "intact" /\ ~header ELSE raw = "gone"

AllGood == \A v \in Volumes : content[v] = "good"

\* What the NAND holds at each step, and that complete is set by the last one.
\* The attach path is never taken: over UBI headers there is no image to flash.
StepKnows ==
    LET at == pc["auto"] IN
    /\ at \in {"system", "check"} => Bootable /\ state \in SafeStates /\ ~image /\ ~complete
    /\ at \in {"base", "capture", "format"} => raw = "intact" /\ ~header /\ bl2 = "old" /\ ~complete
    /\ at \in Volumes \cup {"mkvol", "verify", "bl2"} => raw = "gone" /\ bl2 = "old" /\ ~complete
    /\ at \in {"bl2", "bl2read", "mark"} => raw = "gone" /\ AllGood /\ ~complete
    /\ at \in {"mark", "finish", "status", "exec"} => bl2 = "new" /\ AllGood
    /\ at \in {"finish", "status", "exec"} => complete
    /\ at \notin {"idle", "system", "check"} => state = "FORMATTING_AND_FLASHING"

\* What the log of autoflash says at each step.
LogKnows ==
    LET at == pc["auto"] IN
    /\ at \in {"system", "check", "base", "capture"} => logged = 0
    /\ at \in {"format", "mkvol"} \cup Volumes => logged = 1
    /\ at \in {"verify", "bl2", "bl2read"} => logged = 6
    /\ at \in {"mark", "finish", "status", "exec"} => logged = 8

\* The 0 of fullflash is published after the marker, and autoflash has ended.
Returned == mode = "transition" /\ state = "FULLFLASH_RETURNED_0" =>
                complete /\ pc["auto"] = "idle"

AutoInv ==
    /\ TypeOK
    /\ cmd["auto"] = "fullflash" /\ pc["auto"] # "attach"
    /\ pc["auto"] # "idle" => mode = "transition"
    /\ bl2 = "old" => (raw = "intact" => ~header)
    /\ bl2 # "old" => raw = "gone"
    /\ StepKnows
    /\ LogKnows
    /\ Returned
    /\ RescueOverChain
    /\ CompleteMeansVerified
    /\ mode = "upgrading" => bl2 = "new" /\ ChainGood /\ pc["auto"] = "idle"

\* With no operator the installer runs in one process.
LEMMA AutoOnly ==
    ASSUME Operators = {}, [Next]_vars
    PROVE  \/ AutoWait \/ AutoCheck \/ Installer("auto")
           \/ TakeOver \/ Upgrade \/ PowerCut \/ PowerOn \/ Rescue \/ UNCHANGED vars
<1>1. \A p \in Procs : p = "auto"
  OBVIOUS
<1> QED BY <1>1 DEF Next

LEMMA AutoGoes ==
    ASSUME AutoInv, NEW from, NEW to, Goes("auto", from, to)
    PROVE  /\ mode = "transition" /\ mode' = mode /\ cmd' = cmd
           /\ pc["auto"] = from /\ pc'["auto"] = to
           /\ Number(to) # 0 => logged' = Number(to)
           /\ Number(to) = 0 => logged' = logged
BY DEF Goes, AutoInv, TypeOK

\* The log goes with the step.
LEMMA LogGoes ==
    ASSUME AutoInv, NEW from, NEW to, Goes("auto", from, to), to # "system",
           to \in {"check", "base", "capture"} => from \in {"system", "check", "base"}
    PROVE  LogKnows'
<1>1. /\ pc["auto"] = from /\ pc'["auto"] = to
      /\ Number(to) # 0 => logged' = Number(to)
      /\ Number(to) = 0 => logged' = logged
  BY AutoGoes
<1>2. CASE Number(to) = 0
  <2>1. to \notin {"format", "mkvol", "verify", "bl2", "bl2read", "mark", "finish", "status", "exec"} \cup Volumes
    BY <1>2 DEF Number, Volumes
  <2>2. to \in {"system", "check", "base", "capture"} => logged = 0
    BY <1>1 DEF AutoInv, LogKnows
  <2> QED BY <1>1, <1>2, <2>1, <2>2 DEF LogKnows
<1>3. CASE Number(to) # 0
  BY <1>1, <1>3 DEF Number, LogKnows, Volumes
<1> QED BY <1>2, <1>3

\* The steps of autoflash that end it or boot the board.
LEMMA LogEnds ==
    ASSUME pc'["auto"] = "idle" \/ (pc'["auto"] = "system" /\ logged' = 0)
    PROVE  LogKnows'
BY DEF LogKnows, Volumes
\* A boot into m over the NAND it finds.
LEMMA AutoBooted ==
    ASSUME NEW m, BootInto(m), m \in {"transition", "production", "rescue", "stuck"},
           m = "transition" => Bootable'
    PROVE  /\ cmd'["auto"] = "fullflash" /\ pc'["auto"] \in {"idle", "system"}
           /\ pc'["auto"] # "idle" => mode' = "transition"
           /\ StepKnows' /\ LogKnows' /\ Returned' /\ ~complete' /\ mode' = m /\ m # "upgrading"
           /\ state' = "BOOTING" /\ logged' = 0
<1>1. /\ cmd'["auto"] = "fullflash" /\ mode' = m /\ state' = "BOOTING" /\ image' = FALSE /\ complete' = FALSE
      /\ pc'["auto"] \in {"idle", "system"}
      /\ pc'["auto"] = "system" => m = "transition"
      /\ logged' = 0
  BY DEF BootInto, Started
<1>2. StepKnows'
  BY <1>1 DEF StepKnows, Volumes, SafeStates
<1>3. LogKnows' /\ Returned'
  BY <1>1, LogEnds DEF Returned
<1> QED BY <1>1, <1>2, <1>3

\* What an interrupted operation of autoflash leaves.
LEMMA AutoHalfDone ==
    ASSUME AutoInv, HalfDone("auto")
    PROVE  /\ bl2' = "old" => (raw' = "intact" => ~header')
           /\ bl2' # "old" => raw' = "gone"
           /\ complete => bl2' = bl2 /\ content' = content
<1> USE DEF AutoInv, StepKnows
<1>1. CASE UNCHANGED nand
  BY <1>1 DEF nand
<1>2. CASE pc["auto"] = "format" /\ ~UNCHANGED nand
  BY <1>2 DEF HalfDone, Volumes
<1>3. CASE pc["auto"] \in Volumes /\ ~UNCHANGED nand
  BY <1>3 DEF HalfDone, Volumes
<1>4. CASE pc["auto"] = "bl2" /\ ~UNCHANGED nand
  BY <1>4 DEF HalfDone, Volumes
<1> QED BY <1>1, <1>2, <1>3, <1>4 DEF HalfDone

LEMMA AutoStep == ASSUME Operators = {} PROVE AutoInv /\ [Next]_vars => AutoInv'
<1> SUFFICES ASSUME AutoInv, [Next]_vars PROVE AutoInv'
  OBVIOUS
<1>t. TypeOK'
  BY TypeStep DEF AutoInv
<1> USE DEF CompleteMeansVerified
<1>1. CASE AutoWait \/ AutoCheck
  <2>1. /\ UNCHANGED <<nand, complete>> /\ mode' = "transition" /\ cmd' = cmd
        /\ \/ pc["auto"] = "system" /\ pc'["auto"] = "check" /\ state' = "CHECKING" /\ image' = image
           \/ /\ pc["auto"] = "check" /\ pc'["auto"] = "base"
              /\ image \/ raw # "gone"
              /\ state' = "FORMATTING_AND_FLASHING"
    BY <1>1, AutoGoes DEF AutoWait, AutoCheck
  <2>2. StepKnows'
    BY <2>1 DEF AutoInv, StepKnows, Bootable, nand, Volumes, SafeStates
  <2>3. LogKnows'
    BY <1>1, LogGoes DEF AutoWait, AutoCheck
  <2>4. Returned' /\ RescueOverChain'
    BY <2>1 DEF Returned, RescueOverChain
  <2> QED BY <1>t, <2>1, <2>2, <2>3, <2>4 DEF AutoInv, nand, ChainGood
<1>2. CASE Installer("auto")
  <2>1. CASE \/ BaseCheck("auto") \/ Capture("auto") \/ Verify("auto") \/ ReadBackBl2("auto")
             \/ MarkComplete("auto") \/ AttachExisting("auto") \/ Finish("auto") \/ Status("auto")
    <3>1. UNCHANGED nand /\ state' = state /\ mode = "transition" /\ mode' = mode /\ cmd' = cmd
      BY <2>1, AutoGoes DEF BaseCheck, Capture, Verify, ReadBackBl2, MarkComplete, AttachExisting, Finish, Status
    <3>2. \/ pc["auto"] = "base" /\ pc'["auto"] = "capture" /\ complete' = complete
          \/ pc["auto"] = "capture" /\ pc'["auto"] = "format" /\ complete' = complete
          \/ pc["auto"] = "verify" /\ pc'["auto"] = "bl2" /\ AllGood /\ complete' = complete
          \/ pc["auto"] = "bl2read" /\ pc'["auto"] = "mark" /\ bl2 = "new" /\ complete' = complete
          \/ pc["auto"] = "mark" /\ pc'["auto"] = "finish" /\ complete' = TRUE
          \/ pc["auto"] = "finish" /\ pc'["auto"] = "status" /\ complete' = complete
          \/ pc["auto"] = "status" /\ pc'["auto"] = "exec" /\ complete' = complete
      <4>1. CASE BaseCheck("auto")
        BY <4>1, AutoGoes DEF BaseCheck, AutoInv, StepKnows
      <4>2. CASE Capture("auto")
        BY <4>2, AutoGoes DEF Capture
      <4>3. CASE Verify("auto")
        BY <4>3, AutoGoes DEF Verify, AllGood
      <4>4. CASE ReadBackBl2("auto")
        BY <4>4, AutoGoes DEF ReadBackBl2
      <4>5. CASE MarkComplete("auto")
        BY <4>5, AutoGoes DEF MarkComplete, AfterInstall, AutoInv
      <4>6. CASE AttachExisting("auto")
        BY <4>6, AutoGoes DEF AttachExisting, AutoInv
      <4>7. CASE Finish("auto")
        BY <4>7, AutoGoes DEF Finish, AutoInv
      <4>8. CASE Status("auto")
        BY <4>8, AutoGoes DEF Status
      <4> QED BY <2>1, <4>1, <4>2, <4>3, <4>4, <4>5, <4>6, <4>7, <4>8
    <3>3. StepKnows'
      BY <3>1, <3>2 DEF AutoInv, StepKnows, AllGood, nand, Volumes
    <3>4. CompleteMeansVerified'
      BY <3>1, <3>2 DEF AutoInv, StepKnows, AllGood, ChainGood, nand
    <3>5. PICK from, to \in Steps : Goes("auto", from, to)
      BY <2>1 DEF BaseCheck, Capture, Verify, ReadBackBl2, MarkComplete, AttachExisting, Finish,
                  Status, AfterInstall, Steps
    <3>6. pc["auto"] = from /\ pc'["auto"] = to
      BY <3>5, AutoGoes
    <3>7. LogKnows'
      BY <3>2, <3>5, <3>6, LogGoes
    <3>8. Returned' /\ RescueOverChain'
      BY <3>1, <3>2 DEF Returned, RescueOverChain, AutoInv, StepKnows, SafeStates
    <3> QED BY <1>t, <3>1, <3>2, <3>3, <3>4, <3>7, <3>8 DEF AutoInv, nand
  <2>2. CASE Format("auto") \/ MakeVolumes("auto") \/ WriteVolume("auto") \/ WriteBl2("auto")
    <3>1. state' = state /\ complete' = complete /\ mode = "transition" /\ mode' = mode /\ cmd' = cmd
      BY <2>2, AutoGoes DEF Format, MakeVolumes, WriteVolume, WriteBl2
    <3>2. \/ /\ pc["auto"] = "format" /\ pc'["auto"] = "mkvol"
             /\ raw' = "gone" /\ bl2' = bl2
          \/ pc["auto"] = "mkvol" /\ pc'["auto"] = "bosa" /\ UNCHANGED <<raw, bl2>>
          \/ pc["auto"] \in Volumes /\ pc'["auto"] \in Volumes \cup {"verify"} /\ UNCHANGED <<raw, bl2>>
          \/ pc["auto"] = "bl2" /\ pc'["auto"] = "bl2read" /\ UNCHANGED <<raw, content>>
      <4>1. CASE Format("auto")
        BY <4>1, AutoGoes DEF Format
      <4>2. CASE MakeVolumes("auto")
        BY <4>2, AutoGoes DEF MakeVolumes
      <4>3. CASE WriteVolume("auto")
        BY <4>3, AutoGoes DEF WriteVolume, NextVolume, Volumes
      <4>4. CASE WriteBl2("auto")
        BY <4>4, AutoGoes DEF WriteBl2
      <4> QED BY <2>2, <4>1, <4>2, <4>3, <4>4
    <3>3. StepKnows'
      BY <3>1, <3>2 DEF AutoInv, StepKnows, AllGood, Volumes
    <3>4. ~complete
      BY <3>2 DEF AutoInv, StepKnows, Volumes
    <3>5. PICK from, to \in Steps : Goes("auto", from, to)
      BY <2>2 DEF Format, MakeVolumes, WriteVolume, WriteBl2, NextVolume, Steps, Volumes
    <3>6. pc["auto"] = from /\ pc'["auto"] = to
      BY <3>5, AutoGoes
    <3>7. LogKnows'
      BY <3>2, <3>5, <3>6, LogGoes DEF Volumes
    <3>8. Returned' /\ RescueOverChain'
      BY <3>1, <3>2 DEF Returned, RescueOverChain, AutoInv, StepKnows, SafeStates, Volumes
    <3> QED BY <1>t, <3>1, <3>2, <3>3, <3>4, <3>7, <3>8 DEF AutoInv, StepKnows, Volumes
  <2>3. CASE ExecSysupgrade("auto")
    <3>1. /\ pc["auto"] = "exec" /\ pc'["auto"] = "idle"
          /\ mode' \in {"upgrading", "transition"}
          /\ UNCHANGED <<nand, complete, cmd>>
      BY <2>3 DEF ExecSysupgrade, AutoInv, TypeOK
    <3>2. bl2 = "new" /\ ChainGood /\ complete
      BY <3>1 DEF AutoInv, StepKnows, AllGood, ChainGood
    <3>3. StepKnows' /\ LogKnows'
      BY <3>1, LogEnds DEF StepKnows, Volumes
    <3>4. Returned' /\ RescueOverChain'
      BY <3>1, <3>2 DEF Returned, RescueOverChain
    <3> QED BY <1>t, <3>1, <3>2, <3>3, <3>4 DEF AutoInv, nand, ChainGood
  <2>4. CASE Fail("auto")
    <3>1. /\ pc'["auto"] = "idle" /\ mode' = "transition" /\ HalfDone("auto")
          /\ UNCHANGED <<complete, cmd>>
      BY <2>4 DEF Fail, AutoInv, TypeOK
    <3>2. StepKnows' /\ LogKnows'
      BY <3>1, LogEnds DEF StepKnows, Volumes
    <3>3. CompleteMeansVerified'
      BY <3>1, AutoHalfDone DEF AutoInv, ChainGood
    <3>4. Returned' /\ RescueOverChain'
      BY <2>4, <3>1 DEF Fail, Returned, RescueOverChain
    <3> QED BY <1>t, <3>1, <3>2, <3>3, <3>4, AutoHalfDone DEF AutoInv
  <2> QED BY <1>2, <2>1, <2>2, <2>3, <2>4 DEF Installer
<1>3. CASE Upgrade
  <2>1. UNCHANGED <<raw, header, named, bl2>> /\ bl2 = "new"
    BY <1>3 DEF Upgrade, AutoInv
  <2>2. PICK m \in {"transition", "production", "rescue", "stuck"} :
            BootInto(m) /\ m = BootTarget(raw, content', bl2)
    BY <1>3, BootTargetType DEF Upgrade
  <2>3. Bootable'
    BY <2>1 DEF Bootable, AutoInv
  <2>4. RescueOverChain'
    BY <2>1, <2>2 DEF BootInto, RescueOverChain, BootTarget
  <2> QED BY <1>t, <2>1, <2>2, <2>3, <2>4, AutoBooted DEF AutoInv
<1>4. CASE PowerCut
  <2>1. mode' = "off" /\ pc'["auto"] = "idle" /\ ~complete' /\ cmd' = cmd
    BY <1>4 DEF PowerCut
  <2>2. /\ bl2' = "old" => (raw' = "intact" => ~header')
        /\ bl2' # "old" => raw' = "gone"
    <3>1. CASE HalfDone("auto")
      BY <3>1, AutoHalfDone
    <3>2. CASE UNCHANGED <<raw, header, named, bl2>>
      BY <3>2 DEF AutoInv
    <3> QED BY <1>4, <3>1, <3>2 DEF PowerCut
  <2>3. StepKnows' /\ LogKnows'
    BY <2>1, LogEnds DEF StepKnows, Volumes
  <2>4. Returned' /\ RescueOverChain'
    BY <2>1 DEF Returned, RescueOverChain
  <2> QED BY <1>t, <2>1, <2>2, <2>3, <2>4 DEF AutoInv
<1>5. CASE PowerOn
  <2>1. UNCHANGED nand
    BY <1>5 DEF PowerOn
  <2>2. PICK m \in {"transition", "production", "rescue", "stuck"} :
            BootInto(m) /\ m = BootTarget(raw, content, bl2)
    BY <1>5, BootTargetType DEF PowerOn
  <2>3. m = "transition" => Bootable'
    BY <2>1, <2>2 DEF BootTarget, Bootable, AutoInv, nand
  <2>4. RescueOverChain'
    BY <2>1, <2>2 DEF BootInto, RescueOverChain, BootTarget, nand
  <2> QED BY <1>t, <2>1, <2>2, <2>3, <2>4, AutoBooted DEF AutoInv, nand
<1>6. CASE UNCHANGED vars
  BY <1>6, <1>t DEF vars, nand, AutoInv, StepKnows, LogKnows, Returned, RescueOverChain, Bootable,
                    AllGood, ChainGood
<1>7. CASE TakeOver
  <2>1. /\ mode = "transition" /\ state = "FULLFLASH_RETURNED_0" /\ mode' = "upgrading"
        /\ pc'["auto"] = "idle" /\ UNCHANGED <<nand, complete, cmd>>
    BY <1>7 DEF TakeOver
  <2>2. bl2 = "new" /\ ChainGood
    BY <2>1 DEF AutoInv, Returned
  <2>3. StepKnows' /\ LogKnows' /\ Returned' /\ RescueOverChain'
    BY <2>1, LogEnds DEF StepKnows, Volumes, Returned, RescueOverChain
  <2> QED BY <1>t, <2>1, <2>2, <2>3 DEF AutoInv, nand, ChainGood
<1>8. CASE Rescue
  <2>1. UNCHANGED nand /\ BootInto("transition") /\ bl2 = "new"
    BY <1>8 DEF Rescue, AutoInv, RescueOverChain
  <2>2. Bootable'
    BY <2>1 DEF Bootable, AutoInv, nand
  <2>3. RescueOverChain'
    BY <2>1 DEF BootInto, RescueOverChain
  <2> QED BY <1>t, <2>1, <2>2, <2>3, AutoBooted DEF AutoInv, nand
<1> QED BY <1>1, <1>2, <1>3, <1>4, <1>5, <1>6, <1>7, <1>8, AutoOnly

LEMMA AutoInductive == ASSUME Operators = {} PROVE Spec => []AutoInv
<1>1. Init => AutoInv
  <2> SUFFICES ASSUME Init PROVE AutoInv
    OBVIOUS
  <2>1. pc["auto"] \in {"idle", "system"} /\ cmd["auto"] = "fullflash"
    BY DEF Init, Started
  <2>2. StepKnows
    BY <2>1 DEF Init, StepKnows, Bootable, Volumes, SafeStates
  <2>3. LogKnows /\ Returned /\ RescueOverChain
    BY <2>1 DEF Init, LogKnows, Returned, RescueOverChain, Volumes
  <2> QED BY <2>1, <2>2, <2>3, InitType DEF Init, AutoInv, CompleteMeansVerified
<1> QED BY <1>1, AutoStep, PTL DEF Spec

\* Autoflash alone marks a migration complete only over volumes it has verified and
\* a BL2 it has read back, whatever failed or was cut before.
THEOREM CompleteIsTrue == ASSUME Operators = {} PROVE Spec => []CompleteMeansVerified
<1>1. AutoInv => CompleteMeansVerified
  BY DEF AutoInv
<1> QED BY <1>1, AutoInductive, PTL

ShownFit == IF BootChain # "new" THEN "none"
            ELSE IF content["fit"] = "good" THEN "transition"
            ELSE IF content["fit"] = "production" THEN "production" ELSE "none"

\* A power cut leaves what the board of the watch survives with.
LEMMA SurvivorIsBootTarget ==
    ASSUME NEW r, NEW c, NEW b
    PROVE  LET chain == IF b = "new" /\ c["fip"] = "good" THEN "new"
                        ELSE IF b = "old" /\ r = "intact" THEN "old" ELSE "none"
               found == IF chain # "new" THEN "none"
                        ELSE IF c["fit"] = "good" THEN "transition"
                        ELSE IF c["fit"] = "production" THEN "production" ELSE "none"
           IN  Shown!Survivor(chain, found) = BootTarget(r, c, b)
BY DEF Shown!Survivor, BootTarget

\* A step that leaves the NAND, or only what the board does not show of it.
LEMMA NandNotShown ==
    ASSUME BootChain' = BootChain, content' = content \/ BootChain # "new"
    PROVE  ShownFit' = ShownFit
BY DEF ShownFit

LEMMA ShownHalfDone ==
    ASSUME AutoInv, HalfDone("auto")
    PROVE  /\ \/ BootChain' = BootChain
              \/ /\ BootChain' = "none" /\ BootChain # "new"
                 /\ logged \in {1, 6} /\ mode = "transition"
                 /\ state = "FORMATTING_AND_FLASHING"
           /\ ShownFit' = ShownFit
<1>1. ASSUME UNCHANGED nand PROVE BootChain' = BootChain /\ ShownFit' = ShownFit
  BY <1>1 DEF nand, BootChain, ShownFit
<1>2. ASSUME BootChain # "new", BootChain' # "new" PROVE ShownFit' = ShownFit
  BY <1>2 DEF ShownFit
<1>3. CASE pc["auto"] = "format" /\ ~UNCHANGED nand
  <2>1. BootChain = "old" /\ BootChain' = "none" /\ logged = 1 /\ mode = "transition"
        /\ state = "FORMATTING_AND_FLASHING"
    BY <1>3 DEF HalfDone, BootChain, Volumes, AutoInv, StepKnows, LogKnows
  <2> QED BY <1>2, <2>1
<1>4. CASE pc["auto"] \in Volumes /\ ~UNCHANGED nand
  <2>1. BootChain = "none" /\ BootChain' = "none"
    BY <1>4 DEF HalfDone, BootChain, Volumes, AutoInv, StepKnows
  <2> QED BY <1>2, <2>1
<1>5. CASE pc["auto"] = "bl2" /\ ~UNCHANGED nand
  <2>1. BootChain = "none" /\ BootChain' = "none"
    BY <1>5 DEF HalfDone, BootChain, Volumes, AutoInv, StepKnows
  <2> QED BY <1>2, <2>1
<1> QED BY <1>1, <1>3, <1>4, <1>5 DEF HalfDone

\* Stage 2 with autoflash alone implements the board the PC watches: the states it
\* publishes, the steps of its log, its marker and the boot chain in NAND go together
\* as the watch takes them to, over failures, sysupgrade and power cuts.
THEOREM StageTwoRefinesBoard == ASSUME Operators = {} PROVE Spec => ImplementsBoard
<1>1. Init => Shown!BoardInit
  <2> SUFFICES ASSUME Init PROVE Shown!BoardInit
    OBVIOUS
  <2> QED BY DEF Init, Shown!BoardInit, BootChain
<1>2. AutoInv /\ AutoInv' /\ [Next]_vars => [Shown!BoardNext]_(Shown!boardvars)
  <2> SUFFICES ASSUME AutoInv, AutoInv', [Next]_vars PROVE [Shown!BoardNext]_(Shown!boardvars)
    OBVIOUS
  <2> USE DEF Shown!BoardNext, Shown!BoardAlone
  <2>s. ASSUME UNCHANGED <<mode, state, complete>>, logged' = logged,
               BootChain' = BootChain, ShownFit' = ShownFit
        PROVE  UNCHANGED Shown!boardvars
    BY <2>s DEF Shown!boardvars, ShownFit
  <2>c. ASSUME UNCHANGED nand PROVE BootChain' = BootChain /\ ShownFit' = ShownFit
    BY <2>c DEF nand, BootChain, ShownFit
  <2>1. CASE AutoWait
    <3>1. /\ mode = "transition" /\ mode' = mode /\ pc["auto"] = "system" /\ pc'["auto"] = "check"
          /\ state' = "CHECKING" /\ UNCHANGED <<nand, complete>>
      BY <2>1, AutoGoes DEF AutoWait
    <3>2. logged = 0 /\ logged' = 0 /\ state \in SafeStates
      BY <3>1 DEF AutoInv, StepKnows, LogKnows
    <3>3. Shown!Settle
      BY <2>c, <3>1, <3>2 DEF Shown!Settle, Shown!Safe, SafeStates, ShownFit
    <3> QED BY <3>3
  <2>2. CASE AutoCheck
    <3>1. /\ mode = "transition" /\ mode' = mode /\ pc["auto"] = "check" /\ pc'["auto"] = "base"
          /\ state' = "FORMATTING_AND_FLASHING" /\ UNCHANGED <<nand, complete>>
          /\ image \/ raw # "gone"
      BY <2>2, AutoGoes DEF AutoCheck
    <3>2. logged = 0 /\ logged' = 0 /\ state \in SafeStates /\ raw = "intact" /\ bl2 = "old"
      BY <3>1 DEF AutoInv, StepKnows, LogKnows, Bootable
    <3>3. Shown!BeginFlash
      BY <2>c, <3>1, <3>2 DEF Shown!BeginFlash, Shown!Safe, SafeStates, ShownFit, BootChain
    <3> QED BY <3>3
  <2>3. CASE Installer("auto")
    <3>1. CASE BaseCheck("auto")
      BY <3>1, <2>s, <2>c, AutoGoes DEF BaseCheck, AutoInv, StepKnows, LogKnows
    <3>2. CASE Capture("auto")
      <4>1. /\ pc["auto"] = "capture" /\ pc'["auto"] = "format" /\ mode = "transition"
            /\ UNCHANGED <<mode, state, complete, nand>>
        BY <3>2, AutoGoes DEF Capture
      <4>2. logged = 0 /\ logged' = 1 /\ state = "FORMATTING_AND_FLASHING"
        BY <4>1 DEF AutoInv, StepKnows, LogKnows
      <4>3. Shown!Format
        BY <2>c, <4>1, <4>2 DEF Shown!Format, Shown!Flashing, ShownFit
      <4> QED BY <4>3
    <3>3. CASE Format("auto")
      <4>1. /\ pc["auto"] = "format" /\ pc'["auto"] = "mkvol" /\ mode = "transition"
            /\ UNCHANGED <<mode, state, complete, bl2>> /\ raw' = "gone"
        BY <3>3, AutoGoes DEF Format
      <4>2. /\ logged = 1 /\ logged' = 1 /\ state = "FORMATTING_AND_FLASHING"
            /\ bl2 = "old" /\ raw = "intact"
        BY <4>1 DEF AutoInv, StepKnows, LogKnows
      <4>3. BootChain' = "none" /\ BootChain = "old"
        BY <4>1, <4>2 DEF BootChain
      <4>4. Shown!Format
        BY <4>1, <4>2, <4>3 DEF Shown!Format, Shown!Flashing
      <4> QED BY <4>4
    <3>4. CASE MakeVolumes("auto")
      <4>1. /\ pc["auto"] = "mkvol" /\ pc'["auto"] = "bosa"
            /\ UNCHANGED <<mode, state, complete, raw, bl2, content>>
        BY <3>4, AutoGoes DEF MakeVolumes
      <4>2. BootChain' = BootChain
        BY <4>1 DEF BootChain
      <4>3. logged' = logged
        BY <4>1 DEF AutoInv, LogKnows, Volumes
      <4> QED BY <2>s, <4>1, <4>2, <4>3, NandNotShown
    <3>5. CASE WriteVolume("auto")
      <4>1. /\ pc["auto"] \in Volumes /\ pc'["auto"] \in Volumes \cup {"verify"} /\ mode = "transition"
            /\ UNCHANGED <<mode, state, complete, raw, bl2>>
        BY <3>5, AutoGoes DEF WriteVolume, NextVolume, Volumes
      <4>2. logged = 1 /\ logged' \in {1, 6} /\ state = "FORMATTING_AND_FLASHING"
        BY <4>1 DEF AutoInv, StepKnows, LogKnows, Volumes
      <4>3. BootChain = "none" /\ BootChain' = "none"
        BY <4>1 DEF BootChain, AutoInv, StepKnows
      <4>4. CASE logged' = 1
        BY <2>s, <4>1, <4>2, <4>3, <4>4, NandNotShown
      <4>5. CASE logged' = 6
        <5>1. Shown!Format
          BY <4>1, <4>2, <4>3, <4>5 DEF Shown!Format, Shown!Flashing
        <5> QED BY <5>1
      <4> QED BY <4>2, <4>4, <4>5
    <3>6. CASE Verify("auto")
      BY <3>6, <2>s, <2>c, AutoGoes DEF Verify, AutoInv, LogKnows
    <3>7. CASE WriteBl2("auto")
      <4>1. /\ pc["auto"] = "bl2" /\ pc'["auto"] = "bl2read" /\ mode = "transition"
            /\ bl2' \in {"new", "torn"}
            /\ UNCHANGED <<mode, state, complete, raw, content>>
        BY <3>7, AutoGoes DEF WriteBl2
      <4>2. /\ logged = 6 /\ logged' = 6 /\ state = "FORMATTING_AND_FLASHING"
            /\ content["fip"] = "good" /\ content["fit"] = "good"
            /\ bl2 = "old" /\ raw = "gone"
        BY <4>1 DEF AutoInv, StepKnows, LogKnows, AllGood, Volumes
      <4>3. CASE bl2' = "new"
        <5>1. BootChain' = "new"
          BY <4>1, <4>2, <4>3 DEF BootChain
        <5>2. Shown!WriteBl2
          BY <4>1, <4>2, <5>1 DEF Shown!WriteBl2, Shown!Flashing
        <5> QED BY <5>2
      <4>4. CASE bl2' = "torn"
        <5>1. BootChain = "none" /\ BootChain' = "none"
          BY <4>1, <4>2, <4>4 DEF BootChain
        <5> QED BY <2>s, <4>1, <4>2, <5>1, NandNotShown
      <4> QED BY <4>1, <4>3, <4>4
    <3>8. CASE ReadBackBl2("auto") \/ MarkComplete("auto")
      <4>1. /\ mode = "transition" /\ UNCHANGED <<mode, state, nand>>
            /\ \/ pc["auto"] = "bl2read" /\ pc'["auto"] = "mark" /\ bl2 = "new" /\ complete' = complete
               \/ pc["auto"] = "mark" /\ pc'["auto"] = "finish" /\ complete' = TRUE
        BY <3>8, AutoGoes DEF ReadBackBl2, MarkComplete, AfterInstall, AutoInv
      <4>2. state = "FORMATTING_AND_FLASHING" /\ BootChain = "new"
        BY <4>1 DEF AutoInv, StepKnows, AllGood, Volumes, BootChain
      <4>3. logged' = 8 /\ (complete' = complete \/ complete' = (logged = 8))
        BY <4>1 DEF AutoInv, LogKnows
      <4>4. Shown!Complete
        BY <2>c, <4>1, <4>2, <4>3 DEF Shown!Complete, Shown!Flashing, ShownFit
      <4> QED BY <4>4
    <3>9. CASE AttachExisting("auto")
      BY <3>9, AutoGoes DEF AttachExisting, AutoInv
    <3>10. CASE Finish("auto") \/ Status("auto")
      <4>1. /\ pc["auto"] \in {"finish", "status"} /\ pc'["auto"] \in {"status", "exec"}
            /\ UNCHANGED <<mode, state, complete, nand>>
        BY <3>10, AutoGoes DEF Finish, Status, AutoInv
      <4> QED BY <2>s, <2>c, <4>1 DEF AutoInv, LogKnows
    <3>11. CASE ExecSysupgrade("auto")
      <4>1. /\ pc["auto"] = "exec" /\ mode = "transition"
            /\ \/ mode' = "upgrading" /\ state' \in {state, "FULLFLASH_RETURNED_0"}
               \/ mode' = mode /\ state' = "FULLFLASH_RETURNED_0"
            /\ UNCHANGED <<nand, logged, complete>>
        BY <3>11 DEF ExecSysupgrade
      <4>2. complete /\ state = "FORMATTING_AND_FLASHING"
        BY <4>1 DEF AutoInv, StepKnows
      <4>3. Shown!Handover
        BY <2>c, <4>1, <4>2 DEF Shown!Handover, ShownFit
      <4> QED BY <4>3
    <3>12. CASE Fail("auto")
      <4>1. /\ mode = "transition" /\ state' = "FAILED" /\ HalfDone("auto") /\ pc["auto"] # "idle"
            /\ UNCHANGED <<mode, complete, logged>>
        BY <3>12 DEF Fail, Busy
      <4>2. state \in SafeStates \cup {"FORMATTING_AND_FLASHING"}
        BY <4>1 DEF AutoInv, StepKnows
      <4>3. Shown!Fail
        BY <4>1, <4>2, ShownHalfDone DEF Shown!Fail, Shown!Torn, Shown!Flashing, Shown!Safe,
                                         SafeStates, ShownFit
      <4> QED BY <4>3
    <3> QED BY <2>3, <3>1, <3>2, <3>3, <3>4, <3>5, <3>6, <3>7, <3>8, <3>9, <3>10, <3>11, <3>12
            DEF Installer
  <2>4. CASE Upgrade
    <3>1. PICK c \in {"production", "torn"} : content' = [content EXCEPT !["fit"] = c]
      BY <2>4 DEF Upgrade
    <3>2. /\ mode = "upgrading" /\ BootInto(BootTarget(raw, content', bl2)) /\ UNCHANGED <<raw, bl2>>
          /\ bl2 = "new" /\ ChainGood
      BY <2>4 DEF Upgrade, AutoInv
    <3>3. content'["fip"] = "good" /\ content["fip"] = "good" /\ content'["fit"] = c
      BY <3>1, <3>2 DEF ChainGood, Volumes, AutoInv, TypeOK
    <3>4. BootChain = "new" /\ BootChain' = "new"
      BY <3>2, <3>3 DEF BootChain
    <3>5. ShownFit' \in {"production", "none"}
      BY <3>1, <3>3, <3>4 DEF ShownFit
    <3>6. mode' = Shown!Survivor("new", ShownFit')
      BY <3>1, <3>2, <3>3, <3>4 DEF ShownFit, Shown!Survivor, BootTarget, BootInto
    <3>7. state' = "BOOTING" /\ complete' = FALSE /\ logged' = 0
      BY <3>2 DEF BootInto
    <3>8. Shown!Upgrade
      BY <3>2, <3>4, <3>5, <3>6, <3>7 DEF Shown!Upgrade, Shown!BootAs, ShownFit
    <3> QED BY <3>8
  <2>5. CASE PowerCut
    <3>1. /\ mode # "off" /\ mode' = "off" /\ complete' = FALSE /\ state' = state /\ logged' = 0
      BY <2>5 DEF PowerCut
    <3>2. CASE HalfDone("auto")
      <4>1. Shown!PowerCut
        BY <3>1, <3>2, ShownHalfDone DEF Shown!PowerCut, Shown!Torn, Shown!Flashing, ShownFit
      <4> QED BY <4>1
    <3>3. CASE /\ mode = "upgrading"
               /\ content' = [content EXCEPT !["fit"] = "torn"]
               /\ UNCHANGED <<raw, header, named, bl2>>
      <4>1. content'["fip"] = content["fip"] /\ content'["fit"] = "torn"
        BY <3>3 DEF AutoInv, TypeOK, Volumes
      <4>2. BootChain' = BootChain /\ ShownFit' = "none"
        BY <3>3, <4>1 DEF BootChain, ShownFit
      <4>3. Shown!PowerCut
        BY <3>1, <3>3, <4>2 DEF Shown!PowerCut, Shown!Torn, ShownFit
      <4> QED BY <4>3
    <3> QED BY <2>5, <3>2, <3>3 DEF PowerCut
  <2>6. CASE PowerOn
    <3>1. mode = "off" /\ BootInto(BootTarget(raw, content, bl2)) /\ UNCHANGED nand
      BY <2>6 DEF PowerOn
    <3>2. mode' = Shown!Survivor(BootChain, ShownFit)
      BY <3>1, SurvivorIsBootTarget DEF BootInto, BootChain, ShownFit
    <3>3. state' = "BOOTING" /\ complete' = FALSE /\ logged' = 0
      BY <3>1 DEF BootInto
    <3>4. Shown!PowerOn
      BY <2>c, <3>1, <3>2, <3>3 DEF Shown!PowerOn, Shown!BootAs, ShownFit
    <3> QED BY <3>4
  <2>7. CASE UNCHANGED vars
    BY <2>s, <2>c, <2>7 DEF vars, nand
  <2>8. CASE TakeOver
    <3>1. /\ mode = "transition" /\ state = "FULLFLASH_RETURNED_0" /\ mode' = "upgrading"
          /\ UNCHANGED <<nand, state, logged, complete>> /\ complete
      BY <2>8 DEF TakeOver, AutoInv, Returned
    <3>2. Shown!Handover
      BY <2>c, <3>1 DEF Shown!Handover, ShownFit
    <3> QED BY <3>2
  <2>9. CASE Rescue
    <3>1. /\ mode = "rescue" /\ mode' = "transition" /\ UNCHANGED nand
          /\ state' = "BOOTING" /\ complete' = FALSE /\ logged' = 0
      BY <2>9 DEF Rescue, BootInto
    <3>2. Shown!Rescue
      BY <2>c, <3>1 DEF Shown!Rescue, Shown!BootAs, ShownFit
    <3> QED BY <3>2
  <2> QED BY <2>1, <2>2, <2>3, <2>4, <2>5, <2>6, <2>7, <2>8, <2>9, AutoOnly
<1> QED BY <1>1, <1>2, AutoInductive, PTL DEF Spec, ImplementsBoard, Shown!BoardSpec

=============================================================================
