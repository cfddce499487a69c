---------------------------- MODULE WizardProofs ----------------------------
(* What holds of the wizard on the PC.  Of its access to the stock board, for *)
(* every slot size it may publish and any number of discovery cycles: the two *)
(* tables of slot revisions, on the PC and in the launcher, name the same     *)
(* family, and the families are never mixed up.  Of its watch over stage 2,   *)
(* for any number of watches: what the PC says of the board is true, whatever *)
(* it missed of the log, of the reboots and of the network.                   *)
EXTENDS StockAccess, StageTwoWatch, FiniteSetTheorems, TLAPS

(***************************************************************************)
(* Access to the stock board.                                              *)
(***************************************************************************)
Pairs == Nat \X Nat

\* A pair in the window of family f.
In(f, pair) == Plausible(pair) /\ \E r \in Reference : r[1] = f /\ Near(pair, r)

\* The windows of the two families have no kernel size in common.
LEMMA WindowsApart ==
    ASSUME NEW pair \in Pairs, NEW r \in Reference, NEW q \in Reference,
           Distance(pair[1], r[2]) <= ImageTolerance,
           Distance(pair[1], q[2]) <= ImageTolerance
    PROVE  r[1] = q[1]
BY SMTT(30) DEF Pairs, Reference, Distance, ImageTolerance

\* The window names a family exactly if the pair is in its window.
LEMMA WindowIs ==
    ASSUME NEW pair \in Pairs, NEW f \in Families
    PROVE  WindowFamily(pair) = f <=> In(f, pair)
<1> DEFINE near == {x \in Reference : Plausible(pair) /\ Near(pair, x)}
           matched == {r[1] : r \in near}
<1>1. \A r, q \in near : r[1] = q[1]
  BY WindowsApart DEF Near
<1>2. CASE near = {}
  <2>1. matched = {} /\ Cardinality(matched) = 0
    BY <1>2, FS_EmptySet
  <2>2. WindowFamily(pair) = "unknown"
    BY <2>1 DEF WindowFamily
  <2> QED
    BY <1>2, <2>2 DEF In, Families
<1>3. CASE near # {}
  <2>1. PICK r \in near : TRUE
    BY <1>3
  <2>2. matched = {r[1]}
    BY <1>1, <2>1
  <2>3. Cardinality(matched) = 1
    BY <2>2, FS_Singleton
  <2>4. WindowFamily(pair) = r[1]
    BY <2>2, <2>3 DEF WindowFamily
  <2>5. In(r[1], pair) /\ (In(f, pair) => f = r[1])
    BY <1>1, <2>1 DEF In
  <2> QED
    BY <2>4, <2>5
<1> QED
  BY <1>2, <1>3

\* A reference lies in the window of its own family.
LEMMA ReferenceIn ==
    ASSUME NEW r \in Reference
    PROVE  /\ r[1] \in Families
           /\ <<r[2], r[3]>> \in Pairs /\ <<r[2], r[3]>> # Canonical
           /\ In(r[1], <<r[2], r[3]>>)
<1>1. /\ r[1] \in Families /\ <<r[2], r[3]>> \in Pairs /\ <<r[2], r[3]>> # Canonical
      /\ Plausible(<<r[2], r[3]>>)
  BY SMTT(30) DEF Reference, Families, Pairs, Canonical, Plausible, Granularity
<1>2. Near(<<r[2], r[3]>>, r)
  BY SMTT(30) DEF Reference, Near, Distance, ImageTolerance, PartitionTolerance, Granularity
<1> QED
  BY <1>1, <1>2 DEF In

\* The pair that is compared is a pair of sizes.
LEMMA RevisionPairType ==
    ASSUME NEW s \in Slots
    PROVE  RevisionPair(s) \in Pairs
BY DEF Slots, RevisionPair, Pairs

\* The exact tables of the PC decide nothing the window would not decide.
LEMMA ExactIsWindow ==
    ASSUME NEW s \in Slots
    PROVE  PcFamily(s) = WindowFamily(RevisionPair(s))
<1>1. ASSUME NEW x \in ExactLayouts, x[2] = s
      PROVE  x[1] = WindowFamily(RevisionPair(s))
  <2>1. PICK r \in Reference : /\ x[1] = r[1]
                               /\ \/ s = [master |-> <<r[2], r[3]>>, slave |-> Canonical]
                                  \/ s = [master |-> Canonical, slave |-> <<r[2], r[3]>>]
    BY <1>1 DEF ExactLayouts
  <2>2. RevisionPair(s) = <<r[2], r[3]>>
    BY <2>1, ReferenceIn DEF RevisionPair
  <2> QED
    BY <2>1, <2>2, ReferenceIn, WindowIs
<1>2. CASE \E x \in ExactLayouts : x[2] = s
  BY <1>1, <1>2 DEF PcFamily
<1>3. CASE ~\E x \in ExactLayouts : x[2] = s
  BY <1>3 DEF PcFamily
<1> QED
  BY <1>2, <1>3

\* The launcher's own table holds the same windows.
LEMMA SameWindows ==
    ASSUME NEW pair \in Pairs, NEW f \in Families
    PROVE  LauncherMatches(f, pair[1], pair[2]) <=> In(f, pair)
BY SMTT(60) DEF Pairs, Families, LauncherMatches, LauncherNear, In, Plausible, Near, Reference,
   Distance, ImageTolerance, PartitionTolerance, Granularity

\* The launcher built for a family accepts exactly the boards the PC takes for
\* that family, whatever sizes they publish (stock-launcher.sh.in: "keep in sync
\* with data/master.py").
THEOREM TablesAgree ==
    ASSUME NEW s \in Slots, NEW f \in Families
    PROVE  PcFamily(s) = f <=> LauncherAccepts(f, s)
<1> DEFINE pair == RevisionPair(s)
           accepted == {g \in Families : LauncherMatches(g, pair[1], pair[2])}
<1>1. pair \in Pairs
  BY RevisionPairType
<1> HIDE DEF pair
<1>2. accepted = {g \in Families : In(g, pair)}
  BY <1>1, SameWindows
<1>3. \A g \in Families : In(g, pair) <=> WindowFamily(pair) = g
  BY <1>1, WindowIs
<1>4. accepted = {f} <=> WindowFamily(pair) = f
  BY <1>2, <1>3
<1> QED
  BY <1>4, ExactIsWindow DEF LauncherAccepts, pair

\* A board whose sizes have drifted from a reference of its family no further
\* than real boards do is not taken for the other family.
LEMMA GenuineIsNotOther ==
    ASSUME NEW s \in Slots, NEW f \in Families, NEW g \in Families,
           PcFamily(s) = f, Genuine(g, s)
    PROVE  g = f
<1> DEFINE pair == RevisionPair(s)
<1>1. pair \in Pairs
  BY RevisionPairType
<1>2. In(f, pair)
  BY <1>1, WindowIs, ExactIsWindow
<1>3. PICK r \in Reference : r[1] = f /\ Distance(pair[1], r[2]) <= ImageTolerance
  BY <1>2 DEF In, Near
<1>4. PICK q \in Reference : q[1] = g /\ Distance(pair[1], q[2]) <= 128
  BY DEF Genuine
<1>5. Distance(pair[1], q[2]) <= ImageTolerance
  BY <1>1, <1>4, SMTT(30) DEF ImageTolerance, Distance, Reference, Pairs
<1> QED
  BY <1>1, <1>3, <1>4, <1>5, WindowsApart

(* ---------------------------------------------------------- the wizard --- *)

\* A service that came up for nothing is a matter of the discovery alone.
VainInDiscovery == phase # "root" => ~vain

\* The gate is passed by boards whose sizes name the profile's family.
OpenIsPcFamily == phase = "open" => PcFamily(slots) = profile

\* The toggle is sent in one phase only, a bounded number of times.
TogglesCounted ==
  /\ phase \in {"start", "login", "model", "telnet"} => sent = 0
  /\ phase = "toggle" => sent < Sends

\* The inductive invariant.
AccessInv == TypeOK /\ TogglesCounted /\ VainInDiscovery /\ OpenIsPcFamily

LEMMA AccessInitInv ==
    ASSUME Init
    PROVE  AccessInv
<1>1. pending \in Remaining
  BY DEF Init, Escalation, Remaining
<1>2. sent \in 0 .. Sends /\ cycle \in 1 .. Sessions
  BY AccessAssumption DEF AccessAssumption, Init
<1>3. TypeOK
  BY <1>1, <1>2 DEF Init, TypeOK
<1> QED
  BY <1>3, AccessAssumption DEF AccessAssumption, Init, AccessInv, VainInDiscovery, OpenIsPcFamily, TogglesCounted

\* The list of services that may be tried gets shorter.
LEMMA PendingStep ==
    ASSUME TypeOK, ProvisionNext
    PROVE  /\ pending' \in Remaining
           /\ svc' \in SUBSET {"telnet", "ftp", "samba"} /\ vain' \in BOOLEAN
<1>1. pending # <<>> => Tail(pending) \in Remaining
  <2>1. /\ Tail(<<"samba">>) = <<>>
        /\ Tail(<<"ftp", "samba">>) = <<"samba">>
    OBVIOUS
  <2> QED
    BY <2>1 DEF TypeOK, Remaining
<1>2. svc' \in {svc, svc \cup {"ftp"}, svc \cup {"samba"}} /\ vain' \in BOOLEAN
  BY DEF ProvisionNext, EnableFtp, EnableSamba
<1>3. pending' \in Remaining
  BY <1>1 DEF ProvisionNext, TypeOK
<1> QED
  BY <1>2, <1>3 DEF TypeOK

\* Every step keeps the types.
LEMMA TypeStep ==
    ASSUME TypeOK, TogglesCounted, [Next]_vars
    PROVE  TypeOK'
<1>0. Sessions \in Nat \ {0} /\ Sends \in Nat \ {0}
  BY AccessAssumption DEF AccessAssumption
<1> USE DEF Goto, board, search
<1>1. CASE Choose
  BY <1>0, <1>1 DEF TypeOK, Choose
<1>2. CASE Login
  BY <1>0, <1>2 DEF TypeOK, Login, NoAutomation, LoggedIn
<1>3. CASE Manual
  BY <1>0, <1>3 DEF TypeOK, Manual
<1>4. CASE ReadModel
  BY <1>0, <1>4 DEF TypeOK, ReadModel, NoAutomation
<1>5. CASE ReadMfFamily
  BY <1>0, <1>5 DEF TypeOK, ReadMfFamily
<1>6. CASE ReadTelnet
  BY <1>0, <1>6 DEF TypeOK, ReadTelnet, NoAutomation
<1>7. CASE SendToggle
  <2>1. sent' \in 0 .. Sends
    BY <1>0, <1>7 DEF TypeOK, TogglesCounted, SendToggle
  <2> QED
    BY <1>7, <2>1 DEF TypeOK, SendToggle, NoAutomation, Toggled
<1>8. CASE AwaitTelnet
  BY <1>0, <1>8 DEF TypeOK, AwaitTelnet, NoAutomation
<1>9. CASE Lan1
  BY <1>0, <1>9 DEF TypeOK, Lan1
<1>10. CASE NoShell
  <2>1. CASE cycle < Sessions
    <3>1. cycle' \in 1 .. Sessions
      BY <1>0, <1>10, <2>1 DEF TypeOK, NoShell, TryAgain, NextCycle
    <3>2. vain' \in BOOLEAN
      BY <1>10 DEF NoShell
    <3> QED
      BY <1>10, <2>1, <3>1, <3>2 DEF TypeOK, NoShell, TryAgain, NextCycle
  <2>2. CASE ~(cycle < Sessions)
    BY <1>10, <2>2 DEF TypeOK, NoShell, TryAgain, GiveUp, CloseAndFail
  <2> QED  BY <2>1, <2>2
<1>11. CASE NoCandidate
  <2>1. CASE cycle < Sessions
    <3>1. ProvisionNext
      BY <1>11, <2>1 DEF NoCandidate
    <3>2. CASE vain'
      BY <1>0, <1>11, <2>1, <3>1, <3>2, PendingStep DEF TypeOK, NoCandidate, Shell, NextCycle
    <3>3. CASE ~vain'
      BY <1>11, <2>1, <3>1, <3>3, PendingStep DEF TypeOK, NoCandidate, Shell, GiveUp, CloseAndFail
    <3> QED  BY <3>2, <3>3
  <2>2. CASE ~(cycle < Sessions)
    BY <1>0, <1>11, <2>2 DEF TypeOK, NoCandidate, Shell, NextCycle, GiveUp, CloseAndFail
  <2> QED  BY <2>1, <2>2
<1>12. CASE AllRefused
  <2>1. CASE cycle < Sessions
    <3>1. ProvisionNext
      BY <1>12, <2>1 DEF AllRefused
    <3> QED
      BY <1>0, <1>12, <2>1, <3>1, PendingStep DEF TypeOK, AllRefused, Shell, NextCycle, GiveUp, CloseAndFail
  <2>2. CASE ~(cycle < Sessions)
    BY <1>0, <1>12, <2>2 DEF TypeOK, AllRefused, Shell, NextCycle, GiveUp, CloseAndFail
  <2> QED  BY <2>1, <2>2
<1>13. CASE RootFound
  BY <1>0, <1>13 DEF TypeOK, RootFound, Shell
<1>14. CASE LiveGate
  BY <1>0, <1>14 DEF TypeOK, LiveGate, ModelGate, Geometry, CloseAndFail
<1>15. CASE UNCHANGED vars
  BY <1>15 DEF vars, TypeOK
<1> QED
  BY <1>1, <1>2, <1>3, <1>4, <1>5, <1>6, <1>7, <1>8, <1>9, <1>10, <1>11, <1>12, <1>13, <1>14, <1>15 DEF Next, Stop

\* A request that is sent again is counted.
LEMMA ToggleStep ==
    ASSUME TypeOK, TogglesCounted, [Next]_vars
    PROVE  TogglesCounted'
<1>0. Sessions \in Nat \ {0} /\ Sends \in Nat \ {0}
  BY AccessAssumption DEF AccessAssumption
<1>1. CASE SendToggle
  BY <1>0, <1>1 DEF TypeOK, TogglesCounted, SendToggle, NoAutomation, Goto
<1>2. CASE Choose \/ Login \/ ReadModel \/ ReadMfFamily \/ ReadTelnet
  BY <1>0, <1>2 DEF TogglesCounted, Choose, Login, ReadModel, ReadMfFamily, ReadTelnet, NoAutomation, Goto
<1>3. CASE Manual \/ AwaitTelnet \/ Lan1 \/ RootFound \/ LiveGate
  BY <1>3 DEF TogglesCounted, Manual, AwaitTelnet, Lan1, RootFound, LiveGate, NoAutomation, Goto, CloseAndFail
<1>4. CASE NoShell \/ NoCandidate \/ AllRefused
  BY <1>4 DEF TogglesCounted, NoShell, NoCandidate, AllRefused, Shell, TryAgain, NextCycle, GiveUp, CloseAndFail, Goto
<1>5. CASE UNCHANGED vars
  BY <1>5 DEF vars, TogglesCounted
<1> QED
  BY <1>1, <1>2, <1>3, <1>4, <1>5 DEF Next, Stop

\* The gate is the only way to an open board.
LEMMA OpenStep ==
    ASSUME OpenIsPcFamily, [Next]_vars
    PROVE  OpenIsPcFamily'
<1>1. CASE LiveGate
  BY <1>1 DEF LiveGate, Geometry, CloseAndFail, Goto, OpenIsPcFamily, board
<1>2. CASE UNCHANGED board /\ phase' # "open"
  BY <1>2 DEF OpenIsPcFamily
<1>3. CASE UNCHANGED vars
  BY <1>3 DEF vars, OpenIsPcFamily
<1>4. Choose \/ Login \/ Manual \/ ReadModel \/ ReadMfFamily \/ ReadTelnet \/ SendToggle
         => UNCHANGED board /\ phase' # "open"
  BY DEF Choose, Login, Manual, ReadModel, ReadMfFamily, ReadTelnet, SendToggle, NoAutomation, Goto
<1>5. AwaitTelnet \/ Lan1 \/ NoShell \/ NoCandidate \/ AllRefused \/ RootFound
         => UNCHANGED board /\ (phase' # "open" \/ (UNCHANGED phase /\ phase = "root"))
  BY DEF AwaitTelnet, Lan1, NoShell, NoCandidate, AllRefused, RootFound, NoAutomation, Goto,
     Shell, TryAgain, NextCycle, GiveUp, CloseAndFail
<1> QED
  BY <1>1, <1>2, <1>3, <1>4, <1>5 DEF Next, Stop

\* The discovery clears the flag when it ends.
LEMMA VainStep ==
    ASSUME TypeOK, VainInDiscovery, [Next]_vars
    PROVE  VainInDiscovery'
<1>1. Choose \/ Login \/ Manual \/ ReadModel \/ ReadMfFamily \/ ReadTelnet \/ SendToggle
         \/ AwaitTelnet \/ Lan1 \/ LiveGate
         => UNCHANGED vain /\ phase # "root"
  BY DEF Choose, Login, Manual, ReadModel, ReadMfFamily, ReadTelnet, SendToggle, AwaitTelnet, Lan1,
     LiveGate, search
<1>2. CASE UNCHANGED vain /\ phase # "root"
  BY <1>2 DEF VainInDiscovery
<1>3. CASE NoShell \/ RootFound
  BY <1>3 DEF NoShell, RootFound, VainInDiscovery
<1>4. CASE NoCandidate
  BY <1>4 DEF NoCandidate, Shell, NextCycle, VainInDiscovery
<1>5. CASE AllRefused
  BY <1>5 DEF AllRefused, Shell, NextCycle, VainInDiscovery
<1>6. CASE UNCHANGED vars
  BY <1>6 DEF vars, VainInDiscovery
<1> QED
  BY <1>1, <1>2, <1>3, <1>4, <1>5, <1>6 DEF Next, Stop

LEMMA AccessInductive == Spec => []AccessInv
<1>1. Init => AccessInv
  BY AccessInitInv
<1>2. AccessInv /\ [Next]_vars => AccessInv'
  BY TypeStep, ToggleStep, VainStep, OpenStep DEF AccessInv
<1> QED
  BY <1>1, <1>2, PTL DEF Spec

\* Every variable of the access keeps its type.
THEOREM AccessTypes == Spec => []TypeOK
BY AccessInductive, PTL DEF AccessInv

\* When the discovery gives up, no service it saw come up was left untried.
THEOREM NoServiceInVain == Spec => []NothingEnabledInVain
<1>1. AccessInv => NothingEnabledInVain
  BY DEF AccessInv, VainInDiscovery, NothingEnabledInVain
<1> QED
  BY <1>1, AccessInductive, PTL

\* A board of the other family is never opened, as long as its slot sizes are
\* within the drift of a reference.
THEOREM FamiliesApart == Spec => []OpenIsOurFamily
<1>1. AccessInv => OpenIsOurFamily
  BY GenuineIsNotOther, AccessAssumption
     DEF AccessInv, TypeOK, OpenIsPcFamily, OpenIsOurFamily, AccessAssumption
<1> QED
  BY <1>1, AccessInductive, PTL

\* A board that is opened is one the launcher for its family accepts.
THEOREM LauncherFollows == Spec => []LauncherAgrees
<1>1. AccessInv => LauncherAgrees
  BY TablesAgree, AccessAssumption
     DEF AccessInv, TypeOK, OpenIsPcFamily, LauncherAgrees, AccessAssumption
<1> QED
  BY <1>1, AccessInductive, PTL

-----------------------------------------------------------------------------
(***************************************************************************)
(* The watch over stage 2.                                                 *)
(***************************************************************************)
\* A boot chain that is in NAND is not formatted again: autoflash starts from
\* the stock layout, and writes BL2 after the steps that destroy it.
FormatsBeforeBl2 == Flashing /\ chain = "new" => logged \in {6, 8}

\* What the log, the marker and the system that runs say of the boot chain.
Evidence ==
    /\ logged = 8 => chain = "new"
    /\ marked => chain = "new"
    /\ mode \in {"upgrading", "production"} => chain = "new"

\* What the PC knew of the marker stays true while the operator types.
CheckedOnce == at = "token" => chain = "new"

\* The inductive invariant: the PC knows of step 8 only from such evidence, and
\* the evidence stays true because the boot chain stays.
WatchInv == WatchTypeOK /\ FormatsBeforeBl2 /\ Evidence /\ StepsAreProven /\ CheckedOnce

\* What the wizard does that changes nothing of the board.
LEMMA BoardStays ==
    ASSUME BoardTypeOK, FormatsBeforeBl2, Evidence, UNCHANGED boardvars
    PROVE  BoardTypeOK' /\ FormatsBeforeBl2' /\ Evidence' /\ chain' = chain
BY DEF boardvars, BoardTypeOK, FormatsBeforeBl2, Flashing, Evidence

LEMMA SurvivorType ==
    ASSUME NEW c, NEW f \in {"transition", "production", "none"}
    PROVE  /\ Survivor(c, f) \in {"transition", "production", "rescue", "stuck"}
           /\ Survivor(c, f) = "production" /\ c \in {"old", "none", "new"} => c = "new"
BY DEF Survivor

LEMMA TornType ==
    ASSUME BoardTypeOK, chain' \in Torn
    PROVE  chain' \in {"old", "none", "new"} /\ (chain = "new" => chain' = "new")
BY DEF BoardTypeOK, Torn

\* A step of the board keeps its part of the invariant, and the boot chain.
LEMMA BoardStep ==
    ASSUME BoardTypeOK, FormatsBeforeBl2, Evidence, BoardNext
    PROVE  /\ BoardTypeOK' /\ FormatsBeforeBl2' /\ Evidence'
           /\ chain = "new" => chain' = "new"
<1> USE DEF BoardTypeOK, FormatsBeforeBl2, Evidence, States
<1>1. CASE Settle
  BY <1>1 DEF Settle, Flashing, Safe
<1>2. CASE BeginFlash
  BY <1>2 DEF BeginFlash, Flashing
<1>3. CASE Format
  BY <1>3 DEF Format, Flashing
<1>4. CASE WriteBl2
  BY <1>4 DEF WriteBl2, Flashing
<1>5. CASE Complete
  <2>1. logged' = 8 /\ marked' \in BOOLEAN
    BY <1>5 DEF Complete
  <2> QED  BY <1>5, <2>1 DEF Complete, Flashing
<1>6. CASE Handover
  <2>1. /\ mode' \in {"transition", "upgrading"}
        /\ state' \in {"FORMATTING_AND_FLASHING", "FULLFLASH_RETURNED_0"}
        /\ UNCHANGED <<logged, marked, chain, fit>> /\ marked /\ mode = "transition"
        /\ state' = "FORMATTING_AND_FLASHING" => state = state'
    BY <1>6 DEF Handover
  <2> QED  BY <2>1 DEF Flashing
<1>7. CASE Fail
  BY <1>7, TornType DEF Fail, Flashing
<1>8. CASE Upgrade
  BY <1>8, SurvivorType DEF Upgrade, BootAs, Flashing, Safe
<1>9. CASE PowerCut
  <2>1. /\ mode' = "off" /\ logged' = 0 /\ marked' = FALSE /\ UNCHANGED state
        /\ fit' \in {fit, "none"}
    BY <1>9 DEF PowerCut
  <2>2. chain' \in {"old", "none", "new"} /\ (chain = "new" => chain' = "new")
    BY <1>9, TornType DEF PowerCut
  <2>3. BoardTypeOK'
    BY <2>1, <2>2
  <2> QED  BY <2>1, <2>2, <2>3 DEF Flashing
<1>10. CASE PowerOn
  <2>1. /\ mode' = Survivor(chain, fit) /\ state' = "BOOTING" /\ logged' = 0 /\ marked' = FALSE
        /\ UNCHANGED <<chain, fit>>
    BY <1>10 DEF PowerOn, BootAs
  <2>2. /\ mode' \in {"transition", "production", "rescue", "stuck"}
        /\ mode' = "production" => chain = "new"
    BY <2>1, SurvivorType
  <2>3. BoardTypeOK'
    BY <2>1, <2>2 DEF Safe
  <2> QED  BY <2>1, <2>2, <2>3 DEF Flashing
<1>11. CASE Rescue
  <2>1. /\ mode' = "transition" /\ state' = "BOOTING" /\ logged' = 0 /\ marked' = FALSE
        /\ UNCHANGED <<chain, fit>>
    BY <1>11 DEF Rescue, BootAs
  <2>2. BoardTypeOK'
    BY <2>1 DEF Safe
  <2> QED  BY <2>1, <2>2 DEF Flashing
<1> QED
  BY <1>1, <1>2, <1>3, <1>4, <1>5, <1>6, <1>7, <1>8, <1>9, <1>10, <1>11 DEF BoardNext, BoardAlone

\* The types of what the wizard keeps.
LoopTypeOK ==
    /\ heard \in {"", "transition", "progress", "production"}
    /\ ports \in BOOLEAN /\ announced \in BOOLEAN /\ explicit \in BOOLEAN /\ outage \in BOOLEAN
    /\ safe \in BOOLEAN /\ retried \in BOOLEAN /\ advised \in BOOLEAN /\ expected \in BOOLEAN
    /\ prev \in States \cup {"", "UNKNOWN", "RC27_FALSE_FUDAN_RECOVERY"}
    /\ step \in {0, 1, 6, 8}

EndTypeOK ==
    /\ at \in {"menu", "scan", "probe", "log", "failing", "fudan", "token", "web", "asked"}
    /\ serving \in BOOLEAN
    /\ verdict \in Verified \cup {"", "failed", "refused", "post-install-unverified"}
    /\ watches \in 0..Watches

NetTypeOK ==
    /\ rescue \in {"off", "missing", "blocked", "up"}
    /\ served \in BOOLEAN
    /\ port69 \in {"free", "other", "rescue", "late"}
    /\ call \in {"none", "waiting", "foreign", "transfer", "stale"}

LEMMA TypeParts == WatchTypeOK <=> BoardTypeOK /\ LoopTypeOK /\ EndTypeOK /\ NetTypeOK
BY DEF WatchTypeOK, LoopTypeOK, EndTypeOK, NetTypeOK

LEMMA TypePartsAfter == WatchTypeOK' <=> BoardTypeOK' /\ LoopTypeOK' /\ EndTypeOK' /\ NetTypeOK'
BY DEF WatchTypeOK, LoopTypeOK, EndTypeOK, NetTypeOK

LEMMA LoopStays ==
    ASSUME LoopTypeOK, StepsAreProven, UNCHANGED loop, chain = "new" => chain' = "new"
    PROVE  LoopTypeOK' /\ StepsAreProven'
<1>1. UNCHANGED <<heard, ports, prev, step, announced, explicit, outage, safe, retried, advised, expected>>
  BY DEF loop
<1>2. LoopTypeOK'
  <2>1. heard' \in {"", "transition", "progress", "production"}
    BY <1>1 DEF LoopTypeOK
  <2>2. prev' \in States \cup {"", "UNKNOWN", "RC27_FALSE_FUDAN_RECOVERY"}
    BY <1>1 DEF LoopTypeOK
  <2>3. step' \in {0, 1, 6, 8}
    BY <1>1 DEF LoopTypeOK
  <2>4. /\ ports' \in BOOLEAN /\ announced' \in BOOLEAN /\ explicit' \in BOOLEAN /\ outage' \in BOOLEAN
        /\ safe' \in BOOLEAN /\ retried' \in BOOLEAN /\ advised' \in BOOLEAN /\ expected' \in BOOLEAN
    BY <1>1 DEF LoopTypeOK
  <2> QED  BY <2>1, <2>2, <2>3, <2>4 DEF LoopTypeOK
<1>3. StepsAreProven'
  BY <1>1 DEF StepsAreProven
<1> QED  BY <1>2, <1>3

LEMMA NetStays == NetTypeOK /\ UNCHANGED net => NetTypeOK'
BY DEF net, NetTypeOK

\* A step of the board as the PC has it.
LEMMA EchoType ==
    ASSUME NetTypeOK, serving \in BOOLEAN, Echo, UNCHANGED <<rescue, served, port69>>
    PROVE  NetTypeOK' /\ serving' \in BOOLEAN
BY DEF Echo, NetTypeOK

\* A new watch knows nothing.
LEMMA FreshType == Fresh => LoopTypeOK' /\ StepsAreProven'
<1> SUFFICES ASSUME Fresh PROVE LoopTypeOK' /\ StepsAreProven'
  OBVIOUS
<1>1. /\ ports' \in BOOLEAN /\ announced' \in BOOLEAN /\ explicit' \in BOOLEAN /\ outage' \in BOOLEAN
      /\ safe' \in BOOLEAN /\ retried' \in BOOLEAN /\ advised' \in BOOLEAN /\ expected' \in BOOLEAN
  BY DEF Fresh
<1>2. heard' = "" /\ prev' = "" /\ step' = 0
  BY DEF Fresh
<1>3. LoopTypeOK'
  BY <1>1, <1>2 DEF LoopTypeOK
<1>4. StepsAreProven'
  <2>1. step' = 0
    BY <1>2
  <2>2. step' # 8
    BY <2>1
  <2> QED  BY <2>2 DEF StepsAreProven
<1> QED  BY <1>3, <1>4

LEMMA StopRescueType == NetTypeOK /\ StopRescue => NetTypeOK'
BY DEF StopRescue, NetTypeOK

LEMMA ConcludeType ==
    ASSUME NetTypeOK, EndTypeOK, NEW v \in Verified \cup {"failed", "post-install-unverified"}, Conclude(v)
    PROVE  LoopTypeOK' /\ StepsAreProven' /\ NetTypeOK' /\ EndTypeOK' /\ CheckedOnce'
<1>1. LoopTypeOK' /\ StepsAreProven' /\ NetTypeOK'
  BY FreshType, StopRescueType DEF Conclude
<1>2. at' = "menu"
  BY DEF Conclude
<1> QED  BY <1>1, <1>2 DEF Conclude, EndTypeOK, CheckedOnce

\* A scan guesses, it does not draw steps.
LEMMA ScanKeeps == WatchInv /\ Scan => WatchInv'
<1> SUFFICES ASSUME WatchInv, Scan PROVE WatchInv'
  OBVIOUS
<1>1. BoardTypeOK' /\ FormatsBeforeBl2' /\ Evidence' /\ chain' = chain
  BY TypeParts, BoardStays DEF WatchInv, Scan
<1>2. ports' \in BOOLEAN /\ announced' \in BOOLEAN /\ outage' \in BOOLEAN
  BY DEF Scan
<1>3. LoopTypeOK' /\ StepsAreProven'
  BY <1>1, <1>2, TypeParts DEF WatchInv, Scan, LoopTypeOK, StepsAreProven
<1>4. NetTypeOK' /\ EndTypeOK' /\ CheckedOnce'
  BY TypeParts, NetStays DEF WatchInv, Scan, EndTypeOK, CheckedOnce
<1> QED  BY <1>1, <1>3, <1>4, TypePartsAfter DEF WatchInv

LEMMA HearTransitionKeeps == WatchInv /\ HearTransition => WatchInv'
<1> SUFFICES ASSUME WatchInv, HearTransition PROVE WatchInv'
  OBVIOUS
<1>1. BoardTypeOK' /\ FormatsBeforeBl2' /\ Evidence' /\ chain' = chain
  BY TypeParts, BoardStays DEF WatchInv, HearTransition
<1>2. prev' \in States \cup {"UNKNOWN"} /\ heard' \in {"transition", "progress"}
  BY TypeParts DEF WatchInv, HearTransition, Told, BoardTypeOK
<1>3. safe' \in BOOLEAN
  <2>1. safe' = FALSE \/ safe' = (prev' \in Safe)
    BY DEF HearTransition
  <2>2. (prev' \in Safe) \in BOOLEAN
    OBVIOUS
  <2> QED  BY <2>1, <2>2
<1>4. UNCHANGED <<ports, step, announced, explicit, outage, retried, advised, expected>>
  BY DEF HearTransition
<1>5. LoopTypeOK' /\ StepsAreProven'
  BY <1>1, <1>2, <1>3, <1>4, TypeParts DEF WatchInv, LoopTypeOK, StepsAreProven
<1>6. NetTypeOK' /\ EndTypeOK' /\ CheckedOnce'
  BY TypeParts, NetStays DEF WatchInv, HearTransition, EndTypeOK, CheckedOnce
<1> QED  BY <1>1, <1>5, <1>6, TypePartsAfter DEF WatchInv

\* The log is the evidence of step 8.
LEMMA HearLogKeeps == WatchInv /\ HearLog => WatchInv'
<1> SUFFICES ASSUME WatchInv, HearLog PROVE WatchInv'
  OBVIOUS
<1>1. BoardTypeOK' /\ FormatsBeforeBl2' /\ Evidence' /\ chain' = chain
  BY TypeParts, BoardStays DEF WatchInv, HearLog
<1>2. step' \in {step, 0, logged}
  BY DEF HearLog, LogRead, Highest
<1>3. step' \in {0, 1, 6, 8} /\ StepsAreProven'
  <2>1. step \in {0, 1, 6, 8} /\ logged \in {0, 1, 6, 8}
    BY TypeParts DEF WatchInv, LoopTypeOK, BoardTypeOK
  <2>2. (step = 8 => chain = "new") /\ (logged = 8 => chain = "new")
    BY DEF WatchInv, StepsAreProven, Evidence
  <2>3. step' \in {0, 1, 6, 8} /\ (step' = 8 => chain = "new")
    BY <1>2, <2>1, <2>2
  <2> QED  BY <1>1, <2>3 DEF StepsAreProven
<1>4. heard' \in {heard, "progress"} /\ UNCHANGED <<ports, prev, safe, retried, advised, expected>>
  BY DEF HearLog
<1>5. explicit' \in BOOLEAN /\ announced' \in BOOLEAN /\ outage' \in BOOLEAN
  BY DEF HearLog
<1>6. LoopTypeOK'
  BY <1>3, <1>4, <1>5, TypeParts DEF WatchInv, LoopTypeOK
<1>7. at' \in {"web", "fudan", "failing"}
  BY DEF HearLog
<1>8. NetTypeOK' /\ EndTypeOK' /\ CheckedOnce'
  BY <1>7, TypeParts, NetStays DEF WatchInv, HearLog, EndTypeOK, CheckedOnce
<1> QED  BY <1>1, <1>3, <1>6, <1>8, TypePartsAfter DEF WatchInv

\* Production that answers with its identity is the other evidence.
LEMMA ProbeProductionKeeps == WatchInv /\ ProbeProduction => WatchInv'
<1> SUFFICES ASSUME WatchInv, ProbeProduction PROVE WatchInv'
  OBVIOUS
<1>1. BoardTypeOK' /\ FormatsBeforeBl2' /\ Evidence' /\ chain' = "new"
  BY TypeParts, BoardStays DEF WatchInv, ProbeProduction, Evidence
<1>2. CASE Conclude("production-ssh+luci")
  BY <1>1, <1>2, ConcludeType, TypeParts, TypePartsAfter DEF WatchInv, Verified
<1>3. CASE HearProduction /\ step' \in {step, 8}
  <2>1. LoopTypeOK' /\ StepsAreProven'
    BY <1>1, <1>3, TypeParts DEF WatchInv, HearProduction, LoopTypeOK, StepsAreProven
  <2>2. NetTypeOK' /\ EndTypeOK' /\ CheckedOnce'
    BY <1>3, TypeParts, NetStays DEF WatchInv, HearProduction, EndTypeOK, CheckedOnce
  <2> QED  BY <1>1, <2>1, <2>2, TypePartsAfter DEF WatchInv
<1> QED  BY <1>2, <1>3 DEF ProbeProduction

\* The operator is asked about a board whose marker was there.
LEMMA FudanCheckKeeps == WatchInv /\ FudanCheck => WatchInv'
<1> SUFFICES ASSUME WatchInv, FudanCheck PROVE WatchInv'
  OBVIOUS
<1>1. BoardTypeOK' /\ FormatsBeforeBl2' /\ Evidence' /\ chain' = chain /\ chain = "new"
  BY TypeParts, BoardStays DEF WatchInv, FudanCheck, Evidence
<1>2. LoopTypeOK' /\ StepsAreProven'
  BY <1>1, TypeParts, LoopStays DEF WatchInv, FudanCheck
<1>3. NetTypeOK' /\ EndTypeOK' /\ CheckedOnce'
  BY <1>1, TypeParts, NetStays DEF WatchInv, FudanCheck, EndTypeOK, CheckedOnce
<1> QED  BY <1>1, <1>2, <1>3, TypePartsAfter DEF WatchInv

LEMMA FudanContinueKeeps == WatchInv /\ FudanContinue => WatchInv'
<1> SUFFICES ASSUME WatchInv, FudanContinue PROVE WatchInv'
  OBVIOUS
<1>1. /\ at = "token" /\ chain = "new"
      /\ mode' \in {"transition", "upgrading"} /\ mode = "transition"
      /\ UNCHANGED <<state, logged, marked, chain, fit>>
  BY DEF WatchInv, FudanContinue, CheckedOnce
<1>2. BoardTypeOK' /\ FormatsBeforeBl2' /\ Evidence'
  BY <1>1, TypeParts DEF WatchInv, BoardTypeOK, FormatsBeforeBl2, Evidence, Flashing
<1>3. CASE Conclude("failed")
  BY <1>2, <1>3, ConcludeType, TypeParts, TypePartsAfter DEF WatchInv
<1>4. CASE ~Conclude("failed")
  <2>1. /\ at' = "scan" /\ prev' = "RC27_FALSE_FUDAN_RECOVERY" /\ heard' = "" /\ ports' = FALSE
        /\ UNCHANGED <<step, announced, explicit, outage, safe, retried, advised, expected,
                       net, serving, verdict, watches>>
    BY <1>4 DEF FudanContinue
  <2>2. LoopTypeOK' /\ StepsAreProven'
    BY <1>1, <2>1, TypeParts DEF WatchInv, LoopTypeOK, StepsAreProven
  <2>3. NetTypeOK' /\ EndTypeOK' /\ CheckedOnce'
    BY <2>1, TypeParts, NetStays DEF WatchInv, EndTypeOK, CheckedOnce
  <2> QED  BY <1>2, <2>2, <2>3, TypePartsAfter DEF WatchInv
<1> QED  BY <1>3, <1>4

LEMMA PermittedCutKeeps == WatchInv /\ PermittedCut => WatchInv'
<1> SUFFICES ASSUME WatchInv, PermittedCut PROVE WatchInv'
  OBVIOUS
<1>1. /\ BoardTypeOK' /\ FormatsBeforeBl2' /\ Evidence'
      /\ chain = "new" => chain' = "new"
  BY TypeParts, BoardStep DEF WatchInv, PermittedCut, BoardNext, BoardAlone
<1>2. /\ at' = "scan" /\ prev' = "" /\ safe' = FALSE
      /\ UNCHANGED <<heard, ports, step, announced, explicit, outage, retried, advised, expected>>
      /\ UNCHANGED <<rescue, served, port69>> /\ UNCHANGED <<verdict, watches>> /\ Echo
  BY DEF PermittedCut
<1>3. LoopTypeOK' /\ StepsAreProven'
  BY <1>1, <1>2, TypeParts DEF WatchInv, LoopTypeOK, StepsAreProven
<1>4. NetTypeOK' /\ serving' \in BOOLEAN
  BY <1>2, EchoType, TypeParts DEF WatchInv, EndTypeOK
<1>5. EndTypeOK' /\ CheckedOnce'
  BY <1>2, <1>4, TypeParts DEF WatchInv, EndTypeOK, CheckedOnce
<1> QED  BY <1>1, <1>3, <1>4, <1>5, TypePartsAfter DEF WatchInv

\* The end of a turn, and a turn that heard nothing, leave the board alone.
LEMMA QuietKeeps == WatchInv /\ (ProbeSilent \/ AnswerNo \/ TurnEnds) => WatchInv'
<1> SUFFICES ASSUME WatchInv, ProbeSilent \/ AnswerNo \/ TurnEnds PROVE WatchInv'
  OBVIOUS
<1>1. BoardTypeOK' /\ FormatsBeforeBl2' /\ Evidence' /\ chain' = chain
  BY TypeParts, BoardStays DEF WatchInv, ProbeSilent, AnswerNo, TurnEnds
<1>2. at' \in {"web", "scan", "asked"} /\ UNCHANGED net /\ UNCHANGED <<serving, verdict, watches>>
  BY DEF ProbeSilent, AnswerNo, TurnEnds
<1>3. NetTypeOK' /\ EndTypeOK' /\ CheckedOnce'
  BY <1>2, TypeParts, NetStays DEF WatchInv, EndTypeOK, CheckedOnce
<1>4. LoopTypeOK' /\ StepsAreProven'
  <2>1. CASE ProbeSilent \/ AnswerNo
    BY <1>1, <2>1, TypeParts, LoopStays DEF WatchInv, ProbeSilent, AnswerNo
  <2>2. CASE TurnEnds
    <3>1. advised' \in BOOLEAN /\ retried' \in BOOLEAN
      BY <2>2, TypeParts DEF WatchInv, TurnEnds, LoopTypeOK
    <3> QED  BY <1>1, <2>2, <3>1, TypeParts DEF WatchInv, TurnEnds, LoopTypeOK, StepsAreProven
  <2> QED  BY <2>1, <2>2
<1> QED  BY <1>1, <1>3, <1>4, TypePartsAfter DEF WatchInv

LEMMA EndKeeps == WatchInv /\ (Failed \/ WebVerified \/ StopWaiting) => WatchInv'
<1> SUFFICES ASSUME WatchInv, Failed \/ WebVerified \/ StopWaiting PROVE WatchInv'
  OBVIOUS
<1>1. BoardTypeOK' /\ FormatsBeforeBl2' /\ Evidence'
  BY TypeParts, BoardStays DEF WatchInv, Failed, WebVerified, StopWaiting
<1>2. PICK v \in Verified \cup {"failed", "post-install-unverified"} : Conclude(v)
  BY DEF Failed, WebVerified, StopWaiting, Verified
<1> QED  BY <1>1, <1>2, ConcludeType, TypeParts, TypePartsAfter DEF WatchInv

LEMMA StartRescueType ==
    ASSUME NetTypeOK, StartRescue
    PROVE  NetTypeOK'
BY DEF StartRescue, Bind, NetTypeOK

LEMMA StartKeeps == WatchInv /\ (WatchAfterInstall \/ Resume) => WatchInv'
<1> SUFFICES ASSUME WatchInv, WatchAfterInstall \/ Resume PROVE WatchInv'
  OBVIOUS
<1>1. BoardTypeOK' /\ FormatsBeforeBl2' /\ Evidence' /\ chain' = chain
  BY TypeParts, BoardStays DEF WatchInv, WatchAfterInstall, Resume
<1>2. watches' \in 0..Watches
  <2>1. watches \in 0..Watches
    BY TypeParts DEF WatchInv, EndTypeOK
  <2>2. (watches = 0 /\ watches' = 1) \/ (watches < Watches /\ watches' = watches + 1)
    BY DEF WatchAfterInstall, Resume
  <2> QED  BY <2>1, <2>2, WatchesAssumption DEF WatchesAssumption
<1>3. UNCHANGED serving /\ at = "menu"
  BY DEF WatchAfterInstall, Resume
<1>4. CASE StartWatch /\ expected' \in BOOLEAN
  <2>1. LoopTypeOK' /\ StepsAreProven'
    <3>1. UNCHANGED <<heard, ports, prev, step, announced, explicit, outage, safe, retried, advised>>
      BY <1>4 DEF StartWatch
    <3>2. StepsAreProven'
      BY <1>1, <3>1 DEF WatchInv, StepsAreProven
    <3>3. LoopTypeOK'
      <4>1. LoopTypeOK
        BY TypeParts DEF WatchInv
      <4> QED  BY <1>4, <3>1, <4>1 DEF LoopTypeOK
    <3> QED  BY <3>2, <3>3
  <2>2. NetTypeOK'
    BY <1>4, StartRescueType, TypeParts DEF WatchInv, StartWatch
  <2>3. EndTypeOK' /\ CheckedOnce'
    BY <1>2, <1>3, <1>4, TypeParts DEF WatchInv, StartWatch, EndTypeOK, CheckedOnce
  <2> QED  BY <1>1, <2>1, <2>2, <2>3, TypePartsAfter DEF WatchInv
<1>5. CASE verdict' = "refused" /\ UNCHANGED <<at, loop, net>>
  <2>1. LoopTypeOK' /\ StepsAreProven' /\ NetTypeOK'
    BY <1>1, <1>5, TypeParts, LoopStays, NetStays DEF WatchInv
  <2>2. EndTypeOK' /\ CheckedOnce'
    BY <1>2, <1>3, <1>5, TypeParts DEF WatchInv, EndTypeOK, CheckedOnce
  <2> QED  BY <1>1, <2>1, <2>2, TypePartsAfter DEF WatchInv
<1> QED  BY <1>4, <1>5 DEF WatchAfterInstall, Resume

LEMMA NextCallType ==
    ASSUME NetTypeOK, NextCall
    PROVE  /\ port69' \in {"free", "other", "rescue", "late"}
           /\ call' \in {"none", "waiting", "foreign", "transfer", "stale"}
BY DEF NextCall, NetTypeOK

\* The rescue server starts an image that holds no log and no marker.
LEMMA NetKeeps == WatchInv /\ RescueServer => WatchInv'
<1> SUFFICES ASSUME WatchInv, RescueServer PROVE WatchInv'
  OBVIOUS
<1>1. /\ BoardTypeOK' /\ FormatsBeforeBl2' /\ Evidence'
      /\ chain' = chain
  <2>1. CASE TransferEnds
    BY <2>1, TypeParts, BoardStep DEF WatchInv, TransferEnds, BoardNext, Rescue
  <2>2. CASE Rebind \/ Answer \/ TransferBreaks \/ CallTimesOut
    BY <2>2, TypeParts, BoardStays DEF WatchInv, Rebind, Answer, TransferBreaks, CallTimesOut
  <2> QED  BY <2>1, <2>2 DEF RescueServer
<1>2. UNCHANGED <<at, loop, serving, verdict, watches>>
  BY DEF RescueServer, Rebind, Answer, TransferEnds, TransferBreaks, CallTimesOut
<1>3. LoopTypeOK' /\ StepsAreProven' /\ EndTypeOK' /\ CheckedOnce'
  BY <1>1, <1>2, TypeParts, LoopStays DEF WatchInv, EndTypeOK, CheckedOnce
<1>4. NetTypeOK'
  <2>1. NetTypeOK
    BY TypeParts DEF WatchInv
  <2>2. CASE Rebind \/ Answer \/ TransferBreaks
    BY <2>1, <2>2 DEF Rebind, Bind, Answer, TransferBreaks, NetTypeOK
  <2>3. CASE TransferEnds
    BY <2>1, <2>3, NextCallType DEF TransferEnds, NetTypeOK
  <2>4. CASE CallTimesOut
    <3>1. served' \in BOOLEAN
      BY <2>1, <2>4 DEF CallTimesOut, NetTypeOK
    <3> QED  BY <2>1, <2>4, <3>1, NextCallType DEF CallTimesOut, NetTypeOK
  <2> QED  BY <2>2, <2>3, <2>4 DEF RescueServer
<1> QED  BY <1>1, <1>3, <1>4, TypePartsAfter DEF WatchInv

LEMMA BoardKeeps == WatchInv /\ (Board \/ ServicesUp) => WatchInv'
<1> SUFFICES ASSUME WatchInv, Board \/ ServicesUp PROVE WatchInv'
  OBVIOUS
<1>1. /\ BoardTypeOK' /\ FormatsBeforeBl2' /\ Evidence'
      /\ chain = "new" => chain' = "new"
  BY TypeParts, BoardStep, BoardStays DEF WatchInv, Board, ServicesUp, BoardNext
<1>2. UNCHANGED <<at, loop, verdict, watches>>
  BY DEF Board, ServicesUp
<1>3. NetTypeOK' /\ serving' \in BOOLEAN
  BY TypeParts, EchoType, NetStays DEF WatchInv, Board, ServicesUp, EndTypeOK
<1>4. LoopTypeOK' /\ StepsAreProven' /\ EndTypeOK' /\ CheckedOnce'
  BY <1>1, <1>2, <1>3, TypeParts, LoopStays DEF WatchInv, EndTypeOK, CheckedOnce
<1> QED  BY <1>1, <1>3, <1>4, TypePartsAfter DEF WatchInv

LEMMA WatchInitInv == WatchInit => WatchInv
<1> SUFFICES ASSUME WatchInit PROVE WatchInv
  OBVIOUS
<1>1. BoardTypeOK /\ FormatsBeforeBl2 /\ Evidence
  <2>1. /\ mode = "transition" /\ state = "BOOTING" /\ logged = 0 /\ marked = FALSE
        /\ chain = "old" /\ fit = "none"
    BY DEF WatchInit, BoardInit
  <2>2. BoardTypeOK
    BY <2>1 DEF BoardTypeOK, States, Safe
  <2> QED  BY <2>1, <2>2 DEF FormatsBeforeBl2, Flashing, Evidence
<1>2. LoopTypeOK /\ StepsAreProven
  <2>1. /\ ports \in BOOLEAN /\ announced \in BOOLEAN /\ explicit \in BOOLEAN /\ outage \in BOOLEAN
        /\ safe \in BOOLEAN /\ retried \in BOOLEAN /\ advised \in BOOLEAN /\ expected \in BOOLEAN
    BY DEF WatchInit
  <2>2. heard = "" /\ prev = "" /\ step = 0
    BY DEF WatchInit
  <2>3. LoopTypeOK
    BY <2>1, <2>2 DEF LoopTypeOK
  <2>4. step = 0
    BY <2>2
  <2>5. step # 8
    BY <2>4
  <2> QED  BY <2>3, <2>5 DEF StepsAreProven
<1>3. NetTypeOK
  BY HoldersAssumption DEF WatchInit, NetTypeOK, HoldersAssumption
<1>4. EndTypeOK /\ CheckedOnce
  <2>1. watches = 0
    BY DEF WatchInit
  <2>2. watches \in 0..Watches
    BY <2>1, WatchesAssumption DEF WatchesAssumption
  <2>3. at = "menu" /\ serving = FALSE /\ verdict = ""
    BY DEF WatchInit
  <2> QED  BY <2>2, <2>3 DEF EndTypeOK, CheckedOnce
<1> QED  BY <1>1, <1>2, <1>3, <1>4, TypeParts DEF WatchInv

LEMMA WatchNextInv == WatchInv /\ [WatchNext]_allvars => WatchInv'
<1> SUFFICES ASSUME WatchInv, [WatchNext]_allvars PROVE WatchInv'
  OBVIOUS
<1>1. CASE Watch
  BY <1>1, ScanKeeps, HearTransitionKeeps, HearLogKeeps, ProbeProductionKeeps, FudanCheckKeeps,
     FudanContinueKeeps, PermittedCutKeeps, QuietKeeps, EndKeeps DEF Watch
<1>2. CASE WatchNext /\ ~Watch
  BY <1>2, StartKeeps, NetKeeps, BoardKeeps DEF WatchNext
<1>3. CASE UNCHANGED allvars
  <2>1. BoardTypeOK' /\ FormatsBeforeBl2' /\ Evidence' /\ chain' = chain
    BY <1>3, TypeParts, BoardStays DEF WatchInv, allvars
  <2>2. UNCHANGED <<at, loop, serving, verdict, watches>> /\ UNCHANGED net
    BY <1>3 DEF allvars, watch
  <2>3. LoopTypeOK' /\ StepsAreProven' /\ NetTypeOK' /\ EndTypeOK' /\ CheckedOnce'
    BY <2>1, <2>2, TypeParts, LoopStays, NetStays DEF WatchInv, EndTypeOK, CheckedOnce
  <2> QED  BY <2>1, <2>3, TypePartsAfter DEF WatchInv
<1> QED  BY <1>1, <1>2, <1>3

LEMMA WatchInductive == WatchSpec => []WatchInv
BY WatchInitInv, WatchNextInv, PTL DEF WatchSpec

\* The types of the board's and of the wizard's variables, for any number of watches.
THEOREM WatchTypes == WatchSpec => []WatchTypeOK
<1>1. WatchInv => WatchTypeOK
  BY DEF WatchInv
<1> QED  BY <1>1, WatchInductive, PTL

\* The wizard draws steps 7 and 8 only of a board whose boot chain is in NAND:
\* a network that goes away, a guessed reboot or a missed log never draws them.
THEOREM StepsProven == WatchSpec => []StepsAreProven
<1>1. WatchInv => StepsAreProven
  BY DEF WatchInv
<1> QED  BY <1>1, WatchInductive, PTL

\* Nobody starts sysupgrade, autoflash or the operator's continuation of a failed
\* migration, over a boot chain that is not in NAND.
THEOREM SysupgradeIsLast == WatchSpec => SysupgradeOverNewChain
<1>1. ASSUME WatchInv, [WatchNext]_allvars
      PROVE  [mode' = "upgrading" /\ mode # "upgrading" => chain = "new"]_allvars
  <2>1. SUFFICES ASSUME WatchNext, mode' = "upgrading", mode # "upgrading"
                 PROVE  chain = "new"
    BY <1>1
  <2>2. CASE FudanContinue
    BY <1>1, <2>2 DEF WatchInv, CheckedOnce, FudanContinue
  <2>3. CASE BoardNext
    <3>1. CASE Handover
      BY <1>1, <3>1 DEF Handover, WatchInv, Evidence
    <3>2. CASE Upgrade
      BY <2>1, <3>2 DEF Upgrade
    <3>3. CASE PowerOn
      <4>1. fit \in {"transition", "production", "none"}
        BY <1>1, TypeParts DEF WatchInv, BoardTypeOK
      <4>2. mode' = Survivor(chain, fit)
        BY <3>3 DEF PowerOn, BootAs
      <4>3. mode' \in {"transition", "production", "rescue", "stuck"}
        BY <4>1, <4>2, SurvivorType
      <4> QED  BY <2>1, <4>3
    <3>4. CASE PowerCut \/ Rescue
      BY <2>1, <3>4 DEF PowerCut, Rescue, BootAs
    <3>5. CASE Settle \/ BeginFlash \/ Format \/ WriteBl2 \/ Complete \/ Fail
      BY <2>1, <3>5 DEF Settle, BeginFlash, Format, WriteBl2, Complete, Fail
    <3> QED  BY <2>3, <3>1, <3>2, <3>3, <3>4, <3>5 DEF BoardNext, BoardAlone
  <2>4. CASE Watch /\ ~FudanContinue /\ ~PermittedCut
    BY <2>1, <2>4 DEF Watch, Scan, HearTransition, HearLog, ProbeSilent, ProbeProduction, FudanCheck,
       Failed, WebVerified, TurnEnds, StopWaiting, AnswerNo, boardvars
  <2>5. CASE WatchAfterInstall \/ Resume \/ ServicesUp
    BY <2>1, <2>5 DEF WatchAfterInstall, Resume, ServicesUp, boardvars
  <2>6. CASE RescueServer
    BY <2>1, <2>3, <2>6 DEF RescueServer, Rebind, Answer, TransferEnds, TransferBreaks, CallTimesOut,
       boardvars, BoardNext
  <2>7. CASE PermittedCut \/ Board
    BY <2>3, <2>7 DEF PermittedCut, Board, BoardNext, BoardAlone
  <2> QED  BY <2>1, <2>2, <2>4, <2>5, <2>6, <2>7 DEF WatchNext
<1> QED  BY <1>1, WatchInductive, PTL DEF WatchSpec, SysupgradeOverNewChain
=============================================================================
