------------------------- MODULE ManualImageProofs -------------------------
(* The image of a manual migration survives the transports the PC has given *)
(* up, for any images, any number of starts of the wizard and any number of *)
(* abandoned transports.                                                    *)
EXTENDS ManualImage, FiniteSetTheorems, TLAPS

\* Types, as far as the argument needs them.
Types ==
  /\ choice \in Images /\ file \in [Names -> Contents] /\ at \in Places
  /\ \A s \in strays : s \in Stray

\* The installer is launched once, at the end of the wizard.
LaunchedLast == board # "waiting" => phase \in {"watch", "failed"}

\* The places from the removal of both names on, and from the rename on.
Transfer == {"sending", "sent"}
Renamed == {"renamed", "check", "confirm", "launch", "watch"}
Proven == {"check", "confirm", "launch", "watch"}

\* The removal leaves every abandoned writer a file without a name, and nothing
\* gives it a name again.
StraysUnlinked ==
  phase \in Transfer \cup Renamed \/ board # "waiting" => \A s \in strays : s.at = "gone"

\* After the rename there is no .part file that an abandoned mv could still take.
NoPart == phase \in Renamed \/ board # "waiting" => file["part"] = "none"

\* The image compared with the chosen one, while the PC or the board relies on it.
ImageStays == phase \in Proven \/ board # "waiting" => file["image"] = choice

\* The current transport has closed its file before the rename.
Closed == phase \in Renamed \cup {"sent"} => at = "gone"

\* The inductive invariant.
IInv == Types /\ LaunchedLast /\ StraysUnlinked /\ NoPart /\ ImageStays /\ Closed /\ board # "no image"

LEMMA InitInv ==
    ASSUME Init
    PROVE  IInv
BY DEF Init, IInv, Types, LaunchedLast, StraysUnlinked, NoPart, ImageStays, Closed, Transfer, Renamed,
   Proven, Names, Contents, Places

\* What is written is one of the contents.
LEMMA WriteTypes ==
    ASSUME NEW f \in [Names -> Contents], NEW p \in Places, NEW c \in Contents, NEW i \in Images
    PROVE  /\ Overwritten(c, i) \in Contents /\ Finished(c, i) \in Contents
           /\ Write(f, p, c) \in [Names -> Contents]
BY DEF Overwritten, Finished, Write, Places, Contents

\* The steps of the wizard that touch neither files nor transports.
LEMMA DialogueStep ==
    ASSUME IInv, Wait \/ Choose \/ Skip \/ Verify \/ Check \/ Confirm \/ Launch \/ Resume
    PROVE  IInv'
<1> USE DEF IInv, Types, LaunchedLast, StraysUnlinked, NoPart, ImageStays, Closed, Transfer, Renamed,
   Proven, Goto
<1>1. CASE Wait
  BY <1>1 DEF Wait
<1>2. CASE Choose
  BY <1>2 DEF Choose
<1>3. CASE Skip
  BY <1>3 DEF Skip, NextTransport
<1>4. CASE Verify
  BY <1>4 DEF Verify
<1>5. CASE Check
  BY <1>5 DEF Check
<1>6. CASE Confirm
  BY <1>6 DEF Confirm
<1>7. CASE Launch
  BY <1>7 DEF Launch
<1>8. CASE Resume
  BY <1>8 DEF Resume
<1> QED
  BY <1>1, <1>2, <1>3, <1>4, <1>5, <1>6, <1>7, <1>8

\* Both names are removed before anything is sent.
LEMMA StartStep ==
    ASSUME IInv, Start
    PROVE  IInv'
<1>1. phase' = "sending" /\ at' = "part" /\ UNCHANGED <<choice, board>> /\ phase = "try"
  BY DEF Start, Goto
<1>2. file' \in [Names -> Contents]
  BY DEF Start, Names, Contents
<1>3. \A s \in strays' : s \in Stray /\ s.at = "gone"
  BY DEF Start, Unlinked, IInv, Types, Stray, Places
<1>4. board = "waiting"
  BY <1>1 DEF IInv, LaunchedLast
<1> QED
  BY <1>1, <1>2, <1>3, <1>4 DEF IInv, Types, LaunchedLast, StraysUnlinked, NoPart, ImageStays, Closed,
     Transfer, Renamed, Proven, Places, Names

\* The end of a transfer.
LEMMA SentStep ==
    ASSUME IInv, Sent
    PROVE  IInv'
<1>1. /\ phase = "sending" /\ phase' = "sent" /\ at' = "gone"
      /\ UNCHANGED <<choice, board, strays>>
  BY DEF Sent, SendTftp, SendScp, SendStream, Goto
<1>2. file' \in [Names -> Contents]
  <2>1. CASE at = "gone"
    BY <2>1 DEF Sent, IInv, Types
  <2>2. CASE at # "gone"
    <3>1. file[at] \in Contents
      BY <2>2 DEF IInv, Types, Places
    <3> QED
      BY <2>2, <3>1, WriteTypes DEF Sent, IInv, Types
  <2> QED  BY <2>1, <2>2
<1>3. board = "waiting"
  BY <1>1 DEF IInv, LaunchedLast
<1> QED
  BY <1>1, <1>2, <1>3 DEF IInv, Types, LaunchedLast, StraysUnlinked, NoPart, ImageStays, Closed,
     Transfer, Renamed, Proven, Places

\* The rename takes the only .part file there is.
LEMMA RenameStep ==
    ASSUME IInv, Rename
    PROVE  IInv'
<1>1. /\ phase = "sent" /\ phase' = "renamed" /\ UNCHANGED <<choice, board>>
      /\ at = "gone" /\ at' = Moved(at)
  BY DEF Rename, Move, Goto, IInv, Closed, Renamed
<1>2. file' \in [Names -> Contents] /\ file'["part"] = "none"
  <2>1. "none" \in Contents /\ file["part"] \in Contents
    BY DEF IInv, Types, Names, Contents
  <2>2. file' = [part |-> "none", image |-> file["part"]]
    BY DEF Rename, Move
  <2> QED
    BY <2>1, <2>2 DEF Names
<1>3. \A s \in strays' : s \in Stray /\ s.at = "gone"
  BY <1>1 DEF Rename, IInv, Types, StraysUnlinked, Transfer, Moved, Stray, Places
<1>4. board = "waiting" /\ at' = "gone"
  BY <1>1 DEF IInv, LaunchedLast, Moved
<1> QED
  BY <1>1, <1>2, <1>3, <1>4 DEF IInv, Types, LaunchedLast, StraysUnlinked, NoPart, ImageStays, Closed,
     Transfer, Renamed, Proven, Places

\* A transport given up may go on as a stray; the next one starts anew.
LEMMA GiveUpStep ==
    ASSUME IInv, GiveUp
    PROVE  IInv'
<1>1. /\ phase \in {"sending", "sent", "renamed"} /\ phase' \in {"try", "failed"}
      /\ at' = "gone" /\ UNCHANGED <<choice, file, board>>
  BY DEF GiveUp, NextTransport, Goto
<1>2. board = "waiting"
  BY <1>1 DEF IInv, LaunchedLast
<1>3. transport \in Transports
  BY DEF GiveUp, NextTransport, Transports
<1>4. \A s \in strays' : s \in Stray
  <2>1. \A s \in strays' : s \in strays \/
           s = [kind |-> transport, image |-> choice, at |-> at,
                step |-> IF phase = "sent" THEN "move" ELSE "write"]
    BY DEF GiveUp
  <2>2. choice \in Images /\ at \in Places
    BY DEF IInv, Types
  <2>3. [kind |-> transport, image |-> choice, at |-> at,
         step |-> IF phase = "sent" THEN "move" ELSE "write"] \in Stray
    BY <1>3, <2>2 DEF Stray
  <2> QED
    BY <2>1, <2>3 DEF IInv, Types
<1> QED
  BY <1>1, <1>2, <1>4 DEF IInv, Types, LaunchedLast, StraysUnlinked, NoPart, ImageStays, Closed,
     Transfer, Renamed, Proven, Places

\* The installer compares the file before and after the format.
LEMMA InstallerStep ==
    ASSUME IInv, Installer
    PROVE  IInv'
<1>1. board # "waiting" /\ UNCHANGED <<phase, choice, file, at, strays>>
  BY DEF Installer, Accept, Refuse, FinishImage
<1>2. file["image"] = choice
  BY <1>1 DEF IInv, ImageStays
<1>3. board' # "no image" /\ board' # "waiting"
  BY <1>2 DEF Installer, Accept, Refuse, FinishImage
<1> QED
  BY <1>1, <1>2, <1>3 DEF IInv, Types, LaunchedLast, StraysUnlinked, NoPart, ImageStays, Closed

\* An abandoned transport goes on: without a name for its file it changes none,
\* and without a .part file its mv fails.
LEMMA StrayWritesStep ==
    ASSUME IInv, NEW s \in strays, StrayWrites(s), UNCHANGED <<phase, choice, board>>
    PROVE  IInv'
<1>1. s \in Stray /\ s.at \in Places /\ s.image \in Images /\ at' = at
  BY DEF IInv, Types, Stray, StrayWrites
<1>2. file' \in [Names -> Contents]
  <2>1. CASE s.at = "gone"
    BY <2>1 DEF StrayWrites, IInv, Types
  <2>2. CASE s.at # "gone"
    <3>1. file[s.at] \in Contents
      BY <1>1, <2>2 DEF IInv, Types, Places
    <3>2. file' \in {file, Write(file, s.at, Overwritten(file[s.at], s.image)),
                     Write(file, s.at, Finished(file[s.at], s.image))}
      BY <2>2 DEF StrayWrites
    <3>3. /\ Overwritten(file[s.at], s.image) \in Contents
          /\ Finished(file[s.at], s.image) \in Contents
      BY <1>1, <3>1 DEF Overwritten, Finished, Contents
    <3>4. \A c \in Contents : Write(file, s.at, c) \in [Names -> Contents]
      BY <1>1 DEF IInv, Types, Write
    <3> QED
      BY <3>2, <3>3, <3>4 DEF IInv, Types
  <2> QED  BY <2>1, <2>2
<1>3. s.at = "gone" => file' = file
  BY DEF StrayWrites
<1>4. \A x \in strays' : x \in strays \/ x = [s EXCEPT !.step = "move", !.at = "gone"]
  BY DEF StrayWrites
<1>5. \A x \in strays' : x \in Stray /\ (x \in strays \/ x.at = "gone")
  BY <1>1, <1>4 DEF IInv, Types, Stray, Places
<1> QED
  BY <1>1, <1>2, <1>3, <1>5 DEF IInv, Types, LaunchedLast, StraysUnlinked, NoPart, ImageStays, Closed,
     Transfer, Renamed, Proven

LEMMA StrayMovesStep ==
    ASSUME IInv, NEW s \in strays, StrayMoves(s), UNCHANGED <<phase, choice, board>>
    PROVE  IInv'
<1>1. CASE file["part"] = "none"
  BY <1>1 DEF StrayMoves, Move, IInv, Types, LaunchedLast, StraysUnlinked, NoPart, ImageStays, Closed
<1>2. CASE file["part"] # "none"
  <2>1. /\ file' = [part |-> "none", image |-> file["part"]] /\ at' = Moved(at)
        /\ strays' = {[x EXCEPT !.at = Moved(x.at)] : x \in strays \ {s}}
    BY <1>2 DEF StrayMoves, Move
  <2>2. phase \notin Renamed /\ board = "waiting"
    BY <1>2 DEF IInv, NoPart
  <2>3. file' \in [Names -> Contents]
    <3>1. "none" \in Contents /\ file["part"] \in Contents
      BY DEF IInv, Types, Names, Contents
    <3> QED
      BY <2>1, <3>1 DEF Names
  <2>4. at' \in Places /\ (at = "gone" => at' = "gone")
    BY <2>1 DEF IInv, Types, Moved, Places, Names
  <2>5. \A x \in strays' : x \in Stray /\ (phase \in Transfer => x.at = "gone")
    BY <2>1 DEF IInv, Types, StraysUnlinked, Stray, Moved, Places, Names
  <2> QED
    BY <2>2, <2>3, <2>4, <2>5 DEF IInv, Types, LaunchedLast, StraysUnlinked, NoPart, ImageStays, Closed,
       Transfer, Renamed, Proven
<1> QED  BY <1>1, <1>2

\* Every step keeps the invariant.
LEMMA StepInv ==
    ASSUME IInv, [Next]_vars
    PROVE  IInv'
<1>1. CASE Wizard \/ Resume
  BY <1>1, DialogueStep, StartStep, SentStep, RenameStep, GiveUpStep DEF Wizard
<1>2. CASE Installer
  BY <1>2, InstallerStep
<1>3. CASE StrayStep
  BY <1>3, StrayWritesStep, StrayMovesStep DEF StrayStep
<1>4. CASE UNCHANGED vars
  BY <1>4 DEF vars, IInv, Types, LaunchedLast, StraysUnlinked, NoPart, ImageStays, Closed
<1> QED
  BY <1>1, <1>2, <1>3, <1>4 DEF Next, Stop

\* From the comparison of the hashes to the end of the flash the image file is
\* the chosen one, and no board is left formatted without it.
THEOREM ImageIsKept == Spec => []ImageKept
<1>1. Init => IInv
  BY InitInv
<1>2. IInv /\ [Next]_vars => IInv'
  BY StepInv
<1>3. IInv => ImageKept
  BY DEF IInv, ImageStays, Proven, ImageKept
<1> QED
  BY <1>1, <1>2, <1>3, PTL DEF Spec

\* Renaming or unlinking the files of the strays makes no more of them.
LEMMA ImageBound ==
    ASSUME NEW S, IsFiniteSet(S), NEW f, f \in [S -> {f[x] : x \in S}]
    PROVE  /\ IsFiniteSet({f[x] : x \in S}) /\ Cardinality({f[x] : x \in S}) <= Cardinality(S)
<1>1. f \in Surjection(S, {f[x] : x \in S})
  BY DEF Surjection
<1> QED
  BY <1>1, FS_Surjection

\* A bounded set of transports.
Few(S) == IsFiniteSet(S) /\ Cardinality(S) <= MaxStrays

LEMMA FewFewer ==
    ASSUME NEW S, Few(S), NEW s
    PROVE  /\ Few(S \ {s})
           /\ s \in S => \A x : Few((S \ {s}) \cup {x})
<1>1. Cardinality(S) \in Nat /\ MaxStrays \in Nat
  BY FS_CardinalityType, ManualAssumption DEF Few
<1>2. /\ IsFiniteSet(S \ {s})
      /\ Cardinality(S \ {s}) = IF s \in S THEN Cardinality(S) - 1 ELSE Cardinality(S)
  BY FS_RemoveElement DEF Few
<1>3. ASSUME NEW x, s \in S
      PROVE  Few((S \ {s}) \cup {x})
  <2>1. /\ IsFiniteSet((S \ {s}) \cup {x})
        /\ Cardinality((S \ {s}) \cup {x})
             = IF x \in S \ {s} THEN Cardinality(S \ {s}) ELSE Cardinality(S \ {s}) + 1
    BY <1>2, FS_AddElement
  <2> QED
    BY <1>1, <1>2, <1>3, <2>1 DEF Few
<1> QED
  BY <1>1, <1>2, <1>3 DEF Few

\* A transport becomes a stray only where there is room for one more.
LEMMA FewStep ==
    ASSUME Few(strays), [Next]_vars
    PROVE  Few(strays')
<1>1. Cardinality(strays) \in Nat /\ MaxStrays \in Nat
  BY FS_CardinalityType, ManualAssumption DEF Few
<1>2. ASSUME NEW T \in SUBSET strays, NEW f, f \in [T -> {f[x] : x \in T}], strays' = {f[x] : x \in T}
      PROVE  Few(strays')
  <2>1. IsFiniteSet(T) /\ Cardinality(T) <= Cardinality(strays)
    BY FS_Subset DEF Few
  <2>2. /\ IsFiniteSet({f[x] : x \in T}) /\ Cardinality({f[x] : x \in T}) <= Cardinality(T)
    BY <1>2, <2>1, ImageBound
  <2>3. Cardinality(T) \in Nat /\ Cardinality(strays') \in Nat
    BY <1>2, <2>1, <2>2, FS_CardinalityType
  <2> QED
    BY <1>1, <1>2, <2>1, <2>2, <2>3 DEF Few
<1>3. CASE Start
  <2> DEFINE f == [s \in strays |-> Unlinked(s)]
  <2>1. strays' = {f[s] : s \in strays} /\ f \in [strays -> {f[s] : s \in strays}]
    BY <1>3 DEF Start
  <2> HIDE DEF f
  <2> QED
    BY <1>2, <2>1
<1>4. CASE Rename
  <2> DEFINE f == [s \in strays |-> [s EXCEPT !.at = Moved(s.at)]]
  <2>1. strays' = {f[s] : s \in strays} /\ f \in [strays -> {f[s] : s \in strays}]
    BY <1>4 DEF Rename
  <2> HIDE DEF f
  <2> QED
    BY <1>2, <2>1
<1>5. CASE GiveUp
  <2>1. CASE UNCHANGED strays
    BY <2>1
  <2>2. CASE Cardinality(strays) < MaxStrays /\ \E x : strays' = strays \cup {x}
    <3>1. PICK x : strays' = strays \cup {x}
      BY <2>2
    <3>2. /\ IsFiniteSet(strays \cup {x})
          /\ Cardinality(strays \cup {x})
               = IF x \in strays THEN Cardinality(strays) ELSE Cardinality(strays) + 1
      BY FS_AddElement DEF Few
    <3> QED
      BY <1>1, <2>2, <3>1, <3>2 DEF Few
  <2> QED
    BY <1>5, <2>1, <2>2 DEF GiveUp
<1>6. ASSUME NEW s \in strays, StrayWrites(s)
      PROVE  Few(strays')
  <2>1. strays' = strays \/ strays' = strays \ {s} \/ \E x : strays' = (strays \ {s}) \cup {x}
    BY <1>6 DEF StrayWrites
  <2>2. Few(strays \ {s}) /\ \A x : Few((strays \ {s}) \cup {x})
    BY FewFewer
  <2> QED
    BY <2>1, <2>2
<1>7. ASSUME NEW s \in strays, StrayMoves(s)
      PROVE  Few(strays')
  <2>1. CASE strays' = strays \ {s}
    BY <2>1, FewFewer
  <2>2. CASE strays' = {[x EXCEPT !.at = Moved(x.at)] : x \in strays \ {s}}
    <3> DEFINE f == [x \in strays \ {s} |-> [x EXCEPT !.at = Moved(x.at)]]
    <3>1. /\ strays' = {f[x] : x \in strays \ {s}}
          /\ f \in [strays \ {s} -> {f[x] : x \in strays \ {s}}]
      BY <2>2
    <3> HIDE DEF f
    <3> QED
      BY <1>2, <3>1
  <2> QED
    BY <1>7, <2>1, <2>2 DEF StrayMoves
<1>8. \/ UNCHANGED strays \/ Start \/ Rename \/ GiveUp
      \/ \E s \in strays : StrayWrites(s) \/ StrayMoves(s)
  BY DEF Next, Wizard, Wait, Choose, Skip, Sent, Verify, Check, Confirm, Launch, Resume, Installer,
     StrayStep, Stop, vars
<1> QED
  BY <1>3, <1>4, <1>5, <1>6, <1>7, <1>8

\* The variables of the wizard and of the board.
WizardTypes ==
  /\ phase \in {"wait", "choose", "try", "sending", "sent", "renamed", "check", "confirm",
                "launch", "watch", "failed"}
  /\ round \in 1 .. Rounds /\ transport \in Transports
  /\ board \in {"waiting", "starting", "formatting", "flashed", "refused", "no image"}

LEMMA WizardTypesStep ==
    ASSUME WizardTypes, [Next]_vars
    PROVE  WizardTypes'
<1> USE DEF WizardTypes, Goto
<1>1. CASE Wait \/ Choose \/ Verify \/ Check \/ Confirm \/ Launch
  BY <1>1 DEF Wait, Choose, Verify, Check, Confirm, Launch, Transports
<1>2. CASE Skip \/ GiveUp
  BY <1>2 DEF Skip, GiveUp, NextTransport, Transports
<1>3. CASE Start \/ Sent \/ Rename
  BY <1>3 DEF Start, Sent, Rename
<1>4. CASE Resume
  BY <1>4, ManualAssumption DEF Resume
<1>5. CASE Installer
  BY <1>5 DEF Installer, Accept, Refuse, FinishImage
<1>6. CASE StrayStep \/ UNCHANGED vars
  BY <1>6 DEF StrayStep, vars
<1> QED
  BY <1>1, <1>2, <1>3, <1>4, <1>5, <1>6 DEF Next, Wizard, Stop

\* Every variable keeps its type, and no more transports run on than the bound
\* says.
THEOREM ImageTypes == Spec => []TypeOK
<1>1. Init => IInv /\ WizardTypes /\ Few(strays)
  <2>1. ASSUME Init PROVE WizardTypes /\ Few(strays)
    <3>1. strays = {} /\ MaxStrays \in Nat /\ Rounds \in Nat \ {0}
      BY <2>1, ManualAssumption DEF Init
    <3> QED
      BY <2>1, <3>1, FS_EmptySet DEF Init, WizardTypes, Few, Transports
  <2> QED
    BY <2>1, InitInv
<1>2. IInv /\ WizardTypes /\ Few(strays) /\ [Next]_vars => (IInv /\ WizardTypes /\ Few(strays))'
  BY StepInv, FewStep, WizardTypesStep
<1>3. IInv /\ WizardTypes /\ Few(strays) => TypeOK
  BY DEF IInv, Types, WizardTypes, Few, TypeOK
<1> QED
  BY <1>1, <1>2, <1>3, PTL DEF Spec
=============================================================================
