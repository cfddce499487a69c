---------------------------- MODULE ManualImage ----------------------------
(* The custom image of a manual migration (run_custom_stage2): the PC waits *)
(* for the transition, sends the chosen sysupgrade to /tmp over TFTP, SCP or *)
(* an SSH stream, has it checked, asks once more and launches the installer *)
(* on the board, which goes on alone: it checks the image, formats the NAND *)
(* and then needs the same file to finish.                                  *)
(*                                                                          *)
(* A transport the PC gives up goes on running on the board.  Its file may  *)
(* have been unlinked or renamed under it, and it still does its own mv.    *)
EXTENDS Naturals, FiniteSets

CONSTANTS
  Images,      \* images the operator may choose
  Rounds,      \* times the wizard is started (a bound)
  MaxStrays    \* abandoned transports that run at the same time (a bound)

ASSUME ManualAssumption ==
  /\ Images # {} /\ {"none", "cut", "mix"} \cap Images = {}
  /\ Rounds \in Nat \ {0} /\ MaxStrays \in Nat

VARIABLES
  phase,       \* place of the wizard
  round,       \* start of the wizard
  choice,      \* the image chosen, whose hash everything is compared with
  transport,   \* the transport being tried
  file,        \* contents of the .part file and of the image file
  at,          \* the file the current transport writes
  strays,      \* transports the PC has given up
  board        \* state of the installer on the board

vars == <<phase, round, choice, transport, file, at, strays, board>>

Names == {"part", "image"}
Contents == {"none", "cut", "mix"} \cup Images
\* Where a writer's open file is: under one of the names or unlinked.
Places == Names \cup {"gone"}
Transports == {"tftp", "scp", "stream"}
Stray == [kind : Transports, image : Images, at : Places, step : {"write", "move"}]

Init ==
  /\ phase = "wait" /\ round = 1 /\ choice \in Images /\ transport = "tftp"
  /\ file = [n \in Names |-> "none"] /\ at = "gone" /\ strays = {} /\ board = "waiting"

Goto(p) == phase' = p

(* ------------------------------------------------------- files in /tmp -- *)

\* What writing image i into a file of content c makes of it.
Overwritten(c, i) == IF c \in {"cut", i} THEN c ELSE "mix"
Finished(c, i) == IF c \in {"cut", i} THEN i ELSE "mix"
Write(f, place, content) == IF place = "gone" THEN f ELSE [f EXCEPT ![place] = content]

\* rm -f of both names, then a new .part: whoever had one of them open keeps a
\* file without a name.
Unlinked(s) == [s EXCEPT !.at = "gone"]
\* mv .part image: the open files go with their names.
Moved(place) == IF place = "part" THEN "image" ELSE "gone"
Move ==
  /\ file["part"] # "none"
  /\ file' = [part |-> "none", image |-> file["part"]]
  /\ at' = Moved(at)

(* -------------------------------------------------------------- wizard -- *)

\* wait_manual_transition: READY is said by a transition that waits for an image.
Wait ==
  /\ phase = "wait"
  /\ \/ board = "waiting" /\ Goto("choose")
     \/ Goto("failed")
  /\ UNCHANGED <<round, choice, transport, file, at, strays, board>>

Choose ==
  /\ phase = "choose" /\ choice' \in Images /\ transport' = "tftp"
  /\ Goto("try") \/ Goto("failed")
  /\ UNCHANGED <<round, file, at, strays, board>>

\* (Mutant of NextTransport: after the last transport the first is tried again.)
NextTransportAgain ==
  \/ transport = "tftp" /\ transport' = "scp" /\ Goto("try")
  \/ transport = "scp" /\ transport' = "stream" /\ Goto("try")
  \/ transport = "stream" /\ transport' = "tftp" /\ Goto("try")
\* The transport after a failed one; the stream is the last.
NextTransport ==
  \/ transport = "tftp" /\ transport' = "scp" /\ Goto("try")
  \/ transport = "scp" /\ transport' = "stream" /\ Goto("try")
  \/ transport = "stream" /\ UNCHANGED transport /\ Goto("failed")

\* The tool is missing, the question was not answered, or the first command
\* failed before it reached the board.
Skip ==
  /\ phase = "try" /\ NextTransport
  /\ UNCHANGED <<round, choice, file, at, strays, board>>

\* (Mutant of Start: SCP writes over what is there.)
StartOver ==
  /\ phase = "try" /\ Goto("sending") /\ at' = "part"
  /\ IF transport = "scp"
     THEN file' = [file EXCEPT !["part"] = "cut"] /\ UNCHANGED strays
     ELSE file' = [part |-> "cut", image |-> "none"] /\ strays' = {Unlinked(s) : s \in strays}
  /\ UNCHANGED <<round, choice, transport, board>>
\* Every transport removes both names first and creates .part.
Start ==
  /\ phase = "try" /\ Goto("sending") /\ at' = "part"
  /\ file' = [part |-> "cut", image |-> "none"] /\ strays' = {Unlinked(s) : s \in strays}
  /\ UNCHANGED <<round, choice, transport, board>>

\* The whole image is written.
SendTftp == transport = "tftp" /\ phase = "sending"
SendScp == transport = "scp" /\ phase = "sending"
SendStream == transport = "stream" /\ phase = "sending"
Sent ==
  /\ SendTftp \/ SendScp \/ SendStream
  /\ file' = (IF at = "gone" THEN file ELSE Write(file, at, Finished(file[at], choice)))
  /\ at' = "gone" /\ Goto("sent")
  /\ UNCHANGED <<round, choice, transport, strays, board>>

\* mv, in the same command or for SCP in one of its own.
Rename ==
  /\ phase = "sent" /\ Move
  /\ strays' = {[s EXCEPT !.at = Moved(s.at)] : s \in strays}
  /\ Goto("renamed")
  /\ UNCHANGED <<round, choice, transport, board>>

\* Size and hash of the image file are compared with the source.
Verify ==
  /\ phase = "renamed" /\ file["image"] = choice /\ Goto("check")
  /\ UNCHANGED <<round, choice, transport, file, at, strays, board>>

\* The PC gives a transport up: a timeout, a lost session, an error on either
\* side, a mv without .part, a hash that differs.  What runs on the board may
\* have ended with it or not; scp has no mv of its own.
GiveUp ==
  /\ phase \in {"sending", "sent", "renamed"} /\ NextTransport
  /\ \/ UNCHANGED strays
     \/ /\ Cardinality(strays) < MaxStrays /\ phase # "renamed"
        /\ phase = "sent" => transport # "scp"
        /\ strays' = strays \cup {[kind |-> transport, image |-> choice, at |-> at,
                                   step |-> IF phase = "sent" THEN "move" ELSE "write"]}
  /\ at' = "gone"
  /\ UNCHANGED <<round, choice, file, board>>

\* nokia-ubi-installer check, with the hash of the chosen image.
Check ==
  /\ phase = "check"
  /\ \/ file["image"] = choice /\ Goto("confirm")
     \/ Goto("failed")
  /\ UNCHANGED <<round, choice, transport, file, at, strays, board>>

Confirm ==
  /\ phase = "confirm"
  /\ Goto("launch") \/ Goto("failed")
  /\ UNCHANGED <<round, choice, transport, file, at, strays, board>>

\* The launch is detached from its session: when the answer is lost the wizard
\* reports an error over an installer that runs.
Launch ==
  /\ phase = "launch"
  /\ \/ board' = "starting" /\ (Goto("watch") \/ Goto("failed"))
     \/ Goto("failed") /\ UNCHANGED board
  /\ UNCHANGED <<round, choice, transport, file, at, strays>>

\* The wizard is started again, as "continue installation".
Resume ==
  /\ phase = "failed" /\ round < Rounds /\ board = "waiting"
  /\ round' = round + 1 /\ Goto("wait")
  /\ UNCHANGED <<choice, transport, file, at, strays, board>>

(* --------------------------------------------------------------- board -- *)

\* run_fullflash and run_install compare the hash before anything is erased.
Accept ==
  /\ board = "starting"
  /\ board' = IF file["image"] = choice THEN "formatting" ELSE "refused"
\* Other checks may refuse as well.
Refuse == board = "starting" /\ board' = "refused"
\* nokia-ubi-finish compares it again; there is no way back.
FinishImage ==
  /\ board = "formatting"
  /\ board' = IF file["image"] = choice THEN "flashed" ELSE "no image"
Installer ==
  /\ Accept \/ Refuse \/ FinishImage
  /\ UNCHANGED <<phase, round, choice, transport, file, at, strays>>

\* An abandoned transport writes on, comes to the end of its file or is cut off;
\* cat takes the end of its input for the end of the file.
StrayWrites(s) ==
  /\ s.step = "write" /\ UNCHANGED at
  /\ \/ /\ file' = (IF s.at = "gone" THEN file ELSE Write(file, s.at, Overwritten(file[s.at], s.image)))
        /\ \/ UNCHANGED strays
           \/ s.kind = "stream" /\ strays' = (strays \ {s}) \cup {[s EXCEPT !.step = "move", !.at = "gone"]}
     \/ /\ s.kind # "stream"
        /\ file' = (IF s.at = "gone" THEN file ELSE Write(file, s.at, Finished(file[s.at], s.image)))
        /\ strays' = IF s.kind = "scp" THEN strays \ {s}
                     ELSE (strays \ {s}) \cup {[s EXCEPT !.step = "move", !.at = "gone"]}
     \/ UNCHANGED file /\ strays' = strays \ {s}
\* Its mv takes whatever .part is there by then.
StrayMoves(s) ==
  /\ s.step = "move"
  /\ \/ Move /\ strays' = {[x EXCEPT !.at = Moved(x.at)] : x \in strays \ {s}}
     \/ file["part"] = "none" /\ strays' = strays \ {s} /\ UNCHANGED <<file, at>>
StrayStep ==
  /\ \E s \in strays : StrayWrites(s) \/ StrayMoves(s)
  /\ UNCHANGED <<phase, round, choice, transport, board>>

Stop == phase \in {"watch", "failed"} /\ UNCHANGED vars

Wizard ==
  \/ Wait \/ Choose \/ Skip \/ Start \/ Sent \/ Rename \/ Verify \/ GiveUp \/ Check
  \/ Confirm \/ Launch
Next == Wizard \/ Resume \/ Installer \/ StrayStep \/ Stop

\* Every call of the wizard has a timeout and every prompt is answered; nothing
\* is assumed of the board or of the operator's starting the wizard again.
Spec == Init /\ [][Next]_vars /\ WF_vars(Wizard)

(* Properties.                                                              *)

\* Types of the variables.
TypeOK ==
  /\ phase \in {"wait", "choose", "try", "sending", "sent", "renamed", "check", "confirm",
                "launch", "watch", "failed"}
  /\ round \in 1 .. Rounds /\ choice \in Images /\ transport \in Transports
  /\ file \in [Names -> Contents] /\ at \in Places
  /\ strays \in SUBSET Stray /\ Cardinality(strays) <= MaxStrays
  /\ board \in {"waiting", "starting", "formatting", "flashed", "refused", "no image"}

\* From the hash comparison after a transfer until the end of the flash the image
\* file stays the one the operator chose, whatever abandoned transports do: the
\* installer does not end with a formatted NAND and no image for it.
ImageKept ==
  /\ phase \in {"check", "confirm", "launch", "watch"} \/ board # "waiting" => file["image"] = choice
  /\ board # "no image"

\* A transfer ends, in an image to check or in an error: each transport is tried
\* at most once.
TransferEnds == phase = "try" ~> phase \in {"check", "failed"}
=============================================================================
