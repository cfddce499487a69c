---------------------------- MODULE StockAccess ----------------------------
(* How the PC gets a root shell on a board that still runs the stock        *)
(* firmware, and how it decides that the board is the right one: the web    *)
(* session and what it switches on (stock_web.py), the manual fallback, the *)
(* root discovery over Telnet with its cycles and the services it may       *)
(* enable in between, the model gate and the live geometry (master.py).     *)
(*                                                                          *)
(* The wizard is one thread, so `phase' is its place in the code.  The      *)
(* board answers truthfully or not at all; passwords, account names and the *)
(* text of the dialogues are abstracted to the outcomes the code tells      *)
(* apart.                                                                   *)
EXTENDS SlotLayouts, Sequences

CONSTANTS
  Layouts,     \* slot sizes a board may publish
  Sessions,    \* discovery cycles of login_root_family (3 in the code)
  Sends        \* times one HTTP request is sent before the call gives up (3)

ASSUME AccessAssumption ==
  /\ Sessions \in Nat \ {0} /\ Sends \in Nat \ {0}
  /\ Layouts \subseteq Slots

Escalation == <<"ftp", "samba">>     \* UID0_SERVICE_ESCALATION

VARIABLES
  profile,     \* family the operator installs for
  fam, slots,  \* what the board really is, and the slot sizes it publishes
  svc,         \* services the board has switched on
  phase,       \* place of the wizard
  web,         \* the PC holds an authenticated web session
  gate,        \* model gate: strict, best-effort or passed
  sent,        \* times the Telnet toggle was sent
  cycle,       \* discovery cycle
  pending,     \* services the discovery may still enable
  vain,        \* a service was seen to come up and no cycle has followed yet
  shell        \* a root Telnet session is open

vars == <<profile, fam, slots, svc, phase, web, gate, sent, cycle, pending, vain, shell>>
board == <<profile, fam, slots>>
search == <<cycle, pending, vain>>

Init ==
  /\ profile \in Families /\ fam \in Families /\ slots \in Layouts
  /\ \A f \in Families : Genuine(f, slots) => fam = f
  /\ svc \in {{}, {"telnet"}}
  /\ phase = "start" /\ web = FALSE /\ gate = "strict" /\ sent = 0
  /\ cycle = 1 /\ pending = Escalation /\ vain = FALSE
  /\ shell = FALSE

Goto(p) == phase' = p
\* Ends the wizard with an error; the finally clause logs out.
CloseAndFail == Goto("failed") /\ web' = FALSE /\ shell' = FALSE

(* ---------------------------------------------------------------- web --- *)

\* The operator's answer to "How should the router be accessed?".  MF never
\* asks: _stock_operational_web_access is its only way in.
Choose ==
  /\ phase = "start"
  /\ \/ Goto("login") /\ UNCHANGED <<svc, gate>>
     \/ /\ profile = "md" /\ gate' = "best" /\ Goto("lan1")
        /\ svc' \in {svc, svc \cup {"telnet"}}
     \/ profile = "md" /\ gate' = "best" /\ Goto("failed") /\ UNCHANGED svc
  /\ UNCHANGED <<board, web, sent, search, shell>>

\* Web automation gives up.  MD goes on by hand, with a new StockAccess and so
\* under the strict gate again; MF stops.
NoAutomation ==
  /\ web' = FALSE /\ gate' = "strict"
  /\ Goto(IF profile = "md" THEN "manual" ELSE "failed")

\* One login call, its encrypted and plain forms and its second attempt.
LoggedIn == web' = TRUE
\* The login and its interactive retries.
Login ==
  /\ phase = "login"
  /\ \/ LoggedIn /\ Goto("model") /\ UNCHANGED gate
     \/ NoAutomation
  /\ UNCHANGED <<board, svc, sent, search, shell>>

\* Manual credentials; an invalid port ends the wizard.
Manual ==
  /\ phase = "manual"
  /\ \/ Goto("lan1") \/ Goto("failed")
  /\ UNCHANGED <<board, svc, web, gate, sent, search, shell>>

\* require_model before anything is changed.
ReadModel ==
  /\ phase = "model"
  /\ \/ NoAutomation
     \/ fam # profile /\ web' = FALSE /\ Goto("failed") /\ UNCHANGED gate
     \/ profile = "md" /\ fam = "md" /\ gate' = "passed" /\ UNCHANGED web /\ Goto("telnet")
  /\ UNCHANGED <<board, svc, sent, search, shell>>

\* MF reads the family itself, keeps the session and wants Telnet to be open.
ReadMfFamily ==
  /\ phase = "model" /\ profile = "mf" /\ fam = "mf" /\ "telnet" \in svc
  /\ gate' = "passed" /\ Goto("lan1")
  /\ UNCHANGED <<board, svc, web, sent, search, shell>>

\* enable_telnet: nothing to do, nothing it dares to do, or the toggle is due.
ReadTelnet ==
  /\ phase = "telnet"
  /\ \/ "telnet" \in svc /\ Goto("lan1") /\ UNCHANGED <<web, gate>>
     \/ NoAutomation
     \/ "telnet" \notin svc /\ Goto("toggle") /\ UNCHANGED <<web, gate>>
  /\ UNCHANGED <<board, svc, sent, search, shell>>

\* The page's button turns the setting over.
Toggled == IF "telnet" \in svc THEN svc \ {"telnet"} ELSE svc \cup {"telnet"}

\* One POST of request(): it reaches the router or not, the answer comes back
\* or not; without an answer the same request is sent again.
SendToggle ==
  /\ phase = "toggle" /\ sent' = sent + 1
  /\ \/ svc' = Toggled /\ Goto("port") /\ UNCHANGED <<web, gate>>
     \/ /\ svc' \in {svc, Toggled}
        /\ IF sent' < Sends THEN Goto("toggle") /\ UNCHANGED <<web, gate>> ELSE NoAutomation
  /\ UNCHANGED <<board, search, shell>>

\* The port decides.
AwaitTelnet ==
  /\ phase = "port"
  /\ \/ "telnet" \in svc /\ Goto("lan1") /\ UNCHANGED <<web, gate>>
     \/ NoAutomation
  /\ UNCHANGED <<board, svc, sent, search, shell>>

\* The PC seems to sit on LAN1, the port that loses its link later: the operator
\* may stop here, before the try block that logs out.
Lan1 ==
  /\ phase = "lan1"
  /\ \/ Goto("root") \/ Goto("failed")
  /\ UNCHANGED <<board, svc, web, gate, sent, search, shell>>

(* --------------------------------------------------------------- root --- *)

\* The setting is saved by the router; whether the PC sees it depends on the
\* answer and, for FTP, on a port that opens in time.
EnableFtp == svc' = svc \cup {"ftp"} /\ vain' \in BOOLEAN
\* As for FTP; closed ports are no error here.
EnableSamba == svc' = svc \cup {"samba"} /\ vain' \in BOOLEAN

\* One service of the list is tried through the web session, if there is one.
\* vain' says that the PC saw it come up.
ProvisionNext ==
  IF pending = <<>> THEN vain' = FALSE /\ UNCHANGED <<svc, pending>>
  ELSE /\ pending' = Tail(pending)
       /\ \/ vain' = FALSE /\ UNCHANGED svc
          \/ web /\ Head(pending) = "ftp" /\ EnableFtp
          \/ web /\ Head(pending) = "samba" /\ EnableSamba

NextCycle == cycle' = cycle + 1 /\ UNCHANGED <<phase, web, shell>>
GiveUp == CloseAndFail /\ UNCHANGED cycle

\* An attempt that ends in no shell is followed by another one.
TryAgain == IF cycle < Sessions THEN NextCycle ELSE GiveUp

\* A TCP session and its Telnet negotiation.
Connected == "telnet" \in svc
\* An ordinary shell answers: the login dialogue and its attempts.
Shell == phase = "root" /\ Connected

\* The Telnet session itself fails, in opening, login or the account list.
NoShell ==
  /\ phase = "root"
  /\ TryAgain
  /\ vain' = FALSE
  /\ UNCHANGED <<board, svc, gate, sent, pending>>

\* No UID-0 account is listed: another cycle only after a service came up.
NoCandidate ==
  /\ Shell
  /\ IF cycle < Sessions
     THEN ProvisionNext /\ (IF vain' THEN NextCycle ELSE GiveUp)
     ELSE vain' = FALSE /\ GiveUp /\ UNCHANGED <<svc, pending>>
  /\ UNCHANGED <<board, gate, sent>>

\* (Mutant of AllRefused: a service is enabled after the last cycle too.)
AllRefusedThenEnable ==
  /\ Shell
  /\ ProvisionNext /\ TryAgain
  /\ UNCHANGED <<board, gate, sent>>
\* Every account refused every secret.
AllRefused ==
  /\ Shell
  /\ IF cycle < Sessions
     THEN ProvisionNext /\ NextCycle
     ELSE vain' = FALSE /\ GiveUp /\ UNCHANGED <<svc, pending>>
  /\ UNCHANGED <<board, gate, sent>>

\* UID 0 is confirmed on a fresh session.
RootFound ==
  /\ Shell
  /\ shell' = TRUE /\ Goto("gate") /\ vain' = FALSE
  /\ UNCHANGED <<board, svc, web, gate, sent, cycle, pending>>

(* --------------------------------------------------------------- gate --- *)

\* require_supported_model_over_telnet, for MD: proved by the web page, found
\* on the shell, or accepted by the operator under the best-effort gate.
ModelGate ==
  \/ (profile = "mf" \/ gate = "passed") /\ UNCHANGED gate
  \/ fam = "md" /\ gate' = "passed"
  \/ gate = "best" /\ gate' = "passed"       \* the probe was inconclusive

\* (Mutant of Geometry: a recognised layout is enough.)
AnyGeometry == PcFamily(slots) \in Families
\* _stock_live_geometry_preflight: the slots name the family.
Geometry == PcFamily(slots) = profile
\* _install_live_gate: the slot family; the fixed partitions, sysfs and the
\* read-only devices may stop the wizard too.
LiveGate ==
  /\ phase = "gate"
  /\ \/ ModelGate /\ Geometry /\ Goto("open") /\ UNCHANGED <<web, shell>>
     \/ CloseAndFail /\ UNCHANGED gate
  /\ UNCHANGED <<board, svc, sent, search>>

Stop == phase \in {"open", "failed"} /\ UNCHANGED vars

Next ==
  \/ Choose \/ Login \/ Manual \/ ReadModel \/ ReadMfFamily \/ ReadTelnet \/ SendToggle
  \/ AwaitTelnet \/ Lan1 \/ NoShell \/ NoCandidate \/ AllRefused \/ RootFound \/ LiveGate \/ Stop

Spec == Init /\ [][Next]_vars

(* Properties.                                                              *)

\* What is left of Escalation.
Remaining == {<<>>, <<"samba">>, <<"ftp", "samba">>}

\* Types of the variables.
TypeOK ==
  /\ profile \in Families /\ fam \in Families /\ slots \in Layouts
  /\ svc \in SUBSET {"telnet", "ftp", "samba"}
  /\ phase \in {"start", "login", "manual", "model", "telnet", "toggle", "port",
                "lan1", "root", "gate", "open", "failed"}
  /\ web \in BOOLEAN /\ shell \in BOOLEAN /\ vain \in BOOLEAN
  /\ gate \in {"strict", "best", "passed"}
  /\ sent \in 0 .. Sends /\ cycle \in 1 .. Sessions
  /\ pending \in Remaining

\* Every service costs attack surface that "stays enabled after the wizard":
\* when the discovery gives up, each one it saw come up was followed by another
\* cycle that could use it (login_root_profile_dynamic).
NothingEnabledInVain == phase = "failed" => ~vain

\* The slot sizes are the only difference the live gate sees when the model
\* probe was inconclusive: with the drift seen in the field a board of one
\* family is never opened as the other (_stock_slot_match).
OpenIsOurFamily == phase = "open" /\ Genuine(fam, slots) => fam = profile

\* What the PC takes for a family, the launcher it deploys accepts as that
\* family: the migration does not stop halfway over the slot revision ("keep in sync with data/master.py").
LauncherAgrees == phase = "open" => LauncherAccepts(PcFamily(slots), slots)

\* The setup switches Telnet on and never off again: "the button is not `enable'
\* but `toggle': if the page holds Telnet to be on, pressing it switches it
\* OFF" (enable_telnet stops then).
\* (Does not hold: README, Known disagreements.)
TelnetStaysOn == [][phase # "start" /\ "telnet" \in svc => "telnet" \in svc']_vars
=============================================================================
