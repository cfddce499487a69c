---------------------------- MODULE StageTwoWatch ----------------------------
(***************************************************************************)
(* The PC side of stage 2: run_stage2 and its resume entry in master.py,   *)
(* composed with what the board shows (StageTwoBoard, implemented by       *)
(* UbiInstaller).  The wizard looks at ports, asks the board over HTTP,    *)
(* SSH or Telnet, reads the log of autoflash, guesses the reboots it       *)
(* cannot see, tells the operator when power may be cut, gives a verdict,  *)
(* and keeps a TFTP server up for a board whose production image does not  *)
(* boot.  The board goes on between any two looks, and any look may fail,  *)
(* except at a production system whose services are up (`serving').        *)
(***************************************************************************)
EXTENDS StageTwoBoard

CONSTANTS
    Watches,  \* how often the operator starts the watch (bound)
    Holders   \* who may have UDP/69 when this begins: "free", an "other" program,
              \*   or the call a watch over an earlier board left ("late")

ASSUME WatchesAssumption == Watches \in Nat \ {0}
ASSUME HoldersAssumption == Holders \subseteq {"free", "other", "late"}

VARIABLES
    at,        \* where the wizard is
    heard,     \* detected_mode of this turn; "progress": transition, with news
    ports,     \* any(ports) at the scan of this turn
    prev,      \* previous_state; "" until the transition has been seen
    step,      \* highest_step; 1 stands for 1 to 5 and 6 for 6 and 7
    announced, \* handoff_announced
    explicit,  \* handoff_explicit
    outage,    \* handoff_outage_seen
    safe,      \* safe_to_power_cycle
    retried,   \* safe_retry_prompted
    advised,   \* post_sysupgrade_reboot_prompted
    expected,  \* the board is the one expected_board names
    rescue,    \* the rescue server: "off", "missing" image, "blocked" port, "up"
    served,    \* rescue.transfers > 0
    port69,    \* who holds UDP/69: "free", "other" program, the "rescue", or
               \*   the last call of a stopped rescue server ("late")
    call,      \* serve_tftp_get there: "none"; "waiting" for a request; waiting
               \*   for a "foreign" file name; in a "transfer"; "stale" when the
               \*   board gave that transfer up and asks from another port
    serving,   \* production answers SSH and LuCI, every time, until it goes down
    verdict,   \* what the last watch said
    watches    \* watches started so far

loop == <<heard, ports, prev, step, announced, explicit, outage, safe, retried, advised, expected>>
net == <<rescue, served, port69, call>>
watch == <<at, loop, net, serving, verdict, watches>>
allvars == <<boardvars, watch>>

Verified == {"production-ssh+luci", "production-web"}
Watching == at # "menu"

WatchTypeOK ==
    /\ BoardTypeOK
    /\ at \in {"menu", "scan", "probe", "log", "failing", "fudan", "token", "web", "asked"}
    /\ heard \in {"", "transition", "progress", "production"}
    /\ \A b \in {ports, announced, explicit, outage, safe, retried, advised, expected, served, serving} : b \in BOOLEAN
    /\ prev \in States \cup {"", "UNKNOWN", "RC27_FALSE_FUDAN_RECOVERY"}
    /\ step \in {0, 1, 6, 8}
    /\ rescue \in {"off", "missing", "blocked", "up"}
    /\ port69 \in {"free", "other", "rescue", "late"}
    /\ call \in {"none", "waiting", "foreign", "transfer", "stale"}
    /\ verdict \in Verified \cup {"", "failed", "refused", "post-install-unverified"}
    /\ watches \in 0..Watches

\* The local variables of _run_stage2_watch at its start; none outlives it.
Fresh ==
    /\ heard' = "" /\ ports' = FALSE /\ prev' = "" /\ step' = 0
    /\ announced' = FALSE /\ explicit' = FALSE /\ outage' = FALSE
    /\ safe' = FALSE /\ retried' = FALSE /\ advised' = FALSE /\ expected' = FALSE

WatchInit ==
    /\ BoardInit
    /\ at = "menu" /\ verdict = "" /\ watches = 0
    /\ heard = "" /\ ports = FALSE /\ prev = "" /\ step = 0
    /\ announced = FALSE /\ explicit = FALSE /\ outage = FALSE
    /\ safe = FALSE /\ retried = FALSE /\ advised = FALSE /\ expected = FALSE
    /\ rescue = "off" /\ served = FALSE
    /\ port69 \in Holders
    /\ call \in IF port69 = "late" THEN {"waiting", "foreign"} ELSE {"none"}
    /\ serving = FALSE

\* What a step of the board does to what the PC has of it: production goes down,
\* a transfer loses the port it was with.
Echo ==
    /\ serving' = (serving /\ mode' = "production")
    /\ call' = IF call = "transfer" /\ mode' # "rescue" THEN "stale" ELSE call

(***************************************************************************)
(* The rescue server.                                                      *)
(***************************************************************************)
\* serve_tftp_get has the port: it knows one file name, that of expected_board.
Bind(ours) ==
    /\ rescue' = "up" /\ port69' = "rescue"
    /\ call' = IF ours THEN "waiting" ELSE "foreign"

\* (Mutant: the loop ends with a call that cannot bind.)
StartRescueReturns ==
    /\ served' = FALSE
    /\ \/ rescue' = "missing" /\ UNCHANGED <<port69, call>>
       \/ port69 = "free" /\ Bind(expected')
       \/ port69 # "free" /\ rescue' = "off" /\ UNCHANGED <<port69, call>>

\* _RescueTftpServer.start: only a missing image is reported.  A port that is
\* taken is not: serve_tftp_get sets `ready' on its error path too.
StartRescue ==
    /\ served' = FALSE
    /\ \/ rescue' = "missing" /\ UNCHANGED <<port69, call>>
       \/ port69 = "free" /\ Bind(expected')
       \/ port69 # "free" /\ rescue' = "blocked" /\ UNCHANGED <<port69, call>>

\* start() returned TRUE: "[RESCUE] Rescue TFTP server is up".
ToldNetIsUp == Watching /\ rescue # "missing"

\* rescue.stop: the flag is looked at between two calls only, so the call that
\* is under way keeps the port.
StopRescue ==
    /\ rescue' = "off"
    /\ port69' = IF port69 = "rescue" THEN "late" ELSE port69
    /\ UNCHANGED <<served, call>>

\* The loop tries again at once after a call that could not bind.
Rebind ==
    /\ rescue = "blocked" /\ port69 = "free"
    /\ Bind(expected)
    /\ UNCHANGED <<boardvars, at, loop, served, serving, verdict, watches>>

\* The loop makes the next call, the last call of a stopped server gives the
\* port back.
NextCall ==
    IF port69 = "late" THEN port69' = "free" /\ call' = "none"
    ELSE call' = "waiting" /\ UNCHANGED port69

\* The board asks once a second for the file name of its family.
Answer ==
    /\ mode = "rescue" /\ call = "waiting"
    /\ call' = "transfer"
    /\ UNCHANGED <<boardvars, at, loop, rescue, served, port69, serving, verdict, watches>>

\* (Mutant: the loop ends with the first transfer.)
TransferEndsLoop ==
    /\ call = "transfer"
    /\ Rescue
    /\ served' = (served \/ port69 = "rescue")
    /\ rescue' = "off" /\ port69' = "free" /\ call' = "none"
    /\ UNCHANGED <<at, loop, serving, verdict, watches>>

TransferEnds ==
    /\ call = "transfer"
    /\ Rescue
    /\ served' = (served \/ port69 = "rescue")
    /\ NextCall
    /\ UNCHANGED <<at, loop, rescue, serving, verdict, watches>>

\* The board's TFTP gives up and starts again from another port.
TransferBreaks ==
    /\ call = "transfer"
    /\ call' = "stale"
    /\ UNCHANGED <<boardvars, at, loop, rescue, served, port69, serving, verdict, watches>>

\* Five silent waits, or 25 seconds without a request it knows.  Bytes sent to a
\* board that gave up are counted as a transfer.
CallTimesOut ==
    /\ call \in {"waiting", "foreign", "stale"}
    /\ served' \in {served, served \/ (call = "stale" /\ port69 = "rescue")}
    /\ \/ (port69 = "late" \/ call = "stale") /\ NextCall
       \/ port69 = "rescue" /\ call # "stale" /\ UNCHANGED <<port69, call>>
    /\ UNCHANGED <<boardvars, at, loop, rescue, serving, verdict, watches>>

\* The requests of a board the call does not serve restart its waits.
KeptAlive == mode = "rescue" /\ call \in {"stale", "foreign"}

(***************************************************************************)
(* Starting and ending a watch.                                            *)
(***************************************************************************)
StartWatch ==
    /\ StartRescue
    /\ at' = "scan" /\ verdict' = ""
    /\ UNCHANGED <<heard, ports, prev, step, announced, explicit, outage, safe, retried, advised>>

\* install_openwrt_wizard goes straight into run_stage2, with the board of the
\* profile it has just installed.
WatchAfterInstall ==
    /\ at = "menu" /\ watches = 0
    /\ watches' = 1
    /\ expected' = TRUE
    /\ StartWatch
    /\ UNCHANGED <<boardvars, serving>>

\* resume_stage2_wizard: where port 22 answers, _manual_transition_probe must
\* recognise a manual image that is waiting; anything else it reports, the
\* running automatic transition and production included, ends the resume.  The
\* board expected is the MD one unless a verified MF one was found at startup.
Resume ==
    /\ at = "menu" /\ watches < Watches
    /\ watches' = watches + 1
    /\ \/ expected' \in BOOLEAN /\ StartWatch
       \/ /\ mode \in {"transition", "production"}
          /\ verdict' = "refused"
          /\ UNCHANGED <<at, loop, net>>
    /\ UNCHANGED <<boardvars, serving>>

Conclude(v) ==
    /\ at' = "menu" /\ verdict' = v
    /\ StopRescue
    /\ Fresh
    /\ UNCHANGED <<serving, watches>>

(***************************************************************************)
(* One turn of _run_stage2_watch.                                          *)
(***************************************************************************)
\* No port answers, and what was last seen is late enough.
LooksLikeHandoff ==
    prev # "" /\ ~announced /\ (step >= 6 \/ prev \in {"FORMATTING_AND_FLASHING", "WAITING_FOR_SYSTEM"})

\* The four TCP connects.
Scan ==
    /\ at = "scan"
    /\ at' = "probe"
    /\ ports' \in IF serving THEN {TRUE}
                  ELSE IF mode \in {"transition", "production"} THEN BOOLEAN ELSE {FALSE}
    /\ announced' = (announced \/ (~ports' /\ LooksLikeHandoff))
    /\ outage' = (outage \/ (~ports' /\ announced'))
    /\ UNCHANGED <<boardvars, heard, prev, step, explicit, safe, retried, advised, expected,
                   net, serving, verdict, watches>>

\* The state as the status page or the state file has it.  "UNKNOWN" stands for
\* NOT_STARTED too, where there is no file yet: the loop treats both alike.
Told == {state, "UNKNOWN"}

\* The transition answers.  The status page says whether power may be cut, SSH
\* and Telnet do not.
HearTransition ==
    /\ at = "probe"
    /\ mode = "transition"
    /\ prev' \in Told
    /\ safe' \in {FALSE, prev' \in Safe}
    /\ heard' = IF prev' # prev THEN "progress" ELSE "transition"
    /\ at' = "log"
    /\ UNCHANGED <<boardvars, ports, step, announced, explicit, outage, retried, advised, expected,
                   net, serving, verdict, watches>>

\* The log is a second request: what it holds by then, or nothing.
LogRead == {0} \cup (IF mode = "transition" THEN {logged} ELSE {})

\* _new_autoflash_events: steps only go up.
Highest(n) == IF n > step THEN n ELSE step

\* A log that announces sysupgrade is a handoff; without one, a transition that
\* answers takes the guess of a reboot back.  FAILED ends the turn here.
HearLog ==
    /\ at = "log"
    /\ \E n \in LogRead :
         LET sysupgrade == n = 8 /\ marked
             takenBack == outage /\ ~explicit /\ ~sysupgrade
         IN /\ step' = Highest(n)
            /\ explicit' = (explicit \/ sysupgrade)
            /\ announced' = ((announced \/ sysupgrade) /\ ~takenBack)
            /\ outage' = (outage /\ ~takenBack)
            /\ at' = IF prev # "FAILED" THEN "web" ELSE IF sysupgrade THEN "fudan" ELSE "failing"
    /\ heard' = IF step' # step THEN "progress" ELSE heard
    /\ UNCHANGED <<boardvars, ports, prev, safe, retried, advised, expected,
                   net, serving, verdict, watches>>

\* (Mutant: steps 7 and 8 are drawn from the reboot.)
ProbeSilentReconciles ==
    /\ at = "probe"
    /\ at' = "web"
    /\ step' = IF announced THEN 8 ELSE step
    /\ UNCHANGED <<boardvars, heard, ports, prev, announced, explicit, outage, safe, retried, advised,
                   expected, net, serving, verdict, watches>>

\* No channel answers, or the answer is not complete.
ProbeSilent ==
    /\ at = "probe"
    /\ ~(serving /\ ports)
    /\ at' = "web"
    /\ UNCHANGED <<boardvars, loop, net, serving, verdict, watches>>

HearProduction ==
    /\ heard' = "production"
    /\ at' = "web"
    /\ UNCHANGED <<ports, prev, announced, explicit, outage, safe, retried, advised, expected,
                   net, serving, verdict, watches>>

\* (Mutant: production is taken for what it is after a reboot only.)
ProbeProductionAfterReboot ==
    /\ at = "probe"
    /\ ports /\ mode = "production"
    /\ \/ expected /\ outage /\ Conclude("production-ssh+luci")
       \/ ~(expected /\ outage) /\ HearProduction /\ UNCHANGED step
    /\ UNCHANGED boardvars

\* Production over SSH.  With the expected board name, all volumes and the
\* release, steps 7 and 8 are reconciled, and LuCI decides whether this is the
\* end; without them it is "OpenWrt responds", and the wizard goes on waiting.
ProbeProduction ==
    /\ at = "probe"
    /\ ports /\ mode = "production"
    /\ \/ expected /\ Conclude("production-ssh+luci")
       \/ expected /\ ~serving /\ HearProduction /\ step' = 8
       \/ ~(expected /\ serving) /\ HearProduction /\ UNCHANGED step
    /\ UNCHANGED boardvars

\* (Mutant: the marker of the migration is not asked for.)
FudanCheckWithoutMarker ==
    /\ at \in {"fudan", "failing"}
    /\ mode = "transition"
    /\ at' = "token"
    /\ UNCHANGED <<boardvars, loop, net, serving, verdict, watches>>

\* _recover_rc27_false_fudan: the known false NAND signature after a complete
\* migration.  The board is asked for the markers, then the operator.
FudanCheck ==
    /\ at = "fudan"
    /\ mode = "transition" /\ marked
    /\ at' = "token"
    /\ UNCHANGED <<boardvars, loop, net, serving, verdict, watches>>

\* sysupgrade of the image in the tmpfs of this boot, whose hash is compared once
\* more.  It may still refuse; and the marker that it has started may be lost.
FudanContinue ==
    /\ at = "token"
    /\ mode = "transition" /\ logged > 0
    /\ mode' \in {"transition", "upgrading"}
    /\ UNCHANGED <<state, logged, marked, chain, fit>>
    /\ \/ /\ at' = "scan"
          /\ prev' = "RC27_FALSE_FUDAN_RECOVERY"
          /\ heard' = "" /\ ports' = FALSE
          /\ UNCHANGED <<step, announced, explicit, outage, safe, retried, advised, expected,
                         net, serving, verdict, watches>>
       \/ Conclude("failed")

Failed ==
    /\ at \in {"failing", "fudan", "token"}
    /\ Conclude("failed")
    /\ UNCHANGED boardvars

\* The web ports are open after a reboot that was noticed or announced.
LooksAtWeb == heard \notin {"transition", "progress"} /\ announced /\ outage /\ ports

\* _probe_luci: a page that names LuCI.  The transition's web root has none.
Luci == mode = "production"

\* Three seconds after the reboot was noticed.  A LuCI that does not answer is
\* the rest of the turn: TurnEnds.
WebVerified ==
    /\ at = "web"
    /\ LooksAtWeb
    /\ Luci
    /\ Conclude("production-web")
    /\ UNCHANGED boardvars

GoesOn == at = "web" /\ ~(LooksAtWeb /\ serving)

\* 240 seconds after the handoff: what the operator is told of a power cut
\* depends on what the rescue server did so far.
MayAdvise == ~advised /\ announced /\ outage /\ heard # "production"

\* 120 seconds without news before step 1.
MayAsk == ~retried /\ step = 0 /\ safe /\ prev \in Safe /\ heard # "progress"

TurnEnds ==
    /\ GoesOn
    /\ heard' = "" /\ ports' = FALSE
    /\ advised' \in {advised, advised \/ MayAdvise}
    /\ \/ at' = "scan" /\ UNCHANGED retried
       \/ MayAsk /\ at' = "asked" /\ retried' = TRUE
    /\ UNCHANGED <<boardvars, prev, step, announced, explicit, outage, safe, expected,
                   net, serving, verdict, watches>>

\* "30 minutes passed without a verified result": S.
StopWaiting ==
    /\ GoesOn
    /\ Conclude("post-install-unverified")
    /\ UNCHANGED boardvars

\* "One controlled power cycle is permitted": N, or Y and the power cut.
AnswerNo ==
    /\ at = "asked"
    /\ at' = "scan"
    /\ UNCHANGED <<boardvars, loop, net, serving, verdict, watches>>

PermittedCut ==
    /\ at = "asked"
    /\ PowerCut /\ Echo
    /\ at' = "scan"
    /\ prev' = "" /\ safe' = FALSE
    /\ UNCHANGED <<heard, ports, step, announced, explicit, outage, retried, advised, expected,
                   rescue, served, port69, verdict, watches>>

Watch ==
    \/ Scan \/ HearTransition \/ HearLog \/ ProbeSilent \/ ProbeProduction
    \/ FudanCheck \/ FudanContinue \/ Failed
    \/ WebVerified \/ TurnEnds \/ StopWaiting \/ AnswerNo \/ PermittedCut

RescueServer == Rebind \/ Answer \/ TransferEnds \/ TransferBreaks \/ CallTimesOut

Board ==
    /\ BoardAlone /\ Echo
    /\ UNCHANGED <<at, loop, rescue, served, port69, verdict, watches>>

\* The services of production are up, and no look at them is lost any more.
ServicesUp ==
    /\ mode = "production"
    /\ serving' = TRUE
    /\ UNCHANGED <<boardvars, at, loop, net, verdict, watches>>

WatchNext ==
    \/ Watch \/ WatchAfterInstall \/ Resume
    \/ RescueServer
    \/ Board \/ ServicesUp

\* The loop runs and its prompts are answered; a request that a call waits for
\* reaches it, a transfer ends or breaks off, and a call that nobody keeps alive
\* times out.  Nothing is assumed of the board.
WatchFairness ==
    /\ WF_allvars(Watch)
    /\ WF_allvars(Rebind) /\ WF_allvars(Answer)
    /\ WF_allvars(TransferEnds \/ TransferBreaks)
    /\ WF_allvars(CallTimesOut /\ ~KeptAlive)

WatchSpec == WatchInit /\ [][WatchNext]_allvars
WatchFairSpec == WatchSpec /\ WatchFairness

(***************************************************************************)
(* Properties.                                                             *)
(***************************************************************************)
\* The wizard's own continuation of a failed migration (master.py 5734) and
\* autoflash start sysupgrade only over a boot chain that is in NAND: also when
\* the board goes on between the log, the check, the operator's word and the command.
SysupgradeOverNewChain ==
    [][mode' = "upgrading" /\ mode # "upgrading" => chain = "new"]_allvars

\* Steps 7 and 8 are never drawn from a network that went away
\* (docs/ARCHITECTURE_EN.md, RC21): 8 means the boot chain is verified in NAND.
StepsAreProven == step = 8 => chain = "new"

\* A board that production left in its TFTP loop is picked up while the watch
\* goes on and the port can be had, however often that happens; or the call that
\* has the port is one the board's own requests keep from ending.
NetCatches ==
    (mode = "rescue" /\ Watching /\ expected /\ rescue # "missing" /\ port69 # "other")
        ~> (mode # "rescue" \/ ~Watching \/ KeptAlive)

\* Production whose services stay up is noticed, whatever was guessed of reboots
\* and missed of the log before: by its identity; or, if the watch is over a
\* board it does not expect, by LuCI after a reboot it knows of.
ProductionIsNoticed ==
    (serving /\ Watching /\ (expected \/ (at = "scan" /\ announced /\ outage)))
        ~> (~serving \/ ~Watching)

\* "Automatic transition board is learned once SSH comes up in run_stage2".
\* (Does not hold: README, Known disagreements.)
BoardIsLearned == (serving /\ Watching) ~> (~serving \/ ~Watching)

\* A power cut the wizard permits, or calls no longer fatal because the rescue
\* server is up, does not strand the board.
\* (Does not hold: README, Known disagreements.)
AdvisedCutIsSurvivable ==
    /\ at = "asked" => Survivor(chain, fit) # "stuck"
    /\ (at = "scan" /\ advised /\ ~served /\ rescue # "missing" /\ heard # "production")
          => \/ mode # "transition"
             \/ Survivor(chain, fit) # "stuck"

\* "A restarted wizard can resume monitoring an already-running autonomous flash."
\* (Does not hold: README, Known disagreements.)
ResumeWatches ==
    [][Resume /\ mode = "transition" /\ state = "FORMATTING_AND_FLASHING" => verdict' # "refused"]_allvars
=============================================================================
