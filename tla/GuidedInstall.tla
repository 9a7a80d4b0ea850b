---------------------------- MODULE GuidedInstall ----------------------------
(***************************************************************************)
(* The guided installation of cli/installer/: the step list of             *)
(* installation-flow.js, the detection orchestrator and the detectors      *)
(* behind it, the credential checks of the panel and of the bot token, and *)
(* the clean install.  Its steps for the launcher, the infrastructure, the *)
(* environment, the services and the health check are actions its caller   *)
(* supplies; the repository's only callers are its tests.  The caller is    *)
(* taken to read and to save the bot's token in .env.                      *)
(*                                                                         *)
(* The steps read a snapshot taken when the flow began or when a component *)
(* was connected, while the host goes on changing: the cleanup step itself *)
(* removes files the snapshot describes, the panel's password and the bot's *)
(* token are changed elsewhere, and a killed run leaves what it did.       *)
(***************************************************************************)
EXTENDS Naturals, Sequences

CONSTANTS
  Machines,   \* what a host may look like: see Machine
  Tokens,     \* bot tokens
  PanelKeys,  \* passwords of the panel's account
  NoSecret,   \* no token, or no password
  MaxFlows,   \* bound: how many times the flow is run
  MaxChanges  \* bound: how often a secret is changed outside

ASSUME GuidedInstallAssumption ==
  /\ NoSecret \notin Tokens \cup PanelKeys
  /\ Tokens \cap PanelKeys = {}
  /\ MaxFlows \in Nat /\ MaxChanges \in Nat

VARIABLES
  machine,   \* the host
  token,     \* TELEGRAM_BOT_TOKEN in .env
  good,      \* the tokens Telegram accepts
  panelKey,  \* the panel's password
  flow,      \* the run: its position, snapshot, secrets and tries
  changes    \* how often a secret has changed outside

guidedVars == <<machine, token, good, panelKey, flow, changes>>

States == {"NOT_FOUND", "NEEDS_CREDENTIALS", "DETECTED", "CONFIGURED", "CONNECTED", "FAILED"}
Components == {"system", "docker", "tazaxy", "postgres", "xui", "containers", "env", "telegram"}
Machine == [root : BOOLEAN, known : BOOLEAN,
            docker : {"none", "cli", "engine", "compose"},
            postgres : {"none", "candidate", "ready"},
            panel : {"none", "portless", "listening"},
            checkout : SUBSET {"tree", "launcher"},
            env : {"none", "partial", "complete"},
            containers : SUBSET {"app", "redis", "minio"}]

ASSUME MachinesAssumption == Machines \subseteq Machine

FlowSteps == <<"preflight", "detection", "cleanup", "launcher", "infrastructure", "panel",
               "telegram", "environment", "services", "health">>
Ended == {"idle", "ok", "failed"}
Positions == {FlowSteps[i] : i \in DOMAIN FlowSteps} \cup Ended

(* proved: what the panel and Telegram have accepted since the run began.  *)
NoFlow(runs) == [at |-> "idle", snapshot |-> [c \in Components |-> "NOT_FOUND"],
                 connected |-> {}, secret |-> NoSecret, tries |-> 0, proved |-> {}, runs |-> runs]

GuidedTypeOK ==
  /\ machine \in Machine
  /\ token \in Tokens \cup {NoSecret} /\ good \subseteq Tokens
  /\ panelKey \in PanelKeys
  /\ flow.at \in Positions /\ flow.snapshot \in [Components -> States]
  /\ flow.connected \subseteq {"xui", "telegram"}
  /\ flow.proved \subseteq Tokens \cup PanelKeys
  /\ flow.tries \in 0..4 /\ flow.runs \in 0..MaxFlows
  /\ changes \in 0..MaxChanges

GuidedInit ==
  /\ machine \in Machines
  /\ token \in IF machine.env = "none" THEN {NoSecret} ELSE Tokens \cup {NoSecret}
  /\ good \in SUBSET Tokens
  /\ panelKey \in PanelKeys
  /\ flow = NoFlow(0) /\ changes = 0

-----------------------------------------------------------------------------
(* The detectors.  Each reports one state of what it finds on the host.    *)
DetectSystem ==
  IF ~machine.root THEN "NEEDS_CREDENTIALS" ELSE IF machine.known THEN "CONFIGURED" ELSE "DETECTED"
DetectDocker ==
  CASE machine.docker = "none" -> "NOT_FOUND"
    [] machine.docker = "compose" -> "CONNECTED"
    [] OTHER -> "DETECTED"
DetectExistingInstallation ==
  IF machine.checkout = {} THEN "NOT_FOUND"
  ELSE IF "tree" \in machine.checkout /\ machine.env # "none" THEN "CONFIGURED" ELSE "DETECTED"
DetectPostgres ==
  CASE machine.postgres = "none" -> "NOT_FOUND"
    [] machine.postgres = "candidate" -> "DETECTED"
    [] machine.postgres = "ready" -> "CONNECTED"
DetectContainers ==
  IF machine.docker \in {"none", "cli"} \/ machine.containers = {} THEN "NOT_FOUND"
  ELSE IF {"app", "redis"} \subseteq machine.containers THEN "CONNECTED" ELSE "DETECTED"
DetectEnvFile ==
  CASE machine.env = "none" -> "NOT_FOUND"
    [] machine.env = "partial" -> "DETECTED"
    [] machine.env = "complete" -> "CONFIGURED"

(* discover: the unit file, the binary, the database and Docker are read   *)
(* for the panel's port; what is found is never more than DETECTED.        *)
Discover == IF machine.panel = "none" THEN "NOT_FOUND" ELSE "DETECTED"

(* The shape of the token is all that is looked at; no call is made.       *)
DetectTelegram == IF token = NoSecret THEN "NOT_FOUND" ELSE "CONFIGURED"

Detection ==
  [c \in Components |->
     CASE c = "system"     -> DetectSystem
       [] c = "docker"     -> DetectDocker
       [] c = "tazaxy"     -> DetectExistingInstallation
       [] c = "postgres"   -> DetectPostgres
       [] c = "xui"        -> Discover
       [] c = "containers" -> DetectContainers
       [] c = "env"        -> DetectEnvFile
       [] c = "telegram"   -> DetectTelegram]

(* detectAll: a probe that throws is FAILED; a component this session has  *)
(* connected stays CONNECTED whatever its probe says.                      *)
DetectAll(connected, thrown, found) ==
  [c \in Components |-> IF c \in connected THEN "CONNECTED"
                        ELSE IF c \in thrown THEN "FAILED" ELSE found[c]]
Throws == {{}} \cup {{c} : c \in {"system", "xui", "telegram"}}

-----------------------------------------------------------------------------
At(s) == flow.at = s
FlowGoes(change) == flow' = change /\ UNCHANGED <<good, panelKey, changes>>
OnlyFlow(change) == FlowGoes(change) /\ UNCHANGED <<machine, token>>

FlowAfter(s) == LET i == CHOOSE i \in DOMAIN FlowSteps : FlowSteps[i] = s
                IN IF i = Len(FlowSteps) THEN "ok" ELSE FlowSteps[i + 1]
Continues == [flow EXCEPT !.at = FlowAfter(@), !.tries = 0, !.secret = NoSecret]

(* A required step that fails ends the run.                                *)
Halts == [flow EXCEPT !.at = "failed", !.tries = 0, !.secret = NoSecret]

StartFlow ==
  /\ flow.at \in Ended /\ flow.runs < MaxFlows
  /\ \E thrown \in Throws :
       OnlyFlow([NoFlow(flow.runs + 1) EXCEPT
                   !.at = "preflight", !.snapshot = DetectAll({}, thrown, Detection)])

(* Only a host without root fails the preflight: a system probe that threw *)
(* passes.                                                                 *)
FlowPreflight ==
  /\ At("preflight")
  /\ OnlyFlow(IF flow.snapshot["system"] = "NEEDS_CREDENTIALS" THEN Halts ELSE Continues)

ShowDetection == At("detection") /\ OnlyFlow(Continues)

(* The clean install, when it is asked for: each removal is tried, those   *)
(* that fail are reported, and the step is optional either way.  .env goes *)
(* with the checkout, backed up or not.                                    *)
SkipCleanup == At("cleanup") /\ OnlyFlow(Continues)
CleanInstall ==
  /\ At("cleanup")
  /\ \E removed \in SUBSET machine.checkout, gone \in SUBSET machine.containers :
       LET wiped == "tree" \in removed
       IN /\ machine' = [machine EXCEPT !.checkout = @ \ removed, !.containers = @ \ gone,
                                        !.env = IF wiped THEN "none" ELSE @]
          /\ token' = IF wiped THEN NoSecret ELSE token
  /\ FlowGoes(Continues)

(* A component that has proved itself is promoted and the snapshot is      *)
(* taken again.                                                            *)
Promote(component, proof) ==
  \E thrown \in Throws :
    FlowGoes([Continues EXCEPT
                !.connected = @ \cup {component}, !.proved = @ \cup {proof},
                !.snapshot = DetectAll(flow.connected \cup {component}, thrown, Detection')])

(* The caller's actions: any of them may fail, and one that is not         *)
(* registered counts as done.  The run ends with a last detection.         *)
CallerSteps == {"launcher", "infrastructure", "environment", "services", "health"}
CallerFails == flow.at \in CallerSteps /\ OnlyFlow(Halts)
CallerCompletes ==
  /\ flow.at \in CallerSteps
  /\ \/ UNCHANGED machine
     \/ machine' = CASE At("launcher")    -> [machine EXCEPT !.checkout = {"tree", "launcher"}]
                     [] At("environment") -> [machine EXCEPT !.env = "complete"]
                     [] At("services")    -> [machine EXCEPT !.containers = {"app", "redis", "minio"}]
                     [] OTHER             -> machine
  /\ UNCHANGED token
  /\ IF At("health")
     THEN \E thrown \in Throws :
            FlowGoes([Continues EXCEPT !.snapshot = DetectAll(flow.connected, thrown, Detection)])
     ELSE FlowGoes(Continues)

-----------------------------------------------------------------------------
(* The panel: discovered once, authenticated with the credentials the run  *)
(* was given, if any, then with at most three the operator is asked for.   *)
PanelMissing ==
  /\ At("panel")
  /\ flow.snapshot["xui"] \in {"NOT_FOUND", "FAILED"} \/ machine.panel = "portless"
  /\ OnlyFlow(Halts)

AskPanelCredentials ==
  /\ At("panel") /\ flow.snapshot["xui"] = "DETECTED" /\ machine.panel = "listening"
  /\ flow.secret = NoSecret
  /\ \/ /\ flow.tries < 4
        /\ \E key \in PanelKeys : OnlyFlow([flow EXCEPT !.secret = key, !.tries = @ + 1])
     \/ flow.tries = 0 /\ OnlyFlow([flow EXCEPT !.tries = 1])
     \/ flow.tries > 0 /\ OnlyFlow(Halts)

(* authenticate: a login without success asks again, an API that does not  *)
(* answer fails, and a listed inbound connects the panel.                  *)
Authenticate ==
  /\ At("panel") /\ flow.secret # NoSecret
  /\ \/ OnlyFlow([flow EXCEPT !.secret = NoSecret])
     \/ OnlyFlow(Halts)
     \/ /\ flow.secret = panelKey
        /\ UNCHANGED <<machine, token>> /\ Promote("xui", flow.secret)

(* getMe: a token Telegram accepts connects the bot, and is on the disk by *)
(* then; one it rejects, or a call that fails, does not.                   *)
GetMe(t) == t \in good /\ Promote("telegram", t)

(* A step that takes the snapshot's word for the stored token.             *)
TrustSnapshot ==
  /\ At("telegram") /\ flow.tries = 0 /\ flow.snapshot["telegram"] = "CONFIGURED"
  /\ OnlyFlow(Continues)

(* The snapshot says a token is stored; it is read again, and has to prove *)
(* itself, before it is relied on.                                         *)
CheckStoredToken ==
  /\ At("telegram") /\ flow.tries = 0 /\ flow.snapshot["telegram"] = "CONFIGURED"
  /\ \/ UNCHANGED <<machine, token>> /\ GetMe(token)
     \/ OnlyFlow([flow EXCEPT !.tries = 1])

(* Otherwise up to three tokens are asked for; only one that was accepted  *)
(* is saved, before the step reports it.                                   *)
PromptTelegramToken ==
  /\ At("telegram")
  /\ flow.tries > 0 \/ flow.snapshot["telegram"] # "CONFIGURED"
  /\ IF flow.tries < 4
     THEN \E t \in Tokens :
            \/ /\ token' = t
               /\ machine' = [machine EXCEPT !.env = IF @ = "none" THEN "partial" ELSE @]
               /\ GetMe(t)
            \/ OnlyFlow([flow EXCEPT !.tries = IF @ = 0 THEN 2 ELSE @ + 1])
            \/ OnlyFlow(Halts)
     ELSE OnlyFlow(Halts)

-----------------------------------------------------------------------------
FlowKilled == flow.at \notin Ended /\ OnlyFlow(NoFlow(flow.runs))

(* Outside the flow: the panel's password is changed, the bot's token is   *)
(* revoked, the panel is installed.                                        *)
PanelPasswordChanges ==
  /\ changes < MaxChanges /\ changes' = changes + 1
  /\ panelKey' \in PanelKeys \ {panelKey}
  /\ UNCHANGED <<machine, token, good, flow>>
TokenRevoked ==
  /\ changes < MaxChanges /\ changes' = changes + 1
  /\ \E t \in good : good' = good \ {t}
  /\ UNCHANGED <<machine, token, panelKey, flow>>

GuidedNext ==
  \/ StartFlow \/ FlowPreflight \/ ShowDetection \/ SkipCleanup \/ CleanInstall
  \/ CallerFails \/ CallerCompletes
  \/ PanelMissing \/ AskPanelCredentials \/ Authenticate
  \/ CheckStoredToken \/ PromptTelegramToken
  \/ FlowKilled \/ PanelPasswordChanges \/ TokenRevoked

GuidedSpec == GuidedInit /\ [][GuidedNext]_guidedVars

-----------------------------------------------------------------------------
(* A run that reports success has had, since it began, the panel accept a  *)
(* login and Telegram accept the very token that is in .env, although the  *)
(* snapshot the steps read was taken before the cleanup removed .env and   *)
(* before secrets were changed outside.                                    *)
ReportedOkIsTrue ==
  At("ok") =>
    /\ flow.proved \cap PanelKeys # {}
    /\ token # NoSecret /\ token \in flow.proved
=============================================================================
