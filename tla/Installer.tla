------------------------------ MODULE Installer ------------------------------
(***************************************************************************)
(* The host installer: cli/commands/install.3xui.ts, the PostgreSQL        *)
(* provisioner and route verifier of cli/installer/, the container's       *)
(* docker/start.sh and the reconciliation script it runs inside the app.   *)
(*                                                                         *)
(* The installer is a list of steps with no undo.  It may be killed, or    *)
(* throw, after any of them, and the operator runs it again from the top:  *)
(* what it finds then is what the steps left on the disk, in PostgreSQL,   *)
(* in the running containers and in the application's tables.              *)
(***************************************************************************)
EXTENDS Naturals, Sequences, SequencesExt

CONSTANTS
  Passwords,   \* what the operator may answer when asked for the role's password
  MaxRuns,     \* bound: how many times the installer is started
  MaxPanels,   \* bound: rows of VpnPanel
  NoEnv        \* there is no environment file, or no container

ASSUME InstallerAssumption ==
  /\ MaxRuns \in Nat \ {0}
  /\ MaxPanels \in Nat \ {0}
  /\ NoEnv \notin [password : Passwords, key : 1..MaxRuns]

VARIABLES
  deployment,  \* how the detected PostgreSQL runs, fixed by the host
  step,        \* the installer's next step, "idle" when it is not running
  answer,      \* the database password this run works with
  runs,        \* how many runs have been started; also the key a run generates
  files,       \* which of PostgreSQL's two files hold the installer's lines
  server,      \* which of them the running server has loaded
  edited,      \* which of them this run has written
  firewall,    \* the bridge may reach PostgreSQL's port
  role,        \* password of the database role, NoEnv when there is no role
  database,    \* the application's database exists
  schema,      \* its migrations are applied
  envFile,     \* .env on the disk
  container,   \* the environment the app's container was created with
  up,          \* the container's application is serving
  panels       \* the VpnPanel rows in the order they were created

hostVars == <<deployment, files, server, edited, firewall, role, database>>
appVars == <<schema, envFile, container, up, panels>>
installerVars == <<hostVars, appVars, step, answer, runs>>

Env == [password : Passwords, key : 1..MaxRuns]
ConfigFile == {"hba", "conf"}
Address == {"local", "other"}
\* bound is the last run that gave the row the panel host's server, 0 if none did.
PanelRow == [url : Address, key : 1..MaxRuns, bound : 0..MaxRuns]
Steps == {"idle", "panel", "credential", "role", "database", "hba", "conf", "apply",
          "firewall", "verify", "env", "containers", "migrate", "reconcile",
          "validate", "done"}

InstallerTypeOK ==
  /\ deployment \in {"docker", "native-host"}
  /\ step \in Steps
  /\ answer \in Passwords \cup {NoEnv}
  /\ runs \in 0..MaxRuns
  /\ files \subseteq ConfigFile /\ server \subseteq ConfigFile /\ edited \subseteq ConfigFile
  /\ firewall \in BOOLEAN /\ database \in BOOLEAN /\ schema \in BOOLEAN /\ up \in BOOLEAN
  /\ role \in Passwords \cup {NoEnv}
  /\ envFile \in Env \cup {NoEnv} /\ container \in Env \cup {NoEnv}
  /\ panels \in Seq(PanelRow)
  /\ Len(panels) <= MaxPanels

(* A containerised PostgreSQL comes with its role and its database; a      *)
(* native one has neither, and its files do not know the bridge.           *)
InstallerInit ==
  /\ deployment \in {"docker", "native-host"}
  /\ step = "idle" /\ answer = NoEnv /\ runs = 0
  /\ files = {} /\ server = {} /\ edited = {}
  /\ firewall \in BOOLEAN
  /\ role \in IF deployment = "docker" THEN Passwords ELSE {NoEnv}
  /\ database = (deployment = "docker")
  /\ schema = FALSE /\ up = FALSE /\ panels = << >>
  /\ envFile = NoEnv /\ container = NoEnv

-----------------------------------------------------------------------------
(* What a client in the bridge network meets when it connects.             *)
Reachable == deployment = "docker" \/ (server = ConfigFile /\ firewall)
Connects(password) == Reachable /\ database /\ role = password

GoTo(s) == step' = s

(* The command starts: platform, privileges, ports, packages and Docker    *)
(* leave nothing the later steps read, except the application's network.   *)
StartInstall ==
  /\ step = "idle" /\ runs < MaxRuns
  /\ runs' = runs + 1
  /\ answer' = NoEnv /\ edited' = {}
  /\ GoTo("panel")
  /\ UNCHANGED <<deployment, files, server, firewall, role, database, appVars>>

(* The process is killed, or a step throws: main prints the error and the  *)
(* operator is back at the shell.                                          *)
Abort ==
  /\ step # "idle"
  /\ GoTo("idle") /\ answer' = NoEnv /\ edited' = {}
  /\ UNCHANGED <<deployment, files, server, firewall, role, database, appVars, runs>>

(* ensure3xuiRuntime: the panel is discovered or installed, and the        *)
(* operator's credentials are accepted by it.                              *)
Ensure3xuiRuntime ==
  /\ step = "panel" /\ GoTo("credential")
  /\ UNCHANGED <<hostVars, appVars, answer, runs>>

(* readExistingDatabaseCredential, or the prompt when no .env names the    *)
(* application's database; only a native server is provisioned.            *)
ReadCredential ==
  /\ step = "credential"
  /\ answer' \in IF envFile # NoEnv THEN {envFile.password} ELSE Passwords
  /\ GoTo(IF deployment = "native-host" THEN "role" ELSE "verify")
  /\ UNCHANGED <<hostVars, appVars, runs>>

(* CREATE ROLE or ALTER ROLE: the statement's result is not looked at, so  *)
(* a failure leaves the role as it was and the run goes on.                *)
EnsureRole ==
  /\ step = "role"
  /\ role' \in {answer, role}
  /\ GoTo("database")
  /\ UNCHANGED <<deployment, files, server, edited, firewall, database, appVars, answer, runs>>

(* CREATE DATABASE throws when it fails, as it does when the role was not  *)
(* created; an existing database is left alone.                            *)
EnsureDatabase ==
  /\ step = "database"
  /\ database \/ role # NoEnv
  /\ database' = TRUE
  /\ GoTo("hba")
  /\ UNCHANGED <<deployment, files, server, edited, firewall, role, appVars, answer, runs>>

(* planHbaContent and planConfContent: a file that already has the line is *)
(* not written, and then it is not among the changes this run must apply.  *)
WriteConfigFile(f, next) ==
  /\ step = f
  /\ files' = files \cup {f}
  /\ edited' = IF f \in files THEN edited ELSE edited \cup {f}
  /\ GoTo(next)
  /\ UNCHANGED <<deployment, server, firewall, role, database, appVars, answer, runs>>

EnsureHba == WriteConfigFile("hba", "conf")
EnsureConf == WriteConfigFile("conf", "apply")

(* A restart loads both files, and throws when it fails; a reload loads    *)
(* pg_hba.conf only, and its result is not looked at.                      *)
ApplyNetworkAccess ==
  /\ step = "apply"
  /\ server' \in CASE "conf" \in edited -> {files}
                   [] edited = {"hba"}  -> {server \cup {"hba"}, server}
                   [] OTHER             -> {server}
  /\ GoTo("firewall")
  /\ UNCHANGED <<deployment, files, edited, firewall, role, database, appVars, answer, runs>>

(* Where ufw is not active nothing is changed.                             *)
EnsureScopedFirewallRule ==
  /\ step = "firewall"
  /\ firewall' \in {TRUE, firewall}
  /\ GoTo("verify")
  /\ UNCHANGED <<deployment, files, server, edited, role, database, appVars, answer, runs>>

(* Mutant: a verifier that is content with a server that answers.          *)
VerifyAnswers ==
  /\ step = "verify" /\ Reachable
  /\ GoTo("env")
  /\ UNCHANGED <<hostVars, appVars, answer, runs>>

(* The verifier logs in from a container in the application's network: the *)
(* run stops here unless that worked.                                      *)
VerifyDatabase ==
  /\ step = "verify" /\ Connects(answer)
  /\ GoTo("env")
  /\ UNCHANGED <<hostVars, appVars, answer, runs>>

(* The rest of ensureEnvironmentWizard: .env is written from the template, *)
(* with the credential that was verified and secrets generated anew.  The  *)
(* file is written at once here; a kill that leaves it cut short is not    *)
(* modelled.                                                               *)
WriteEnvironment ==
  /\ step = "env"
  /\ envFile' = [password |-> answer, key |-> runs]
  /\ GoTo("containers")
  /\ UNCHANGED <<hostVars, schema, container, up, panels, answer, runs>>

(* An existing container started as it is.                                 *)
StartExistingContainers ==
  /\ step = "containers"
  /\ container' = IF container = NoEnv THEN envFile ELSE container
  /\ up' = (up /\ container # NoEnv)
  /\ GoTo("migrate")
  /\ UNCHANGED <<hostVars, schema, envFile, panels, answer, runs>>

(* docker compose up -d: the container is created again when its           *)
(* environment is not the file's; stale ones are removed before.           *)
StartContainers ==
  /\ step = "containers"
  /\ container' = envFile
  /\ up' = (up /\ container = envFile)
  /\ GoTo("migrate")
  /\ UNCHANGED <<hostVars, schema, envFile, panels, answer, runs>>

(* docker/start.sh: the container waits for its DATABASE_URL, applies the  *)
(* migrations and only then starts the application.                        *)
ContainerBoots ==
  /\ container # NoEnv /\ ~up
  /\ Connects(container.password)
  /\ up' = TRUE /\ schema' = TRUE
  /\ UNCHANGED <<hostVars, envFile, container, panels, step, answer, runs>>

(* The host reboots: the containers start again, PostgreSQL reads its      *)
(* files, an installer that was running is gone.                           *)
HostReboots ==
  /\ server' = files /\ up' = FALSE
  /\ GoTo("idle") /\ answer' = NoEnv /\ edited' = {}
  /\ UNCHANGED <<deployment, files, firewall, role, database, schema, envFile,
                 container, panels, runs>>

(* runPrismaTasks executes in the container, so it needs a live one.       *)
RunPrismaTasks ==
  /\ step = "migrate" /\ up
  /\ schema' = TRUE
  /\ GoTo("reconcile")
  /\ UNCHANGED <<hostVars, envFile, container, up, panels, answer, runs>>

IsLocal(i) == panels[i].url = "local"
TakenBut(i) == \E j \in DOMAIN panels \ {i} : panels[j].bound # 0
ReconciledRow(i) ==
  [url |-> "local", key |-> container.key, bound |-> IF TakenBut(i) THEN 0 ELSE runs]

(* reconcileXui: the oldest row with the discovered address gets the       *)
(* validated credentials, encrypted with the container's key, or a row is  *)
(* created; then the server of the panel's host.  It throws when another   *)
(* row has that one, with the credentials written.                         *)
Reconcile ==
  /\ step = "reconcile" /\ up /\ schema
  /\ \E i \in 1..MaxPanels :
       /\ \/ /\ i \in DOMAIN panels /\ IsLocal(i) /\ \A j \in 1..i-1 : ~IsLocal(j)
             /\ panels' = [panels EXCEPT ![i] = ReconciledRow(i)]
          \/ /\ i = Len(panels) + 1 /\ \A j \in DOMAIN panels : ~IsLocal(j)
             /\ panels' = Append(panels, ReconciledRow(i))
       /\ GoTo(IF TakenBut(i) THEN "idle" ELSE "validate")
  /\ UNCHANGED <<hostVars, schema, envFile, container, up, answer, runs>>

(* validateInstallation: health, readiness and migrations, then the        *)
(* diagnosis, which decrypts the oldest panel's credentials and logs in to *)
(* the discovered address with them.                                       *)
ValidateInstallation ==
  /\ step = "validate" /\ up /\ schema
  /\ panels # << >> /\ Head(panels).key = container.key
  /\ GoTo("done")
  /\ UNCHANGED <<hostVars, appVars, answer, runs>>

(* PanelsService.create, update and delete, by an administrator of the     *)
(* running application: any address may be given, and given again; the     *)
(* credentials are encrypted anew when they are given; a row that has a    *)
(* server stays.                                                           *)
RegisterPanel(url) ==
  /\ up /\ schema /\ Len(panels) < MaxPanels
  /\ panels' = Append(panels, [url |-> url, key |-> container.key, bound |-> 0])
  /\ UNCHANGED <<hostVars, schema, envFile, container, up, step, answer, runs>>
UpdatePanel(i, url, key) ==
  /\ up /\ schema
  /\ panels' = [panels EXCEPT ![i] = [@ EXCEPT !.url = url, !.key = key]]
  /\ UNCHANGED <<hostVars, schema, envFile, container, up, step, answer, runs>>
DeletePanel(i) ==
  /\ up /\ schema /\ panels[i].bound = 0
  /\ panels' = RemoveAt(panels, i)
  /\ UNCHANGED <<hostVars, schema, envFile, container, up, step, answer, runs>>
AdministersPanels ==
  \/ \E url \in Address : RegisterPanel(url)
  \/ \E i \in DOMAIN panels :
       \/ \E url \in Address, key \in {panels[i].key, container.key} : UpdatePanel(i, url, key)
       \/ DeletePanel(i)

InstallerNext ==
  \/ StartInstall \/ Abort \/ HostReboots
  \/ Ensure3xuiRuntime \/ ReadCredential \/ EnsureRole \/ EnsureDatabase
  \/ EnsureHba \/ EnsureConf \/ ApplyNetworkAccess \/ EnsureScopedFirewallRule
  \/ VerifyDatabase \/ WriteEnvironment \/ StartContainers \/ RunPrismaTasks
  \/ Reconcile \/ ValidateInstallation
  \/ ContainerBoots \/ AdministersPanels

InstallerSpec == InstallerInit /\ [][InstallerNext]_installerVars

-----------------------------------------------------------------------------
(* However often the installer is run, killed and run again, and wherever  *)
(* it was killed, a container that exists keeps a password the database    *)
(* accepts: provisionNativePostgres alters the role of a live application, *)
(* and readExistingDatabaseCredential is what keeps that harmless.         *)
RerunKeepsPassword == container # NoEnv => role = container.password

(* An installation that reports success runs on the environment that is on *)
(* the disk, and opens the credentials of the panel it bound to the host:  *)
(* the key is a new one in every run, rows encrypted by earlier runs are   *)
(* still there, and administrators register, move and delete others, with  *)
(* the same address or not, before the run and during it.                  *)
FinishedInstallWorks ==
  step = "done" =>
    /\ container = envFile /\ schema
    /\ \E i \in DOMAIN panels : panels[i].bound = runs /\ panels[i].key = container.key

(* It does not open the others: a second row with the panel's address, or  *)
(* with another one, keeps the key of an earlier run.  No configuration    *)
(* checks this; the README records it.                                     *)
EveryPanelOpens ==
  step = "done" => \A i \in DOMAIN panels : panels[i].key = container.key

(* postgres-provisioner.js promises that a re-run after a partial failure  *)
(* is safe: when a re-run has provisioned the server and goes on to verify *)
(* it, the server runs with what the files say.  It does not when an       *)
(* earlier run was killed between writing the files and restarting.        *)
RerunAppliesFiles == step = "verify" /\ runs > 1 => files \subseteq server
=============================================================================
