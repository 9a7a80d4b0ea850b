--------------------------- MODULE MCInstallation ---------------------------
(***************************************************************************)
(* Instances, for TLC, of the three programs that install the application: *)
(* install.3xui.ts with its re-runs, the scripts that choose its database, *)
(* and the guided installation. A behaviour is one of a single program,    *)
(* the scenario; the others keep one initial state.                        *)
(***************************************************************************)
EXTENDS Installer, DatabaseSelection, GuidedInstall, TLC

CONSTANT q1

VARIABLE scenario

\* A host that is fully installed, a bare one with a panel, and one without root.
MCMachines ==
  LET full == [root |-> TRUE, known |-> TRUE, docker |-> "compose", postgres |-> "ready",
               panel |-> "listening", checkout |-> {"tree", "launcher"}, env |-> "complete",
               containers |-> {"app", "redis"}]
      bare == [root |-> TRUE, known |-> FALSE, docker |-> "none", postgres |-> "none",
               panel |-> "listening", checkout |-> {}, env |-> "none", containers |-> {}]
  IN {full, [full EXCEPT !.root = FALSE], bare, [bare EXCEPT !.panel = "portless"]}

-----------------------------------------------------------------------------
\* One initial state of each program that is not the scenario.
ParkInstaller == deployment = "native-host" /\ ~firewall
ParkSelection == envLine = "empty" /\ shared = NoUrl /\ stateKey = "plain" /\ answers = {}
ParkGuided == ~machine.root /\ token = NoSecret /\ good = {} /\ panelKey = q1

InstallationInit ==
  /\ scenario \in {"installer", "database", "guided"}
  /\ InstallerInit /\ (scenario = "installer" \/ ParkInstaller)
  /\ SelectionInit /\ (scenario = "database" \/ ParkSelection)
  /\ GuidedInit /\ (scenario = "guided" \/ ParkGuided)

InstallationNext ==
  /\ \/ scenario = "installer" /\ InstallerNext /\ UNCHANGED <<selectionVars, guidedVars>>
     \/ scenario = "database" /\ SelectionNext /\ UNCHANGED <<installerVars, guidedVars>>
     \/ scenario = "guided" /\ GuidedNext /\ UNCHANGED <<installerVars, selectionVars>>
  /\ UNCHANGED scenario

installationVars == <<installerVars, selectionVars, guidedVars, scenario>>
InstallationSpec == InstallationInit /\ [][InstallationNext]_installationVars

(* The program that runs keeps the types of the files, secrets and         *)
(* containers it works on and of what it remembers of them.                *)
InstallationTypeOK ==
  CASE scenario = "installer" -> InstallerTypeOK
    [] scenario = "database"  -> SelectionTypeOK
    [] scenario = "guided"    -> GuidedTypeOK
=============================================================================
