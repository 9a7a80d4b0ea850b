------------------------- MODULE InstallationProofs -------------------------
(***************************************************************************)
(* Proofs about the installation: the installer's runs and re-runs, the    *)
(* guided flow, and the database the application opens afterwards, for any *)
(* passwords, panels, tokens and any number of runs, kills and reboots.    *)
(***************************************************************************)
EXTENDS MCInstallation, SequenceTheorems, TLAPS

-----------------------------------------------------------------------------
(* The installer: a re-run never locks the application out of its database. *)

Provisioned == {"role", "database", "hba", "conf", "apply", "firewall", "verify", "env"}

\* The password on the disk is the role's, and so is the container's; a run that
\* found one works with it, and writes one only after it was accepted.
PasswordsAgree ==
  /\ envFile # NoEnv => role = envFile.password
  /\ container # NoEnv => envFile # NoEnv /\ role = container.password
  /\ step \in Provisioned /\ envFile # NoEnv => answer = envFile.password
  /\ step = "env" => answer = role
  /\ step = "containers" => envFile # NoEnv

Typed ==
  /\ envFile \in Env \cup {NoEnv} /\ container \in Env \cup {NoEnv}
  /\ runs \in 0..MaxRuns
  /\ step \in Steps \ {"idle"} => runs # 0
  /\ answer \in Passwords \cup {NoEnv}
  /\ step \in Provisioned => answer \in Passwords

InstallInv == Typed /\ PasswordsAgree

-----------------------------------------------------------------------------
LEMMA InitInstall == InstallerInit => InstallInv
BY InstallerAssumption DEF InstallerInit, InstallInv, Typed, PasswordsAgree, Provisioned, Steps

\* Steps that leave the passwords alone and go on, or end the run.
LEMMA QuietStep ==
  ASSUME InstallInv, UNCHANGED <<role, envFile, container>>,
         runs' \in 0..MaxRuns, step' # "idle" => runs' # 0,
         answer' \in Passwords \cup {NoEnv},
         step' \in Provisioned => step \in Provisioned /\ answer' = answer,
         step' = "env" => answer = role,
         step' # "containers"
  PROVE  InstallInv'
BY DEF InstallInv, Typed, PasswordsAgree, Provisioned, Steps

LEMMA WriteStep ==
  ASSUME InstallInv, WriteEnvironment
  PROVE  InstallInv'
<1>1. envFile' = [password |-> answer, key |-> runs] /\ UNCHANGED <<role, container, answer, runs>>
      /\ step = "env" /\ step' = "containers"
  BY DEF WriteEnvironment, hostVars, GoTo
<1>2. answer \in Passwords /\ runs \in 1..MaxRuns
  BY <1>1, InstallerAssumption DEF InstallInv, Typed, Provisioned, Steps
<1>3. envFile' \in Env /\ envFile'.password = answer /\ envFile' # NoEnv
  BY <1>1, <1>2, InstallerAssumption DEF Env
<1>4. role = answer /\ (container # NoEnv => role = container.password)
  BY <1>1 DEF InstallInv, PasswordsAgree
<1> QED BY <1>1, <1>2, <1>3, <1>4 DEF InstallInv, Typed, PasswordsAgree, Provisioned

\* The steps that read, set or use the role's password.
LEMMA PasswordSteps ==
  ASSUME InstallInv,
         ReadCredential \/ EnsureRole \/ VerifyDatabase \/ StartContainers
  PROVE  InstallInv'
<1>1. CASE ReadCredential
  <2>1. answer' \in Passwords /\ (envFile # NoEnv => answer' = envFile.password)
    BY <1>1 DEF ReadCredential, InstallInv, Typed, Env
  <2>2. step' \in {"role", "verify"} /\ step = "credential"
        /\ UNCHANGED <<role, envFile, container, runs>>
    BY <1>1 DEF ReadCredential, GoTo, hostVars, appVars
  <2> QED BY <2>1, <2>2 DEF InstallInv, Typed, PasswordsAgree, Provisioned, Steps
<1>2. CASE EnsureRole
  <2>1. step = "role" /\ step' = "database" /\ role' \in {answer, role}
        /\ UNCHANGED <<envFile, container, answer, runs>>
    BY <1>2 DEF EnsureRole, GoTo, appVars
  <2>2. envFile # NoEnv => role' = role
    BY <2>1 DEF InstallInv, PasswordsAgree, Provisioned
  <2> QED BY <2>1, <2>2 DEF InstallInv, Typed, PasswordsAgree, Provisioned, Steps
<1>3. CASE VerifyDatabase
  <2>1. step = "verify" /\ step' = "env" /\ role = answer
        /\ UNCHANGED <<role, envFile, container, answer, runs>>
    BY <1>3 DEF VerifyDatabase, Connects, GoTo, hostVars, appVars
  <2> QED BY <2>1 DEF InstallInv, Typed, PasswordsAgree, Provisioned, Steps
<1>4. CASE StartContainers
  <2>1. step = "containers" /\ step' = "migrate" /\ container' = envFile
        /\ UNCHANGED <<role, envFile, answer, runs>>
    BY <1>4 DEF StartContainers, GoTo, hostVars
  <2> QED BY <2>1 DEF InstallInv, Typed, PasswordsAgree, Provisioned, Steps
<1> QED BY <1>1, <1>2, <1>3, <1>4

\* Everything else an installer that runs does.
LEMMA ProvisionSteps ==
  ASSUME InstallInv,
         \/ Ensure3xuiRuntime \/ EnsureDatabase \/ EnsureHba \/ EnsureConf
         \/ ApplyNetworkAccess \/ EnsureScopedFirewallRule \/ RunPrismaTasks
         \/ Reconcile \/ ValidateInstallation
  PROVE  InstallInv'
<1>1. UNCHANGED <<role, envFile, container, answer, runs>> /\ step # "idle"
  BY DEF Ensure3xuiRuntime, EnsureDatabase, EnsureHba, EnsureConf, WriteConfigFile,
         ApplyNetworkAccess, EnsureScopedFirewallRule, RunPrismaTasks, Reconcile,
         ValidateInstallation, hostVars, appVars
<1>2. step' \in {"credential", "hba", "conf", "apply", "firewall", "verify", "reconcile",
                 "validate", "done", "idle"}
  BY DEF Ensure3xuiRuntime, EnsureDatabase, EnsureHba, EnsureConf, WriteConfigFile,
         ApplyNetworkAccess, EnsureScopedFirewallRule, RunPrismaTasks, Reconcile,
         ValidateInstallation, GoTo
<1>3. step' \in Provisioned => step \in Provisioned
  BY DEF Ensure3xuiRuntime, EnsureDatabase, EnsureHba, EnsureConf, WriteConfigFile,
         ApplyNetworkAccess, EnsureScopedFirewallRule, RunPrismaTasks, Reconcile,
         ValidateInstallation, GoTo, Provisioned
<1>4. step \in Steps
  BY DEF Ensure3xuiRuntime, EnsureDatabase, EnsureHba, EnsureConf, WriteConfigFile,
         ApplyNetworkAccess, EnsureScopedFirewallRule, RunPrismaTasks, Reconcile,
         ValidateInstallation, Steps
<1> QED BY <1>1, <1>2, <1>3, <1>4, QuietStep DEF InstallInv, Typed

\* A run begins or ends; the host reboots; the containers and the application run.
LEMMA HostSteps ==
  ASSUME InstallInv,
         StartInstall \/ Abort \/ HostReboots \/ ContainerBoots \/ AdministersPanels
           \/ UNCHANGED installerVars
  PROVE  InstallInv'
<1>1. CASE StartInstall
  <2>1. UNCHANGED <<role, envFile, container>> /\ step' = "panel" /\ answer' = NoEnv
        /\ runs' = runs + 1 /\ runs < MaxRuns
    BY <1>1 DEF StartInstall, GoTo, appVars
  <2>2. runs' \in 0..MaxRuns /\ runs' # 0
    BY <2>1, InstallerAssumption DEF InstallInv, Typed
  <2> QED BY <2>1, <2>2, QuietStep DEF Provisioned
<1>2. CASE Abort \/ HostReboots
  <2>1. UNCHANGED <<role, envFile, container, runs>> /\ step' = "idle" /\ answer' = NoEnv
    BY <1>2 DEF Abort, HostReboots, GoTo, appVars
  <2> QED BY <2>1, QuietStep DEF InstallInv, Typed, Provisioned
<1>3. CASE ContainerBoots \/ AdministersPanels \/ UNCHANGED installerVars
  <2>1. UNCHANGED <<role, envFile, container, runs, step, answer>>
    BY <1>3 DEF ContainerBoots, AdministersPanels, RegisterPanel, UpdatePanel, DeletePanel,
       installerVars, hostVars, appVars
  <2> QED BY <2>1 DEF InstallInv, Typed, PasswordsAgree
<1> QED BY <1>1, <1>2, <1>3

LEMMA NextInstall == InstallInv /\ [InstallerNext]_installerVars => InstallInv'
BY WriteStep, PasswordSteps, ProvisionSteps, HostSteps DEF InstallerNext

LEMMA InstallInvariance == InstallerSpec => []InstallInv
BY InitInstall, NextInstall, PTL DEF InstallerSpec

\* However often and wherever the installer is stopped and run again, the role of
\* the database keeps the password the running containers were created with.
THEOREM PasswordSurvivesReruns == InstallerSpec => []RerunKeepsPassword
<1>1. InstallInv => RerunKeepsPassword
  BY DEF InstallInv, PasswordsAgree, RerunKeepsPassword
<1> QED BY <1>1, InstallInvariance, PTL

-----------------------------------------------------------------------------
(* What an installation that reports success has done.                     *)
\* The row the run has bound to the panel's host opens with the container's key.
Opens(row) == row.bound = runs /\ row.key = container.key

\* The later a run is, the more it has established.
Recreated == step \in {"migrate", "reconcile", "validate", "done"} =>
               container = envFile /\ container # NoEnv
Migrated == step \in {"reconcile", "validate", "done"} => schema
Bound == step \in {"validate", "done"} => \E i \in DOMAIN panels : Opens(panels[i])

FinishInv ==
  /\ panels \in Seq(PanelRow) /\ Len(panels) <= MaxPanels
  /\ up => container # NoEnv
  /\ Recreated /\ Migrated /\ Bound

LEMMA InitFinish == InstallerInit => FinishInv
BY InstallerAssumption DEF InstallerInit, FinishInv, Recreated, Migrated, Bound

\* The rows and the environments are left alone and the run does not get on.
LEMMA EarlyStep ==
  ASSUME FinishInv, UNCHANGED <<panels, container>>, up' => up \/ container # NoEnv,
         \/ step' \notin {"migrate", "reconcile", "validate", "done"}
         \/ step' = step /\ UNCHANGED <<envFile, runs>> /\ (schema => schema')
  PROVE  FinishInv'
BY DEF FinishInv, Recreated, Migrated, Bound, Opens

LEMMA AppendsRow ==
  ASSUME panels \in Seq(PanelRow), NEW row \in PanelRow, panels' = Append(panels, row)
  PROVE  /\ panels' \in Seq(PanelRow) /\ Len(panels') = Len(panels) + 1
         /\ DOMAIN panels = 1..Len(panels) /\ DOMAIN panels' = 1..Len(panels')
         /\ Len(panels) \in Nat
         /\ panels'[Len(panels')] = row
         /\ \A i \in 1..Len(panels) : panels'[i] = panels[i]
OBVIOUS

LEMMA WritesRow ==
  ASSUME panels \in Seq(PanelRow), NEW i \in DOMAIN panels, NEW row \in PanelRow,
         panels' = [panels EXCEPT ![i] = row]
  PROVE  /\ panels' \in Seq(PanelRow) /\ Len(panels') = Len(panels)
         /\ DOMAIN panels' = DOMAIN panels /\ panels'[i] = row
         /\ \A j \in DOMAIN panels \ {i} : panels'[j] = panels[j]
<1>1. DOMAIN panels = 1..Len(panels) /\ panels \in [1..Len(panels) -> PanelRow]
  OBVIOUS
<1>2. panels' \in [1..Len(panels) -> PanelRow]
  BY <1>1
<1>3. panels' \in Seq(PanelRow) /\ Len(panels') = Len(panels)
  BY <1>2
<1> QED BY <1>1, <1>3

LEMMA RemovesRow ==
  ASSUME panels \in Seq(PanelRow), NEW i \in DOMAIN panels, panels' = RemoveAt(panels, i)
  PROVE  /\ panels' \in Seq(PanelRow) /\ Len(panels') <= Len(panels)
         /\ \A j \in DOMAIN panels \ {i} : \E k \in DOMAIN panels' : panels'[k] = panels[j]
<1> DEFINE n == Len(panels)
           s == SubSeq(panels, 1, i - 1)
           t == SubSeq(panels, i + 1, n)
<1>1. n \in Nat /\ DOMAIN panels = 1..n /\ i \in 1..n /\ i \in Nat
      /\ \A j \in 1..n : panels[j] \in PanelRow
  OBVIOUS
<1>2. s \in Seq(PanelRow) /\ Len(s) = i - 1 /\ \A j \in 1..(i - 1) : s[j] = panels[j]
  <2>1. i - 1 \in Int /\ 1 \in Int /\ (i - 1) - 1 + 1 = i - 1
    BY <1>1
  <2>2. \A j \in 1..(i - 1) : panels[j] \in PanelRow
    BY <1>1
  <2>3. s \in Seq(PanelRow) /\ Len(s) = (IF 1 <= i - 1 THEN (i - 1) - 1 + 1 ELSE 0)
        /\ \A j \in 1..((i - 1) - 1 + 1) : s[j] = panels[1 + j - 1]
    BY <2>1, <2>2, SubSeqProperties
  <2> HIDE DEF s
  <2> QED BY <1>1, <2>3
<1>3. t \in Seq(PanelRow) /\ Len(t) = n - i /\ \A j \in 1..(n - i) : t[j] = panels[i + j]
  <2>1. i + 1 \in Int /\ n \in Int /\ \A j \in (i + 1)..n : panels[j] \in PanelRow
    BY <1>1
  <2>2. t \in Seq(PanelRow) /\ Len(t) = (IF i + 1 <= n THEN n - (i + 1) + 1 ELSE 0)
        /\ \A j \in 1..(n - (i + 1) + 1) : t[j] = panels[(i + 1) + j - 1]
    BY <2>1, SubSeqProperties
  <2> HIDE DEF t
  <2> QED BY <1>1, <2>2
<1>4. panels' = s \o t
  BY DEF RemoveAt
<1> HIDE DEF s, t
<1>5. /\ s \o t \in Seq(PanelRow) /\ Len(s \o t) = Len(s) + Len(t)
      /\ \A j \in 1..Len(s) + Len(t) : (s \o t)[j] = IF j <= Len(s) THEN s[j] ELSE t[j - Len(s)]
  BY <1>2, <1>3, ConcatProperties
<1> HIDE DEF n
<1>6. panels' \in Seq(PanelRow) /\ Len(panels') = n - 1 /\ DOMAIN panels' = 1..(n - 1)
  <2>1. Len(s) + Len(t) = n - 1
    BY <1>1, <1>2, <1>3
  <2>2. panels' \in Seq(PanelRow) /\ Len(panels') = n - 1
    BY <1>4, <1>5, <2>1
  <2> QED BY <2>2
<1>7. ASSUME NEW j \in DOMAIN panels \ {i}
      PROVE  \E k \in DOMAIN panels' : panels'[k] = panels[j]
  <2>1. CASE j < i
    <3>1. j \in 1..(n - 1) /\ j <= Len(s) /\ j \in 1..(i - 1) /\ j \in 1..Len(s) + Len(t)
      BY <1>1, <1>2, <1>3, <1>7, <2>1
    <3>2. (s \o t)[j] = s[j] /\ s[j] = panels[j]
      BY <1>2, <1>5, <3>1
    <3> QED BY <1>4, <1>6, <3>1, <3>2
  <2>2. CASE j > i
    <3>0. j \in 1..n /\ i \in 1..n /\ n \in Nat /\ i < j
      BY <1>1, <1>7, <2>2
    <3>1. /\ j - 1 \in 1..(n - 1) /\ ~(j - 1 <= i - 1) /\ (j - 1) - (i - 1) = j - i
          /\ j - i \in 1..(n - i) /\ i + (j - i) = j
      BY <3>0
    <3>2. (i - 1) + (n - i) = n - 1
      BY <3>0
    <3>3. Len(s) = i - 1 /\ Len(t) = n - i /\ j - 1 \in 1..Len(s) + Len(t)
      BY <1>2, <1>3, <3>1, <3>2
    <3>4. (s \o t)[j - 1] = t[j - i] /\ t[j - i] = panels[j]
      BY <1>3, <1>5, <3>1, <3>3
    <3> QED BY <1>4, <1>6, <3>1, <3>4
  <2> QED BY <1>1, <1>7, <2>1, <2>2
<1>8. Len(panels') <= Len(panels)
  BY <1>1, <1>6 DEF n
<1> QED BY <1>6, <1>7, <1>8

LEMMA KeyOfContainer ==
  ASSUME InstallInv, container # NoEnv
  PROVE  container.key \in 1..MaxRuns
BY DEF InstallInv, Typed, Env

\* The rows change; what the run has established does not.
LEMMA RowsStep ==
  ASSUME FinishInv, panels' \in Seq(PanelRow), Len(panels') <= MaxPanels,
         UNCHANGED <<schema, envFile, container, up, step, runs>>, Bound'
  PROVE  FinishInv'
BY DEF FinishInv, Recreated, Migrated

LEMMA ReconcileStep ==
  ASSUME InstallInv, FinishInv, Reconcile
  PROVE  FinishInv'
<1>1. /\ step = "reconcile" /\ schema /\ UNCHANGED <<schema, envFile, container, up, runs>>
      /\ container = envFile /\ container # NoEnv
  BY DEF Reconcile, FinishInv, Recreated
<1>2. PICK i \in 1..MaxPanels :
        /\ \/ i \in DOMAIN panels /\ panels' = [panels EXCEPT ![i] = ReconciledRow(i)]
           \/ i = Len(panels) + 1 /\ panels' = Append(panels, ReconciledRow(i))
        /\ step' = IF TakenBut(i) THEN "idle" ELSE "validate"
  BY DEF Reconcile, GoTo
<1>3. PICK row \in PanelRow : row = ReconciledRow(i) /\ (~TakenBut(i) => Opens(row))
  <2>1. runs \in 0..MaxRuns /\ container.key \in 1..MaxRuns
    BY <1>1, KeyOfContainer DEF InstallInv, Typed
  <2>2. ReconciledRow(i) \in PanelRow
    BY <2>1, InstallerAssumption DEF ReconciledRow, PanelRow, Address
  <2> QED BY <2>2 DEF ReconciledRow, Opens
<1>4. /\ panels' \in Seq(PanelRow) /\ Len(panels') <= MaxPanels
      /\ i \in DOMAIN panels' /\ panels'[i] = row
  <2>1. CASE i \in DOMAIN panels /\ panels' = [panels EXCEPT ![i] = ReconciledRow(i)]
    BY <1>3, <2>1, WritesRow DEF FinishInv
  <2>2. CASE i = Len(panels) + 1 /\ panels' = Append(panels, ReconciledRow(i))
    BY <1>3, <2>2, AppendsRow DEF FinishInv
  <2> QED BY <1>2, <2>1, <2>2
<1>5. step' = "validate" => Opens(row)'
  BY <1>1, <1>2, <1>3 DEF Opens
<1> QED BY <1>1, <1>2, <1>4, <1>5 DEF FinishInv, Recreated, Migrated, Bound, Opens

\* Administrators write with the container's key, and cannot delete the bound row.
LEMMA AdministratorStep ==
  ASSUME InstallInv, FinishInv, AdministersPanels
  PROVE  FinishInv'
<1>1. /\ UNCHANGED <<schema, envFile, container, up, step, runs>>
      /\ container # NoEnv /\ panels \in Seq(PanelRow) /\ up
  BY DEF AdministersPanels, RegisterPanel, UpdatePanel, DeletePanel, FinishInv
<1>2. container.key \in 1..MaxRuns /\ runs \in 0..MaxRuns
  BY <1>1, KeyOfContainer DEF InstallInv, Typed
<1>3. ASSUME NEW url \in Address, RegisterPanel(url) PROVE FinishInv'
  <2> DEFINE new == [url |-> url, key |-> container.key, bound |-> 0]
  <2>1. panels' = Append(panels, new) /\ Len(panels) < MaxPanels
    BY <1>3 DEF RegisterPanel
  <2>2. new \in PanelRow
    BY <1>2, InstallerAssumption DEF PanelRow
  <2> HIDE DEF new
  <2>3. /\ panels' \in Seq(PanelRow) /\ Len(panels') <= MaxPanels
        /\ \A i \in DOMAIN panels : i \in DOMAIN panels' /\ panels'[i] = panels[i]
    BY <1>1, <2>1, <2>2, AppendsRow, InstallerAssumption
  <2>4. Bound'
    BY <1>1, <2>3 DEF FinishInv, Bound, Opens
  <2> QED BY <1>1, <2>3, <2>4, RowsStep
<1>4. ASSUME NEW i \in DOMAIN panels, NEW url \in Address,
             NEW key \in {panels[i].key, container.key}, UpdatePanel(i, url, key)
      PROVE  FinishInv'
  <2>1. panels[i] \in PanelRow
    BY <1>1
  <2>2. PICK row \in PanelRow : /\ row.key = key /\ row.bound = panels[i].bound
                               /\ panels' = [panels EXCEPT ![i] = row]
    <3> DEFINE row == [panels[i] EXCEPT !.url = url, !.key = key]
    <3>1. row \in PanelRow /\ row.key = key /\ row.bound = panels[i].bound
      BY <1>2, <2>1 DEF PanelRow
    <3>2. panels' = [panels EXCEPT ![i] = row]
      BY <1>4 DEF UpdatePanel
    <3> QED BY <3>1, <3>2
  <2>3. /\ panels' \in Seq(PanelRow) /\ Len(panels') = Len(panels)
        /\ DOMAIN panels' = DOMAIN panels /\ panels'[i] = row
        /\ \A j \in DOMAIN panels \ {i} : panels'[j] = panels[j]
    BY <1>1, <2>2, WritesRow
  <2>4. Opens(panels[i]) => Opens(row)
    BY <2>2 DEF Opens
  <2>5. Bound'
    BY <1>1, <2>3, <2>4 DEF FinishInv, Bound, Opens
  <2> QED BY <1>1, <2>3, <2>5, RowsStep DEF FinishInv
<1>5. ASSUME NEW i \in DOMAIN panels, DeletePanel(i) PROVE FinishInv'
  <2>1. panels' = RemoveAt(panels, i) /\ panels[i].bound = 0
    BY <1>5 DEF DeletePanel
  <2>2. /\ panels' \in Seq(PanelRow) /\ Len(panels') <= Len(panels)
        /\ \A j \in DOMAIN panels \ {i} : \E k \in DOMAIN panels' : panels'[k] = panels[j]
    BY <1>1, <2>1, RemovesRow
  <2>3. step \in {"validate", "done"} => runs # 0
    BY DEF InstallInv, Typed, Steps
  <2>4. Bound'
    BY <1>1, <2>1, <2>2, <2>3 DEF FinishInv, Bound, Opens
  <2>5. Len(panels') <= MaxPanels
    BY <1>1, <2>2, InstallerAssumption DEF FinishInv
  <2> QED BY <1>1, <2>2, <2>4, <2>5, RowsStep
<1> QED BY <1>3, <1>4, <1>5 DEF AdministersPanels

LEMMA ContainerSteps ==
  ASSUME InstallInv, FinishInv, StartContainers \/ RunPrismaTasks \/ ValidateInstallation
  PROVE  FinishInv'
<1>1. CASE StartContainers
  <2>1. step' = "migrate" /\ container' = envFile /\ envFile' = envFile /\ panels' = panels
        /\ envFile # NoEnv
    BY <1>1 DEF StartContainers, GoTo, InstallInv, PasswordsAgree
  <2> QED BY <2>1 DEF FinishInv, Recreated, Migrated, Bound, Opens
<1>2. CASE RunPrismaTasks
  <2>1. step = "migrate" /\ step' = "reconcile" /\ schema'
        /\ UNCHANGED <<container, envFile, panels, up, runs>>
    BY <1>2 DEF RunPrismaTasks, GoTo
  <2> QED BY <2>1 DEF FinishInv, Recreated, Migrated, Bound, Opens
<1>3. CASE ValidateInstallation
  <2>1. step = "validate" /\ step' = "done" /\ UNCHANGED <<schema, container, envFile, panels, up, runs>>
    BY <1>3 DEF ValidateInstallation, GoTo, appVars
  <2> QED BY <2>1 DEF FinishInv, Recreated, Migrated, Bound, Opens
<1> QED BY <1>1, <1>2, <1>3

LEMMA NextFinish ==
  ASSUME InstallInv, FinishInv, [InstallerNext]_installerVars
  PROVE  FinishInv'
<1>1. CASE \/ StartInstall \/ Abort \/ Ensure3xuiRuntime \/ ReadCredential \/ EnsureRole
           \/ EnsureDatabase \/ EnsureHba \/ EnsureConf \/ ApplyNetworkAccess
           \/ EnsureScopedFirewallRule \/ VerifyDatabase \/ WriteEnvironment
  <2>1. UNCHANGED <<panels, container, up>>
    BY <1>1 DEF StartInstall, Abort, Ensure3xuiRuntime, ReadCredential, EnsureRole,
         EnsureDatabase, EnsureHba, EnsureConf, WriteConfigFile, ApplyNetworkAccess,
         EnsureScopedFirewallRule, VerifyDatabase, WriteEnvironment, appVars
  <2>2. step' \in Steps \ {"migrate", "reconcile", "validate", "done"}
    BY <1>1 DEF StartInstall, Abort, Ensure3xuiRuntime, ReadCredential, EnsureRole,
         EnsureDatabase, EnsureHba, EnsureConf, WriteConfigFile, ApplyNetworkAccess,
         EnsureScopedFirewallRule, VerifyDatabase, WriteEnvironment, GoTo, Steps
  <2> QED BY <2>1, <2>2, EarlyStep
<1>2. CASE HostReboots
  BY <1>2, EarlyStep DEF HostReboots, GoTo
<1>3. CASE ContainerBoots
  BY <1>3, EarlyStep DEF ContainerBoots
<1>4. CASE UNCHANGED installerVars
  BY <1>4, EarlyStep DEF installerVars, appVars
<1> QED BY <1>1, <1>2, <1>3, <1>4, ReconcileStep, AdministratorStep, ContainerSteps DEF InstallerNext

\* An installation that reports success, after any number of runs that did not, serves
\* with the environment on the disk and opens the credentials of the panel it bound to
\* the host, whatever rows administrators have registered, moved or deleted.
THEOREM FinishedInstallationsWork == InstallerSpec => []FinishedInstallWorks
<1>1. InstallerSpec => []FinishInv
  <2>1. InstallInv /\ FinishInv /\ [InstallerNext]_installerVars => FinishInv'
    BY NextFinish
  <2> QED BY <2>1, InitFinish, InstallInvariance, PTL DEF InstallerSpec
<1>2. FinishInv => FinishedInstallWorks
  BY DEF FinishInv, FinishedInstallWorks, Recreated, Migrated, Bound, Opens
<1> QED BY <1>1, <1>2, PTL

-----------------------------------------------------------------------------
(* The types of the installer's host, files and containers.                *)
InstallerTypes ==
  /\ deployment \in {"docker", "native-host"} /\ step \in Steps
  /\ files \subseteq ConfigFile /\ server \subseteq ConfigFile /\ edited \subseteq ConfigFile
  /\ firewall \in BOOLEAN /\ database \in BOOLEAN /\ schema \in BOOLEAN /\ up \in BOOLEAN
  /\ role \in Passwords \cup {NoEnv}

LEMMA InstallerTypesStart == InstallerInit => InstallerTypes
<1> SUFFICES ASSUME InstallerInit PROVE InstallerTypes
  OBVIOUS
<1>1. database \in BOOLEAN
  BY DEF InstallerInit
<1> QED BY <1>1 DEF InstallerInit, InstallerTypes, Steps, ConfigFile

\* The host is left alone; the containers may be started or stopped.
LEMMA HostTypesStay ==
  ASSUME InstallerTypes, UNCHANGED <<deployment, firewall, role, database>>,
         step' \in Steps, files' \subseteq ConfigFile, server' \subseteq ConfigFile,
         edited' \subseteq ConfigFile, schema' \in BOOLEAN, up' \in BOOLEAN
  PROVE  InstallerTypes'
BY DEF InstallerTypes

LEMMA ShellTypes ==
  ASSUME InstallerTypes, StartInstall \/ Abort \/ HostReboots \/ ContainerBoots
                           \/ UNCHANGED installerVars
  PROVE  InstallerTypes'
<1>1. UNCHANGED <<deployment, firewall, role, database, files>>
  BY DEF StartInstall, Abort, HostReboots, ContainerBoots, installerVars, hostVars, appVars
<1>2. step' \in Steps
  BY DEF StartInstall, Abort, HostReboots, ContainerBoots, installerVars, GoTo, Steps,
    InstallerTypes
<1>3. server' \in {server, files} /\ edited' \in {edited, {}}
  BY DEF StartInstall, Abort, HostReboots, ContainerBoots, installerVars, hostVars, appVars
<1>4. schema' \in {schema, TRUE} /\ up' \in {up, TRUE, FALSE}
  BY DEF StartInstall, Abort, HostReboots, ContainerBoots, installerVars, hostVars, appVars
<1> QED BY <1>1, <1>2, <1>3, <1>4, HostTypesStay DEF InstallerTypes

LEMMA RunTypes ==
  ASSUME InstallerTypes,
         \/ Ensure3xuiRuntime \/ ReadCredential \/ VerifyDatabase \/ WriteEnvironment
         \/ StartContainers \/ RunPrismaTasks \/ ValidateInstallation
  PROVE  InstallerTypes'
<1>1. UNCHANGED <<deployment, firewall, role, database, files, server, edited>>
  BY DEF Ensure3xuiRuntime, ReadCredential, VerifyDatabase, WriteEnvironment, StartContainers,
     RunPrismaTasks, ValidateInstallation, hostVars, appVars
<1>2. step' \in Steps
  BY DEF Ensure3xuiRuntime, ReadCredential, VerifyDatabase, WriteEnvironment, StartContainers,
     RunPrismaTasks, ValidateInstallation, GoTo, Steps
<1>3. schema' \in {schema, TRUE} /\ up' \in {up, up /\ container = envFile}
  BY DEF Ensure3xuiRuntime, ReadCredential, VerifyDatabase, WriteEnvironment, StartContainers,
     RunPrismaTasks, ValidateInstallation, hostVars, appVars
<1> QED BY <1>1, <1>2, <1>3, HostTypesStay DEF InstallerTypes

LEMMA ConfigTypes ==
  ASSUME InstallerTypes, EnsureHba \/ EnsureConf \/ ApplyNetworkAccess
  PROVE  InstallerTypes'
<1>1. UNCHANGED <<deployment, firewall, role, database, schema, up>>
  BY DEF EnsureHba, EnsureConf, WriteConfigFile, ApplyNetworkAccess, appVars
<1>2. step' \in Steps
  BY DEF EnsureHba, EnsureConf, WriteConfigFile, ApplyNetworkAccess, GoTo, Steps
<1>3. CASE EnsureHba \/ EnsureConf
  <2>1. PICK f \in ConfigFile : /\ files' = files \cup {f} /\ edited' \in {edited, edited \cup {f}}
                                /\ server' = server
    BY <1>3 DEF EnsureHba, EnsureConf, WriteConfigFile, ConfigFile
  <2> QED BY <1>1, <1>2, <2>1, HostTypesStay DEF InstallerTypes
<1>4. CASE ApplyNetworkAccess
  <2>1. files' = files /\ edited' = edited /\ server' \in {files, server \cup {"hba"}, server}
    BY <1>4 DEF ApplyNetworkAccess
  <2> QED BY <1>1, <1>2, <2>1, HostTypesStay DEF InstallerTypes, ConfigFile
<1> QED BY <1>3, <1>4

LEMMA ServerTypes ==
  ASSUME InstallInv, InstallerTypes, EnsureRole \/ EnsureDatabase \/ EnsureScopedFirewallRule
  PROVE  InstallerTypes'
<1>1. UNCHANGED <<deployment, schema, up, files, server, edited>>
  BY DEF EnsureRole, EnsureDatabase, EnsureScopedFirewallRule, appVars
<1>2. step' \in Steps
  BY DEF EnsureRole, EnsureDatabase, EnsureScopedFirewallRule, GoTo, Steps
<1>3. role' \in {answer, role} /\ database' \in {database, TRUE} /\ firewall' \in {firewall, TRUE}
  BY DEF EnsureRole, EnsureDatabase, EnsureScopedFirewallRule
<1>4. answer \in Passwords \cup {NoEnv}
  BY DEF InstallInv, Typed
<1> QED BY <1>1, <1>2, <1>3, <1>4 DEF InstallerTypes

LEMMA RowTypes ==
  ASSUME InstallerTypes, Reconcile \/ AdministersPanels
  PROVE  InstallerTypes'
<1>1. UNCHANGED <<deployment, firewall, role, database, schema, up, files, server, edited>>
  BY DEF Reconcile, AdministersPanels, RegisterPanel, UpdatePanel, DeletePanel, hostVars
<1>2. step' \in Steps
  BY DEF Reconcile, AdministersPanels, RegisterPanel, UpdatePanel, DeletePanel, GoTo, Steps,
     InstallerTypes
<1> QED BY <1>1, <1>2, HostTypesStay DEF InstallerTypes

LEMMA InstallerTypesKeep ==
  ASSUME InstallInv, FinishInv, InstallerTypes, [InstallerNext]_installerVars
  PROVE  InstallerTypes'
BY ShellTypes, RunTypes, ConfigTypes, ServerTypes, RowTypes DEF InstallerNext

InstallerInv == InstallInv /\ FinishInv /\ InstallerTypes

LEMMA InstallerStarts == InstallerInit => InstallerInv
BY InitInstall, InitFinish, InstallerTypesStart DEF InstallerInv

LEMMA InstallerKeeps == InstallerInv /\ [InstallerNext]_installerVars => InstallerInv'
<1> SUFFICES ASSUME InstallerInv, [InstallerNext]_installerVars PROVE InstallerInv'
  OBVIOUS
<1>1. InstallInv /\ FinishInv /\ InstallerTypes
  BY DEF InstallerInv
<1> QED BY <1>1, NextInstall, NextFinish, InstallerTypesKeep DEF InstallerInv

LEMMA InstallerTypesHold == InstallerInv => InstallerTypeOK
BY DEF InstallerInv, InstallInv, Typed, FinishInv, InstallerTypes, InstallerTypeOK

-----------------------------------------------------------------------------
(* Which database the application has opened.                              *)
IsApp(a) == DOMAIN a = {"at", "shell", "env", "url", "chosen", "unwritten", "disturbed", "boots"}
IsTool(t) == DOMAIN t = {"at", "held", "entry", "install"}

\* A boot that has no DATABASE_URL, and that no script has disturbed.
Undisturbed == app.env = NoUrl /\ ~app.disturbed

\* What a boot has worked out so far.  The two readings of the state file agree as
\* long as no script has written it, and .env is filled with what they gave.
BootFits ==
  /\ app.at = "down" => ~app.shell
  /\ app.shell => app.env \in migrated \/ app.disturbed
  /\ app.at \in {"constructed", "resolved", "connecting", "serving"} /\ app.env # NoUrl =>
       app.url = app.env
  /\ app.at \in {"starting", "constructed", "resolved"} /\ Undisturbed => envLine \notin Urls
  /\ app.at = "constructed" /\ Undisturbed => app.url = RegistryUrl
  /\ app.at = "resolved" /\ Undisturbed =>
       app.url = UrlOf(app.chosen) /\ app.url = RegistryUrl
  /\ app.at = "connecting" /\ Undisturbed => app.url = RegistryUrl
  /\ app.at \in {"connecting", "serving"} /\ Undisturbed =>
       app.unwritten \/ envLine = "empty" \/ envLine = app.url \/ app.url \notin Urls
  /\ app.at = "serving" => app.url \in Urls

SelectionShape ==
  /\ IsApp(app) /\ IsTool(tool)
  /\ envLine \in Urls \cup {"empty", "absent"}
  /\ answers \subseteq Urls
  /\ tool.at = "recreating" => tool.entry.url \in Urls

SelectionInv == SelectionShape /\ BootFits

-----------------------------------------------------------------------------
LEMMA DownFields ==
  ASSUME NEW boots
  PROVE  /\ IsApp(Down(boots)) /\ Down(boots).at = "down" /\ Down(boots).shell = FALSE
         /\ Down(boots).disturbed = FALSE
BY DEF Down, IsApp

LEMMA IdleFields == IsTool(IdleTool) /\ IdleTool.at = "idle"
BY DEF IdleTool, IsTool

LEMMA UrlOfEntry == ASSUME NEW e PROVE UrlOf(e) \in Urls \cup {NoUrl}
BY DEF UrlOf

LEMMA InitSelection == SelectionInit => SelectionInv
BY DownFields, IdleFields DEF SelectionInit, SelectionInv, SelectionShape, BootFits

\* Nothing that a boot relies on changes.
LEMMA AppAlone ==
  ASSUME SelectionInv, UNCHANGED <<envLine, stateFile, app>>, migrated \subseteq migrated'
  PROVE  BootFits'
BY DEF SelectionInv, BootFits, Undisturbed, RegistryUrl, DbmLoad

\* A script writes: a boot that is under way is disturbed, and one that has ended has
\* nothing to lose, for it has left no room in .env.
LEMMA DisturbsStep ==
  ASSUME SelectionInv, Disturbs, UNCHANGED migrated,
         envLine' # envLine => envLine = "absent"
  PROVE  IsApp(app') /\ BootFits'
<1>1. CASE BootUnderway
  <2>1. app' = [app EXCEPT !.disturbed = TRUE]
    BY <1>1 DEF Disturbs
  <2>2. /\ IsApp(app') /\ app'.at = app.at /\ app'.shell = app.shell /\ app'.env = app.env
        /\ app'.url = app.url /\ app'.disturbed = TRUE
        /\ app'.unwritten = app.unwritten
    BY <2>1 DEF IsApp, SelectionInv, SelectionShape
  <2> QED BY <2>2 DEF BootFits, Undisturbed, SelectionInv
<1>2. CASE ~BootUnderway
  <2>1. app' = app /\ app.at \notin {"starting", "constructed", "resolved", "connecting"}
    BY <1>2 DEF Disturbs, BootUnderway
  <2> QED BY <2>1, DatabaseSelectionAssumption
          DEF BootFits, Undisturbed, SelectionInv, SelectionShape
<1> QED BY <1>1, <1>2

\* The operator takes something from the application: it is disturbed, whatever it does.
LEMMA UprootsStep ==
  ASSUME SelectionInv, Uproots
  PROVE  IsApp(app') /\ BootFits'
<1>1. CASE app.at = "down"
  <2>1. app' = app /\ ~app.shell
    BY <1>1 DEF Uproots, SelectionInv, BootFits
  <2> QED BY <1>1, <2>1 DEF BootFits, Undisturbed, SelectionInv, SelectionShape
<1>2. CASE app.at # "down"
  <2>1. app' = [app EXCEPT !.disturbed = TRUE]
    BY <1>2 DEF Uproots
  <2>2. /\ IsApp(app') /\ app'.at = app.at /\ app'.shell = app.shell /\ app'.env = app.env
        /\ app'.url = app.url /\ app'.disturbed = TRUE
        /\ app'.unwritten = app.unwritten
    BY <2>1 DEF IsApp, SelectionInv, SelectionShape
  <2> QED BY <2>2 DEF BootFits, Undisturbed, SelectionInv
<1> QED BY <1>1, <1>2

-----------------------------------------------------------------------------
(* The application boots.                                                  *)
LEMMA ToolStays ==
  ASSUME SelectionInv, UNCHANGED tool
  PROVE  IsTool(tool)' /\ (tool.at = "recreating" => tool.entry.url \in Urls)'
BY DEF SelectionInv, SelectionShape

\* A boot begins, with or without start.sh.
LEMMA BootsStep ==
  ASSUME SelectionInv, NEW shell \in BOOLEAN, NEW env, Boots(shell, env), UNCHANGED tool,
         shell => env \in migrated', env = NoUrl => envLine' \notin Urls,
         envLine' \in Urls \cup {"empty", "absent"}, answers' \subseteq Urls
  PROVE  SelectionInv'
<1> DEFINE a == [Down(app.boots + 1) EXCEPT !.at = "starting", !.shell = shell, !.env = env]
<1>1. app' = a
  BY DEF Boots
<1>2. IsApp(a) /\ a.at = "starting" /\ a.shell = shell /\ a.env = env
  BY DEF Down, IsApp
<1> HIDE DEF a
<1>3. BootFits'
  BY <1>1, <1>2 DEF BootFits, Undisturbed
<1> QED BY <1>1, <1>2, <1>3, ToolStays DEF SelectionInv, SelectionShape

LEMMA StartSteps ==
  ASSUME SelectionInv, UseDatabaseUrl \/ PrepareLocalDatabase \/ StartDirectly
  PROVE  SelectionInv'
<1>1. CASE UseDatabaseUrl
  <2>1. /\ Boots(TRUE, FromEnvFiles) /\ FromEnvFiles \in answers
        /\ migrated' = migrated \cup {FromEnvFiles} /\ UNCHANGED <<tool, envLine, answers>>
    BY <1>1 DEF UseDatabaseUrl
  <2>2. FromEnvFiles # NoUrl
    BY <2>1, DatabaseSelectionAssumption DEF SelectionInv, SelectionShape
  <2> QED BY <2>1, <2>2, BootsStep DEF SelectionInv, SelectionShape
<1>2. CASE PrepareLocalDatabase
  <2>1. /\ Boots(TRUE, LocalUrl) /\ envLine' = LocalUrl /\ answers' = answers \cup {LocalUrl}
        /\ migrated' = migrated \cup {LocalUrl} /\ UNCHANGED tool
    BY <1>2 DEF PrepareLocalDatabase
  <2>2. LocalUrl \in Urls /\ LocalUrl # NoUrl
    BY DatabaseSelectionAssumption
  <2> QED BY <2>1, <2>2, BootsStep DEF SelectionInv, SelectionShape
<1>3. CASE StartDirectly
  <2>1. Boots(FALSE, InEnvFile) /\ UNCHANGED <<tool, envLine, answers>>
    BY <1>3 DEF StartDirectly
  <2>2. InEnvFile = NoUrl => envLine \notin Urls
    BY DatabaseSelectionAssumption DEF InEnvFile
  <2> QED BY <2>1, <2>2, BootsStep DEF SelectionInv, SelectionShape
<1> QED BY <1>1, <1>2, <1>3

LEMMA ConstructStep ==
  ASSUME SelectionInv, ConstructPrisma
  PROVE  SelectionInv'
<1> DEFINE a == [app EXCEPT !.at = "constructed", !.url = FirstOf(app.env, RegistryUrl)]
<1>1. /\ app.at = "starting" /\ app' = a
      /\ UNCHANGED <<envLine, shared, stateKey, stateFile, answers, migrated, tool>>
  BY DEF ConstructPrisma, AppGoes
<1>2. /\ IsApp(a) /\ a.at = "constructed" /\ a.url = FirstOf(app.env, RegistryUrl)
      /\ a.env = app.env /\ a.shell = app.shell /\ a.disturbed = app.disturbed
      /\ a.unwritten = app.unwritten
  BY DEF SelectionInv, SelectionShape, IsApp
<1> HIDE DEF a
<1>3. RegistryUrl' = RegistryUrl
  BY <1>1 DEF RegistryUrl, DbmLoad
<1>4. BootFits'
  BY <1>1, <1>2, <1>3 DEF SelectionInv, BootFits, Undisturbed, FirstOf
<1> QED BY <1>1, <1>2, <1>4, ToolStays DEF SelectionInv, SelectionShape

\* resolveRuntime's choice, made for itself, is the constructor's.
LEMMA ResolveStep ==
  ASSUME SelectionInv, ResolveRuntime
  PROVE  SelectionInv'
<1> DEFINE c == Resolved(app.env, DbmLoad)
           a == [app EXCEPT !.at = "resolved", !.chosen = c]
<1>1. /\ app.at = "constructed" /\ app' = a
      /\ UNCHANGED <<envLine, shared, stateKey, stateFile, answers, migrated, tool>>
  BY DEF ResolveRuntime, AppGoes
<1>2. app.env = NoUrl => UrlOf(c) = RegistryUrl
  BY DEF Resolved, RegistryUrl
<1> HIDE DEF c
<1>3. /\ IsApp(a) /\ a.at = "resolved" /\ a.url = app.url /\ a.chosen = c
      /\ a.env = app.env /\ a.shell = app.shell /\ a.disturbed = app.disturbed
      /\ a.unwritten = app.unwritten
  BY DEF SelectionInv, SelectionShape, IsApp
<1> HIDE DEF a
<1>4. RegistryUrl' = RegistryUrl
  BY <1>1 DEF RegistryUrl, DbmLoad
<1>5. BootFits'
  BY <1>1, <1>2, <1>3, <1>4 DEF SelectionInv, BootFits, Undisturbed
<1> QED BY <1>1, <1>3, <1>5, ToolStays DEF SelectionInv, SelectionShape

\* Nothing was in .env: now the choice is there, unless the line is there and empty.
LEMMA PinStep ==
  ASSUME SelectionInv, NEW fails \in BOOLEAN, PinRuntime(fails)
  PROVE  SelectionInv'
<1> DEFINE u == UrlOf(app.chosen)
           a == [app EXCEPT !.at = "connecting", !.url = FirstOf(app.url, u), !.chosen = NoEntry,
                            !.unwritten = fails]
<1>1. /\ app.at = "resolved" /\ app' = a
      /\ UNCHANGED <<shared, stateKey, stateFile, answers, migrated, tool>>
      /\ envLine' = IF app.env = NoUrl /\ u \in Urls /\ envLine = "absent" /\ ~fails
                    THEN u ELSE envLine
  BY DEF PinRuntime, AppGoes, WriteEnvDatabaseUrl
<1>2. u \in Urls \cup {NoUrl}
  BY UrlOfEntry
<1>3. Undisturbed => app.url = u /\ app.url = RegistryUrl
  BY <1>1 DEF SelectionInv, BootFits
<1>4. RegistryUrl' = RegistryUrl
  BY <1>1 DEF RegistryUrl, DbmLoad
<1> HIDE DEF u
<1>5. /\ IsApp(a) /\ a.at = "connecting" /\ a.url = FirstOf(app.url, u)
      /\ a.env = app.env /\ a.shell = app.shell /\ a.disturbed = app.disturbed
      /\ a.unwritten = fails
  BY DEF SelectionInv, SelectionShape, IsApp
<1> HIDE DEF a
<1>6. BootFits'
  BY <1>1, <1>2, <1>3, <1>5, <1>4, DatabaseSelectionAssumption
     DEF SelectionInv, SelectionShape, BootFits, Undisturbed, FirstOf
<1>7. envLine' \in Urls \cup {"empty", "absent"}
  BY <1>1 DEF SelectionInv, SelectionShape
<1> QED BY <1>1, <1>5, <1>6, <1>7, ToolStays DEF SelectionInv, SelectionShape

LEMMA ConnectStep ==
  ASSUME SelectionInv, ConnectPrisma
  PROVE  SelectionInv'
<1> DEFINE a == [app EXCEPT !.at = "serving"]
<1>1. /\ app.at = "connecting" /\ app.url \in answers /\ app' = a
      /\ UNCHANGED <<envLine, shared, stateKey, stateFile, answers, migrated, tool>>
  BY DEF ConnectPrisma, AppGoes
<1>2. /\ IsApp(a) /\ a.at = "serving" /\ a.url = app.url
      /\ a.env = app.env /\ a.shell = app.shell /\ a.disturbed = app.disturbed
      /\ a.unwritten = app.unwritten
  BY DEF SelectionInv, SelectionShape, IsApp
<1> HIDE DEF a
<1>3. BootFits'
  BY <1>1, <1>2 DEF SelectionInv, SelectionShape, BootFits, Undisturbed
<1> QED BY <1>1, <1>2, <1>3, ToolStays DEF SelectionInv, SelectionShape

LEMMA StopSteps ==
  ASSUME SelectionInv, ConnectFails \/ AppStops
  PROVE  SelectionInv'
<1>1. app' = Down(app.boots) /\ UNCHANGED <<envLine, answers, tool>>
  BY DEF ConnectFails, AppStops, AppGoes
<1>2. BootFits'
  BY <1>1, DownFields DEF BootFits, Undisturbed
<1> QED BY <1>1, <1>2, DownFields, ToolStays DEF SelectionInv, SelectionShape

-----------------------------------------------------------------------------
(* The operator's scripts.                                                 *)
\* The script goes on, and what it is not writing stays.
LEMMA ToolTo ==
  ASSUME SelectionInv, IsTool(tool'), tool'.at = "recreating" => tool'.entry.url \in Urls,
         UNCHANGED <<answers, migrated>>,
         \/ Disturbs /\ (UNCHANGED envLine \/ \E u, fails : WriteEnvDatabaseUrl(u, fails))
         \/ UNCHANGED <<envLine, stateFile, app>>
  PROVE  SelectionInv'
<1>1. envLine' \in Urls \cup {"empty", "absent"} /\ (envLine' # envLine => envLine = "absent")
  BY DEF WriteEnvDatabaseUrl, SelectionInv, SelectionShape
<1>2. IsApp(app') /\ BootFits'
  BY <1>1, DisturbsStep, AppAlone DEF SelectionInv, SelectionShape
<1> QED BY <1>1, <1>2 DEF SelectionInv, SelectionShape


LEMMA ToolFields ==
  ASSUME IsTool(tool), NEW at, NEW state, NEW entry
  PROVE  /\ IsTool([tool EXCEPT !.at = at]) /\ [tool EXCEPT !.at = at].at = at
         /\ IsTool([tool EXCEPT !.at = at, !.held = state])
         /\ [tool EXCEPT !.at = at, !.held = state].at = at
         /\ IsTool([tool EXCEPT !.at = at, !.entry = entry])
         /\ [tool EXCEPT !.at = at, !.entry = entry].at = at
         /\ IsTool([Validates(at, state) EXCEPT !.install = TRUE])
         /\ [Validates(at, state) EXCEPT !.install = TRUE].at = at
         /\ IsTool([Validates(at, state) EXCEPT !.install = FALSE])
         /\ [Validates(at, state) EXCEPT !.install = FALSE].at = at
         /\ IsTool([Validates(at, state) EXCEPT !.entry = entry])
         /\ [Validates(at, state) EXCEPT !.entry = entry].at = at
         /\ IsTool(Validates(at, state)) /\ Validates(at, state).at = at
BY DEF IsTool, Validates

LEMMA AfterFields ==
  IsTool(AfterValidation) /\ AfterValidation.at \in {"idle", "recorded", "starting", "deciding"}
BY IdleFields DEF AfterValidation, Exits, IsTool

\* Every writer of the state file disturbs a boot.
LEMMA Writers ==
  ASSUME NEW state, SmSave(state) \/ WritesState(state)
  PROVE  Disturbs
BY DEF SmSave, WritesState

LEMMA OnlyToolStep ==
  ASSUME SelectionInv, NEW t, OnlyTool(t), IsTool(t), t.at # "recreating"
  PROVE  SelectionInv'
BY ToolTo DEF OnlyTool, ToolGoes

LEMMA WritesStep ==
  ASSUME SelectionInv, NEW t, ToolGoes(t), IsTool(t), t.at # "recreating",
         NEW state, SmSave(state) \/ WritesState(state), UNCHANGED envLine
  PROVE  SelectionInv'
BY ToolTo, Writers DEF ToolGoes

LEMMA ExitsFields == IsTool(Exits) /\ Exits.at = "idle"
BY IdleFields DEF Exits

LEMMA SavingSteps ==
  ASSUME SelectionInv, RunPreflight \/ ConfirmXui \/ RegistrationAnswered \/ ValidationEnds
  PROVE  SelectionInv'
<1>1. CASE RunPreflight \/ ConfirmXui
  <2>1. IsTool(tool) /\ tool.at # "recreating"
    BY <1>1 DEF RunPreflight, ConfirmXui, Idle, SelectionInv, SelectionShape
  <2> QED BY <1>1, <2>1, WritesStep DEF RunPreflight, ConfirmXui
<1>2. CASE RegistrationAnswered
  BY <1>2, WritesStep, ExitsFields DEF RegistrationAnswered
<1>3. CASE ValidationEnds
  <2>1. ToolGoes(AfterValidation) /\ UNCHANGED envLine
        /\ \E state : WritesState(state)
    BY <1>3 DEF ValidationEnds
  <2> QED BY <2>1, WritesStep, AfterFields
<1> QED BY <1>1, <1>2, <1>3

LEMMA StartingSteps ==
  ASSUME SelectionInv,
         \/ RegisterToSaas \/ \E at \in {"validating", "generating"} : RunResolveDb(at)
         \/ RunInstallDb \/ RunDbDecision \/ ToolKilled
  PROVE  SelectionInv'
<1>0. IsTool(tool)
  BY DEF SelectionInv, SelectionShape
<1>1. CASE RegisterToSaas
  BY <1>0, <1>1, OnlyToolStep, ToolFields DEF RegisterToSaas
<1>2. CASE \E at \in {"validating", "generating"} : RunResolveDb(at)
  <2> PICK at \in {"validating", "generating"} : RunResolveDb(at)
    BY <1>2
  <2>1. OnlyTool(Validates(at, DbmLoad))
    BY DEF RunResolveDb
  <2> QED BY <1>0, <2>1, OnlyToolStep, ToolFields
<1>3. CASE RunInstallDb
  <2> DEFINE t == [Validates("validating", DbmLoad) EXCEPT !.install = TRUE]
  <2>1. OnlyTool(t)
    BY <1>3 DEF RunInstallDb
  <2>2. IsTool(t) /\ t.at # "recreating"
    BY <1>0 DEF IsTool, Validates
  <2> HIDE DEF t
  <2> QED BY <2>1, <2>2, OnlyToolStep
<1>4. CASE RunDbDecision
  BY <1>0, <1>4, OnlyToolStep, ToolFields DEF RunDbDecision
<1>5. CASE ToolKilled
  BY <1>5, OnlyToolStep, ExitsFields DEF ToolKilled
<1> QED BY <1>1, <1>2, <1>3, <1>4, <1>5

LEMMA DecidingSteps ==
  ASSUME SelectionInv,
         ReuseEnvLine \/ AcceptCandidate \/ NoCandidate \/ AnswerOffer \/ DecideDatabase
  PROVE  SelectionInv'
<1>0. IsTool(tool)
  BY DEF SelectionInv, SelectionShape
<1>1. CASE ReuseEnvLine
  BY <1>1, WritesStep, ExitsFields DEF ReuseEnvLine, Persist
<1>2. CASE AcceptCandidate
  <2>1. PICK e : IF e.url \in Urls
                 THEN Persist(e) /\ ToolGoes([tool EXCEPT !.at = "pinning", !.entry = e])
                 ELSE OnlyTool([tool EXCEPT !.at = "offering"])
    BY <1>2 DEF AcceptCandidate
  <2>2. CASE e.url \in Urls
    BY <1>0, <2>1, <2>2, WritesStep, ToolFields DEF Persist
  <2>3. CASE e.url \notin Urls
    BY <1>0, <2>1, <2>3, OnlyToolStep, ToolFields
  <2> QED BY <2>2, <2>3
<1>3. CASE NoCandidate
  <2> DEFINE t == [tool EXCEPT !.at = "choosing", !.held = SmLoad]
  <2>1. OnlyTool(t)
    BY <1>3 DEF NoCandidate
  <2>2. IsTool(t) /\ t.at # "recreating"
    BY <1>0 DEF IsTool, Validates
  <2> HIDE DEF t
  <2> QED BY <2>1, <2>2, OnlyToolStep
<1>4. CASE AnswerOffer
  <2> DEFINE t == [tool EXCEPT !.at = "choosing", !.held = SmLoad]
             v == Validates("generating", DbmLoad)
  <2>1. OnlyTool(t) \/ OnlyTool(v) \/ OnlyTool(Exits)
    BY <1>4 DEF AnswerOffer
  <2>2. IsTool(t) /\ t.at = "choosing" /\ IsTool(v) /\ v.at = "generating"
    BY <1>0, ToolFields
  <2> HIDE DEF t, v
  <2> QED BY <2>1, <2>2, OnlyToolStep, ExitsFields
<1>5. CASE DecideDatabase
  <2>1. ASSUME NEW e, Persist(e),
               ToolGoes([Validates("validating", Selecting(e)) EXCEPT !.entry = e])
        PROVE  SelectionInv'
    <3> DEFINE t == [Validates("validating", Selecting(e)) EXCEPT !.entry = e]
    <3>1. ToolGoes(t) /\ WritesState(Selecting(e)) /\ UNCHANGED envLine
      BY <2>1 DEF Persist
    <3>2. IsTool(t) /\ t.at # "recreating"
      BY <1>0 DEF IsTool, Validates
    <3> HIDE DEF t
    <3> QED BY <3>1, <3>2, WritesStep
  <2>2. ASSUME OnlyTool([Validates("generating", DbmLoad) EXCEPT !.install = FALSE])
        PROVE  SelectionInv'
    BY <1>0, <2>2, OnlyToolStep, ToolFields
  <2> QED BY <1>5, <2>1, <2>2, OnlyToolStep, ExitsFields DEF DecideDatabase
<1> QED BY <1>1, <1>2, <1>3, <1>4, <1>5

LEMMA PinningSteps ==
  ASSUME SelectionInv, PinSelection \/ RecordDecision
  PROVE  SelectionInv'
<1>1. Disturbs /\ ToolGoes(Exits) /\ \E u, fails : WriteEnvDatabaseUrl(u, fails)
  BY DEF PinSelection, RecordDecision
<1> QED BY <1>1, ToolTo, ExitsFields DEF ToolGoes

\* docker compose up of the generated file: its database answers.
LEMMA GeneratedStep ==
  ASSUME SelectionInv, StartGenerated
  PROVE  SelectionInv'
<1>1. PICK e : Persist(e) /\ tool' = [tool EXCEPT !.at = "pinning", !.entry = e]
  BY DEF StartGenerated
<1>2. IsTool(tool') /\ tool'.at = "pinning"
  BY <1>1, ToolFields DEF SelectionInv, SelectionShape
<1>3. Disturbs /\ UNCHANGED <<envLine, migrated>> /\ answers' = answers \cup {GeneratedUrl}
  BY <1>1, Writers DEF StartGenerated, Persist
<1>4. IsApp(app') /\ BootFits'
  BY <1>3, DisturbsStep
<1> QED BY <1>2, <1>3, <1>4, DatabaseSelectionAssumption DEF SelectionInv, SelectionShape

-----------------------------------------------------------------------------
(* The infrastructure command, and the operator.                           *)
LEMMA InfrastructureSteps ==
  ASSUME SelectionInv, InfrastructureStep \/ \E u \in Urls : DatabaseStarts(u)
  PROVE  SelectionInv'
<1>0. IsTool(tool) /\ LocalUrl \in Urls
  BY DatabaseSelectionAssumption DEF SelectionInv, SelectionShape
<1>1. ASSUME NEW u \in Urls, ConnectExisting(u)
      PROVE  SelectionInv'
  <2>1. envLine' = u /\ Uproots /\ UNCHANGED <<tool, answers>>
    BY <1>1 DEF ConnectExisting, UpdateProjectEnv, ToolGoes
  <2> QED BY <2>1, UprootsStep, ToolStays DEF SelectionInv, SelectionShape
<1>2. ASSUME NEW u \in Urls, RecreateDatabase(u)
      PROVE  SelectionInv'
  <2>1. /\ tool' = [tool EXCEPT !.at = "recreating", !.entry = Manual(u)]
        /\ answers' = answers \ {u} /\ Uproots /\ UNCHANGED envLine
    BY <1>2 DEF RecreateDatabase, DropsDatabase
  <2>2. IsTool(tool') /\ tool'.entry.url = u
    BY <1>0, <2>1 DEF IsTool, Manual
  <2> QED BY <2>1, <2>2, UprootsStep DEF SelectionInv, SelectionShape
<1>3. CASE InstallPostgreSQL
  <2>1. /\ tool' = [tool EXCEPT !.at = "installing"] /\ answers' = answers \cup {LocalUrl}
        /\ UNCHANGED <<envLine, stateFile, migrated, app>>
    BY <1>3 DEF InstallPostgreSQL
  <2>2. IsTool(tool') /\ tool'.at = "installing"
    BY <1>0, <2>1, ToolFields
  <2> QED BY <1>0, <2>1, <2>2, AppAlone DEF SelectionInv, SelectionShape
<1>4. CASE WaitForDatabase
  <2>1. envLine' = LocalUrl /\ Uproots /\ tool' = Exits /\ UNCHANGED answers
    BY <1>4 DEF WaitForDatabase, UpdateProjectEnv, ToolGoes
  <2> QED BY <1>0, <2>1, UprootsStep, ExitsFields DEF SelectionInv, SelectionShape
<1>5. CASE EnsureDatabaseExists
  <2>1. /\ tool' = Exits /\ answers' = answers \cup {tool.entry.url} /\ tool.at = "recreating"
        /\ UNCHANGED <<envLine, stateFile, migrated, app>>
    BY <1>5 DEF EnsureDatabaseExists
  <2> QED BY <2>1, AppAlone, ExitsFields DEF SelectionInv, SelectionShape
<1>6. ASSUME NEW u \in Urls, DatabaseStarts(u)
      PROVE  SelectionInv'
  <2>1. answers' = answers \cup {u} /\ UNCHANGED <<envLine, stateFile, migrated, app, tool>>
    BY <1>6 DEF DatabaseStarts
  <2> QED BY <2>1, AppAlone, ToolStays DEF SelectionInv, SelectionShape
<1> QED BY <1>1, <1>2, <1>3, <1>4, <1>5, <1>6 DEF InfrastructureStep

LEMMA NextSelection == SelectionInv /\ [SelectionNext]_selectionVars => SelectionInv'
<1> SUFFICES ASSUME SelectionInv, [SelectionNext]_selectionVars PROVE SelectionInv'
  OBVIOUS
<1>1. CASE AppStep
  BY <1>1, StartSteps, ConstructStep, ResolveStep, PinStep, ConnectStep, StopSteps DEF AppStep
<1>2. CASE ToolStep
  BY <1>2, SavingSteps, StartingSteps, DecidingSteps, PinningSteps, GeneratedStep DEF ToolStep
<1>3. CASE UNCHANGED selectionVars
  <2>1. UNCHANGED <<envLine, stateFile, answers, migrated, tool, app>>
    BY <1>3 DEF selectionVars
  <2> QED BY <2>1, AppAlone, ToolStays DEF SelectionInv, SelectionShape
<1> QED BY <1>1, <1>2, <1>3, InfrastructureSteps DEF SelectionNext

\* The application serves what start.sh migrated or what its own boot put in .env,
\* although its constructor and resolveRuntime read the state file each for itself.
THEOREM ServedIsOnRecord == SelectionSpec => []OpenedIsOnRecord
<1>1. SelectionInv => OpenedIsOnRecord
  BY DEF SelectionInv, BootFits, Undisturbed, OpenedIsOnRecord
<1> QED BY <1>1, InitSelection, NextSelection, PTL DEF SelectionSpec

-----------------------------------------------------------------------------
(* The types of the state file, and of what the scripts hold of it.        *)
Chosen == Entry \cup {NoEntry}
StateFits(s) == s \in StateForm /\ Len(s.suggested) <= MaxSuggested

FileTypes ==
  /\ shared \in Urls \cup {NoUrl} /\ stateKey \in {"plain", "sealed", "redacted"}
  /\ StateFits(stateFile)
ToolPlaces ==
  {"idle", "validating", "generating", "deciding", "choosing", "offering", "pinning",
   "recorded", "starting", "posting", "installing", "recreating"}
ToolTypes ==
  /\ IsTool(tool)
  /\ tool.at \in ToolPlaces
  /\ StateFits(tool.held)
AppTypes ==
  /\ migrated \subseteq Urls
  /\ IsApp(app) /\ app.env \in Urls \cup {NoUrl}
  /\ app.at \in {"down", "starting", "constructed", "resolved", "connecting", "serving"}
  /\ app.url \in Urls \cup {NoUrl} /\ app.boots \in 0..MaxBoots
SelectionTypes == FileTypes /\ ToolTypes /\ AppTypes

\* What the loaders and the writers do to a state that fits.
LEMMA BlankFits == StateFits(Blank)
BY DatabaseSelectionAssumption DEF StateFits, Blank, StateForm

LEMMA StateParts ==
  ASSUME NEW s, StateFits(s)
  PROVE  /\ s = [form |-> s.form, selected |-> s.selected, suggested |-> s.suggested]
         /\ s.form \in {"plain", "sealed"} /\ s.selected \in Chosen
         /\ s.suggested \in Seq(Entry) /\ Len(s.suggested) \in Nat
         /\ Len(s.suggested) <= MaxSuggested
         /\ DOMAIN s.suggested = 1..Len(s.suggested)
         /\ \A i \in DOMAIN s.suggested : s.suggested[i] \in Entry
<1>1. s \in StateForm
  BY DEF StateFits
<1>2. /\ s = [form |-> s.form, selected |-> s.selected, suggested |-> s.suggested]
      /\ s.form \in {"plain", "sealed"} /\ s.selected \in Chosen
      /\ s.suggested \in Seq(Entry)
  BY <1>1 DEF StateForm, Chosen
<1> HIDE DEF Entry
<1>3. /\ Len(s.suggested) \in Nat /\ DOMAIN s.suggested = 1..Len(s.suggested)
      /\ \A i \in DOMAIN s.suggested : s.suggested[i] \in Entry
  BY <1>2
<1> QED BY <1>2, <1>3 DEF StateFits

LEMMA StateOf ==
  ASSUME NEW f \in {"plain", "sealed"}, NEW e \in Chosen, NEW q \in Seq(Entry),
         Len(q) <= MaxSuggested
  PROVE  StateFits([form |-> f, selected |-> e, suggested |-> q])
BY DEF StateFits, StateForm, Chosen

LEMMA WithForm ==
  ASSUME NEW s, StateFits(s), NEW f \in {"plain", "sealed"}
  PROVE  StateFits([s EXCEPT !.form = f])
<1>1. [s EXCEPT !.form = f] = [form |-> f, selected |-> s.selected, suggested |-> s.suggested]
  BY StateParts
<1> QED BY <1>1, StateParts, StateOf

LEMMA WithSelected ==
  ASSUME NEW s, StateFits(s), NEW e \in Chosen
  PROVE  StateFits([s EXCEPT !.selected = e])
<1>1. [s EXCEPT !.selected = e] = [form |-> s.form, selected |-> e, suggested |-> s.suggested]
  BY StateParts
<1> QED BY <1>1, StateParts, StateOf

LEMMA WithSuggested ==
  ASSUME NEW s, StateFits(s), NEW q \in Seq(Entry), Len(q) <= MaxSuggested
  PROVE  StateFits([s EXCEPT !.suggested = q])
<1>1. [s EXCEPT !.suggested = q] = [form |-> s.form, selected |-> s.selected, suggested |-> q]
  BY StateParts
<1> QED BY <1>1, StateParts, StateOf

LEMMA LoadsFit == ASSUME StateFits(stateFile) PROVE StateFits(SmLoad) /\ StateFits(DbmLoad)
BY WithForm, BlankFits DEF SmLoad, DbmLoad

LEMMA RedactFits == ASSUME NEW e \in Chosen
                    PROVE  Redact(e) \in Chosen /\ (e \in Entry => Redact(e) \in Entry)
BY DEF Redact, Chosen, Entry

LEMMA RedactedFits == ASSUME NEW s, StateFits(s) PROVE StateFits(RedactSecrets(s))
<1> DEFINE q == [i \in DOMAIN s.suggested |-> Redact(s.suggested[i])]
           e == Redact(s.selected)
<1>1. e \in Chosen
  BY StateParts, RedactFits
<1>2. \A i \in DOMAIN s.suggested : q[i] \in Entry
  BY StateParts, RedactFits DEF Chosen
<1>3. q \in Seq(Entry) /\ Len(q) = Len(s.suggested)
  <2> DEFINE n == Len(s.suggested)
  <2>1. n \in Nat /\ DOMAIN s.suggested = 1..n
    BY StateParts
  <2>2. q \in [1..n -> Entry]
    BY <1>2, <2>1
  <2> HIDE DEF q, n
  <2>3. q \in Seq(Entry) /\ Len(q) = n
    BY <2>1, <2>2
  <2> QED BY <2>3 DEF n
<1>4. RedactSecrets(s) = [[s EXCEPT !.selected = e] EXCEPT !.suggested = q]
  BY StateParts DEF RedactSecrets
<1> DEFINE r == [s EXCEPT !.selected = e]
<1> HIDE DEF q, e
<1>5. StateFits(r) /\ RedactSecrets(s) = [r EXCEPT !.suggested = q]
  BY <1>1, <1>4, WithSelected
<1>6. q \in Seq(Entry) /\ Len(q) <= MaxSuggested
  BY <1>3, StateParts
<1> HIDE DEF r
<1> QED BY <1>5, <1>6, WithSuggested

LEMMA SavedFits ==
  ASSUME FileTypes, NEW s, StateFits(s), SmSave(s) PROVE StateFits(stateFile')
<1>1. stateFile' \in {s, [s EXCEPT !.form = "sealed"], RedactSecrets(s)}
  BY DEF SmSave, WritesState, FileTypes
<1> QED BY <1>1, WithForm, RedactedFits

LEMMA InEnvTyped ==
  /\ InEnvFile \in Urls \cup {NoUrl}
  /\ InEnvFile # NoUrl => InEnvFile \in Urls
BY DEF InEnvFile

-----------------------------------------------------------------------------
\* A process that was disturbed is otherwise the one it was.
LEMMA DisturbedTypes ==
  ASSUME AppTypes, Disturbs \/ Uproots \/ UNCHANGED app, migrated' \subseteq Urls
  PROVE  AppTypes'
<1>1. app' = app \/ app' = [app EXCEPT !.disturbed = TRUE]
  BY DEF Disturbs, Uproots
<1>2. /\ IsApp(app') /\ app'.env = app.env /\ app'.at = app.at /\ app'.url = app.url
      /\ app'.boots = app.boots
  BY <1>1 DEF IsApp, AppTypes
<1> QED BY <1>2 DEF AppTypes

LEMMA BootTypes ==
  ASSUME AppTypes, app.boots < MaxBoots, NEW shell, NEW env \in Urls \cup {NoUrl},
         Boots(shell, env), migrated' \subseteq Urls
  PROVE  AppTypes'
<1> DEFINE a == [Down(app.boots + 1) EXCEPT !.at = "starting", !.shell = shell, !.env = env]
<1>1. app' = a
  BY DEF Boots
<1>2. IsApp(a) /\ a.at = "starting" /\ a.env = env /\ a.url = NoUrl /\ a.boots = app.boots + 1
  BY DEF Down, IsApp
<1> HIDE DEF a
<1>3. app.boots + 1 \in 0..MaxBoots
  BY DatabaseSelectionAssumption DEF AppTypes
<1> QED BY <1>1, <1>2, <1>3 DEF AppTypes

LEMMA ShellStartTypes ==
  ASSUME SelectionInv, SelectionTypes, UseDatabaseUrl \/ PrepareLocalDatabase \/ StartDirectly
  PROVE  SelectionTypes'
<1>1. AppTypes /\ answers \subseteq Urls /\ shared \in Urls \cup {NoUrl}
  BY DEF SelectionTypes, FileTypes, SelectionInv, SelectionShape
<1>2. CASE UseDatabaseUrl
  <2>1. FromEnvFiles \in Urls \cup {NoUrl} /\ migrated' \subseteq Urls
    BY <1>1, <1>2 DEF UseDatabaseUrl, AppTypes
  <2> QED BY <1>1, <1>2, <2>1, BootTypes DEF UseDatabaseUrl, SelectionTypes, FileTypes, ToolTypes
<1>3. CASE PrepareLocalDatabase
  <2>1. LocalUrl \in Urls \cup {NoUrl} /\ migrated' \subseteq Urls
    BY <1>1, <1>3, DatabaseSelectionAssumption DEF PrepareLocalDatabase, AppTypes
  <2> QED BY <1>1, <1>3, <2>1, BootTypes DEF PrepareLocalDatabase, SelectionTypes, FileTypes,
      ToolTypes
<1>4. CASE StartDirectly
  <2>1. InEnvFile \in Urls \cup {NoUrl} /\ migrated' \subseteq Urls
    BY <1>1, <1>4, InEnvTyped DEF StartDirectly, AppTypes
  <2> QED BY <1>1, <1>4, <2>1, BootTypes DEF StartDirectly, SelectionTypes, FileTypes, ToolTypes
<1> QED BY <1>2, <1>3, <1>4

LEMMA ProcessTypes ==
  ASSUME SelectionTypes, \/ ConstructPrisma \/ ResolveRuntime
                         \/ \E fails \in BOOLEAN : PinRuntime(fails)
                         \/ ConnectPrisma \/ ConnectFails \/ AppStops
  PROVE  SelectionTypes'
<1>1. UNCHANGED <<shared, stateKey, stateFile, migrated, tool>>
  BY DEF ConstructPrisma, ResolveRuntime, PinRuntime, ConnectPrisma, ConnectFails, AppStops, AppGoes
<1>2. ASSUME NEW at \in {"constructed", "resolved", "connecting", "serving"},
             NEW url \in Urls \cup {NoUrl}, NEW chosen, NEW unwritten,
             app' = [app EXCEPT !.at = at, !.url = url, !.chosen = chosen,
                                !.unwritten = unwritten]
      PROVE  AppTypes'
  <2>1. /\ IsApp(app') /\ app'.at = at /\ app'.url = url /\ app'.env = app.env
        /\ app'.boots = app.boots
    BY <1>2 DEF IsApp, SelectionTypes, AppTypes
  <2> QED BY <1>1, <2>1 DEF SelectionTypes, AppTypes
<1>3. AppTypes'
  <2>1. CASE ConstructPrisma
    <3>1. FirstOf(app.env, RegistryUrl) \in Urls \cup {NoUrl}
      BY UrlOfEntry DEF FirstOf, RegistryUrl, SelectionTypes, AppTypes
    <3>2. app' = [app EXCEPT !.at = "constructed", !.url = FirstOf(app.env, RegistryUrl),
                             !.chosen = app.chosen, !.unwritten = app.unwritten]
      BY <2>1 DEF ConstructPrisma, AppGoes, SelectionTypes, AppTypes, IsApp
    <3> HIDE DEF FirstOf, RegistryUrl
    <3> QED BY <1>2, <3>1, <3>2
  <2>2. CASE ResolveRuntime
    <3>1. app' = [app EXCEPT !.at = "resolved", !.url = app.url,
                             !.chosen = Resolved(app.env, DbmLoad),
                             !.unwritten = app.unwritten]
      BY <2>2 DEF ResolveRuntime, AppGoes, SelectionTypes, AppTypes, IsApp
    <3> QED BY <1>2, <3>1 DEF SelectionTypes, AppTypes
  <2>3. ASSUME NEW fails \in BOOLEAN, PinRuntime(fails) PROVE AppTypes'
    <3>1. FirstOf(app.url, UrlOf(app.chosen)) \in Urls \cup {NoUrl}
      BY UrlOfEntry DEF FirstOf, SelectionTypes, AppTypes
    <3>2. app' = [app EXCEPT !.at = "connecting", !.url = FirstOf(app.url, UrlOf(app.chosen)),
                             !.chosen = NoEntry, !.unwritten = fails]
      BY <2>3 DEF PinRuntime, AppGoes
    <3> QED BY <1>2, <3>1, <3>2
  <2>4. CASE ConnectPrisma
    <3>1. app' = [app EXCEPT !.at = "serving", !.url = app.url, !.chosen = app.chosen,
                             !.unwritten = app.unwritten]
      BY <2>4 DEF ConnectPrisma, AppGoes, SelectionTypes, AppTypes, IsApp
    <3> QED BY <1>2, <3>1 DEF SelectionTypes, AppTypes
  <2>5. CASE ConnectFails \/ AppStops
    <3>1. app' = Down(app.boots)
      BY <2>5 DEF ConnectFails, AppStops, AppGoes
    <3>2. /\ IsApp(Down(app.boots)) /\ Down(app.boots).at = "down" /\ Down(app.boots).env = NoUrl
          /\ Down(app.boots).url = NoUrl /\ Down(app.boots).boots = app.boots
      BY DEF Down, IsApp
    <3> QED BY <1>1, <3>1, <3>2 DEF SelectionTypes, AppTypes
  <2> QED BY <2>1, <2>2, <2>3, <2>4, <2>5
<1> QED BY <1>1, <1>3 DEF SelectionTypes, FileTypes, ToolTypes

-----------------------------------------------------------------------------
\* The scripts.
LEMMA IdleTyped ==
  /\ IsTool(Exits) /\ Exits.at = "idle" /\ StateFits(Exits.held)
BY BlankFits DEF Exits, IdleTool, IsTool

\* A script that ends, or does nothing.
LEMMA ToolEnds == ASSUME tool' = Exits PROVE ToolTypes'
<1>1. Exits.at \in ToolPlaces
  BY IdleTyped DEF ToolPlaces
<1> QED BY <1>1, IdleTyped, Zenon DEF ToolTypes

LEMMA ToolTypedStill == ASSUME ToolTypes, UNCHANGED tool PROVE ToolTypes'
BY DEF ToolTypes

\* A script takes a position, and may hold another state or entry.
LEMMA ToolAtTyped ==
  ASSUME ToolTypes, NEW at \in ToolPlaces,
         \/ tool' = Exits
         \/ tool' = [tool EXCEPT !.at = at]
         \/ \E entry : tool' = [tool EXCEPT !.at = at, !.entry = entry]
         \/ \E install : tool' = [Exits EXCEPT !.install = install, !.at = at]
  PROVE  ToolTypes'
<1>1. IsTool(tool') /\ tool'.at \in {at, "idle"} /\ tool'.held \in {tool.held, Exits.held}
  BY IdleTyped DEF ToolTypes, IsTool
<1> QED BY <1>1, IdleTyped DEF ToolTypes, ToolPlaces

LEMMA ToolHoldsTyped ==
  ASSUME ToolTypes, NEW at \in ToolPlaces, NEW held, StateFits(held),
         \/ tool' = [tool EXCEPT !.at = at, !.held = held]
         \/ \E entry : tool' = [[tool EXCEPT !.at = at, !.held = held] EXCEPT !.entry = entry]
         \/ \E install : tool' = [[tool EXCEPT !.at = at, !.held = held] EXCEPT !.install = install]
  PROVE  ToolTypes'
<1>1. IsTool(tool') /\ tool'.at = at /\ tool'.held = held
  BY DEF ToolTypes, IsTool
<1> QED BY <1>1 DEF ToolTypes

LEMMA FileStays ==
  ASSUME SelectionTypes, UNCHANGED <<shared, stateKey>>, StateFits(stateFile'),
         Disturbs \/ Uproots \/ UNCHANGED app, migrated' \subseteq migrated, ToolTypes'
  PROVE  SelectionTypes'
BY DisturbedTypes DEF SelectionTypes, FileTypes, AppTypes

LEMMA OnlyToolTypes ==
  ASSUME SelectionTypes, NEW t, OnlyTool(t), ToolTypes' PROVE SelectionTypes'
BY FileStays DEF OnlyTool, ToolGoes, SelectionTypes, FileTypes

LEMMA WholeFileTypes ==
  ASSUME SelectionTypes, RunPreflight \/ ConfirmXui \/ RegistrationAnswered PROVE SelectionTypes'
<1>1. \E s : StateFits(s) /\ SmSave(s)
  BY BlankFits, LoadsFit DEF RunPreflight, ConfirmXui, RegistrationAnswered, SelectionTypes,
     FileTypes, ToolTypes
<1>2. StateFits(stateFile') /\ Disturbs
  BY <1>1, SavedFits DEF SelectionTypes, SmSave, WritesState
<1>3. UNCHANGED <<shared, stateKey, migrated>> /\ tool' \in {tool, Exits}
  BY DEF RunPreflight, ConfirmXui, RegistrationAnswered, ToolGoes
<1>4. ToolTypes'
  BY <1>3, ToolEnds, ToolTypedStill DEF SelectionTypes
<1> QED BY <1>2, <1>3, <1>4, FileStays

LEMMA BeginsTypes ==
  ASSUME SelectionTypes, \/ RegisterToSaas \/ RunInstallDb \/ RunDbDecision \/ ToolKilled
                         \/ \E at \in {"validating", "generating"} : RunResolveDb(at)
                         \/ NoCandidate \/ AnswerOffer
  PROVE  SelectionTypes'
<1>1. StateFits(SmLoad) /\ StateFits(DbmLoad) /\ ToolTypes
  BY LoadsFit DEF SelectionTypes, FileTypes
<1>2. ASSUME NEW t, OnlyTool(t), NEW held, StateFits(held),
             NEW at \in {"posting", "validating", "generating", "choosing"},
             \/ t = [tool EXCEPT !.at = at, !.held = held]
             \/ t = [[tool EXCEPT !.at = at, !.held = held] EXCEPT !.install = TRUE]
             \/ t = Exits
      PROVE  SelectionTypes'
  <2>1. tool' = t
    BY <1>2 DEF OnlyTool, ToolGoes
  <2>2. ToolTypes'
    <3>1. at \in ToolPlaces
      BY DEF ToolPlaces
    <3>2. CASE t = Exits
      BY <1>1, <2>1, <3>1, <3>2, ToolAtTyped
    <3>3. CASE t # Exits
      BY <1>1, <1>2, <2>1, <3>1, <3>3, ToolHoldsTyped
    <3> QED BY <3>2, <3>3
  <2> QED BY <1>2, <2>2, OnlyToolTypes
<1>3. \E t : \E held : \E at \in {"posting", "validating", "generating", "choosing"} :
        /\ OnlyTool(t) /\ StateFits(held)
        /\ \/ t = [tool EXCEPT !.at = at, !.held = held]
           \/ t = [[tool EXCEPT !.at = at, !.held = held] EXCEPT !.install = TRUE]
           \/ t = Exits
  <2>1. CASE RegisterToSaas
    BY <1>1, <2>1 DEF RegisterToSaas
  <2>2. CASE RunInstallDb
    BY <1>1, <2>2 DEF RunInstallDb, Validates
  <2>3. CASE RunDbDecision
    BY <1>1, <2>3 DEF RunDbDecision
  <2>4. CASE ToolKilled
    BY <1>1, <2>4 DEF ToolKilled
  <2>5. CASE \E at \in {"validating", "generating"} : RunResolveDb(at)
    BY <1>1, <2>5 DEF RunResolveDb, Validates
  <2>6. CASE NoCandidate
    BY <1>1, <2>6 DEF NoCandidate
  <2>7. CASE AnswerOffer
    BY <1>1, <2>7 DEF AnswerOffer, Validates
  <2> QED BY <2>1, <2>2, <2>3, <2>4, <2>5, <2>6, <2>7
<1> QED BY <1>2, <1>3

LEMMA ValidationTypes == ASSUME SelectionTypes, ValidationEnds PROVE SelectionTypes'
<1>1. ToolTypes /\ StateFits(tool.held)
  BY DEF SelectionTypes, ToolTypes
<1>2. Generated \in Entry
  BY DatabaseSelectionAssumption DEF Generated, Entry
<1>3. StateFits(stateFile') /\ Disturbs
  <2>1. CASE WritesState(tool.held)
    BY <1>1, <2>1 DEF WritesState
  <2>2. CASE /\ Len(tool.held.suggested) < MaxSuggested
             /\ WritesState([tool.held EXCEPT !.suggested = <<Generated>> \o @])
    <3> DEFINE q == <<Generated>> \o tool.held.suggested
    <3>1. tool.held.suggested \in Seq(Entry) /\ Len(tool.held.suggested) < MaxSuggested
          /\ MaxSuggested \in Nat
      BY <1>1, <2>2, StateParts, DatabaseSelectionAssumption
    <3> HIDE DEF Generated, Entry
    <3>2. q \in Seq(Entry) /\ Len(q) <= MaxSuggested
      BY <1>2, <3>1
    <3>3. stateFile' = [tool.held EXCEPT !.suggested = q] /\ Disturbs
      BY <2>2 DEF WritesState
    <3> HIDE DEF q
    <3> QED BY <1>1, <3>2, <3>3, WithSuggested
  <2> QED BY <2>1, <2>2 DEF ValidationEnds
<1>4. UNCHANGED <<shared, stateKey, migrated>> /\ tool' = AfterValidation
  BY DEF ValidationEnds, ToolGoes
<1>5. \/ tool' = Exits
      \/ \E at \in {"recorded", "starting", "deciding"} :
           tool' = [Exits EXCEPT !.install = TRUE, !.at = at]
  BY <1>4 DEF AfterValidation
<1>6. ToolTypes'
  BY <1>1, <1>5, ToolAtTyped DEF ToolPlaces
<1> QED BY <1>3, <1>4, <1>6, FileStays

LEMMA PersistTypes ==
  ASSUME SelectionTypes, NEW e \in Chosen, Persist(e)
  PROVE  StateFits(stateFile') /\ Disturbs /\ StateFits(Selecting(e))
BY LoadsFit, WithSelected DEF Persist, WritesState, Selecting, SelectionTypes, FileTypes

LEMMA OfferedTyped ==
  ASSUME SelectionTypes, NEW e \in {SmLoad.suggested[i] : i \in DOMAIN SmLoad.suggested}
  PROVE  e \in Chosen
<1>1. StateFits(SmLoad)
  BY LoadsFit DEF SelectionTypes, FileTypes
<1> HIDE DEF Entry
<1> QED BY <1>1, StateParts DEF Chosen

LEMMA ChoiceTypes ==
  ASSUME SelectionInv, SelectionTypes,
         ReuseEnvLine \/ AcceptCandidate \/ StartGenerated \/ DecideDatabase
  PROVE  SelectionTypes'
<1>1. ToolTypes /\ StateFits(DbmLoad)
  BY LoadsFit DEF SelectionTypes, FileTypes
<1>2. ASSUME NEW e \in Chosen, Persist(e), UNCHANGED <<shared, stateKey, migrated>>, ToolTypes'
      PROVE  SelectionTypes'
  BY <1>2, PersistTypes, FileStays
<1>3. \A url \in Urls : [url |-> url, managed |-> FALSE] \in Chosen
  BY DEF Chosen, Entry
<1>4. CASE ReuseEnvLine
  <2>1. /\ Persist([url |-> InEnvFile, managed |-> FALSE]) /\ InEnvFile \in Urls
        /\ UNCHANGED <<shared, stateKey, migrated>> /\ tool' = Exits
    BY <1>4, InEnvTyped DEF ReuseEnvLine, ToolGoes
  <2>2. ToolTypes'
    BY <2>1, IdleTyped DEF ToolTypes, ToolPlaces
  <2> QED BY <1>2, <1>3, <2>1, <2>2
<1>5. CASE AcceptCandidate
  <2>1. PICK reached \in BOOLEAN : \E e \in PickBestCandidate(reached) :
          \/ Persist(e) /\ ToolGoes([tool EXCEPT !.at = "pinning", !.entry = e])
          \/ OnlyTool([tool EXCEPT !.at = "offering"])
    BY <1>5 DEF AcceptCandidate
  <2>2. PICK e \in PickBestCandidate(reached) :
          \/ Persist(e) /\ ToolGoes([tool EXCEPT !.at = "pinning", !.entry = e])
          \/ OnlyTool([tool EXCEPT !.at = "offering"])
    BY <2>1
  <2>3. e \in Chosen
    BY OfferedTyped DEF PickBestCandidate
  <2>4. CASE Persist(e) /\ ToolGoes([tool EXCEPT !.at = "pinning", !.entry = e])
    <3>1. ToolTypes' /\ UNCHANGED <<shared, stateKey, migrated>>
      BY <1>1, <2>4, ToolAtTyped DEF ToolGoes, ToolPlaces
    <3> QED BY <1>2, <2>3, <2>4, <3>1
  <2>5. CASE OnlyTool([tool EXCEPT !.at = "offering"])
    <3>1. tool' = [tool EXCEPT !.at = "offering"]
      BY <2>5 DEF OnlyTool, ToolGoes
    <3>2. ToolTypes'
      BY <1>1, <3>1, ToolAtTyped DEF ToolPlaces
    <3> QED BY <2>5, <3>2, OnlyToolTypes
  <2> QED BY <2>2, <2>4, <2>5
<1>6. CASE StartGenerated
  <2>1. PICK e \in {SmLoad.suggested[i] : i \in DOMAIN SmLoad.suggested} :
          Persist(e) /\ tool' = [tool EXCEPT !.at = "pinning", !.entry = e]
    BY <1>6 DEF StartGenerated
  <2>2. ToolTypes' /\ UNCHANGED <<shared, stateKey, migrated>>
    BY <1>1, <1>6, <2>1, ToolAtTyped DEF StartGenerated, ToolPlaces
  <2> QED BY <1>2, <2>1, <2>2, OfferedTyped
<1>7. CASE DecideDatabase
  <2>1. CASE OnlyTool([Validates("generating", DbmLoad) EXCEPT !.install = FALSE])
             \/ OnlyTool(Exits)
    <3>1. \/ tool' = [[tool EXCEPT !.at = "generating", !.held = DbmLoad] EXCEPT !.install = FALSE]
          \/ tool' = Exits
      BY <2>1 DEF OnlyTool, ToolGoes, Validates
    <3>2. ToolTypes'
      <4>1. CASE tool' = Exits
        BY <4>1, ToolEnds
      <4>2. CASE tool' # Exits
        BY <1>1, <3>1, <4>2, ToolHoldsTyped DEF ToolPlaces
      <4> QED BY <4>1, <4>2
    <3> QED BY <2>1, <3>2, OnlyToolTypes
  <2>2. ASSUME NEW e \in DatabaseChoices, Persist(e),
               ToolGoes([Validates("validating", Selecting(e)) EXCEPT !.entry = e])
        PROVE  SelectionTypes'
    <3>1. e \in Chosen
      <4>1. CASE e \in {tool.held.suggested[i] : i \in DOMAIN tool.held.suggested}
        BY <1>1, <4>1, StateParts DEF ToolTypes, Chosen
      <4>2. CASE \E u \in Urls : e = Manual(u)
        BY <1>3, <4>2 DEF Manual
      <4> QED BY <2>2, <4>1, <4>2 DEF DatabaseChoices
    <3>2. StateFits(Selecting(e))
      BY <2>2, <3>1, PersistTypes
    <3>3. tool' = [[tool EXCEPT !.at = "validating", !.held = Selecting(e)] EXCEPT !.entry = e]
          /\ UNCHANGED <<shared, stateKey, migrated>>
      BY <2>2 DEF ToolGoes, Validates
    <3>4. ToolTypes'
      BY <1>1, <3>2, <3>3, ToolHoldsTyped DEF ToolPlaces
    <3> QED BY <1>2, <2>2, <3>1, <3>3, <3>4
  <2> QED BY <1>7, <2>1, <2>2 DEF DecideDatabase
<1> QED BY <1>4, <1>5, <1>6, <1>7

LEMMA PinTypes == ASSUME SelectionTypes, PinSelection \/ RecordDecision PROVE SelectionTypes'
<1>1. Disturbs /\ tool' = Exits /\ UNCHANGED <<shared, stateKey, stateFile, migrated>>
  BY DEF PinSelection, RecordDecision, ToolGoes
<1>2. ToolTypes'
  BY <1>1, ToolEnds
<1> QED BY <1>1, <1>2, FileStays DEF SelectionTypes, FileTypes

-----------------------------------------------------------------------------
LEMMA InfrastructureTypes == ASSUME SelectionTypes, InfrastructureStep PROVE SelectionTypes'
<1>1. ToolTypes
  BY DEF SelectionTypes
<1>2. UNCHANGED <<shared, stateKey, stateFile>> /\ migrated' \subseteq migrated
      /\ (Uproots \/ UNCHANGED app)
  BY DEF InfrastructureStep, ConnectExisting, RecreateDatabase, InstallPostgreSQL,
     WaitForDatabase, EnsureDatabaseExists, UpdateProjectEnv, DropsDatabase, ToolGoes
<1>3. \/ tool' = tool \/ tool' = Exits \/ tool' = [tool EXCEPT !.at = "installing"]
      \/ \E e : tool' = [tool EXCEPT !.at = "recreating", !.entry = e]
  BY DEF InfrastructureStep, ConnectExisting, RecreateDatabase, InstallPostgreSQL,
     WaitForDatabase, EnsureDatabaseExists, ToolGoes
<1>4. ToolTypes'
  <2>1. CASE tool' = tool
    BY <1>1, <2>1, ToolTypedStill
  <2>2. CASE tool' # tool
    BY <1>1, <1>3, <2>2, ToolAtTyped DEF ToolPlaces
  <2> QED BY <2>1, <2>2
<1> QED BY <1>2, <1>4, FileStays DEF SelectionTypes, FileTypes

LEMMA QuietTypes ==
  ASSUME SelectionTypes, (\E u \in Urls : DatabaseStarts(u)) \/ UNCHANGED selectionVars
  PROVE  SelectionTypes'
<1>1. UNCHANGED <<shared, stateKey, stateFile, migrated, tool, app>>
  BY DEF DatabaseStarts, selectionVars
<1> QED BY <1>1 DEF SelectionTypes, FileTypes, ToolTypes, AppTypes

LEMMA SelectionTypesStart == SelectionInit => SelectionTypes
<1> SUFFICES ASSUME SelectionInit PROVE SelectionTypes
  OBVIOUS
<1>1. FileTypes
  BY BlankFits, DatabaseSelectionAssumption DEF SelectionInit, FileTypes
<1>2. ToolTypes
  BY IdleTyped DEF SelectionInit, ToolTypes, ToolPlaces, Exits
<1>3. AppTypes
  <2>1. IsApp(Down(0)) /\ Down(0).at = "down" /\ Down(0).env = NoUrl /\ Down(0).url = NoUrl
        /\ Down(0).boots = 0
    BY DEF Down, IsApp
  <2> QED BY <2>1, DatabaseSelectionAssumption DEF SelectionInit, AppTypes
<1> QED BY <1>1, <1>2, <1>3 DEF SelectionTypes

LEMMA SelectionTypesKeep ==
  ASSUME SelectionInv, SelectionTypes, [SelectionNext]_selectionVars
  PROVE  SelectionTypes'
<1>1. CASE AppStep
  BY <1>1, ShellStartTypes, ProcessTypes DEF AppStep
<1>2. CASE ToolStep
  BY <1>2, WholeFileTypes, BeginsTypes, ValidationTypes, ChoiceTypes, PinTypes DEF ToolStep
<1>3. CASE InfrastructureStep
  BY <1>3, InfrastructureTypes
<1>4. CASE (\E u \in Urls : DatabaseStarts(u)) \/ UNCHANGED selectionVars
  BY <1>4, QuietTypes
<1> QED BY <1>1, <1>2, <1>3, <1>4 DEF SelectionNext

LEMMA SelectionTypesHold == SelectionInv /\ SelectionTypes => SelectionTypeOK
BY DEF SelectionInv, SelectionShape, SelectionTypes, FileTypes, ToolTypes, ToolPlaces, AppTypes,
  StateFits,
   SelectionTypeOK

-----------------------------------------------------------------------------
(* What the guided flow has proved by the time it reports success.         *)
AfterTelegram == {"environment", "services", "health", "ok"}
AfterPanel == {"telegram"} \cup AfterTelegram

IsFlow(f) ==
  DOMAIN f = {"at", "snapshot", "connected", "secret", "tries", "proved", "runs"}

\* A run that is past the panel has had a login accepted; one that is past the bot
\* has had the token accepted that is in .env.
FlowFits(f, stored) ==
  /\ IsFlow(f)
  /\ f.at \in AfterPanel => f.proved \cap PanelKeys # {}
  /\ f.at \in AfterTelegram => stored # NoSecret /\ stored \in f.proved

GuidedInv == FlowFits(flow, token) /\ panelKey \in PanelKeys /\ good \subseteq Tokens

\* The order of the steps.
LEMMA StepAt ==
  ASSUME NEW k \in 1..10
  PROVE  /\ DOMAIN FlowSteps = 1..10 /\ Len(FlowSteps) = 10
         /\ (CHOOSE i \in DOMAIN FlowSteps : FlowSteps[i] = FlowSteps[k]) = k
<1>1. DOMAIN FlowSteps = 1..10 /\ Len(FlowSteps) = 10
  BY DEF FlowSteps
<1>2. \A i, j \in 1..10 : FlowSteps[i] = FlowSteps[j] => i = j
  BY DEF FlowSteps
<1> HIDE DEF FlowSteps
<1> QED BY <1>1, <1>2

LEMMA NextSteps ==
  /\ FlowAfter("preflight") = "detection" /\ FlowAfter("detection") = "cleanup"
  /\ FlowAfter("cleanup") = "launcher" /\ FlowAfter("launcher") = "infrastructure"
  /\ FlowAfter("infrastructure") = "panel" /\ FlowAfter("panel") = "telegram"
  /\ FlowAfter("telegram") = "environment" /\ FlowAfter("environment") = "services"
  /\ FlowAfter("services") = "health" /\ FlowAfter("health") = "ok"
<1>1. ASSUME NEW k \in 1..10
      PROVE  FlowAfter(FlowSteps[k]) = IF k = 10 THEN "ok" ELSE FlowSteps[k + 1]
  <2> DEFINE i == CHOOSE i \in DOMAIN FlowSteps : FlowSteps[i] = FlowSteps[k]
  <2>1. FlowAfter(FlowSteps[k]) = IF i = Len(FlowSteps) THEN "ok" ELSE FlowSteps[i + 1]
    BY DEF FlowAfter
  <2>2. i = k /\ Len(FlowSteps) = 10
    BY StepAt
  <2> HIDE DEF i
  <2> QED BY <2>1, <2>2
<1>2. /\ FlowSteps[1] = "preflight" /\ FlowSteps[2] = "detection" /\ FlowSteps[3] = "cleanup"
      /\ FlowSteps[4] = "launcher" /\ FlowSteps[5] = "infrastructure" /\ FlowSteps[6] = "panel"
      /\ FlowSteps[7] = "telegram" /\ FlowSteps[8] = "environment" /\ FlowSteps[9] = "services"
      /\ FlowSteps[10] = "health"
  BY DEF FlowSteps
<1> QED BY <1>1, <1>2

LEMMA ContinuesFields ==
  ASSUME IsFlow(flow)
  PROVE  IsFlow(Continues) /\ Continues.at = FlowAfter(flow.at) /\ Continues.proved = flow.proved
BY DEF IsFlow, Continues

LEMMA HaltsFits == ASSUME IsFlow(flow), NEW stored PROVE FlowFits(Halts, stored)
BY DEF IsFlow, Halts, FlowFits, AfterPanel, AfterTelegram

LEMMA NoFlowFits == ASSUME NEW n, NEW stored PROVE FlowFits(NoFlow(n), stored)
BY DEF IsFlow, NoFlow, FlowFits, AfterPanel, AfterTelegram

\* A step that needs no proof, or whose proof was given before.
LEMMA GoesOn ==
  ASSUME GuidedInv, NEW stored,
         flow.at \in {"preflight", "detection", "cleanup", "launcher", "infrastructure"}
           \/ (flow.at \in {"environment", "services", "health"} /\ stored = token)
  PROVE  FlowFits(Continues, stored)
BY ContinuesFields, NextSteps DEF GuidedInv, FlowFits, AfterPanel, AfterTelegram

\* A run tries again where it is.
LEMMA StaysFits ==
  ASSUME GuidedInv, NEW f, IsFlow(f), f.at = flow.at, f.proved = flow.proved
  PROVE  FlowFits(f, token)
BY DEF GuidedInv, FlowFits

LEMMA InitGuided == GuidedInit => GuidedInv
BY NoFlowFits DEF GuidedInit, GuidedInv

LEMMA FlowTo ==
  ASSUME GuidedInv, NEW f, FlowGoes(f), FlowFits(f, token')
  PROVE  GuidedInv'
BY DEF GuidedInv, FlowGoes, FlowFits, IsFlow

-----------------------------------------------------------------------------
LEMMA StartFlowStep == ASSUME GuidedInv, StartFlow PROVE GuidedInv'
<1> PICK thrown \in Throws :
      OnlyFlow([NoFlow(flow.runs + 1) EXCEPT
                  !.at = "preflight", !.snapshot = DetectAll({}, thrown, Detection)])
  BY DEF StartFlow
<1> DEFINE f == [NoFlow(flow.runs + 1) EXCEPT
                   !.at = "preflight", !.snapshot = DetectAll({}, thrown, Detection)]
<1>1. IsFlow(f) /\ f.at = "preflight"
  BY DEF NoFlow, IsFlow
<1>2. FlowGoes(f)
  BY DEF OnlyFlow
<1> HIDE DEF f
<1> QED BY <1>1, <1>2, FlowTo DEF FlowFits, AfterPanel, AfterTelegram

LEMMA HaltStep == ASSUME GuidedInv, OnlyFlow(Halts) PROVE GuidedInv'
BY HaltsFits, FlowTo DEF OnlyFlow, GuidedInv, FlowFits

LEMMA EarlySteps ==
  ASSUME GuidedInv, FlowPreflight \/ ShowDetection \/ SkipCleanup \/ CleanInstall
  PROVE  GuidedInv'
<1>1. flow.at \in {"preflight", "detection", "cleanup"}
  BY DEF FlowPreflight, ShowDetection, SkipCleanup, CleanInstall, At
<1>2. FlowGoes(Continues) \/ OnlyFlow(Halts)
  BY DEF FlowPreflight, ShowDetection, SkipCleanup, CleanInstall, OnlyFlow
<1> QED BY <1>1, <1>2, GoesOn, FlowTo, HaltStep

LEMMA CallerStep == ASSUME GuidedInv, CallerFails \/ CallerCompletes PROVE GuidedInv'
<1>1. CASE CallerFails
  BY <1>1, HaltStep DEF CallerFails
<1>2. CASE CallerCompletes
  <2>1. flow.at \in CallerSteps /\ token' = token
    BY <1>2 DEF CallerCompletes
  <2>2. FlowFits(Continues, token')
    BY <2>1, GoesOn DEF CallerSteps
  <2>3. CASE FlowGoes(Continues)
    BY <2>2, <2>3, FlowTo
  <2>4. ASSUME NEW thrown \in Throws,
               FlowGoes([Continues EXCEPT
                           !.snapshot = DetectAll(flow.connected, thrown, Detection)])
        PROVE  GuidedInv'
    <3> DEFINE f == [Continues EXCEPT !.snapshot = DetectAll(flow.connected, thrown, Detection)]
    <3>1. IsFlow(f) /\ f.at = Continues.at /\ f.proved = Continues.proved
      BY <2>2 DEF FlowFits, IsFlow
    <3>2. FlowGoes(f)
      BY <2>4
    <3> HIDE DEF f
    <3>3. FlowFits(f, token')
      BY <2>2, <3>1 DEF FlowFits
    <3> QED BY <3>2, <3>3, FlowTo
  <2> QED BY <1>2, <2>3, <2>4 DEF CallerCompletes
<1> QED BY <1>1, <1>2

\* What a proof adds: the next step is reached with everything proved before.
LEMMA PromoteFlow ==
  ASSUME GuidedInv, NEW component, NEW proof, Promote(component, proof)
  PROVE  \E f : /\ FlowGoes(f) /\ IsFlow(f) /\ f.at = FlowAfter(flow.at)
                /\ f.proved = flow.proved \cup {proof}
<1> PICK thrown \in Throws :
      FlowGoes([Continues EXCEPT
                  !.connected = @ \cup {component}, !.proved = @ \cup {proof},
                  !.snapshot = DetectAll(flow.connected \cup {component}, thrown, Detection')])
  BY DEF Promote
<1> DEFINE f == [Continues EXCEPT
                   !.connected = @ \cup {component}, !.proved = @ \cup {proof},
                   !.snapshot = DetectAll(flow.connected \cup {component}, thrown, Detection')]
<1>1. IsFlow(Continues) /\ Continues.at = FlowAfter(flow.at) /\ Continues.proved = flow.proved
  BY ContinuesFields DEF GuidedInv, FlowFits
<1> HIDE DEF Continues
<1>2. IsFlow(f) /\ f.at = FlowAfter(flow.at) /\ f.proved = flow.proved \cup {proof}
  BY <1>1 DEF IsFlow
<1>3. FlowGoes(f)
  OBVIOUS
<1> HIDE DEF f
<1> QED BY <1>2, <1>3

LEMMA PanelSteps ==
  ASSUME GuidedInv, PanelMissing \/ AskPanelCredentials \/ Authenticate
  PROVE  GuidedInv'
<1>0. flow.at = "panel" /\ IsFlow(flow)
  BY DEF PanelMissing, AskPanelCredentials, Authenticate, At, GuidedInv, FlowFits
<1>1. ASSUME NEW f, OnlyFlow(f), IsFlow(f), f.at = "panel", f.proved = flow.proved
      PROVE  GuidedInv'
  <2>1. FlowFits(f, token) /\ token' = token
    BY <1>0, <1>1, StaysFits DEF OnlyFlow
  <2> QED BY <1>1, <2>1, FlowTo DEF OnlyFlow
<1>2. CASE AskPanelCredentials
  <2>1. ASSUME NEW key, NEW tries, OnlyFlow([flow EXCEPT !.secret = key, !.tries = tries])
        PROVE  GuidedInv'
    <3> DEFINE f == [flow EXCEPT !.secret = key, !.tries = tries]
    <3>1. IsFlow(f) /\ f.at = "panel" /\ f.proved = flow.proved
      BY <1>0 DEF IsFlow
    <3>2. OnlyFlow(f)
      BY <2>1
    <3> HIDE DEF f
    <3> QED BY <1>1, <3>1, <3>2
  <2>2. ASSUME OnlyFlow([flow EXCEPT !.tries = 1])
        PROVE  GuidedInv'
    <3> DEFINE f == [flow EXCEPT !.tries = 1]
    <3>1. IsFlow(f) /\ f.at = "panel" /\ f.proved = flow.proved
      BY <1>0 DEF IsFlow
    <3>2. OnlyFlow(f)
      BY <2>2
    <3> HIDE DEF f
    <3> QED BY <1>1, <3>1, <3>2
  <2>3. \/ \E key \in PanelKeys : OnlyFlow([flow EXCEPT !.secret = key, !.tries = flow.tries + 1])
        \/ OnlyFlow([flow EXCEPT !.tries = 1])
        \/ OnlyFlow(Halts)
    BY <1>2 DEF AskPanelCredentials
  <2> QED BY <2>1, <2>2, <2>3, HaltStep
<1>3. CASE Authenticate
  <2>1. CASE OnlyFlow([flow EXCEPT !.secret = NoSecret])
    <3> DEFINE f == [flow EXCEPT !.secret = NoSecret]
    <3>1. IsFlow(f) /\ f.at = "panel" /\ f.proved = flow.proved
      BY <1>0 DEF IsFlow
    <3>2. OnlyFlow(f)
      BY <2>1
    <3> HIDE DEF f
    <3> QED BY <1>1, <3>1, <3>2
  <2>2. CASE Promote("xui", panelKey)
    <3>1. PICK f : /\ FlowGoes(f) /\ IsFlow(f) /\ f.at = "telegram"
                   /\ f.proved = flow.proved \cup {panelKey}
      BY <1>0, <2>2, PromoteFlow, NextSteps
    <3>2. f.proved \cap PanelKeys # {}
      BY <3>1 DEF GuidedInv
    <3>3. FlowFits(f, token')
      BY <3>1, <3>2 DEF FlowFits, AfterTelegram
    <3> QED BY <3>1, <3>3, FlowTo
  <2>3. \/ OnlyFlow([flow EXCEPT !.secret = NoSecret]) \/ OnlyFlow(Halts)
        \/ Promote("xui", panelKey)
    BY <1>3 DEF Authenticate
  <2> QED BY <2>1, <2>2, <2>3, HaltStep
<1> QED BY <1>2, <1>3, HaltStep DEF PanelMissing

\* Telegram accepts the token that .env holds then.
LEMMA GetMeStep ==
  ASSUME GuidedInv, At("telegram"), NEW t, GetMe(t), token' = t
  PROVE  GuidedInv'
<1>1. PICK f : /\ FlowGoes(f) /\ IsFlow(f) /\ f.at = "environment"
               /\ f.proved = flow.proved \cup {t}
  BY PromoteFlow, NextSteps DEF GetMe, At
<1>2. t # NoSecret /\ t \in f.proved
  BY <1>1, GuidedInstallAssumption DEF GetMe, GuidedInv
<1>3. f.proved \cap PanelKeys # {}
  BY <1>1 DEF GuidedInv, FlowFits, At, AfterPanel
<1>4. FlowFits(f, token')
  BY <1>1, <1>2, <1>3 DEF FlowFits
<1> QED BY <1>1, <1>4, FlowTo

LEMMA TelegramSteps ==
  ASSUME GuidedInv, CheckStoredToken \/ PromptTelegramToken
  PROVE  GuidedInv'
<1>0. At("telegram") /\ IsFlow(flow)
  BY DEF CheckStoredToken, PromptTelegramToken, GuidedInv, FlowFits
<1>1. ASSUME NEW tries, OnlyFlow([flow EXCEPT !.tries = tries])
      PROVE  GuidedInv'
  <2> DEFINE f == [flow EXCEPT !.tries = tries]
  <2>1. IsFlow(f) /\ f.at = flow.at /\ f.proved = flow.proved
    BY <1>0 DEF IsFlow
  <2>2. OnlyFlow(f)
    BY <1>1
  <2> HIDE DEF f
  <2>3. FlowFits(f, token) /\ token' = token
    BY <2>1, <2>2, StaysFits DEF OnlyFlow
  <2> QED BY <2>2, <2>3, FlowTo DEF OnlyFlow
<1>2. CASE CheckStoredToken
  <2>1. (GetMe(token) /\ token' = token) \/ OnlyFlow([flow EXCEPT !.tries = 1])
    BY <1>2 DEF CheckStoredToken
  <2> QED BY <1>0, <1>1, <2>1, GetMeStep
<1>3. CASE PromptTelegramToken
  <2>1. \/ \E t \in Tokens : token' = t /\ GetMe(t)
        \/ OnlyFlow([flow EXCEPT !.tries = IF flow.tries = 0 THEN 2 ELSE flow.tries + 1])
        \/ OnlyFlow(Halts)
    BY <1>3 DEF PromptTelegramToken
  <2> QED BY <1>0, <1>1, <2>1, GetMeStep, HaltStep
<1> QED BY <1>2, <1>3

LEMMA OutsideSteps ==
  ASSUME GuidedInv, \/ FlowKilled \/ PanelPasswordChanges \/ TokenRevoked
                    \/ UNCHANGED guidedVars
  PROVE  GuidedInv'
<1>1. CASE FlowKilled
  BY <1>1, NoFlowFits, FlowTo DEF FlowKilled, OnlyFlow
<1>2. CASE PanelPasswordChanges
  BY <1>2 DEF PanelPasswordChanges, GuidedInv, FlowFits, IsFlow
<1>3. CASE TokenRevoked
  BY <1>3 DEF TokenRevoked, GuidedInv, FlowFits, IsFlow
<1>4. CASE UNCHANGED guidedVars
  BY <1>4 DEF guidedVars, GuidedInv, FlowFits, IsFlow
<1> QED BY <1>1, <1>2, <1>3, <1>4

LEMMA NextGuided == GuidedInv /\ [GuidedNext]_guidedVars => GuidedInv'
BY StartFlowStep, EarlySteps, CallerStep, PanelSteps, TelegramSteps, OutsideSteps
   DEF GuidedNext

\* A guided run that reports success has had the panel accept a login, and Telegram the
\* token that is in .env, whatever was removed or changed since its snapshot.
THEOREM ReportsWhatWasProved == GuidedSpec => []ReportedOkIsTrue
<1>1. GuidedInv => ReportedOkIsTrue
  BY DEF GuidedInv, FlowFits, ReportedOkIsTrue, At, AfterPanel, AfterTelegram
<1> QED BY <1>1, InitGuided, NextGuided, PTL DEF GuidedSpec

-----------------------------------------------------------------------------
(* The types of the guided run, and of what it works on.                   *)
FlowTyped(f) ==
  /\ IsFlow(f) /\ f.at \in Positions /\ f.snapshot \in [Components -> States]
  /\ f.connected \subseteq {"xui", "telegram"} /\ f.proved \subseteq Tokens \cup PanelKeys
  /\ f.tries \in 0..4 /\ f.runs \in 0..MaxFlows

OutsideTyped ==
  /\ machine \in Machine /\ token \in Tokens \cup {NoSecret} /\ good \subseteq Tokens
  /\ panelKey \in PanelKeys /\ changes \in 0..MaxChanges

GuidedTypes == FlowTyped(flow) /\ OutsideTyped

LEMMA MachineFields ==
  ASSUME NEW m \in Machine, NEW c \in SUBSET {"tree", "launcher"},
         NEW e \in {"none", "partial", "complete"}, NEW b \in SUBSET {"app", "redis", "minio"}
  PROVE  [m EXCEPT !.checkout = c, !.containers = b, !.env = e] \in Machine
BY DEF Machine

\* Each detector reports one of the six states.
LEMMA DetectsStates == machine \in Machine => Detection \in [Components -> States]
<1> SUFFICES ASSUME machine \in Machine PROVE Detection \in [Components -> States]
  OBVIOUS
<1>1. /\ machine.root \in BOOLEAN /\ machine.docker \in {"none", "cli", "engine", "compose"}
      /\ machine.postgres \in {"none", "candidate", "ready"}
      /\ machine.env \in {"none", "partial", "complete"}
  BY DEF Machine
<1>2. /\ DetectSystem \in States /\ DetectExistingInstallation \in States
      /\ DetectContainers \in States /\ Discover \in States /\ DetectTelegram \in States
  BY DEF DetectSystem, DetectExistingInstallation, DetectContainers, Discover, DetectTelegram,
    States
<1>3. DetectDocker \in States
  BY <1>1 DEF DetectDocker, States
<1>4. DetectPostgres \in States
  BY <1>1 DEF DetectPostgres, States
<1>5. DetectEnvFile \in States
  BY <1>1 DEF DetectEnvFile, States
<1> DEFINE report(c) == CASE c = "system"     -> DetectSystem
                          [] c = "docker"     -> DetectDocker
                          [] c = "tazaxy"     -> DetectExistingInstallation
                          [] c = "postgres"   -> DetectPostgres
                          [] c = "xui"        -> Discover
                          [] c = "containers" -> DetectContainers
                          [] c = "env"        -> DetectEnvFile
                          [] c = "telegram"   -> DetectTelegram
<1>6. ASSUME NEW c \in Components PROVE report(c) \in States
  BY <1>2, <1>3, <1>4, <1>5 DEF Components
<1>7. Detection = [c \in Components |-> report(c)]
  BY DEF Detection
<1> HIDE DEF report
<1> QED BY <1>6, <1>7

LEMMA DetectsStatesNext == (machine \in Machine => Detection \in [Components -> States])'
BY DetectsStates, PTL

LEMMA DetectAllTyped ==
  ASSUME NEW connected, NEW thrown, NEW found \in [Components -> States]
  PROVE  DetectAll(connected, thrown, found) \in [Components -> States]
<1>1. "CONNECTED" \in States /\ "FAILED" \in States
  BY DEF States
<1> HIDE DEF States
<1> QED BY <1>1 DEF DetectAll

\* Where a step of the flow leads.
LEMMA FlowAfterTyped ==
  ASSUME NEW s \in Positions \ Ended PROVE FlowAfter(s) \in Positions
<1>1. s \in {"preflight", "detection", "cleanup", "launcher", "infrastructure", "panel",
             "telegram", "environment", "services", "health"}
  BY DEF Positions, FlowSteps, Ended
<1>2. {"preflight", "detection", "cleanup", "launcher", "infrastructure", "panel",
       "telegram", "environment", "services", "health", "ok"} \subseteq Positions
  BY DEF Positions, FlowSteps, Ended
<1> HIDE DEF Positions, Ended
<1> QED BY <1>1, <1>2, NextSteps

LEMMA NoFlowTyped ==
  ASSUME NEW n \in 0..MaxFlows PROVE FlowTyped(NoFlow(n))
<1>1. "idle" \in Positions /\ "NOT_FOUND" \in States
  BY DEF Positions, Ended, States
<1> HIDE DEF Positions, States
<1>2. IsFlow(NoFlow(n)) /\ NoFlow(n).snapshot \in [Components -> States]
  BY <1>1 DEF NoFlow, IsFlow
<1> QED BY <1>1, <1>2 DEF NoFlow, FlowTyped

LEMMA ContinuesTyped ==
  ASSUME FlowTyped(flow), flow.at \notin Ended PROVE FlowTyped(Continues)
<1>1. FlowAfter(flow.at) \in Positions
  BY FlowAfterTyped DEF FlowTyped
<1>2. /\ IsFlow(Continues) /\ Continues.at = FlowAfter(flow.at)
      /\ Continues.snapshot = flow.snapshot /\ Continues.connected = flow.connected
      /\ Continues.proved = flow.proved /\ Continues.tries = 0 /\ Continues.runs = flow.runs
  BY DEF Continues, IsFlow, FlowTyped
<1> QED BY <1>1, <1>2 DEF FlowTyped

LEMMA HaltsTyped == ASSUME FlowTyped(flow) PROVE FlowTyped(Halts)
<1>1. "failed" \in Positions
  BY DEF Positions, Ended
<1>2. /\ IsFlow(Halts) /\ Halts.at = "failed"
      /\ Halts.snapshot = flow.snapshot /\ Halts.connected = flow.connected
      /\ Halts.proved = flow.proved /\ Halts.tries = 0 /\ Halts.runs = flow.runs
  BY DEF Halts, IsFlow, FlowTyped
<1> QED BY <1>1, <1>2 DEF FlowTyped

\* A snapshot replaces another.
LEMMA SnapshotTyped ==
  ASSUME NEW f, FlowTyped(f), NEW snapshot \in [Components -> States], NEW c, NEW p,
         c \subseteq {"xui", "telegram"}, p \subseteq Tokens \cup PanelKeys
  PROVE  /\ FlowTyped([f EXCEPT !.snapshot = snapshot])
         /\ FlowTyped([f EXCEPT !.connected = c, !.proved = p, !.snapshot = snapshot])
BY DEF FlowTyped, IsFlow

LEMMA TriesTyped ==
  ASSUME FlowTyped(flow), NEW n \in 0..4 PROVE FlowTyped([flow EXCEPT !.tries = n])
BY DEF FlowTyped, IsFlow

LEMMA SecretTyped ==
  ASSUME FlowTyped(flow), NEW key PROVE FlowTyped([flow EXCEPT !.secret = key])
BY DEF FlowTyped, IsFlow

LEMMA AskedTyped ==
  ASSUME FlowTyped(flow), NEW n \in 0..4, NEW key
  PROVE  FlowTyped([flow EXCEPT !.secret = key, !.tries = n])
BY DEF FlowTyped, IsFlow

LEMMA NotEnded ==
  ASSUME NEW s, s \in {"preflight", "detection", "cleanup", "launcher", "infrastructure", "panel",
             "telegram", "environment", "services", "health"}
  PROVE  s \notin Ended
BY DEF Ended

LEMMA FlowStays ==
  ASSUME GuidedTypes, NEW f, FlowTyped(f), FlowGoes(f),
         machine' \in Machine, token' \in Tokens \cup {NoSecret}
  PROVE  GuidedTypes'
BY DEF GuidedTypes, FlowGoes, OutsideTyped, FlowTyped, IsFlow

LEMMA OnlyFlowStays ==
  ASSUME GuidedTypes, NEW f, FlowTyped(f), OnlyFlow(f) PROVE GuidedTypes'
BY FlowStays DEF OnlyFlow, GuidedTypes, OutsideTyped

LEMMA PromoteTypes ==
  ASSUME GuidedTypes, NEW component \in {"xui", "telegram"}, NEW proof \in Tokens \cup PanelKeys,
         flow.at \notin Ended, Promote(component, proof),
         machine' \in Machine, token' \in Tokens \cup {NoSecret}
  PROVE  GuidedTypes'
<1> PICK thrown \in Throws :
      FlowGoes([Continues EXCEPT
                  !.connected = @ \cup {component}, !.proved = @ \cup {proof},
                  !.snapshot = DetectAll(flow.connected \cup {component}, thrown, Detection')])
  BY DEF Promote
<1> DEFINE c == Continues.connected \cup {component}
           p == Continues.proved \cup {proof}
           s == DetectAll(flow.connected \cup {component}, thrown, Detection')
           f == [Continues EXCEPT !.connected = c, !.proved = p, !.snapshot = s]
<1>1. FlowTyped(Continues)
  BY ContinuesTyped DEF GuidedTypes
<1>2. c \subseteq {"xui", "telegram"} /\ p \subseteq Tokens \cup PanelKeys
  BY <1>1 DEF FlowTyped
<1>3. s \in [Components -> States]
  BY DetectsStatesNext, DetectAllTyped
<1>4. FlowGoes(f)
  OBVIOUS
<1>5. FlowTyped(f)
  <2> HIDE DEF c, p, s
  <2> QED BY <1>1, <1>2, <1>3, SnapshotTyped
<1> HIDE DEF f
<1> QED BY <1>4, <1>5, FlowStays

LEMMA BeginTypes == ASSUME GuidedTypes, StartFlow PROVE GuidedTypes'
<1> PICK thrown \in Throws :
      OnlyFlow([NoFlow(flow.runs + 1) EXCEPT
                  !.at = "preflight", !.snapshot = DetectAll({}, thrown, Detection)])
  BY DEF StartFlow
<1> DEFINE s == DetectAll({}, thrown, Detection)
           n == NoFlow(flow.runs + 1)
           f == [n EXCEPT !.at = "preflight", !.snapshot = s]
<1>1. s \in [Components -> States]
  BY DetectsStates, DetectAllTyped DEF GuidedTypes, OutsideTyped
<1>2. FlowTyped(n)
  <2>1. flow.runs + 1 \in 0..MaxFlows
    BY GuidedInstallAssumption DEF StartFlow, GuidedTypes, FlowTyped
  <2> QED BY <2>1, NoFlowTyped
<1>3. OnlyFlow(f)
  OBVIOUS
<1>4. "preflight" \in Positions
  BY DEF Positions, FlowSteps
<1>5. FlowTyped(f)
  <2> HIDE DEF n, s
  <2> QED BY <1>1, <1>2, <1>4 DEF FlowTyped, IsFlow
<1> HIDE DEF f
<1> QED BY <1>3, <1>5, OnlyFlowStays

LEMMA EarlyTypes ==
  ASSUME GuidedTypes, FlowPreflight \/ ShowDetection \/ SkipCleanup \/ CleanInstall \/ CallerFails
  PROVE  GuidedTypes'
<1>1. flow.at \notin Ended
  BY NotEnded DEF FlowPreflight, ShowDetection, SkipCleanup, CleanInstall, CallerFails,
    CallerSteps, At
<1>2. FlowTyped(Continues) /\ FlowTyped(Halts)
  BY <1>1, ContinuesTyped, HaltsTyped DEF GuidedTypes
<1>3. CASE CleanInstall
  <2>1. PICK removed \in SUBSET machine.checkout, gone \in SUBSET machine.containers :
          /\ machine' = [machine EXCEPT !.checkout = @ \ removed, !.containers = @ \ gone,
                                        !.env = IF "tree" \in removed THEN "none" ELSE @]
          /\ token' = IF "tree" \in removed THEN NoSecret ELSE token
    BY <1>3 DEF CleanInstall
  <2>2. machine' \in Machine
    <3>1. /\ machine.checkout \ removed \in SUBSET {"tree", "launcher"}
          /\ machine.containers \ gone \in SUBSET {"app", "redis", "minio"}
          /\ (IF "tree" \in removed THEN "none" ELSE machine.env)
               \in {"none", "partial", "complete"}
      BY DEF GuidedTypes, OutsideTyped, Machine
    <3> QED BY <2>1, <3>1, MachineFields DEF GuidedTypes, OutsideTyped
  <2>3. token' \in Tokens \cup {NoSecret} /\ FlowGoes(Continues)
    BY <1>3, <2>1 DEF GuidedTypes, OutsideTyped, CleanInstall
  <2> QED BY <1>2, <2>2, <2>3, FlowStays
<1>4. CASE FlowPreflight \/ ShowDetection \/ SkipCleanup \/ CallerFails
  <2>1. OnlyFlow(Continues) \/ OnlyFlow(Halts)
    BY <1>4 DEF FlowPreflight, ShowDetection, SkipCleanup, CallerFails
  <2> QED BY <1>2, <2>1, OnlyFlowStays
<1> QED BY <1>3, <1>4

LEMMA CallerTypes == ASSUME GuidedTypes, CallerCompletes PROVE GuidedTypes'
<1>1. flow.at \notin Ended /\ token' \in Tokens \cup {NoSecret}
  BY NotEnded DEF CallerCompletes, CallerSteps, GuidedTypes, OutsideTyped
<1>2. machine' \in Machine
  <2>1. \/ machine' = machine
        \/ machine' = [machine EXCEPT !.checkout = {"tree", "launcher"}]
        \/ machine' = [machine EXCEPT !.env = "complete"]
        \/ machine' = [machine EXCEPT !.containers = {"app", "redis", "minio"}]
    BY DEF CallerCompletes, At
  <2> QED BY <2>1 DEF Machine, GuidedTypes, OutsideTyped
<1>3. FlowTyped(Continues)
  BY <1>1, ContinuesTyped DEF GuidedTypes
<1>4. CASE FlowGoes(Continues)
  BY <1>1, <1>2, <1>3, <1>4, FlowStays
<1>5. ASSUME NEW thrown \in Throws,
             FlowGoes([Continues EXCEPT !.snapshot = DetectAll(flow.connected, thrown, Detection)])
      PROVE  GuidedTypes'
  <2> DEFINE f == [Continues EXCEPT !.snapshot = DetectAll(flow.connected, thrown, Detection)]
  <2>1. FlowTyped(f)
    <3>1. DetectAll(flow.connected, thrown, Detection) \in [Components -> States]
      BY DetectsStates, DetectAllTyped DEF GuidedTypes, OutsideTyped
    <3> QED BY <1>3, <3>1, SnapshotTyped
  <2>2. FlowGoes(f)
    BY <1>5
  <2> HIDE DEF f
  <2> QED BY <1>1, <1>2, <2>1, <2>2, FlowStays
<1> QED BY <1>4, <1>5 DEF CallerCompletes

LEMMA PanelTypes ==
  ASSUME GuidedTypes, PanelMissing \/ AskPanelCredentials \/ Authenticate
  PROVE  GuidedTypes'
<1>1. FlowTyped(flow) /\ FlowTyped(Halts) /\ flow.at \notin Ended
  BY HaltsTyped, NotEnded DEF GuidedTypes, PanelMissing, AskPanelCredentials, Authenticate, At
<1>2. CASE PanelMissing
  BY <1>1, <1>2, OnlyFlowStays DEF PanelMissing
<1>3. CASE AskPanelCredentials
  <2>1. \/ flow.tries < 4 /\ \E key \in PanelKeys :
             OnlyFlow([flow EXCEPT !.secret = key, !.tries = flow.tries + 1])
        \/ OnlyFlow([flow EXCEPT !.tries = 1])
        \/ OnlyFlow(Halts)
    BY <1>3 DEF AskPanelCredentials
  <2>2. ASSUME NEW key \in PanelKeys, flow.tries < 4,
               OnlyFlow([flow EXCEPT !.secret = key, !.tries = flow.tries + 1])
        PROVE  GuidedTypes'
    <3>1. flow.tries + 1 \in 0..4
      BY <1>1, <2>2 DEF FlowTyped
    <3>2. FlowTyped([flow EXCEPT !.secret = key, !.tries = flow.tries + 1])
      BY <1>1, <3>1, AskedTyped
    <3> QED BY <2>2, <3>2, OnlyFlowStays
  <2>3. FlowTyped([flow EXCEPT !.tries = 1])
    BY <1>1, TriesTyped
  <2> QED BY <1>1, <2>1, <2>2, <2>3, OnlyFlowStays
<1>4. CASE Authenticate
  <2>1. \/ OnlyFlow([flow EXCEPT !.secret = NoSecret]) \/ OnlyFlow(Halts)
        \/ UNCHANGED <<machine, token>> /\ Promote("xui", panelKey)
    BY <1>4 DEF Authenticate
  <2>2. FlowTyped([flow EXCEPT !.secret = NoSecret])
    BY <1>1, SecretTyped
  <2>3. CASE UNCHANGED <<machine, token>> /\ Promote("xui", panelKey)
    BY <1>1, <2>3, PromoteTypes DEF GuidedTypes, OutsideTyped
  <2> QED BY <1>1, <2>1, <2>2, <2>3, OnlyFlowStays
<1> QED BY <1>2, <1>3, <1>4

LEMMA TokenTypes ==
  ASSUME GuidedTypes, CheckStoredToken \/ PromptTelegramToken
  PROVE  GuidedTypes'
<1>1. FlowTyped(flow) /\ FlowTyped(Halts) /\ flow.at \notin Ended
  BY HaltsTyped, NotEnded DEF GuidedTypes, CheckStoredToken, PromptTelegramToken, At
<1>2. CASE CheckStoredToken
  <2>1. CASE UNCHANGED <<machine, token>> /\ GetMe(token)
    BY <1>1, <2>1, PromoteTypes DEF GetMe, GuidedTypes, OutsideTyped
  <2>2. FlowTyped([flow EXCEPT !.tries = 1])
    BY <1>1, TriesTyped
  <2> QED BY <1>2, <2>1, <2>2, OnlyFlowStays DEF CheckStoredToken
<1>3. CASE PromptTelegramToken
  <2> DEFINE n == IF flow.tries = 0 THEN 2 ELSE flow.tries + 1
  <2>1. \/ /\ flow.tries < 4
           /\ \E t \in Tokens :
                /\ token' = t
                /\ machine' = [machine EXCEPT !.env = IF machine.env = "none" THEN "partial"
                                                      ELSE machine.env]
                /\ GetMe(t)
        \/ flow.tries < 4 /\ OnlyFlow([flow EXCEPT !.tries = n])
        \/ OnlyFlow(Halts)
    BY <1>3 DEF PromptTelegramToken
  <2>2. ASSUME NEW t \in Tokens, token' = t, GetMe(t),
               machine' = [machine EXCEPT !.env = IF machine.env = "none" THEN "partial"
                                                  ELSE machine.env]
        PROVE  GuidedTypes'
    <3>1. machine' \in Machine
      BY <2>2 DEF GuidedTypes, OutsideTyped, Machine
    <3> QED BY <1>1, <2>2, <3>1, PromoteTypes DEF GetMe
  <2>3. CASE flow.tries < 4 /\ OnlyFlow([flow EXCEPT !.tries = n])
    <3>1. n \in 0..4
      BY <1>1, <2>3 DEF FlowTyped
    <3> HIDE DEF n
    <3>2. FlowTyped([flow EXCEPT !.tries = n])
      BY <1>1, <3>1, TriesTyped
    <3> QED BY <2>3, <3>2, OnlyFlowStays
  <2> HIDE DEF n
  <2> QED BY <1>1, <2>1, <2>2, <2>3, OnlyFlowStays
<1> QED BY <1>2, <1>3

LEMMA WorldTypes ==
  ASSUME GuidedTypes, FlowKilled \/ PanelPasswordChanges \/ TokenRevoked \/ UNCHANGED guidedVars
  PROVE  GuidedTypes'
<1>1. CASE FlowKilled
  BY <1>1, NoFlowTyped, OnlyFlowStays DEF FlowKilled, GuidedTypes, FlowTyped
<1>2. CASE PanelPasswordChanges \/ TokenRevoked
  <2>1. /\ flow' = flow /\ machine' = machine /\ token' = token /\ good' \subseteq good
        /\ panelKey' \in {panelKey} \cup PanelKeys
        /\ changes' = changes + 1 /\ changes < MaxChanges
    BY <1>2 DEF PanelPasswordChanges, TokenRevoked
  <2>2. changes' \in 0..MaxChanges
    BY <2>1, GuidedInstallAssumption DEF GuidedTypes, OutsideTyped
  <2> QED BY <2>1, <2>2 DEF GuidedTypes, OutsideTyped, FlowTyped, IsFlow
<1>3. CASE UNCHANGED guidedVars
  BY <1>3 DEF guidedVars, GuidedTypes, OutsideTyped, FlowTyped, IsFlow
<1> QED BY <1>1, <1>2, <1>3

LEMMA GuidedTypesStart == GuidedInit => GuidedTypes
<1> SUFFICES ASSUME GuidedInit PROVE GuidedTypes
  OBVIOUS
<1>1. FlowTyped(flow)
  BY NoFlowTyped, GuidedInstallAssumption DEF GuidedInit
<1>2. OutsideTyped
  BY GuidedInstallAssumption, MachinesAssumption DEF GuidedInit, OutsideTyped
<1> QED BY <1>1, <1>2 DEF GuidedTypes

LEMMA GuidedTypesKeep == GuidedTypes /\ [GuidedNext]_guidedVars => GuidedTypes'
BY BeginTypes, EarlyTypes, CallerTypes, PanelTypes, TokenTypes, WorldTypes DEF GuidedNext

LEMMA GuidedTypesHold == GuidedTypes => GuidedTypeOK
BY DEF GuidedTypes, FlowTyped, OutsideTyped, GuidedTypeOK

-----------------------------------------------------------------------------
(* The three programs side by side.                                        *)
InstallationInv ==
  /\ scenario \in {"installer", "database", "guided"}
  /\ InstallerInv /\ SelectionInv /\ SelectionTypes /\ GuidedTypes

\* A program that is not the scenario's keeps its invariant by standing still.
LEMMA OneProgramMoves ==
  ASSUME [InstallationNext]_installationVars
  PROVE  /\ UNCHANGED scenario
         /\ [InstallerNext]_installerVars /\ [SelectionNext]_selectionVars
         /\ [GuidedNext]_guidedVars
BY DEF InstallationNext, installationVars

LEMMA InstallationStart == InstallationInit => InstallationInv
BY InstallerStarts, InitSelection, SelectionTypesStart, GuidedTypesStart
   DEF InstallationInit, InstallationInv

LEMMA InstallationKeeps ==
  InstallationInv /\ [InstallationNext]_installationVars => InstallationInv'
<1> SUFFICES ASSUME InstallationInv, [InstallationNext]_installationVars PROVE InstallationInv'
  OBVIOUS
<1>1. InstallerInv'
  BY OneProgramMoves, InstallerKeeps DEF InstallationInv
<1>2. SelectionInv' /\ SelectionTypes'
  BY OneProgramMoves, NextSelection, SelectionTypesKeep DEF InstallationInv
<1>3. GuidedTypes'
  BY OneProgramMoves, GuidedTypesKeep DEF InstallationInv
<1> QED BY <1>1, <1>2, <1>3, OneProgramMoves DEF InstallationInv

\* Whatever is started, killed, answered or changed in the meantime, the installer, the
\* scripts that choose the database and the guided flow keep the types of the files,
\* secrets and containers they work on, and of what they remember of them.
THEOREM InstallationTypesKept == InstallationSpec => []InstallationTypeOK
<1>1. InstallationInv => InstallationTypeOK
  <2> SUFFICES ASSUME InstallationInv PROVE InstallationTypeOK
    OBVIOUS
  <2>1. InstallerTypeOK /\ SelectionTypeOK /\ GuidedTypeOK
    BY InstallerTypesHold, SelectionTypesHold, GuidedTypesHold DEF InstallationInv
  <2>2. scenario \in {"installer", "database", "guided"}
    BY DEF InstallationInv
  <2> QED BY <2>1, <2>2 DEF InstallationTypeOK
<1> QED BY InstallationStart, InstallationKeeps, <1>1, PTL DEF InstallationSpec
=============================================================================
