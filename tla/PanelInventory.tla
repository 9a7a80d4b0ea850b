--------------------------- MODULE PanelInventory ---------------------------
(***************************************************************************)
(* Which panels there are and what inbounds each offers: PanelsService,    *)
(* ServersService, PanelInboundsService and PanelInstallerService.         *)
(* Provisioning selects its target from these rows.                        *)
(*                                                                         *)
(* A synchronisation lists a panel's inbounds over the network and commits *)
(* the list in one transaction. Calls of one process for one panel share   *)
(* the synchronisation that is under way; the installer's scripts run in a *)
(* process of their own and know nothing of the application's.             *)
(*                                                                         *)
(* What a panel lists is a number, its edition: the rows of inbound_configs*)
(* are those of the edition last committed. Rows that two processes commit *)
(* at the same moment may mix two editions; here the transaction is one    *)
(* step. Countries, cities and health logs are left out.                   *)
(***************************************************************************)
EXTENDS Naturals

CONSTANTS
  MaxRegistered,      \* bound: rows of vpn_panels, numbered as they are created
  Addresses,          \* baseUrls
  HostOf,             \* the host of an address, servers.hostname
  Syncers,            \* requests and scripts that may run at the same time
  ProcessOf,          \* the process of each
  MaxEdition,         \* bound: how often what a panel lists changes
  Usable,             \* editions with an eligible inbound
  NoPanel, NoServer, NoSyncer

Registered == 1..MaxRegistered
Hosts == {HostOf[a] : a \in Addresses}
Processes == {ProcessOf[s] : s \in Syncers}

ASSUME InventoryAssumption ==
  /\ MaxRegistered \in Nat /\ MaxEdition \in Nat /\ Usable \subseteq 0..MaxEdition
  /\ Addresses # {}
  /\ NoPanel \notin Registered /\ NoServer \notin Registered /\ NoSyncer \notin Syncers

VARIABLES
  registered,  \* vpn_panels: address, status and health of a row; NoPanel without
  serves,      \* servers: the panel each host is bound to, NoServer without a row
  rowsFrom,    \* inbound_configs of a panel: the edition they show, NoPanel without rows
  edition,     \* external: what the panels list now
  syncer,      \* volatile: what each call is doing
  latest       \* history: the newest edition each process has committed for a panel

inventoryVars == <<registered, serves, rowsFrom, edition, syncer, latest>>

Editions == 0..MaxEdition
Health == {"UNKNOWN", "HEALTHY", "UNHEALTHY", "AUTH_REQUIRED"}
PanelRow == [address : Addresses, active : BOOLEAN, health : Health]
SyncSteps == {"idle", "panel", "server", "probe", "sync", "list", "commit", "joined", "health"}
SyncJob == [step : SyncSteps,
            kind : {"none", "request", "install", "drift"},
            panel : Registered \cup {NoPanel},
            address : Addresses,
            with : Syncers \cup {NoSyncer},  \* the call whose synchronisation it shares
            read : Editions,                 \* what the panel listed
            good : BOOLEAN]                  \* it committed, with an eligible inbound
Asleep == [step |-> "idle", kind |-> "none", panel |-> NoPanel,
           address |-> CHOOSE a \in Addresses : TRUE, with |-> NoSyncer, read |-> 0,
           good |-> FALSE]

InventoryTypeOK ==
  /\ registered \in [Registered -> PanelRow \cup {NoPanel}]
  /\ serves \in [Hosts -> Registered \cup {NoServer}]
  /\ rowsFrom \in [Registered -> Editions \cup {NoPanel}]
  /\ edition \in Editions
  /\ syncer \in [Syncers -> SyncJob]
  /\ latest \in [Processes \X Registered -> Editions]

InventoryInit ==
  /\ registered = [p \in Registered |-> NoPanel]
  /\ serves = [h \in Hosts |-> NoServer]
  /\ rowsFrom = [p \in Registered |-> NoPanel]
  /\ edition = 0
  /\ syncer = [s \in Syncers |-> Asleep]
  /\ latest = [x \in Processes \X Registered |-> 0]

Exists(p) == p \in Registered /\ registered[p] # NoPanel
Active(p) == Exists(p) /\ registered[p].active
ServersOf(p) == {h \in Hosts : serves[h] = p}
\* findFirst, orderBy createdAt asc.
Oldest(ps, none) == IF ps = {} THEN none ELSE CHOOSE p \in ps : \A q \in ps : p <= q
SyncerAt(s, step) == syncer[s].step = step
PanelOf(s) == syncer[s].panel
SyncerGoes(s, step) == syncer' = [syncer EXCEPT ![s].step = step]
Sleeps(s) == syncer' = [syncer EXCEPT ![s] = Asleep]
Inventory == <<registered, serves, rowsFrom>>
Elsewhere == UNCHANGED <<edition, latest>>

\* A create takes the next number, which nothing refers to.
Unregistered == {p \in Registered : \A q \in Registered :
                   q >= p => registered[q] = NoPanel /\ \A s \in Syncers : PanelOf(s) # q}
NextPanel == Oldest(Unregistered, NoPanel)
NewPanel(p, a, active) ==
  registered' = [registered EXCEPT ![p] = [address |-> a, active |-> active, health |-> "UNKNOWN"]]
SetHealth(p, health) ==
  registered' = IF Exists(p) THEN [registered EXCEPT ![p].health = health] ELSE registered

-----------------------------------------------------------------------------
(* PanelsService and ServersService: single statements; the count of a     *)
(* panel's servers and its deletion are one step here.                     *)
CreatePanel(a) ==
  /\ NextPanel # NoPanel
  /\ \E active \in BOOLEAN : NewPanel(NextPanel, a, active)
  /\ UNCHANGED <<serves, rowsFrom, syncer>> /\ Elsewhere

UpdatePanel(p, a, active) ==
  /\ Exists(p)
  /\ registered' = [registered EXCEPT ![p] = [@ EXCEPT !.address = a, !.active = active]]
  /\ UNCHANGED <<serves, rowsFrom, syncer>> /\ Elsewhere

DeletePanel(p) ==
  /\ Exists(p) /\ ServersOf(p) = {}
  /\ registered' = [registered EXCEPT ![p] = NoPanel]
  /\ rowsFrom' = [rowsFrom EXCEPT ![p] = NoPanel]
  /\ UNCHANGED <<serves, syncer>> /\ Elsewhere

CheckHealth(p) ==
  /\ Exists(p)
  /\ \E health \in {"HEALTHY", "UNHEALTHY"} : SetHealth(p, health)
  /\ UNCHANGED <<serves, rowsFrom, syncer>> /\ Elsewhere

\* servers.hostname is unique: create and update fail on a bound host.
CreateServer(h, p) ==
  /\ Exists(p) /\ serves[h] = NoServer
  /\ serves' = [serves EXCEPT ![h] = p]
  /\ UNCHANGED <<registered, rowsFrom, syncer>> /\ Elsewhere

UpdateServer(h, g, p) ==
  /\ serves[h] # NoServer /\ Exists(p) /\ g # h => serves[g] = NoServer
  /\ serves' = [serves EXCEPT ![h] = NoServer, ![g] = p]
  /\ UNCHANGED <<registered, rowsFrom, syncer>> /\ Elsewhere

\* onDelete: Cascade takes the inbounds stored under the server: its panel's,
\* or those of the panel it was moved from.
DeleteServer(h) ==
  /\ serves[h] # NoServer
  /\ serves' = [serves EXCEPT ![h] = NoServer]
  /\ \E stored \in SUBSET Registered :
       rowsFrom' = [p \in Registered |-> IF p \in stored THEN NoPanel ELSE rowsFrom[p]]
  /\ UNCHANGED <<registered, syncer>> /\ Elsewhere

InboundsChange ==
  /\ edition < MaxEdition /\ edition' = edition + 1
  /\ UNCHANGED <<Inventory, syncer, latest>>

-----------------------------------------------------------------------------
(* reconcileXui: the panel at the address, its server, the inbounds, the   *)
(* health; each an await of its own.                                       *)
StartSync(s, p) ==
  /\ SyncerAt(s, "idle")
  /\ syncer' = [syncer EXCEPT ![s] = [Asleep EXCEPT !.step = "sync", !.kind = "request",
                                                    !.panel = p]]
  /\ UNCHANGED Inventory /\ Elsewhere

StartReconcile(s, kind, a) ==
  /\ SyncerAt(s, "idle")
  /\ syncer' = [syncer EXCEPT ![s] = [Asleep EXCEPT !.kind = kind, !.address = a,
       !.step = IF kind = "install" THEN "panel" ELSE "probe"]]
  /\ UNCHANGED Inventory /\ Elsewhere

PanelsAt(a) == {p \in Registered : Exists(p) /\ registered[p].address = a}

ReconcilePanel(s) ==
  LET a == syncer[s].address
      p == Oldest(PanelsAt(a), NextPanel)
  IN /\ SyncerAt(s, "panel") /\ p # NoPanel
     /\ NewPanel(p, a, TRUE)
     /\ syncer' = [syncer EXCEPT ![s] = [@ EXCEPT !.step = "server", !.panel = p]]
     /\ UNCHANGED <<serves, rowsFrom>> /\ Elsewhere

\* The oldest server of the panel gets the host; without one it is created;
\* a host that another server has ends the call.
BindServer(h, p) ==
  \/ h \in ServersOf(p) /\ UNCHANGED serves
  \/ /\ serves[h] = NoServer
     /\ IF ServersOf(p) = {} THEN serves' = [serves EXCEPT ![h] = p]
        ELSE \E g \in ServersOf(p) : serves' = [serves EXCEPT ![g] = NoServer, ![h] = p]

ReconcileServer(s) ==
  /\ SyncerAt(s, "server")
  /\ \/ /\ Exists(PanelOf(s)) /\ BindServer(HostOf[syncer[s].address], PanelOf(s))
        /\ SyncerGoes(s, "sync")
     \/ Sleeps(s) /\ UNCHANGED serves
  /\ UNCHANGED <<registered, rowsFrom>> /\ Elsewhere

\* reconcileXuiDrift: the oldest panel's address is replaced once the stored
\* credential has been accepted at the new one.
ProbeDrift(s) ==
  LET p == Oldest({q \in Registered : Exists(q)}, NoPanel)
  IN /\ SyncerAt(s, "probe")
     /\ \/ /\ p # NoPanel /\ Active(p)
           /\ registered' = [registered EXCEPT ![p].address = syncer[s].address]
           /\ syncer' = [syncer EXCEPT ![s] = [@ EXCEPT !.step = "sync", !.panel = p]]
        \/ /\ p # NoPanel /\ Active(p)
           /\ \E health \in {"AUTH_REQUIRED", "UNHEALTHY"} : SetHealth(p, health)
           /\ Sleeps(s)
        \/ /\ ~Active(p) /\ Sleeps(s) /\ UNCHANGED registered
     /\ UNCHANGED <<serves, rowsFrom>> /\ Elsewhere

\* Mutant: every call lists and commits for itself.
NothingActive(s) == {}

\* activeSyncs.get(id) of the call's process.
ActiveSyncs(s) ==
  {t \in Syncers : /\ ProcessOf[t] = ProcessOf[s] /\ PanelOf(t) = PanelOf(s)
                   /\ syncer[t].step \in {"list", "commit"}}

JoinActive(s) ==
  /\ SyncerAt(s, "sync")
  /\ \E t \in ActiveSyncs(s) :
       syncer' = [syncer EXCEPT ![s] = [@ EXCEPT !.step = "joined", !.with = t]]
  /\ UNCHANGED Inventory /\ Elsewhere

\* After a synchronisation a request answers, a reconciliation records it;
\* the calls that shared it go on with its result.
Concluded(s, good) ==
  syncer' = [t \in Syncers |->
    IF t # s /\ ~(SyncerAt(t, "joined") /\ syncer[t].with = s) THEN syncer[t]
    ELSE IF syncer[t].kind = "request" THEN Asleep
    ELSE [syncer[t] EXCEPT !.step = "health", !.good = good, !.with = NoSyncer]]

BeginSync(s) ==
  /\ SyncerAt(s, "sync") /\ ActiveSyncs(s) = {}
  /\ IF Active(PanelOf(s)) /\ ServersOf(PanelOf(s)) # {}
     THEN SyncerGoes(s, "list") ELSE Concluded(s, FALSE)
  /\ UNCHANGED Inventory /\ Elsewhere

ListInbounds(s) ==
  /\ SyncerAt(s, "list")
  /\ \/ syncer' = [syncer EXCEPT ![s] = [@ EXCEPT !.step = "commit", !.read = edition]]
     \/ Concluded(s, FALSE)
  /\ UNCHANGED Inventory /\ Elsewhere

\* Fails if the panel or its server is gone.
CommitInbounds(s) ==
  LET p == PanelOf(s)
  IN /\ SyncerAt(s, "commit")
     /\ \/ /\ Exists(p) /\ ServersOf(p) # {}
           /\ rowsFrom' = [rowsFrom EXCEPT ![p] = syncer[s].read]
           /\ latest' = [latest EXCEPT ![<<ProcessOf[s], p>>] = syncer[s].read]
           /\ Concluded(s, syncer[s].read \in Usable)
        \/ Concluded(s, FALSE) /\ UNCHANGED <<rowsFrom, latest>>
     /\ UNCHANGED <<registered, serves, edition>>

RecordHealth(s) ==
  /\ SyncerAt(s, "health")
  /\ SetHealth(PanelOf(s), IF syncer[s].good THEN "HEALTHY" ELSE "UNHEALTHY")
  /\ Sleeps(s)
  /\ UNCHANGED <<serves, rowsFrom>> /\ Elsewhere

ProcessEnds(process) ==
  /\ syncer' = [s \in Syncers |-> IF ProcessOf[s] = process THEN Asleep ELSE syncer[s]]
  /\ UNCHANGED Inventory /\ Elsewhere

SyncStep(s) ==
  \/ ReconcilePanel(s) \/ ReconcileServer(s) \/ ProbeDrift(s) \/ JoinActive(s)
  \/ BeginSync(s) \/ ListInbounds(s) \/ CommitInbounds(s) \/ RecordHealth(s)

AdministratorStep ==
  \/ \E a \in Addresses : CreatePanel(a)
  \/ \E p \in Registered : DeletePanel(p) \/ CheckHealth(p)
  \/ \E p \in Registered, a \in Addresses, active \in BOOLEAN : UpdatePanel(p, a, active)
  \/ \E h \in Hosts, p \in Registered :
       CreateServer(h, p) \/ \E g \in Hosts : UpdateServer(h, g, p)
  \/ \E h \in Hosts : DeleteServer(h)

InventoryNext ==
  \/ AdministratorStep \/ InboundsChange
  \/ \E s \in Syncers : SyncStep(s) \/ \E p \in Registered : StartSync(s, p)
  \/ \E s \in Syncers, kind \in {"install", "drift"}, a \in Addresses : StartReconcile(s, kind, a)
  \/ \E process \in Processes : ProcessEnds(process)

InventorySpec == InventoryInit /\ [][InventoryNext]_inventoryVars

-----------------------------------------------------------------------------
(* "This coalesces work in one app process": however many administrators   *)
(* and reconciliations ask at once, a process never puts an older listing  *)
(* over a newer one it had already committed, although nothing orders the  *)
(* answers of the panel and the commits themselves.                        *)
ListingsDoNotGoBack ==
  [][\A x \in Processes \X Registered : latest[x] <= latest'[x]]_inventoryVars
=============================================================================
