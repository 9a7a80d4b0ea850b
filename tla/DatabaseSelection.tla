-------------------------- MODULE DatabaseSelection --------------------------
(***************************************************************************)
(* Which database the application opens.  Three programs decide it from    *)
(* the same two files: docker/start.sh, the application's PrismaService    *)
(* with database-manager.js, and the operator's scripts of cli/installer/  *)
(* (preflight, install-db, db-decision, resolve-db, confirm-xui,           *)
(* register-to-saas), which share installer-state.json.  The command       *)
(* "infrastructure" knows nothing of that file, and writes .env itself.    *)
(*                                                                         *)
(* state-manager.js and database-manager.js write that file in different   *)
(* forms, every writer replaces it whole, and PrismaService reads it twice *)
(* on its way up: once in its constructor, once in resolveRuntime.         *)
(***************************************************************************)
EXTENDS Naturals, Sequences

CONSTANTS
  Urls,          \* data sources an entry may name
  LocalUrl,      \* what start.sh builds from the POSTGRES_ settings
  GeneratedUrl,  \* the generated compose file's database
  NoUrl,         \* no data source
  Redacted,      \* credentials the state file holds as a placeholder
  NoEntry,       \* nothing is selected
  MaxSuggested,  \* bound: entries of registrySuggested
  MaxBoots       \* bound: how often the application is started

ASSUME DatabaseSelectionAssumption ==
  /\ {LocalUrl, GeneratedUrl} \subseteq Urls
  /\ Urls \cap {NoUrl, Redacted, "empty", "absent"} = {}
  /\ MaxSuggested \in Nat /\ MaxBoots \in Nat

VARIABLES
  envLine,    \* DATABASE_URL in .env: a URL, "empty" or "absent"
  shared,     \* DATABASE_URL of the shared env file
  stateKey,   \* how state-manager.js saves: "plain", "sealed" or "redacted"
  stateFile,  \* installer-state.json
  answers,    \* data sources that accept a login
  migrated,   \* data sources whose migrations start.sh has applied
  tool,       \* the operator's script
  app         \* the application's process

selectionVars == <<envLine, shared, stateKey, stateFile, answers, migrated, tool, app>>

Entry == [url : Urls \cup {NoUrl, Redacted}, managed : BOOLEAN]
Blank == [form |-> "plain", selected |-> NoEntry, suggested |-> << >>]
IdleTool == [at |-> "idle", held |-> Blank, entry |-> NoEntry, install |-> FALSE]
Down(boots) == [at |-> "down", shell |-> FALSE, env |-> NoUrl, url |-> NoUrl,
                chosen |-> NoEntry, unwritten |-> FALSE, disturbed |-> FALSE, boots |-> boots]

StateForm == [form : {"plain", "sealed"}, selected : Entry \cup {NoEntry}, suggested : Seq(Entry)]

SelectionTypeOK ==
  /\ envLine \in Urls \cup {"empty", "absent"}
  /\ shared \in Urls \cup {NoUrl}
  /\ stateKey \in {"plain", "sealed", "redacted"}
  /\ stateFile \in StateForm /\ Len(stateFile.suggested) <= MaxSuggested
  /\ answers \subseteq Urls /\ migrated \subseteq Urls
  /\ tool.at \in {"idle", "validating", "generating", "deciding", "choosing", "offering",
                  "pinning", "recorded", "starting", "posting", "installing",
                  "recreating"}
  /\ tool.held \in StateForm
  /\ app.at \in {"down", "starting", "constructed", "resolved", "connecting", "serving"}
  /\ app.url \in Urls \cup {NoUrl} /\ app.boots \in 0..MaxBoots

(* The template's .env has an empty DATABASE_URL line.                     *)
SelectionInit ==
  /\ envLine \in {"empty", "absent"}
  /\ shared \in {NoUrl, LocalUrl}
  /\ stateKey \in {"plain", "sealed", "redacted"}
  /\ stateFile = Blank
  /\ answers \in SUBSET (Urls \ {GeneratedUrl})
  /\ migrated = {}
  /\ tool = IdleTool
  /\ app = Down(0)

-----------------------------------------------------------------------------
(* The state file.  state-manager.js opens what it sealed; the loaders of  *)
(* database-manager.js and PrismaService parse plain JSON, and take a file *)
(* they cannot parse for an empty one.                                     *)
SmLoad == [stateFile EXCEPT !.form = "plain"]
DbmLoad == IF stateFile.form = "sealed" THEN Blank ELSE stateFile

Redact(e) == IF e = NoEntry \/ e.url = NoUrl THEN e ELSE [e EXCEPT !.url = Redacted]
RedactSecrets(state) ==
  [state EXCEPT !.selected = Redact(@),
                !.suggested = [i \in DOMAIN @ |-> Redact(@[i])]]

BootUnderway == app.at \in {"starting", "constructed", "resolved", "connecting"}
Disturbs == app' = IF BootUnderway THEN [app EXCEPT !.disturbed = TRUE] ELSE app

(* saveState of either module: the whole file is written.                  *)
WritesState(state) == stateFile' = state /\ Disturbs
SmSave(state) ==
  WritesState(CASE stateKey = "sealed"   -> [state EXCEPT !.form = "sealed"]
           [] stateKey = "redacted" -> RedactSecrets(state)
           [] OTHER                 -> state)

(* generateDatabaseUrl: null unless the entry has usable credentials.      *)
UrlOf(e) == IF e # NoEntry /\ e.url \in Urls THEN e.url ELSE NoUrl

(* Mutant: an entry without usable credentials is written, too.            *)
WriteEnvUnchecked(url, fails) ==
  envLine' = IF envLine = "absent" /\ ~fails THEN url ELSE envLine

(* writeEnvDatabaseUrl: any DATABASE_URL line counts, an empty one too; an *)
(* append that fails is reported in its result, which the callers log.     *)
WriteEnvDatabaseUrl(url, fails) ==
  envLine' = IF url \in Urls /\ envLine = "absent" /\ ~fails THEN url ELSE envLine

InEnvFile == IF envLine \in Urls THEN envLine ELSE NoUrl
FirstOf(a, b) == IF a # NoUrl THEN a ELSE b

-----------------------------------------------------------------------------
(* docker/start.sh.  The env files are loaded in order and the first value *)
(* of a variable stays; a DATABASE_URL that does not answer ends the       *)
(* script, and the container starts over.                                  *)
FromEnvFiles == FirstOf(shared, InEnvFile)
Boots(shell, env) ==
  app' = [Down(app.boots + 1) EXCEPT !.at = "starting", !.shell = shell, !.env = env]

UseDatabaseUrl ==
  /\ app.at = "down" /\ app.boots < MaxBoots
  /\ FromEnvFiles \in answers
  /\ migrated' = migrated \cup {FromEnvFiles}
  /\ Boots(TRUE, FromEnvFiles)
  /\ UNCHANGED <<envLine, shared, stateKey, stateFile, answers, tool>>

(* No DATABASE_URL: the local server is used, or started with Docker; the  *)
(* URL is appended to .env, or replaces the line that is there.            *)
PrepareLocalDatabase ==
  /\ app.at = "down" /\ app.boots < MaxBoots
  /\ FromEnvFiles = NoUrl
  /\ answers' = answers \cup {LocalUrl}
  /\ envLine' = LocalUrl
  /\ migrated' = migrated \cup {LocalUrl}
  /\ Boots(TRUE, LocalUrl)
  /\ UNCHANGED <<shared, stateKey, stateFile, tool>>

(* The application started without the script, its .env exported.          *)
StartDirectly ==
  /\ app.at = "down" /\ app.boots < MaxBoots
  /\ Boots(FALSE, InEnvFile)
  /\ UNCHANGED <<envLine, shared, stateKey, stateFile, answers, migrated, tool>>

-----------------------------------------------------------------------------
AppGoes(change) ==
  /\ app' = change
  /\ UNCHANGED <<shared, stateKey, stateFile, answers, migrated, tool>>

Suggested(state) == IF state.suggested = << >> THEN NoEntry ELSE Head(state.suggested)

(* The constructor's own reading of the file.  ConfigService has not       *)
(* loaded the shared env file yet: its onModuleInit runs after every       *)
(* constructor, so the third source PrismaService lists gives nothing.     *)
RegistryUrl ==
  LET sel == IF DbmLoad.selected # NoEntry THEN DbmLoad.selected ELSE Suggested(DbmLoad)
  IN UrlOf(sel)

ConstructPrisma ==
  /\ app.at = "starting"
  /\ AppGoes([app EXCEPT !.at = "constructed", !.url = FirstOf(app.env, RegistryUrl)])
  /\ UNCHANGED envLine

(* A resolver that ranks the suggestion above the operator's selection.    *)
SuggestedFirst(env, state) ==
  IF env # NoUrl THEN [url |-> env, managed |-> FALSE]
  ELSE IF Suggested(state) # NoEntry THEN Suggested(state) ELSE state.selected

(* resolveRuntime's precedence: environment, selection, suggestion.        *)
Resolved(env, state) ==
  IF env # NoUrl THEN [url |-> env, managed |-> FALSE]
  ELSE IF state.selected # NoEntry THEN state.selected ELSE Suggested(state)

(* onModuleInit calls resolveRuntime, which reads the file again and then  *)
(* probes what it chose.                                                   *)
ResolveRuntime ==
  /\ app.at = "constructed"
  /\ AppGoes([app EXCEPT !.at = "resolved", !.chosen = Resolved(app.env, DbmLoad)])
  /\ UNCHANGED envLine

(* After the probes: the choice is written to .env when nothing is there,  *)
(* and used when the constructor found no data source.  The boot goes on   *)
(* whether or not the write succeeded.                                     *)
PinRuntime(fails) ==
  /\ app.at = "resolved"
  /\ IF app.env = NoUrl THEN WriteEnvDatabaseUrl(UrlOf(app.chosen), fails)
                        ELSE ~fails /\ UNCHANGED envLine
  /\ AppGoes([app EXCEPT !.at = "connecting", !.url = FirstOf(@, UrlOf(app.chosen)),
                         !.chosen = NoEntry, !.unwritten = fails])

ConnectPrisma ==
  /\ app.at = "connecting" /\ app.url \in answers
  /\ AppGoes([app EXCEPT !.at = "serving"])
  /\ UNCHANGED envLine

(* No data source, or one that does not answer: onModuleInit throws.       *)
ConnectFails ==
  /\ app.at = "connecting" /\ app.url \notin answers
  /\ AppGoes(Down(app.boots)) /\ UNCHANGED envLine

AppStops ==
  /\ app.at # "down"
  /\ AppGoes(Down(app.boots)) /\ UNCHANGED envLine

-----------------------------------------------------------------------------
(* The operator's scripts, one at a time.                                  *)
ToolGoes(change) ==
  /\ tool' = change
  /\ UNCHANGED <<shared, stateKey, answers, migrated>>
OnlyTool(change) == ToolGoes(change) /\ UNCHANGED <<envLine, stateFile, app>>
Exits == IdleTool
Idle == tool.at = "idle"

(* preflight.js: its report becomes the whole state file.                  *)
RunPreflight ==
  /\ Idle /\ SmSave(Blank)
  /\ ToolGoes(tool) /\ UNCHANGED envLine

(* confirm-xui.js and detect-xui.js --record add the panel's address to    *)
(* the state they load; register-to-saas.js adds the answer it got to the  *)
(* state it loaded before the request.  What they add chooses no database. *)
ConfirmXui ==
  /\ Idle /\ SmSave(SmLoad)
  /\ ToolGoes(tool) /\ UNCHANGED envLine

RegisterToSaas ==
  /\ Idle /\ OnlyTool([tool EXCEPT !.at = "posting", !.held = SmLoad])
RegistrationAnswered ==
  /\ tool.at = "posting" /\ SmSave(tool.held)
  /\ ToolGoes(Exits) /\ UNCHANGED envLine

(* validate() loads the state, probes every entry, and writes back what it *)
(* loaded with the results; generateIsolated puts a managed entry with new *)
(* credentials in front of the suggestions.                                *)
Validates(at, state) == [tool EXCEPT !.at = at, !.held = state]
Generated == [url |-> GeneratedUrl, managed |-> TRUE]

RunResolveDb(at) ==
  /\ Idle /\ at \in {"validating", "generating"}
  /\ OnlyTool(Validates(at, DbmLoad))

AfterValidation ==
  IF ~tool.install THEN Exits
  ELSE [Exits EXCEPT !.install = TRUE,
                     !.at = IF tool.entry # NoEntry THEN "recorded"
                            ELSE IF tool.at = "generating" THEN "starting" ELSE "deciding"]
ValidationEnds ==
  /\ \/ tool.at = "validating" /\ WritesState(tool.held)
     \/ /\ tool.at = "generating" /\ Len(tool.held.suggested) < MaxSuggested
        /\ WritesState([tool.held EXCEPT !.suggested = <<Generated>> \o @])
  /\ ToolGoes(AfterValidation) /\ UNCHANGED envLine

(* persist() selects an entry; db-decision.js then validates it alone.     *)
Selecting(e) == [DbmLoad EXCEPT !.selected = e]
Persist(e) == WritesState(Selecting(e)) /\ UNCHANGED envLine

RunInstallDb ==
  /\ Idle
  /\ OnlyTool([Validates("validating", DbmLoad) EXCEPT !.install = TRUE])

(* install-db.js reuses .env's DATABASE_URL when it has one.               *)
ReuseEnvLine ==
  /\ tool.at = "deciding" /\ InEnvFile # NoUrl
  /\ Persist([url |-> InEnvFile, managed |-> FALSE]) /\ ToolGoes(Exits)

(* pickBestCandidate: credentials and a probe that answered are needed to  *)
(* pass its threshold; a login outweighs everything else.  The entries are *)
(* the scripts' own, so none is owned by the panel.                        *)
Score(e, reached) ==
  (IF e.url # NoUrl THEN 20 ELSE 0) + (IF e.managed THEN 0 ELSE 5)
    + (IF e.url \in answers THEN 60 ELSE IF reached THEN 10 ELSE 0)
PickBestCandidate(reached) ==
  LET offered == {e \in {SmLoad.suggested[i] : i \in DOMAIN SmLoad.suggested} : Score(e, reached) > 25}
  IN {e \in offered : \A f \in offered : Score(f, reached) <= Score(e, reached)}

AcceptCandidate ==
  /\ tool.at = "deciding" /\ InEnvFile = NoUrl
  /\ \E reached \in BOOLEAN : \E e \in PickBestCandidate(reached) :
       IF e.url \in Urls
       THEN Persist(e) /\ ToolGoes([tool EXCEPT !.at = "pinning", !.entry = e])
       ELSE OnlyTool([tool EXCEPT !.at = "offering"])
NoCandidate ==
  /\ tool.at = "deciding" /\ InEnvFile = NoUrl
  /\ \E reached \in BOOLEAN : PickBestCandidate(reached) = {}
  /\ OnlyTool([tool EXCEPT !.at = "choosing", !.held = SmLoad])

(* A candidate whose credentials are only a placeholder.                   *)
AnswerOffer ==
  /\ tool.at = "offering"
  /\ \/ OnlyTool([tool EXCEPT !.at = "choosing", !.held = SmLoad])
     \/ OnlyTool(Validates("generating", DbmLoad))
     \/ OnlyTool(Exits)

(* docker compose up of the generated file, then the entry is looked up.   *)
StartGenerated ==
  /\ tool.at = "starting"
  /\ \E e \in {SmLoad.suggested[i] : i \in DOMAIN SmLoad.suggested} :
       /\ UrlOf(e) = GeneratedUrl
       /\ Persist(e)
       /\ tool' = [tool EXCEPT !.at = "pinning", !.entry = e]
  /\ answers' = answers \cup {GeneratedUrl}
  /\ UNCHANGED <<shared, stateKey, migrated>>

PinSelection ==
  /\ tool.at = "pinning"
  /\ \E fails \in BOOLEAN : WriteEnvDatabaseUrl(UrlOf(tool.entry), fails)
  /\ Disturbs
  /\ ToolGoes(Exits) /\ UNCHANGED stateFile

(* db-decision.js lists what the state held when it started; the operator  *)
(* reuses an entry, types a data source in, or asks for a generated one.   *)
RunDbDecision == Idle /\ OnlyTool([tool EXCEPT !.at = "choosing", !.held = SmLoad])
Manual(url) == [url |-> url, managed |-> FALSE]
DatabaseChoices ==
  {e \in {tool.held.suggested[i] : i \in DOMAIN tool.held.suggested} : e.url # NoUrl}
    \cup {Manual(u) : u \in Urls}
DecideDatabase ==
  /\ tool.at = "choosing"
  /\ \/ \E e \in DatabaseChoices :
          /\ Persist(e)
          /\ ToolGoes([Validates("validating", Selecting(e)) EXCEPT !.entry = e])
     \/ OnlyTool([Validates("generating", DbmLoad) EXCEPT !.install = FALSE])
     \/ OnlyTool(Exits)

(* install-db.js after db-decision.js: the selection it finds is written.  *)
RecordDecision ==
  /\ tool.at = "recorded"
  /\ \E fails \in BOOLEAN : WriteEnvDatabaseUrl(UrlOf(SmLoad.selected), fails)
  /\ Disturbs
  /\ ToolGoes(Exits) /\ UNCHANGED stateFile

ToolKilled == ~Idle /\ OnlyTool(Exits)

-----------------------------------------------------------------------------
(* InfrastructureCommand of cli/commands.  A backup reads, and a restore   *)
(* writes rows: neither changes which data source is on record.            *)
Uproots == app' = IF app.at = "down" THEN app ELSE [app EXCEPT !.disturbed = TRUE]

\* readMergedEnv: .env hides the shared file, with an empty line too.
MergedUrl ==
  CASE envLine \in Urls                     -> envLine
    [] envLine = "absent" /\ shared # NoUrl -> shared
    [] OTHER                                -> LocalUrl

\* updateProjectEnv and upsertEnvValue replace the line that is there.
UpdateProjectEnv(url) == envLine' = url /\ Uproots

\* checkDatabaseUrl logs in to the data source or, failing that, to its
\* server's own database: the data source itself may be missing.
CheckedUrls == answers \cup (Urls \ {GeneratedUrl})

ConnectExisting(url) ==
  /\ Idle /\ url \in CheckedUrls
  /\ UpdateProjectEnv(url)
  /\ ToolGoes(tool) /\ UNCHANGED stateFile

\* docker compose up; then waitForDatabase and ensureDatabaseExists.
InstallPostgreSQL ==
  /\ Idle
  /\ answers' = answers \cup {LocalUrl}
  /\ tool' = [tool EXCEPT !.at = "installing"]
  /\ UNCHANGED <<envLine, shared, stateKey, stateFile, migrated, app>>
WaitForDatabase ==
  /\ tool.at = "installing" /\ LocalUrl \in answers
  /\ UpdateProjectEnv(LocalUrl)
  /\ ToolGoes(Exits) /\ UNCHANGED stateFile

\* What is dropped is VPN_DATABASE, which the local data source names, on the
\* server of DATABASE_URL.
DropsDatabase(u) == answers' = answers \ {u} /\ migrated' = migrated \ {u} /\ Uproots
RecreateDatabase(u) ==
  /\ Idle /\ MergedUrl \in answers /\ u \in {MergedUrl, LocalUrl}
  /\ DropsDatabase(u)
  /\ tool' = [tool EXCEPT !.at = "recreating", !.entry = Manual(u)]
  /\ UNCHANGED <<envLine, shared, stateKey, stateFile>>
EnsureDatabaseExists ==
  /\ tool.at = "recreating"
  /\ answers' = answers \cup {tool.entry.url}
  /\ tool' = Exits
  /\ UNCHANGED <<envLine, shared, stateKey, stateFile, migrated, app>>

InfrastructureStep ==
  \/ \E u \in Urls : ConnectExisting(u) \/ RecreateDatabase(u)
  \/ InstallPostgreSQL \/ WaitForDatabase \/ EnsureDatabaseExists

(* The operator starts a database that was down.                           *)
DatabaseStarts(u) ==
  /\ u \notin answers /\ u # GeneratedUrl
  /\ answers' = answers \cup {u}
  /\ UNCHANGED <<envLine, shared, stateKey, stateFile, migrated, tool, app>>

AppStep ==
  \/ UseDatabaseUrl \/ PrepareLocalDatabase \/ StartDirectly
  \/ ConstructPrisma \/ ResolveRuntime \/ \E fails \in BOOLEAN : PinRuntime(fails)
  \/ ConnectPrisma \/ ConnectFails \/ AppStops
ToolStep ==
  \/ RunPreflight \/ ConfirmXui \/ RegisterToSaas \/ RegistrationAnswered
  \/ \E at \in {"validating", "generating"} : RunResolveDb(at)
  \/ RunInstallDb \/ RunDbDecision \/ ValidationEnds
  \/ ReuseEnvLine \/ AcceptCandidate \/ NoCandidate \/ AnswerOffer \/ StartGenerated
  \/ PinSelection \/ DecideDatabase \/ RecordDecision \/ ToolKilled
SelectionNext == AppStep \/ ToolStep \/ InfrastructureStep \/ \E u \in Urls : DatabaseStarts(u)

SelectionSpec == SelectionInit /\ [][SelectionNext]_selectionVars

-----------------------------------------------------------------------------
(* The application opens the database that is on record: the one start.sh  *)
(* has migrated, or, started without the script and without a DATABASE_URL, *)
(* the one the state file names as it connects, and while it serves the one *)
(* that its boot wrote to .env, so that the next boot opens it again.      *)
(* PrismaService's constructor and resolveRuntime work that out separately, *)
(* from two readings of a file that five scripts rewrite in three forms.   *)
(* Excepted are a boot during which a script changed the file and a process *)
(* that the operator took the database or the .env line from; and of what  *)
(* is written, a boot whose append failed, and an .env with the template's *)
(* empty line, which no boot fills.                                        *)
OpenedIsOnRecord ==
  /\ app.at = "connecting" /\ app.env = NoUrl => app.disturbed \/ app.url = RegistryUrl
  /\ app.at = "serving" =>
       IF app.env # NoUrl
       THEN app.url = app.env /\ (app.shell => app.url \in migrated \/ app.disturbed)
       ELSE app.disturbed \/ app.unwritten \/ envLine = "empty" \/ envLine = app.url

(* Not every database served is written down: PrismaService logs a failed  *)
(* write and connects all the same.  No configuration checks this; the     *)
(* README records it.                                                      *)
ServedIsWritten ==
  app.at = "serving" /\ app.env = NoUrl => app.disturbed \/ envLine = app.url
=============================================================================
