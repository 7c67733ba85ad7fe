-------------------------------- MODULE Apps --------------------------------
(***************************************************************************)
(* hasp app connect, install, run, shell and disconnect (app/appops with   *)
(* app_consumers.go and app_path.go): a saved profile in the vault, its    *)
(* launcher under $HASP_HOME/bin and the block in the shell's start-up     *)
(* file are three writes with rollbacks between them.  One app is          *)
(* modelled; its commands run one at a time.                               *)
(***************************************************************************)
EXTENDS Naturals, Sequences, FiniteSets, Functions

CONSTANTS
    Wishes,      \* what `app connect' is asked for
    VaultItems,  \* name -> [kind, lines]
    AliasOf,     \* project alias -> name
    Reviewed,    \* manifest target -> the wish it expands to, once reviewed
    FirstRC,     \* start-up files a shell may have: sequences of lines
    MaxAppCommands,
    MaxAppFailures

\* A mapping comes from --env, --file or --dotenv, or the same lists of a target.
WishFields == {"mappings", "dotenvEnv", "literal", "root", "install", "addToPath", "target"}
ASSUME AppsAssumption ==
    \A w \in Wishes \cup {Reviewed[t].wish : t \in DOMAIN Reviewed} :
        /\ DOMAIN w = WishFields
        /\ \A m \in w.mappings : m.delivery \in {"env", "file", "dotenv"}

VARIABLES
    app,        \* the saved AppConsumer, or NoApp
    items,      \* names of the vault items there are
    launcher,   \* the launcher's path: "none", "hasp" or "user"
    rc,         \* the shell's start-up file
    appCmd,     \* the command under way
    verdict,    \* history: how the last command that changes the profile ended,
                \* the profile it found, and whether every roll back succeeded
    received,   \* history: what the last command run was given, var -> what
    ranProfile, \* history: the profile it was run for
    appCommands, appFailures

appVars == <<app, items, launcher, rc, appCmd, verdict, received, ranProfile,
             appCommands, appFailures>>

NoApp == [bindings |-> {}, dotenvEnv |-> "", literal |-> {}, root |-> FALSE, launcher |-> FALSE, made |-> FALSE]
NoAppCmd == [op |-> "none", at |-> "", wish |-> "", profile |-> NoApp, before |-> NoApp]
NoVerdict == [ok |-> TRUE, before |-> NoApp, rolledBack |-> TRUE]

-----------------------------------------------------------------------------
(* The wish *)

\* normalizeAppReferences: an item's own name first, then the project's alias;
\* a reference written with @ is a name.
NamesItem(ref) == ref.name \in items
ByAlias(w, ref) == w.root /\ ~ref.at /\ ref.name \in DOMAIN AliasOf /\ AliasOf[ref.name] \in items
Resolves(w, ref) == NamesItem(ref) \/ ByAlias(w, ref)
normalized(w, ref) == IF NamesItem(ref) THEN ref.name ELSE AliasOf[ref.name]

\* appConsumerBindings: env and dotenv take kv items only.
appConsumerBindings(w) ==
    {[delivery |-> m.delivery, target |-> m.target, item |-> normalized(w, m.ref)] : m \in w.mappings}

KindsFit(bindings) == \A b \in bindings : b.delivery \in {"env", "dotenv"} => VaultItems[b.item].kind = "kv"

Targets(bindings, delivery) == {b.target : b \in {x \in bindings : x.delivery = delivery}}

OncePerTarget(bindings) ==
    \A b, c \in bindings : b.delivery = c.delivery /\ b.target = c.target => b = c

\* envmap.ValidateNames: no destination in two channels, none that HASP reserves.
ValidateNames(env, files, literal) ==
    /\ env \cap files = {} /\ (env \cup files) \cap literal = {}
    /\ \A name \in literal : name # "HASP_X"

validateAppMappings(p) ==
    LET env == Targets(p.bindings, "env")
        files == Targets(p.bindings, "file")
        dotenv == Targets(p.bindings, "dotenv")
    IN  /\ OncePerTarget(p.bindings)
        /\ dotenv # {} => p.dotenvEnv # "" /\ p.dotenvEnv \notin files
        /\ ValidateNames(env, files \cup (IF dotenv = {} THEN {} ELSE {p.dotenvEnv}), p.literal)

Profile(w) == [bindings |-> appConsumerBindings(w), dotenvEnv |-> w.dotenvEnv, literal |-> w.literal,
               root |-> w.root, launcher |-> app.launcher, made |-> TRUE]

\* applyAppTargetConfig: a target is taken once reviewed and if nothing of it
\* lands in the workspace; it replaces the mappings and the literals.
applyAppTargetConfig(w) ==
    IF w.target = "" THEN w
    ELSE [Reviewed[w.target].wish EXCEPT !.install = w.install, !.addToPath = w.addToPath]

TargetUsable(w) ==
    w.target # "" => /\ w.root /\ w.mappings = {} /\ w.literal = {}
                     /\ w.target \in DOMAIN Reviewed /\ ~Reviewed[w.target].workspace

-----------------------------------------------------------------------------
(* The start-up file *)

\* upsertPathBlock puts the block in place of the old one, or at the end.
upsertPathBlock(lines) ==
    LET starts == {i \in 1..Len(lines) : lines[i] = ">>>"}
        ends   == {i \in 1..Len(lines) : lines[i] = "<<<"}
        First(S) == CHOOSE i \in S : \A j \in S : i <= j
    IN  IF starts # {} /\ ends # {} /\ First(ends) >= First(starts)
        THEN SubSeq(lines, 1, First(starts) - 1) \o <<">>>", "path", "<<<">>
                 \o SubSeq(lines, First(ends) + 1, Len(lines))
        ELSE lines \o <<">>>", "path", "<<<">>

-----------------------------------------------------------------------------
AppsInit ==
    /\ app = NoApp /\ items = DOMAIN VaultItems
    /\ launcher \in {"none", "user"} /\ rc \in FirstRC
    /\ appCmd = NoAppCmd /\ verdict = NoVerdict
    /\ received = <<>> /\ ranProfile = NoApp
    /\ appCommands = 0 /\ appFailures = 0

Ends(ok, rolledBack) ==
    /\ appCmd' = NoAppCmd
    /\ verdict' = [ok |-> ok, before |-> appCmd.before, rolledBack |-> verdict.rolledBack /\ rolledBack]

AppStep(at) == appCmd' = [appCmd EXCEPT !.at = at] /\ UNCHANGED verdict

AppBegins(c) ==
    /\ appCmd.op = "none" /\ appCommands < MaxAppCommands
    /\ appCommands' = appCommands + 1
    /\ appCmd' = [c EXCEPT !.before = app]
    /\ UNCHANGED <<app, items, launcher, rc, verdict, received, ranProfile, appFailures>>

\* appConnectHandler's checks of its flags.
appConnect(w) ==
    /\ w.target # "" => TargetUsable(w)
    /\ (\E m \in w.mappings : m.delivery = "dotenv") => w.dotenvEnv # ""
    /\ AppBegins([NoAppCmd EXCEPT !.op = "connect", !.at = "profile", !.wish = applyAppTargetConfig(w)])

\* connectAppConsumerWithHandle up to the profile.
BuildProfile ==
    LET w == appCmd.wish  p == Profile(w) IN
    /\ appCmd.at = "profile"
    /\ IF (\A m \in w.mappings : Resolves(w, m.ref)) /\ KindsFit(p.bindings) /\ validateAppMappings(p)
       THEN /\ appCmd' = [appCmd EXCEPT !.at = IF w.install THEN "plan" ELSE "upsert", !.profile = p]
            /\ UNCHANGED verdict
       ELSE Ends(FALSE, TRUE)
    /\ UNCHANGED <<app, items, launcher, rc, received, ranProfile, appCommands, appFailures>>

appInstall ==
    /\ app.made
    /\ AppBegins([NoAppCmd EXCEPT !.op = "install", !.at = "plan", !.profile = app,
                                  !.wish = [install |-> TRUE, addToPath |-> TRUE]])

\* planAppLauncher: a file of the user's is not overwritten.
planAppLauncher ==
    /\ appCmd.at = "plan"
    /\ IF launcher = "user" THEN Ends(FALSE, TRUE)
       ELSE appCmd' = [appCmd EXCEPT !.at = "upsert", !.profile.launcher = TRUE] /\ UNCHANGED verdict
    /\ UNCHANGED <<app, items, launcher, rc, received, ranProfile, appCommands, appFailures>>

UpsertAppConsumer ==
    /\ appCmd.at = "upsert"
    /\ app' = appCmd.profile
    /\ IF appCmd.wish.install THEN AppStep("launcher") ELSE Ends(TRUE, TRUE)
    /\ UNCHANGED <<items, launcher, rc, received, ranProfile, appCommands, appFailures>>

writePlannedAppLauncher ==
    /\ appCmd.at = "launcher"
    /\ launcher' = "hasp"
    /\ IF appCmd.wish.addToPath THEN AppStep("path") ELSE Ends(TRUE, TRUE)
    /\ UNCHANGED <<app, items, rc, received, ranProfile, appCommands, appFailures>>

ensureLauncherDirOnPath ==
    /\ appCmd.at = "path"
    /\ rc' = upsertPathBlock(rc)
    /\ Ends(TRUE, TRUE)
    /\ UNCHANGED <<app, items, launcher, received, ranProfile, appCommands, appFailures>>

-----------------------------------------------------------------------------
\* disconnect deletes the profile, then the launcher.
appDisconnect ==
    /\ app.made
    /\ AppBegins([NoAppCmd EXCEPT !.op = "disconnect", !.at = "delete"])

DeleteAppConsumer ==
    /\ appCmd.at = "delete"
    /\ app' = NoApp
    /\ IF appCmd.before.launcher THEN AppStep("remove") ELSE Ends(TRUE, TRUE)
    /\ UNCHANGED <<items, launcher, rc, received, ranProfile, appCommands, appFailures>>

RemoveLauncher ==
    /\ appCmd.at = "remove"
    /\ launcher' = "none"
    /\ Ends(TRUE, TRUE)
    /\ UNCHANGED <<app, items, rc, received, ranProfile, appCommands, appFailures>>

-----------------------------------------------------------------------------
(* Failures *)

\* A call before anything was written fails.
AppFailsEarly ==
    /\ appCmd.at \in {"profile", "plan", "upsert", "delete"} /\ appFailures < MaxAppFailures
    /\ appFailures' = appFailures + 1
    /\ Ends(FALSE, TRUE)
    /\ UNCHANGED <<app, items, launcher, rc, received, ranProfile, appCommands>>

\* One fails after the profile was written: what was there is put back.
rollbackAppConsumer_Deletes == NoApp
rollbackAppConsumer == IF appCmd.before.made THEN appCmd.before ELSE NoApp

AppFailsLate ==
    /\ appCmd.at \in {"launcher", "path", "remove"} /\ appFailures < MaxAppFailures
    /\ appFailures' = appFailures + 1
    /\ app' = rollbackAppConsumer
    /\ Ends(FALSE, TRUE)
    /\ UNCHANGED <<items, launcher, rc, received, ranProfile, appCommands>>

\* The roll back fails too, and the command says so.
RollbackFails ==
    /\ appCmd.at \in {"launcher", "path", "remove"} /\ appFailures + 1 < MaxAppFailures
    /\ appFailures' = appFailures + 2
    /\ Ends(FALSE, FALSE)
    /\ UNCHANGED <<app, items, launcher, rc, received, ranProfile, appCommands>>

-----------------------------------------------------------------------------
(* Running *)

\* What executeAppConsumer makes of the bindings: later entries of a map
\* replace earlier ones.
Deliverable(p) ==
    /\ validateAppMappings(p)
    /\ \A b \in p.bindings : b.item \in items
    /\ \A b \in p.bindings : b.delivery = "dotenv" => VaultItems[b.item].lines = 1

Handed(p) ==
    LET env == Targets(p.bindings, "env")
        files == Targets(p.bindings, "file")
        lines == {[target |-> b.target, item |-> b.item] : b \in {x \in p.bindings : x.delivery = "dotenv"}}
        of(d, t) == (CHOOSE b \in p.bindings : b.delivery = d /\ b.target = t).item
        dotenv == IF lines = {} THEN {} ELSE {p.dotenvEnv}
    IN  [v \in p.literal \cup env \cup files \cup dotenv |->
            CASE v \in dotenv -> [as |-> "dotenv", is |-> lines]
              [] v \in files \ dotenv -> [as |-> "file", is |-> of("file", v)]
              [] v \in env \ (files \cup dotenv) -> [as |-> "env", is |-> of("env", v)]
              [] OTHER -> [as |-> "literal", is |-> v]]

\* A profile with a project opens a session and asks for every item; granted
\* stands for the answers.
executeAppConsumer(granted) ==
    /\ appCmd.op = "none" /\ appCommands < MaxAppCommands
    /\ app.made
    /\ appCommands' = appCommands + 1
    /\ IF Deliverable(app) /\ (app.root => granted)
       THEN received' = Handed(app) /\ ranProfile' = app
       ELSE UNCHANGED <<received, ranProfile>>
    /\ UNCHANGED <<app, items, launcher, rc, appCmd, verdict, appFailures>>

-----------------------------------------------------------------------------
\* Somebody else deletes an item.
ItemDeleted(i) ==
    /\ i \in items
    /\ items' = items \ {i}
    /\ UNCHANGED <<app, launcher, rc, appCmd, verdict, received, ranProfile, appCommands, appFailures>>

AppsNext ==
    \/ \E w \in Wishes : appConnect(w)
    \/ BuildProfile \/ appInstall \/ planAppLauncher \/ UpsertAppConsumer
    \/ writePlannedAppLauncher \/ ensureLauncherDirOnPath
    \/ appDisconnect \/ DeleteAppConsumer \/ RemoveLauncher
    \/ AppFailsEarly \/ AppFailsLate \/ RollbackFails
    \/ \E granted \in BOOLEAN : executeAppConsumer(granted)
    \/ \E i \in items : ItemDeleted(i)

AppsSpec == AppsInit /\ [][AppsNext]_appVars

-----------------------------------------------------------------------------
(* Properties *)

\* A profile is kept and served whole.  A command that fails leaves the saved
\* profile as it found it, whichever of its writes failed, unless the roll back
\* failed too, and a saved profile that names a launcher has one.  Every binding
\* reaches the command that is run, each under its own name: none is shadowed by
\* another binding, the dotenv file or a literal.
ProfileHolds ==
    /\ ~verdict.ok /\ verdict.rolledBack /\ appCmd.op = "none" => app = verdict.before
    /\ appCmd.op = "none" /\ verdict.rolledBack /\ app.launcher => launcher = "hasp"
    /\ received # <<>> => \A b \in ranProfile.bindings :
        IF b.delivery = "dotenv"
        THEN [target |-> b.target, item |-> b.item] \in received[ranProfile.dotenvEnv].is
        ELSE received[b.target] = [as |-> b.delivery, is |-> b.item]
=============================================================================
