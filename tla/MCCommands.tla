----------------------------- MODULE MCCommands -----------------------------
(***************************************************************************)
(* Small instances of the session store and of the commands, which share   *)
(* no state in the model: a behaviour is one of the part in focus, the     *)
(* others rest in an initial state.                                        *)
(***************************************************************************)
EXTENDS SessionStore, VaultEdits, Targets, Agents, Apps,
        RepoGate, Hooks, Telemetry, Upgrade

CONSTANTS
    Focus,       \* the parts this run is about
    t1, c1, v1, v2

\* Sessions: process 1 and its child 2.
ParentAndChild == {<<1>>, <<2, 1>>}

\* Vault edits: the manifest calls position 20 by the name "a".
mcManifest == 20 :> "a"

\* Targets: a plain manifest; one with a literal, a credential set and a file;
\* one without a command that writes a file; one whose target is outside the
\* project.
mcDelivery(as, name, ref, out) ==
    [as |-> as, name |-> name, ref |-> ref, set |-> Unset, role |-> Unset, output |-> out]
mcTarget(root, make, lit, del) ==
    [name |-> "t", root |-> root, command |-> make, literal |-> lit, delivery |-> del]
mcWith(target) ==
    [version |-> "v1", authority |-> FALSE, refs |-> ("a" :> "K"),
     reqs |-> <<[ref |-> "a", kind |-> "kv", class |-> "secret"],
                [ref |-> "@K", kind |-> "file", class |-> "secret"]>>,
     sets |-> <<[name |-> "s", kind |-> "generic", members |-> ("id" :> "a")]>>,
     targets |-> <<target>>]
mcByRole == [mcDelivery("env", "X", Unset, Unset) EXCEPT !.set = "s", !.role = "id"]
mcEnvX == mcDelivery("env", "X", "a", Unset)
mcManifests ==
    {mcWith(mcTarget(".", "make", {}, <<mcEnvX>>)),
     mcWith(mcTarget(".", "make", {"L"}, <<mcByRole, mcDelivery("file", "F", "@K", Unset)>>)),
     mcWith(mcTarget("sub", Unset, {}, <<mcDelivery("xcconfig", "X", "a", "gen")>>)),
     mcWith(mcTarget("..", "make", {}, <<mcEnvX>>))}
mcNamed == "@K" :> "K" @@ "@N" :> "N"
mcAliases == <<"a", "b">>
mcFiles ==
    {Unset, <<"u", "begin", "secret", "end", "v">>, <<"begin", "end", "u", "begin", "secret">>}

\* Agents: a client of each format, with configurations of its own.
mcConfig(lines, servers) ==
    [NoConfig EXCEPT !.there = TRUE, !.lines = lines, !.servers = servers]
mcClients ==
    "codex" :> "toml" @@ "cc" :> "json" @@ "oc" :> "opencode-json"
    @@ "pi" :> "pi-package" @@ "aider" :> "manual" @@ "hermes" :> "manual"
mcConfigs ==
    "toml" :> {NoConfig,
               mcConfig(<<"k", "[x]", "[mcp_servers.hasp]", "command",
                          "[mcp_servers.hasp.env]", "e", "[y]", "k">>, {}),
               mcConfig(<<"[mcp_servers.hasp.env]", "e", "[x]", "k",
                          "[mcp_servers.hasp]">>, {})}
    @@ "json" :> {[mcConfig(<<>>, {"mine"}) EXCEPT !.link = TRUE]}
    @@ "opencode-json" :> {mcConfig(<<>>, {"servers"}),
                           [NoConfig EXCEPT !.there = TRUE, !.parses = FALSE]}
    @@ "pi-package" :> {mcConfig(<<>>, {"mine", "pi-package"})}
    @@ "manual" :> {NoConfig}
mcAdds ==
    "toml" :> [lines |-> <<"[y]", "k">>, servers |-> {}]
    @@ "json" :> [lines |-> <<>>, servers |-> {"new"}]
mcEnv == {[consumer |-> "u", root |-> "", token |-> ""],
          [consumer |-> "", root |-> "r", token |-> ""]}
mcProjectOf == [a \in DOMAIN mcClients |-> IF a = "cc" THEN "p" ELSE ""]

\* Apps: profiles with every delivery, two that must be refused and one from
\* a reviewed target.
mcRef(n, at) == [name |-> n, at |-> at]
mcMap(d, t, r) == [delivery |-> d, target |-> t, ref |-> r]
mcWish(ms, dotenv, literal, root, install, path) ==
    [mappings |-> ms, dotenvEnv |-> dotenv, literal |-> literal, root |-> root,
     install |-> install, addToPath |-> path, target |-> ""]
mcWishes ==
    {mcWish({mcMap("env", "X", mcRef("a", FALSE)), mcMap("file", "Y", mcRef("f", TRUE))},
            "", {"L"}, FALSE, TRUE, TRUE),
     mcWish({mcMap("env", "X", mcRef("n", FALSE)), mcMap("dotenv", "K", mcRef("a", FALSE))},
            "D", {}, TRUE, TRUE, FALSE),
     mcWish({mcMap("file", "D", mcRef("f", FALSE)), mcMap("dotenv", "K", mcRef("a", FALSE))},
            "D", {}, FALSE, FALSE, FALSE),
     mcWish({mcMap("env", "X", mcRef("f", FALSE))}, "", {"HASP_X"}, FALSE, FALSE, FALSE),
     [mcWish({}, "", {}, TRUE, FALSE, FALSE) EXCEPT !.target = "t"]}
mcItems == "a" :> [kind |-> "kv", lines |-> 1] @@ "f" :> [kind |-> "file", lines |-> 2]
mcAliasOf == "n" :> "a"
mcReviewed ==
    "t" :> [workspace |-> FALSE,
            wish |-> mcWish({mcMap("env", "Z", mcRef("a", TRUE))}, "", {"L"}, TRUE, FALSE, FALSE)]
mcRC == {<<>>, <<"u", ">>>", "old", "<<<", "v">>, <<"<<<", ">>>">>}

\* Git gates: a secret of two bytes, a configuration value, two remotes.
mcSecretItems ==
    "k" :> [confidential |-> TRUE, needles |-> {<<"x", "y">>}]
    @@ "cfg" :> [confidential |-> FALSE, needles |-> {<<"o">>}]
mcServerOf == "o" :> "S" @@ "t" :> "T"
mcContents == {<<"o">>, <<"o", "x", "y">>}
mcNotes == {<<>>, <<"x", "y">>}

\* Hooks: a path in the project and one that leads out of it.
mcPathLeads == "in" :> "project" @@ "out" :> "outside"

\* Upgrade: versions of the semver standard's own example, and later ones.
mcN(n) == [numeric |-> TRUE, rank |-> n]
mcW(n) == [numeric |-> FALSE, rank |-> n]
mcV(core, pre) == [core |-> core, pre |-> pre]
\* 1.0.0-alpha, -alpha.1, -alpha.beta, -beta.2, -beta.11, 1.0.0, 1.0.1, 1.1.0-alpha, 1.1.0.
mcPrecedence ==
    <<mcV(<<1, 0, 0>>, <<mcW(1)>>), mcV(<<1, 0, 0>>, <<mcW(1), mcN(1)>>),
      mcV(<<1, 0, 0>>, <<mcW(1), mcW(2)>>), mcV(<<1, 0, 0>>, <<mcW(2), mcN(2)>>),
      mcV(<<1, 0, 0>>, <<mcW(2), mcN(11)>>), mcV(<<1, 0, 0>>, <<>>),
      mcV(<<1, 0, 1>>, <<>>), mcV(<<1, 1, 0>>, <<mcW(1)>>), mcV(<<1, 1, 0>>, <<>>)>>
mcFirst == mcPrecedence[1]
\* Key o hands over to key n; one KEYS file has the wrong signer, one tarball
\* too, one tarball has no binary and the last version is not published.
mcRelease(keys, keysSigner, signer, entry, pins) ==
    [keys |-> keys, keysSigner |-> keysSigner, signer |-> signer, entry |-> entry, pins |-> pins]
mcReleases ==
    mcPrecedence[1] :> mcRelease({"o"}, "o", "o", "regular", {"o"})
    @@ mcPrecedence[2] :> mcRelease({"o"}, "o", "o", "regular", {"o"})
    @@ mcPrecedence[3] :> mcRelease({"o", "n"}, "o", "n", "regular", {"o", "n"})
    @@ mcPrecedence[4] :> mcRelease({"n"}, "x", "n", "regular", {"x"})
    @@ mcPrecedence[5] :> mcRelease({"n"}, "n", "n", "regular", {"n"})
    @@ mcPrecedence[6] :> mcRelease({"n"}, "n", "n", "regular", {"n"})
    @@ mcPrecedence[7] :> mcRelease({"n"}, "n", "x", "regular", {"n"})
    @@ mcPrecedence[8] :> mcRelease({"n"}, "n", "n", "missing", {"n"})
mcAsked == {mcPrecedence[i] : i \in DOMAIN mcPrecedence}

Symmetry == Permutations({v1, v2})

VARIABLE focus

commandsVars == <<focus, vars, editVars, targetVars, agentVars, appVars,
                  gateVars, hookVars, telemetryVars, upgradeVars>>

\* The one state each part rests in while another is in focus.
Rest ==
    /\ focus # "sessions" => Init
    /\ focus # "edits" => vaultDoc = EmptyDoc /\ EditInit
    /\ focus # "targets" => /\ manifest = Unset /\ outFile = [inode |-> 0, lines |-> Unset]
                            /\ TargetsInit /\ reviews = NoReviews
    /\ focus # "agents" =>
          /\ config = [a \in DOMAIN Clients |-> CHOOSE f \in FirstConfigs[Clients[a]] : TRUE]
          /\ env = CHOOSE e \in OwnEnv : TRUE
          /\ AgentsInit
    /\ focus # "apps" => launcher = "none" /\ rc = <<>> /\ AppsInit
    /\ focus # "gate" => work = <<"o">> /\ known = {} /\ GateInit
    /\ focus # "hooks" => /\ hooksPath = "unset" /\ hookFile = [h \in HookSet |-> Nothing]
                          /\ HooksInit
    /\ focus # "telemetry" => TelemetryInit
    /\ focus # "upgrade" => UpgradeInit

CommandsInit ==
    /\ focus \in Focus
    /\ CASE focus = "sessions" -> Init
         [] focus = "edits" -> EditInit
         [] focus = "targets" -> TargetsInit
         [] focus = "agents" -> AgentsInit
         [] focus = "apps" -> AppsInit
         [] focus = "gate" -> GateInit /\ known = DOMAIN SecretItems
         [] focus = "hooks" -> HooksInit
         [] focus = "telemetry" -> TelemetryInit
         [] focus = "upgrade" -> UpgradeInit
    /\ Rest

CommandsNext ==
    /\ UNCHANGED focus
    /\ \/ /\ focus = "sessions" /\ Next
          /\ UNCHANGED <<editVars, targetVars, agentVars, appVars,
                         gateVars, hookVars, telemetryVars, upgradeVars>>
       \/ /\ focus = "edits" /\ EditNext
          /\ UNCHANGED <<vars, targetVars, agentVars, appVars,
                         gateVars, hookVars, telemetryVars, upgradeVars>>
       \/ /\ focus = "targets" /\ TargetsNext
          /\ UNCHANGED <<vars, editVars, agentVars, appVars,
                         gateVars, hookVars, telemetryVars, upgradeVars>>
       \/ /\ focus = "agents" /\ AgentsNext
          /\ UNCHANGED <<vars, editVars, targetVars, appVars,
                         gateVars, hookVars, telemetryVars, upgradeVars>>
       \/ /\ focus = "apps" /\ AppsNext
          /\ UNCHANGED <<vars, editVars, targetVars, agentVars,
                         gateVars, hookVars, telemetryVars, upgradeVars>>
       \/ /\ focus = "gate" /\ GateNext
          /\ UNCHANGED <<vars, editVars, targetVars, agentVars,
                         appVars, hookVars, telemetryVars, upgradeVars>>
       \/ /\ focus = "hooks" /\ HooksNext
          /\ UNCHANGED <<vars, editVars, targetVars, agentVars,
                         appVars, gateVars, telemetryVars, upgradeVars>>
       \/ /\ focus = "telemetry" /\ TelemetryNext
          /\ UNCHANGED <<vars, editVars, targetVars, agentVars,
                         appVars, gateVars, hookVars, upgradeVars>>
       \/ /\ focus = "upgrade" /\ UpgradeNext
          /\ UNCHANGED <<vars, editVars, targetVars, agentVars,
                         appVars, gateVars, hookVars, telemetryVars>>

CommandsSpec == CommandsInit /\ [][CommandsNext]_commandsVars
=============================================================================
