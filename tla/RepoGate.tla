------------------------------ MODULE RepoGate ------------------------------
(***************************************************************************)
(* The gates that keep managed values out of a Git repository: `hasp       *)
(* check-repo' as the pre-commit hook, as the pre-push hook and by hand    *)
(* (checkRepoCommandWithInput of app/exec.go, the package reposcan and the *)
(* script hooks.go installs).                                              *)
(*                                                                         *)
(* Git, its user, other clones and the servers are external.  The tree of  *)
(* a commit is one file.  A blob is named by its content, so two commits   *)
(* with the same file share it; a commit's message is an object of its     *)
(* own.  While a hook runs, the user edits, other branches move, other     *)
(* clones push, and the vault is locked, unlocked and added to.            *)
(***************************************************************************)
EXTENDS Naturals, Sequences, FiniteSets, SequencesExt, FiniteSetsExt

CONSTANTS
    SecretItems,   \* name -> [confidential, needles]: the encodings of its value
    FileContents,  \* sequences of symbols a file may hold
    Notes,         \* the messages of commits
    ServerOf,      \* configured remote -> the server its url names
    MaxFileBytes,  \* longer sources are read in chunks
    ChunkSize,
    MaxCommitted,  \* bound: commits
    MaxGates,      \* bound: hooks and checks begun
    MaxMoves,      \* bound: steps of the users, other clones and the vault
    NoContents     \* a file that is not there, an index entry to be removed

Servers == {ServerOf[r] : r \in DOMAIN ServerOf}

\* A submodule is an index entry without a blob.
Submodule == <<"160000">>

Texts(S) == \A s \in S : s \in Seq({s[i] : i \in DOMAIN s})

\* Needles have a length, one at least, that values bound; what is named is a
\* remote or a url, not both.
ASSUME GateAssumption ==
    /\ Texts(FileContents) /\ Texts(Notes)
    /\ \A n \in DOMAIN SecretItems : Texts(SecretItems[n].needles) /\ <<>> \notin SecretItems[n].needles
    /\ IsFiniteSet({Len(d) : d \in UNION {SecretItems[n].needles : n \in DOMAIN SecretItems}})
    /\ DOMAIN ServerOf \cap Servers = {}
    /\ MaxFileBytes \in Nat /\ ChunkSize \in Nat \ {0}

VARIABLES
    work, index,   \* the file in the working tree and in the index
    history,       \* all commits anywhere: [parent, tree, note]
    tip,           \* the local branch
    local,         \* the commits this clone has
    serves,        \* server -> the tip of its branch, 0 when it has none
    everHad,       \* server -> objects it has held at some time
    tracking,      \* remote -> the tip this clone saw there last, 0 when none
    vaultIs, known,\* "none", "locked" or "open"; the items in it
    gate,          \* "commit", "push", "check" -> the hook or command that runs
    gated,         \* what the gates let through: [objects, known]
    gates, moves

gateVars == <<work, index, history, tip, local, serves, everHad, tracking,
              vaultIs, known, gate, gated, gates, moves>>

gitVars == <<work, index, history, tip, local, serves, everHad, tracking>>

-----------------------------------------------------------------------------
(* Git objects *)

Blob(c) == [kind |-> "blob", is |-> c]
CommitObject(n) == [kind |-> "commit", is |-> n]

\* The commits reachable from n; a parent is older than its child.
Ancestors[n \in 0..Len(history)] ==
    IF n = 0 THEN {} ELSE {n} \cup Ancestors[history[n].parent]

ObjectsOf(n) == {CommitObject(n)} \cup {Blob(c) : c \in {history[n].tree} \ {NoContents, Submodule}}

Reachable(tips) == UNION {ObjectsOf(n) : n \in UNION {Ancestors[t] : t \in tips}}

\* What a reader sees of an object: cat-file's contents.
contents(o) == IF o.kind = "blob" THEN o.is ELSE history[o.is].note

-----------------------------------------------------------------------------
(* Matching *)

Occurs(needle, data) ==
    \E i \in 1..Len(data) : IsPrefix(needle, SubSeq(data, i, Len(data)))

hitNeedles(data, needles) == \E n \in needles : Occurs(n, data)

\* Configuration is not looked for, nor is a value without needles.
compileItems(names) ==
    {SecretItems[n].needles : n \in {m \in names :
        SecretItems[m].confidential /\ SecretItems[m].needles # {}}}

overlap(compiled) == Max({Len(n) : n \in UNION compiled} \cup {1}) - 1

\* The window on `data' while the chunk from position i is read.
Window(data, i, compiled) ==
    LET kept == IF i = 1 THEN 0 ELSE overlap(compiled)
        from == IF i > kept THEN i - kept ELSE 1
    IN  SubSeq(data, from, IF i + ChunkSize - 1 < Len(data) THEN i + ChunkSize - 1 ELSE Len(data))

matchReader(data, compiled) ==
    \E needles \in compiled, j \in 0..(Len(data) \div ChunkSize) :
        hitNeedles(Window(data, j * ChunkSize + 1, compiled), needles)

match(data, compiled) == \E needles \in compiled : hitNeedles(data, needles)

MatchSource(data, names) ==
    LET compiled == compileItems(names)
    IN  IF Len(data) > MaxFileBytes THEN matchReader(data, compiled) ELSE match(data, compiled)

-----------------------------------------------------------------------------
(* What is scanned *)

\* Mutant: every tracking ref limits the scan, whatever its remote.
remoteTrackingTips_All(target) == {tracking[r] : r \in DOMAIN ServerOf} \ {0}

\* `target' is the name of a remote, or a url: then every remote with that url.
remoteTrackingTips(target) ==
    {tracking[r] : r \in {x \in DOMAIN ServerOf : x = target \/ ServerOf[x] = target}} \ {0}

\* What the clone does not have cannot limit the scan.
Excluded(g) == ({g.remoteOid} \cup remoteTrackingTips(g.target)) \cap local

\* rev-list: what the outgoing tip reaches and the excluded ones do not.
outgoing(g) ==
    IF g.oid = 0 THEN {} ELSE Reachable({g.oid}) \ Reachable(Excluded(g))

HeadTree == history[tip].tree

\* diff --cached against HEAD in the index Git runs the hook with; a removed
\* file is no source.
readIndexObjects(g) == IF g.active \in {HeadTree, NoContents} THEN {} ELSE {g.active}

-----------------------------------------------------------------------------
(* The check *)

NoGate == [at |-> "idle", oid |-> 0, remoteOid |-> 0, target |-> "", active |-> NoContents,
           known |-> {}, listed |-> FALSE, override |-> FALSE]

Ops == {"commit", "push", "check"}

GateInit ==
    /\ work \in FileContents /\ index = work
    /\ history = <<[parent |-> 0, tree |-> work, note |-> <<>>]>> /\ tip = 1 /\ local = {1}
    /\ serves = [s \in Servers |-> 0]
    /\ everHad = [s \in Servers |-> {}]
    /\ tracking = [r \in DOMAIN ServerOf |-> 0]
    /\ vaultIs = "open" /\ known \in {{}, DOMAIN SecretItems}
    /\ gate = [g \in Ops |-> NoGate]
    /\ gated = {}
    /\ gates = 0 /\ moves = 0

Move(g, r) == gate' = [gate EXCEPT ![g] = r]

\* The command ends with an error: the hook stops Git.
Refuse(g) == Move(g, NoGate) /\ UNCHANGED <<gitVars, vaultIs, known, gated, gates, moves>>

Goes(g, r) == Move(g, r) /\ UNCHANGED <<gitVars, vaultIs, known, gated, gates, moves>>

GateBegins(g, r) ==
    /\ gate[g].at = "idle" /\ gates < MaxGates /\ gates' = gates + 1
    /\ Move(g, r)
    /\ UNCHANGED <<gitVars, vaultIs, known, gated, moves>>

\* The saved hook runs first, with its own copy of the input; it may fail, and
\* before a commit it may change the index.
RunSavedHook(g, to) ==
    /\ gate[g].at = "chain"
    /\ to # gate[g].active => g = "commit"
    /\ Goes(g, [gate[g] EXCEPT !.at = "vault", !.active = to])

SavedHookFails(g) == gate[g].at = "chain" /\ Refuse(g)

\* A push that only removes refs needs no values.
needsValues(g) == g # "push" \/ gate[g].oid # 0

\* No vault: nothing to look for.  A vault that cannot be read stops the check
\* unless it was told to allow managed secrets.
openVault(g) ==
    /\ gate[g].at = "vault"
    /\ \/ /\ ~needsValues(g) \/ vaultIs = "none" \/ (vaultIs = "locked" /\ gate[g].override)
          /\ Goes(g, [gate[g] EXCEPT !.at = "scan"])
       \/ /\ needsValues(g) /\ vaultIs = "locked" /\ ~gate[g].override
          /\ Refuse(g)
       \/ /\ needsValues(g) /\ vaultIs = "open"
          /\ Goes(g, [gate[g] EXCEPT !.at = "scan", !.known = known])

\* A source that cannot be read makes the scan incomplete, which no flag
\* allows.
ReadFails(g) == gate[g].at = "scan" /\ Refuse(g)

\* The end of a scan.
Verdict(g, matched) ==
    IF matched /\ ~gate[g].override
    THEN Refuse(g)
    ELSE Goes(g, IF g = "check" THEN NoGate ELSE [gate[g] EXCEPT !.at = "passed"])

\* Blobs do not change: one step lists and reads them.  An entry without one
\* is an error.
scanStagedObjects ==
    LET g == gate["commit"]
    IN  /\ g.at = "scan" /\ Submodule \notin readIndexObjects(g)
        /\ Verdict("commit", \E c \in readIndexObjects(g) : MatchSource(c, g.known))

\* Nor do commits; the refs are read here.
ScanOutgoing ==
    LET g == gate["push"]
    IN  /\ g.at = "scan"
        /\ Verdict("push", \E o \in outgoing(g) : MatchSource(contents(o), g.known))

Enumerate ==
    /\ gate["check"].at = "scan"
    /\ Goes("check", [gate["check"] EXCEPT !.at = "read", !.listed = {work, index} # {NoContents}])

\* A file that is gone was deleted, if Git lists it so; else the scan is not
\* complete.
Scan ==
    /\ gate["check"].at = "read"
    /\ IF work = NoContents /\ index = NoContents /\ gate["check"].listed
       THEN Refuse("check")
       ELSE Verdict("check", work # NoContents /\ gate["check"].listed
                               /\ MatchSource(work, gate["check"].known))

\* `hasp check-repo' by hand, or hasp_check.
checkRepo(override) ==
    GateBegins("check", [NoGate EXCEPT !.at = "vault", !.override = override])

-----------------------------------------------------------------------------
(* Git and its users *)

\* A step of the users leaves `same' alone.
UserStep(same) ==
    /\ moves < MaxMoves /\ moves' = moves + 1
    /\ UNCHANGED <<same, gates>>

GitStep(same) == UNCHANGED <<same, vaultIs, known, gates, moves>>

EditFile(c) ==
    /\ c # work /\ work' = c
    /\ UserStep(<<index, history, tip, local, serves, everHad, tracking, vaultIs, known, gate, gated>>)

\* Git keeps the index locked while a commit is made.
Stage ==
    /\ gate["commit"].at = "idle" /\ index # work /\ index' = work
    /\ UserStep(<<work, history, tip, local, serves, everHad, tracking, vaultIs, known, gate, gated>>)

\* `git commit' takes the index, which may hold a submodule; `git commit
\* <file>' a temporary one with the file of the working tree.
BeginCommit(active) ==
    /\ Len(history) < MaxCommitted
    /\ GateBegins("commit", [NoGate EXCEPT !.at = "chain", !.active = active])

NewCommit(parent, tree, note) ==
    /\ Len(history) < MaxCommitted
    /\ history' = Append(history, [parent |-> parent, tree |-> tree, note |-> note])

\* A new commit on the branch, or in place of its tip.
CommitOnBranch(amend, tree, note) ==
    /\ NewCommit(IF amend THEN history[tip].parent ELSE tip, tree, note)
    /\ tip' = Len(history) + 1 /\ local' = local \cup {Len(history) + 1}
    /\ UNCHANGED <<serves, everHad, tracking>>

FinishCommit(amend, note) ==
    LET g == gate["commit"]
    IN  /\ g.at = "passed"
        /\ CommitOnBranch(amend, g.active, note)
        /\ index' = g.active
        /\ gated' = gated \cup
             {[objects |-> {Blob(c) : c \in {g.active} \ {HeadTree, NoContents}}, known |-> g.known]}
        /\ Move("commit", NoGate)
        /\ GitStep(<<work>>)

\* `git commit --no-verify'.
BypassCommit(amend, note) ==
    /\ gate["commit"].at = "idle"
    /\ CommitOnBranch(amend, index, note)
    /\ UserStep(<<work, index, vaultIs, known, gate, gated>>)

\* Git gives the hook the name or url it pushes to, and the object ids.
BeginPush(target, delete) ==
    LET s == IF target \in Servers THEN target ELSE ServerOf[target]
    IN  /\ IF delete THEN serves[s] # 0 ELSE tip # serves[s]
        /\ GateBegins("push", [NoGate EXCEPT !.at = "chain", !.oid = IF delete THEN 0 ELSE tip,
                                         !.remoteOid = serves[s], !.target = target])

\* The server takes what it lacks, unless its branch has moved meanwhile.
Receive(s, target, oid) ==
    /\ serves' = [serves EXCEPT ![s] = oid]
    /\ everHad' = [everHad EXCEPT ![s] = @ \cup (IF oid = 0 THEN {} ELSE Reachable({oid}))]
    /\ tracking' = [r \in DOMAIN tracking |-> IF r = target THEN oid ELSE tracking[r]]

FinishPush ==
    LET g == gate["push"]
        s == IF g.target \in Servers THEN g.target ELSE ServerOf[g.target]
    IN  /\ g.at = "passed"
        /\ Move("push", NoGate)
        /\ IF serves[s] = g.remoteOid
           THEN /\ Receive(s, g.target, g.oid)
                /\ gated' = gated \cup
                     {[objects |-> (IF g.oid = 0 THEN {} ELSE Reachable({g.oid})) \ everHad[s],
                       known |-> g.known]}
           ELSE UNCHANGED <<serves, everHad, tracking, gated>>
        /\ GitStep(<<work, index, history, tip, local>>)

\* `git push --no-verify'.
BypassPush(r) ==
    /\ serves[ServerOf[r]] # tip
    /\ Receive(ServerOf[r], r, tip)
    /\ UserStep(<<work, index, history, tip, local, vaultIs, known, gate, gated>>)

\* Another clone pushes, or removes the branch.
OtherPushes(s, c) ==
    /\ NewCommit(serves[s], c, <<>>)
    /\ serves' = [serves EXCEPT ![s] = Len(history) + 1]
    /\ everHad' = [everHad EXCEPT ![s] = @ \cup {CommitObject(Len(history) + 1), Blob(c)}]
    /\ UserStep(<<work, index, tip, local, tracking, vaultIs, known, gate, gated>>)

OtherDeletes(s) ==
    /\ serves[s] # 0 /\ serves' = [serves EXCEPT ![s] = 0]
    /\ UserStep(<<work, index, history, tip, local, everHad, tracking, vaultIs, known, gate, gated>>)

Fetch(r) ==
    /\ serves[ServerOf[r]] \notin {0, tracking[r]}
    /\ tracking' = [tracking EXCEPT ![r] = serves[ServerOf[r]]]
    /\ local' = local \cup Ancestors[serves[ServerOf[r]]]
    /\ UserStep(<<work, index, history, tip, serves, everHad, vaultIs, known, gate, gated>>)

\* The vault is locked, unlocked or removed, and items are added.
VaultMoves ==
    /\ UserStep(<<gitVars, gate, gated>>)
    /\ \/ /\ vaultIs # "none" /\ vaultIs' \in {"none", "locked", "open"} \ {vaultIs}
          /\ known' = IF vaultIs' = "none" THEN {} ELSE known
       \/ \E n \in DOMAIN SecretItems \ known : vaultIs = "open" /\ known' = known \cup {n}
                                                /\ UNCHANGED vaultIs

GateNext ==
    \/ \E c \in FileContents \cup {NoContents} : EditFile(c)
    \/ Stage
    \/ \E active \in {index, work, Submodule} : BeginCommit(active)
    \/ \E amend \in BOOLEAN, m \in Notes : FinishCommit(amend, m) \/ BypassCommit(amend, m)
    \/ \E t \in DOMAIN ServerOf \cup Servers, delete \in BOOLEAN : BeginPush(t, delete)
    \/ FinishPush
    \/ \E r \in DOMAIN ServerOf : BypassPush(r) \/ Fetch(r)
    \/ \E s \in Servers : OtherDeletes(s) \/ \E c \in FileContents : OtherPushes(s, c)
    \/ VaultMoves
    \/ \E override \in BOOLEAN : checkRepo(override)
    \/ \E g \in {"commit", "push"} :
          SavedHookFails(g) \/ \E to \in FileContents \cup {gate[g].active} : RunSavedHook(g, to)
    \/ \E g \in Ops : openVault(g) \/ ReadFails(g)
    \/ scanStagedObjects \/ ScanOutgoing \/ Enumerate \/ Scan

GateSpec == GateInit /\ [][GateNext]_gateVars

-----------------------------------------------------------------------------
\* Whatever the user, other clones and the vault do while a hook runs, no
\* object that the gate lets into a commit, or out to a server that never had
\* it, holds a managed value the vault held when the check opened it: in no
\* intermediate commit, no message and not across the chunks of a long file.
NoManagedValuePasses ==
    \A p \in gated, n \in DOMAIN SecretItems :
        n \in p.known /\ SecretItems[n].confidential =>
            \A o \in p.objects : ~hitNeedles(contents(o), SecretItems[n].needles)
=============================================================================
