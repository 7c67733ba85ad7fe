------------------------------ MODULE Targets ------------------------------
(***************************************************************************)
(* Targets of a repository's manifest: a committed file says which secrets *)
(* a command receives and how; the vault remembers which shape of a target *)
(* a person reviewed.  `hasp run', `inject', `write-env', the same tools   *)
(* of an agent and `project target review' race with edits of the file.    *)
(* write-env also edits a file of the user.  Grants are in VaultGrants.    *)
(***************************************************************************)
EXTENDS Integers, Sequences, FiniteSets, Functions, SequencesExt

CONSTANTS
    Workers,        \* processes of the command line and of agents
    Manifests,      \* what people may commit as the manifest
    NamedRefs,      \* references by name: reference -> item
    Dangerous,      \* destinations such as PATH
    Outside,        \* paths that leave the repository, symbolic links followed
    Added,          \* the target that `target add' writes
    AddedRef,       \* and its reference by name
    Aliases,        \* neutral aliases it may generate, in order
    FirstFiles,     \* what the output file of write-env holds at first
    MaxStarts,      \* bound on the commands started
    MaxCommits,     \* bound on the changes of the manifest by others
    Unset

VARIABLES
    manifest,       \* the committed file
    reviews,        \* in the vault: reviewed target -> signature
    worker,         \* per process
    outFile,        \* the file write-env edits: its inode and its lines
    spare,          \* does its .tmp exist?
    reviewedShapes, \* history: what a review command recorded
    delivered,      \* history: what received secrets
    ownLines,       \* history: the user's lines of the output file
    truncated,      \* history: was it overwritten on purpose?
    begunWork, commits

targetVars == <<manifest, reviews, worker, outFile, spare, reviewedShapes,
                delivered, ownLines, truncated, begunWork, commits>>

-----------------------------------------------------------------------------
(* The manifest: is it one that people may use?                             *)

Distinct(s) == \A i, j \in DOMAIN s : s[i] = s[j] => i = j

\* A reference is a declared alias, or names the item of a declared one.
manifestReferenceDeclared(m, r) ==
    \/ r \in DOMAIN m.refs
    \/ r \in DOMAIN NamedRefs /\ NamedRefs[r] \in Range(m.refs)

manifestHasExtendedFields(m) == m.reqs # <<>> \/ m.sets # <<>> \/ m.targets # <<>>

Requirement(m, r) == \E q \in ToSet(m.reqs) : q.ref = r

validRequirements(m) ==
    /\ Distinct([i \in DOMAIN m.reqs |-> m.reqs[i].ref])
    /\ \A q \in ToSet(m.reqs) :
          /\ q.kind \in {"kv", "file"}
          /\ q.class \in {"secret", "public_config", "browser_session"}
          /\ manifestReferenceDeclared(m, q.ref)

\* Some destinations would change the program that runs.
manifestDangerousDestination(name) == name \in Dangerous

\* A path below the root, symbolic links followed.
validateManifestRelativePath(path) == path \notin Outside

\* Values, grants and tokens have no place in a committed file.
rejectManifestLocalAuthorityFields(m) == m.authority

Member(m, set, role, class) ==
    /\ role \in DOMAIN set.members
    /\ \E q \in ToSet(m.reqs) : /\ q.ref = set.members[role]
                                 /\ q.kind = "kv" /\ q.class = class

validateManifestCredentialSetSchema(m, set) ==
    set.kind = "google_oauth" =>
        /\ DOMAIN set.members \subseteq {"client_id", "client_secret", "redirect_uri"}
        /\ Member(m, set, "client_id", "public_config")
        /\ Member(m, set, "client_secret", "secret")
        /\ "redirect_uri" \in DOMAIN set.members
               => Member(m, set, "redirect_uri", "public_config")

validSets(m) ==
    /\ Distinct([i \in DOMAIN m.sets |-> m.sets[i].name])
    /\ \A set \in ToSet(m.sets) :
          /\ set.kind \in {"generic", "google_oauth"}
          /\ DOMAIN set.members # {}
          /\ \A role \in DOMAIN set.members : Requirement(m, set.members[role])
          /\ validateManifestCredentialSetSchema(m, set)

\* A delivery names its reference, or a role of a credential set.
DeliveryRef(m, d) ==
    LET s == SelectInSeq(m.sets, LAMBDA set : set.name = d.set) IN
    IF d.ref # Unset THEN d.ref
    ELSE IF s = 0 THEN Unset
    ELSE IF d.role \in DOMAIN m.sets[s].members THEN m.sets[s].members[d.role]
    ELSE Unset

resolveManifestDeliveryRef(m, d) ==
    /\ d.ref # Unset => d.set = Unset /\ d.role = Unset
    /\ DeliveryRef(m, d) # Unset

validateManifestDelivery(m, d) ==
    /\ d.as \in {"env", "file", "xcconfig"}
    /\ ~manifestDangerousDestination(d.name)
    /\ resolveManifestDeliveryRef(m, d)
    /\ \E q \in ToSet(m.reqs) :
          /\ q.ref = DeliveryRef(m, d)
          /\ (q.kind = "file" => d.as = "file") /\ q.class # "browser_session"
    /\ d.output # Unset => d.as = "xcconfig" /\ validateManifestRelativePath(d.output)

validTargets(m) ==
    /\ Distinct([i \in DOMAIN m.targets |-> m.targets[i].name])
    /\ \A t \in ToSet(m.targets) :
          /\ validateManifestRelativePath(t.root)
          /\ \A n \in t.literal : ~manifestDangerousDestination(n)
          /\ Distinct([i \in DOMAIN t.delivery |-> t.delivery[i].name])
          /\ \A d \in ToSet(t.delivery) :
                validateManifestDelivery(m, d) /\ d.name \notin t.literal

Validate(m) ==
    /\ ~rejectManifestLocalAuthorityFields(m)
    /\ m.version \in {Unset, "v1"}
    /\ m.version = Unset => ~manifestHasExtendedFields(m)
    /\ validRequirements(m) /\ validSets(m) /\ validTargets(m)

\* There is no target of that name, also when the manifest is refused.
Target(m, name) ==
    IF m = Unset THEN 0
    ELSE IF ~Validate(m) THEN 0
    ELSE SelectInSeq(m.targets, LAMBDA t : t.name = name)

NamesOf(t, as) == {d.name : d \in {x \in ToSet(t.delivery) : x.as = as}}

Delivery(t, name) == t.delivery[SelectInSeq(t.delivery, LAMBDA d : d.name = name)]

ExpandManifestTarget(m, t) ==
    LET Refs(as) == [n \in NamesOf(t, as) |-> DeliveryRef(m, Delivery(t, n))]
    IN  [target  |-> t.name, root |-> t.root, command |-> t.command, literal |-> t.literal,
         env     |-> Refs("env"), files |-> Refs("file"), xcconfig |-> Refs("xcconfig"),
         outputs |-> [n \in {x \in NamesOf(t, "xcconfig") : Delivery(t, x).output # Unset}
                         |-> Delivery(t, n).output]]

\* Explicit mappings instead of a target.
NoExpansion == [target |-> Unset, root |-> ".", command |-> Unset, literal |-> {},
                env |-> <<>>, files |-> <<>>, xcconfig |-> <<>>, outputs |-> <<>>]

\* What a review remembers of a target: neither its directory nor the items
\* behind the references.
Signature(e) ==
    [command  |-> e.command,
     refs     |-> Range(e.env) \cup Range(e.files) \cup Range(e.xcconfig),
     delivery |-> <<e.literal, e.env, e.files, e.xcconfig>>,
     outputs  |-> e.outputs]

\* Known and unchanged.
Drifted(rs, e) == e.target \notin DOMAIN rs \/ rs[e.target] # Signature(e)

\* Mutant: only the name of the target is looked up.
RequireReviewedTarget_Known(rs, e) == e.target = Unset \/ e.target \in DOMAIN rs

RequireReviewedTarget(rs, e) == e.target = Unset \/ ~Drifted(rs, e)

-----------------------------------------------------------------------------
(* The output file of write-env: a block between markers.                   *)

Block == <<"begin", "secret", "end">>

Begins(s) == Cardinality({i \in DOMAIN s : s[i] = "begin"})

BeginOf(s) == SelectInSeq(s, LAMBDA x : x = "begin")

\* The first end marker after the block began; without one it has no end.
EndOf(s, b) ==
    LET ends == {i \in DOMAIN s : i > b /\ s[i] = "end"} IN
    IF ends = {} THEN Len(s) ELSE CHOOSE i \in ends : \A j \in ends : i <= j

\* Mutant: whatever follows the block is forgotten.
spliceBlock_Tail(s) ==
    IF Begins(s) = 0 THEN s \o Block
    ELSE SubSeq(s, 1, BeginOf(s) - 1) \o Block

spliceBlock(s) ==
    IF Begins(s) = 0 THEN s \o Block
    ELSE SubSeq(s, 1, BeginOf(s) - 1) \o Block \o SubSeq(s, EndOf(s, BeginOf(s)) + 1, Len(s))

\* The lines that are not of write-env: outside its block, and none where it
\* wrote the whole file.
OwnLines(s) ==
    LET b    == BeginOf(s)
        rest == IF b = 0 THEN s ELSE SubSeq(s, 1, b - 1) \o SubSeq(s, EndOf(s, b) + 1, Len(s))
    IN  IF rest = <<"secret">> THEN <<>> ELSE rest

-----------------------------------------------------------------------------
(* The commands *)

Asleep == [pc |-> "idle", op |-> Unset, mode |-> Unset, plan |-> Unset,
           reviews |-> Unset, lines |-> Unset, inode |-> 0]

FreshManifest == [version |-> "v1", authority |-> FALSE, refs |-> <<>>, reqs |-> <<>>,
                  sets |-> <<>>, targets |-> <<>>]

TargetNames == {Added} \cup UNION {{m.targets[i].name : i \in DOMAIN m.targets} : m \in Manifests}

FileLines == ToSet(Block) \cup UNION {ToSet(f) : f \in FirstFiles \ {Unset}}

\* A target has a name, and a file is its lines.
ASSUME TargetsAssumption ==
    /\ Unset \notin TargetNames /\ Unset \notin Seq(FileLines)
    /\ FirstFiles \subseteq Seq(FileLines) \cup {Unset}

NoReviews == <<>>

ReviewsOf(m) == [t \in {x \in TargetNames : Target(m, x) # 0} |->
    Signature(ExpandManifestTarget(m, m.targets[Target(m, t)]))]

\* In a new repository, or after a person has reviewed its targets.
TargetsInit ==
    /\ manifest \in Manifests \cup {Unset}
    /\ reviews \in {NoReviews} \cup (IF manifest = Unset THEN {} ELSE {ReviewsOf(manifest)})
    /\ begunWork = 0
    /\ worker = [w \in Workers |-> Asleep]
    /\ outFile \in {[inode |-> 0, lines |-> f] : f \in FirstFiles}
    /\ spare = FALSE
    /\ reviewedShapes = {<<t, reviews[t]>> : t \in DOMAIN reviews}
    /\ delivered = {}
    /\ ownLines = IF outFile.lines = Unset THEN <<>> ELSE OwnLines(outFile.lines)
    /\ truncated = FALSE
    /\ commits = 0

Proceed(w, r) == worker' = [worker EXCEPT ![w] = r]

\* An error on the way: nothing is undone, the process ends.
Leave(w) == Proceed(w, Asleep)

ByAgents(op) == op \in {"hasp_run", "hasp_inject", "hasp_job_start"}

\* The command line expands the target before it opens the vault.
BeginCommand(w, op, mode) ==
    /\ worker[w].pc = "idle" /\ begunWork < MaxStarts
    /\ (op = "write-env") = (mode # Unset)
    /\ Proceed(w, [Asleep EXCEPT !.pc = IF ByAgents(op) THEN "open" ELSE "plan",
                                !.op = op, !.mode = mode])
    /\ begunWork' = begunWork + 1
    /\ UNCHANGED <<manifest, reviews, outFile, spare, reviewedShapes,
                   delivered, ownLines, truncated, commits>>

\* What a program may receive; the rest is for files of the workspace.
ExpandExecutionTarget(e) == DOMAIN e.xcconfig = {} /\ DOMAIN e.outputs = {}

singleTargetOutput(e) == Cardinality(Range(e.outputs)) = 1

\* Lines of one kind; the target names the file, or the caller does.
ExpandForFile(e, given) ==
    /\ e.literal = {} /\ DOMAIN e.files = {}
    /\ DOMAIN e.env = {} \/ DOMAIN e.xcconfig = {}
    /\ DOMAIN e.env # {} \/ DOMAIN e.xcconfig # {}
    /\ given \/ (DOMAIN e.xcconfig # {} /\ singleTargetOutput(e))

NeedsFile(op, e) == op \in {"inject", "hasp_inject"} => DOMAIN e.files # {}

\* What each command asks of the target it expanded.
Fits(op, e, given) ==
    CASE op = "review" -> TRUE
      [] op = "write-env" -> ExpandForFile(e, given)
      [] OTHER -> ExpandExecutionTarget(e) /\ NeedsFile(op, e)

\* Target i of the manifest, 0: there is none.
Follow(w, i, given, next) ==
    IF i = 0 THEN Leave(w)
    ELSE \E e \in {ExpandManifestTarget(manifest, manifest.targets[i])} :
            IF Fits(worker[w].op, e, given)
            THEN Proceed(w, [worker[w] EXCEPT !.plan = e, !.pc = next])
            ELSE Leave(w)

\* The only reading of the manifest, by each command for itself.  (A command
\* without a target asks for nothing that is reviewed and is not followed.)
Plan(w, ops, name, given, next) ==
    /\ worker[w].pc = "plan" /\ worker[w].op \in ops
    /\ Follow(w, Target(manifest, name), given, next)
    /\ UNCHANGED <<manifest, reviews, outFile, spare, reviewedShapes, delivered,
                   ownLines, truncated, begunWork, commits>>

executeCommand(w, name) == Plan(w, {"run", "inject"}, name, FALSE, "open")

callExecute(w, name) ==
    Plan(w, {"hasp_run", "hasp_inject", "hasp_job_start"}, name, FALSE, "check")

writeEnvCommand(w, name, given) == Plan(w, {"write-env"}, name, given, "open")

projectTargetReview(w, name) == Plan(w, {"review"}, name, FALSE, "open")

\* Session, vault and binding: any of them may be missing.
OpenHandle(w) ==
    /\ worker[w].pc = "open"
    /\ \/ Leave(w)
       \/ Proceed(w, [worker[w] EXCEPT !.reviews = reviews,
                        !.pc = IF ByAgents(worker[w].op) THEN "plan"
                               ELSE IF worker[w].op = "review" THEN "record" ELSE "check"])
    /\ UNCHANGED <<manifest, reviews, outFile, spare, reviewedShapes, delivered,
                   ownLines, truncated, begunWork, commits>>

\* warnTargetDrift says so, and the command is refused.  Without --force or
\* --append an existing file is refused too.
CheckReview(w) ==
    /\ worker[w].pc = "check"
    /\ IF /\ RequireReviewedTarget(worker[w].reviews, worker[w].plan)
          /\ worker[w].mode = "plain" => outFile.lines = Unset
       THEN Proceed(w, [worker[w] EXCEPT !.pc = "authorize"])
       ELSE Leave(w)
    /\ UNCHANGED <<manifest, reviews, outFile, spare, reviewedShapes, delivered,
                   ownLines, truncated, begunWork, commits>>

\* Authorization reads the state of the vault again: its reviews too.
AuthorizeReferences(w) ==
    /\ worker[w].pc = "authorize"
    /\ \/ Leave(w)
       \/ Proceed(w, [worker[w] EXCEPT !.reviews = reviews,
                        !.pc = IF worker[w].op # "write-env" THEN "execute"
                               ELSE IF worker[w].mode = "append" THEN "merge" ELSE "truncate"])
    /\ UNCHANGED <<manifest, reviews, outFile, spare, reviewedShapes, delivered,
                   ownLines, truncated, begunWork, commits>>

Deliver(w) == delivered' = delivered \cup {<<worker[w].plan.target, Signature(worker[w].plan)>>}

\* The program runs, and may fail.  A run by hand that succeeds renews the
\* review; one by an agent, or a job handed to the daemon, does not.
Execute(w) ==
    /\ worker[w].pc = "execute"
    /\ Deliver(w)
    /\ \/ Leave(w)
       \/ ~ByAgents(worker[w].op) /\ Proceed(w, [worker[w] EXCEPT !.pc = "record"])
    /\ UNCHANGED <<manifest, reviews, outFile, spare, reviewedShapes,
                   ownLines, truncated, begunWork, commits>>

WithReview(rs, e) == [t \in DOMAIN rs \cup {e.target} |-> IF t = e.target THEN Signature(e) ELSE rs[t]]

\* The whole state of the handle is saved, with this target's shape in it.
RecordManifestTargetReview(w) ==
    /\ worker[w].pc = "record"
    /\ reviews' = WithReview(worker[w].reviews, worker[w].plan)
    /\ reviewedShapes' = IF worker[w].op # "review" THEN reviewedShapes
                         ELSE reviewedShapes \cup
                                {<<worker[w].plan.target, Signature(worker[w].plan)>>}
    /\ Leave(w)
    /\ UNCHANGED <<manifest, outFile, spare, delivered, ownLines, truncated, begunWork, commits>>

-----------------------------------------------------------------------------
(* write-env: append by a temporary file and a rename, else in place.       *)

Merge(w) ==
    LET old == IF outFile.lines = Unset THEN <<>> ELSE outFile.lines IN
    /\ worker[w].pc = "merge"
    /\ IF Begins(old) > 1 THEN Leave(w)
       ELSE Proceed(w, [worker[w] EXCEPT !.lines = spliceBlock(old), !.pc = "spare"])
    /\ UNCHANGED <<manifest, reviews, outFile, spare, reviewedShapes, delivered,
                   ownLines, truncated, begunWork, commits>>

WriteSpare(w) ==
    /\ worker[w].pc = "spare"
    /\ IF spare THEN Leave(w) ELSE Proceed(w, [worker[w] EXCEPT !.pc = "rename"])
    /\ spare' = TRUE
    /\ UNCHANGED <<manifest, reviews, outFile, reviewedShapes, delivered, ownLines,
                   truncated, begunWork, commits>>

RenameSpare(w) ==
    /\ worker[w].pc = "rename"
    /\ outFile' = [inode |-> outFile.inode + 1, lines |-> worker[w].lines]
    /\ spare' = FALSE
    /\ Deliver(w)
    /\ Proceed(w, [worker[w] EXCEPT !.pc = "record"])
    /\ UNCHANGED <<manifest, reviews, reviewedShapes, ownLines, truncated, begunWork, commits>>

\* Writing or renaming fails: the temporary file is removed.
SpareFails(w) ==
    /\ worker[w].pc = "rename"
    /\ spare' = FALSE
    /\ Leave(w)
    /\ UNCHANGED <<manifest, reviews, outFile, reviewedShapes, delivered, ownLines,
                   truncated, begunWork, commits>>

Truncate(w) ==
    /\ worker[w].pc = "truncate"
    /\ outFile' = [outFile EXCEPT !.lines = <<>>]
    /\ truncated' = (truncated \/ worker[w].mode = "force")
    /\ Proceed(w, [worker[w] EXCEPT !.pc = "fill", !.inode = outFile.inode])
    /\ UNCHANGED <<manifest, reviews, spare, reviewedShapes, delivered, ownLines,
                   begunWork, commits>>

\* The open file may be another one than the name stands for by now.
Fill(w) ==
    /\ worker[w].pc = "fill"
    /\ outFile' = IF worker[w].inode = outFile.inode
                  THEN [outFile EXCEPT !.lines = <<"secret">>] ELSE outFile
    /\ Deliver(w)
    /\ Proceed(w, [worker[w] EXCEPT !.pc = "record"])
    /\ UNCHANGED <<manifest, reviews, spare, reviewedShapes, ownLines, truncated,
                   begunWork, commits>>

\* A process dies: its temporary file stays.
Perish(w) ==
    /\ worker[w].pc \in {"execute", "record", "spare", "rename", "fill"}
    /\ Leave(w)
    /\ UNCHANGED <<manifest, reviews, outFile, spare, reviewedShapes, delivered,
                   ownLines, truncated, begunWork, commits>>

-----------------------------------------------------------------------------
(* The manifest by command *)

loadOrCreateProjectManifest == IF manifest = Unset THEN FreshManifest ELSE manifest

\* The reference's requirement, and a declaration of its item if none is there.
ensureManifestRequirementForNamedRef(m, r) ==
    IF Requirement(m, r) THEN m
    ELSE LET free  == SelectInSeq(Aliases, LAMBDA a : a \notin DOMAIN m.refs)
             refs  == IF manifestReferenceDeclared(m, r) THEN m.refs
                      ELSE [a \in DOMAIN m.refs \cup {Aliases[free]} |->
                               IF a \in DOMAIN m.refs THEN m.refs[a] ELSE NamedRefs[r]]
         IN  [m EXCEPT !.refs = refs,
                       !.reqs = Append(@, [ref |-> r, kind |-> "kv", class |-> "secret"])]

WithTarget(m) ==
    [ensureManifestRequirementForNamedRef(m, AddedRef) EXCEPT !.targets = Append(@,
        [name |-> Added, root |-> ".", command |-> "added", literal |-> {},
         delivery |-> <<[as |-> "env", name |-> "ADDED", ref |-> AddedRef, set |-> Unset,
                         role |-> Unset, output |-> Unset]>>])]

\* `project init' refuses a manifest that is there.
projectManifestInit(w) ==
    /\ worker[w].pc = "idle" /\ begunWork < MaxStarts
    /\ manifest = Unset
    /\ manifest' = FreshManifest
    /\ begunWork' = begunWork + 1
    /\ UNCHANGED <<reviews, worker, outFile, spare, reviewedShapes, delivered,
                   ownLines, truncated, commits>>

\* `project target add' reads, adds and checks ...
projectTargetAdd(w) ==
    /\ worker[w].pc = "plan" /\ worker[w].op = "add"
    /\ \E m \in {loadOrCreateProjectManifest} :
          IF Validate(m) /\ (\A t \in ToSet(m.targets) : t.name # Added) /\ Validate(WithTarget(m))
          THEN Proceed(w, [worker[w] EXCEPT !.plan = WithTarget(m), !.pc = "commit"])
          ELSE Leave(w)
    /\ UNCHANGED <<manifest, reviews, outFile, spare, reviewedShapes, delivered,
                   ownLines, truncated, begunWork, commits>>

\* ... and writes what it made of it.
writeProjectManifest(w) ==
    /\ worker[w].pc = "commit"
    /\ manifest' = worker[w].plan
    /\ Leave(w)
    /\ UNCHANGED <<reviews, outFile, spare, reviewedShapes, delivered, ownLines,
                   truncated, begunWork, commits>>

\* A commit, a pull, an editor.
Commit(m) ==
    /\ commits < MaxCommits /\ m # manifest
    /\ manifest' = m
    /\ commits' = commits + 1
    /\ UNCHANGED <<reviews, worker, outFile, spare, reviewedShapes, delivered,
                   ownLines, truncated, begunWork>>

TargetsNext ==
    \/ \E m \in Manifests : Commit(m)
    \/ \E w \in Workers :
         \/ \E op \in {"run", "inject", "write-env", "hasp_run", "hasp_inject", "hasp_job_start",
                       "review", "add"}, mode \in {"plain", "force", "append", Unset} :
               BeginCommand(w, op, mode)
         \/ \E name \in TargetNames :
               \/ executeCommand(w, name) \/ callExecute(w, name) \/ projectTargetReview(w, name)
               \/ \E given \in BOOLEAN : writeEnvCommand(w, name, given)
         \/ OpenHandle(w) \/ CheckReview(w) \/ AuthorizeReferences(w) \/ Execute(w)
         \/ RecordManifestTargetReview(w)
         \/ Merge(w) \/ WriteSpare(w) \/ RenameSpare(w) \/ SpareFails(w)
         \/ Truncate(w) \/ Fill(w) \/ Perish(w)
         \/ projectManifestInit(w) \/ projectTargetAdd(w) \/ writeProjectManifest(w)

TargetsSpec == TargetsInit /\ [][TargetsNext]_targetVars

-----------------------------------------------------------------------------
(* Properties *)

\* "If the committed manifest later changes those pieces, execution requires
\* renewed local review": secrets go only to a shape that a review command
\* recorded, whatever is committed while commands are under way, and a
\* command that records its own run adds nothing a person did not see.
ReviewedBeforeRun ==
    /\ delivered \subseteq reviewedShapes
    /\ \A t \in DOMAIN reviews : <<t, reviews[t]>> \in reviewedShapes

\* write-env --append replaces its own block: the user's lines of the file
\* survive, in order, unless somebody asked to overwrite it, also when two
\* commands write at once or one dies half way.
OwnLinesKept ==
    ~truncated => /\ outFile.lines # Unset => OwnLines(outFile.lines) = ownLines
                  /\ ownLines # <<>> => outFile.lines # Unset
=============================================================================
