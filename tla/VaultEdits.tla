----------------------------- MODULE VaultEdits -----------------------------
(***************************************************************************)
(* The documents inside the vault (items, bindings, policy, configuration) *)
(* as the commands edit them.  A process opens the vault and holds a copy  *)
(* of the whole state; each edit changes the copy and saves all of it.     *)
(* Some edits read the file again first, under a lock that only threads of *)
(* one process share.  A command is a sequence of edits of one handle.     *)
(* Grants live in VaultGrants, the file itself in VaultEnvelope.           *)
(***************************************************************************)
EXTENDS Integers, Sequences, FiniteSets, Functions

CONSTANTS
    Editors,      \* processes
    Names,        \* names of items
    Contents,     \* values of items
    Projects,     \* directories of one repository
    Toplevel,     \* the one that git calls its top level
    Neutral,      \* neutral aliases (secret_01...), numbers
    Given,        \* aliases people choose, numbers too
    AutoProtect,  \* are repositories bound on first use?
    Manifest,     \* the references of the repository's manifest: alias -> item
    MaxSaves,     \* bound on the saves of a behaviour
    NoPath

VARIABLES
    vaultDoc,     \* the state in the vault file
    editor,       \* per process: its handle, the edits left, the answer to a hide
    saves,        \* number of saves
    classified    \* history: what was in place when an operator called it configuration

editVars == <<vaultDoc, editor, saves, classified>>

ASSUME EditAssumption ==
    /\ Toplevel \in Projects
    /\ Neutral \cup Given \cup DOMAIN Manifest \subseteq Nat
    /\ AutoProtect \in BOOLEAN
    /\ MaxSaves \in Nat

-----------------------------------------------------------------------------
(* The documents.  An item that is deleted keeps its record.  `life' counts *)
(* the times its name came into use; an alias made by exposing an item      *)
(* remembers which life it was made for (0: an alias somebody spelled out). *)

NoItemYet == [live |-> FALSE, life |-> 0, content |-> NoPath, class |-> "confidential"]

EmptyDoc == [items    |-> [n \in Names |-> NoItemYet],
             bindings |-> [p \in Projects |-> NoPath],
             policy   |-> 0,
             config   |-> NoPath]

Bound(d, p) == d.bindings[p] # NoPath

LocalAliases(d, p) == IF Bound(d, p) THEN d.bindings[p] ELSE <<>>

GetItem(d, n) == d.items[n].live

EffectiveClassification(d, n) == d.items[n].class

\* The directory whose binding serves a path: its own, else git's top level.
bindingRoot(d, p) == IF Bound(d, p) THEN p ELSE Toplevel

CanonicalProjectRoot(p) == Toplevel

\* Aliases of the manifest and of the binding together, unless they disagree.
Conflict(d, p) ==
    \E a \in DOMAIN Manifest \cap DOMAIN LocalAliases(d, bindingRoot(d, p)) :
        LocalAliases(d, bindingRoot(d, p))[a].item # Manifest[a]

resolvedBinding(d, p) ==
    [a \in DOMAIN Manifest \cup DOMAIN LocalAliases(d, bindingRoot(d, p)) |->
        IF a \in DOMAIN Manifest THEN Manifest[a]
        ELSE LocalAliases(d, bindingRoot(d, p))[a].item]

\* The view of a binding fails when one of its aliases names nothing.
MissingItems(d, p) ==
    {n \in Range(resolvedBinding(d, p)) : ~GetItem(d, n)}

ResolveBindingView(d, p) == ~Conflict(d, p) /\ MissingItems(d, p) = {}

ItemExposures(d, n) ==
    {x \in Projects \X (Neutral \cup Given \cup DOMAIN Manifest) :
        x[2] \in DOMAIN LocalAliases(d, x[1]) /\ LocalAliases(d, x[1])[x[2]].item = n}

-----------------------------------------------------------------------------
(* Edits of the documents *)

\* Every new value starts out confidential.
UpsertItem(d, n, c) ==
    [d EXCEPT !.items[n] = [live    |-> TRUE,
                            life    |-> IF @.live THEN @.life ELSE @.life + 1,
                            content |-> c,
                            class   |-> "confidential"]]

\* Mutant: the bindings keep their aliases.
removeItemFromBindings_Skipped(d, n) == d

removeItemFromBindings(d, n) ==
    [d EXCEPT !.bindings = [p \in Projects |->
        IF Bound(d, p)
        THEN Restrict(d.bindings[p],
                      {a \in DOMAIN d.bindings[p] : d.bindings[p][a].item # n})
        ELSE NoPath]]

DeleteItem(d, n) ==
    removeItemFromBindings([d EXCEPT !.items[n].live = FALSE], n)

\* The first neutral alias that the binding does not use.
GenerateNeutralAlias(aliases) ==
    CHOOSE a \in Neutral \ DOMAIN aliases :
        \A b \in Neutral \ DOMAIN aliases : a <= b

AliasFree(d, p) == Neutral \ DOMAIN LocalAliases(d, bindingRoot(d, p)) # {}

With(aliases, more) ==
    [a \in DOMAIN aliases \cup DOMAIN more |->
        IF a \in DOMAIN more THEN more[a] ELSE aliases[a]]

BindItemAlias(d, p, n) ==
    LET root    == bindingRoot(d, p)
        aliases == LocalAliases(d, root)
    IN  IF \E a \in DOMAIN aliases : aliases[a].item = n THEN d
        ELSE [d EXCEPT !.bindings[root] =
                 With(aliases, [a \in {GenerateNeutralAlias(aliases)} |->
                                   [item |-> n, life |-> d.items[n].life]])]

\* Binding a directory: exactly that one, with the aliases as they are given.
UpsertBinding(d, p, aliases) ==
    [d EXCEPT !.bindings[p] =
        With(LocalAliases(d, p),
             [a \in DOMAIN aliases |-> [item |-> aliases[a], life |-> 0]])]

DeleteBinding(d, p) == [d EXCEPT !.bindings[bindingRoot(d, p)] = NoPath]

\* A repository that is not bound yet is bound at its top level, with the
\* aliases of its manifest.
EnsureExplicit(d, p) ==
    IF Bound(d, bindingRoot(d, p)) THEN d
    ELSE UpsertBinding(d, CanonicalProjectRoot(p), resolvedBinding(d, p))

HideItemFromProject(d, p, n) ==
    LET root == CanonicalProjectRoot(p) IN
    IF ~Bound(d, root) THEN d
    ELSE [d EXCEPT !.bindings[root] =
             Restrict(@, {a \in DOMAIN @ : @[a].item # n})]

SetItemClassification(d, n, class) == [d EXCEPT !.items[n].class = class]

SetConfigValue(d, v) == [d EXCEPT !.config = v]

ReplacePolicy(d, version) == [d EXCEPT !.policy = version]

-----------------------------------------------------------------------------
(* Edits as the commands name them.  An edit is refused in a state where    *)
(* the code returns an error, and then the command ends.                    *)

Edit(op, n, p, x) == [op |-> op, name |-> n, path |-> p, arg |-> x]

NoName == CHOOSE n \in Names : TRUE

Put(n, c)       == Edit("put", n, NoPath, c)
New(n, c)       == Edit("new", n, NoPath, c)
Change(n, c)    == Edit("change", n, NoPath, c)
Delete(n)       == Edit("delete", n, NoPath, NoPath)
Expose(p, n)    == Edit("expose", n, p, NoPath)
Hide(p, n)      == Edit("hide", n, p, NoPath)
Ensure(p)       == Edit("ensure", NoName, p, {})
EnsureBut(p, n) == Edit("ensure", NoName, p, {n})
EnsureAuto(p)   == Edit("auto", NoName, p, {})
Bind(p, as)     == Edit("bind", NoName, p, as)
RemoveAlias(p)       == Edit("unbind", NoName, p, NoPath)
Classify(n, k)  == Edit("classify", n, NoPath, k)
Configure(v)    == Edit("config", NoName, NoPath, v)
Policy(v, old)  == Edit("policy", NoName, NoPath, <<v, old>>)
Reread          == Edit("reread", NoName, NoPath, NoPath)

Applied(d, e) ==
    CASE e.op \in {"put", "new", "change"} -> UpsertItem(d, e.name, e.arg)
      [] e.op = "delete"   -> DeleteItem(d, e.name)
      [] e.op = "expose"   -> BindItemAlias(d, e.path, e.name)
      [] e.op = "hide"     -> HideItemFromProject(d, e.path, e.name)
      [] e.op \in {"ensure", "auto"} -> EnsureExplicit(d, e.path)
      [] e.op = "bind"     -> UpsertBinding(d, e.path, e.arg)
      [] e.op = "unbind"   -> DeleteBinding(d, e.path)
      [] e.op = "classify" -> SetItemClassification(d, e.name, e.arg)
      [] e.op = "config"   -> SetConfigValue(d, e.arg)
      [] e.op = "policy"   -> ReplacePolicy(d, e.arg[1])
      [] OTHER             -> d

Refused(d, e) ==
    \/ e.op = "new" /\ GetItem(d, e.name)
    \/ e.op \in {"change", "delete", "expose", "classify"} /\ ~GetItem(d, e.name)
    \/ e.op = "expose" /\ ~AliasFree(d, e.path)
    \/ e.op = "auto" /\ ~Bound(d, bindingRoot(d, e.path)) /\ ~AutoProtect
    \/ /\ e.op \in {"ensure", "auto"}
       /\ Conflict(d, e.path) \/ MissingItems(d, e.path) \ e.arg # {}
    \/ e.op = "policy" /\ e.arg[2] # d.policy

\* These read the file again, and work on what they find there.
Rereads(e) == e.op \in {"classify", "config", "policy", "reread"}

-----------------------------------------------------------------------------
(* The commands *)

\* Each input: a name in use is refused or, when the operator says so,
\* replaced; then the item is exposed where that was asked for.
secretAddPersistInputs(n, c, p, replace, expose) ==
    <<IF replace THEN Put(n, c) ELSE New(n, c)>>
        \o (IF expose THEN <<Ensure(p), Expose(p, n)>> ELSE <<>>)

\* The binding is there before anything is saved; an alias that waits for the
\* very item being added is tolerated.
secretAdd(n, c, p, replace, expose) ==
    (IF expose THEN <<EnsureBut(p, n)>> ELSE <<>>)
        \o secretAddPersistInputs(n, c, p, replace, expose)

secretUpdate(n, c) == <<Change(n, c)>>

\* Rotation also withdraws the grants of the item, which reads again.
secretRotate(n, c) == <<Change(n, c), Reread>>

secretDelete(n) == <<Delete(n)>>

secretExpose(p, n) == <<Ensure(p), Expose(p, n)>>

secretHide(p, n) == <<Hide(p, n)>>

secretClassify(n, k) == <<Classify(n, k)>>

Imported(ns, c, p, bind) ==
    [i \in DOMAIN ns |-> Put(ns[i], c)]
        \o (IF bind THEN [i \in DOMAIN ns |-> Expose(p, ns[i])] ELSE <<>>)

setValue(n, c) == <<Put(n, c)>>

Capture(n, c, p, bind) ==
    <<Put(n, c)>> \o (IF bind THEN <<Expose(p, n)>> ELSE <<>>)

\* Authorization of a capture reads the grants again.
captureCommand(n, c, p, bind) == <<EnsureAuto(p), Reread>> \o Capture(n, c, p, bind)

projectBind(p, as) == <<Bind(p, as)>>

projectUnbind(p) == <<RemoveAlias(p)>>

\* The same edits by an agent: a mutation grant is consumed first, and the
\* path is the root of the binding that was found.
callSecretUpsert(d, n, c, p, replace, expose) ==
    IF GetItem(d, n) # replace THEN <<>>
    ELSE IF expose THEN <<Ensure(p), Reread>> \o Capture(n, c, p, TRUE)
    ELSE <<Put(n, c)>>

callSecretDelete(n, p) == <<Ensure(p), Reread, Delete(n)>>

callSecretExpose(d, p, n) == <<Ensure(p), Reread, Expose(bindingRoot(d, p), n)>>

callSecretHide(d, p, n) == <<Ensure(p), Reread, Hide(bindingRoot(d, p), n)>>

configSet(v) == <<Configure(v)>>

\* The new version is fresh; the version to replace was read some time ago.
policySet(old) == <<Policy(saves + 1, old)>>

\* A command line resolves its directory to the top level of the repository.
ByHand ==
    UNION { {secretAdd(n, c, Toplevel, r, x) :
                n \in Names, c \in Contents, r \in BOOLEAN, x \in BOOLEAN},
            {secretUpdate(n, c) : n \in Names, c \in Contents},
            {secretRotate(n, c) : n \in Names, c \in Contents},
            {secretDelete(n) : n \in Names},
            {secretExpose(Toplevel, n) : n \in Names},
            {secretHide(Toplevel, n) : n \in Names},
            {secretClassify(n, k) : n \in Names, k \in {"confidential", "configuration"}},
            {setValue(n, c) : n \in Names, c \in Contents},
            {Imported(<<n>>, c, p, b) :
                n \in Names, c \in Contents, p \in Projects, b \in BOOLEAN},
            {captureCommand(n, c, p, b) :
                n \in Names, c \in Contents, p \in Projects, b \in BOOLEAN},
            {projectBind(p, as) : p \in Projects,
                as \in {<<>>} \cup [Given -> Names]},
            {projectUnbind(p) : p \in Projects},
            {configSet(c) : c \in Contents},
            {policySet(old) : old \in 0..vaultDoc.policy} }

ByAgent(d) ==
    UNION { {callSecretUpsert(d, n, c, p, r, x) : n \in Names, c \in Contents,
                p \in Projects, r \in BOOLEAN, x \in BOOLEAN},
            {callSecretDelete(n, p) : n \in Names, p \in Projects},
            {callSecretExpose(d, p, n) : n \in Names, p \in Projects},
            {callSecretHide(d, p, n) : n \in Names, p \in Projects} }

-----------------------------------------------------------------------------
(* Processes *)

Resting == [todo |-> <<>>, doc |-> EmptyDoc, read |-> FALSE]

\* What an edit leaves to do.
After(e, next) ==
    IF Len(editor[e].todo) > 1
    THEN [editor[e] EXCEPT !.todo = Tail(@), !.doc = next, !.read = FALSE]
    ELSE Resting

\* What an import leaves that binds its item.
Exposed(n, c) == Applied(Applied(EmptyDoc, Put(n, c)), Expose(Toplevel, n))

\* A new vault, or one whose items are exposed, also as configuration.
EditInit ==
    /\ \/ vaultDoc = EmptyDoc
       \/ \E n \in Names, c \in Contents, class \in {"confidential", "configuration"} :
              vaultDoc = SetItemClassification(Exposed(n, c), n, class)
    /\ editor = [e \in Editors |-> Resting]
    /\ saves = 0
    /\ classified = {<<n, vaultDoc.items[n].content>> :
                        n \in {x \in Names : EffectiveClassification(vaultDoc, x) = "configuration"}}

\* A command opens the vault and copies its state.
OpenVault(e) ==
    /\ editor[e].todo = <<>>
    /\ saves < MaxSaves
    /\ \E cmd \in ByHand \cup ByAgent(vaultDoc) :
          editor' = [editor EXCEPT ![e] =
              [Resting EXCEPT !.todo = cmd, !.doc = vaultDoc]]
    /\ UNCHANGED <<vaultDoc, saves, classified>>

\* An edit that wants the latest state reads it before it writes.
ReadAgain(e) ==
    /\ editor[e].todo # <<>>
    /\ Rereads(Head(editor[e].todo)) /\ ~editor[e].read
    /\ editor' = [editor EXCEPT ![e].doc = vaultDoc, ![e].read = TRUE]
    /\ UNCHANGED <<vaultDoc, saves, classified>>

Ready(e) ==
    /\ editor[e].todo # <<>>
    /\ Rereads(Head(editor[e].todo)) => editor[e].read

\* Hiding what is hidden, exposing what is exposed and a binding that is there
\* already return early.  Whether the grants changed is VaultGrants' matter.
ReturnsEarly(d, edit) ==
    edit.op \in {"hide", "expose", "ensure", "auto"} /\ Applied(d, edit) = d

\* The edit, and the save of the whole state.
Save(e) ==
    LET edit == Head(editor[e].todo)
        next == Applied(editor[e].doc, edit)
    IN  /\ Ready(e)
        /\ ~Refused(editor[e].doc, edit) /\ ~ReturnsEarly(editor[e].doc, edit)
        /\ saves < MaxSaves
        /\ editor' = [editor EXCEPT ![e] = After(e, next)]
        /\ vaultDoc' = next
        /\ saves' = saves + 1
        /\ classified' = IF edit.op = "classify" /\ edit.arg = "configuration"
                         THEN classified \cup {<<edit.name, next.items[edit.name].content>>}
                         ELSE classified

\* An edit with nothing to do saves nothing.
Skip(e) ==
    LET edit == Head(editor[e].todo) IN
    /\ Ready(e)
    /\ ~Refused(editor[e].doc, edit)
    /\ ReturnsEarly(editor[e].doc, edit) \/ edit.op = "reread"
    /\ editor' = [editor EXCEPT ![e] = After(e, editor[e].doc)]
    /\ UNCHANGED <<vaultDoc, saves, classified>>

GiveUp(e) ==
    /\ Ready(e)
    /\ Refused(editor[e].doc, Head(editor[e].todo))
    /\ editor' = [editor EXCEPT ![e] = Resting]
    /\ UNCHANGED <<vaultDoc, saves, classified>>

EditNext == \E e \in Editors : \/ OpenVault(e) \/ ReadAgain(e)
                               \/ Save(e) \/ Skip(e) \/ GiveUp(e)

EditSpec == EditInit /\ [][EditNext]_editVars

-----------------------------------------------------------------------------
(* Properties *)

\* What leaves the vault is what somebody meant to let out, however the saves of
\* whole states overtake each other.  "Every value upsert resets it to
\* confidential": what passes unredacted as configuration is a content an
\* operator called configuration.  And an alias made by exposing an item serves
\* that item and no later one of the same name: deleting a secret and adding
\* another under its name exposes the new one nowhere.
ExposedOnPurpose ==
    /\ \A n \in Names : GetItem(vaultDoc, n) /\ EffectiveClassification(vaultDoc, n) = "configuration"
           => <<n, vaultDoc.items[n].content>> \in classified
    /\ \A p \in Projects : \A a \in DOMAIN LocalAliases(vaultDoc, p) :
        LET alias == LocalAliases(vaultDoc, p)[a] IN
        alias.life # 0 => /\ GetItem(vaultDoc, alias.item)
                          /\ vaultDoc.items[alias.item].life = alias.life
=============================================================================
