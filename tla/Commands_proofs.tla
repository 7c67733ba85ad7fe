--------------------------- MODULE Commands_proofs ---------------------------
(***************************************************************************)
(* Proofs about the commands: edits of the vault's document (VaultEdits),  *)
(* targets of the manifest and the file of write-env (Targets), application *)
(* profiles (Apps), telemetry (Telemetry) and the clients' configurations  *)
(* (Agents), for any number of processes, items, projects and targets.     *)
(***************************************************************************)
EXTENDS VaultEdits, Targets, Agents, Apps, Telemetry,
        FiniteSetTheorems, SequenceTheorems, WellFoundedInduction, TLAPS

(***************************************************************************)
(* Vault edits: VaultEdits.  The argument: every document, the vault's and *)
(* each editor's copy, has live items behind the aliases that exposing made, *)
(* because deleting an item drops its aliases in the same document and a new *)
(* item of that name has another life.                                     *)
(***************************************************************************)

DocFields == {"items", "bindings", "policy", "config"}
ItemFields == {"live", "life", "content", "class"}

DocShaped(d) ==
    /\ DOMAIN d = DocFields /\ DOMAIN d.items = Names /\ DOMAIN d.bindings = Projects
    /\ \A n \in Names : DOMAIN d.items[n] = ItemFields

\* An alias made by exposing an item names it, in the life it was made for.
AliasKept(d, alias) ==
    alias.life # 0 => /\ alias.item \in Names /\ d.items[alias.item].live
                      /\ d.items[alias.item].life = alias.life

AliasesKept(d) ==
    \A p \in Projects : \A a \in DOMAIN LocalAliases(d, p) :
        AliasKept(d, LocalAliases(d, p)[a])

ConfigurationCalled(d, called) ==
    \A n \in Names : d.items[n].live /\ d.items[n].class = "configuration"
        => <<n, d.items[n].content>> \in called

DocKept(d, called) == DocShaped(d) /\ AliasesKept(d) /\ ConfigurationCalled(d, called)

\* What a command may be made of.
EditArgs == Contents \cup {NoPath, "confidential", "configuration", <<>>}
                \cup (SUBSET Names) \cup [Given -> Names] \cup (Int \X Int)

EditOK(x) ==
    /\ x.op \in {"put", "new", "change", "delete", "expose", "hide", "classify"} => x.name \in Names
    /\ x.op \in {"expose", "hide", "ensure", "auto", "bind", "unbind"} => x.path \in Projects

EditOps == {"put", "new", "change", "delete", "expose", "hide", "ensure", "auto", "bind", "unbind",
        "classify", "config", "policy", "reread"}

Edits == {x \in [op : EditOps, name : Names \cup {NoName}, path : Projects \cup {NoPath},
                 arg : EditArgs] : EditOK(x)}

EditorFields == {"todo", "doc", "read"}

EditorKept(r) ==
    /\ DOMAIN r = EditorFields /\ r.todo \in Seq(Edits) /\ DocKept(r.doc, classified)

EditsInv == /\ DocKept(vaultDoc, classified) /\ saves \in Nat
            /\ DOMAIN editor = Editors
            /\ \A e \in Editors : EditorKept(editor[e])

-----------------------------------------------------------------------------
(* The edits of a document *)

\* Aliases of another document: those that are there were there, or are fine.
LEMMA AliasesFrom ==
    ASSUME NEW d, NEW f, DocShaped(f),
           \A p \in Projects : f.bindings[p] = NoPath \/
               \A a \in DOMAIN f.bindings[p] : AliasKept(f, f.bindings[p][a])
    PROVE  AliasesKept(f)
BY DEF AliasesKept, LocalAliases, Bound, DocShaped

LEMMA AliasesThere ==
    ASSUME NEW d, AliasesKept(d), NEW p \in Projects, d.bindings[p] # NoPath
    PROVE  \A a \in DOMAIN d.bindings[p] : AliasKept(d, d.bindings[p][a])
BY DEF AliasesKept, LocalAliases, Bound

LEMMA UpsertKept ==
    ASSUME NEW d, NEW called, DocKept(d, called), NEW n \in Names, NEW c
    PROVE  DocKept(UpsertItem(d, n, c), called) /\ UpsertItem(d, n, c).items[n].live
<1> DEFINE r == [live |-> TRUE, life |-> IF d.items[n].live THEN d.items[n].life ELSE d.items[n].life + 1,
                 content |-> c, class |-> "confidential"]
           f == UpsertItem(d, n, c)
<1>1. f = [d EXCEPT !.items[n] = r]
  BY DEF UpsertItem
<1>2. /\ DOMAIN r = ItemFields /\ r.live = TRUE /\ r.class = "confidential"
      /\ d.items[n].live => r.life = d.items[n].life
  BY DEF ItemFields
<1> HIDE DEF r, f
<1>3. DOMAIN d = DocFields /\ DOMAIN d.items = Names /\ DOMAIN d.bindings = Projects
      /\ \A m \in Names : DOMAIN d.items[m] = ItemFields
  BY DEF DocKept, DocShaped
<1>4. /\ DOMAIN f = DocFields /\ f.bindings = d.bindings /\ f.items = [d.items EXCEPT ![n] = r]
  BY <1>1, <1>3 DEF DocFields
<1>5. /\ DOMAIN f.items = Names /\ f.items[n] = r
      /\ \A m \in Names : m # n => f.items[m] = d.items[m]
  BY <1>3, <1>4
<1>6. DocShaped(f)
  BY <1>2, <1>3, <1>4, <1>5 DEF DocShaped
<1>7. ASSUME NEW x, AliasKept(d, x) PROVE AliasKept(f, x)
  BY <1>2, <1>5, <1>7 DEF AliasKept
<1>8. AliasesKept(f)
  BY <1>4, <1>6, <1>7, AliasesFrom, AliasesThere DEF DocKept
<1>9. ConfigurationCalled(f, called)
  BY <1>2, <1>5 DEF DocKept, ConfigurationCalled
<1> QED BY <1>2, <1>5, <1>6, <1>8, <1>9 DEF DocKept, f

LEMMA DeleteKept ==
    ASSUME NEW d, NEW called, DocKept(d, called), NEW n \in Names
    PROVE  DocKept(DeleteItem(d, n), called)
<1> DEFINE g == [d EXCEPT !.items[n].live = FALSE]
           b == [q \in Projects |->
                    IF Bound(g, q)
                    THEN Restrict(g.bindings[q], {a \in DOMAIN g.bindings[q] : g.bindings[q][a].item # n})
                    ELSE NoPath]
           f == DeleteItem(d, n)
<1>1. f = [g EXCEPT !.bindings = b]
  BY DEF DeleteItem, removeItemFromBindings
<1>2. DOMAIN d = DocFields /\ DOMAIN d.items = Names /\ DOMAIN d.bindings = Projects
      /\ \A m \in Names : DOMAIN d.items[m] = ItemFields
  BY DEF DocKept, DocShaped
<1>3. /\ DOMAIN g = DocFields /\ g.bindings = d.bindings /\ DOMAIN g.items = Names
      /\ g.items[n].live = FALSE /\ DOMAIN g.items[n] = ItemFields
      /\ \A m \in Names : m # n => g.items[m] = d.items[m]
  BY <1>2 DEF DocFields, ItemFields
<1>4. \A p \in Projects : b[p] = NoPath \/
         /\ d.bindings[p] # NoPath
         /\ \A a \in DOMAIN b[p] : /\ a \in DOMAIN d.bindings[p] /\ b[p][a] = d.bindings[p][a]
                                   /\ b[p][a].item # n
  BY <1>3 DEF Restrict, Bound
<1>5. DOMAIN b = Projects
  OBVIOUS
<1> HIDE DEF g, b, f
<1>6. DOMAIN f = DocFields /\ f.bindings = b /\ f.items = g.items
  BY <1>1, <1>3 DEF DocFields
<1>7. DocShaped(f)
  BY <1>2, <1>3, <1>5, <1>6 DEF DocShaped
<1>8. ASSUME NEW x, AliasKept(d, x), x.item # n PROVE AliasKept(f, x)
  BY <1>3, <1>6, <1>8 DEF AliasKept
<1>9. AliasesKept(f)
  BY <1>4, <1>6, <1>7, <1>8, AliasesFrom, AliasesThere DEF DocKept
<1>10. ConfigurationCalled(f, called)
  BY <1>3, <1>6 DEF DocKept, ConfigurationCalled
<1> QED BY <1>7, <1>9, <1>10 DEF DocKept, f

\* An edit of the binding of one directory.
LEMMA BindingKept ==
    ASSUME NEW d, NEW called, DocKept(d, called), NEW p \in Projects, NEW x,
           x = NoPath \/ \A a \in DOMAIN x : AliasKept(d, x[a]),
           NEW f, f = [d EXCEPT !.bindings[p] = x]
    PROVE  DocKept(f, called)
<1>1. DOMAIN d = DocFields /\ DOMAIN d.items = Names /\ DOMAIN d.bindings = Projects
      /\ \A m \in Names : DOMAIN d.items[m] = ItemFields
  BY DEF DocKept, DocShaped
<1>2. DOMAIN f = DocFields /\ f.items = d.items /\ DOMAIN f.bindings = Projects
      /\ f.bindings[p] = x /\ \A q \in Projects : q # p => f.bindings[q] = d.bindings[q]
  BY <1>1 DEF DocFields
<1>3. DocShaped(f)
  BY <1>1, <1>2 DEF DocShaped
<1>4. ASSUME NEW y, AliasKept(d, y) PROVE AliasKept(f, y)
  BY <1>2, <1>4 DEF AliasKept
<1>5. AliasesKept(f)
  <2>1. ASSUME NEW q \in Projects
        PROVE  f.bindings[q] = NoPath \/
                   \A a \in DOMAIN f.bindings[q] : AliasKept(f, f.bindings[q][a])
    <3>1. CASE q = p
      BY <1>2, <1>4, <3>1
    <3>2. CASE q # p
      BY <1>2, <1>4, <3>2, AliasesThere DEF DocKept
    <3> QED BY <3>1, <3>2
  <2> QED BY <1>3, <2>1, AliasesFrom
<1>6. ConfigurationCalled(f, called)
  BY <1>2 DEF DocKept, ConfigurationCalled
<1> QED BY <1>3, <1>5, <1>6 DEF DocKept

LEMMA RootsAreProjects ==
    ASSUME NEW d, NEW p \in Projects
    PROVE  bindingRoot(d, p) \in Projects /\ CanonicalProjectRoot(p) \in Projects
BY EditAssumption DEF bindingRoot, CanonicalProjectRoot

LEMMA WithKept ==
    ASSUME NEW d, NEW called, DocKept(d, called), NEW p \in Projects, NEW more,
           \A a \in DOMAIN more : AliasKept(d, more[a])
    PROVE  \A a \in DOMAIN With(LocalAliases(d, p), more) :
               AliasKept(d, With(LocalAliases(d, p), more)[a])
BY DEF With, DocKept, AliasesKept

LEMMA ExposeKept ==
    ASSUME NEW d, NEW called, DocKept(d, called), NEW n \in Names, NEW p \in Projects,
           d.items[n].live
    PROVE  DocKept(BindItemAlias(d, p, n), called)
<1> DEFINE root == bindingRoot(d, p)
           aliases == LocalAliases(d, root)
           more == [a \in {GenerateNeutralAlias(aliases)} |-> [item |-> n, life |-> d.items[n].life]]
<1>1. CASE BindItemAlias(d, p, n) = d
  BY <1>1
<1>2. CASE BindItemAlias(d, p, n) = [d EXCEPT !.bindings[root] = With(aliases, more)]
  <2>1. root \in Projects
    BY RootsAreProjects
  <2>2. \A a \in DOMAIN more : AliasKept(d, more[a])
    BY DEF AliasKept
  <2> HIDE DEF more, root
  <2>3. \A a \in DOMAIN With(aliases, more) : AliasKept(d, With(aliases, more)[a])
    BY <2>1, <2>2, WithKept
  <2> QED BY <1>2, <2>1, <2>3, BindingKept
<1> QED BY <1>1, <1>2 DEF BindItemAlias

LEMMA BindKept ==
    ASSUME NEW d, NEW called, DocKept(d, called), NEW p \in Projects, NEW aliases
    PROVE  DocKept(UpsertBinding(d, p, aliases), called)
<1> DEFINE more == [a \in DOMAIN aliases |-> [item |-> aliases[a], life |-> 0]]
           x == With(LocalAliases(d, p), more)
<1>1. \A a \in DOMAIN more : AliasKept(d, more[a])
  BY DEF AliasKept
<1> HIDE DEF more
<1>2. \A a \in DOMAIN x : AliasKept(d, x[a])
  BY <1>1, WithKept
<1>3. UpsertBinding(d, p, aliases) = [d EXCEPT !.bindings[p] = x]
  BY DEF UpsertBinding, more
<1> HIDE DEF x
<1> QED BY <1>2, <1>3, BindingKept

LEMMA EnsureKept ==
    ASSUME NEW d, NEW called, DocKept(d, called), NEW p \in Projects
    PROVE  DocKept(EnsureExplicit(d, p), called)
BY BindKept, RootsAreProjects DEF EnsureExplicit

LEMMA UnbindKept ==
    ASSUME NEW d, NEW called, DocKept(d, called), NEW p \in Projects
    PROVE  DocKept(DeleteBinding(d, p), called)
BY BindingKept, RootsAreProjects DEF DeleteBinding

LEMMA HideKept ==
    ASSUME NEW d, NEW called, DocKept(d, called), NEW p \in Projects, NEW n
    PROVE  DocKept(HideItemFromProject(d, p, n), called)
<1> DEFINE root == CanonicalProjectRoot(p)
           x == Restrict(d.bindings[root], {a \in DOMAIN d.bindings[root] : d.bindings[root][a].item # n})
<1>1. CASE HideItemFromProject(d, p, n) = d
  BY <1>1
<1>2. CASE Bound(d, root) /\ HideItemFromProject(d, p, n) = [d EXCEPT !.bindings[root] = x]
  <2>1. root \in Projects
    BY RootsAreProjects
  <2> HIDE DEF root
  <2>2. \A a \in DOMAIN x : AliasKept(d, x[a])
    BY <1>2, <2>1, AliasesThere DEF Restrict, DocKept, Bound
  <2> HIDE DEF x
  <2> QED BY <1>2, <2>1, <2>2, BindingKept
<1> QED BY <1>1, <1>2 DEF HideItemFromProject

LEMMA ClassifyKept ==
    ASSUME NEW d, NEW called, DocKept(d, called), NEW n \in Names, NEW class
    PROVE  LET f == SetItemClassification(d, n, class) IN
           DocKept(f, IF class = "configuration" THEN called \cup {<<n, f.items[n].content>>}
                      ELSE called)
<1> DEFINE f == SetItemClassification(d, n, class)
           now == IF class = "configuration" THEN called \cup {<<n, f.items[n].content>>} ELSE called
<1>1. DOMAIN d = DocFields /\ DOMAIN d.items = Names /\ DOMAIN d.bindings = Projects
      /\ \A m \in Names : DOMAIN d.items[m] = ItemFields
  BY DEF DocKept, DocShaped
<1>2. /\ DOMAIN f = DocFields /\ f.bindings = d.bindings /\ DOMAIN f.items = Names
      /\ DOMAIN f.items[n] = ItemFields /\ f.items[n].live = d.items[n].live
      /\ f.items[n].life = d.items[n].life /\ f.items[n].class = class
      /\ \A m \in Names : m # n => f.items[m] = d.items[m]
  BY <1>1 DEF DocFields, ItemFields, SetItemClassification
<1> HIDE DEF f
<1>3. DocShaped(f)
  BY <1>1, <1>2 DEF DocShaped
<1>4. ASSUME NEW y, AliasKept(d, y) PROVE AliasKept(f, y)
  BY <1>2, <1>4 DEF AliasKept
<1>5. AliasesKept(f)
  BY <1>2, <1>3, <1>4, AliasesFrom, AliasesThere DEF DocKept
<1>6. ConfigurationCalled(f, now)
  BY <1>2 DEF DocKept, ConfigurationCalled
<1> QED BY <1>3, <1>5, <1>6 DEF DocKept, f

LEMMA OthersKeptIn ==
    ASSUME NEW d, NEW called, DocKept(d, called), NEW v
    PROVE  DocKept(SetConfigValue(d, v), called) /\ DocKept(ReplacePolicy(d, v), called)
BY DEF DocKept, DocShaped, DocFields, AliasesKept, AliasKept, LocalAliases, Bound,
   ConfigurationCalled, SetConfigValue, ReplacePolicy

LEMMA AppliedKept ==
    ASSUME NEW d, NEW called, DocKept(d, called), NEW x \in Edits, ~Refused(d, x)
    PROVE  DocKept(Applied(d, x), IF x.op = "classify" /\ x.arg = "configuration"
                                  THEN called \cup {<<x.name, Applied(d, x).items[x.name].content>>}
                                  ELSE called)
<1>1. EditOK(x) /\ x.op \in EditOps
  BY DEF Edits
<1>2. CASE x.op \in {"put", "new", "change"}
  <2>1. x.name \in Names /\ Applied(d, x) = UpsertItem(d, x.name, x.arg)
    BY <1>1, <1>2 DEF EditOK, Applied
  <2> QED BY <1>2, <2>1, UpsertKept
<1>3. CASE x.op = "delete"
  <2>1. x.name \in Names /\ Applied(d, x) = DeleteItem(d, x.name)
    BY <1>1, <1>3 DEF EditOK, Applied
  <2> QED BY <1>3, <2>1, DeleteKept
<1>4. CASE x.op = "expose"
  <2>1. /\ x.name \in Names /\ x.path \in Projects /\ d.items[x.name].live
        /\ Applied(d, x) = BindItemAlias(d, x.path, x.name)
    BY <1>1, <1>4 DEF EditOK, Applied, Refused, GetItem
  <2> QED BY <1>4, <2>1, ExposeKept
<1>5. CASE x.op = "hide"
  <2>1. x.path \in Projects /\ Applied(d, x) = HideItemFromProject(d, x.path, x.name)
    BY <1>1, <1>5 DEF EditOK, Applied
  <2> QED BY <1>5, <2>1, HideKept
<1>6. CASE x.op \in {"ensure", "auto"}
  <2>1. x.path \in Projects /\ Applied(d, x) = EnsureExplicit(d, x.path)
    BY <1>1, <1>6 DEF EditOK, Applied
  <2> QED BY <1>6, <2>1, EnsureKept
<1>7. CASE x.op = "bind"
  <2>1. x.path \in Projects /\ Applied(d, x) = UpsertBinding(d, x.path, x.arg)
    BY <1>1, <1>7 DEF EditOK, Applied
  <2> QED BY <1>7, <2>1, BindKept
<1>8. CASE x.op = "unbind"
  <2>1. x.path \in Projects /\ Applied(d, x) = DeleteBinding(d, x.path)
    BY <1>1, <1>8 DEF EditOK, Applied
  <2> QED BY <1>8, <2>1, UnbindKept
<1>9. CASE x.op = "classify"
  <2>1. x.name \in Names /\ Applied(d, x) = SetItemClassification(d, x.name, x.arg)
    BY <1>1, <1>9 DEF EditOK, Applied
  <2> QED BY <1>9, <2>1, ClassifyKept
<1>10. CASE x.op \in {"config", "policy", "reread"}
  <2>1. Applied(d, x) \in {d, SetConfigValue(d, x.arg), ReplacePolicy(d, x.arg[1])}
    BY <1>10 DEF Applied
  <2> QED BY <1>10, <2>1, OthersKeptIn
<1> QED BY <1>1, <1>2, <1>3, <1>4, <1>5, <1>6, <1>7, <1>8, <1>9, <1>10 DEF EditOps

\* A document stays kept when more is called configuration.
LEMMA KeptGrows ==
    ASSUME NEW d, NEW called, DocKept(d, called), NEW now, called \subseteq now
    PROVE  DocKept(d, now)
BY DEF DocKept, ConfigurationCalled

LEMMA EmptyKept ==
    ASSUME NEW called
    PROVE  DocKept(EmptyDoc, called)
<1>1. DOMAIN EmptyDoc = DocFields /\ EmptyDoc.items = [n \in Names |-> NoItemYet]
      /\ EmptyDoc.bindings = [p \in Projects |-> NoPath]
  BY DEF EmptyDoc, DocFields
<1>2. DOMAIN NoItemYet = ItemFields /\ NoItemYet.live = FALSE
  BY DEF NoItemYet, ItemFields
<1> QED BY <1>1, <1>2 DEF DocKept, DocShaped, AliasesKept, LocalAliases, Bound, ConfigurationCalled

-----------------------------------------------------------------------------
(* The commands *)

LEMMA EachEdit ==
    /\ \A n \in Names : \A c \in Contents :
          Put(n, c) \in Edits /\ New(n, c) \in Edits /\ Change(n, c) \in Edits
    /\ \A n \in Names : Delete(n) \in Edits
    /\ \A p \in Projects : \A n \in Names :
          Expose(p, n) \in Edits /\ Hide(p, n) \in Edits /\ EnsureBut(p, n) \in Edits
    /\ \A p \in Projects : Ensure(p) \in Edits /\ EnsureAuto(p) \in Edits /\ RemoveAlias(p) \in Edits
    /\ \A p \in Projects : \A as \in {<<>>} \cup [Given -> Names] : Bind(p, as) \in Edits
    /\ \A n \in Names : \A k \in {"confidential", "configuration"} : Classify(n, k) \in Edits
    /\ \A v \in Contents : Configure(v) \in Edits
    /\ \A v, old \in Int : Policy(v, old) \in Edits
    /\ Reread \in Edits
<1>1. ASSUME NEW op \in EditOps, NEW n \in Names \cup {NoName}, NEW p \in Projects \cup {NoPath},
             NEW x \in EditArgs,
             op \in {"put", "new", "change", "delete", "expose", "hide", "classify"} => n \in Names,
             op \in {"expose", "hide", "ensure", "auto", "bind", "unbind"} => p \in Projects
      PROVE  Edit(op, n, p, x) \in Edits
  BY <1>1 DEF Edit, Edits, EditOK
<1>2. /\ Contents \subseteq EditArgs /\ NoPath \in EditArgs /\ SUBSET Names \subseteq EditArgs
      /\ {"confidential", "configuration"} \subseteq EditArgs
      /\ {<<>>} \cup [Given -> Names] \subseteq EditArgs /\ Int \X Int \subseteq EditArgs
  <2> DEFINE few == {NoPath, "confidential", "configuration", <<>>}
             subsets == SUBSET Names
             maps == [Given -> Names]
             pairs == Int \X Int
  <2>1. EditArgs = Contents \cup few \cup subsets \cup maps \cup pairs
    BY Zenon DEF EditArgs
  <2>2. NoPath \in few /\ {"confidential", "configuration"} \subseteq few /\ <<>> \in few
    OBVIOUS
  <2> HIDE DEF few, subsets, maps, pairs
  <2>3. /\ Contents \subseteq EditArgs /\ NoPath \in EditArgs /\ subsets \subseteq EditArgs
        /\ {"confidential", "configuration"} \subseteq EditArgs
        /\ <<>> \in EditArgs /\ maps \subseteq EditArgs /\ pairs \subseteq EditArgs
    BY <2>1, <2>2
  <2> QED BY <2>3 DEF subsets, maps, pairs
<1>3. ASSUME NEW n \in Names, NEW c \in Contents
      PROVE  Put(n, c) \in Edits /\ New(n, c) \in Edits /\ Change(n, c) \in Edits
  <2>1. c \in EditArgs
    BY <1>2
  <2> QED BY <1>1, <2>1 DEF Put, New, Change, EditOps
<1>4. ASSUME NEW n \in Names PROVE Delete(n) \in Edits
  BY <1>1, <1>2 DEF Delete, EditOps
<1>5. ASSUME NEW p \in Projects, NEW n \in Names
      PROVE  Expose(p, n) \in Edits /\ Hide(p, n) \in Edits /\ EnsureBut(p, n) \in Edits
  <2>1. {n} \in EditArgs
    BY <1>2
  <2> QED BY <1>1, <1>2, <2>1 DEF Expose, Hide, EnsureBut, EditOps
<1>6. ASSUME NEW p \in Projects
      PROVE  Ensure(p) \in Edits /\ EnsureAuto(p) \in Edits /\ RemoveAlias(p) \in Edits
  <2>1. {} \in EditArgs
    BY <1>2
  <2> QED BY <1>1, <1>2, <2>1 DEF Ensure, EnsureAuto, RemoveAlias, EditOps
<1>7. ASSUME NEW p \in Projects, NEW as \in {<<>>} \cup [Given -> Names]
      PROVE  Bind(p, as) \in Edits
  <2>1. as \in EditArgs
    BY <1>2
  <2> QED BY <1>1, <2>1 DEF Bind, EditOps
<1>8. ASSUME NEW n \in Names, NEW k \in {"confidential", "configuration"}
      PROVE  Classify(n, k) \in Edits
  <2>1. k \in EditArgs
    BY <1>2
  <2> QED BY <1>1, <2>1 DEF Classify, EditOps
<1>9. ASSUME NEW v \in Contents PROVE Configure(v) \in Edits
  <2>1. v \in EditArgs
    BY <1>2
  <2> QED BY <1>1, <2>1 DEF Configure, EditOps
<1>10. ASSUME NEW v \in Int, NEW old \in Int PROVE Policy(v, old) \in Edits
  <2>1. <<v, old>> \in EditArgs
    BY <1>2
  <2> QED BY <1>1, <2>1 DEF Policy, EditOps
<1>11. Reread \in Edits
  BY <1>1, <1>2 DEF Reread, EditOps
<1> QED BY <1>3, <1>4, <1>5, <1>6, <1>7, <1>8, <1>9, <1>10, <1>11

LEMMA OneEdit ==
    /\ <<>> \in Seq(Edits)
    /\ \A x \in Edits : <<x>> \in Seq(Edits)
    /\ \A x, y \in Edits : <<x, y>> \in Seq(Edits)
    /\ \A x, y, z \in Edits : <<x, y, z>> \in Seq(Edits)
    /\ \A s, t \in Seq(Edits) : s \o t \in Seq(Edits)
OBVIOUS

LEMMA CommandsOfNames ==
    ASSUME NEW n \in Names, NEW p \in Projects, NEW d
    PROVE  /\ secretDelete(n) \in Seq(Edits) /\ secretExpose(p, n) \in Seq(Edits)
           /\ secretHide(p, n) \in Seq(Edits) /\ callSecretDelete(n, p) \in Seq(Edits)
           /\ callSecretExpose(d, p, n) \in Seq(Edits) /\ callSecretHide(d, p, n) \in Seq(Edits)
<1>1. /\ Delete(n) \in Edits /\ Expose(p, n) \in Edits /\ Hide(p, n) \in Edits
      /\ Ensure(p) \in Edits /\ Reread \in Edits
  BY EachEdit
<1>2. bindingRoot(d, p) \in Projects
  BY RootsAreProjects
<1>3. Expose(bindingRoot(d, p), n) \in Edits /\ Hide(bindingRoot(d, p), n) \in Edits
  BY <1>2, EachEdit
<1>4. /\ secretDelete(n) \in Seq(Edits) /\ secretExpose(p, n) \in Seq(Edits)
      /\ secretHide(p, n) \in Seq(Edits)
  BY <1>1, OneEdit, Zenon DEF secretDelete, secretExpose, secretHide
<1>5. /\ callSecretDelete(n, p) \in Seq(Edits) /\ callSecretExpose(d, p, n) \in Seq(Edits)
      /\ callSecretHide(d, p, n) \in Seq(Edits)
  BY <1>1, <1>3, OneEdit, Zenon DEF callSecretDelete, callSecretExpose, callSecretHide
<1> QED BY <1>4, <1>5

LEMMA CommandsOfValues ==
    ASSUME NEW n \in Names, NEW c \in Contents
    PROVE  /\ secretUpdate(n, c) \in Seq(Edits) /\ secretRotate(n, c) \in Seq(Edits)
           /\ setValue(n, c) \in Seq(Edits)
<1>1. Put(n, c) \in Edits /\ Change(n, c) \in Edits /\ Reread \in Edits
  BY EachEdit
<1> QED BY <1>1, OneEdit, Zenon DEF secretUpdate, secretRotate, setValue

LEMMA CommandsOfPlaces ==
    ASSUME NEW n \in Names, NEW c \in Contents, NEW p \in Projects, NEW b \in BOOLEAN,
           NEW r \in BOOLEAN, NEW d
    PROVE  /\ secretAdd(n, c, p, r, b) \in Seq(Edits) /\ Imported(<<n>>, c, p, b) \in Seq(Edits)
           /\ captureCommand(n, c, p, b) \in Seq(Edits)
           /\ callSecretUpsert(d, n, c, p, r, b) \in Seq(Edits)
<1>1. /\ Put(n, c) \in Edits /\ New(n, c) \in Edits /\ Expose(p, n) \in Edits
      /\ EnsureBut(p, n) \in Edits /\ Ensure(p) \in Edits /\ EnsureAuto(p) \in Edits
      /\ Reread \in Edits
  BY EachEdit
<1>2. Capture(n, c, p, b) \in Seq(Edits) /\ Capture(n, c, p, TRUE) \in Seq(Edits)
  BY <1>1, OneEdit, Zenon DEF Capture
<1>3. secretAddPersistInputs(n, c, p, r, b) \in Seq(Edits)
  BY <1>1, OneEdit, Zenon DEF secretAddPersistInputs
<1>4. secretAdd(n, c, p, r, b) \in Seq(Edits)
  BY <1>1, <1>3, OneEdit, Zenon DEF secretAdd
<1>5. Imported(<<n>>, c, p, b) \in Seq(Edits)
  <2> DEFINE puts == [i \in DOMAIN <<n>> |-> Put(<<n>>[i], c)]
             exposes == [i \in DOMAIN <<n>> |-> Expose(p, <<n>>[i])]
  <2>1. DOMAIN <<n>> = 1 .. 1 /\ \A i \in 1 .. 1 : <<n>>[i] = n
    OBVIOUS
  <2>2. puts \in Seq(Edits) /\ exposes \in Seq(Edits)
    <3>1. puts = [i \in 1 .. 1 |-> Put(n, c)] /\ exposes = [i \in 1 .. 1 |-> Expose(p, n)]
      BY <2>1
    <3> HIDE DEF puts, exposes
    <3> QED BY <1>1, <3>1
  <2>3. Imported(<<n>>, c, p, b) = puts \o (IF b THEN exposes ELSE <<>>)
    BY DEF Imported
  <2> HIDE DEF puts, exposes
  <2> QED BY <2>2, <2>3, OneEdit, Zenon
<1>6. captureCommand(n, c, p, b) \in Seq(Edits)
  BY <1>1, <1>2, OneEdit, Zenon DEF captureCommand
<1>7. callSecretUpsert(d, n, c, p, r, b) \in Seq(Edits)
  BY <1>1, <1>2, OneEdit, Zenon DEF callSecretUpsert
<1> QED BY <1>4, <1>5, <1>6, <1>7

LEMMA ByHandOfEdits ==
    ASSUME saves \in Nat, NEW x \in ByHand
    PROVE  x \in Seq(Edits)
<1> DEFINE Y == {"confidential", "configuration"}
<1>1. Toplevel \in Projects
  BY EditAssumption
<1>2. ASSUME NEW n \in Names, NEW k \in Y
      PROVE  secretClassify(n, k) \in Seq(Edits)
  BY EachEdit, OneEdit, Zenon DEF secretClassify
<1>3. ASSUME NEW p \in Projects, NEW as \in {<<>>} \cup [Given -> Names]
      PROVE  projectBind(p, as) \in Seq(Edits) /\ projectUnbind(p) \in Seq(Edits)
  BY EachEdit, OneEdit, Zenon DEF projectBind, projectUnbind
<1>4. ASSUME NEW p \in Projects PROVE projectUnbind(p) \in Seq(Edits)
  BY EachEdit, OneEdit, Zenon DEF projectUnbind
<1>5. ASSUME NEW c \in Contents PROVE configSet(c) \in Seq(Edits)
  BY EachEdit, OneEdit, Zenon DEF configSet
<1>6. ASSUME NEW old \in 0 .. vaultDoc.policy
      PROVE  policySet(old) \in Seq(Edits)
  <2>1. saves + 1 \in Int /\ old \in Int
    OBVIOUS
  <2> QED BY <2>1, EachEdit, OneEdit, Zenon DEF policySet
<1>7. \/ \E n \in Names : \E c \in Contents : \E r, b \in BOOLEAN : x = secretAdd(n, c, Toplevel, r, b)
      \/ \E n \in Names : \E c \in Contents :
            x = secretUpdate(n, c) \/ x = secretRotate(n, c) \/ x = setValue(n, c)
      \/ \E n \in Names : \/ x = secretDelete(n) \/ x = secretExpose(Toplevel, n)
                          \/ x = secretHide(Toplevel, n)
      \/ \E n \in Names : \E k \in Y : x = secretClassify(n, k)
      \/ \E n \in Names : \E c \in Contents : \E p \in Projects : \E b \in BOOLEAN :
            x = Imported(<<n>>, c, p, b) \/ x = captureCommand(n, c, p, b)
      \/ \E p \in Projects : \E as \in {<<>>} \cup [Given -> Names] : x = projectBind(p, as)
      \/ \E p \in Projects : x = projectUnbind(p)
      \/ \E c \in Contents : x = configSet(c)
      \/ \E old \in 0 .. vaultDoc.policy : x = policySet(old)
  BY SMTT(60) DEF ByHand
<1> HIDE DEF Y
<1> QED BY <1>1, <1>2, <1>3, <1>4, <1>5, <1>6, <1>7, CommandsOfNames, CommandsOfValues,
        CommandsOfPlaces, Zenon

LEMMA ByAgentOfEdits ==
    ASSUME NEW d, NEW x \in ByAgent(d)
    PROVE  x \in Seq(Edits)
<1>1. \/ \E n \in Names : \E c \in Contents : \E p \in Projects : \E r, b \in BOOLEAN :
            x = callSecretUpsert(d, n, c, p, r, b)
      \/ \E n \in Names : \E p \in Projects :
            x = callSecretDelete(n, p) \/ x = callSecretExpose(d, p, n) \/ x = callSecretHide(d, p, n)
  BY SMTT(60) DEF ByAgent
<1>2. ASSUME NEW n \in Names, NEW c \in Contents, NEW p \in Projects, NEW r \in BOOLEAN,
             NEW b \in BOOLEAN
      PROVE  callSecretUpsert(d, n, c, p, r, b) \in Seq(Edits)
  BY CommandsOfPlaces
<1>3. ASSUME NEW n \in Names, NEW p \in Projects
      PROVE  /\ callSecretDelete(n, p) \in Seq(Edits) /\ callSecretExpose(d, p, n) \in Seq(Edits)
             /\ callSecretHide(d, p, n) \in Seq(Edits)
  BY CommandsOfNames
<1> QED BY <1>1, <1>2, <1>3, Zenon

-----------------------------------------------------------------------------
(* The steps *)

LEMMA RestingKept == EditorKept(Resting)
<1>1. DOMAIN Resting = EditorFields /\ Resting.todo = <<>> /\ Resting.doc = EmptyDoc
  BY DEF Resting, EditorFields
<1> QED BY <1>1, EmptyKept, OneEdit DEF EditorKept

\* One process steps: what is called configuration only grows.
LEMMA OneEditorSteps ==
    ASSUME EditsInv, NEW e \in Editors, NEW r, editor' = [editor EXCEPT ![e] = r],
           DOMAIN r = EditorFields, r.todo \in Seq(Edits), DocKept(r.doc, classified'),
           DocKept(vaultDoc', classified'), saves' \in Nat, classified \subseteq classified'
    PROVE  EditsInv'
<1>1. DOMAIN editor' = Editors
  BY DEF EditsInv
<1>2. ASSUME NEW f \in Editors PROVE EditorKept(editor[f])'
  <2>1. CASE f = e
    BY <2>1 DEF EditsInv, EditorKept
  <2>2. CASE f # e
    <3>1. editor'[f] = editor[f]
      BY <2>2 DEF EditsInv
    <3>2. DocKept(editor[f].doc, classified')
      BY KeptGrows DEF EditsInv, EditorKept
    <3> QED BY <3>1, <3>2 DEF EditsInv, EditorKept
  <2> QED BY <2>1, <2>2
<1> QED BY <1>1, <1>2 DEF EditsInv

LEMMA AfterKept ==
    ASSUME EditsInv, NEW e \in Editors, editor[e].todo # <<>>, NEW next, NEW called,
           DocKept(next, called)
    PROVE  /\ DOMAIN After(e, next) = EditorFields /\ After(e, next).todo \in Seq(Edits)
           /\ DocKept(After(e, next).doc, called)
<1>1. CASE After(e, next) = Resting
  <2>1. DOMAIN Resting = EditorFields /\ Resting.todo = <<>> /\ Resting.doc = EmptyDoc
    BY DEF Resting, EditorFields
  <2> QED BY <1>1, <2>1, EmptyKept, OneEdit
<1>2. CASE After(e, next) = [editor[e] EXCEPT !.todo = Tail(@), !.doc = next, !.read = FALSE]
  <2>1. DOMAIN editor[e] = EditorFields /\ editor[e].todo \in Seq(Edits)
    BY DEF EditsInv, EditorKept
  <2>2. /\ DOMAIN After(e, next) = EditorFields /\ After(e, next).todo = Tail(editor[e].todo)
        /\ After(e, next).doc = next
    BY <1>2, <2>1 DEF EditorFields
  <2>3. Tail(editor[e].todo) \in Seq(Edits)
    BY <2>1
  <2> QED BY <2>2, <2>3
<1> QED BY <1>1, <1>2 DEF After

LEMMA EditsStepInv ==
    ASSUME EditsInv, [EditNext]_editVars
    PROVE  EditsInv'
<1>1. ASSUME NEW e \in Editors, OpenVault(e) PROVE EditsInv'
  <2>1. PICK call \in ByHand \cup ByAgent(vaultDoc) :
            editor' = [editor EXCEPT ![e] = [Resting EXCEPT !.todo = call, !.doc = vaultDoc]]
    BY <1>1 DEF OpenVault
  <2> DEFINE r == [Resting EXCEPT !.todo = call, !.doc = vaultDoc]
  <2>2. call \in Seq(Edits)
    BY ByHandOfEdits, ByAgentOfEdits DEF EditsInv
  <2>3. DOMAIN r = EditorFields /\ r.todo = call /\ r.doc = vaultDoc
    BY DEF Resting, EditorFields
  <2>4. UNCHANGED <<vaultDoc, saves, classified>>
    BY <1>1 DEF OpenVault
  <2> HIDE DEF r
  <2>5. DocKept(vaultDoc, classified) /\ saves \in Nat
    BY DEF EditsInv
  <2> QED BY <2>1, <2>2, <2>3, <2>4, <2>5, OneEditorSteps DEF r
<1>2. ASSUME NEW e \in Editors, ReadAgain(e) PROVE EditsInv'
  <2> DEFINE r == [editor[e] EXCEPT !.doc = vaultDoc, !.read = TRUE]
  <2>1. DOMAIN editor[e] = EditorFields /\ editor[e].todo \in Seq(Edits)
    BY DEF EditsInv, EditorKept
  <2>2. DOMAIN r = EditorFields /\ r.todo = editor[e].todo /\ r.doc = vaultDoc
    BY <2>1 DEF EditorFields
  <2>3. UNCHANGED <<vaultDoc, saves, classified>> /\ DocKept(vaultDoc, classified) /\ saves \in Nat
    BY <1>2 DEF ReadAgain, EditsInv
  <2>4. editor' = [editor EXCEPT ![e] = r]
    BY <1>2 DEF ReadAgain, EditsInv
  <2> HIDE DEF r
  <2> QED BY <2>1, <2>2, <2>3, <2>4, OneEditorSteps
<1>3. ASSUME NEW e \in Editors, editor[e].todo # <<>>
      PROVE  Head(editor[e].todo) \in Edits /\ DocKept(editor[e].doc, classified)
  BY <1>3 DEF EditsInv, EditorKept
<1>4. ASSUME NEW e \in Editors, Save(e) PROVE EditsInv'
  <2> DEFINE edit == Head(editor[e].todo)
             next == Applied(editor[e].doc, edit)
  <2>1. editor[e].todo # <<>>
    BY <1>4 DEF Save, Ready
  <2>2. /\ edit \in Edits /\ DocKept(editor[e].doc, classified) /\ ~Refused(editor[e].doc, edit)
    BY <1>3, <1>4, <2>1 DEF Save
  <2>3. /\ editor' = [editor EXCEPT ![e] = After(e, next)] /\ vaultDoc' = next
        /\ saves' = saves + 1
        /\ classified' = IF edit.op = "classify" /\ edit.arg = "configuration"
                         THEN classified \cup {<<edit.name, next.items[edit.name].content>>}
                         ELSE classified
    BY <1>4 DEF Save
  <2>4. DocKept(next, classified')
    BY <2>2, <2>3, AppliedKept
  <2>5. classified \subseteq classified' /\ saves' \in Nat
    BY <2>3 DEF EditsInv
  <2> HIDE DEF edit, next
  <2> QED BY <2>1, <2>3, <2>4, <2>5, AfterKept, OneEditorSteps
<1>5. ASSUME NEW e \in Editors, Skip(e) PROVE EditsInv'
  <2>1. /\ editor[e].todo # <<>> /\ UNCHANGED <<vaultDoc, saves, classified>>
        /\ editor' = [editor EXCEPT ![e] = After(e, editor[e].doc)]
    BY <1>5 DEF Skip, Ready
  <2>2. DocKept(vaultDoc, classified) /\ saves \in Nat
    BY DEF EditsInv
  <2> QED BY <1>3, <2>1, <2>2, AfterKept, OneEditorSteps
<1>6. ASSUME NEW e \in Editors, GiveUp(e) PROVE EditsInv'
  <2>1. UNCHANGED <<vaultDoc, saves, classified>> /\ editor' = [editor EXCEPT ![e] = Resting]
    BY <1>6 DEF GiveUp
  <2>2. DocKept(vaultDoc, classified) /\ saves \in Nat
    BY DEF EditsInv
  <2> QED BY <2>1, <2>2, RestingKept, OneEditorSteps DEF EditorKept
<1>7. CASE UNCHANGED editVars
  BY <1>7 DEF editVars, EditsInv, EditorKept
<1> QED BY <1>1, <1>2, <1>4, <1>5, <1>6, <1>7 DEF EditNext

LEMMA EditsInitInv == EditInit => EditsInv
<1> SUFFICES ASSUME EditInit PROVE EditsInv
  OBVIOUS
<1>1. DocShaped(vaultDoc) /\ AliasesKept(vaultDoc)
  <2>1. CASE vaultDoc = EmptyDoc
    BY <2>1, EmptyKept DEF DocKept
  <2>2. ASSUME NEW n \in Names, NEW c \in Contents, NEW class,
               vaultDoc = SetItemClassification(Exposed(n, c), n, class)
        PROVE  DocShaped(vaultDoc) /\ AliasesKept(vaultDoc)
    <3> DEFINE d == UpsertItem(EmptyDoc, n, c)
    <3>1. DocKept(d, {}) /\ d.items[n].live
      BY EmptyKept, UpsertKept
    <3>2. Applied(EmptyDoc, Put(n, c)) = d /\ Applied(d, Expose(Toplevel, n)) = BindItemAlias(d, Toplevel, n)
      BY DEF Applied, Put, Expose, Edit
    <3> HIDE DEF d
    <3>3. DocKept(BindItemAlias(d, Toplevel, n), {})
      BY <3>1, EditAssumption, ExposeKept
    <3>4. Exposed(n, c) = BindItemAlias(d, Toplevel, n)
      BY <3>2 DEF Exposed
    <3> QED BY <2>2, <3>3, <3>4, ClassifyKept DEF DocKept
  <2> QED BY <2>1, <2>2 DEF EditInit
<1>2. ConfigurationCalled(vaultDoc, classified)
  BY DEF EditInit, ConfigurationCalled, EffectiveClassification
<1>3. \A e \in Editors : EditorKept(editor[e])
  BY RestingKept DEF EditInit
<1> QED BY <1>1, <1>2, <1>3 DEF EditInit, EditsInv, DocKept

\* The document of the vault, and every copy an editor works on, stay in that
\* relation.
THEOREM EditsInvariant == EditSpec => []EditsInv
<1>1. EditsInv /\ [EditNext]_editVars => EditsInv'
  BY EditsStepInv
<1> QED BY <1>1, EditsInitInv, PTL DEF EditSpec

\* An alias that exposing made names an item that is there, in the life it was
\* exposed in, and an item is configuration only if somebody called its content
\* so, for any number of editors, items and projects (UpsertItem, DeleteItem,
\* ExposeItem, SetItemClassification).
THEOREM NothingExposedByAccident == EditSpec => []ExposedOnPurpose
<1>1. EditsInv => ExposedOnPurpose
  BY DEF EditsInv, DocKept, AliasesKept, AliasKept, ConfigurationCalled, ExposedOnPurpose, GetItem,
     EffectiveClassification
<1> QED BY <1>1, EditsInvariant, PTL

(***************************************************************************)
(* Targets: the reviews.  The argument: reviews are copied from the vault, *)
(* where each was recorded by a review command or equals one the command had *)
(* to find there; a command that passed the check holds such a shape and keeps *)
(* it, so what it delivers, and records again, was reviewed.               *)
(***************************************************************************)

\* A set of numbers that is not empty has a least one.
LEMMA Least ==
    ASSUME NEW T, T \subseteq Nat, T # {}
    PROVE  \E n \in T : \A m \in T : n <= m
  <1> DEFINE R == OpToRel(<, Nat)
  <1>1. IsWellFoundedOn(R, Nat)
    BY NatLessThanWellFounded
  <1>2. \A a, b \in Nat : a < b => <<a, b>> \in R
    BY DEF OpToRel
  <1> HIDE DEF R
  <1>3. PICK x \in T : \A y \in T : ~ (<<y, x>> \in R)
    BY <1>1, WFMin, Zenon
  <1>4. ASSUME NEW m \in T PROVE x <= m
    <2>1. x \in Nat /\ m \in Nat
      OBVIOUS
    <2>2. ~(m < x)
      BY <1>2, <1>3, <2>1, Zenon
    <2> QED BY <2>1, <2>2
  <1> QED BY <1>4

LEMMA MinIsLeast ==
    ASSUME NEW T, T \subseteq Nat, T # {}
    PROVE  Min(T) \in T /\ \A m \in T : Min(T) <= m
  BY Least DEF Min

-----------------------------------------------------------------------------

\* What is remembered as reviewed was recorded by a review command.
AllReviewed(rs, shapes) == \A t \in DOMAIN rs : <<t, rs[t]>> \in shapes

Vetted(e, shapes) == <<e.target, Signature(e)>> \in shapes

CommandFields == {"pc", "op", "mode", "plan", "reviews", "lines", "inode"}

Opened == {"check", "authorize", "execute", "record", "merge", "spare", "rename", "truncate", "fill"}

Checked == {"authorize", "execute", "merge", "spare", "rename", "truncate", "fill"}

\* A command holds reviews once it has opened the vault, a named target once it
\* has read the manifest, and a vetted one once it has checked it.
CommandVetted(r, shapes) ==
    /\ DOMAIN r = CommandFields
    /\ r.pc \in Opened => AllReviewed(r.reviews, shapes) /\ r.plan.target \in TargetNames
    /\ r.pc = "plan" /\ ByAgents(r.op) => AllReviewed(r.reviews, shapes)
    /\ r.pc = "open" /\ ~ByAgents(r.op) => r.plan.target \in TargetNames
    /\ r.pc \in Checked => Vetted(r.plan, shapes)
    /\ r.pc = "record" /\ r.op # "review" => Vetted(r.plan, shapes)

ReviewsInv == /\ AllReviewed(reviews, reviewedShapes) /\ delivered \subseteq reviewedShapes
              /\ DOMAIN worker = Workers
              /\ \A w \in Workers : CommandVetted(worker[w], reviewedShapes)

\* A target that is found has the name that was looked for.
LEMMA TargetNamed ==
    ASSUME NEW m, NEW name, Target(m, name) # 0
    PROVE  ExpandManifestTarget(m, m.targets[Target(m, name)]).target = name
  <1> DEFINE T == {i \in 1 .. Len(m.targets) : m.targets[i].name = name}
  <1>1. T # {} /\ Target(m, name) = Min(T)
    BY DEF Target, SelectInSeq
  <1>2. T \subseteq Nat
    OBVIOUS
  <1>3. Min(T) \in T
    BY <1>1, <1>2, MinIsLeast
  <1>4. m.targets[Target(m, name)].name = name
    BY <1>1, <1>3
  <1>5. \A t : ExpandManifestTarget(m, t).target = t.name
    BY DEF ExpandManifestTarget
  <1> QED BY <1>4, <1>5, Zenon

LEMMA ReviewsInvInit == ASSUME TargetsInit PROVE ReviewsInv
  <1>1. AllReviewed(reviews, reviewedShapes) /\ delivered \subseteq reviewedShapes
    BY DEF TargetsInit, AllReviewed
  <1>2. CommandVetted(Asleep, reviewedShapes)
    BY DEF CommandVetted, Asleep, CommandFields, Opened, Checked
  <1>3. worker = [w \in Workers |-> Asleep]
    BY DEF TargetsInit
  <1> QED BY <1>1, <1>2, <1>3 DEF ReviewsInv

\* The shape of a step of one command.
LEMMA CommandStep ==
    ASSUME ReviewsInv, NEW w \in Workers, NEW r,
           reviewedShapes \subseteq reviewedShapes',
           worker' = [worker EXCEPT ![w] = r], CommandVetted(r, reviewedShapes'),
           AllReviewed(reviews', reviewedShapes'), delivered' \subseteq reviewedShapes'
    PROVE  ReviewsInv'
  <1>1. DOMAIN worker' = Workers
    BY DEF ReviewsInv
  <1>2. ASSUME NEW v \in Workers PROVE CommandVetted(worker'[v], reviewedShapes')
    <2>1. CASE v = w
      BY <2>1 DEF ReviewsInv
    <2>2. CASE v # w
      <3>1. worker'[v] = worker[v] /\ CommandVetted(worker[v], reviewedShapes)
        BY <2>2 DEF ReviewsInv
      <3> QED BY <3>1 DEF CommandVetted, AllReviewed, Vetted
    <2> QED BY <2>1, <2>2
  <1> QED BY <1>1, <1>2 DEF ReviewsInv

\* What a command has in each field when it goes on.
LEMMA Fielded ==
    ASSUME NEW r, DOMAIN r = CommandFields, NEW pc
    PROVE  LET x == [r EXCEPT !.pc = pc] IN
           /\ DOMAIN x = CommandFields /\ x.pc = pc /\ x.op = r.op /\ x.mode = r.mode
           /\ x.plan = r.plan /\ x.reviews = r.reviews /\ x.lines = r.lines /\ x.inode = r.inode
  BY DEF CommandFields

LEMMA AsleepVetted == \A shapes : CommandVetted(Asleep, shapes)
  BY DEF CommandVetted, Asleep, CommandFields, Opened, Checked

\* A command that ends, whatever else is unchanged.
LEMMA LeaveReviews ==
    ASSUME ReviewsInv, NEW w \in Workers, Leave(w), reviewedShapes' = reviewedShapes,
           reviews' = reviews, delivered' \subseteq reviewedShapes'
    PROVE  ReviewsInv'
  <1>1. worker' = [worker EXCEPT ![w] = Asleep]
    BY DEF Leave, Proceed
  <1>2. AllReviewed(reviews', reviewedShapes')
    BY DEF ReviewsInv, AllReviewed
  <1> QED BY <1>1, <1>2, AsleepVetted, CommandStep

LEMMA BeginCommandReviews ==
    ASSUME ReviewsInv, NEW w \in Workers, NEW op, NEW mode, BeginCommand(w, op, mode)
    PROVE  ReviewsInv'
  <1> DEFINE pc == IF ByAgents(op) THEN "open" ELSE "plan"
             r1 == [Asleep EXCEPT !.pc = pc]
             r2 == [r1 EXCEPT !.op = op]
             r == [r2 EXCEPT !.mode = mode]
  <1>1. /\ worker' = [worker EXCEPT ![w] = r]
        /\ reviewedShapes' = reviewedShapes /\ reviews' = reviews /\ delivered' = delivered
    BY DEF BeginCommand, Proceed, Asleep
  <1>2. DOMAIN r = CommandFields /\ r.pc = pc /\ r.op = op
    BY DEF Asleep, CommandFields
  <1> HIDE DEF r
  <1>3. CommandVetted(r, reviewedShapes')
    BY <1>2 DEF CommandVetted, Opened, Checked
  <1>4. AllReviewed(reviews', reviewedShapes') /\ delivered' \subseteq reviewedShapes'
    BY <1>1 DEF ReviewsInv, AllReviewed
  <1> QED BY <1>1, <1>3, <1>4, CommandStep

\* Reading the manifest: the target that was looked for, and nothing else.
LEMMA PlanReviews ==
    ASSUME ReviewsInv, NEW w \in Workers, NEW ops, NEW name \in TargetNames, NEW given, NEW next,
           Plan(w, ops, name, given, next),
           \/ next = "check" /\ \A op \in ops : ByAgents(op)
           \/ next = "open" /\ \A op \in ops : ~ByAgents(op)
    PROVE  ReviewsInv'
  <1>1. /\ reviewedShapes' = reviewedShapes /\ reviews' = reviews /\ delivered' = delivered
        /\ worker[w].pc = "plan" /\ worker[w].op \in ops
        /\ Follow(w, Target(manifest, name), given, next)
    BY DEF Plan
  <1>2. AllReviewed(reviews', reviewedShapes') /\ delivered' \subseteq reviewedShapes'
    BY <1>1 DEF ReviewsInv, AllReviewed
  <1>3. CASE Leave(w)
    BY <1>1, <1>2, <1>3, LeaveReviews
  <1>4. CASE ~Leave(w)
    <2> DEFINE e == ExpandManifestTarget(manifest, manifest.targets[Target(manifest, name)])
               r1 == [worker[w] EXCEPT !.plan = e]
               r == [r1 EXCEPT !.pc = next]
    <2>1. /\ Target(manifest, name) # 0 
          /\ Proceed(w, [worker[w] EXCEPT !.plan = e, !.pc = next])
      BY <1>1, <1>4 DEF Follow
    <2>2. e.target = name
      BY <2>1, TargetNamed
    <2> HIDE DEF e
    <2>3. DOMAIN worker[w] = CommandFields
      BY DEF ReviewsInv, CommandVetted
    <2>4. worker' = [worker EXCEPT ![w] = r]
      BY <2>1, <2>3 DEF Proceed, CommandFields
    <2>5. /\ DOMAIN r = CommandFields /\ r.pc = next /\ r.op = worker[w].op /\ r.plan = e
          /\ r.reviews = worker[w].reviews
      BY <2>3 DEF CommandFields
    <2> HIDE DEF r
    <2>6. ByAgents(worker[w].op) => AllReviewed(worker[w].reviews, reviewedShapes')
      BY <1>1 DEF ReviewsInv, CommandVetted, AllReviewed
    <2>7. CommandVetted(r, reviewedShapes')
      BY <1>1, <2>2, <2>5, <2>6 DEF CommandVetted, Opened, Checked
    <2> QED BY <1>1, <1>2, <2>4, <2>7, CommandStep
  <1> QED BY <1>3, <1>4

\* A command goes on, its target unchanged, perhaps with the reviews of the vault.
LEMMA ProceedReviews ==
    ASSUME ReviewsInv, NEW w \in Workers, NEW r, Proceed(w, r), DOMAIN r = CommandFields,
           r.op = worker[w].op, r.plan = worker[w].plan,
           reviewedShapes \subseteq reviewedShapes', reviews' = reviews,
           delivered' \subseteq reviewedShapes',
           r.reviews = reviews \/ (r.reviews = worker[w].reviews /\ worker[w].pc \in Opened),
           worker[w].pc \in Opened \/ (r.pc = "plan" /\ ByAgents(r.op))
              \/ (r.pc = "check" /\ worker[w].pc = "open" /\ ~ByAgents(r.op))
              \/ (r.pc = "record" /\ worker[w].pc = "open" /\ r.op = "review"),
           r.pc \in {"plan", "check"} \/ (r.pc = "record" /\ r.op = "review")
              \/ (r.pc \in Opened /\ Vetted(r.plan, reviewedShapes'))
    PROVE  ReviewsInv'
  <1>1. CommandVetted(worker[w], reviewedShapes) /\ AllReviewed(reviews, reviewedShapes)
    BY DEF ReviewsInv
  <1>2. AllReviewed(reviews, reviewedShapes')
    BY <1>1 DEF AllReviewed
  <1>3. AllReviewed(r.reviews, reviewedShapes')
    BY <1>1, <1>2 DEF CommandVetted, AllReviewed
  <1>4. ~ByAgents("review")
    BY DEF ByAgents
  <1>5. r.pc # "plan" => r.plan.target \in TargetNames
    BY <1>1, <1>4 DEF CommandVetted
  <1>6. r.pc \in Opened \cup {"plan"}
    BY DEF Opened
  <1>7. "plan" \notin Checked /\ "plan" \notin Opened /\ "check" \notin Checked
        /\ "open" \notin Checked /\ "open" \notin Opened /\ "record" \notin Checked
    BY DEF Checked, Opened
  <1>8. CommandVetted(r, reviewedShapes')
    BY <1>3, <1>5, <1>6, <1>7 DEF CommandVetted
  <1>9. worker' = [worker EXCEPT ![w] = r]
    BY DEF Proceed
  <1> QED BY <1>2, <1>8, <1>9, CommandStep

LEMMA OpenHandleReviews ==
    ASSUME ReviewsInv, NEW w \in Workers, OpenHandle(w)
    PROVE  ReviewsInv'
  <1> DEFINE pc == IF ByAgents(worker[w].op) THEN "plan"
                   ELSE IF worker[w].op = "review" THEN "record" ELSE "check"
             r1 == [worker[w] EXCEPT !.reviews = reviews]
             r == [r1 EXCEPT !.pc = pc]
  <1>1. /\ reviewedShapes' = reviewedShapes /\ reviews' = reviews /\ delivered' = delivered
        /\ worker[w].pc = "open"
        /\ Leave(w) \/ Proceed(w, [worker[w] EXCEPT !.reviews = reviews, !.pc = pc])
    BY DEF OpenHandle
  <1>2. delivered' \subseteq reviewedShapes'
    BY <1>1 DEF ReviewsInv
  <1>3. CASE Leave(w)
    BY <1>1, <1>2, <1>3, LeaveReviews
  <1>4. CASE ~Leave(w)
    <2>1. DOMAIN worker[w] = CommandFields
      BY DEF ReviewsInv, CommandVetted
    <2>2. Proceed(w, r)
      BY <1>1, <1>4, <2>1 DEF CommandFields
    <2>3. /\ DOMAIN r = CommandFields /\ r.pc = pc /\ r.op = worker[w].op /\ r.plan = worker[w].plan
          /\ r.reviews = reviews
      BY <2>1 DEF CommandFields
    <2> HIDE DEF r
    <2> QED BY <1>1, <1>2, <2>2, <2>3, ProceedReviews
  <1> QED BY <1>3, <1>4

\* The check lets through only what a review command recorded.
LEMMA CheckReviewReviews ==
    ASSUME ReviewsInv, NEW w \in Workers, CheckReview(w)
    PROVE  ReviewsInv'
  <1>1. /\ reviewedShapes' = reviewedShapes /\ reviews' = reviews /\ delivered' = delivered
        /\ worker[w].pc = "check"
    BY DEF CheckReview
  <1>2. delivered' \subseteq reviewedShapes'
    BY <1>1 DEF ReviewsInv
  <1>3. CASE Leave(w)
    BY <1>1, <1>2, <1>3, LeaveReviews
  <1>4. CASE ~Leave(w)
    <2> DEFINE r == [worker[w] EXCEPT !.pc = "authorize"]
    <2>1. RequireReviewedTarget(worker[w].reviews, worker[w].plan) /\ Proceed(w, r)
      BY <1>4 DEF CheckReview
    <2>2. CommandVetted(worker[w], reviewedShapes)
      BY DEF ReviewsInv
    <2>3. worker[w].plan.target \in TargetNames /\ AllReviewed(worker[w].reviews, reviewedShapes)
      BY <1>1, <2>2 DEF CommandVetted, Opened
    <2>4. worker[w].plan.target # Unset
      BY <2>3, TargetsAssumption
    <2>5. Vetted(worker[w].plan, reviewedShapes)
      BY <2>1, <2>3, <2>4 DEF RequireReviewedTarget, Drifted, AllReviewed, Vetted
    <2>6. /\ DOMAIN r = CommandFields /\ r.pc = "authorize" /\ r.op = worker[w].op
          /\ r.plan = worker[w].plan /\ r.reviews = worker[w].reviews
      BY <2>2, Fielded DEF CommandVetted
    <2> HIDE DEF r
    <2>7. "authorize" \in Opened /\ "check" \in Opened
      BY DEF Opened
    <2> QED BY <1>1, <1>2, <2>1, <2>5, <2>6, <2>7, ProceedReviews
  <1> QED BY <1>3, <1>4

LEMMA AuthorizeReviews ==
    ASSUME ReviewsInv, NEW w \in Workers, AuthorizeReferences(w)
    PROVE  ReviewsInv'
  <1> DEFINE pc == IF worker[w].op # "write-env" THEN "execute"
                   ELSE IF worker[w].mode = "append" THEN "merge" ELSE "truncate"
             r1 == [worker[w] EXCEPT !.reviews = reviews]
             r == [r1 EXCEPT !.pc = pc]
  <1>1. /\ reviewedShapes' = reviewedShapes /\ reviews' = reviews /\ delivered' = delivered
        /\ worker[w].pc = "authorize"
        /\ Leave(w) \/ Proceed(w, [worker[w] EXCEPT !.reviews = reviews, !.pc = pc])
    BY DEF AuthorizeReferences
  <1>2. delivered' \subseteq reviewedShapes'
    BY <1>1 DEF ReviewsInv
  <1>3. CASE Leave(w)
    BY <1>1, <1>2, <1>3, LeaveReviews
  <1>4. CASE ~Leave(w)
    <2>1. CommandVetted(worker[w], reviewedShapes)
      BY DEF ReviewsInv
    <2>2. DOMAIN worker[w] = CommandFields /\ Vetted(worker[w].plan, reviewedShapes)
      BY <1>1, <2>1 DEF CommandVetted, Checked
    <2>3. Proceed(w, r)
      BY <1>1, <1>4, <2>2 DEF CommandFields
    <2>4. /\ DOMAIN r = CommandFields /\ r.pc = pc /\ r.op = worker[w].op /\ r.plan = worker[w].plan
          /\ r.reviews = reviews
      BY <2>2 DEF CommandFields
    <2>5. pc \in Opened /\ "authorize" \in Opened
      BY DEF Opened
    <2> HIDE DEF r, pc
    <2> QED BY <1>1, <1>2, <2>2, <2>3, <2>4, <2>5, ProceedReviews
  <1> QED BY <1>3, <1>4

\* The same, by the state a command is in: only where it is changes.
LEMMA CheckedGoesOn ==
    ASSUME ReviewsInv, NEW w \in Workers, NEW r, Proceed(w, r), DOMAIN r = CommandFields,
           r.op = worker[w].op, r.plan = worker[w].plan, r.reviews = worker[w].reviews,
           worker[w].pc \in Checked, r.pc \in Opened,
           reviewedShapes' = reviewedShapes, reviews' = reviews, delivered' \subseteq reviewedShapes'
    PROVE  ReviewsInv'
  <1>1. CommandVetted(worker[w], reviewedShapes)
    BY DEF ReviewsInv
  <1>2. Vetted(r.plan, reviewedShapes')
    BY <1>1 DEF CommandVetted
  <1>3. worker[w].pc \in Opened
    BY DEF Checked, Opened
  <1> QED BY <1>2, <1>3, ProceedReviews

LEMMA DeliverVetted ==
    ASSUME ReviewsInv, NEW w \in Workers, worker[w].pc \in Checked, Deliver(w),
           reviewedShapes' = reviewedShapes
    PROVE  delivered' \subseteq reviewedShapes'
  <1>1. CommandVetted(worker[w], reviewedShapes) /\ delivered \subseteq reviewedShapes
    BY DEF ReviewsInv
  <1>2. Vetted(worker[w].plan, reviewedShapes)
    BY <1>1 DEF CommandVetted
  <1> QED BY <1>1, <1>2 DEF Deliver, Vetted

LEMMA ExecuteReviews ==
    ASSUME ReviewsInv, NEW w \in Workers, Execute(w)
    PROVE  ReviewsInv'
  <1> DEFINE r == [worker[w] EXCEPT !.pc = "record"]
  <1>1. /\ reviewedShapes' = reviewedShapes /\ reviews' = reviews /\ Deliver(w)
        /\ worker[w].pc = "execute" /\ (Leave(w) \/ Proceed(w, r))
    BY DEF Execute
  <1>2. worker[w].pc \in Checked /\ "record" \in Opened
    BY <1>1 DEF Checked, Opened
  <1>3. delivered' \subseteq reviewedShapes'
    BY <1>1, <1>2, DeliverVetted
  <1>4. DOMAIN worker[w] = CommandFields
    BY DEF ReviewsInv, CommandVetted
  <1>5. /\ DOMAIN r = CommandFields /\ r.pc = "record" /\ r.op = worker[w].op
        /\ r.plan = worker[w].plan /\ r.reviews = worker[w].reviews
    BY <1>4, Fielded
  <1> HIDE DEF r
  <1> QED BY <1>1, <1>2, <1>3, <1>5, LeaveReviews, CheckedGoesOn

\* A run by hand that renews the review of what it ran adds nothing new.
LEMMA RecordReviews ==
    ASSUME ReviewsInv, NEW w \in Workers, RecordManifestTargetReview(w)
    PROVE  ReviewsInv'
  <1> DEFINE e == worker[w].plan
             rs == worker[w].reviews
  <1>1. /\ worker[w].pc = "record" /\ reviews' = WithReview(rs, e) /\ delivered' = delivered
        /\ reviewedShapes' = IF worker[w].op # "review" THEN reviewedShapes
                             ELSE reviewedShapes \cup {<<e.target, Signature(e)>>}
        /\ worker' = [worker EXCEPT ![w] = Asleep]
    BY DEF RecordManifestTargetReview, Leave, Proceed
  <1>2. CommandVetted(worker[w], reviewedShapes) /\ delivered \subseteq reviewedShapes
    BY DEF ReviewsInv
  <1>3. reviewedShapes \subseteq reviewedShapes'
    BY <1>1
  <1>4. AllReviewed(rs, reviewedShapes) /\ (worker[w].op # "review" => Vetted(e, reviewedShapes))
    BY <1>1, <1>2 DEF CommandVetted, Opened
  <1>5. Vetted(e, reviewedShapes')
    BY <1>1, <1>3, <1>4 DEF Vetted
  <1> HIDE DEF rs, e
  <1>6. ASSUME NEW t \in DOMAIN WithReview(rs, e)
        PROVE  <<t, WithReview(rs, e)[t]>> \in reviewedShapes'
    <2>1. /\ t \in DOMAIN rs \cup {e.target}
          /\ WithReview(rs, e)[t] = IF t = e.target THEN Signature(e) ELSE rs[t]
      BY DEF WithReview
    <2> QED BY <2>1, <1>3, <1>4, <1>5 DEF AllReviewed, Vetted
  <1>7. AllReviewed(reviews', reviewedShapes')
    BY <1>1, <1>6 DEF AllReviewed
  <1> QED BY <1>1, <1>2, <1>3, <1>7, AsleepVetted, CommandStep

\* The steps of write-env.
LEMMA WriteEnvReviews ==
    ASSUME ReviewsInv, NEW w \in Workers,
           Merge(w) \/ WriteSpare(w) \/ RenameSpare(w) \/ SpareFails(w) \/ Truncate(w) \/ Fill(w)
    PROVE  ReviewsInv'
  <1>1. reviewedShapes' = reviewedShapes /\ reviews' = reviews
    BY DEF Merge, WriteSpare, RenameSpare, SpareFails, Truncate, Fill
  <1>2. worker[w].pc \in {"merge", "spare", "rename", "truncate", "fill"}
    BY DEF Merge, WriteSpare, RenameSpare, SpareFails, Truncate, Fill
  <1>3. worker[w].pc \in Checked
    BY <1>2 DEF Checked
  <1>4. delivered' \subseteq reviewedShapes'
    <2>1. CASE Deliver(w)
      BY <1>1, <1>3, <2>1, DeliverVetted
    <2>2. CASE delivered' = delivered
      BY <1>1, <2>2 DEF ReviewsInv
    <2> QED BY <2>1, <2>2 DEF Merge, WriteSpare, RenameSpare, SpareFails, Truncate, Fill
  <1>5. DOMAIN worker[w] = CommandFields
    BY DEF ReviewsInv, CommandVetted
  <1> DEFINE lines == spliceBlock(IF outFile.lines = Unset THEN <<>> ELSE outFile.lines)
             m0 == [worker[w] EXCEPT !.lines = lines]
             m == [m0 EXCEPT !.pc = "spare"]
             t0 == [worker[w] EXCEPT !.pc = "fill"]
             t == [t0 EXCEPT !.inode = outFile.inode]
             n(pc) == [worker[w] EXCEPT !.pc = pc]
  <1>6. Leave(w) \/ Proceed(w, m) \/ Proceed(w, t) \/ Proceed(w, n("rename")) \/ Proceed(w, n("record"))
    <2>1. Merge(w) => Leave(w) \/ Proceed(w, m)
      BY <1>5 DEF Merge, CommandFields
    <2>2. Truncate(w) => Proceed(w, t)
      BY <1>5 DEF Truncate, CommandFields
    <2>3. WriteSpare(w) => Leave(w) \/ Proceed(w, n("rename"))
      BY DEF WriteSpare
    <2>4. RenameSpare(w) \/ Fill(w) => Proceed(w, n("record"))
      BY DEF RenameSpare, Fill
    <2>5. SpareFails(w) => Leave(w)
      BY DEF SpareFails
    <2> QED BY <2>1, <2>2, <2>3, <2>4, <2>5
  <1>7. ASSUME NEW r \in {m, t, n("rename"), n("record")}
        PROVE  /\ DOMAIN r = CommandFields /\ r.pc \in Opened /\ r.op = worker[w].op
               /\ r.plan = worker[w].plan /\ r.reviews = worker[w].reviews
    <2>1. \A r0 \in {worker[w], m0, t0} :
             /\ DOMAIN r0 = CommandFields /\ r0.op = worker[w].op
             /\ r0.plan = worker[w].plan /\ r0.reviews = worker[w].reviews
      BY <1>5 DEF CommandFields
    <2>2. {"spare", "fill", "rename", "record"} \subseteq Opened
      BY DEF Opened
    <2>3. CASE r = m
      BY <2>1, <2>2, <2>3 DEF CommandFields
    <2>4. CASE r = t
      BY <2>1, <2>2, <2>4 DEF CommandFields
    <2>5. CASE r \in {n("rename"), n("record")}
      BY <2>1, <2>2, <2>5 DEF CommandFields
    <2> QED BY <2>3, <2>4, <2>5
  <1> HIDE DEF m, t, n
  <1> QED BY <1>1, <1>3, <1>4, <1>6, <1>7, LeaveReviews, CheckedGoesOn

\* The manifest itself says nothing of reviews.
LEMMA ManifestReviews ==
    ASSUME ReviewsInv, NEW w \in Workers, projectTargetAdd(w) \/ writeProjectManifest(w) \/ Perish(w)
    PROVE  ReviewsInv'
  <1>1. reviewedShapes' = reviewedShapes /\ reviews' = reviews /\ delivered' = delivered
    BY DEF projectTargetAdd, writeProjectManifest, Perish
  <1>2. delivered' \subseteq reviewedShapes' /\ AllReviewed(reviews', reviewedShapes')
    BY <1>1 DEF ReviewsInv
  <1>3. CASE Leave(w)
    BY <1>1, <1>2, <1>3, LeaveReviews
  <1>4. CASE ~Leave(w)
    <2> DEFINE r1 == [worker[w] EXCEPT !.plan = WithTarget(loadOrCreateProjectManifest)]
               r == [r1 EXCEPT !.pc = "commit"]
    <2>1. DOMAIN worker[w] = CommandFields
      BY DEF ReviewsInv, CommandVetted
    <2>2. worker' = [worker EXCEPT ![w] = r]
      BY <1>4, <2>1 DEF projectTargetAdd, writeProjectManifest, Perish, Proceed, CommandFields
    <2>3. DOMAIN r = CommandFields /\ r.pc = "commit"
      BY <2>1 DEF CommandFields
    <2> HIDE DEF r
    <2>4. CommandVetted(r, reviewedShapes')
      BY <2>3 DEF CommandVetted, Opened, Checked
    <2> QED BY <1>1, <1>2, <2>2, <2>4, CommandStep
  <1> QED BY <1>3, <1>4

LEMMA ReviewsStepInv ==
    ASSUME ReviewsInv, [TargetsNext]_targetVars
    PROVE  ReviewsInv'
  <1>1. CASE UNCHANGED <<worker, reviews, reviewedShapes, delivered>>
    BY <1>1 DEF ReviewsInv
  <1>2. ASSUME NEW m, Commit(m) PROVE ReviewsInv'
    BY <1>1, <1>2 DEF Commit
  <1>3. ASSUME NEW w, projectManifestInit(w) PROVE ReviewsInv'
    BY <1>1, <1>3 DEF projectManifestInit
  <1>4. CASE UNCHANGED targetVars
    BY <1>1, <1>4 DEF targetVars
  <1>5. ASSUME NEW w \in Workers, NEW name \in TargetNames, NEW given \in BOOLEAN,
               \/ executeCommand(w, name) \/ callExecute(w, name) \/ projectTargetReview(w, name)
               \/ writeEnvCommand(w, name, given)
        PROVE  ReviewsInv'
    <2>1. CASE executeCommand(w, name)
      BY <2>1, PlanReviews DEF executeCommand, ByAgents
    <2>2. CASE callExecute(w, name)
      BY <2>2, PlanReviews DEF callExecute, ByAgents
    <2>3. CASE projectTargetReview(w, name)
      BY <2>3, PlanReviews DEF projectTargetReview, ByAgents
    <2>4. CASE writeEnvCommand(w, name, given)
      BY <2>4, PlanReviews DEF writeEnvCommand, ByAgents
    <2> QED BY <1>5, <2>1, <2>2, <2>3, <2>4
  <1>6. ASSUME NEW w \in Workers,
               \/ OpenHandle(w) \/ CheckReview(w) \/ AuthorizeReferences(w) \/ Execute(w)
               \/ RecordManifestTargetReview(w)
        PROVE  ReviewsInv'
    BY <1>6, OpenHandleReviews, CheckReviewReviews, AuthorizeReviews, ExecuteReviews, RecordReviews
  <1> QED BY <1>2, <1>3, <1>4, <1>5, <1>6, BeginCommandReviews, WriteEnvReviews, ManifestReviews
          DEF TargetsNext

\* What is reviewed, and what every command holds, stay in that relation.
THEOREM ReviewsInvariant == TargetsSpec => []ReviewsInv
  <1>1. TargetsInit => ReviewsInv
    BY ReviewsInvInit
  <1>2. ReviewsInv /\ [TargetsNext]_targetVars => ReviewsInv'
    BY ReviewsStepInv
  <1> QED BY <1>1, <1>2, PTL DEF TargetsSpec

\* Secrets go only to a shape of a target that a review command recorded, and
\* the vault remembers no other as reviewed, whatever is committed while commands
\* are under way (RequireReviewedTarget, RecordManifestTargetReview).
THEOREM OnlyReviewedDelivered == TargetsSpec => []ReviewedBeforeRun
  <1>1. ReviewsInv => ReviewedBeforeRun
    BY DEF ReviewsInv, AllReviewed, ReviewedBeforeRun
  <1> QED BY <1>1, ReviewsInvariant, PTL

(***************************************************************************)
(* Targets: the file of write-env.  The argument: putting the block into a *)
(* file leaves the lines around it as they were, so a merged file is as good *)
(* as the one it was made of however late it is renamed over the path; the *)
(* file is cut only with --force, or where the check found no file.        *)
(***************************************************************************)

\* The block begins at its first line of that kind, if there is one.
LEMMA BeginIsFirst ==
    ASSUME NEW s
    PROVE  \/ BeginOf(s) = 0 /\ \A i \in 1 .. Len(s) : s[i] # "begin"
           \/ /\ BeginOf(s) \in 1 .. Len(s) /\ s[BeginOf(s)] = "begin"
              /\ \A i \in 1 .. Len(s) : s[i] = "begin" => BeginOf(s) <= i
  <1> DEFINE T == {i \in 1 .. Len(s) : s[i] = "begin"}
  <1>1. BeginOf(s) = IF T # {} THEN Min(T) ELSE 0
    BY DEF BeginOf, SelectInSeq
  <1>2. CASE T = {}
    BY <1>1, <1>2
  <1>3. CASE T # {}
    <2>1. T \subseteq Nat
      OBVIOUS
    <2>2. Min(T) \in T /\ \A m \in T : Min(T) <= m
      BY <1>3, <2>1, MinIsLeast
    <2> QED BY <1>1, <1>3, <2>2
  <1> QED BY <1>2, <1>3

LEMMA NoBegin ==
    ASSUME NEW s \in Seq(FileLines)
    PROVE  Begins(s) = 0 <=> BeginOf(s) = 0
  <1> DEFINE T == {i \in DOMAIN s : s[i] = "begin"}
  <1>1. DOMAIN s = 1 .. Len(s) /\ Len(s) \in Nat
    OBVIOUS
  <1>2. IsFiniteSet(1 .. Len(s))
    BY <1>1, FS_Interval
  <1>3. IsFiniteSet(T)
    BY <1>1, <1>2, FS_Subset
  <1>4. Cardinality(T) = 0 <=> T = {}
    BY <1>3, FS_EmptySet
  <1>5. T = {} <=> BeginOf(s) = 0
    BY <1>1, BeginIsFirst
  <1> QED BY <1>4, <1>5 DEF Begins

\* The block ends behind its beginning, at the first end marker if there is one.
LEMMA EndBehind ==
    ASSUME NEW s \in Seq(FileLines), NEW b \in 1 .. Len(s)
    PROVE  EndOf(s, b) \in b .. Len(s)
  <1> DEFINE T == {i \in DOMAIN s : i > b /\ s[i] = "end"}
  <1>1. DOMAIN s = 1 .. Len(s) /\ Len(s) \in Nat
    OBVIOUS
  <1>2. CASE T = {}
    BY <1>1, <1>2 DEF EndOf
  <1>3. CASE T # {}
    <2>1. T \subseteq Nat
      BY <1>1
    <2>2. PICK n \in T : \A m \in T : n <= m
      BY <1>3, <2>1, Least
    <2>3. EndOf(s, b) = CHOOSE i \in T : \A j \in T : i <= j
      BY <1>3 DEF EndOf
    <2>4. EndOf(s, b) \in T
      BY <2>2, <2>3
    <2> QED BY <1>1, <2>4
  <1> QED BY <1>2, <1>3

\* The lines before and after the block.
Around(s) == SubSeq(s, 1, BeginOf(s) - 1) \o SubSeq(s, EndOf(s, BeginOf(s)) + 1, Len(s))

Core(rest) == IF rest = <<"secret">> THEN <<>> ELSE rest

LEMMA OwnLinesAre ==
    ASSUME NEW s
    PROVE  OwnLines(s) = Core(IF BeginOf(s) = 0 THEN s ELSE Around(s))
  BY DEF OwnLines, Around, Core

\* Two pieces of a file, one behind the other.
LEMMA Joined ==
    ASSUME NEW S, NEW P \in Seq(S), NEW Q \in Seq(S)
    PROVE  /\ P \o Q \in Seq(S) /\ Len(P \o Q) = Len(P) + Len(Q)
           /\ \A i \in 1 .. Len(P) : (P \o Q)[i] = P[i]
           /\ \A i \in 1 .. Len(Q) : (P \o Q)[Len(P) + i] = Q[i]
  <1>1. Len(P) \in Nat /\ Len(Q) \in Nat
    OBVIOUS
  <1>2. \A i \in 1 .. Len(P) + Len(Q) : (P \o Q)[i] = IF i <= Len(P) THEN P[i] ELSE Q[i - Len(P)]
    BY ConcatProperties
  <1>3. Len(P \o Q) = Len(P) + Len(Q) /\ P \o Q \in Seq(S)
    BY ConcatProperties
  <1>4. ASSUME NEW i \in 1 .. Len(P) PROVE (P \o Q)[i] = P[i]
    <2>1. i \in 1 .. Len(P) + Len(Q) /\ i <= Len(P)
      BY <1>1
    <2> QED BY <1>2, <2>1
  <1>5. ASSUME NEW i \in 1 .. Len(Q) PROVE (P \o Q)[Len(P) + i] = Q[i]
    <2>1. /\ Len(P) + i \in 1 .. Len(P) + Len(Q) /\ ~(Len(P) + i <= Len(P))
          /\ (Len(P) + i) - Len(P) = i
      BY <1>1
    <2> QED BY <1>2, <2>1
  <1> QED BY <1>3, <1>4, <1>5

\* A piece of a file, cut out again.
LEMMA CutOut ==
    ASSUME NEW S, NEW s \in Seq(S), NEW P \in Seq(S), NEW a \in Nat, a + Len(P) <= Len(s),
           \A i \in 1 .. Len(P) : s[a + i] = P[i]
    PROVE  SubSeq(s, a + 1, a + Len(P)) = P
  <1> DEFINE piece == SubSeq(s, a + 1, a + Len(P))
  <1>1. Len(P) \in Nat /\ Len(s) \in Nat
    OBVIOUS
  <1>2. a + 1 \in Int /\ a + Len(P) \in Int /\ \A i \in a + 1 .. a + Len(P) : s[i] \in S
    BY <1>1
  <1>3. piece \in Seq(S) /\ Len(piece) = Len(P)
    <2>1. /\ piece \in Seq(S)
          /\ Len(piece) = IF a + 1 <= a + Len(P) THEN a + Len(P) - (a + 1) + 1 ELSE 0
      BY <1>2, SubSeqProperties
    <2> QED BY <1>1, <2>1
  <1>4. \A i \in 1 .. Len(P) : piece[i] = s[a + i]
    <2>1. \A i \in 1 .. (a + Len(P)) - (a + 1) + 1 : piece[i] = s[a + 1 + i - 1]
      BY <1>2, SubSeqProperties
    <2> QED BY <1>1, <2>1
  <1> QED BY <1>3, <1>4, SeqEqual

LEMMA BlockLines ==
    /\ Block \in Seq(FileLines) /\ Len(Block) = 3
    /\ Block[1] = "begin" /\ Block[2] = "secret" /\ Block[3] = "end"
  <1>1. \A S : \A x, y, z \in S : <<x, y, z>> \in Seq(S)
    OBVIOUS
  <1>2. Len(Block) = 3 /\ Block[1] = "begin" /\ Block[2] = "secret" /\ Block[3] = "end"
    BY DEF Block
  <1>3. {Block[1], Block[2], Block[3]} \subseteq ToSet(Block)
    BY DEF Block, ToSet
  <1>4. ToSet(Block) \subseteq FileLines
    BY DEF FileLines
  <1>5. "begin" \in FileLines /\ "secret" \in FileLines /\ "end" \in FileLines
    BY <1>2, <1>3, <1>4
  <1>6. Block \in Seq(FileLines)
    BY <1>1, <1>5 DEF Block
  <1> QED BY <1>2, <1>6

\* A block between two pieces of a file, the first without a block.
LEMMA AroundBlock ==
    ASSUME NEW P \in Seq(FileLines), NEW Q \in Seq(FileLines),
           \A i \in 1 .. Len(P) : P[i] # "begin"
    PROVE  /\ P \o Block \o Q \in Seq(FileLines)
           /\ BeginOf(P \o Block \o Q) # 0
           /\ Around(P \o Block \o Q) = P \o Q
  <1> DEFINE h == P \o Block
             s == h \o Q
             n == Len(P)
             k == Len(Q)
  <1>1. n \in Nat /\ k \in Nat
    OBVIOUS
  <1>2. /\ h \in Seq(FileLines) /\ Len(h) = n + 3
        /\ \A i \in 1 .. n : h[i] = P[i]
        /\ \A i \in 1 .. 3 : h[n + i] = Block[i]
    <2>1. Block \in Seq(FileLines)
      BY BlockLines
    <2>2. h \in Seq(FileLines) /\ Len(h) = n + Len(Block)
      BY <2>1, Joined
    <2>3. \A i \in 1 .. n : h[i] = P[i]
      BY <2>1, Joined
    <2>4. \A i \in 1 .. Len(Block) : h[n + i] = Block[i]
      BY <2>1, Joined
    <2> QED BY <2>2, <2>3, <2>4, BlockLines
  <1> HIDE DEF h
  <1>3. /\ s \in Seq(FileLines) /\ Len(s) = n + 3 + k
        /\ \A i \in 1 .. n + 3 : s[i] = h[i]
        /\ \A i \in 1 .. k : s[n + 3 + i] = Q[i]
    <2>1. h \in Seq(FileLines)
      BY <1>2
    <2>2. s \in Seq(FileLines) /\ Len(s) = Len(h) + k
      BY <2>1, Joined
    <2>3. \A i \in 1 .. Len(h) : s[i] = h[i]
      BY <2>1, Joined
    <2>4. \A i \in 1 .. k : s[Len(h) + i] = Q[i]
      BY <2>1, Joined
    <2> QED BY <1>1, <1>2, <2>2, <2>3, <2>4
  <1> HIDE DEF s
  <1>4. \A i \in 1 .. n : s[i] = P[i]
    BY <1>1, <1>2, <1>3
  <1>5. s[n + 1] = "begin" /\ s[n + 2] = "secret" /\ s[n + 3] = "end"
    <2>1. h[n + 1] = Block[1] /\ h[n + 2] = Block[2] /\ h[n + 3] = Block[3]
      BY <1>2
    <2>2. n + 1 \in 1 .. n + 3 /\ n + 2 \in 1 .. n + 3 /\ n + 3 \in 1 .. n + 3
      BY <1>1
    <2> QED BY <1>3, <2>1, <2>2, BlockLines
  <1>6. SubSeq(s, 1, n) = P
    <2>1. 0 + n <= Len(s) /\ \A i \in 1 .. n : s[0 + i] = P[i]
      BY <1>1, <1>3, <1>4
    <2>2. SubSeq(s, 0 + 1, 0 + n) = P
      BY <1>3, <2>1, CutOut
    <2> QED BY <1>1, <2>2
  <1>7. SubSeq(s, n + 4, Len(s)) = Q
    <2>1. n + 3 \in Nat /\ n + 3 + k <= Len(s)
      BY <1>1, <1>3
    <2>2. SubSeq(s, n + 3 + 1, n + 3 + k) = Q
      BY <1>3, <2>1, CutOut
    <2>3. n + 3 + 1 = n + 4 /\ Len(s) = n + 3 + k
      BY <1>1, <1>3
    <2> QED BY <2>2, <2>3
  <1>8. \A i \in 1 .. n : s[i] # "begin"
    BY <1>4
  <1> HIDE DEF n, k
  <1>9. BeginOf(s) = n + 1
    <2>1. \A i \in 1 .. Len(s) : s[i] = "begin" => n + 1 <= i
      BY <1>1, <1>3, <1>8
    <2>2. n + 1 \in 1 .. Len(s)
      BY <1>1, <1>3
    <2>3. BeginOf(s) \in 1 .. Len(s) /\ s[BeginOf(s)] = "begin" /\ BeginOf(s) <= n + 1
      BY <1>5, <2>2, BeginIsFirst
    <2> QED BY <1>1, <1>3, <2>1, <2>3
  <1>10. EndOf(s, n + 1) = n + 3
    <2> DEFINE T == {i \in DOMAIN s : i > n + 1 /\ s[i] = "end"}
    <2>1. DOMAIN s = 1 .. n + 3 + k
      BY <1>3
    <2>2. n + 3 \in T
      BY <1>1, <1>5, <2>1
    <2>3. ASSUME NEW j \in T PROVE j \in Nat /\ n + 3 <= j
      <3>1. j \in Nat /\ j > n + 1 /\ s[j] = "end"
        BY <1>1, <2>1
      <3>2. j # n + 2
        BY <1>5, <3>1
      <3> QED BY <1>1, <3>1, <3>2
    <2>4. EndOf(s, n + 1) = CHOOSE i \in T : \A j \in T : i <= j
      BY <2>2 DEF EndOf
    <2> HIDE DEF T
    <2>5. \A i \in T : (\A j \in T : i <= j) => i = n + 3
      BY <1>1, <2>2, <2>3
    <2>6. \A j \in T : n + 3 <= j
      BY <2>3
    <2> QED BY <2>2, <2>4, <2>5, <2>6
  <1>11. Around(s) = P \o Q
    <2>1. BeginOf(s) - 1 = n /\ EndOf(s, BeginOf(s)) + 1 = n + 4
      BY <1>1, <1>9, <1>10
    <2> QED BY <1>6, <1>7, <2>1 DEF Around
  <1>12. BeginOf(s) # 0
    BY <1>1, <1>9
  <1> QED BY <1>3, <1>11, <1>12 DEF s, h

\* Putting the block into a file leaves the user's lines as they are.
LEMMA SpliceKeepsOwnLines ==
    ASSUME NEW s \in Seq(FileLines)
    PROVE  spliceBlock(s) \in Seq(FileLines) /\ OwnLines(spliceBlock(s)) = OwnLines(s)
  <1>1. Len(s) \in Nat /\ (\A i \in 1 .. Len(s) : s[i] \in FileLines)
    OBVIOUS
  <1>2. CASE BeginOf(s) = 0
    <2>1. \A i \in 1 .. Len(s) : s[i] # "begin"
      BY <1>1, <1>2, BeginIsFirst
    <2>2. <<>> \in Seq(FileLines)
      OBVIOUS
    <2>3. /\ s \o Block \o <<>> \in Seq(FileLines) /\ BeginOf(s \o Block \o <<>>) # 0
          /\ Around(s \o Block \o <<>>) = s \o <<>>
      BY <2>1, <2>2, AroundBlock
    <2>4. s \o Block \in Seq(FileLines)
      BY BlockLines, Joined
    <2>5. s \o Block \o <<>> = s \o Block /\ s \o <<>> = s
      BY <2>4, ConcatEmptySeq
    <2>6. spliceBlock(s) = s \o Block
      BY <1>2, NoBegin DEF spliceBlock
    <2> QED BY <1>2, <2>3, <2>4, <2>5, <2>6, OwnLinesAre
  <1>3. CASE BeginOf(s) # 0
    <2> DEFINE b == BeginOf(s)
               e == EndOf(s, b)
               P == SubSeq(s, 1, b - 1)
               Q == SubSeq(s, e + 1, Len(s))
    <2>1. b \in 1 .. Len(s) /\ \A i \in 1 .. Len(s) : s[i] = "begin" => b <= i
      BY <1>3, BeginIsFirst
    <2>2. e \in b .. Len(s)
      BY <2>1, EndBehind
    <2>3. /\ P \in Seq(FileLines) /\ Len(P) = IF 1 <= b - 1 THEN b - 1 - 1 + 1 ELSE 0
          /\ \A i \in 1 .. b - 1 - 1 + 1 : P[i] = s[1 + i - 1]
      <3>1. b - 1 \in Int /\ \A i \in 1 .. b - 1 : s[i] \in FileLines
        BY <1>1, <2>1
      <3> QED BY <3>1, SubSeqProperties
    <2>4. Q \in Seq(FileLines)
      <3>1. e + 1 \in Int /\ Len(s) \in Int /\ \A i \in e + 1 .. Len(s) : s[i] \in FileLines
        BY <1>1, <2>1, <2>2
      <3> QED BY <3>1, SubSeqProperties
    <2>5. spliceBlock(s) = P \o Block \o Q
      BY <1>3, NoBegin DEF spliceBlock
    <2>6. Around(s) = P \o Q
      BY DEF Around
    <2> HIDE DEF P, Q, e
    <2>7. ASSUME NEW i \in 1 .. Len(P) PROVE P[i] # "begin"
      <3>1. Len(P) = b - 1 /\ i \in 1 .. b - 1 - 1 + 1
        BY <1>1, <2>1, <2>3
      <3>2. P[i] = s[i] /\ i \in 1 .. Len(s) /\ ~(b <= i)
        BY <1>1, <2>1, <2>3, <3>1
      <3> QED BY <2>1, <3>2
    <2>8. /\ P \o Block \o Q \in Seq(FileLines) /\ BeginOf(P \o Block \o Q) # 0
          /\ Around(P \o Block \o Q) = P \o Q
      BY <2>3, <2>4, <2>7, AroundBlock
    <2> QED BY <1>3, <2>5, <2>6, <2>8, OwnLinesAre
  <1> QED BY <1>2, <1>3

LEMMA WholeFileWritten ==
    ASSUME NEW s \in {<<>>, <<"secret">>}
    PROVE  s \in Seq(FileLines) /\ OwnLines(s) = <<>>
  <1>1. <<"secret">>[1] = "secret" /\ Len(<<"secret">>) = 1 /\ Len(<<>>) = 0
    OBVIOUS
  <1>2. BeginOf(s) = 0
    BY <1>1, BeginIsFirst
  <1>3. "secret" \in FileLines
    BY BlockLines, ElementOfSeq
  <1>4. \A S : <<>> \in Seq(S) /\ \A x \in S : <<x>> \in Seq(S)
    OBVIOUS
  <1> QED BY <1>2, <1>3, <1>4, OwnLinesAre DEF Core

\* The user's lines are in the file, and in what a command is about to write;
\* where a command is about to overwrite the file there are none.
FileKept(lines) ==
    /\ lines # Unset => lines \in Seq(FileLines) /\ OwnLines(lines) = ownLines
    /\ ownLines # <<>> => lines # Unset

CommandKeeps(r, own, cut) ==
    /\ DOMAIN r = CommandFields
    /\ r.pc # "idle" /\ r.op = "write-env" => r.mode \in {"plain", "force", "append"}
    /\ r.pc = "truncate" => r.mode \in {"plain", "force"}
    /\ ~cut /\ r.pc \in {"spare", "rename"} => r.lines \in Seq(FileLines) /\ OwnLines(r.lines) = own
    /\ ~cut /\ r.pc \in {"authorize", "truncate"} /\ r.mode = "plain" => own = <<>>
    /\ ~cut /\ r.pc = "fill" => own = <<>>

OwnLinesInv ==
    /\ DOMAIN outFile = {"inode", "lines"}
    /\ ~truncated => FileKept(outFile.lines)
    /\ DOMAIN worker = Workers
    /\ \A w \in Workers : CommandKeeps(worker[w], ownLines, truncated)

LEMMA AsleepKeeps == \A own, cut : CommandKeeps(Asleep, own, cut)
  BY DEF CommandKeeps, Asleep, CommandFields

LEMMA OwnLinesInvInit == ASSUME TargetsInit PROVE OwnLinesInv
  <1>1. PICK f \in FirstFiles : outFile = [inode |-> 0, lines |-> f]
    BY DEF TargetsInit
  <1>2. f \in Seq(FileLines) \cup {Unset} /\ outFile.lines = f /\ DOMAIN outFile = {"inode", "lines"}
    BY <1>1, TargetsAssumption
  <1>3. ownLines = IF f = Unset THEN <<>> ELSE OwnLines(f)
    BY <1>2 DEF TargetsInit
  <1>4. FileKept(outFile.lines)
    BY <1>2, <1>3 DEF FileKept
  <1>5. worker = [w \in Workers |-> Asleep]
    BY DEF TargetsInit
  <1> QED BY <1>2, <1>4, <1>5, AsleepKeeps DEF OwnLinesInv

\* The shape of a step of one command.
LEMMA KeepingStep ==
    ASSUME OwnLinesInv, NEW w \in Workers, NEW r, Proceed(w, r), ownLines' = ownLines,
           truncated => truncated', DOMAIN outFile' = {"inode", "lines"},
           ~truncated' => FileKept(outFile.lines)', CommandKeeps(r, ownLines, truncated')
    PROVE  OwnLinesInv'
  <1>1. worker' = [worker EXCEPT ![w] = r] /\ DOMAIN worker' = Workers
    BY DEF Proceed, OwnLinesInv
  <1>2. ASSUME NEW v \in Workers PROVE CommandKeeps(worker'[v], ownLines', truncated')
    <2>1. CASE v = w
      BY <1>1, <2>1 DEF OwnLinesInv
    <2>2. CASE v # w
      <3>1. worker'[v] = worker[v] /\ CommandKeeps(worker[v], ownLines, truncated)
        BY <1>1, <2>2 DEF OwnLinesInv
      <3> QED BY <3>1 DEF CommandKeeps
    <2> QED BY <2>1, <2>2
  <1> QED BY <1>1, <1>2 DEF OwnLinesInv

\* A step that leaves the file alone.
LEMMA FileUnchanged ==
    ASSUME OwnLinesInv, NEW w \in Workers, NEW r, Proceed(w, r),
           UNCHANGED <<ownLines, truncated, outFile>>, CommandKeeps(r, ownLines, truncated)
    PROVE  OwnLinesInv'
  <1>1. DOMAIN outFile' = {"inode", "lines"} /\ (~truncated' => FileKept(outFile.lines)')
    BY DEF OwnLinesInv, FileKept
  <1> QED BY <1>1, KeepingStep

\* A command that leaves, or goes on to a state of which nothing is asked.
LEMMA LeaveKeeps ==
    ASSUME OwnLinesInv, NEW w \in Workers, Leave(w), UNCHANGED <<ownLines, truncated, outFile>>
    PROVE  OwnLinesInv'
  BY AsleepKeeps, FileUnchanged DEF Leave

LEMMA BeginKeeps ==
    ASSUME OwnLinesInv, NEW w \in Workers, NEW op,
           NEW mode \in {"plain", "force", "append", Unset}, BeginCommand(w, op, mode)
    PROVE  OwnLinesInv'
  <1> DEFINE pc == IF ByAgents(op) THEN "open" ELSE "plan"
             r1 == [Asleep EXCEPT !.pc = pc]
             r2 == [r1 EXCEPT !.op = op]
             r == [r2 EXCEPT !.mode = mode]
  <1>1. Proceed(w, r) /\ UNCHANGED <<ownLines, truncated, outFile>>
        /\ (op = "write-env") = (mode # Unset)
    BY DEF BeginCommand, Asleep
  <1>2. DOMAIN r = CommandFields /\ r.pc = pc /\ r.op = op /\ r.mode = mode
    BY DEF Asleep, CommandFields
  <1> HIDE DEF r
  <1>3. CommandKeeps(r, ownLines, truncated)
    BY <1>1, <1>2 DEF CommandKeeps
  <1> QED BY <1>1, <1>3, FileUnchanged

\* A command goes on with its options.
LEMMA GoesOnKeeps ==
    ASSUME OwnLinesInv, NEW w \in Workers, NEW r, Proceed(w, r),
           UNCHANGED <<ownLines, truncated, outFile>>,
           worker[w].pc # "idle", DOMAIN r = CommandFields,
           r.op = worker[w].op, r.mode = worker[w].mode,
           r.pc \in {"open", "plan", "check", "execute", "record", "merge", "commit"}
    PROVE  OwnLinesInv'
  <1>1. CommandKeeps(worker[w], ownLines, truncated)
    BY DEF OwnLinesInv
  <1>2. CommandKeeps(r, ownLines, truncated)
    BY <1>1 DEF CommandKeeps
  <1> QED BY <1>2, FileUnchanged

LEMMA PlanKeeps ==
    ASSUME OwnLinesInv, NEW w \in Workers, NEW ops, NEW name, NEW given, NEW next \in {"check", "open"},
           Plan(w, ops, name, given, next)
    PROVE  OwnLinesInv'
  <1>1. worker[w].pc = "plan" /\ UNCHANGED <<ownLines, truncated, outFile>>
        /\ Follow(w, Target(manifest, name), given, next)
    BY DEF Plan
  <1>2. CASE Leave(w)
    BY <1>1, <1>2, LeaveKeeps
  <1>3. CASE ~Leave(w)
    <2> DEFINE e == ExpandManifestTarget(manifest, manifest.targets[Target(manifest, name)])
               r1 == [worker[w] EXCEPT !.plan = e]
               r == [r1 EXCEPT !.pc = next]
    <2>1. Proceed(w, [worker[w] EXCEPT !.plan = e, !.pc = next])
      BY <1>1, <1>3 DEF Follow
    <2> HIDE DEF e
    <2>2. DOMAIN worker[w] = CommandFields
      BY DEF OwnLinesInv, CommandKeeps
    <2>3. Proceed(w, r)
      BY <2>1, <2>2 DEF CommandFields
    <2>4. DOMAIN r = CommandFields /\ r.pc = next /\ r.op = worker[w].op /\ r.mode = worker[w].mode
      BY <2>2 DEF CommandFields
    <2> HIDE DEF r
    <2> QED BY <1>1, <2>3, <2>4, GoesOnKeeps
  <1> QED BY <1>2, <1>3

LEMMA OpenHandleKeeps ==
    ASSUME OwnLinesInv, NEW w \in Workers, OpenHandle(w)
    PROVE  OwnLinesInv'
  <1> DEFINE pc == IF ByAgents(worker[w].op) THEN "plan"
                   ELSE IF worker[w].op = "review" THEN "record" ELSE "check"
             r1 == [worker[w] EXCEPT !.reviews = reviews]
             r == [r1 EXCEPT !.pc = pc]
  <1>1. worker[w].pc = "open" /\ UNCHANGED <<ownLines, truncated, outFile>>
        /\ (Leave(w) \/ Proceed(w, [worker[w] EXCEPT !.reviews = reviews, !.pc = pc]))
    BY DEF OpenHandle
  <1>2. DOMAIN worker[w] = CommandFields
    BY DEF OwnLinesInv, CommandKeeps
  <1>3. Leave(w) \/ Proceed(w, r)
    BY <1>1, <1>2 DEF CommandFields
  <1>4. DOMAIN r = CommandFields /\ r.pc = pc /\ r.op = worker[w].op /\ r.mode = worker[w].mode
    BY <1>2 DEF CommandFields
  <1> HIDE DEF r
  <1> QED BY <1>1, <1>3, <1>4, LeaveKeeps, GoesOnKeeps

\* Without --force or --append there is no file, so no lines of the user.
LEMMA CheckReviewKeeps ==
    ASSUME OwnLinesInv, NEW w \in Workers, CheckReview(w)
    PROVE  OwnLinesInv'
  <1> DEFINE r == [worker[w] EXCEPT !.pc = "authorize"]
  <1>1. worker[w].pc = "check" /\ UNCHANGED <<ownLines, truncated, outFile>>
    BY DEF CheckReview
  <1>2. CASE Leave(w)
    BY <1>1, <1>2, LeaveKeeps
  <1>3. CASE ~Leave(w)
    <2>1. Proceed(w, r) /\ (worker[w].mode = "plain" => outFile.lines = Unset)
      BY <1>3 DEF CheckReview
    <2>2. CommandKeeps(worker[w], ownLines, truncated)
      BY DEF OwnLinesInv
    <2>3. DOMAIN r = CommandFields /\ r.pc = "authorize" /\ r.op = worker[w].op /\ r.mode = worker[w].mode
      BY <2>2 DEF CommandKeeps, CommandFields
    <2> HIDE DEF r
    <2>4. ~truncated /\ r.mode = "plain" => ownLines = <<>>
      BY <2>1, <2>3 DEF OwnLinesInv, FileKept
    <2>5. CommandKeeps(r, ownLines, truncated)
      BY <1>1, <2>2, <2>3, <2>4 DEF CommandKeeps
    <2> QED BY <1>1, <2>1, <2>5, FileUnchanged
  <1> QED BY <1>2, <1>3

LEMMA AuthorizeKeeps ==
    ASSUME OwnLinesInv, NEW w \in Workers, AuthorizeReferences(w)
    PROVE  OwnLinesInv'
  <1> DEFINE pc == IF worker[w].op # "write-env" THEN "execute"
                   ELSE IF worker[w].mode = "append" THEN "merge" ELSE "truncate"
             r1 == [worker[w] EXCEPT !.reviews = reviews]
             r == [r1 EXCEPT !.pc = pc]
  <1>1. worker[w].pc = "authorize" /\ UNCHANGED <<ownLines, truncated, outFile>>
        /\ (Leave(w) \/ Proceed(w, [worker[w] EXCEPT !.reviews = reviews, !.pc = pc]))
    BY DEF AuthorizeReferences
  <1>2. CommandKeeps(worker[w], ownLines, truncated)
    BY DEF OwnLinesInv
  <1>3. DOMAIN worker[w] = CommandFields
    BY <1>2 DEF CommandKeeps
  <1>4. Leave(w) \/ Proceed(w, r)
    BY <1>1, <1>3 DEF CommandFields
  <1>5. DOMAIN r = CommandFields /\ r.pc = pc /\ r.op = worker[w].op /\ r.mode = worker[w].mode
    BY <1>3 DEF CommandFields
  <1> HIDE DEF r
  <1>6. CommandKeeps(r, ownLines, truncated)
    BY <1>1, <1>2, <1>5 DEF CommandKeeps
  <1> QED BY <1>1, <1>4, <1>6, LeaveKeeps, FileUnchanged

LEMMA AfterwardsKeeps ==
    ASSUME OwnLinesInv, NEW w \in Workers,
           \/ Execute(w) \/ RecordManifestTargetReview(w) \/ SpareFails(w) \/ Perish(w)
           \/ writeProjectManifest(w) \/ projectTargetAdd(w)
    PROVE  OwnLinesInv'
  <1> DEFINE r == [worker[w] EXCEPT !.pc = "record"]
             m1 == [worker[w] EXCEPT !.plan = WithTarget(loadOrCreateProjectManifest)]
             m == [m1 EXCEPT !.pc = "commit"]
  <1>1. UNCHANGED <<ownLines, truncated, outFile>> /\ worker[w].pc # "idle"
    BY DEF Execute, RecordManifestTargetReview, SpareFails, Perish, writeProjectManifest, projectTargetAdd
  <1>2. DOMAIN worker[w] = CommandFields
    BY DEF OwnLinesInv, CommandKeeps
  <1>3. Leave(w) \/ Proceed(w, r) \/ Proceed(w, m)
    <2>1. projectTargetAdd(w) => Leave(w) \/ Proceed(w, m)
      BY <1>2 DEF projectTargetAdd, CommandFields
    <2>2. Execute(w) => Leave(w) \/ Proceed(w, r)
      BY DEF Execute
    <2>3. RecordManifestTargetReview(w) \/ SpareFails(w) \/ Perish(w) \/ writeProjectManifest(w) => Leave(w)
      BY DEF RecordManifestTargetReview, SpareFails, Perish, writeProjectManifest
    <2> QED BY <2>1, <2>2, <2>3
  <1>4. /\ DOMAIN r = CommandFields /\ r.pc = "record" /\ r.op = worker[w].op /\ r.mode = worker[w].mode
        /\ DOMAIN m = CommandFields /\ m.pc = "commit" /\ m.op = worker[w].op /\ m.mode = worker[w].mode
    BY <1>2 DEF CommandFields
  <1> HIDE DEF r, m
  <1> QED BY <1>1, <1>3, <1>4, LeaveKeeps, GoesOnKeeps

\* What is merged keeps the user's lines.
LEMMA MergeKeeps ==
    ASSUME OwnLinesInv, NEW w \in Workers, Merge(w)
    PROVE  OwnLinesInv'
  <1> DEFINE old == IF outFile.lines = Unset THEN <<>> ELSE outFile.lines
             r1 == [worker[w] EXCEPT !.lines = spliceBlock(old)]
             r == [r1 EXCEPT !.pc = "spare"]
  <1>1. worker[w].pc = "merge" /\ UNCHANGED <<ownLines, truncated, outFile>>
        /\ (Leave(w) \/ Proceed(w, [worker[w] EXCEPT !.lines = spliceBlock(old), !.pc = "spare"]))
    BY DEF Merge
  <1>2. ~truncated => old \in Seq(FileLines) /\ OwnLines(old) = ownLines
    BY WholeFileWritten DEF OwnLinesInv, FileKept
  <1> HIDE DEF old
  <1>3. CommandKeeps(worker[w], ownLines, truncated)
    BY DEF OwnLinesInv
  <1>4. DOMAIN worker[w] = CommandFields
    BY <1>3 DEF CommandKeeps
  <1>5. Leave(w) \/ Proceed(w, r)
    BY <1>1, <1>4 DEF CommandFields
  <1>6. /\ DOMAIN r = CommandFields /\ r.pc = "spare" /\ r.op = worker[w].op /\ r.mode = worker[w].mode
        /\ r.lines = spliceBlock(old)
    BY <1>4 DEF CommandFields
  <1> HIDE DEF r
  <1>7. ~truncated => r.lines \in Seq(FileLines) /\ OwnLines(r.lines) = ownLines
    BY <1>2, <1>6, SpliceKeepsOwnLines
  <1>8. CommandKeeps(r, ownLines, truncated)
    BY <1>1, <1>3, <1>6, <1>7 DEF CommandKeeps
  <1> QED BY <1>1, <1>5, <1>8, LeaveKeeps, FileUnchanged

LEMMA WriteSpareKeeps ==
    ASSUME OwnLinesInv, NEW w \in Workers, WriteSpare(w)
    PROVE  OwnLinesInv'
  <1> DEFINE r == [worker[w] EXCEPT !.pc = "rename"]
  <1>1. worker[w].pc = "spare" /\ UNCHANGED <<ownLines, truncated, outFile>>
        /\ (Leave(w) \/ Proceed(w, r))
    BY DEF WriteSpare
  <1>2. CommandKeeps(worker[w], ownLines, truncated)
    BY DEF OwnLinesInv
  <1>3. /\ DOMAIN r = CommandFields /\ r.pc = "rename" /\ r.op = worker[w].op /\ r.mode = worker[w].mode
        /\ r.lines = worker[w].lines
    BY <1>2 DEF CommandKeeps, CommandFields
  <1> HIDE DEF r
  <1>4. CommandKeeps(r, ownLines, truncated)
    BY <1>1, <1>2, <1>3 DEF CommandKeeps
  <1> QED BY <1>1, <1>4, LeaveKeeps, FileUnchanged

LEMMA RenameKeeps ==
    ASSUME OwnLinesInv, NEW w \in Workers, RenameSpare(w)
    PROVE  OwnLinesInv'
  <1> DEFINE r == [worker[w] EXCEPT !.pc = "record"]
  <1>1. /\ worker[w].pc = "rename" /\ UNCHANGED <<ownLines, truncated>> /\ Proceed(w, r)
        /\ outFile' = [inode |-> outFile.inode + 1, lines |-> worker[w].lines]
    BY DEF RenameSpare
  <1>2. CommandKeeps(worker[w], ownLines, truncated)
    BY DEF OwnLinesInv
  <1>3. DOMAIN r = CommandFields /\ r.pc = "record" /\ r.op = worker[w].op /\ r.mode = worker[w].mode
    BY <1>2 DEF CommandKeeps, CommandFields
  <1> HIDE DEF r
  <1>4. CommandKeeps(r, ownLines, truncated')
    BY <1>1, <1>2, <1>3 DEF CommandKeeps
  <1>5. outFile'.lines = worker[w].lines /\ DOMAIN outFile' = {"inode", "lines"}
    BY <1>1
  <1>6. ~truncated' => FileKept(outFile.lines)'
    BY <1>1, <1>2, <1>5, TargetsAssumption DEF CommandKeeps, FileKept
  <1> QED BY <1>1, <1>4, <1>5, <1>6, KeepingStep

\* The file is cut only on purpose, or where the user has no lines.
LEMMA TruncateKeeps ==
    ASSUME OwnLinesInv, NEW w \in Workers, Truncate(w)
    PROVE  OwnLinesInv'
  <1> DEFINE r1 == [worker[w] EXCEPT !.pc = "fill"]
             r == [r1 EXCEPT !.inode = outFile.inode]
  <1>1. /\ worker[w].pc = "truncate" /\ ownLines' = ownLines
        /\ Proceed(w, [worker[w] EXCEPT !.pc = "fill", !.inode = outFile.inode])
        /\ outFile' = [outFile EXCEPT !.lines = <<>>]
        /\ truncated' = (truncated \/ worker[w].mode = "force")
    BY DEF Truncate
  <1>2. CommandKeeps(worker[w], ownLines, truncated) /\ DOMAIN outFile = {"inode", "lines"}
    BY DEF OwnLinesInv
  <1>3. DOMAIN worker[w] = CommandFields
    BY <1>2 DEF CommandKeeps
  <1>4. Proceed(w, r)
    BY <1>1, <1>3 DEF CommandFields
  <1>5. DOMAIN r = CommandFields /\ r.pc = "fill" /\ r.op = worker[w].op /\ r.mode = worker[w].mode
    BY <1>3 DEF CommandFields
  <1> HIDE DEF r
  <1>6. ~truncated' => ownLines = <<>>
    BY <1>1, <1>2 DEF CommandKeeps
  <1>7. CommandKeeps(r, ownLines, truncated')
    BY <1>1, <1>2, <1>5, <1>6 DEF CommandKeeps
  <1>8. outFile'.lines = <<>> /\ DOMAIN outFile' = {"inode", "lines"}
    BY <1>1, <1>2
  <1>9. ~truncated' => FileKept(outFile.lines)'
    BY <1>1, <1>6, <1>8, WholeFileWritten DEF FileKept
  <1> QED BY <1>1, <1>4, <1>7, <1>8, <1>9, KeepingStep

LEMMA FillKeeps ==
    ASSUME OwnLinesInv, NEW w \in Workers, Fill(w)
    PROVE  OwnLinesInv'
  <1> DEFINE r == [worker[w] EXCEPT !.pc = "record"]
  <1>1. /\ worker[w].pc = "fill" /\ UNCHANGED <<ownLines, truncated>> /\ Proceed(w, r)
        /\ outFile' \in {[outFile EXCEPT !.lines = <<"secret">>], outFile}
    BY DEF Fill
  <1>2. /\ CommandKeeps(worker[w], ownLines, truncated) /\ DOMAIN outFile = {"inode", "lines"}
        /\ (~truncated => FileKept(outFile.lines))
    BY DEF OwnLinesInv
  <1>3. DOMAIN r = CommandFields /\ r.pc = "record" /\ r.op = worker[w].op /\ r.mode = worker[w].mode
    BY <1>2 DEF CommandKeeps, CommandFields
  <1> HIDE DEF r
  <1>4. CommandKeeps(r, ownLines, truncated')
    BY <1>1, <1>2, <1>3 DEF CommandKeeps
  <1>5. outFile'.lines \in {<<"secret">>, outFile.lines} /\ DOMAIN outFile' = {"inode", "lines"}
    BY <1>1, <1>2
  <1>6. ~truncated => ownLines = <<>>
    BY <1>1, <1>2 DEF CommandKeeps
  <1>7. ~truncated' => FileKept(outFile.lines)'
    BY <1>1, <1>2, <1>5, <1>6, WholeFileWritten DEF FileKept
  <1> QED BY <1>1, <1>4, <1>5, <1>7, KeepingStep

LEMMA OwnLinesStepInv ==
    ASSUME OwnLinesInv, [TargetsNext]_targetVars
    PROVE  OwnLinesInv'
  <1>1. CASE UNCHANGED <<worker, outFile, ownLines, truncated>>
    BY <1>1 DEF OwnLinesInv, FileKept
  <1>2. ASSUME NEW m, Commit(m) PROVE OwnLinesInv'
    BY <1>1, <1>2 DEF Commit
  <1>3. ASSUME NEW w, projectManifestInit(w) PROVE OwnLinesInv'
    BY <1>1, <1>3 DEF projectManifestInit
  <1>4. CASE UNCHANGED targetVars
    BY <1>1, <1>4 DEF targetVars
  <1>5. ASSUME NEW w \in Workers, NEW name \in TargetNames, NEW given \in BOOLEAN,
               \/ executeCommand(w, name) \/ callExecute(w, name) \/ projectTargetReview(w, name)
               \/ writeEnvCommand(w, name, given)
        PROVE  OwnLinesInv'
    BY <1>5, PlanKeeps DEF executeCommand, callExecute, projectTargetReview, writeEnvCommand
  <1>6. ASSUME NEW w \in Workers,
               \/ OpenHandle(w) \/ CheckReview(w) \/ AuthorizeReferences(w) \/ Execute(w)
               \/ RecordManifestTargetReview(w)
        PROVE  OwnLinesInv'
    BY <1>6, OpenHandleKeeps, CheckReviewKeeps, AuthorizeKeeps, AfterwardsKeeps
  <1>7. ASSUME NEW w \in Workers,
               \/ Merge(w) \/ WriteSpare(w) \/ RenameSpare(w) \/ SpareFails(w)
               \/ Truncate(w) \/ Fill(w) \/ Perish(w)
               \/ projectTargetAdd(w) \/ writeProjectManifest(w)
        PROVE  OwnLinesInv'
    BY <1>7, MergeKeeps, WriteSpareKeeps, RenameKeeps, TruncateKeeps, FillKeeps, AfterwardsKeeps
  <1> QED BY <1>2, <1>3, <1>4, <1>5, <1>6, <1>7, BeginKeeps DEF TargetsNext

\* The file, and what every command is about to do to it, stay in that relation.
THEOREM OwnLinesInvariant == TargetsSpec => []OwnLinesInv
  <1>1. TargetsInit => OwnLinesInv
    BY OwnLinesInvInit
  <1>2. OwnLinesInv /\ [TargetsNext]_targetVars => OwnLinesInv'
    BY OwnLinesStepInv
  <1> QED BY <1>1, <1>2, PTL DEF TargetsSpec

\* The user's lines of the file that write-env edits survive, in order, unless
\* somebody asked to overwrite it, for any number of commands that merge, replace
\* and fill it at once or die half way (writeEnvCommandWithDeps).
THEOREM OwnLinesSurvive == TargetsSpec => []OwnLinesKept
  <1>1. OwnLinesInv => OwnLinesKept
    BY DEF OwnLinesInv, FileKept, OwnLinesKept
  <1> QED BY <1>1, OwnLinesInvariant, PTL

(***************************************************************************)
(* Application profiles: Apps.  The argument: while a command is under way *)
(* the saved profile is what it was before up to its own step, each failure *)
(* restores that, and the launcher exists from its step on.                *)
(***************************************************************************)

KnownDeliveries(p) == \A b \in p.bindings : b.delivery \in {"env", "file", "dotenv"}

\* Every binding reaches the command under its own name.
Delivered(p, given) ==
    \A b \in p.bindings :
        IF b.delivery = "dotenv"
        THEN [target |-> b.target, item |-> b.item] \in given[p.dotenvEnv].is
        ELSE given[b.target] = [as |-> b.delivery, is |-> b.item]

ProfileFields == {"bindings", "dotenvEnv", "literal", "root", "launcher", "made"}
AppCmdFields == {"op", "at", "wish", "profile", "before"}

AppsShaped ==
    /\ DOMAIN app = ProfileFields /\ KnownDeliveries(app)
    /\ app = NoApp \/ app.made
    /\ DOMAIN appCmd = AppCmdFields
    /\ verdict.rolledBack \in BOOLEAN
    /\ DOMAIN appCmd.profile = ProfileFields /\ KnownDeliveries(appCmd.profile)
    /\ appCmd.op # "none" =>
          /\ DOMAIN appCmd.before = ProfileFields /\ KnownDeliveries(appCmd.before)
          /\ appCmd.before = NoApp \/ appCmd.before.made
    /\ appCmd.at = "profile" =>
          /\ DOMAIN appCmd.wish = WishFields
          /\ \A m \in appCmd.wish.mappings : m.delivery \in {"env", "file", "dotenv"}

\* How far a command is, and what it has changed by then.
AppsStages ==
    /\ appCmd.at \in {"", "profile", "plan", "upsert", "launcher", "path", "delete", "remove"}
    /\ appCmd.op = "none" <=> appCmd.at = ""
    /\ appCmd.at \in {"profile", "plan", "upsert", "delete"} => app = appCmd.before
    /\ appCmd.at = "plan" => appCmd.wish.install
    /\ appCmd.at = "upsert" /\ appCmd.profile.launcher =>
          appCmd.before.launcher \/ appCmd.wish.install
    /\ appCmd.at = "upsert" => appCmd.profile.made
    /\ appCmd.at = "plan" => appCmd.profile.made
    /\ appCmd.at = "remove" => app = NoApp

LauncherThere ==
    verdict.rolledBack =>
        /\ appCmd.op = "none" /\ app.launcher => launcher = "hasp"
        /\ appCmd.op # "none" /\ appCmd.before.launcher => launcher = "hasp"
        /\ appCmd.at = "path" => launcher = "hasp"

FailuresRolledBack ==
    ~verdict.ok /\ verdict.rolledBack /\ appCmd.op = "none" => app = verdict.before

AppsInv == /\ AppsShaped /\ AppsStages /\ LauncherThere /\ FailuresRolledBack
           /\ received # <<>> => Delivered(ranProfile, received)

LEMMA HandedDelivers ==
    ASSUME NEW p, KnownDeliveries(p), validateAppMappings(p)
    PROVE  Delivered(p, Handed(p))
<1> DEFINE plain == Targets(p.bindings, "env")
           files == Targets(p.bindings, "file")
           lines == {[target |-> b.target, item |-> b.item] : b \in {x \in p.bindings : x.delivery = "dotenv"}}
           of(d, t) == (CHOOSE b \in p.bindings : b.delivery = d /\ b.target = t).item
           dotenv == IF lines = {} THEN {} ELSE {p.dotenvEnv}
           all == p.literal \cup plain \cup files \cup dotenv
           H(v) == CASE v \in dotenv -> [as |-> "dotenv", is |-> lines]
                     [] v \in files \ dotenv -> [as |-> "file", is |-> of("file", v)]
                     [] v \in plain \ (files \cup dotenv) -> [as |-> "env", is |-> of("env", v)]
                     [] OTHER -> [as |-> "literal", is |-> v]
<1>1. Handed(p) = [v \in all |-> H(v)]
  BY DEF Handed
<1>2. ASSUME NEW b \in p.bindings PROVE b.target \in Targets(p.bindings, b.delivery)
  BY DEF Targets
<1>3. ASSUME NEW b \in p.bindings
      PROVE  of(b.delivery, b.target) = b.item
  <2> DEFINE c == CHOOSE c \in p.bindings : c.delivery = b.delivery /\ c.target = b.target
  <2>1. c \in p.bindings /\ c.delivery = b.delivery /\ c.target = b.target
    OBVIOUS
  <2> HIDE DEF c
  <2>2. c = b
    BY <2>1 DEF validateAppMappings, OncePerTarget
  <2> QED BY <2>2 DEF c
<1>4. dotenv = IF Targets(p.bindings, "dotenv") = {} THEN {} ELSE {p.dotenvEnv}
  <2>1. lines = {} <=> Targets(p.bindings, "dotenv") = {}
    BY DEF Targets
  <2> QED BY <2>1
<1>5. plain \cap (files \cup dotenv) = {} /\ files \cap dotenv = {}
  BY <1>4, Zenon DEF validateAppMappings, ValidateNames
<1> HIDE DEF dotenv, lines, plain, files, all, of
<1>6. ASSUME NEW b \in p.bindings, b.delivery = "env"
      PROVE  Handed(p)[b.target] = [as |-> b.delivery, is |-> b.item]
  <2>1. b.target \in plain
    BY <1>2, <1>6 DEF plain
  <2>2. b.target \notin files \cup dotenv /\ b.target \in all
    BY <2>1, <1>5 DEF all
  <2> QED BY <1>1, <1>3, <1>6, <2>1, <2>2
<1>7. ASSUME NEW b \in p.bindings, b.delivery = "file"
      PROVE  Handed(p)[b.target] = [as |-> b.delivery, is |-> b.item]
  <2>1. b.target \in files
    BY <1>2, <1>7 DEF files
  <2>2. b.target \notin dotenv /\ b.target \in all
    BY <2>1, <1>5 DEF all
  <2> QED BY <1>1, <1>3, <1>7, <2>1, <2>2
<1>8. ASSUME NEW b \in p.bindings, b.delivery = "dotenv"
      PROVE  [target |-> b.target, item |-> b.item] \in Handed(p)[p.dotenvEnv].is
  <2>1. [target |-> b.target, item |-> b.item] \in lines
    BY <1>8 DEF lines
  <2>2. p.dotenvEnv \in dotenv
    BY <2>1 DEF dotenv
  <2>3. p.dotenvEnv \in all
    BY <2>2 DEF all
  <2> QED BY <1>1, <2>1, <2>2, <2>3
<1> QED BY <1>6, <1>7, <1>8 DEF Delivered, KnownDeliveries

LEMMA AppsInitInv == AppsInit => AppsInv
<1> SUFFICES ASSUME AppsInit PROVE AppsInv
  OBVIOUS
<1>1. DOMAIN NoApp = ProfileFields /\ KnownDeliveries(NoApp) /\ NoApp.launcher = FALSE
  BY DEF NoApp, ProfileFields, KnownDeliveries
<1>2. /\ DOMAIN NoAppCmd = AppCmdFields /\ NoAppCmd.profile = NoApp /\ NoAppCmd.op = "none"
      /\ NoAppCmd.at = ""
  BY DEF NoAppCmd, AppCmdFields
<1>3. NoVerdict.ok = TRUE /\ NoVerdict.rolledBack = TRUE
  BY DEF NoVerdict
<1>4. app = NoApp /\ appCmd = NoAppCmd /\ verdict = NoVerdict /\ received = <<>>
  BY DEF AppsInit
<1>5. AppsShaped /\ AppsStages
  BY <1>1, <1>2, <1>3, <1>4 DEF AppsShaped, AppsStages
<1>6. LauncherThere /\ FailuresRolledBack
  BY <1>1, <1>2, <1>3, <1>4 DEF LauncherThere, FailuresRolledBack
<1> QED BY <1>4, <1>5, <1>6 DEF AppsInv

\* A command starts from what is saved.
LEMMA AppBeginsInv ==
    ASSUME AppsInv, NEW c, AppBegins(c), DOMAIN c = AppCmdFields, c.op # "none",
           \/ c.at = "profile" /\ DOMAIN c.wish = WishFields
              /\ \A m \in c.wish.mappings : m.delivery \in {"env", "file", "dotenv"}
           \/ c.at = "plan" /\ c.wish.install /\ c.profile.made
           \/ c.at = "delete",
           DOMAIN c.profile = ProfileFields, KnownDeliveries(c.profile)
    PROVE  AppsInv'
<1>1. /\ appCmd'.op = c.op /\ appCmd'.at = c.at /\ appCmd'.wish = c.wish
      /\ appCmd'.profile = c.profile /\ appCmd'.before = app /\ DOMAIN appCmd' = AppCmdFields
  BY DEF AppBegins, AppCmdFields
<1>2. UNCHANGED <<app, launcher, verdict, received, ranProfile>> /\ appCmd.op = "none"
  BY DEF AppBegins
<1>3. AppsShaped'
  BY <1>1, <1>2 DEF AppsInv, AppsShaped
<1>4. AppsStages'
  BY <1>1, <1>2 DEF AppsInv, AppsStages
<1>5. LauncherThere' /\ FailuresRolledBack'
  BY <1>1, <1>2 DEF AppsInv, AppsStages, LauncherThere, FailuresRolledBack
<1> QED BY <1>2, <1>3, <1>4, <1>5 DEF AppsInv

LEMMA WishesShaped ==
    ASSUME NEW w \in Wishes, w.target # "" => TargetUsable(w)
    PROVE  /\ DOMAIN applyAppTargetConfig(w) = WishFields
           /\ \A m \in applyAppTargetConfig(w).mappings : m.delivery \in {"env", "file", "dotenv"}
<1>1. CASE w.target = ""
  BY <1>1, AppsAssumption DEF applyAppTargetConfig
<1>2. CASE w.target # ""
  <2> DEFINE v == Reviewed[w.target].wish
  <2>1. DOMAIN v = WishFields /\ \A m \in v.mappings : m.delivery \in {"env", "file", "dotenv"}
    BY <1>2, AppsAssumption DEF TargetUsable
  <2>2. applyAppTargetConfig(w) = [v EXCEPT !.install = w.install, !.addToPath = w.addToPath]
    BY <1>2 DEF applyAppTargetConfig
  <2> HIDE DEF v
  <2> QED BY <2>1, <2>2 DEF WishFields
<1> QED BY <1>1, <1>2

LEMMA ConnectInv ==
    ASSUME AppsInv, NEW w \in Wishes, appConnect(w)
    PROVE  AppsInv'
<1> DEFINE v == applyAppTargetConfig(w)
           c == [NoAppCmd EXCEPT !.op = "connect", !.at = "profile", !.wish = v]
<1>1. DOMAIN v = WishFields /\ \A m \in v.mappings : m.delivery \in {"env", "file", "dotenv"}
  BY WishesShaped DEF appConnect
<1>2. AppBegins(c)
  BY DEF appConnect
<1> HIDE DEF v
<1>3. /\ DOMAIN c = AppCmdFields /\ c.op = "connect" /\ c.at = "profile" /\ c.wish = v
      /\ c.profile = NoApp
  BY DEF NoAppCmd, AppCmdFields
<1>4. DOMAIN NoApp = ProfileFields /\ KnownDeliveries(NoApp)
  BY DEF NoApp, ProfileFields, KnownDeliveries
<1> HIDE DEF c
<1> QED BY <1>1, <1>2, <1>3, <1>4, AppBeginsInv

LEMMA InstallInv ==
    ASSUME AppsInv, appInstall
    PROVE  AppsInv'
<1> DEFINE v == [install |-> TRUE, addToPath |-> TRUE]
           c == [NoAppCmd EXCEPT !.op = "install", !.at = "plan", !.profile = app, !.wish = v]
<1>1. AppBegins(c) /\ app.made /\ v.install
  BY DEF appInstall
<1> HIDE DEF v
<1>3. /\ DOMAIN c = AppCmdFields /\ c.op = "install" /\ c.at = "plan" /\ c.wish = v
      /\ c.profile = app
  BY DEF NoAppCmd, AppCmdFields
<1>4. DOMAIN app = ProfileFields /\ KnownDeliveries(app)
  BY DEF AppsInv, AppsShaped
<1> HIDE DEF c
<1> QED BY <1>1, <1>3, <1>4, AppBeginsInv

LEMMA DisconnectInv ==
    ASSUME AppsInv, appDisconnect
    PROVE  AppsInv'
<1> DEFINE c == [NoAppCmd EXCEPT !.op = "disconnect", !.at = "delete"]
<1>1. AppBegins(c)
  BY DEF appDisconnect
<1>3. /\ DOMAIN c = AppCmdFields /\ c.op = "disconnect" /\ c.at = "delete" /\ c.profile = NoApp
  BY DEF NoAppCmd, AppCmdFields
<1>4. DOMAIN NoApp = ProfileFields /\ KnownDeliveries(NoApp)
  BY DEF NoApp, ProfileFields, KnownDeliveries
<1> HIDE DEF c
<1> QED BY <1>1, <1>3, <1>4, AppBeginsInv

\* A command ends: what is then saved is what it found, unless it succeeded.
LEMMA AppEndsInv ==
    ASSUME AppsInv, NEW ok \in BOOLEAN, NEW rolledBack \in BOOLEAN, Ends(ok, rolledBack),
           UNCHANGED <<received, ranProfile>>,
           DOMAIN app' = ProfileFields, KnownDeliveries(app'), app' = NoApp \/ app'.made,
           ~ok /\ rolledBack => app' = appCmd.before,
           verdict.rolledBack /\ rolledBack => (app'.launcher => launcher' = "hasp")
    PROVE  AppsInv'
<1>1. appCmd' = NoAppCmd /\ verdict'.ok = ok /\ verdict'.before = appCmd.before
      /\ verdict'.rolledBack = (verdict.rolledBack /\ rolledBack)
  BY DEF Ends
<1>2. /\ NoAppCmd.op = "none" /\ NoAppCmd.at = "" /\ DOMAIN NoAppCmd = AppCmdFields
      /\ DOMAIN NoAppCmd.profile = ProfileFields /\ KnownDeliveries(NoAppCmd.profile)
  BY DEF NoAppCmd, AppCmdFields, ProfileFields, NoApp, KnownDeliveries
<1>3. AppsShaped' /\ AppsStages'
  BY <1>1, <1>2 DEF AppsInv, AppsShaped, AppsStages
<1>4. LauncherThere' /\ FailuresRolledBack'
  BY <1>1, <1>2 DEF LauncherThere, FailuresRolledBack
<1> QED BY <1>3, <1>4 DEF AppsInv


\* A command goes on: nothing else changes.
LEMMA AppGoesOn ==
    ASSUME AppsInv, NEW at, NEW profile, appCmd.op # "none",
           appCmd'.at = at, appCmd'.profile = profile, appCmd'.op = appCmd.op,
           appCmd'.wish = appCmd.wish, appCmd'.before = appCmd.before,
           DOMAIN appCmd' = AppCmdFields,
           at \in {"plan", "upsert", "launcher", "path", "remove"},
           DOMAIN profile = ProfileFields, KnownDeliveries(profile),
           UNCHANGED <<verdict, received, ranProfile>>,
           DOMAIN app' = ProfileFields, KnownDeliveries(app'), app' = NoApp \/ app'.made,
           at \in {"plan", "upsert"} => app' = appCmd.before /\ profile.made,
           at = "plan" => appCmd.wish.install,
           at = "upsert" /\ profile.launcher => appCmd.before.launcher \/ appCmd.wish.install,
           at = "remove" => app' = NoApp,
           launcher' = launcher \/ launcher' = "hasp",
           at = "path" => launcher' = "hasp"
    PROVE  AppsInv'
<1>1. AppsShaped'
  BY DEF AppsInv, AppsShaped
<1>2. AppsStages'
  BY DEF AppsInv, AppsStages
<1>3. LauncherThere' /\ FailuresRolledBack'
  BY DEF AppsInv, LauncherThere, FailuresRolledBack
<1> QED BY <1>1, <1>2, <1>3 DEF AppsInv

\* What the invariant says of a command that is under way.
LEMMA AppFacts ==
    ASSUME AppsInv
    PROVE  /\ DOMAIN app = ProfileFields /\ KnownDeliveries(app) /\ (app = NoApp \/ app.made)
           /\ DOMAIN NoApp = ProfileFields /\ KnownDeliveries(NoApp) /\ ~NoApp.launcher
           /\ DOMAIN appCmd = AppCmdFields /\ DOMAIN appCmd.profile = ProfileFields
           /\ KnownDeliveries(appCmd.profile)
           /\ appCmd.at \notin {""} => appCmd.op # "none"
           /\ appCmd.at \in {"profile", "plan", "upsert", "delete"} => app = appCmd.before
           /\ appCmd.at \in {"plan", "upsert"} => appCmd.profile.made
           /\ appCmd.op # "none" => appCmd.before = NoApp \/ appCmd.before.made
           /\ verdict.rolledBack /\ appCmd.op # "none" =>
                 (appCmd.before.launcher => launcher = "hasp")
           /\ appCmd.at = "path" /\ verdict.rolledBack => launcher = "hasp"
<1>1. DOMAIN NoApp = ProfileFields /\ KnownDeliveries(NoApp) /\ ~NoApp.launcher
  BY DEF NoApp, ProfileFields, KnownDeliveries
<1> QED BY <1>1 DEF AppsInv, AppsShaped, AppsStages, LauncherThere

LEMMA BuildProfileInv ==
    ASSUME AppsInv, BuildProfile
    PROVE  AppsInv'
<1> DEFINE p == Profile(appCmd.wish)
           at == IF appCmd.wish.install THEN "plan" ELSE "upsert"
<1>1. CASE Ends(FALSE, TRUE)
  <2>1. app' = app /\ launcher' = launcher /\ UNCHANGED <<received, ranProfile>>
        /\ appCmd.at = "profile"
    BY DEF BuildProfile
  <2> QED BY <1>1, <2>1, AppFacts, AppEndsInv
<1>2. CASE appCmd' = [appCmd EXCEPT !.at = at, !.profile = p] /\ UNCHANGED verdict
  <2>1. /\ UNCHANGED <<app, launcher, received, ranProfile>> /\ appCmd.at = "profile"
    BY DEF BuildProfile
  <2>2. DOMAIN p = ProfileFields /\ p.made /\ p.launcher = app.launcher
    BY DEF Profile, ProfileFields
  <2>3. KnownDeliveries(p)
    BY <2>1 DEF AppsInv, AppsShaped, KnownDeliveries, Profile, appConsumerBindings
  <2>4. at \in {"plan", "upsert"} /\ (at = "plan" => appCmd.wish.install)
    OBVIOUS
  <2> HIDE DEF p, at
  <2>5. /\ appCmd'.at = at /\ appCmd'.profile = p /\ appCmd'.op = appCmd.op
        /\ appCmd'.wish = appCmd.wish /\ appCmd'.before = appCmd.before
        /\ DOMAIN appCmd' = AppCmdFields
    BY <1>2, AppFacts DEF AppCmdFields
  <2> QED BY <1>2, <2>1, <2>2, <2>3, <2>4, <2>5, AppFacts, AppGoesOn
<1> QED BY <1>1, <1>2 DEF BuildProfile

LEMMA PlanInv ==
    ASSUME AppsInv, planAppLauncher
    PROVE  AppsInv'
<1>1. /\ UNCHANGED <<app, launcher, received, ranProfile>> /\ appCmd.at = "plan"
  BY DEF planAppLauncher
<1>2. CASE Ends(FALSE, TRUE)
  BY <1>1, <1>2, AppFacts, AppEndsInv
<1>3. CASE appCmd' = [appCmd EXCEPT !.at = "upsert", !.profile.launcher = TRUE]
           /\ UNCHANGED verdict
  <2> DEFINE p == [appCmd.profile EXCEPT !.launcher = TRUE]
  <2>1. /\ appCmd'.at = "upsert" /\ appCmd'.profile = p /\ appCmd'.op = appCmd.op
        /\ appCmd'.wish = appCmd.wish /\ appCmd'.before = appCmd.before
        /\ DOMAIN appCmd' = AppCmdFields
    BY <1>3, AppFacts DEF AppCmdFields
  <2>2. DOMAIN p = ProfileFields /\ p.made = appCmd.profile.made /\ KnownDeliveries(p)
    BY AppFacts DEF ProfileFields, KnownDeliveries
  <2>3. appCmd.wish.install
    BY <1>1 DEF AppsInv, AppsStages
  <2> HIDE DEF p
  <2> QED BY <1>1, <1>3, <2>1, <2>2, <2>3, AppFacts, AppGoesOn
<1> QED BY <1>2, <1>3 DEF planAppLauncher

LEMMA UpsertInv ==
    ASSUME AppsInv, UpsertAppConsumer
    PROVE  AppsInv'
<1>1. /\ UNCHANGED <<launcher, received, ranProfile>> /\ appCmd.at = "upsert"
      /\ app' = appCmd.profile
  BY DEF UpsertAppConsumer
<1>2. CASE appCmd.wish.install
  <2>1. appCmd' = [appCmd EXCEPT !.at = "launcher"] /\ UNCHANGED verdict
    BY <1>2 DEF UpsertAppConsumer, AppStep
  <2>2. /\ appCmd'.at = "launcher" /\ appCmd'.profile = appCmd.profile /\ appCmd'.op = appCmd.op
        /\ appCmd'.wish = appCmd.wish /\ appCmd'.before = appCmd.before
        /\ DOMAIN appCmd' = AppCmdFields
    BY <2>1, AppFacts DEF AppCmdFields
  <2> QED BY <1>1, <2>1, <2>2, AppFacts, AppGoesOn
<1>3. CASE ~appCmd.wish.install
  <2>1. Ends(TRUE, TRUE)
    BY <1>3 DEF UpsertAppConsumer
  <2>2. appCmd.profile.launcher => appCmd.before.launcher
    BY <1>1, <1>3 DEF AppsInv, AppsStages
  <2> QED BY <1>1, <2>1, <2>2, AppFacts, AppEndsInv
<1> QED BY <1>2, <1>3

LEMMA LauncherInv ==
    ASSUME AppsInv, writePlannedAppLauncher
    PROVE  AppsInv'
<1>1. /\ UNCHANGED <<app, received, ranProfile>> /\ appCmd.at = "launcher" /\ launcher' = "hasp"
  BY DEF writePlannedAppLauncher
<1>2. CASE AppStep("path")
  <2>1. appCmd' = [appCmd EXCEPT !.at = "path"] /\ UNCHANGED verdict
    BY <1>2 DEF AppStep
  <2>2. /\ appCmd'.at = "path" /\ appCmd'.profile = appCmd.profile /\ appCmd'.op = appCmd.op
        /\ appCmd'.wish = appCmd.wish /\ appCmd'.before = appCmd.before
        /\ DOMAIN appCmd' = AppCmdFields
    BY <2>1, AppFacts DEF AppCmdFields
  <2> QED BY <1>1, <2>1, <2>2, AppFacts, AppGoesOn
<1>3. CASE Ends(TRUE, TRUE)
  BY <1>1, <1>3, AppFacts, AppEndsInv
<1> QED BY <1>2, <1>3 DEF writePlannedAppLauncher

LEMMA PathInv ==
    ASSUME AppsInv, ensureLauncherDirOnPath
    PROVE  AppsInv'
<1>1. /\ UNCHANGED <<app, launcher, received, ranProfile>> /\ appCmd.at = "path"
      /\ Ends(TRUE, TRUE)
  BY DEF ensureLauncherDirOnPath
<1> QED BY <1>1, AppFacts, AppEndsInv

LEMMA DeleteInv ==
    ASSUME AppsInv, DeleteAppConsumer
    PROVE  AppsInv'
<1>1. /\ UNCHANGED <<launcher, received, ranProfile>> /\ appCmd.at = "delete" /\ app' = NoApp
  BY DEF DeleteAppConsumer
<1>2. CASE AppStep("remove")
  <2>1. appCmd' = [appCmd EXCEPT !.at = "remove"] /\ UNCHANGED verdict
    BY <1>2 DEF AppStep
  <2>2. /\ appCmd'.at = "remove" /\ appCmd'.profile = appCmd.profile /\ appCmd'.op = appCmd.op
        /\ appCmd'.wish = appCmd.wish /\ appCmd'.before = appCmd.before
        /\ DOMAIN appCmd' = AppCmdFields
    BY <2>1, AppFacts DEF AppCmdFields
  <2> QED BY <1>1, <2>1, <2>2, AppFacts, AppGoesOn
<1>3. CASE Ends(TRUE, TRUE)
  BY <1>1, <1>3, AppFacts, AppEndsInv
<1> QED BY <1>2, <1>3 DEF DeleteAppConsumer

LEMMA RemoveInv ==
    ASSUME AppsInv, RemoveLauncher
    PROVE  AppsInv'
<1>1. /\ UNCHANGED <<app, received, ranProfile>> /\ appCmd.at = "remove" /\ Ends(TRUE, TRUE)
  BY DEF RemoveLauncher
<1>2. app = NoApp
  BY <1>1 DEF AppsInv, AppsStages
<1> QED BY <1>1, <1>2, AppFacts, AppEndsInv

LEMMA FailsInv ==
    ASSUME AppsInv, AppFailsEarly \/ AppFailsLate \/ RollbackFails
    PROVE  AppsInv'
<1>1. CASE AppFailsEarly
  <2>1. /\ UNCHANGED <<app, launcher, received, ranProfile>> /\ Ends(FALSE, TRUE)
        /\ appCmd.at \in {"profile", "plan", "upsert", "delete"}
    BY <1>1 DEF AppFailsEarly
  <2> QED BY <2>1, AppFacts, AppEndsInv
<1>2. CASE AppFailsLate
  <2>1. /\ UNCHANGED <<launcher, received, ranProfile>> /\ Ends(FALSE, TRUE)
        /\ appCmd.at \in {"launcher", "path", "remove"} /\ app' = rollbackAppConsumer
    BY <1>2 DEF AppFailsLate
  <2>2. app' = appCmd.before
    BY <2>1, AppFacts DEF rollbackAppConsumer
  <2>3. DOMAIN appCmd.before = ProfileFields /\ KnownDeliveries(appCmd.before)
    BY <2>1, AppFacts DEF AppsInv, AppsShaped
  <2> QED BY <2>1, <2>2, <2>3, AppFacts, AppEndsInv
<1>3. CASE RollbackFails
  <2>1. /\ UNCHANGED <<app, launcher, received, ranProfile>> /\ Ends(FALSE, FALSE)
    BY <1>3 DEF RollbackFails
  <2> QED BY <2>1, AppFacts, AppEndsInv
<1> QED BY <1>1, <1>2, <1>3

LEMMA ExecuteInv ==
    ASSUME AppsInv, NEW granted, executeAppConsumer(granted)
    PROVE  AppsInv'
<1>1. UNCHANGED <<app, launcher, appCmd, verdict>>
  BY DEF executeAppConsumer
<1>2. (received # <<>> => Delivered(ranProfile, received))'
  <2>1. CASE received' = Handed(app) /\ ranProfile' = app /\ Deliverable(app)
    <3>1. Delivered(app, Handed(app))
      BY <2>1, AppFacts, HandedDelivers DEF Deliverable
    <3> QED BY <2>1, <3>1
  <2>2. CASE UNCHANGED <<received, ranProfile>>
    BY <2>2 DEF AppsInv
  <2> QED BY <2>1, <2>2 DEF executeAppConsumer
<1>3. AppsShaped' /\ AppsStages' /\ LauncherThere' /\ FailuresRolledBack'
  BY <1>1 DEF AppsInv, AppsShaped, AppsStages, LauncherThere, FailuresRolledBack
<1> QED BY <1>2, <1>3 DEF AppsInv

LEMMA AppsStepInv ==
    ASSUME AppsInv, [AppsNext]_appVars
    PROVE  AppsInv'
<1>1. ASSUME UNCHANGED <<app, launcher, appCmd, verdict, received, ranProfile>>
      PROVE  AppsInv'
  BY <1>1 DEF AppsInv, AppsShaped, AppsStages, LauncherThere, FailuresRolledBack
<1>2. ASSUME NEW i \in items, ItemDeleted(i) PROVE AppsInv'
  BY <1>1, <1>2 DEF ItemDeleted
<1>3. CASE UNCHANGED appVars
  BY <1>1, <1>3 DEF appVars
<1>4. CASE AppsNext
  BY <1>2, <1>4, ConnectInv, BuildProfileInv, InstallInv, PlanInv, UpsertInv, LauncherInv,
     PathInv, DisconnectInv, DeleteInv, RemoveInv, FailsInv, ExecuteInv DEF AppsNext
<1> QED BY <1>3, <1>4

\* The profile saved, the command under way, the launcher and the verdict of the
\* last command stay in that relation.
THEOREM AppsInvariant == AppsSpec => []AppsInv
<1>1. AppsInv /\ [AppsNext]_appVars => AppsInv'
  BY AppsStepInv
<1> QED BY <1>1, AppsInitInv, PTL DEF AppsSpec

\* A profile that runs hands every binding to its command, a failed connect or
\* disconnect leaves the saved profile as it was before when its rollback did not
\* fail, and a profile with a launcher has one (appConnect, appDisconnect).
THEOREM ProfileServedWhole == AppsSpec => []ProfileHolds
<1>1. AppsInv => ProfileHolds
  BY DEF AppsInv, FailuresRolledBack, LauncherThere, Delivered, ProfileHolds
<1> QED BY <1>1, AppsInvariant, PTL

(***************************************************************************)
(* Telemetry: Telemetry.  The argument: while consent is withdrawn no process *)
(* waits for the answer to a ping and none holds a state with consent that it *)
(* is about to write, so neither the file nor a process can bring it back. *)
(***************************************************************************)

\* The shapes of a state and of a process.
StateShaped(s) ==
    /\ s = [enabled |-> s.enabled, id |-> s.id, year |-> s.year, lastPing |-> s.lastPing,
            erasures |-> s.erasures]
    /\ s.enabled \in BOOLEAN

ProcessShaped(r) ==
    /\ r = [at |-> r.at, command |-> r.command, blocked |-> r.blocked, state |-> r.state,
            then |-> r.then, hashes |-> r.hashes]
    /\ StateShaped(r.state)
    /\ r.at = "idle" => r.command = "none"
    /\ r.at \in {"remove", "erase"} => r.command = "forget"
    /\ r.then \in {"record", "ping", "idle"}

TelemetryShaped ==
    /\ stateFile \notin {NoStateFile, TornState} => StateShaped(stateFile)
    /\ DOMAIN process = Processes
    /\ process = [p \in Processes |-> process[p]]
    /\ \A p \in Processes : ProcessShaped(process[p])
    /\ withdrawn \in BOOLEAN

\* While consent is withdrawn no process can send or bring consent back: none
\* waits for a ping's answer, none enables, and none holds a state with consent
\* that it is about to write.
Quiet(r) == /\ r.at # "post" /\ r.command # "enable"
            /\ r.at \in {"truncate", "write"} => ~r.state.enabled

NobodySends ==
    withdrawn => /\ stateFile \notin {NoStateFile, TornState} => ~stateFile.enabled
                 /\ \A p \in Processes : Quiet(process[p])

ConsentInv == TelemetryShaped /\ NobodySends

LEMMA LoadShaped ==
    ASSUME TelemetryShaped
    PROVE  StateShaped(Load) /\ (NobodySends /\ withdrawn => ~Load.enabled)
BY DEF TelemetryShaped, StateShaped, Load, normalizeState, emptyState, NobodySends

LEMMA StateWith ==
    ASSUME NEW s, StateShaped(s), NEW b \in BOOLEAN, NEW d
    PROVE  /\ StateShaped([s EXCEPT !.enabled = b]) /\ [s EXCEPT !.enabled = b].enabled = b
           /\ StateShaped([s EXCEPT !.lastPing = d]) /\ [s EXCEPT !.lastPing = d].enabled = s.enabled
           /\ StateShaped([s EXCEPT !.erasures = d]) /\ [s EXCEPT !.erasures = d].enabled = s.enabled
BY DEF StateShaped

LEMMA StateOps ==
    ASSUME NEW s, StateShaped(s)
    PROVE  /\ StateShaped(normalizeState(s)) /\ normalizeState(s).enabled = s.enabled
           /\ StateShaped(ensureInstallID(s)) /\ ensureInstallID(s).enabled = s.enabled
           /\ StateShaped(StoreEnable(s))
           /\ StateShaped(StoreDisable(s)) /\ ~StoreDisable(s).enabled
<1>1. StateShaped(ensureInstallID(s)) /\ ensureInstallID(s).enabled = s.enabled
  BY DEF StateShaped, ensureInstallID
<1>2. StateShaped(StoreEnable(s))
  BY <1>1, StateWith DEF StoreEnable
<1>3. StateShaped(normalizeState(s)) /\ normalizeState(s).enabled = s.enabled
  BY StateWith DEF normalizeState
<1>4. StateShaped(StoreDisable(s)) /\ ~StoreDisable(s).enabled
  BY StateWith DEF StoreDisable
<1> QED BY <1>1, <1>2, <1>3, <1>4

\* A step of one process: the others stay as they are.
LEMMA ConsentStep ==
    ASSUME ConsentInv, NEW p \in Processes, NEW r, process' = [process EXCEPT ![p] = r],
           ProcessShaped(r), withdrawn' \in BOOLEAN,
           stateFile' \notin {NoStateFile, TornState} => StateShaped(stateFile'),
           withdrawn' => /\ stateFile' \notin {NoStateFile, TornState} => ~stateFile'.enabled
                         /\ Quiet(r)
                         /\ withdrawn \/ Alone(p)
    PROVE  ConsentInv'
<1>1. TelemetryShaped'
  BY DEF ConsentInv, TelemetryShaped
<1>2. ASSUME withdrawn', NEW q \in Processes PROVE Quiet(process'[q])
  <2>1. CASE q = p
    BY <1>2, <2>1 DEF ConsentInv, TelemetryShaped
  <2>2. CASE q # p
    <3>1. process'[q] = process[q]
      BY <2>2 DEF ConsentInv, TelemetryShaped
    <3>2. Quiet(process[q])
      <4>1. CASE withdrawn
        BY <4>1 DEF ConsentInv, NobodySends
      <4>2. CASE Alone(p)
        <5>1. process[q].at = "idle" /\ process[q].command = "none"
          BY <4>2, <2>2 DEF Alone, ConsentInv, TelemetryShaped, ProcessShaped
        <5> QED BY <5>1 DEF Quiet
      <4> QED BY <4>1, <4>2, <1>2
    <3> QED BY <3>1, <3>2
  <2> QED BY <2>1, <2>2
<1> QED BY <1>1, <1>2 DEF ConsentInv, NobodySends

LEMMA ShapedRecords ==
    /\ ProcessShaped(NoCommand) /\ Quiet(NoCommand)
    /\ StateShaped(emptyState) /\ ~emptyState.enabled
BY DEF ProcessShaped, StateShaped, NoCommand, emptyState, Quiet

LEMMA TelemetryInitConsentInv == TelemetryInit => ConsentInv
BY ShapedRecords DEF TelemetryInit, ConsentInv, TelemetryShaped, NobodySends

\* What Proceeds makes of a process, and Saves.
LEMMA Proceeding ==
    ASSUME NEW r, ProcessShaped(r), NEW at,
           at \in {"remove", "erase"} => r.command = "forget",
           NEW x, x = IF at = "idle" THEN NoCommand ELSE [r EXCEPT !.at = at, !.state = emptyState]
    PROVE  /\ ProcessShaped(x)
           /\ at \notin {"post", "truncate", "write"} /\ r.command # "enable" => Quiet(x)
<1>1. CASE at = "idle"
  BY <1>1, ShapedRecords
<1>2. CASE at # "idle"
  BY <1>2, ShapedRecords DEF ProcessShaped, Quiet
<1> QED BY <1>1, <1>2

LEMMA Saving ==
    ASSUME NEW r, ProcessShaped(r), NEW s, StateShaped(s), NEW then \in {"record", "ping", "idle"},
           NEW x, x = [r EXCEPT !.at = "truncate", !.state = normalizeState(s), !.then = then]
    PROVE  /\ ProcessShaped(x)
           /\ r.command # "enable" /\ ~s.enabled => Quiet(x)
<1>1. StateShaped(normalizeState(s)) /\ normalizeState(s).enabled = s.enabled
  BY StateOps
<1> QED BY <1>1 DEF ProcessShaped, Quiet

-----------------------------------------------------------------------------
(* The steps.  In each, r is what the process becomes. *)

\* A step that goes on without saving, and one that saves.
LEMMA ProceedsConsent ==
    ASSUME ConsentInv, NEW p \in Processes, NEW at, Proceeds(p, at),
           at \in {"record", "ping", "idle"} \/ (at = "erase" /\ process[p].command = "forget"),
           withdrawn' \in BOOLEAN, withdrawn' => withdrawn \/ Alone(p),
           withdrawn' => process[p].command # "enable",
           stateFile' \notin {NoStateFile, TornState} => StateShaped(stateFile'),
           withdrawn' => (stateFile' \notin {NoStateFile, TornState} => ~stateFile'.enabled)
    PROVE  ConsentInv'
<1> DEFINE r == IF at = "idle" THEN NoCommand ELSE [process[p] EXCEPT !.at = at, !.state = emptyState]
<1>1. ProcessShaped(process[p])
  BY DEF ConsentInv, TelemetryShaped
<1>2. ProcessShaped(r) /\ (process[p].command # "enable" => Quiet(r))
  BY <1>1, Proceeding
<1>3. process' = [process EXCEPT ![p] = r]
  BY DEF Proceeds
<1> HIDE DEF r
<1> QED BY <1>2, <1>3, ConsentStep

LEMMA SavesConsent ==
    ASSUME ConsentInv, NEW p \in Processes, NEW s, NEW then \in {"record", "ping", "idle"},
           Saves(p, s, then), StateShaped(s),
           UNCHANGED <<withdrawn, stateFile>>,
           withdrawn => ~s.enabled
    PROVE  ConsentInv'
<1> DEFINE r == [process[p] EXCEPT !.at = "truncate", !.state = normalizeState(s), !.then = then]
<1>1. ProcessShaped(process[p])
  BY DEF ConsentInv, TelemetryShaped
<1>2. ProcessShaped(r) /\ (process[p].command # "enable" /\ ~s.enabled => Quiet(r))
  BY <1>1, Saving
<1>3. process' = [process EXCEPT ![p] = r]
  BY <1>1 DEF Saves
<1>4. withdrawn => Quiet(process[p]) /\ (stateFile \notin {NoStateFile, TornState} => ~stateFile.enabled)
  BY DEF ConsentInv, NobodySends
<1>5. stateFile \notin {NoStateFile, TornState} => StateShaped(stateFile)
  BY DEF ConsentInv, TelemetryShaped
<1>6. withdrawn \in BOOLEAN
  BY DEF ConsentInv, TelemetryShaped
<1>7. withdrawn => process[p].command # "enable"
  BY <1>4 DEF Quiet
<1> HIDE DEF r
<1> QED BY <1>2, <1>3, <1>4, <1>5, <1>6, <1>7, ConsentStep

\* A step that changes nothing about consent but where the process is.
LEMMA MovesConsent ==
    ASSUME ConsentInv, NEW p \in Processes, NEW r, process' = [process EXCEPT ![p] = r],
           ProcessShaped(r), UNCHANGED <<withdrawn, stateFile>>,
           withdrawn => Quiet(r)
    PROVE  ConsentInv'
<1>1. stateFile \notin {NoStateFile, TornState} => StateShaped(stateFile)
  BY DEF ConsentInv, TelemetryShaped
<1>2. withdrawn => (stateFile \notin {NoStateFile, TornState} => ~stateFile.enabled)
  BY DEF ConsentInv, NobodySends
<1>3. withdrawn \in BOOLEAN
  BY DEF ConsentInv, TelemetryShaped
<1> QED BY <1>1, <1>2, <1>3, ConsentStep

\* What the invariant says of process p.
LEMMA ConsentFacts ==
    ASSUME ConsentInv, NEW p \in Processes
    PROVE  /\ ProcessShaped(process[p]) /\ withdrawn \in BOOLEAN
           /\ withdrawn => Quiet(process[p]) /\ ~Load.enabled
           /\ withdrawn => (stateFile \notin {NoStateFile, TornState} => ~stateFile.enabled)
           /\ stateFile \notin {NoStateFile, TornState} => StateShaped(stateFile)
           /\ StateShaped(Load)
BY LoadShaped DEF ConsentInv, TelemetryShaped, NobodySends

LEMMA Starting ==
    ASSUME NEW n, ProcessShaped(n), NEW at \in {"record", "run"}, NEW command, NEW blocked
    PROVE  LET x == [n EXCEPT !.at = at, !.command = command, !.blocked = blocked]
           IN  ProcessShaped(x) /\ (command # "enable" => Quiet(x))
<1> DEFINE x1 == [n EXCEPT !.at = at]
           x2 == [x1 EXCEPT !.command = command]
           x3 == [x2 EXCEPT !.blocked = blocked]
<1>1. x1 = [at |-> at, command |-> n.command, blocked |-> n.blocked, state |-> n.state,
            then |-> n.then, hashes |-> n.hashes]
  BY DEF ProcessShaped
<1>2. [n EXCEPT !.at = at, !.command = command, !.blocked = blocked] = x3
  OBVIOUS
<1> HIDE DEF x1
<1>3. x2 = [at |-> at, command |-> command, blocked |-> n.blocked, state |-> n.state,
            then |-> n.then, hashes |-> n.hashes]
  BY <1>1
<1> HIDE DEF x2
<1>4. x3 = [at |-> at, command |-> command, blocked |-> blocked, state |-> n.state,
            then |-> n.then, hashes |-> n.hashes]
  BY <1>3
<1> HIDE DEF x3
<1>5. ProcessShaped(x3) /\ (command # "enable" => Quiet(x3))
  BY <1>4 DEF ProcessShaped, Quiet
<1> QED BY <1>2, <1>5

LEMMA BeginConsent ==
    ASSUME ConsentInv, NEW p \in Processes, NEW command, NEW blocked, Begin(p, command, blocked)
    PROVE  ConsentInv'
<1> DEFINE at == IF command \in {"listed", "unlisted"} THEN "record" ELSE "run"
           r == [NoCommand EXCEPT !.at = at, !.command = command, !.blocked = blocked]
<1>1. at \in {"record", "run"}
  OBVIOUS
<1>2. process' = [process EXCEPT ![p] = r] /\ withdrawn' = (withdrawn /\ command # "enable")
      /\ UNCHANGED stateFile
  BY DEF Begin
<1> HIDE DEF at
<1>3. ProcessShaped(r) /\ (command # "enable" => Quiet(r))
  BY <1>1, ShapedRecords, Starting
<1> HIDE DEF r
<1> QED BY <1>2, <1>3, ConsentStep, ConsentFacts

LEMMA EnableConsent ==
    ASSUME ConsentInv, NEW p \in Processes, Enable(p)
    PROVE  ConsentInv'
<1>1. StateShaped(StoreEnable(Load)) /\ ~withdrawn
  BY ConsentFacts, StateOps DEF Enable, Runs, Quiet
<1> QED BY <1>1, SavesConsent DEF Enable

LEMMA DisableConsent ==
    ASSUME ConsentInv, NEW p \in Processes, Disable(p)
    PROVE  ConsentInv'
<1>1. StateShaped(StoreDisable(Load)) /\ ~StoreDisable(Load).enabled
  BY ConsentFacts, StateOps
<1> QED BY <1>1, SavesConsent DEF Disable

\* A process that stays with its command and its state.
LEMMA Stays ==
    ASSUME NEW r, ProcessShaped(r), NEW at, NEW hashes,
           at \in {"remove", "erase"} => r.command = "forget", at # "idle", at # "post",
           at \notin {"truncate", "write"}
    PROVE  LET x == [r EXCEPT !.at = at, !.hashes = hashes]
           IN  ProcessShaped(x) /\ (Quiet(r) => Quiet(x))
<1> DEFINE x == [r EXCEPT !.at = at, !.hashes = hashes]
<1>1. x = [at |-> at, command |-> r.command, blocked |-> r.blocked, state |-> r.state,
           then |-> r.then, hashes |-> hashes]
  <2> DEFINE x1 == [r EXCEPT !.at = at]
             x2 == [x1 EXCEPT !.hashes = hashes]
  <2>1. x = x2
    OBVIOUS
  <2>2. x1 = [at |-> at, command |-> r.command, blocked |-> r.blocked, state |-> r.state,
              then |-> r.then, hashes |-> r.hashes]
    BY DEF ProcessShaped
  <2> HIDE DEF x1
  <2>3. x2 = [at |-> at, command |-> r.command, blocked |-> r.blocked, state |-> r.state,
              then |-> r.then, hashes |-> hashes]
    BY <2>2
  <2> QED BY <2>1, <2>3
<1> HIDE DEF x
<1>2. ProcessShaped(x) /\ (Quiet(r) => Quiet(x))
  BY <1>1 DEF ProcessShaped, Quiet
<1> QED BY <1>2 DEF x

LEMMA ForgetReadsConsent ==
    ASSUME ConsentInv, NEW p \in Processes, ForgetReads(p)
    PROVE  ConsentInv'
<1> DEFINE r == [process[p] EXCEPT !.at = "remove", !.hashes = Known(Load)]
<1>1. ProcessShaped(process[p]) /\ process[p].command = "forget"
  BY ConsentFacts DEF ForgetReads, Runs
<1>2. process' = [process EXCEPT ![p] = r] /\ UNCHANGED <<withdrawn, stateFile>>
  BY <1>1 DEF ForgetReads
<1>3. ProcessShaped(r) /\ (Quiet(process[p]) => Quiet(r))
  BY <1>1, Stays
<1> HIDE DEF r
<1> QED BY <1>2, <1>3, MovesConsent, ConsentFacts

LEMMA ForgetConsent ==
    ASSUME ConsentInv, NEW p \in Processes, Forget(p)
    PROVE  ConsentInv'
<1> DEFINE at == IF AsksErasure(p) THEN "erase" ELSE "record"
<1>1. process[p].command = "forget"
  BY ConsentFacts DEF Forget, ProcessShaped
<1>2. at \in {"erase", "record"} /\ Proceeds(p, at) /\ stateFile' = NoStateFile
      /\ withdrawn' = Alone(p)
  BY DEF Forget
<1>3. Alone(p) \in BOOLEAN
  BY DEF Alone
<1> HIDE DEF at
<1> QED BY <1>1, <1>2, <1>3, ProceedsConsent

\* A step that goes on and changes neither consent nor the file.
LEMMA GoesOn ==
    ASSUME ConsentInv, NEW p \in Processes, NEW at \in {"record", "ping", "idle"},
           Proceeds(p, at), UNCHANGED <<withdrawn, stateFile>>
    PROVE  ConsentInv'
BY ProceedsConsent, ConsentFacts DEF Quiet

LEMMA SendErasuresConsent ==
    ASSUME ConsentInv, NEW p \in Processes, SendErasures(p)
    PROVE  ConsentInv'
<1> DEFINE rest == Tail(process[p].hashes)
           at == IF rest = <<>> THEN "record" ELSE "erase"
           r == [process[p] EXCEPT !.at = at, !.hashes = rest]
<1>1. ProcessShaped(process[p]) /\ process[p].command = "forget" /\ process[p].at = "erase"
  BY ConsentFacts DEF SendErasures, ProcessShaped
<1>2. UNCHANGED <<withdrawn, stateFile>>
  BY DEF SendErasures
<1>3. CASE process' = [process EXCEPT ![p].hashes = rest,
                                      ![p].at = IF rest = <<>> THEN "record" ELSE @]
  <2>1. process' = [process EXCEPT ![p] = r]
    BY <1>1, <1>3 DEF ConsentInv, TelemetryShaped, ProcessShaped
  <2>2. at \in {"record", "erase"}
    OBVIOUS
  <2> HIDE DEF at
  <2>3. ProcessShaped(r) /\ (Quiet(process[p]) => Quiet(r))
    BY <1>1, <2>2, Stays
  <2> HIDE DEF r
  <2> QED BY <1>2, <2>1, <2>3, MovesConsent, ConsentFacts
<1>4. CASE Proceeds(p, "record")
  BY <1>2, <1>4, GoesOn
<1> QED BY <1>3, <1>4 DEF SendErasures

LEMMA PreviewConsent ==
    ASSUME ConsentInv, NEW p \in Processes, telemetryStatus(p)
    PROVE  ConsentInv'
<1>1. CASE Saves(p, ensureInstallID(Load), "record") /\ Load.enabled
  BY <1>1, SavesConsent, StateOps, ConsentFacts DEF telemetryStatus
<1>2. CASE Proceeds(p, "record")
  BY <1>2, GoesOn DEF telemetryStatus
<1> QED BY <1>1, <1>2 DEF telemetryStatus

LEMMA RecordConsent ==
    ASSUME ConsentInv, NEW p \in Processes, RecordRootCommand(p)
    PROVE  ConsentInv'
<1>1. AfterRecord(p) \in {"record", "ping", "idle"}
  BY DEF AfterRecord
<1>2. UNCHANGED <<withdrawn, stateFile>>
  BY DEF RecordRootCommand
<1>3. CASE Saves(p, ensureInstallID(Load), AfterRecord(p)) /\ Load.enabled
  BY <1>1, <1>2, <1>3, SavesConsent, StateOps, ConsentFacts
<1>4. CASE Proceeds(p, AfterRecord(p))
  BY <1>1, <1>2, <1>4, GoesOn
<1> QED BY <1>3, <1>4 DEF RecordRootCommand

LEMMA BuildPayloadConsent ==
    ASSUME ConsentInv, NEW p \in Processes, BuildPayload(p)
    PROVE  ConsentInv'
<1>1. UNCHANGED <<withdrawn, stateFile>>
  BY DEF BuildPayload
<1>2. CASE PingDue(p)
  <2> DEFINE s == ensureInstallID(Load)
             r == [process[p] EXCEPT !.at = "post", !.state = s]
  <2>1. ~withdrawn
    BY <1>2, ConsentFacts DEF PingDue
  <2>2. StateShaped(s) /\ ProcessShaped(process[p])
    BY ConsentFacts, StateOps
  <2>3. process' = [process EXCEPT ![p] = r]
    BY <1>2, <2>2 DEF BuildPayload
  <2> HIDE DEF s
  <2>4. ProcessShaped(r)
    <3>1. r = [at |-> "post", command |-> process[p].command, blocked |-> process[p].blocked,
               state |-> s, then |-> process[p].then, hashes |-> process[p].hashes]
      <4> DEFINE r1 == [process[p] EXCEPT !.at = "post"]
                 r2 == [r1 EXCEPT !.state = s]
      <4>1. r = r2
        OBVIOUS
      <4>2. r1 = [at |-> "post", command |-> process[p].command,
                  blocked |-> process[p].blocked, state |-> process[p].state,
                  then |-> process[p].then, hashes |-> process[p].hashes]
        BY <2>2 DEF ProcessShaped
      <4> HIDE DEF r1
      <4> QED BY <4>1, <4>2
    <3>2. process[p].then \in {"record", "ping", "idle"}
      BY <2>2 DEF ProcessShaped
    <3> HIDE DEF r
    <3> QED BY <2>2, <3>1, <3>2 DEF ProcessShaped
  <2> HIDE DEF r
  <2> QED BY <1>1, <2>1, <2>3, <2>4, MovesConsent
<1>3. CASE ~PingDue(p)
  BY <1>1, <1>3, GoesOn DEF BuildPayload
<1> QED BY <1>2, <1>3

LEMMA TrySendPingConsent ==
    ASSUME ConsentInv, NEW p \in Processes, TrySendPing(p)
    PROVE  ConsentInv'
<1> DEFINE s == [process[p].state EXCEPT !.lastPing = today]
<1>1. ~withdrawn
  BY ConsentFacts DEF TrySendPing, Quiet
<1>2. StateShaped(s)
  BY ConsentFacts, StateWith DEF ProcessShaped
<1>3. UNCHANGED <<withdrawn, stateFile>> /\ (Saves(p, s, "idle") \/ Proceeds(p, "idle"))
  BY DEF TrySendPing
<1> HIDE DEF s
<1> QED BY <1>1, <1>2, <1>3, SavesConsent, GoesOn

LEMMA TruncateConsent ==
    ASSUME ConsentInv, NEW p \in Processes, TruncateState(p)
    PROVE  ConsentInv'
<1> DEFINE r == [process[p] EXCEPT !.at = "write"]
<1>1. ProcessShaped(process[p]) /\ process[p].at = "truncate"
  BY ConsentFacts DEF TruncateState
<1>2. process' = [process EXCEPT ![p] = r] /\ stateFile' = TornState /\ UNCHANGED withdrawn
  BY <1>1 DEF TruncateState
<1>3. r = [at |-> "write", command |-> process[p].command, blocked |-> process[p].blocked,
           state |-> process[p].state, then |-> process[p].then, hashes |-> process[p].hashes]
  BY <1>1 DEF ProcessShaped
<1> HIDE DEF r
<1>4. ProcessShaped(r) /\ (Quiet(process[p]) => Quiet(r))
  BY <1>1, <1>3 DEF ProcessShaped, Quiet
<1> QED BY <1>2, <1>4, ConsentStep, ConsentFacts

LEMMA WriteConsent ==
    ASSUME ConsentInv, NEW p \in Processes, WriteState(p)
    PROVE  ConsentInv'
<1>1. /\ ProcessShaped(process[p]) /\ process[p].at = "write"
      /\ process[p].then \in {"record", "ping", "idle"} /\ StateShaped(process[p].state)
  BY ConsentFacts DEF WriteState, ProcessShaped
<1>2. stateFile' = process[p].state /\ Proceeds(p, process[p].then)
  BY DEF WriteState
<1>3. CASE process[p].command = "disable" /\ ~process[p].state.enabled
  <2>1. withdrawn' = Alone(p) /\ Alone(p) \in BOOLEAN
    BY <1>3 DEF WriteState, Alone
  <2> QED BY <1>1, <1>2, <1>3, <2>1, ProceedsConsent
<1>4. CASE ~(process[p].command = "disable" /\ ~process[p].state.enabled)
  <2>1. UNCHANGED withdrawn
    BY <1>4 DEF WriteState
  <2>2. withdrawn => ~process[p].state.enabled /\ process[p].command # "enable"
    BY <1>1, ConsentFacts DEF Quiet
  <2> QED BY <1>1, <1>2, <2>1, <2>2, ConsentFacts, ProceedsConsent
<1> QED BY <1>3, <1>4

LEMMA SaveFailsConsent ==
    ASSUME ConsentInv, NEW p \in Processes, SaveFails(p)
    PROVE  ConsentInv'
<1> DEFINE at == IF process[p].command \in {"enable", "disable"} /\ process[p].then = "record"
                 THEN "idle" ELSE process[p].then
<1>1. at \in {"record", "ping", "idle"}
  BY ConsentFacts DEF ProcessShaped
<1>2. Proceeds(p, at) /\ UNCHANGED <<withdrawn, stateFile>>
  BY DEF SaveFails
<1> HIDE DEF at
<1> QED BY <1>1, <1>2, GoesOn

LEMMA DiesConsent ==
    ASSUME ConsentInv, NEW p \in Processes, Dies(p)
    PROVE  ConsentInv'
BY ShapedRecords, MovesConsent DEF Dies

\* Only the answer to a ping makes the server's rows grow, and none is waited
\* for while consent is withdrawn.
LEMMA TelemetryStepConsent ==
    ASSUME ConsentInv, [TelemetryNext]_telemetryVars
    PROVE  ConsentInv' /\ (withdrawn => rows' \subseteq rows)
<1>1. CASE NextDay \/ UNCHANGED telemetryVars
  BY <1>1 DEF NextDay, telemetryVars, ConsentInv, TelemetryShaped, NobodySends
<1>2. ASSUME NEW p \in Processes, NEW command, NEW blocked, Begin(p, command, blocked)
      PROVE  ConsentInv' /\ (withdrawn => rows' \subseteq rows)
  BY <1>2, BeginConsent DEF Begin
<1>3. ASSUME NEW p \in Processes,
             \/ Enable(p) \/ Disable(p) \/ ForgetReads(p) \/ Forget(p)
             \/ telemetryStatus(p) \/ RecordRootCommand(p) \/ BuildPayload(p)
             \/ TruncateState(p) \/ WriteState(p) \/ SaveFails(p) \/ Dies(p)
      PROVE  ConsentInv'
  BY <1>3, EnableConsent, DisableConsent, ForgetReadsConsent, ForgetConsent, PreviewConsent,
     RecordConsent, BuildPayloadConsent, TruncateConsent, WriteConsent, SaveFailsConsent,
     DiesConsent
<1>4. ASSUME NEW p \in Processes,
             \/ Enable(p) \/ Disable(p) \/ ForgetReads(p) \/ Forget(p)
             \/ telemetryStatus(p) \/ RecordRootCommand(p) \/ BuildPayload(p)
             \/ TruncateState(p) \/ WriteState(p) \/ SaveFails(p) \/ Dies(p)
      PROVE  UNCHANGED rows
  BY <1>4 DEF Enable, Disable, ForgetReads, Forget, telemetryStatus, RecordRootCommand,
     BuildPayload, TruncateState, WriteState, SaveFails, Dies
<1>5. ASSUME NEW p \in Processes, SendErasures(p)
      PROVE  ConsentInv' /\ (withdrawn => rows' \subseteq rows)
  BY <1>5, SendErasuresConsent DEF SendErasures
<1>6. ASSUME NEW p \in Processes, TrySendPing(p)
      PROVE  ConsentInv' /\ (withdrawn => rows' \subseteq rows)
  BY <1>6, TrySendPingConsent, ConsentFacts DEF TrySendPing, Quiet
<1>7. CASE TelemetryNext
  BY <1>1, <1>2, <1>3, <1>4, <1>5, <1>6, <1>7, Zenon DEF TelemetryNext
<1> QED BY <1>1, <1>7

\* State file, processes and consent stay in that relation.
THEOREM ConsentInvariant == TelemetrySpec => []ConsentInv
<1>1. TelemetryInit => ConsentInv
  BY TelemetryInitConsentInv
<1>2. ConsentInv /\ [TelemetryNext]_telemetryVars => ConsentInv'
  BY TelemetryStepConsent
<1> QED BY <1>1, <1>2, PTL DEF TelemetrySpec

\* While consent is withdrawn, or before it was ever given, nothing of this
\* machine reaches the server, for any number of processes that write, tear, lose
\* and read the state file at once (Store.Load, TrySendPing, Store.Disable).
THEOREM NothingSentUnwanted == TelemetrySpec => QuietWhenWithdrawn
<1>1. ConsentInv /\ [TelemetryNext]_telemetryVars
        => [withdrawn => rows' \subseteq rows]_telemetryVars
  BY TelemetryStepConsent
<1> QED BY <1>1, ConsentInvariant, PTL DEF TelemetrySpec, QuietWhenWithdrawn

-----------------------------------------------------------------------------
(***************************************************************************)
(* Agents: the client's configuration keeps what is somebody else's, and   *)
(* the environment and the children are as they were when a command is     *)
(* over, for any number of clients, configurations and failures.           *)
(*                                                                         *)
(* The argument: the filter skips just the lines of HASP's sections, and   *)
(* whenever it does not skip, what it has put out does not end in such a   *)
(* section; so a line that it keeps is somebody else's after it as before. *)
(* Undoing the newest change of the environment first leads back to what   *)
(* the command found.                                                      *)
(***************************************************************************)

\* From 0 and from each number to the next, all numbers are reached.
LEMMA StepsReach ==
    ASSUME NEW n \in Nat, NEW B, 0 \in B, \A i \in 1..n : i - 1 \in B => i \in B
    PROVE  \A i \in 0..n : i \in B
<1> DEFINE Bad == (0..n) \ B
<1> SUFFICES ASSUME Bad # {} PROVE FALSE
  OBVIOUS
<1>1. Bad \subseteq Nat
  OBVIOUS
<1>2. PICK k \in Bad : \A m \in Bad : k <= m
  BY <1>1, Least
<1>3. k \in 0..n /\ k \in Nat /\ k # 0 /\ k \notin B
  BY <1>2
<1>4. k \in 1..n /\ k - 1 \in 0..n /\ k - 1 < k
  BY <1>3
<1>5. k - 1 \notin Bad
  BY <1>2, <1>4
<1> QED BY <1>3, <1>4, <1>5

StartsAndSteps(n, T, first, step, f) ==
    f \in [0..n -> T] /\ f[0] = first /\ \A i \in 1..n : f[i] = step[<<i, f[i - 1]>>]

\* A function is defined by its first value and the step from each to the next.
LEMMA StatesExist ==
    ASSUME NEW n \in Nat, NEW T, NEW first \in T, NEW step \in [(1..n) \X T -> T]
    PROVE  \E f : StartsAndSteps(n, T, first, step, f)
<1> DEFINE Up(k) == \E f \in [0..k -> T] : f[0] = first /\ \A i \in 1..k : f[i] = step[<<i, f[i - 1]>>]
           B == {k \in 0..n : Up(k)}
<1>1. Up(0)
  <2> DEFINE f == [i \in 0..0 |-> first]
  <2>1. f \in [0..0 -> T] /\ f[0] = first
    OBVIOUS
  <2>2. \A i \in 1..0 : FALSE
    OBVIOUS
  <2> HIDE DEF f
  <2> QED BY <2>1, <2>2
<1>2. ASSUME NEW k \in 1..n, Up(k - 1) PROVE Up(k)
  <2>1. PICK f \in [0..(k - 1) -> T] :
            f[0] = first /\ \A i \in 1..(k - 1) : f[i] = step[<<i, f[i - 1]>>]
    BY <1>2
  <2>2. f[k - 1] \in T /\ <<k, f[k - 1]>> \in (1..n) \X T
    OBVIOUS
  <2>3. PICK x \in T : x = step[<<k, f[k - 1]>>]
    BY <2>2
  <2> DEFINE g == [i \in 0..k |-> IF i = k THEN x ELSE f[i]]
  <2>4. \A i \in 0..k : i # k => i \in 0..(k - 1)
    OBVIOUS
  <2>5. g \in [0..k -> T]
    BY <2>1, <2>3, <2>4
  <2>6. \A i \in 0..(k - 1) : g[i] = f[i]
    OBVIOUS
  <2>7. g[k] = x
    OBVIOUS
  <2>8. \A i \in 1..k : i - 1 \in 0..(k - 1) /\ (i # k => i \in 1..(k - 1) /\ i \in 0..(k - 1))
    OBVIOUS
  <2> HIDE DEF g
  <2>9. \A i \in 1..k : g[i] = step[<<i, g[i - 1]>>]
    <3> SUFFICES ASSUME NEW i \in 1..k PROVE g[i] = step[<<i, g[i - 1]>>]
      OBVIOUS
    <3>1. g[i - 1] = f[i - 1]
      BY <2>6, <2>8
    <3>2. CASE i = k
      BY <2>3, <2>7, <3>1, <3>2
    <3>3. CASE i # k
      <4>1. g[i] = f[i]
        BY <2>6, <2>8, <3>3
      <4> QED BY <2>1, <2>8, <3>1, <3>3, <4>1
    <3> QED BY <3>2, <3>3
  <2>10. 0 \in 0..(k - 1)
    OBVIOUS
  <2>11. g[0] = first
    BY <2>1, <2>6, <2>10
  <2> QED BY <2>5, <2>9, <2>11
<1> HIDE DEF Up
<1>3. 0 \in B
  BY <1>1
<1>4. \A i \in 1..n : i - 1 \in B => i \in B
  BY <1>2
<1> HIDE DEF B
<1>5. n \in B
  BY <1>3, <1>4, StepsReach
<1> QED BY <1>5 DEF B, Up, StartsAndSteps

Alike(n, f, e) == \A i \in 0..n : f[i] = e[i]
StepAlike(n, f, e) == \A i \in 1..n : f[i - 1] = e[i - 1] => f[i] = e[i]

\* Two that start equal and step equally are equal.
LEMMA SameStates ==
    ASSUME NEW n \in Nat, NEW f, NEW e, f[0] = e[0], StepAlike(n, f, e)
    PROVE  Alike(n, f, e)
<1> DEFINE B == {i \in 0..n : f[i] = e[i]}
<1>1. 0 \in B /\ \A i \in 1..n : i - 1 \in B => i \in B
  BY DEF StepAlike
<1> HIDE DEF B
<1>2. \A i \in 0..n : i \in B
  BY <1>1, StepsReach
<1> QED BY <1>2 DEF B, Alike

-----------------------------------------------------------------------------
(* Lines and sections *)

\* The last line is in a section of HASP's.
EndsInHasp(s) == s # <<>> /\ InHaspSection(s, Len(s))

LEMMA Appended ==
    ASSUME NEW L, NEW s \in Seq(L), NEW x \in L
    PROVE  /\ Append(s, x) \in Seq(L) /\ Len(Append(s, x)) = Len(s) + 1 /\ Len(s) \in Nat
           /\ Append(s, x)[Len(s) + 1] = x /\ \A i \in 1..Len(s) : Append(s, x)[i] = s[i]
           /\ s \o <<x>> = Append(s, x) /\ s \o <<>> = s
BY AppendProperties, LenProperties, AppendIsConcat, ConcatEmptySeq

\* What is in a section stays so when lines follow.
LEMMA SectionKept ==
    ASSUME NEW L, NEW s \in Seq(L), NEW x \in L, NEW i \in 1..Len(s)
    PROVE  InHaspSection(Append(s, x), i) <=> InHaspSection(s, i)
<1>1. Len(s) \in Nat /\ \A j \in 1..Len(s) : Append(s, x)[j] = s[j]
  BY Appended
<1>2. \A j \in 1..i : j \in 1..Len(s) /\ \A k \in (j + 1)..i : k \in 1..Len(s)
  BY <1>1
<1> HIDE DEF HaspHeaders
<1> QED BY <1>1, <1>2 DEF InHaspSection

\* A line is in a section of HASP's when it opens it, or follows a line that is.
LEMMA SectionAt ==
    ASSUME NEW s, NEW i \in Nat, i # 0
    PROVE  InHaspSection(s, i) <=>
              s[i] \in HaspHeaders \/ (s[i] \notin Headers /\ i # 1 /\ InHaspSection(s, i - 1))
<1>1. s[i] \notin Headers \/ s[i] \notin HaspHeaders
  BY AgentsAssumption DEF HaspHeaders
<1>2. ASSUME InHaspSection(s, i)
      PROVE  s[i] \in HaspHeaders \/ (s[i] \notin Headers /\ i # 1 /\ InHaspSection(s, i - 1))
  <2>1. PICK j \in 1..i : s[j] \in HaspHeaders /\ \A k \in (j + 1)..i : s[k] \notin HaspHeaders \cup Headers
    BY <1>2 DEF InHaspSection
  <2>2. CASE j = i
    BY <2>1, <2>2
  <2>3. CASE j # i
    <3>1. j \in 1..(i - 1) /\ i \in (j + 1)..i /\ i # 1 /\ \A k \in (j + 1)..(i - 1) : k \in (j + 1)..i
      BY <2>3
    <3>2. InHaspSection(s, i - 1)
      BY <2>1, <3>1 DEF InHaspSection
    <3> QED BY <2>1, <3>1, <3>2
  <2> QED BY <2>2, <2>3
<1>3. ASSUME s[i] \in HaspHeaders PROVE InHaspSection(s, i)
  <2>1. i \in 1..i /\ \A k \in (i + 1)..i : FALSE
    OBVIOUS
  <2> QED BY <1>3, <2>1 DEF InHaspSection
<1>4. ASSUME s[i] \notin Headers, s[i] \notin HaspHeaders, i # 1, InHaspSection(s, i - 1)
      PROVE  InHaspSection(s, i)
  <2>1. PICK j \in 1..(i - 1) :
            s[j] \in HaspHeaders /\ \A k \in (j + 1)..(i - 1) : s[k] \notin HaspHeaders \cup Headers
    BY <1>4 DEF InHaspSection
  <2>2. j \in 1..i /\ \A k \in (j + 1)..i : k = i \/ k \in (j + 1)..(i - 1)
    OBVIOUS
  <2>3. \A k \in (j + 1)..i : s[k] \notin HaspHeaders \cup Headers
    BY <1>4, <2>1, <2>2
  <2> QED BY <2>1, <2>2, <2>3 DEF InHaspSection
<1> QED BY <1>2, <1>3, <1>4

LEMMA SectionNext ==
    ASSUME NEW L, NEW s \in Seq(L), NEW x \in L
    PROVE  /\ InHaspSection(Append(s, x), Len(s) + 1)
                <=> x \in HaspHeaders \/ (x \notin Headers /\ EndsInHasp(s))
           /\ EndsInHasp(Append(s, x)) <=> InHaspSection(Append(s, x), Len(s) + 1)
<1> DEFINE t == Append(s, x)
           n == Len(s)
<1>1. n \in Nat /\ t \in Seq(L) /\ Len(t) = n + 1 /\ t[n + 1] = x
  BY Appended
<1>2. t # <<>> /\ (s # <<>> <=> n # 0)
  <2>1. Len(t) # 0
    BY <1>1
  <2> QED BY <1>1, <2>1, EmptySeq
<1>3. n # 0 => (InHaspSection(t, n) <=> InHaspSection(s, n))
  <2>1. n # 0 => n \in 1..Len(s)
    BY <1>1
  <2> QED BY <2>1, SectionKept
<1> HIDE DEF t, n
<1>4. InHaspSection(t, n + 1) <=> x \in HaspHeaders \/ (x \notin Headers /\ n # 0 /\ InHaspSection(t, n))
  <2>1. n + 1 \in Nat /\ n + 1 # 0 /\ n + 1 - 1 = n /\ (n + 1 # 1 <=> n # 0)
    BY <1>1
  <2> QED BY <1>1, <2>1, SectionAt
<1>5. EndsInHasp(s) <=> n # 0 /\ InHaspSection(s, n)
  BY <1>2 DEF EndsInHasp, n
<1>6. EndsInHasp(t) <=> InHaspSection(t, n + 1)
  BY <1>1, <1>2 DEF EndsInHasp
<1> QED BY <1>3, <1>4, <1>5, <1>6 DEF t, n

-----------------------------------------------------------------------------
(* The filter and the lines it keeps *)

IsKept(lines, f) ==
    f = [i \in 0..Len(lines) |->
            IF i = 0 THEN <<>>
            ELSE IF InHaspSection(lines, i) THEN f[i - 1] ELSE Append(f[i - 1], lines[i])]

LEMMA KeptExists ==
    ASSUME NEW L, NEW s \in Seq(L)
    PROVE  \E f \in [0..Len(s) -> Seq(L)] : IsKept(s, f)
<1>1. PICK n \in Nat : n = Len(s)
  BY LenProperties
<1>2. \A i \in 1..n : s[i] \in L
  BY <1>1, ElementOfSeq
<1> DEFINE F(i, q) == IF InHaspSection(s, i) THEN q ELSE Append(q, s[i])
           step == [p \in (1..n) \X Seq(L) |-> F(p[1], p[2])]
<1>3. \A i \in 1..n : \A q \in Seq(L) : F(i, q) \in Seq(L)
  BY <1>2, AppendProperties
<1> HIDE DEF F
<1>4. step \in [(1..n) \X Seq(L) -> Seq(L)] /\ \A i \in 1..n : \A q \in Seq(L) : step[<<i, q>>] = F(i, q)
  BY <1>3
<1> HIDE DEF step
<1>5. <<>> \in Seq(L)
  OBVIOUS
<1>6. PICK f \in [0..n -> Seq(L)] : f[0] = <<>> /\ \A i \in 1..n : f[i] = step[<<i, f[i - 1]>>]
  <2>1. n \in Nat /\ <<>> \in Seq(L) /\ step \in [(1..n) \X Seq(L) -> Seq(L)]
    BY <1>4, <1>5
  <2>2. PICK f : StartsAndSteps(n, Seq(L), <<>>, step, f)
    BY <2>1, StatesExist, Zenon
  <2> QED BY <2>2 DEF StartsAndSteps
<1>7. \A i \in 0..n : f[i] = IF i = 0 THEN <<>> ELSE F(i, f[i - 1])
  <2> SUFFICES ASSUME NEW i \in 0..n, i # 0 PROVE f[i] = F(i, f[i - 1])
    BY <1>6
  <2>1. i \in 1..n /\ i - 1 \in 0..n
    OBVIOUS
  <2> QED BY <1>4, <1>6, <2>1
<1>8. IsKept(s, f)
  BY <1>1, <1>7 DEF IsKept, F
<1> QED BY <1>1, <1>8

KeepsLines(s, n, e) ==
    e[0] = <<>> /\ \A i \in 1..n : e[i] = IF InHaspSection(s, i) THEN e[i - 1] ELSE Append(e[i - 1], s[i])

LEMMA KeptShape ==
    ASSUME NEW s, NEW n \in Nat, n = Len(s), NEW e, IsKept(s, e)
    PROVE  KeepsLines(s, n, e) /\ e = [i \in 0..n |-> e[i]]
<1> DEFINE G(i) == IF i = 0 THEN <<>>
                   ELSE IF InHaspSection(s, i) THEN e[i - 1] ELSE Append(e[i - 1], s[i])
<1>1. e = [i \in 0..n |-> G(i)]
  BY DEF IsKept
<1>2. \A i \in 1..n : i \in 0..n /\ i # 0
  OBVIOUS
<1>3. 0 \in 0..n
  OBVIOUS
<1>4. G(0) = <<>> /\ \A i \in 1..n :
          G(i) = IF InHaspSection(s, i) THEN e[i - 1] ELSE Append(e[i - 1], s[i])
  BY <1>2
<1> HIDE DEF G
<1>5. \A i \in 0..n : e[i] = G(i)
  BY <1>1
<1>6. e = [i \in 0..n |-> e[i]]
  BY <1>1, <1>5
<1> QED BY <1>2, <1>3, <1>4, <1>5, <1>6 DEF KeepsLines

\* What the function is, and what it does not depend on.
LEMMA KeptStates ==
    ASSUME NEW L, NEW s \in Seq(L), NEW n \in Nat, n = Len(s), NEW f, IsKept(s, f)
    PROVE  f \in [0..n -> Seq(L)] /\ KeepsLines(s, n, f) /\ OthersLines(s) = f[n]
<1>1. KeepsLines(s, n, f) /\ f = [i \in 0..n |-> f[i]]
  BY KeptShape
<1>2. ASSUME NEW e, IsKept(s, e) PROVE e = f
  <2>1. KeepsLines(s, n, e) /\ e = [i \in 0..n |-> e[i]]
    BY <1>2, KeptShape
  <2>2. StepAlike(n, f, e)
    <3> SUFFICES ASSUME NEW i \in 1..n, f[i - 1] = e[i - 1] PROVE f[i] = e[i]
      BY DEF StepAlike
    <3>1. f[i] = IF InHaspSection(s, i) THEN f[i - 1] ELSE Append(f[i - 1], s[i])
      BY <1>1 DEF KeepsLines
    <3>2. e[i] = IF InHaspSection(s, i) THEN e[i - 1] ELSE Append(e[i - 1], s[i])
      BY <2>1 DEF KeepsLines
    <3> QED BY <3>1, <3>2
  <2>3. f[0] = e[0]
    BY <1>1, <2>1 DEF KeepsLines
  <2>4. Alike(n, f, e)
    BY <2>2, <2>3, SameStates
  <2>5. [i \in 0..n |-> f[i]] = [i \in 0..n |-> e[i]]
    BY <2>4 DEF Alike
  <2> QED BY <1>1, <2>1, <2>5
<1>3. PICK g \in [0..Len(s) -> Seq(L)] : IsKept(s, g)
  BY KeptExists
<1>4. f \in [0..n -> Seq(L)]
  BY <1>2, <1>3
<1>5. OthersLines(s) = (CHOOSE e : IsKept(s, e))[Len(s)]
  BY DEF OthersLines, IsKept
<1>6. (CHOOSE e : IsKept(s, e)) = f
  BY <1>2
<1>7. OthersLines(s) = f[n]
  BY <1>5, <1>6
<1> QED BY <1>1, <1>4, <1>7

LEMMA OthersNothing == OthersLines(<<>>) = <<>>
<1>1. <<>> \in Seq({}) /\ Len(<<>>) = 0
  OBVIOUS
<1>2. PICK f \in [0..Len(<<>>) -> Seq({})] : IsKept(<<>>, f)
  BY <1>1, KeptExists
<1>3. 0 \in Nat /\ IsKept(<<>>, f)
  BY <1>2
<1> QED BY <1>1, <1>3, KeptStates DEF KeepsLines

LEMMA OthersAppend ==
    ASSUME NEW L, NEW s \in Seq(L), NEW x \in L
    PROVE  /\ OthersLines(s) \in Seq(L)
           /\ OthersLines(Append(s, x)) =
                 IF InHaspSection(Append(s, x), Len(s) + 1) THEN OthersLines(s)
                 ELSE Append(OthersLines(s), x)
<1> DEFINE t == Append(s, x)
<1>1. PICK n \in Nat : n = Len(s)
  BY LenProperties
<1>2. t \in Seq(L) /\ Len(t) = n + 1 /\ t[n + 1] = x /\ \A i \in 1..n : t[i] = s[i]
  BY <1>1, Appended
<1>3. \A i \in 1..n : InHaspSection(t, i) <=> InHaspSection(s, i)
  BY <1>1, SectionKept
<1> HIDE DEF t
<1>4. PICK f \in [0..Len(s) -> Seq(L)] : IsKept(s, f)
  BY KeptExists
<1>5. PICK e \in [0..Len(t) -> Seq(L)] : IsKept(t, e)
  BY <1>2, KeptExists
<1>6. OthersLines(s) = f[n] /\ KeepsLines(s, n, f)
  <2>1. n \in Nat /\ n = Len(s) /\ IsKept(s, f)
    BY <1>1, <1>4
  <2> QED BY <2>1, KeptStates
<1>7. OthersLines(t) = e[n + 1] /\ KeepsLines(t, n + 1, e)
  <2>1. n + 1 \in Nat /\ n + 1 = Len(t) /\ IsKept(t, e) /\ t \in Seq(L)
    BY <1>1, <1>2, <1>5
  <2> QED BY <2>1, KeptStates
<1>8. \A i \in 1..n : i \in 1..(n + 1)
  OBVIOUS
<1>9. StepAlike(n, f, e)
  BY <1>2, <1>3, <1>6, <1>7, <1>8 DEF StepAlike, KeepsLines
<1>10. f[0] = e[0]
  BY <1>6, <1>7 DEF KeepsLines
<1>11. \A i \in 0..n : f[i] = e[i]
  BY <1>9, <1>10, SameStates DEF Alike
<1>12. n \in 0..n /\ n + 1 \in 1..(n + 1) /\ n + 1 - 1 = n
  OBVIOUS
<1>13. e[n + 1] = IF InHaspSection(t, n + 1) THEN e[n] ELSE Append(e[n], t[n + 1])
  BY <1>7, <1>12 DEF KeepsLines
<1>14. f[n] \in Seq(L)
  BY <1>1, <1>4, <1>12
<1> QED BY <1>1, <1>2, <1>6, <1>7, <1>11, <1>12, <1>13, <1>14 DEF t

-----------------------------------------------------------------------------
(* The filter *)

HaspLines == {"[mcp_servers.hasp]", "command"}

LEMMA BlockAppended ==
    ASSUME NEW L, HaspLines \subseteq L, NEW s \in Seq(L)
    PROVE  s \o HaspBlock \in Seq(L) /\ OthersLines(s \o HaspBlock) = OthersLines(s)
<1> DEFINE h == "[mcp_servers.hasp]"
           c == "command"
           t == Append(s, h)
           u == Append(t, c)
<1>1. h \in L /\ c \in L /\ h \in HaspHeaders /\ c \notin Headers
  BY AgentsAssumption DEF HaspLines, HaspHeaders
<1> HIDE DEF h, c
<1>2. t \in Seq(L) /\ u \in Seq(L)
  BY <1>1, Appended
<1>3. s \o <<h, c>> = u
  <2>1. <<h, c>> = <<h>> \o <<c>> /\ <<h>> \in Seq(L) /\ <<c>> \in Seq(L)
    <3>1. <<h>> \in Seq(L) /\ <<c>> \in Seq(L) /\ <<h, c>> \in Seq(L)
      BY <1>1
    <3>2. Append(<<h>>, c) = <<h, c>>
      <4>1. Len(<<h>>) = 1 /\ <<h>>[1] = h /\ Len(<<h, c>>) = 2 /\ <<h, c>>[1] = h /\ <<h, c>>[2] = c
        OBVIOUS
      <4>2. PICK r : r = Append(<<h>>, c)
        OBVIOUS
      <4>3. PICK p : p = <<h, c>>
        OBVIOUS
      <4>4. r \in Seq(L) /\ Len(r) = 2 /\ r[1] = h /\ r[2] = c
        BY <1>1, <3>1, <4>1, <4>2, AppendProperties
      <4>5. p \in Seq(L) /\ Len(p) = 2 /\ p[1] = h /\ p[2] = c
        BY <3>1, <4>1, <4>3
      <4>6. \A i \in 1..2 : r[i] = p[i]
        BY <4>4, <4>5
      <4> QED BY <4>2, <4>3, <4>4, <4>5, <4>6, SeqEqual
    <3>3. Append(<<h>>, c) = <<h>> \o <<c>>
      BY <1>1, <3>1, AppendIsConcat
    <3> QED BY <3>1, <3>2, <3>3
  <2>2. (s \o <<h>>) \o <<c>> = s \o (<<h>> \o <<c>>)
    BY <2>1, ConcatAssociative
  <2>3. s \o <<h>> = t /\ t \o <<c>> = u
    BY <1>1, <1>2, Appended
  <2> QED BY <2>1, <2>2, <2>3
<1>4. InHaspSection(t, Len(s) + 1) /\ EndsInHasp(t)
  BY <1>1, SectionNext
<1>5. OthersLines(t) = OthersLines(s)
  BY <1>1, <1>4, OthersAppend
<1> HIDE DEF t
<1>6. InHaspSection(u, Len(t) + 1)
  BY <1>1, <1>2, <1>4, SectionNext
<1>7. OthersLines(u) = OthersLines(t)
  BY <1>1, <1>2, <1>6, OthersAppend
<1> QED BY <1>2, <1>3, <1>5, <1>7 DEF HaspBlock, h, c

FilterStates(L, block) ==
    [skipping : BOOLEAN, inserted : BOOLEAN, out : Seq(L), block : {block}]

\* What a step of the filter puts out.
LEMMA FilterStep ==
    ASSUME NEW L, HaspLines \subseteq L, NEW block \in {<<>>, HaspBlock},
           NEW st \in FilterStates(L, block), NEW x \in L
    PROVE  /\ SkipOwn(st, x) \in FilterStates(L, block)
           /\ SkipOwn(st, x).skipping <=> x \in HaspHeaders \/ (st.skipping /\ x \notin Headers)
           /\ (~st.skipping => ~EndsInHasp(st.out)) =>
                /\ ~SkipOwn(st, x).skipping => ~EndsInHasp(SkipOwn(st, x).out)
                /\ OthersLines(SkipOwn(st, x).out) =
                      IF SkipOwn(st, x).skipping THEN OthersLines(st.out)
                      ELSE Append(OthersLines(st.out), x)
<1> DEFINE skip == x \in HaspHeaders \/ (st.skipping /\ x \notin Headers)
           first == x \in HaspHeaders /\ ~st.inserted
           front == st.out \o (IF first THEN block ELSE <<>>)
           out == front \o (IF skip THEN <<>> ELSE <<x>>)
           new == SkipOwn(st, x)
<1>1. st.out \in Seq(L) /\ st.block = block /\ st.inserted \in BOOLEAN
  BY DEF FilterStates
<1>2. new = [block |-> block, skipping |-> skip, inserted |-> st.inserted \/ first, out |-> out]
  BY <1>1 DEF SkipOwn, Filter
<1>3. front \in Seq(L) /\ OthersLines(front) = OthersLines(st.out)
      /\ (x \notin HaspHeaders => front = st.out)
  <2>1. st.out \o <<>> = st.out
    BY <1>1, ConcatEmptySeq
  <2> HIDE DEF HaspBlock
  <2> QED BY <1>1, <2>1, BlockAppended
<1> HIDE DEF front
<1>4. skip => out = front
  BY <1>3, ConcatEmptySeq
<1>5. ~skip => out = Append(front, x) /\ x \notin HaspHeaders /\ front = st.out
  BY <1>3, AppendIsConcat
<1>6. out \in Seq(L)
  BY <1>3, <1>4, <1>5, Appended
<1> HIDE DEF out
<1>7. new \in FilterStates(L, block) /\ new.skipping = skip /\ new.out = out
  BY <1>1, <1>2, <1>6 DEF FilterStates
<1>8. ASSUME ~st.skipping => ~EndsInHasp(st.out)
      PROVE  /\ ~skip => ~EndsInHasp(out)
             /\ OthersLines(out) = IF skip THEN OthersLines(st.out) ELSE Append(OthersLines(st.out), x)
  <2>1. CASE skip
    BY <1>3, <1>4, <2>1
  <2>2. CASE ~skip
    <3>1. out = Append(st.out, x) /\ x \notin HaspHeaders /\ (st.skipping => x \in Headers)
      BY <1>5, <2>2
    <3>2. ~InHaspSection(out, Len(st.out) + 1) /\ ~EndsInHasp(out)
      BY <1>1, <1>8, <3>1, SectionNext
    <3> QED BY <1>1, <2>2, <3>1, <3>2, OthersAppend
  <2> QED BY <2>1, <2>2
<1> QED BY <1>7, <1>8

IsFilter(s, block, f) ==
    f = [i \in 0..Len(s) |->
            IF i = 0 THEN [skipping |-> FALSE, inserted |-> FALSE, out |-> <<>>, block |-> block]
            ELSE SkipOwn(f[i - 1], s[i])]

FiltersLines(s, n, block, f) ==
    /\ f[0] = [skipping |-> FALSE, inserted |-> FALSE, out |-> <<>>, block |-> block]
    /\ \A i \in 1..n : f[i] = SkipOwn(f[i - 1], s[i])

LEMMA FilterShape ==
    ASSUME NEW s, NEW block, NEW n \in Nat, n = Len(s), NEW f, IsFilter(s, block, f)
    PROVE  FiltersLines(s, n, block, f)
<1> DEFINE first == [skipping |-> FALSE, inserted |-> FALSE, out |-> <<>>, block |-> block]
           G(i) == IF i = 0 THEN first ELSE SkipOwn(f[i - 1], s[i])
<1>1. f = [i \in 0..n |-> G(i)]
  BY DEF IsFilter
<1>2. 0 \in 0..n /\ \A i \in 1..n : i \in 0..n /\ i # 0
  OBVIOUS
<1> HIDE DEF first
<1>3. G(0) = first /\ \A i \in 1..n : G(i) = SkipOwn(f[i - 1], s[i])
  BY <1>2
<1> HIDE DEF G
<1>4. \A i \in 0..n : f[i] = G(i)
  BY <1>1
<1> QED BY <1>2, <1>3, <1>4 DEF FiltersLines, first

LEMMA FilterExists ==
    ASSUME NEW L, HaspLines \subseteq L, NEW block \in {<<>>, HaspBlock}, NEW s \in Seq(L),
           NEW n \in Nat, n = Len(s)
    PROVE  \E f : IsFilter(s, block, f)
<1> DEFINE T == FilterStates(L, block)
           first == [skipping |-> FALSE, inserted |-> FALSE, out |-> <<>>, block |-> block]
           step == [p \in (1..n) \X T |-> SkipOwn(p[2], s[p[1]])]
<1>1. \A i \in 1..n : s[i] \in L
  BY ElementOfSeq
<1>2. \A i \in 1..n : \A q \in T : SkipOwn(q, s[i]) \in T
  BY <1>1, FilterStep
<1>3. first \in T
  BY DEF FilterStates
<1> HIDE DEF T, first
<1>4. step \in [(1..n) \X T -> T] /\ \A i \in 1..n : \A q \in T : step[<<i, q>>] = SkipOwn(q, s[i])
  BY <1>2
<1> HIDE DEF step
<1>5. PICK f : StartsAndSteps(n, T, first, step, f)
  BY <1>3, <1>4, StatesExist
<1>6. f \in [0..n -> T] /\ f[0] = first /\ \A i \in 1..n : f[i] = step[<<i, f[i - 1]>>]
  BY <1>5 DEF StartsAndSteps
<1>7. \A i \in 1..n : i - 1 \in 0..n /\ i \in 0..n
  OBVIOUS
<1>8. \A i \in 1..n : f[i] = SkipOwn(f[i - 1], s[i])
  BY <1>4, <1>6, <1>7
<1>9. \A i \in 0..n : f[i] = IF i = 0 THEN first ELSE SkipOwn(f[i - 1], s[i])
  <2> SUFFICES ASSUME NEW i \in 0..n, i # 0 PROVE f[i] = SkipOwn(f[i - 1], s[i])
    BY <1>6
  <2>1. i \in 1..n
    OBVIOUS
  <2> QED BY <1>8, <2>1
<1>10. f = [i \in 0..n |-> IF i = 0 THEN first ELSE SkipOwn(f[i - 1], s[i])]
  BY <1>6, <1>9
<1>11. IsFilter(s, block, f)
  BY <1>10 DEF IsFilter, first
<1> QED BY <1>11

\* The filter after i lines.
FilterKept(L, s, block, i, q, kept) ==
    /\ q \in FilterStates(L, block)
    /\ q.skipping <=> i # 0 /\ InHaspSection(s, i)
    /\ ~q.skipping => ~EndsInHasp(q.out)
    /\ OthersLines(q.out) = kept

\* Filtering keeps the lines that are not in HASP's sections, and no others.
LEMMA FilterKeeps ==
    ASSUME NEW L, HaspLines \subseteq L, NEW block \in {<<>>, HaspBlock}, NEW s \in Seq(L)
    PROVE  /\ Filtered(s, block) \in FilterStates(L, block)
           /\ OthersLines(Filtered(s, block).out) = OthersLines(s)
<1>1. PICK n \in Nat : n = Len(s)
  BY LenProperties
<1> DEFINE g == CHOOSE f : IsFilter(s, block, f)
<1>2. Filtered(s, block) = g[n]
  BY <1>1 DEF Filtered, IsFilter
<1>3. \E f : IsFilter(s, block, f)
  BY <1>1, FilterExists
<1>4. IsFilter(s, block, g)
  BY <1>3
<1> HIDE DEF g
<1>5. FiltersLines(s, n, block, g)
  BY <1>1, <1>4, FilterShape
<1>6. PICK kept : IsKept(s, kept)
  BY KeptExists
<1>7. KeepsLines(s, n, kept) /\ OthersLines(s) = kept[n]
  BY <1>1, <1>6, KeptStates
<1> DEFINE B == {i \in 0..n : FilterKept(L, s, block, i, g[i], kept[i])}
<1>8. 0 \in B
  <2>1. g[0] \in FilterStates(L, block) /\ g[0].skipping = FALSE /\ g[0].out = <<>>
    BY <1>5 DEF FiltersLines, FilterStates
  <2>2. kept[0] = <<>> /\ ~EndsInHasp(<<>>)
    BY <1>7 DEF KeepsLines, EndsInHasp
  <2> QED BY <2>1, <2>2, OthersNothing DEF FilterKept
<1>9. ASSUME NEW i \in 1..n, i - 1 \in B PROVE i \in B
  <2> DEFINE p == g[i - 1]
             q == g[i]
             x == s[i]
  <2>1. q = SkipOwn(p, x) /\ x \in L
    BY <1>1, <1>5, ElementOfSeq DEF FiltersLines
  <2>2. FilterKept(L, s, block, i - 1, p, kept[i - 1])
    BY <1>9
  <2>3. kept[i] = IF InHaspSection(s, i) THEN kept[i - 1] ELSE Append(kept[i - 1], x)
    BY <1>7 DEF KeepsLines
  <2>4. InHaspSection(s, i) <=>
            x \in HaspHeaders \/ (x \notin Headers /\ i # 1 /\ InHaspSection(s, i - 1))
    BY SectionAt
  <2>5. i \in 0..n /\ i # 0 /\ (i - 1 # 0 <=> i # 1)
    OBVIOUS
  <2> HIDE DEF p, q, x
  <2>6. p.skipping <=> i # 1 /\ InHaspSection(s, i - 1)
    BY <2>2, <2>5 DEF FilterKept
  <2>7. /\ q \in FilterStates(L, block)
        /\ q.skipping <=> x \in HaspHeaders \/ (p.skipping /\ x \notin Headers)
        /\ ~q.skipping => ~EndsInHasp(q.out)
        /\ OthersLines(q.out) = IF q.skipping THEN OthersLines(p.out) ELSE Append(OthersLines(p.out), x)
    <3>1. p \in FilterStates(L, block) /\ (~p.skipping => ~EndsInHasp(p.out))
      BY <2>2 DEF FilterKept
    <3> QED BY <2>1, <3>1, FilterStep
  <2>8. q.skipping <=> InHaspSection(s, i)
    BY <2>4, <2>6, <2>7
  <2>9. OthersLines(p.out) = kept[i - 1]
    BY <2>2 DEF FilterKept
  <2>10. FilterKept(L, s, block, i, q, kept[i])
    BY <2>3, <2>5, <2>7, <2>8, <2>9 DEF FilterKept
  <2> QED BY <2>5, <2>10 DEF q
<1> HIDE DEF B
<1>10. n \in B
  <2>1. \A i \in 0..n : i \in B
    BY <1>8, <1>9, StepsReach
  <2> QED BY <2>1
<1>11. FilterKept(L, s, block, n, g[n], kept[n])
  BY <1>10 DEF B
<1> QED BY <1>2, <1>7, <1>11 DEF FilterKept

-----------------------------------------------------------------------------
(* The environment *)

Environments(V) == [Variables -> V]
Remembered(V) == [key : Variables, old : V]

Undone(e, r) == [e EXCEPT ![r.key] = r.old]

IsBack(from, rs, f) ==
    f = [i \in 0..Len(rs) |->
            IF i = 0 THEN from
            ELSE [f[i - 1] EXCEPT ![rs[Len(rs) - i + 1].key] = rs[Len(rs) - i + 1].old]]

GoesBack(from, rs, n, f) == f[0] = from /\ \A i \in 1..n : f[i] = Undone(f[i - 1], rs[n - i + 1])

LEMMA BackShape ==
    ASSUME NEW from, NEW rs, NEW n \in Nat, n = Len(rs), NEW f, IsBack(from, rs, f)
    PROVE  GoesBack(from, rs, n, f)
<1> DEFINE G(i) == IF i = 0 THEN from ELSE Undone(f[i - 1], rs[n - i + 1])
<1>1. f = [i \in 0..n |-> G(i)]
  BY DEF IsBack, Undone
<1>2. 0 \in 0..n /\ \A i \in 1..n : i \in 0..n /\ i # 0
  OBVIOUS
<1>3. G(0) = from /\ \A i \in 1..n : G(i) = Undone(f[i - 1], rs[n - i + 1])
  BY <1>2
<1> HIDE DEF G
<1>4. \A i \in 0..n : f[i] = G(i)
  BY <1>1
<1> QED BY <1>2, <1>3, <1>4 DEF GoesBack

LEMMA UndoneTyped ==
    ASSUME NEW V, NEW e \in Environments(V), NEW r \in Remembered(V)
    PROVE  Undone(e, r) \in Environments(V)
BY DEF Undone, Environments, Remembered

LEMMA BackExists ==
    ASSUME NEW V, NEW from \in Environments(V), NEW rs \in Seq(Remembered(V))
    PROVE  \E f : IsBack(from, rs, f)
<1>1. PICK n \in Nat : n = Len(rs)
  BY LenProperties
<1> DEFINE T == Environments(V)
           step == [p \in (1..n) \X T |-> Undone(p[2], rs[n - p[1] + 1])]
<1>2. \A i \in 1..n : n - i + 1 \in 1..n
  OBVIOUS
<1>3. \A i \in 1..n : rs[n - i + 1] \in Remembered(V)
  BY <1>1, <1>2, ElementOfSeq
<1>4. \A i \in 1..n : \A q \in T : Undone(q, rs[n - i + 1]) \in T
  BY <1>3, UndoneTyped
<1> HIDE DEF T
<1>5. step \in [(1..n) \X T -> T]
      /\ \A i \in 1..n : \A q \in T : step[<<i, q>>] = Undone(q, rs[n - i + 1])
  BY <1>4
<1> HIDE DEF step
<1>6. from \in T
  BY DEF T
<1>7. PICK f : StartsAndSteps(n, T, from, step, f)
  BY <1>5, <1>6, StatesExist
<1>8. f \in [0..n -> T] /\ f[0] = from /\ \A i \in 1..n : f[i] = step[<<i, f[i - 1]>>]
  BY <1>7 DEF StartsAndSteps
<1>9. \A i \in 1..n : i - 1 \in 0..n /\ i \in 0..n
  OBVIOUS
<1>10. \A i \in 1..n : f[i] = Undone(f[i - 1], rs[n - i + 1])
  BY <1>5, <1>8, <1>9
<1>11. \A i \in 0..n : f[i] = IF i = 0 THEN from ELSE Undone(f[i - 1], rs[n - i + 1])
  <2> SUFFICES ASSUME NEW i \in 0..n, i # 0 PROVE f[i] = Undone(f[i - 1], rs[n - i + 1])
    BY <1>8
  <2>1. i \in 1..n
    OBVIOUS
  <2> QED BY <1>10, <2>1
<1>12. f = [i \in 0..n |-> IF i = 0 THEN from ELSE Undone(f[i - 1], rs[n - i + 1])]
  BY <1>8, <1>11
<1> QED BY <1>1, <1>12 DEF IsBack, Undone

\* The environment that is restored, and the states on the way.
LEMMA RestoredBack ==
    ASSUME NEW V, NEW from \in Environments(V), NEW rs \in Seq(Remembered(V)),
           NEW n \in Nat, n = Len(rs)
    PROVE  \E f : GoesBack(from, rs, n, f) /\ Restored(from, rs) = f[n]
<1> DEFINE g == CHOOSE f : IsBack(from, rs, f)
<1>1. Restored(from, rs) = g[n]
  BY DEF Restored, IsBack
<1>2. IsBack(from, rs, g)
  BY BackExists
<1> HIDE DEF g
<1> QED BY <1>1, <1>2, BackShape

LEMMA RestoredNone ==
    ASSUME NEW V, NEW e \in Environments(V)
    PROVE  Restored(e, <<>>) = e
<1>1. <<>> \in Seq(Remembered(V)) /\ Len(<<>>) = 0 /\ 0 \in Nat
  OBVIOUS
<1>2. PICK f : GoesBack(e, <<>>, 0, f) /\ Restored(e, <<>>) = f[0]
  BY <1>1, RestoredBack
<1> QED BY <1>2 DEF GoesBack

\* Setting a variable and remembering what it was changes nothing in the end.
LEMMA RestoredSame ==
    ASSUME NEW V, NEW e \in Environments(V), NEW rs \in Seq(Remembered(V)),
           NEW k \in Variables, NEW v \in V
    PROVE  Restored([e EXCEPT ![k] = v], Append(rs, [key |-> k, old |-> e[k]])) = Restored(e, rs)
<1> DEFINE r == [key |-> k, old |-> e[k]]
           d == [e EXCEPT ![k] = v]
           t == Append(rs, r)
<1>1. PICK n \in Nat : n = Len(rs)
  BY LenProperties
<1>2. r \in Remembered(V) /\ d \in Environments(V) /\ Undone(d, r) = e
  BY DEF Remembered, Environments, Undone
<1> HIDE DEF r, d
<1>3. t \in Seq(Remembered(V)) /\ Len(t) = n + 1 /\ t[n + 1] = r /\ \A i \in 1..n : t[i] = rs[i]
  BY <1>1, <1>2, Appended
<1> HIDE DEF t
<1>4. PICK f : GoesBack(e, rs, n, f) /\ Restored(e, rs) = f[n]
  BY <1>1, RestoredBack
<1>5. PICK g : GoesBack(d, t, n + 1, g) /\ Restored(d, t) = g[n + 1]
  <2>1. n + 1 \in Nat
    OBVIOUS
  <2> QED BY <1>2, <1>3, <2>1, RestoredBack
<1> DEFINE h == [i \in 0..n |-> g[i + 1]]
<1>6. /\ 1 \in 1..(n + 1) /\ 1 - 1 = 0 /\ n + 1 - 1 + 1 = n + 1
      /\ \A i \in 1..n : /\ i + 1 \in 1..(n + 1) /\ i + 1 - 1 = i /\ n + 1 - (i + 1) + 1 = n - i + 1
                         /\ n - i + 1 \in 1..n /\ i \in 0..n /\ i - 1 \in 0..n /\ i - 1 + 1 = i
  BY <1>1
<1>7. g[1] = e
  BY <1>2, <1>3, <1>5, <1>6 DEF GoesBack
<1>8. \A i \in 1..n : g[i + 1] = Undone(g[i], rs[n - i + 1])
  BY <1>3, <1>5, <1>6 DEF GoesBack
<1>9. \A i \in 1..n : h[i] = g[i + 1] /\ h[i - 1] = g[i]
  BY <1>6
<1>10. h[0] = g[1] /\ h[n] = g[n + 1]
  BY <1>1
<1> HIDE DEF h
<1>11. StepAlike(n, f, h)
  BY <1>4, <1>8, <1>9 DEF StepAlike, GoesBack
<1>12. f[0] = h[0]
  BY <1>4, <1>7, <1>10 DEF GoesBack
<1>13. f[n] = h[n]
  <2>1. Alike(n, f, h)
    BY <1>11, <1>12, SameStates
  <2> QED BY <2>1 DEF Alike
<1> QED BY <1>4, <1>5, <1>10, <1>13 DEF r, d, t

-----------------------------------------------------------------------------
(* The invariant *)

FileFields == {"there", "link", "parses", "servers", "lines"}

LinesOf(c) == {c.lines[i] : i \in DOMAIN c.lines}

\* Every line that a configuration may hold.
FoundLines == UNION {UNION {LinesOf(c) : c \in FirstConfigs[x]} : x \in DOMAIN FirstConfigs}
LaterLines == UNION {LinesOf(ClientAdds[x]) : x \in DOMAIN ClientAdds}
AllLines == HaspLines \cup FoundLines \cup LaterLines

FileOK(c) == DOMAIN c = FileFields /\ c.lines \in Seq(AllLines)

CmdFields == {"op", "at", "agent", "read", "next", "restores", "todo"}

ConfigsInv ==
    /\ DOMAIN config = DOMAIN Clients /\ DOMAIN backups = DOMAIN Clients
    /\ \A a \in DOMAIN Clients : FileOK(config[a])

\* Where an edit of a configuration is.
EditPlaces == {"wrapper", "read", "backup", "rename", "save", "delete"}

EditInv ==
    cmd.op \in {"connect", "disconnect"} =>
        /\ cmd.agent \in DOMAIN Clients /\ cmd.at \in EditPlaces
        /\ cmd.at = "read" => Clients[cmd.agent] # "manual"
        /\ cmd.at \in {"backup", "rename"} =>
              FileOK(cmd.next) /\ Others(cmd.next) = Others(cmd.read)
        /\ cmd.at = "rename" /\ ~EmptyFile(cmd.read) =>
              \E t \in DOMAIN backups[cmd.agent] : backups[cmd.agent][t] = cmd.read

LaunchInv ==
    /\ DOMAIN child = {"alive", "token", "registered"}
    /\ cmd.op = "launch" => cmd.at \in {"register", "wait"}
    /\ child.alive => child.registered \/ (cmd.op = "launch" /\ cmd.at = "register")

ValuesOf(e) == {e[k] : k \in Variables}

OwnValues == UNION {ValuesOf(e) : e \in OwnEnv}
Roots == {ProjectOf[a] : a \in DOMAIN Clients}

\* Every value a variable of the environment may have.
Values == OwnValues \cup DOMAIN Clients \cup Roots \cup {"session"}

ServeInv ==
    /\ env \in Environments(Values)
    /\ cmd.op # "mcp" => env \in OwnEnv
    /\ cmd.op = "mcp" =>
          /\ cmd.at = "preflight" /\ cmd.agent \in DOMAIN Clients /\ cmd.todo \in Seq(Variables)
          /\ cmd.restores \in Seq(Remembered(Values)) /\ Restored(env, cmd.restores) \in OwnEnv

CmdInv ==
    /\ DOMAIN cmd = CmdFields /\ cmd.op \in {"none", "connect", "disconnect", "launch", "mcp"}
    /\ cmd.op = "none" => cmd = NoCmd

AgentInv == CmdInv /\ ConfigsInv /\ EditInv /\ LaunchInv /\ ServeInv

LEMMA NoCmdShape == DOMAIN NoCmd = CmdFields /\ NoCmd.op = "none" /\ NoCmd.at = ""
BY DEF NoCmd, CmdFields

\* A command that is over leaves nothing open.
LEMMA EndKept ==
    ASSUME End, ConfigsInv', env' \in Environments(Values), env' \in OwnEnv,
           DOMAIN child' = {"alive", "token", "registered"}, child'.alive => child'.registered
    PROVE  AgentInv'
<1>1. cmd' = NoCmd /\ cmd'.op = "none" /\ cmd'.at = "" /\ DOMAIN cmd' = CmdFields
  BY NoCmdShape DEF End
<1>2. CmdInv'
  BY <1>1 DEF CmdInv
<1>3. EditInv' /\ LaunchInv' /\ ServeInv'
  BY <1>1 DEF EditInv, LaunchInv, ServeInv
<1> QED BY <1>2, <1>3 DEF AgentInv

\* Where the command goes on.
LEMMA AtShape ==
    ASSUME CmdInv, NEW p, At(p)
    PROVE  /\ DOMAIN cmd' = CmdFields /\ cmd'.op = cmd.op /\ cmd'.at = p /\ cmd'.agent = cmd.agent
           /\ cmd'.read = cmd.read /\ cmd'.next = cmd.next
           /\ cmd'.restores = cmd.restores /\ cmd'.todo = cmd.todo
BY DEF CmdInv, CmdFields, At

LEMMA FirstLines ==
    ASSUME NEW x \in DOMAIN FirstConfigs, NEW c \in FirstConfigs[x]
    PROVE  FileOK(c)
<1>1. DOMAIN c = FileFields /\ c.lines \in Seq(LinesOf(c))
  BY AgentsAssumption DEF FileFields, Lines, LinesOf
<1>2. LinesOf(c) \subseteq AllLines
  <2> SUFFICES ASSUME NEW l \in LinesOf(c) PROVE l \in AllLines
    OBVIOUS
  <2> DEFINE F(y) == UNION {LinesOf(d) : d \in FirstConfigs[y]}
  <2>1. l \in F(x)
    OBVIOUS
  <2> HIDE DEF F
  <2>2. l \in UNION {F(y) : y \in DOMAIN FirstConfigs}
    BY <2>1
  <2>3. l \in FoundLines
    BY <2>2, Zenon DEF FoundLines, F
  <2> QED BY <2>3 DEF AllLines
<1>3. c.lines \in Seq(AllLines)
  BY <1>1, <1>2, SeqMonotonic
<1> QED BY <1>1, <1>3 DEF FileOK

LEMMA AddedLines ==
    ASSUME NEW x \in DOMAIN ClientAdds
    PROVE  ClientAdds[x].lines \in Seq(AllLines)
<1>1. ClientAdds[x].lines \in Seq(LinesOf(ClientAdds[x]))
  BY AgentsAssumption DEF Lines, LinesOf
<1>2. LinesOf(ClientAdds[x]) \subseteq AllLines
  <2> SUFFICES ASSUME NEW l \in LinesOf(ClientAdds[x]) PROVE l \in AllLines
    OBVIOUS
  <2>1. l \in LaterLines
    BY Zenon DEF LaterLines
  <2> QED BY <2>1 DEF AllLines
<1> QED BY <1>1, <1>2, SeqMonotonic

\* Neither direction touches what is somebody else's.
LEMMA OthersInFile ==
    ASSUME NEW c, FileOK(c), NEW lines, lines \in Seq(AllLines), OthersLines(lines) = OthersLines(c.lines)
    PROVE  FileOK([c EXCEPT !.lines = lines]) /\ Others([c EXCEPT !.lines = lines]) = Others(c)
BY DEF FileOK, FileFields, Others

LEMMA OthersInServers ==
    ASSUME NEW c, FileOK(c), NEW servers,
           servers \ {"hasp", "pi-package"} = c.servers \ {"hasp", "pi-package"}
    PROVE  FileOK([c EXCEPT !.servers = servers]) /\ Others([c EXCEPT !.servers = servers]) = Others(c)
BY DEF FileOK, FileFields, Others

LEMMA UpsertOthers ==
    ASSUME NEW format \in {"toml", "json", "opencode-json", "pi-package"}, NEW c, FileOK(c)
    PROVE  FileOK(Upserted(format, c)) /\ Others(Upserted(format, c)) = Others(c)
<1>1. CASE format = "toml"
  <2> DEFINE done == Filtered(c.lines, HaspBlock)
             lines == IF done.inserted THEN done.out ELSE done.out \o HaspBlock
  <2>1. c.lines \in Seq(AllLines) /\ HaspLines \subseteq AllLines
    BY DEF FileOK, AllLines
  <2>2. done \in FilterStates(AllLines, HaspBlock) /\ OthersLines(done.out) = OthersLines(c.lines)
    BY <2>1, FilterKeeps
  <2> HIDE DEF done
  <2>3. done.out \in Seq(AllLines)
    BY <2>2 DEF FilterStates
  <2>4. lines \in Seq(AllLines) /\ OthersLines(lines) = OthersLines(c.lines)
    BY <2>1, <2>2, <2>3, BlockAppended
  <2>5. Upserted(format, c) = [c EXCEPT !.lines = lines]
    BY <1>1 DEF Upserted, upsertCodexMCPServerConfig, done
  <2> HIDE DEF lines
  <2> QED BY <2>4, <2>5, OthersInFile
<1>2. CASE format \in {"json", "opencode-json"}
  <2>1. Upserted(format, c) = [c EXCEPT !.servers = c.servers \cup {"hasp"}]
    BY <1>2 DEF Upserted, upsertJSONMCPServerConfig, updateOpenCodeMCPConfig
  <2>2. (c.servers \cup {"hasp"}) \ {"hasp", "pi-package"} = c.servers \ {"hasp", "pi-package"}
    OBVIOUS
  <2> QED BY <2>1, <2>2, OthersInServers
<1>3. CASE format = "pi-package"
  <2>1. Upserted(format, c) = [c EXCEPT !.servers = c.servers \cup {"pi-package"}]
    BY <1>3 DEF Upserted, upsertPiSettingsPackageConfig
  <2>2. (c.servers \cup {"pi-package"}) \ {"hasp", "pi-package"} = c.servers \ {"hasp", "pi-package"}
    OBVIOUS
  <2> QED BY <2>1, <2>2, OthersInServers
<1> QED BY <1>1, <1>2, <1>3

LEMMA RemoveOthers ==
    ASSUME NEW format \in {"toml", "json", "opencode-json", "pi-package"}, NEW c, FileOK(c)
    PROVE  FileOK(Removed(format, c)) /\ Others(Removed(format, c)) = Others(c)
<1>1. CASE format = "toml"
  <2> DEFINE done == Filtered(c.lines, <<>>)
  <2>1. c.lines \in Seq(AllLines) /\ HaspLines \subseteq AllLines
    BY DEF FileOK, AllLines
  <2>2. done \in FilterStates(AllLines, <<>>) /\ OthersLines(done.out) = OthersLines(c.lines)
    BY <2>1, FilterKeeps
  <2>3. Removed(format, c) = [c EXCEPT !.lines = done.out]
    BY <1>1 DEF Removed, removeCodexMCPServerConfig
  <2> HIDE DEF done
  <2>4. done.out \in Seq(AllLines)
    BY <2>2 DEF FilterStates
  <2> QED BY <2>2, <2>3, <2>4, OthersInFile
<1>2. CASE format \in {"json", "opencode-json"}
  <2>1. Removed(format, c) = [c EXCEPT !.servers = c.servers \ {"hasp"}]
    BY <1>2 DEF Removed, removeJSONMCPServerConfig, updateOpenCodeMCPConfig
  <2>2. (c.servers \ {"hasp"}) \ {"hasp", "pi-package"} = c.servers \ {"hasp", "pi-package"}
    OBVIOUS
  <2> QED BY <2>1, <2>2, OthersInServers
<1>3. CASE format = "pi-package"
  <2>1. Removed(format, c) = [c EXCEPT !.servers = c.servers \ {"pi-package"}]
    BY <1>3 DEF Removed, removePiSettingsPackageConfig
  <2>2. (c.servers \ {"pi-package"}) \ {"hasp", "pi-package"} = c.servers \ {"hasp", "pi-package"}
    OBVIOUS
  <2> QED BY <2>1, <2>2, OthersInServers
<1> QED BY <1>1, <1>2, <1>3

LEMMA OwnEnvironments == OwnEnv \subseteq Environments(Values)
<1> SUFFICES ASSUME NEW e \in OwnEnv PROVE e \in Environments(Values)
  OBVIOUS
<1>1. e = [k \in Variables |-> e[k]]
  BY AgentsAssumption
<1>2. \A k \in Variables : e[k] \in Values
  <2>1. ValuesOf(e) \subseteq Values
    BY DEF Values, OwnValues
  <2> QED BY <2>1 DEF ValuesOf
<1> QED BY <1>1, <1>2 DEF Environments

-----------------------------------------------------------------------------
(* The steps *)

LEMMA AgentsInitInv == AgentsInit => AgentInv
<1> SUFFICES ASSUME AgentsInit PROVE AgentInv
  OBVIOUS
<1>1. CmdInv /\ cmd.op = "none" /\ cmd.at = ""
  BY NoCmdShape DEF AgentsInit, CmdInv
<1>2. ConfigsInv
  <2>1. DOMAIN config = DOMAIN Clients /\ DOMAIN backups = DOMAIN Clients
    BY DEF AgentsInit
  <2>2. ASSUME NEW a \in DOMAIN Clients PROVE FileOK(config[a])
    <3>1. config[a] \in FirstConfigs[Clients[a]]
      BY DEF AgentsInit
    <3> QED BY <3>1, FirstLines DEF AgentsInit
  <2> QED BY <2>1, <2>2 DEF ConfigsInv
<1>3. EditInv /\ LaunchInv /\ ServeInv
  BY <1>1, OwnEnvironments DEF EditInv, LaunchInv, ServeInv, AgentsInit, NoChild
<1> QED BY <1>1, <1>2, <1>3 DEF AgentInv

LEMMA BeginsInv ==
    ASSUME AgentInv, AgentBegins
    PROVE  cmd = NoCmd /\ env \in OwnEnv /\ (child.alive => child.registered)
BY DEF AgentInv, AgentBegins, CmdInv, ServeInv, LaunchInv, NoCmd

LEMMA EditBeginsInv ==
    ASSUME AgentInv, NEW a \in DOMAIN Clients, agentConnect(a) \/ agentDisconnect(a)
    PROVE  AgentInv'
<1>1. PICK op \in {"connect", "disconnect"}, at \in {"wrapper", "read", "delete"} :
        /\ cmd' = [NoCmd EXCEPT !.op = op, !.at = at, !.agent = a]
        /\ at = "read" => Clients[a] # "manual"
  <2>1. CASE agentConnect(a)
    BY <2>1 DEF agentConnect
  <2>2. CASE agentDisconnect(a)
    <3>1. cmd' = [NoCmd EXCEPT !.op = "disconnect", !.agent = a,
                   !.at = IF Clients[a] = "manual" THEN "delete" ELSE "read"]
      BY <2>2 DEF agentDisconnect
    <3> QED BY <3>1 DEF NoCmd
  <2> QED BY <2>1, <2>2
<1>2. cmd'.op = op /\ cmd'.at = at /\ cmd'.agent = a /\ DOMAIN cmd' = CmdFields
  BY <1>1 DEF NoCmd, CmdFields
<1>3. AgentBegins /\ UNCHANGED <<config, backups, child, env>>
  BY DEF agentConnect, agentDisconnect
<1>4. env \in OwnEnv /\ (child.alive => child.registered)
  BY <1>3, BeginsInv
<1>5. CmdInv' /\ ConfigsInv'
  BY <1>2, <1>3 DEF AgentInv, CmdInv, ConfigsInv
<1>6. EditInv'
  BY <1>1, <1>2 DEF EditInv, EditPlaces
<1>7. LaunchInv' /\ ServeInv'
  BY <1>1, <1>2, <1>3, <1>4 DEF AgentInv, LaunchInv, ServeInv
<1> QED BY <1>5, <1>6, <1>7 DEF AgentInv

\* An edit that moves on keeps the invariant when what it knows there holds.
LEMMA EditMoves ==
    ASSUME AgentInv, cmd.op \in {"connect", "disconnect"}, cmd'.op = cmd.op, DOMAIN cmd' = CmdFields,
           ConfigsInv', EditInv', UNCHANGED <<child, env>>
    PROVE  AgentInv'
<1>1. CmdInv'
  BY DEF CmdInv
<1>2. LaunchInv' /\ ServeInv'
  BY DEF AgentInv, LaunchInv, ServeInv
<1> QED BY <1>1, <1>2 DEF AgentInv

LEMMA EditEnds ==
    ASSUME AgentInv, cmd.op \in {"connect", "disconnect"}, End, ConfigsInv', UNCHANGED <<child, env>>
    PROVE  AgentInv'
<1>1. env \in OwnEnv /\ env \in Environments(Values) /\ DOMAIN child = {"alive", "token", "registered"}
      /\ (child.alive => child.registered)
  BY DEF AgentInv, ServeInv, LaunchInv
<1> QED BY <1>1, EndKept

LEMMA WrapperInv ==
    ASSUME AgentInv, setupInstallAgentWrapper
    PROVE  AgentInv'
<1>1. cmd.op = "connect" /\ UNCHANGED <<config, backups, child, env>>
  BY DEF setupInstallAgentWrapper
<1>2. ConfigsInv'
  BY <1>1 DEF AgentInv, ConfigsInv
<1>3. CASE End
  BY <1>1, <1>2, <1>3, EditEnds
<1>4. CASE At(IF Clients[cmd.agent] = "manual" THEN "save" ELSE "read")
  <2>1. PICK p \in {"save", "read"} : At(p) /\ (p = "read" => Clients[cmd.agent] # "manual")
    BY <1>4
  <2>2. cmd'.op = cmd.op /\ cmd'.at = p /\ cmd'.agent = cmd.agent /\ DOMAIN cmd' = CmdFields
    BY <2>1, AtShape DEF AgentInv
  <2>3. EditInv'
    BY <1>1, <2>1, <2>2 DEF AgentInv, EditInv, EditPlaces
  <2> QED BY <1>1, <1>2, <2>2, <2>3, EditMoves
<1> QED BY <1>3, <1>4 DEF setupInstallAgentWrapper

LEMMA ReadInv ==
    ASSUME AgentInv, ReadConfig
    PROVE  AgentInv'
<1> DEFINE a == cmd.agent
           c == config[a]
           format == Clients[a]
<1>1. cmd.at = "read" /\ UNCHANGED <<config, backups, child, env>>
  BY DEF ReadConfig
<1>2. cmd.op \in {"connect", "disconnect"}
  BY <1>1, NoCmdShape DEF AgentInv, CmdInv, LaunchInv, ServeInv
<1>3. ConfigsInv'
  BY <1>1 DEF AgentInv, ConfigsInv
<1>4. a \in DOMAIN Clients /\ FileOK(c) /\ format \in {"toml", "json", "opencode-json", "pi-package"}
  <2>1. a \in DOMAIN Clients /\ format # "manual"
    BY <1>1, <1>2 DEF AgentInv, EditInv
  <2> QED BY <2>1, AgentsAssumption DEF AgentInv, ConfigsInv
<1>5. CASE End
  BY <1>1, <1>2, <1>3, <1>5, EditEnds
<1>6. CASE At("delete")
  <2>1. cmd'.op = cmd.op /\ cmd'.at = "delete" /\ cmd'.agent = cmd.agent /\ DOMAIN cmd' = CmdFields
    BY <1>6, AtShape DEF AgentInv
  <2>2. EditInv'
    BY <1>4, <2>1 DEF EditInv, EditPlaces
  <2> QED BY <1>1, <1>2, <1>3, <2>1, <2>2, EditMoves
<1>7. ASSUME NEW next, FileOK(next), Others(next) = Others(c),
             cmd' = [cmd EXCEPT !.at = "backup", !.read = c, !.next = next]
      PROVE  AgentInv'
  <2>1. DOMAIN cmd = CmdFields
    BY DEF AgentInv, CmdInv
  <2>2. /\ cmd'.op = cmd.op /\ cmd'.at = "backup" /\ cmd'.agent = cmd.agent /\ DOMAIN cmd' = CmdFields
        /\ cmd'.read = c /\ cmd'.next = next
    BY <1>7, <2>1 DEF CmdFields
  <2>3. FileOK(cmd'.next) /\ Others(cmd'.next) = Others(cmd'.read)
    BY <1>7, <2>2
  <2>4. EditInv'
    BY <1>4, <2>2, <2>3 DEF EditInv, EditPlaces
  <2> QED BY <1>1, <1>2, <1>3, <2>2, <2>4, EditMoves
<1>8. FileOK([Upserted(format, c) EXCEPT !.there = TRUE])
      /\ Others([Upserted(format, c) EXCEPT !.there = TRUE]) = Others(c)
  <2>1. PICK u : u = Upserted(format, c)
    OBVIOUS
  <2>2. FileOK(u) /\ Others(u) = Others(c)
    BY <1>4, <2>1, UpsertOthers
  <2>3. FileOK([u EXCEPT !.there = TRUE]) /\ Others([u EXCEPT !.there = TRUE]) = Others(u)
    BY <2>2 DEF FileOK, FileFields, Others
  <2> QED BY <2>1, <2>2, <2>3
<1>9. FileOK(Removed(format, c)) /\ Others(Removed(format, c)) = Others(c)
  BY <1>4, RemoveOthers
<1>10. \/ End \/ At("delete")
       \/ cmd' = [cmd EXCEPT !.at = "backup", !.read = c, !.next = [Upserted(format, c) EXCEPT !.there = TRUE]]
       \/ cmd' = [cmd EXCEPT !.at = "backup", !.read = c, !.next = Removed(format, c)]
  BY <1>2, Zenon DEF ReadConfig
<1> QED BY <1>5, <1>6, <1>7, <1>8, <1>9, <1>10

LEMMA WriteInv ==
    ASSUME AgentInv, setupAtomicWrite
    PROVE  AgentInv'
<1> DEFINE a == cmd.agent
           f == backups[a]
<1>1. cmd.at = "backup" /\ UNCHANGED <<config, child, env>>
  BY DEF setupAtomicWrite
<1>2. cmd.op \in {"connect", "disconnect"}
  BY <1>1, NoCmdShape DEF AgentInv, CmdInv, LaunchInv, ServeInv
<1>3. a \in DOMAIN Clients /\ FileOK(cmd.next) /\ Others(cmd.next) = Others(cmd.read)
  BY <1>1, <1>2 DEF AgentInv, EditInv
<1>4. ConfigsInv'
  BY <1>1 DEF AgentInv, ConfigsInv, setupAtomicWrite
<1>5. CASE At(AfterWrite)
  <2>1. AfterWrite \in {"save", "delete"}
    BY DEF AfterWrite
  <2>2. cmd'.op = cmd.op /\ cmd'.at = AfterWrite /\ cmd'.agent = a /\ DOMAIN cmd' = CmdFields
    BY <1>5, AtShape DEF AgentInv
  <2>3. EditInv'
    BY <1>3, <2>1, <2>2 DEF EditInv, EditPlaces
  <2> QED BY <1>1, <1>2, <1>4, <2>2, <2>3, EditMoves
<1>6. ASSUME At("rename"),
             \/ EmptyFile(cmd.read)
             \/ backups' = [backups EXCEPT ![cmd.agent] =
                    [t \in DOMAIN backups[cmd.agent] \cup {second} |->
                        IF t = second THEN cmd.read ELSE backups[cmd.agent][t]]]
      PROVE  AgentInv'
  <2>1. /\ cmd'.op = cmd.op /\ cmd'.at = "rename" /\ cmd'.agent = a /\ DOMAIN cmd' = CmdFields
        /\ cmd'.read = cmd.read /\ cmd'.next = cmd.next
    BY <1>6, AtShape DEF AgentInv
  <2>2. ~EmptyFile(cmd.read) => \E t \in DOMAIN backups'[a] : backups'[a][t] = cmd.read
    <3>1. CASE EmptyFile(cmd.read)
      BY <3>1
    <3>2. ASSUME backups' = [backups EXCEPT ![a] =
                     [t \in DOMAIN f \cup {second} |-> IF t = second THEN cmd.read ELSE f[t]]]
          PROVE  \E t \in DOMAIN backups'[a] : backups'[a][t] = cmd.read
      <4>1. backups'[a] = [t \in DOMAIN f \cup {second} |-> IF t = second THEN cmd.read ELSE f[t]]
        BY <1>3, <3>2 DEF AgentInv, ConfigsInv
      <4>2. second \in DOMAIN backups'[a] /\ backups'[a][second] = cmd.read
        BY <4>1
      <4> QED BY <4>2
    <3> QED BY <1>6, <3>1, <3>2
  <2>3. EditInv'
    BY <1>3, <2>1, <2>2 DEF EditInv, EditPlaces
  <2> QED BY <1>1, <1>2, <1>4, <2>1, <2>3, EditMoves
<1> QED BY <1>5, <1>6 DEF setupAtomicWrite

LEMMA RenameInv ==
    ASSUME AgentInv, RenameConfig
    PROVE  AgentInv'
<1> DEFINE a == cmd.agent
<1>1. cmd.at = "rename" /\ At(AfterWrite) /\ UNCHANGED <<backups, child, env>>
      /\ config' = [config EXCEPT ![a] = [cmd.next EXCEPT !.link = FALSE]]
  BY DEF RenameConfig
<1>2. cmd.op \in {"connect", "disconnect"}
  BY <1>1, NoCmdShape DEF AgentInv, CmdInv, LaunchInv, ServeInv
<1>3. a \in DOMAIN Clients /\ FileOK(cmd.next)
  BY <1>1, <1>2 DEF AgentInv, EditInv
<1>4. FileOK([cmd.next EXCEPT !.link = FALSE])
  BY <1>3 DEF FileOK, FileFields
<1>5. ConfigsInv'
  BY <1>1, <1>3, <1>4 DEF AgentInv, ConfigsInv
<1>6. AfterWrite \in {"save", "delete"}
  BY DEF AfterWrite
<1>7. cmd'.op = cmd.op /\ cmd'.at = AfterWrite /\ cmd'.agent = a /\ DOMAIN cmd' = CmdFields
  BY <1>1, AtShape DEF AgentInv
<1>8. EditInv'
  BY <1>3, <1>6, <1>7 DEF EditInv, EditPlaces
<1> QED BY <1>1, <1>2, <1>5, <1>7, <1>8, EditMoves

LEMMA EndsInv ==
    ASSUME AgentInv, UpsertAgentConsumer \/ DeleteAgentConsumer \/ CallFails
    PROVE  AgentInv'
<1>1. /\ cmd.op \in {"connect", "disconnect"} /\ End
      /\ UNCHANGED <<config, backups, child, env>>
  BY DEF UpsertAgentConsumer, DeleteAgentConsumer, CallFails
<1>2. ConfigsInv'
  BY <1>1 DEF AgentInv, ConfigsInv
<1> QED BY <1>1, <1>2, EditEnds

LEMMA LaunchesInv ==
    ASSUME AgentInv, (\E a \in DOMAIN Clients : agentLaunch(a)) \/ registerProtectedProcess
    PROVE  AgentInv'
<1>1. UNCHANGED <<config, backups, env>> /\ env \in OwnEnv
  BY BeginsInv DEF agentLaunch, registerProtectedProcess, AgentInv, ServeInv
<1>2. ConfigsInv'
  BY <1>1 DEF AgentInv, ConfigsInv
<1>3. cmd'.op = "launch" /\ cmd'.at \in {"register", "wait"} /\ DOMAIN cmd' = CmdFields
  <2>1. CASE \E a \in DOMAIN Clients : agentLaunch(a)
    BY <2>1 DEF agentLaunch, NoCmd, CmdFields
  <2>2. CASE registerProtectedProcess
    <3>1. cmd.op = "launch" /\ At("wait")
      BY <2>2 DEF registerProtectedProcess
    <3> QED BY <3>1, AtShape DEF AgentInv
  <2> QED BY <2>1, <2>2
<1>4. LaunchInv'
  <2>1. CASE \E a \in DOMAIN Clients : agentLaunch(a)
    <3>1. DOMAIN child' = {"alive", "token", "registered"} /\ cmd'.at = "register"
      BY <2>1 DEF agentLaunch, NoCmd
    <3> QED BY <1>3, <3>1 DEF LaunchInv
  <2>2. CASE registerProtectedProcess
    <3>1. DOMAIN child = {"alive", "token", "registered"}
      BY DEF AgentInv, LaunchInv
    <3>2. DOMAIN child' = {"alive", "token", "registered"} /\ child'.registered = TRUE
      BY <2>2, <3>1 DEF registerProtectedProcess
    <3> QED BY <1>3, <3>2 DEF LaunchInv
  <2> QED BY <2>1, <2>2
<1>5. CmdInv' /\ EditInv' /\ ServeInv'
  BY <1>1, <1>3 DEF CmdInv, EditInv, ServeInv, AgentInv
<1> QED BY <1>2, <1>4, <1>5 DEF AgentInv

LEMMA ChildInv ==
    ASSUME AgentInv, KillUnregistered \/ ChildExits
    PROVE  AgentInv'
<1>1. child' = NoChild /\ End /\ UNCHANGED <<config, backups, env>>
  BY DEF KillUnregistered, ChildExits
<1>2. cmd.op # "mcp"
  BY DEF KillUnregistered, ChildExits, AgentInv, ServeInv
<1>3. env \in OwnEnv /\ env \in Environments(Values)
  BY <1>2 DEF AgentInv, ServeInv
<1>4. ConfigsInv'
  BY <1>1 DEF AgentInv, ConfigsInv
<1>5. DOMAIN child' = {"alive", "token", "registered"} /\ child'.alive = FALSE
  BY <1>1 DEF NoChild
<1> QED BY <1>1, <1>3, <1>4, <1>5, EndKept

\* A variable of the environment is set and what it was is remembered.
LEMMA SetInv ==
    ASSUME NEW e \in Environments(Values), NEW rs \in Seq(Remembered(Values)),
           Restored(e, rs) \in OwnEnv, NEW k \in Variables, NEW v \in Values
    PROVE  /\ [e EXCEPT ![k] = v] \in Environments(Values)
           /\ Append(rs, [key |-> k, old |-> e[k]]) \in Seq(Remembered(Values))
           /\ Restored([e EXCEPT ![k] = v], Append(rs, [key |-> k, old |-> e[k]])) \in OwnEnv
<1>1. [e EXCEPT ![k] = v] \in Environments(Values) /\ e[k] \in Values
  BY DEF Environments
<1>2. [key |-> k, old |-> e[k]] \in Remembered(Values)
  BY <1>1 DEF Remembered
<1> QED BY <1>1, <1>2, Appended, RestoredSame

LEMMA MCPMoves ==
    ASSUME AgentInv, DOMAIN cmd' = CmdFields, cmd'.op = "mcp", cmd'.at = "preflight",
           cmd'.agent \in DOMAIN Clients, cmd'.todo \in Seq(Variables),
           UNCHANGED <<config, backups, child>>, child.alive => child.registered,
           env' \in Environments(Values), cmd'.restores \in Seq(Remembered(Values)),
           Restored(env', cmd'.restores) \in OwnEnv
    PROVE  AgentInv'
<1>1. CmdInv' /\ EditInv' /\ ServeInv'
  BY DEF CmdInv, EditInv, ServeInv
<1>2. ConfigsInv' /\ LaunchInv'
  BY DEF AgentInv, ConfigsInv, LaunchInv
<1> QED BY <1>1, <1>2 DEF AgentInv

LEMMA ServeBeginsInv ==
    ASSUME AgentInv, NEW a \in DOMAIN Clients, agentMCP(a)
    PROVE  AgentInv'
<1>1. env \in OwnEnv /\ (child.alive => child.registered) /\ UNCHANGED <<config, backups, child>>
  BY BeginsInv DEF agentMCP
<1> DEFINE r == [key |-> "consumer", old |-> env["consumer"]]
<1>2. /\ DOMAIN cmd' = CmdFields /\ cmd'.op = "mcp" /\ cmd'.at = "preflight" /\ cmd'.agent = a
      /\ cmd'.todo = PreflightKeys /\ cmd'.restores = <<r>>
  BY DEF agentMCP, NoCmd, CmdFields
<1>3. env' = [env EXCEPT !["consumer"] = a]
  BY DEF agentMCP
<1>4. PICK e \in Environments(Values) : e = env
  BY DEF AgentInv, ServeInv
<1>5. <<>> \in Seq(Remembered(Values)) /\ Restored(e, <<>>) \in OwnEnv
  BY <1>1, <1>4, RestoredNone
<1>6. "consumer" \in Variables /\ a \in Values
  BY DEF Variables, Values
<1>7. /\ [e EXCEPT !["consumer"] = a] \in Environments(Values)
      /\ Append(<<>>, [key |-> "consumer", old |-> e["consumer"]]) \in Seq(Remembered(Values))
      /\ Restored([e EXCEPT !["consumer"] = a], Append(<<>>, [key |-> "consumer", old |-> e["consumer"]])) \in OwnEnv
  BY <1>5, <1>6, SetInv
<1>8. Append(<<>>, r) = <<r>>
  OBVIOUS
<1>9. PreflightKeys \in Seq(Variables)
  BY DEF PreflightKeys, Variables
<1> HIDE DEF r
<1>10. cmd'.restores \in Seq(Remembered(Values)) /\ Restored(env', cmd'.restores) \in OwnEnv
      /\ env' \in Environments(Values)
  BY <1>2, <1>3, <1>4, <1>7, <1>8 DEF r
<1> QED BY <1>1, <1>2, <1>9, <1>10, MCPMoves

LEMMA PrepareInv ==
    ASSUME AgentInv, prepareAgentMCPEnv
    PROVE  AgentInv'
<1> DEFINE key == Head(cmd.todo)
           value == CASE key = "consumer" -> cmd.agent [] key = "token" -> "session"
                      [] key = "root" -> RootOf(cmd.agent)
<1>1. cmd.at = "preflight" /\ cmd.todo # <<>> /\ UNCHANGED <<config, backups, child>>
  BY DEF prepareAgentMCPEnv
<1>2. cmd.op = "mcp" /\ DOMAIN cmd = CmdFields
  BY <1>1, NoCmdShape DEF AgentInv, CmdInv, LaunchInv, EditInv, EditPlaces
<1>3. /\ env \in Environments(Values) /\ cmd.agent \in DOMAIN Clients /\ cmd.todo \in Seq(Variables)
      /\ cmd.restores \in Seq(Remembered(Values)) /\ Restored(env, cmd.restores) \in OwnEnv
      /\ (child.alive => child.registered)
  BY <1>2 DEF AgentInv, ServeInv, LaunchInv
<1>4. key \in Variables /\ Tail(cmd.todo) \in Seq(Variables)
  BY <1>1, <1>3, HeadTailProperties
<1>5. value \in Values
  <2>1. RootOf(cmd.agent) \in Values
    <3>1. ProjectOf[cmd.agent] \in Values
      BY <1>3 DEF Values, Roots
    <3>2. env.root \in Values
      BY <1>3 DEF Environments, Variables
    <3> QED BY <3>1, <3>2 DEF RootOf
  <2>2. cmd.agent \in Values /\ "session" \in Values
    BY <1>3 DEF Values
  <2>3. key \in {"consumer", "root", "token"}
    BY <1>4 DEF Variables
  <2> HIDE DEF key
  <2> QED BY <2>1, <2>2, <2>3
<1>6. \/ UNCHANGED env /\ cmd' = [cmd EXCEPT !.todo = Tail(cmd.todo)]
      \/ /\ env' = [env EXCEPT ![key] = value]
         /\ cmd' = [cmd EXCEPT !.todo = Tail(cmd.todo),
                               !.restores = Append(cmd.restores, [key |-> key, old |-> env[key]])]
  BY DEF prepareAgentMCPEnv, setMCPEnv
<1> HIDE DEF key, value
<1>7. /\ cmd'.op = "mcp" /\ cmd'.at = "preflight" /\ cmd'.agent \in DOMAIN Clients
      /\ cmd'.todo = Tail(cmd.todo) /\ DOMAIN cmd' = CmdFields
  BY <1>1, <1>2, <1>3, <1>6 DEF CmdFields
<1>8. /\ env' \in Environments(Values) /\ cmd'.restores \in Seq(Remembered(Values))
      /\ Restored(env', cmd'.restores) \in OwnEnv
  <2>1. PICK e \in Environments(Values) : e = env
    BY <1>3
  <2>2. PICK rs \in Seq(Remembered(Values)) : rs = cmd.restores
    BY <1>3
  <2>3. CASE UNCHANGED env /\ cmd' = [cmd EXCEPT !.todo = Tail(cmd.todo)]
    <3>1. cmd'.restores = rs /\ env' = e
      BY <1>2, <2>1, <2>2, <2>3 DEF CmdFields
    <3> QED BY <1>3, <2>1, <2>2, <3>1
  <2>4. CASE /\ env' = [env EXCEPT ![key] = value]
             /\ cmd' = [cmd EXCEPT !.todo = Tail(cmd.todo),
                               !.restores = Append(cmd.restores, [key |-> key, old |-> env[key]])]
    <3>1. PICK k \in Variables : k = key
      BY <1>4
    <3>2. PICK v \in Values : v = value
      BY <1>5
    <3>3. /\ [e EXCEPT ![k] = v] \in Environments(Values)
          /\ Append(rs, [key |-> k, old |-> e[k]]) \in Seq(Remembered(Values))
          /\ Restored([e EXCEPT ![k] = v], Append(rs, [key |-> k, old |-> e[k]])) \in OwnEnv
      BY <1>3, <2>1, <2>2, SetInv
    <3>4. env' = [e EXCEPT ![k] = v] /\ cmd'.restores = Append(rs, [key |-> k, old |-> e[k]])
      BY <1>2, <2>1, <2>2, <2>4, <3>1, <3>2 DEF CmdFields
    <3> QED BY <3>3, <3>4
  <2> QED BY <1>6, <2>3, <2>4
<1> QED BY <1>1, <1>3, <1>4, <1>7, <1>8, MCPMoves

LEMMA PreflightInv ==
    ASSUME AgentInv, PreflightFails
    PROVE  AgentInv'
<1>1. /\ cmd.at = "preflight" /\ UNCHANGED <<config, backups, child, env>>
      /\ cmd' = [cmd EXCEPT !.todo = <<>>]
  BY DEF PreflightFails
<1>2. cmd.op = "mcp" /\ DOMAIN cmd = CmdFields
  BY <1>1, NoCmdShape DEF AgentInv, CmdInv, LaunchInv, EditInv, EditPlaces
<1>3. /\ env \in Environments(Values) /\ cmd.agent \in DOMAIN Clients
      /\ cmd.restores \in Seq(Remembered(Values)) /\ Restored(env, cmd.restores) \in OwnEnv
      /\ (child.alive => child.registered)
  BY <1>2 DEF AgentInv, ServeInv, LaunchInv
<1>4. /\ cmd'.op = "mcp" /\ cmd'.at = "preflight" /\ cmd'.agent = cmd.agent
      /\ cmd'.todo = <<>> /\ DOMAIN cmd' = CmdFields /\ cmd'.restores = cmd.restores
  BY <1>1, <1>2 DEF CmdFields
<1>5. cmd'.todo \in Seq(Variables)
  BY <1>4
<1> QED BY <1>1, <1>3, <1>4, <1>5, MCPMoves

LEMMA ServedInv ==
    ASSUME AgentInv, AgentServeMCP
    PROVE  AgentInv'
<1>1. /\ cmd.at = "preflight" /\ UNCHANGED <<config, backups, child>>
      /\ env' = Restored(env, cmd.restores) /\ End
  BY DEF AgentServeMCP
<1>2. cmd.op = "mcp"
  BY <1>1, NoCmdShape DEF AgentInv, CmdInv, LaunchInv, EditInv, EditPlaces
<1>3. env' \in OwnEnv /\ DOMAIN child = {"alive", "token", "registered"}
      /\ (child.alive => child.registered)
  BY <1>1, <1>2 DEF AgentInv, ServeInv, LaunchInv
<1>4. env' \in Environments(Values)
  BY <1>3, OwnEnvironments
<1>5. ConfigsInv'
  BY <1>1 DEF AgentInv, ConfigsInv
<1> QED BY <1>1, <1>3, <1>4, <1>5, EndKept

LEMMA ClientInv ==
    ASSUME AgentInv, NEW a \in DOMAIN Clients, ClientSaves(a)
    PROVE  AgentInv'
<1> DEFINE c == config[a]
           add == ClientAdds[Clients[a]]
           d == [c EXCEPT !.there = TRUE, !.lines = c.lines \o add.lines,
                          !.servers = c.servers \cup add.servers]
<1>1. Clients[a] \in DOMAIN ClientAdds /\ UNCHANGED <<backups, cmd, child, env>>
  BY DEF ClientSaves
<1>2. FileOK(c) /\ DOMAIN config = DOMAIN Clients
  BY DEF AgentInv, ConfigsInv
<1>3. c.lines \o add.lines \in Seq(AllLines)
  BY <1>1, <1>2, AddedLines, ConcatProperties DEF FileOK
<1> HIDE DEF add
<1>4. FileOK(d)
  BY <1>2, <1>3 DEF FileOK, FileFields
<1>7. config' = [config EXCEPT ![a] = d]
  BY DEF ClientSaves, add
<1> HIDE DEF d
<1>5. ConfigsInv'
  BY <1>1, <1>2, <1>4, <1>7 DEF AgentInv, ConfigsInv
<1>6. CmdInv' /\ EditInv' /\ LaunchInv' /\ ServeInv'
  BY <1>1 DEF AgentInv, CmdInv, EditInv, LaunchInv, ServeInv
<1> QED BY <1>5, <1>6 DEF AgentInv

LEMMA AgentSame ==
    ASSUME AgentInv, UNCHANGED <<config, backups, cmd, child, env>>
    PROVE  AgentInv'
BY DEF AgentInv, CmdInv, ConfigsInv, EditInv, LaunchInv, ServeInv

LEMMA AgentStepInv == AgentInv /\ [AgentsNext]_agentVars => AgentInv'
<1> SUFFICES ASSUME AgentInv, [AgentsNext]_agentVars PROVE AgentInv'
  OBVIOUS
<1>1. CASE \E a \in DOMAIN Clients :
           agentConnect(a) \/ agentDisconnect(a) \/ agentLaunch(a) \/ agentMCP(a) \/ ClientSaves(a)
  BY <1>1, EditBeginsInv, LaunchesInv, ServeBeginsInv, ClientInv
<1>2. CASE setupInstallAgentWrapper \/ ReadConfig \/ setupAtomicWrite \/ RenameConfig
  BY <1>2, WrapperInv, ReadInv, WriteInv, RenameInv
<1>3. CASE UpsertAgentConsumer \/ DeleteAgentConsumer \/ CallFails
  BY <1>3, EndsInv
<1>4. CASE registerProtectedProcess \/ KillUnregistered \/ ChildExits
  BY <1>4, LaunchesInv, ChildInv
<1>5. CASE prepareAgentMCPEnv \/ PreflightFails \/ AgentServeMCP
  BY <1>5, PrepareInv, PreflightInv, ServedInv
<1>6. CASE SecondPasses \/ UNCHANGED agentVars
  BY <1>6, AgentSame DEF SecondPasses, agentVars
<1> QED BY <1>1, <1>2, <1>3, <1>4, <1>5, <1>6 DEF AgentsNext

\* What a command knows of the configuration it edits and of the environment
\* it has changed holds whatever else happens.
THEOREM AgentsInvariant == AgentsSpec => []AgentInv
BY AgentsInitInv, AgentStepInv, PTL DEF AgentsSpec

LEMMA AgentInvKeeps == AgentInv => OthersKept
<1> SUFFICES ASSUME AgentInv PROVE OthersKept
  OBVIOUS
<1>1. ASSUME cmd.at = "rename"
      PROVE  /\ Others(cmd.next) = Others(cmd.read)
             /\ ~EmptyFile(cmd.read) => \E t \in DOMAIN backups[cmd.agent] : backups[cmd.agent][t] = cmd.read
  <2>1. cmd.op \in {"connect", "disconnect"}
    BY <1>1, NoCmdShape DEF AgentInv, CmdInv, LaunchInv, ServeInv
  <2> QED BY <1>1, <2>1 DEF AgentInv, EditInv
<1>2. cmd.op = "none" => (child.alive => child.registered) /\ env \in OwnEnv
  BY DEF AgentInv, LaunchInv, ServeInv
<1> QED BY <1>1, <1>2 DEF OthersKept

\* A command that edits a client's configuration keeps every setting that is not
\* HASP's and a copy of the file it replaces; a launched agent with a session is
\* watched by the daemon when its command is over, and serving MCP leaves the
\* environment as it was (removeAgentConsumerConfig, agentLaunchHandler,
\* restoreMCPEnv).
THEOREM OthersSettingsKept == AgentsSpec => []OthersKept
BY AgentsInvariant, AgentInvKeeps, PTL
=============================================================================
