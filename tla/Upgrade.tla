------------------------------ MODULE Upgrade ------------------------------
(***************************************************************************)
(* `hasp upgrade`: the check of versions, the chain of signatures and the  *)
(* replacement of the running binary (release/, app/upgrade.go).           *)
(*                                                                         *)
(* Several upgrades may run at once, each from the binary that was at the  *)
(* path when it started and with the keys that binary pins.  Downloads     *)
(* fail or arrive damaged, writes fail, processes die.                     *)
(***************************************************************************)
EXTENDS Integers, Sequences, FiniteSets

CONSTANTS
    Upgraders,       \* processes
    Releases,        \* version -> [keys, keysSigner, signer, entry, pins]
    Asked,           \* versions users ask for, published or not
    FirstRelease,    \* the version installed by hand
    Precedence,      \* the versions in the order of the semver standard
    MaxUpgrades,     \* bound: upgrades started
    MaxBadDownloads  \* bound: downloads and writes that go wrong

VARIABLES
    disk,        \* path -> [version, whole]
    upgrader,    \* process -> where its upgrade is
    installedBy, \* the version whose process put the binary there
    upgrades, badDownloads

upgradeVars == <<disk, upgrader, installedBy, upgrades, badDownloads>>

NoFetch == [keys |-> {}, damaged |-> FALSE]
NotUpgrading == [at |-> "idle", running |-> FirstRelease, target |-> FirstRelease,
                 fetched |-> NoFetch]

TargetPath == <<"hasp">>

\* Mutant: the new binary is written where the old one is.
StagingPath_InPlace(u) == TargetPath

\* A name of its own for each process.
StagingPath(u) == <<"hasp", u>>

-----------------------------------------------------------------------------
(* Versions: [core, pre], pre a sequence of identifiers [numeric, rank]. *)

Sign(a, b) == IF a < b THEN -1 ELSE IF a > b THEN 1 ELSE 0

\* The first place where two sequences differ, 0 when one begins the other.
FirstDifference(a, b) ==
    LET differ == {i \in DOMAIN a \cap DOMAIN b : a[i] # b[i]}
    IN IF differ = {} THEN 0 ELSE CHOOSE i \in differ : \A j \in differ : i <= j

CompareIdentifiers(x, y) ==
    IF x.numeric = y.numeric THEN Sign(x.rank, y.rank) ELSE IF x.numeric THEN -1 ELSE 1

comparePrerelease(a, b) ==
    LET i == FirstDifference(a, b)
    IN IF i = 0 THEN Sign(Len(a), Len(b)) ELSE CompareIdentifiers(a[i], b[i])

Compare(a, b) ==
    LET i == FirstDifference(a.core, b.core)
    IN IF i # 0 THEN Sign(a.core[i], b.core[i])
       ELSE IF a.pre = b.pre THEN 0
       ELSE IF a.pre = <<>> THEN 1
       ELSE IF b.pre = <<>> THEN -1
       ELSE comparePrerelease(a.pre, b.pre)

Rank(v) == CHOOSE i \in DOMAIN Precedence : Precedence[i] = v

ASSUME UpgradeAssumption ==
    /\ FirstRelease \in DOMAIN Releases
    /\ \A v, w \in DOMAIN Releases : Compare(v, w) < 0 => Rank(v) < Rank(w)

CheckUpgrade(current, target) == Compare(current, target) < 0

PinnedPublicKeys(v) == Releases[v].pins

-----------------------------------------------------------------------------

UpgradeInit ==
    /\ disk = [p \in {TargetPath} |-> [version |-> FirstRelease, whole |-> TRUE]]
    /\ upgrader = [u \in Upgraders |-> NotUpgrading]
    /\ installedBy = FirstRelease
    /\ upgrades = 0 /\ badDownloads = 0

\* The user runs the binary at the path and confirms.
upgradeCommand(u, target) ==
    /\ upgrader[u].at = "idle" /\ upgrades < MaxUpgrades
    /\ LET current == disk[TargetPath].version IN
         /\ PinnedPublicKeys(current) # {}
         /\ CheckUpgrade(current, target)
         /\ upgrader' = [upgrader EXCEPT ![u] =
              [NotUpgrading EXCEPT !.at = "keys", !.running = current, !.target = target]]
    /\ upgrades' = upgrades + 1
    /\ UNCHANGED <<disk, installedBy, badDownloads>>

UpgradeEnds(u) == upgrader' = [upgrader EXCEPT ![u] = NotUpgrading]

Wrong == badDownloads < MaxBadDownloads /\ badDownloads' = badDownloads + 1

VerifyKEYS(file, signer, pinned) ==
    ~file.damaged /\ signer \in pinned /\ file.keys # {}

VerifyTarball(damaged, signer, trusted) == ~damaged /\ signer \in trusted

\* A download that succeeds brings what the release site has, whole or
\* damaged on the way.
DefaultHTTPGet(target, damaged) ==
    /\ target \in DOMAIN Releases
    /\ IF damaged THEN Wrong ELSE UNCHANGED badDownloads

FetchKEYS(u) ==
    /\ upgrader[u].at = "keys"
    /\ \E damaged \in BOOLEAN :
         /\ DefaultHTTPGet(upgrader[u].target, damaged)
         /\ LET release == Releases[upgrader[u].target]
                file == [keys |-> release.keys, damaged |-> damaged]
            IN IF VerifyKEYS(file, release.keysSigner, PinnedPublicKeys(upgrader[u].running))
               THEN upgrader' = [upgrader EXCEPT ![u].at = "tarball", ![u].fetched = file]
               ELSE UpgradeEnds(u)
    /\ UNCHANGED <<disk, installedBy, upgrades>>

FetchTarball(u) ==
    /\ upgrader[u].at = "tarball"
    /\ \E damaged \in BOOLEAN :
         /\ DefaultHTTPGet(upgrader[u].target, damaged)
         /\ IF VerifyTarball(damaged, Releases[upgrader[u].target].signer, upgrader[u].fetched.keys)
            THEN upgrader' = [upgrader EXCEPT ![u].at = "extract", ![u].fetched.damaged = damaged]
            ELSE UpgradeEnds(u)
    /\ UNCHANGED <<disk, installedBy, upgrades>>

PutFile(path, file) == disk' = [p \in DOMAIN disk \cup {path} |-> IF p = path THEN file ELSE disk[p]]
RemoveFile(path) == disk' = [p \in DOMAIN disk \ {path} |-> disk[p]]

\* The entry named hasp must be there, regular and of a size in bounds; the
\* staged file is created empty.
ExtractBinary(u) ==
    /\ upgrader[u].at = "extract"
    /\ IF Releases[upgrader[u].target].entry = "regular"
       THEN /\ PutFile(StagingPath(u), [version |-> upgrader[u].target, whole |-> FALSE])
            /\ upgrader' = [upgrader EXCEPT ![u].at = "copy"]
       ELSE UpgradeEnds(u) /\ UNCHANGED disk
    /\ UNCHANGED <<installedBy, upgrades, badDownloads>>

CopyBinary(u) ==
    /\ upgrader[u].at = "copy"
    /\ PutFile(StagingPath(u), [version |-> upgrader[u].target,
                            whole |-> ~upgrader[u].fetched.damaged])
    /\ upgrader' = [upgrader EXCEPT ![u].at = "replace"]
    /\ UNCHANGED <<installedBy, upgrades, badDownloads>>

\* A copy, close or chmod that fails removes the staged file.
ExtractFails(u) ==
    /\ upgrader[u].at = "copy" /\ Wrong
    /\ RemoveFile(StagingPath(u)) /\ UpgradeEnds(u)
    /\ UNCHANGED <<installedBy, upgrades>>

AtomicReplace(u) ==
    /\ upgrader[u].at = "replace"
    /\ disk' = [p \in DOMAIN disk \ ({StagingPath(u)} \ {TargetPath}) |->
                  IF p = TargetPath THEN disk[StagingPath(u)] ELSE disk[p]]
    /\ installedBy' = upgrader[u].running
    /\ UpgradeEnds(u)
    /\ UNCHANGED <<upgrades, badDownloads>>

\* A download or the rename fails, or the process dies; what is staged stays.
UpgradeStops(u) ==
    /\ upgrader[u].at # "idle"
    /\ UpgradeEnds(u)
    /\ UNCHANGED <<disk, installedBy, upgrades, badDownloads>>

UpgradeNext ==
    \E u \in Upgraders :
       \/ \E target \in Asked : upgradeCommand(u, target)
       \/ FetchKEYS(u) \/ FetchTarball(u) \/ ExtractBinary(u) \/ CopyBinary(u)
       \/ ExtractFails(u) \/ AtomicReplace(u) \/ UpgradeStops(u)

UpgradeSpec == UpgradeInit /\ [][UpgradeNext]_upgradeVars

-----------------------------------------------------------------------------
(* Properties *)

\* Whatever fails or dies, and however many upgrades run at once, the binary
\* at the path is whole; it is the one installed by hand, or one signed by a
\* key of a KEYS file that a key pinned in the binary that installed it has
\* signed, and later than that binary in the order of the semver standard
\* (Upgrade, VerifyKEYS, VerifyTarball, Compare).
InstalledIsVouched ==
    LET binary == disk[TargetPath]
        release == Releases[binary.version]
    IN /\ binary.whole
       /\ \/ binary.version = FirstRelease
          \/ /\ release.keysSigner \in PinnedPublicKeys(installedBy)
             /\ release.signer \in release.keys
             /\ Rank(installedBy) < Rank(binary.version)
=============================================================================
