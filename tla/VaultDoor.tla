---------------------------- MODULE VaultDoor ----------------------------
(***************************************************************************)
(* The HTTP handlers that test the master password (runtime/server.go):    *)
(* vault/init, vault/unlock, vault/master-password, vault/lock and         *)
(* daemon/restart, with the limit of failed attempts of a caller.          *)
(*                                                                         *)
(* A handler reads the limit, tests the password against the vault on disk *)
(* (VaultEnvelope models what that does) and records a failure, each in a  *)
(* step of its own.                                                        *)
(***************************************************************************)
EXTENDS Naturals, FiniteSets

CONSTANTS
    Callers,      \* masterPasswordCallerKey: a peer process or a remote host
    Doormen,      \* goroutines that serve these requests
    GuessWindow,       \* masterPasswordFailureWindow
    GuessLimit,        \* masterPasswordFailureLimit
    MaxNow,       \* bound: time
    MaxRequests,  \* bound: requests in a behaviour
    Passwords

ASSUME DoorAssumption ==
    /\ GuessWindow \in Nat /\ GuessLimit \in Nat \ {0} /\ MaxNow \in Nat /\ MaxRequests \in Nat
    /\ IsFiniteSet(Doormen)

VARIABLES
    doorNow,
    password,   \* the vault's master password, "": there is no vault
    locked,     \* the session store refuses until a session is opened
    attempts,   \* masterPasswordRates: caller -> failed request -> when it was recorded
    request,    \* what each goroutine serves
    arrived,    \* how many requests came in
    guesses     \* history: caller -> request since its last right one -> when
                \* its wrong password was tested

doorVars == <<doorNow, password, locked, attempts, request, arrived, guesses>>

\* Requests are numbered as they come in.
NoRequest == [kind |-> "none", caller |-> "", pw |-> "", new |-> "", at |-> "", n |-> 0]
Kinds == {"init", "owner", "unlock", "rotate", "lock", "restart"}

Goto(d, step) == request' = [request EXCEPT ![d].at = step]
Answer(d) == request' = [request EXCEPT ![d] = NoRequest]

-----------------------------------------------------------------------------
Arrive(d) ==
    /\ request[d] = NoRequest /\ arrived < MaxRequests
    /\ \E k \in Kinds, c \in Callers, p, n \in Passwords :
           /\ k \in {"owner", "lock", "restart"} => p = n
           /\ k # "rotate" => p = n
           /\ request' = [request EXCEPT ![d] =
                  [kind |-> k, caller |-> c, pw |-> p, new |-> n, n |-> arrived + 1,
                   at |-> CASE k = "init" -> "init"
                            [] k = "owner" -> "owner"
                            [] k \in {"unlock", "rotate"} -> "rate"
                            [] OTHER -> "lock"]]
    /\ arrived' = arrived + 1
    /\ UNCHANGED <<doorNow, password, locked, attempts, guesses>>

\* storeInitVault refuses when there is a vault; then the session is opened.
InitVault(d) ==
    /\ request[d].at = "init"
    /\ IF password # "" THEN Answer(d) /\ UNCHANGED password
       ELSE password' = request[d].pw /\ Goto(d, "session")
    /\ UNCHANGED <<doorNow, locked, attempts, arrived, guesses>>

\* defaultValidateVaultUnlock: the device key opens the vault, or does not.
DeviceOwner(d) ==
    /\ request[d].at = "owner"
    /\ \/ password # "" /\ Goto(d, "session")
       \/ Answer(d)
    /\ UNCHANGED <<doorNow, password, locked, attempts, arrived, guesses>>

-----------------------------------------------------------------------------
(* The limit *)

NoFailures == [n \in {} |-> 0]

\* ts with one more failure, of request n, now.
Failed(ts, n) == [m \in DOMAIN ts \cup {n} |-> IF m = n THEN doorNow ELSE ts[m]]

\* An attempt at the very edge of the window still counts.
recentAttempts(ts) ==
    [n \in {m \in DOMAIN ts : ts[m] + GuessWindow >= doorNow} |-> ts[n]]

masterPasswordRetryAfter_Late(c) ==
    Cardinality(DOMAIN recentAttempts(attempts[c])) > GuessLimit

masterPasswordRetryAfter(c) ==
    Cardinality(DOMAIN recentAttempts(attempts[c])) >= GuessLimit

CheckRate(d) ==
    LET c == request[d].caller IN
    /\ request[d].at = "rate"
    /\ attempts' = [attempts EXCEPT ![c] = recentAttempts(@)]
    /\ IF masterPasswordRetryAfter(c) THEN Answer(d) ELSE Goto(d, "test")
    /\ UNCHANGED <<doorNow, password, locked, arrived, guesses>>

\* storeOpenWithPassword.
Test(d) ==
    LET r == request[d] IN
    /\ r.at = "test"
    /\ \/ /\ password = "" /\ Answer(d)
          /\ UNCHANGED guesses
       \/ /\ password # "" /\ r.pw = password
          /\ Goto(d, IF r.kind = "rotate" THEN "rekey" ELSE "clear")
          /\ UNCHANGED guesses
       \/ /\ password # "" /\ r.pw # password
          /\ Goto(d, "record")
          /\ guesses' = [guesses EXCEPT ![r.caller] = Failed(@, r.n)]
    /\ UNCHANGED <<doorNow, password, locked, attempts, arrived>>

\* recordMasterPasswordFailure.
Record(d) ==
    LET r == request[d] IN
    /\ r.at = "record"
    /\ attempts' = [attempts EXCEPT ![r.caller] = Failed(recentAttempts(@), r.n)]
    /\ Answer(d)
    /\ UNCHANGED <<doorNow, password, locked, arrived, guesses>>

\* handleRekeyPassword tests the current password again, against the vault as
\* it is now; a new password the policy refuses changes nothing.
Rekey(d) ==
    LET r == request[d] IN
    /\ r.at = "rekey"
    /\ \/ /\ r.pw # password /\ Goto(d, "record")
          /\ guesses' = [guesses EXCEPT ![r.caller] = Failed(@, r.n)]
          /\ UNCHANGED password
       \/ /\ r.pw = password /\ password' = r.new /\ Goto(d, "clear")
          /\ UNCHANGED guesses
       \/ /\ r.pw = password /\ Answer(d)
          /\ UNCHANGED <<password, guesses>>
    /\ UNCHANGED <<doorNow, locked, attempts, arrived>>

\* clearMasterPasswordFailures.
Clear(d) ==
    LET r == request[d] IN
    /\ r.at = "clear"
    /\ attempts' = [attempts EXCEPT ![r.caller] = NoFailures]
    /\ guesses' = [guesses EXCEPT ![r.caller] = NoFailures]
    /\ Goto(d, IF r.kind = "rotate" THEN "lock" ELSE "session")
    /\ UNCHANGED <<doorNow, password, locked, arrived>>

-----------------------------------------------------------------------------
OpenVaultSession(d) ==
    /\ request[d].at = "session"
    /\ locked' = FALSE
    /\ Answer(d)
    /\ UNCHANGED <<doorNow, password, attempts, arrived, guesses>>

\* brokerLockVault; after a restart the new daemon has no attempts on record.
Lock(d) ==
    /\ request[d].at = "lock"
    /\ locked' = TRUE
    /\ IF request[d].kind = "restart" THEN Goto(d, "restart") ELSE Answer(d)
    /\ UNCHANGED <<doorNow, password, attempts, arrived, guesses>>

RestartProcess(d) ==
    /\ request[d].at = "restart"
    /\ request' = [e \in Doormen |-> NoRequest]
    /\ attempts' = [c \in Callers |-> NoFailures]
    /\ guesses' = [c \in Callers |-> NoFailures]
    /\ locked' = TRUE
    /\ UNCHANGED <<doorNow, password, arrived>>

DoorTick == /\ doorNow < MaxNow /\ doorNow' = doorNow + 1
        /\ UNCHANGED <<password, locked, attempts, request, arrived, guesses>>

-----------------------------------------------------------------------------
DoorInit ==
    /\ doorNow = 0 /\ password \in Passwords \cup {""} /\ locked = TRUE
    /\ attempts = [c \in Callers |-> NoFailures]
    /\ request = [d \in Doormen |-> NoRequest]
    /\ arrived = 0
    /\ guesses = [c \in Callers |-> NoFailures]

DoorNext ==
    \/ \E d \in Doormen :
           \/ Arrive(d) \/ InitVault(d) \/ DeviceOwner(d) \/ CheckRate(d) \/ Test(d)
           \/ Record(d) \/ Rekey(d) \/ Clear(d) \/ OpenVaultSession(d) \/ Lock(d)
           \/ RestartProcess(d)
    \/ DoorTick

DoorSpec == DoorInit /\ [][DoorNext]_doorVars

-----------------------------------------------------------------------------
(* Properties *)

RecentGuesses(c) == {n \in DOMAIN guesses[c] : guesses[c][n] + GuessWindow > doorNow}

\* A caller has at most GuessLimit wrong passwords tested within any window, and one
\* more for each other request that had passed the check before the failures
\* were recorded: the race between check and record is bounded by the number of
\* requests at once, not by the number of attempts.
GuessesBounded ==
    \A c \in Callers :
        Cardinality(RecentGuesses(c)) <= GuessLimit + Cardinality(Doormen) - 1
=============================================================================
