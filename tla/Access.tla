------------------------------- MODULE Access -------------------------------
(***************************************************************************)
(* Who may use the API: the accounts that NewStore seeds while the         *)
(* scheduler starts (internal/storage/storage.go, cmd/scheduler/main.go),  *)
(* and the tokens that handleLogin issues and AuthMiddleware asks for      *)
(* (internal/auth/auth.go, internal/api/server.go).  One client.           *)
(***************************************************************************)
EXTENDS Integers

CONSTANTS
    MaxCrashes,  \* bound: crashes of the scheduler
    MaxExpiries  \* bound: tokens that pass their 24 hours

ASSUME AccessAssumption == MaxCrashes \in Nat /\ MaxExpiries \in Nat

VARIABLES
    server,   \* "down", "seeding" or "up", that is, listening
    users,    \* the users table
    client,   \* the account that the client uses
    token,    \* "none", "valid" or "expired"
    crashes, expiries

accessVars == <<server, users, client, token, crashes, expiries>>

Accounts == {"admin", "reader"}

AccessTypeOK ==
    /\ server \in {"down", "seeding", "up"} /\ users \subseteq Accounts
    /\ client \in Accounts /\ token \in {"none", "valid", "expired"}
    /\ crashes \in 0 .. MaxCrashes /\ expiries \in 0 .. MaxExpiries

AccessInit ==
    /\ server = "down" /\ users = {}
    /\ client \in Accounts /\ token = "none"
    /\ crashes = 0 /\ expiries = 0

\* seedUsers looks whether there are users at all.
Start ==
    /\ server = "down"
    /\ server' = IF users = {} THEN "seeding" ELSE "up"
    /\ UNCHANGED <<users, client, token, crashes, expiries>>

\* Mutant of NextSeed: the list in another order.
NextSeedReversed == IF "reader" \in users THEN "admin" ELSE "reader"

NextSeed == IF "admin" \in users THEN "reader" ELSE "admin"

\* One INSERT of seedUsers; there is no transaction around the two.
SeedUser ==
    /\ server = "seeding"
    /\ users' = users \cup {NextSeed}
    /\ server' = IF users' = Accounts THEN "up" ELSE "seeding"
    /\ UNCHANGED <<client, token, crashes, expiries>>

\* The process dies; tokens are not kept in it.
Crash ==
    /\ server # "down" /\ crashes < MaxCrashes
    /\ server' = "down" /\ crashes' = crashes + 1
    /\ UNCHANGED <<users, client, token, expiries>>

\* handleLogin, GetUserByCredentials, GenerateToken
Login ==
    /\ server = "up" /\ token # "valid" /\ client \in users
    /\ token' = "valid"
    /\ UNCHANGED <<server, users, client, crashes, expiries>>

TokenExpires ==
    /\ token = "valid" /\ expiries < MaxExpiries
    /\ token' = "expired" /\ expiries' = expiries + 1
    /\ UNCHANGED <<server, users, client, crashes>>

\* AuthMiddleware lets the client through; else it answers 401.
Authorized == server = "up" /\ token = "valid"
=============================================================================
