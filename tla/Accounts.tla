------------------------------ MODULE Accounts ------------------------------
(***************************************************************************)
(* Users and API keys: the one-time setup that creates the first user, the *)
(* login that signs a session, the keys that stand in for a session, and   *)
(* the timestamps their use updates in goroutines                          *)
(* (internal/handlers/auth.go, apikey.go; internal/middleware/apikey.go;   *)
(* internal/storage/users.go, storage.go).                                 *)
(*                                                                         *)
(* A password is compared, never read, and a key is found by its hash: a   *)
(* value of a small set stands for either. Nothing disables or deletes a   *)
(* user: DeleteUser and the is_active column have no caller.               *)
(***************************************************************************)
EXTENDS Naturals, FiniteSets

CONSTANTS UserNames, Passwords,   \* what a request may carry
          SetupRequests,          \* setup requests
          KeyIds                  \* API keys ever generated

\* "none" stands for the row that is not there, and is nobody's password.
ASSUME AccountsAssumption == "none" \notin Passwords

VARIABLES userRow,       \* name -> password of its row, or "none"
          setup,         \* setup request -> stage, name and password
          sessions,      \* users a live token was signed for
          loginLater,    \* users with a last_login update under way
          loggedIn,      \* users whose row has a last_login
          apiKey,        \* key -> its row: state and whether it has expired
          usedLater,     \* keys with a last_used_at update under way
          lastUsed       \* keys whose row has a last_used_at

accountVars == <<userRow, setup, sessions, loginLater, loggedIn, apiKey, usedLater,
                 lastUsed>>

NoSetup == [stage |-> "idle", name |-> "none", pw |-> "none"]
NoKey == [state |-> "none", expired |-> FALSE]

AccountsInit ==
  /\ userRow = [u \in UserNames |-> "none"]
  /\ setup = [r \in SetupRequests |-> NoSetup]
  /\ sessions = {} /\ loginLater = {} /\ loggedIn = {}
  /\ apiKey = [k \in KeyIds |-> NoKey]
  /\ usedLater = {} /\ lastUsed = {}

(***************************************************************************)
(* Users.                                                                  *)
(***************************************************************************)
ListUsers == {u \in UserNames : userRow[u] # "none"}

\* Mutant: an upsert instead of an INSERT.
CreateOrReplaceUser(u, pw) == [ok |-> TRUE, rows |-> [userRow EXCEPT ![u] = pw]]

\* The INSERT fails on a name that is taken.
CreateUser(u, pw) ==
  IF userRow[u] = "none" THEN [ok |-> TRUE, rows |-> [userRow EXCEPT ![u] = pw]]
  ELSE [ok |-> FALSE, rows |-> userRow]

ValidateCredentials(u, pw) == userRow[u] = pw

\* The two halves of HandleSetup: the check, and after the body was read the
\* statement. A body that is refused ends the request.
SetupChecks(r) ==
  /\ setup[r].stage = "idle"
  /\ ListUsers = {}
  /\ setup' = [setup EXCEPT ![r].stage = "checked"]
  /\ UNCHANGED <<userRow, sessions, loginLater, loggedIn, apiKey, usedLater, lastUsed>>

HandleSetup(r, u, pw) ==
  LET created == CreateUser(u, pw) IN
  /\ setup[r].stage = "checked"
  /\ userRow' = created.rows
  /\ setup' = [setup EXCEPT ![r] = [stage |-> IF created.ok THEN "created" ELSE "refused",
                                    name |-> u, pw |-> pw]]
  /\ UNCHANGED <<sessions, loginLater, loggedIn, apiKey, usedLater, lastUsed>>

SetupRejected(r) ==
  /\ setup[r].stage = "checked"
  /\ setup' = [setup EXCEPT ![r] = NoSetup]
  /\ UNCHANGED <<userRow, sessions, loginLater, loggedIn, apiKey, usedLater, lastUsed>>

HandleLogin(u, pw) ==
  /\ ValidateCredentials(u, pw)
  /\ sessions' = sessions \cup {u}
  /\ loginLater' = loginLater \cup {u}
  /\ UNCHANGED <<userRow, setup, loggedIn, apiKey, usedLater, lastUsed>>

UpdateLastLogin(u) ==
  /\ u \in loginLater
  /\ loginLater' = loginLater \ {u}
  /\ loggedIn' = IF userRow[u] # "none" THEN loggedIn \cup {u} ELSE loggedIn
  /\ UNCHANGED <<userRow, setup, sessions, apiKey, usedLater, lastUsed>>

\* The token's twelve hours end; logging out is up to the client.
SessionEnds(u) ==
  /\ u \in sessions
  /\ sessions' = sessions \ {u}
  /\ UNCHANGED <<userRow, setup, loginLater, loggedIn, apiKey, usedLater, lastUsed>>

(***************************************************************************)
(* API keys.                                                               *)
(***************************************************************************)
GetAPIKeyByHash(k) == apiKey[k].state = "live"

HandleCreateAPIKey(k) ==
  /\ apiKey[k].state = "none"
  /\ apiKey' = [apiKey EXCEPT ![k].state = "live"]
  /\ UNCHANGED <<userRow, setup, sessions, loginLater, loggedIn, usedLater, lastUsed>>

\* permanent: the row is deleted; otherwise revoked_at is set.
DeleteAPIKey(k) == [apiKey EXCEPT ![k].state = "deleted"]
RevokeAPIKey(k) == [apiKey EXCEPT ![k].state = "revoked"]
HandleRevokeAPIKey(k, permanent) ==
  /\ apiKey[k].state \in {"live", "revoked"}
  /\ apiKey' = IF permanent THEN DeleteAPIKey(k) ELSE RevokeAPIKey(k)
  /\ UNCHANGED <<userRow, setup, sessions, loginLater, loggedIn, usedLater, lastUsed>>

KeyExpires(k) ==
  /\ apiKey[k] = [state |-> "live", expired |-> FALSE]
  /\ apiKey' = [apiKey EXCEPT ![k].expired = TRUE]
  /\ UNCHANGED <<userRow, setup, sessions, loginLater, loggedIn, usedLater, lastUsed>>

APIKeyAuth(k) ==
  /\ GetAPIKeyByHash(k) /\ ~apiKey[k].expired
  /\ usedLater' = usedLater \cup {k}
  /\ UNCHANGED <<userRow, setup, sessions, loginLater, loggedIn, apiKey, lastUsed>>

UpdateAPIKeyLastUsed(k) ==
  /\ k \in usedLater
  /\ usedLater' = usedLater \ {k}
  /\ lastUsed' = IF apiKey[k].state \in {"live", "revoked"} THEN lastUsed \cup {k}
                 ELSE lastUsed
  /\ UNCHANGED <<userRow, setup, sessions, loginLater, loggedIn, apiKey>>

AccountsNext ==
  \/ \E r \in SetupRequests :
       \/ SetupChecks(r) \/ SetupRejected(r)
       \/ \E u \in UserNames, pw \in Passwords : HandleSetup(r, u, pw)
  \/ \E u \in UserNames :
       \/ UpdateLastLogin(u) \/ SessionEnds(u)
       \/ \E pw \in Passwords : HandleLogin(u, pw)
  \/ \E k \in KeyIds :
       \/ HandleCreateAPIKey(k) \/ KeyExpires(k) \/ APIKeyAuth(k)
       \/ UpdateAPIKeyLastUsed(k)
       \/ \E permanent \in BOOLEAN : HandleRevokeAPIKey(k, permanent)

AccountsSpec == AccountsInit /\ [][AccountsNext]_accountVars

(***************************************************************************)
(* Properties.                                                             *)
(***************************************************************************)
AccountsTypeOK ==
  /\ userRow \in [UserNames -> Passwords \cup {"none"}]
  /\ setup \in [SetupRequests -> [stage : {"idle", "checked", "created", "refused"},
                  name : UserNames \cup {"none"}, pw : Passwords \cup {"none"}]]
  /\ sessions \subseteq UserNames /\ loginLater \subseteq UserNames
  /\ loggedIn \subseteq UserNames
  /\ apiKey \in [KeyIds -> [state : {"none", "live", "revoked", "deleted"},
                            expired : BOOLEAN]]
  /\ usedLater \subseteq KeyIds /\ lastUsed \subseteq KeyIds

\* Whoever was told "setup completed" can log in with the name and the password
\* they chose: of two setups that passed the check together, neither takes
\* over the account the other was promised.
SetupAnswersHold ==
  \A r \in SetupRequests :
    setup[r].stage = "created" => ValidateCredentials(setup[r].name, setup[r].pw)
=============================================================================
