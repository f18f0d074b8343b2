------------------------------- MODULE Devices -------------------------------
(***************************************************************************)
(* Paired devices: the row a pairing saves, the access tokens signed for   *)
(* the device, the middleware that admits a request, the updates that      *)
(* middleware leaves to goroutines, and the handlers that revoke or rename *)
(* a device (internal/handlers/devices.go, auth.go; internal/middleware;   *)
(* internal/auth/jwt.go; devices and request_logs of the storage).         *)
(*                                                                         *)
(* A token is only as good as its signature and its age: what is kept here *)
(* is the best token a device holds. The revocation list of the auth       *)
(* manager is consulted and never written to, so it is always empty. The   *)
(* pragma that enforces foreign keys reaches one connection of the pool:   *)
(* fk says whether a statement ran on that one.                            *)
(***************************************************************************)
EXTENDS Naturals

CONSTANTS DeviceIds,      \* devices
          MaxCounted      \* bound on the requests counted today

ASSUME DevicesAssumption == MaxCounted \in Nat \ {0}

VARIABLES deviceRow,      \* device -> row of devices: "none", "recent" or "stale" last_seen
          jwt,            \* device -> best token it holds: "none", "live", "grace"
          revoking,       \* device -> stage of a revocation
          renaming,       \* device -> stage of a metadata update
          seenLater,      \* devices with a last_seen update under way
          countLater,     \* devices with a request count under way
          counted,        \* device -> request_count of today's row of request_logs
          revoked         \* devices deleted and not saved since (history)

deviceVars == <<deviceRow, jwt, revoking, renaming, seenLater, countLater, counted,
                revoked>>

DevicesInit ==
  /\ deviceRow = [d \in DeviceIds |-> "none"]
  /\ jwt = [d \in DeviceIds |-> "none"]
  /\ revoking = [d \in DeviceIds |-> "idle"]
  /\ renaming = [d \in DeviceIds |-> "idle"]
  /\ seenLater = {} /\ countLater = {}
  /\ counted = [d \in DeviceIds |-> 0]
  /\ revoked = {}

(***************************************************************************)
(* Storage.                                                                *)
(***************************************************************************)
\* INSERT ... ON CONFLICT DO UPDATE.
SaveDevice(d) == /\ deviceRow' = [deviceRow EXCEPT ![d] = "recent"]
                 /\ revoked' = revoked \ {d}
GetDevice(d) == deviceRow[d]
DeleteDevice(d, fk) ==
  /\ deviceRow' = [deviceRow EXCEPT ![d] = "none"]
  /\ counted' = IF fk THEN [counted EXCEPT ![d] = 0] ELSE counted
  /\ revoked' = revoked \cup {d}

\* Mutant: an upsert instead of an UPDATE.
TouchOrInsert(d) == deviceRow' = [deviceRow EXCEPT ![d] = "recent"]

\* UPDATE touches a row that is there and makes none.
UpdateDeviceLastSeen(d) ==
  deviceRow' = [deviceRow EXCEPT ![d] = IF @ = "none" THEN "none" ELSE "recent"]

\* An upsert; a connection that enforces the key refuses it without a device.
IncrementRequestCount(d, fk) ==
  counted' = IF fk /\ deviceRow[d] = "none" THEN counted
             ELSE [counted EXCEPT ![d] = @ + 1]

\* ComputeStatus: seen within five minutes.
ComputeStatus(d) == IF deviceRow[d] = "recent" THEN "online" ELSE "offline"

(***************************************************************************)
(* Tokens.                                                                 *)
(***************************************************************************)
ParseJWT(d) == jwt[d] = "live"
ParseJWTForRefresh(d) == jwt[d] \in {"live", "grace"}
SignJWT(d) == jwt' = [jwt EXCEPT ![d] = "live"]

\* The end of a pairing: a token, and a row unless saving it fails, which
\* does not fail the pairing.
PairDevice(d, saved) ==
  /\ SignJWT(d)
  /\ IF saved THEN SaveDevice(d) ELSE UNCHANGED <<deviceRow, revoked>>
  /\ UNCHANGED <<revoking, renaming, seenLater, countLater, counted>>

\* HandleRefresh looks at the token alone.
HandleRefresh(d) ==
  /\ ParseJWTForRefresh(d)
  /\ SignJWT(d)
  /\ UNCHANGED <<deviceRow, revoking, renaming, seenLater, countLater, counted, revoked>>

\* Twelve hours, then seven days of grace.
TokenAges(d) ==
  /\ jwt[d] # "none"
  /\ jwt' = [jwt EXCEPT ![d] = IF @ = "live" THEN "grace" ELSE "none"]
  /\ UNCHANGED <<deviceRow, revoking, renaming, seenLater, countLater, counted, revoked>>

(***************************************************************************)
(* The middleware. What it lets through is counted and moves last_seen,    *)
(* both in goroutines.                                                     *)
(***************************************************************************)
StrictAllows(d) == ParseJWT(d) /\ GetDevice(d) # "none"

StrictAccess(d) ==
  /\ StrictAllows(d)
  /\ seenLater' = seenLater \cup {d} /\ countLater' = countLater \cup {d}
  /\ UNCHANGED <<deviceRow, jwt, revoking, renaming, counted, revoked>>

\* Address-based access never looks for the row. A local request without a
\* valid token passes and leaves no trace.
IPBasedAccess(d) ==
  /\ ParseJWT(d)
  /\ seenLater' = seenLater \cup {d} /\ countLater' = countLater \cup {d}
  /\ UNCHANGED <<deviceRow, jwt, revoking, renaming, counted, revoked>>

LastSeenUpdated(d) ==
  /\ d \in seenLater
  /\ UpdateDeviceLastSeen(d)
  /\ seenLater' = seenLater \ {d}
  /\ UNCHANGED <<jwt, revoking, renaming, countLater, counted, revoked>>

RequestCounted(d, fk) ==
  /\ d \in countLater
  /\ counted[d] < MaxCounted
  /\ IncrementRequestCount(d, fk)
  /\ countLater' = countLater \ {d}
  /\ UNCHANGED <<deviceRow, jwt, revoking, renaming, seenLater, revoked>>

\* Five minutes without a request.
DeviceQuiet(d) ==
  /\ deviceRow[d] = "recent"
  /\ deviceRow' = [deviceRow EXCEPT ![d] = "stale"]
  /\ UNCHANGED <<jwt, revoking, renaming, seenLater, countLater, counted, revoked>>

(***************************************************************************)
(* The handlers.                                                           *)
(***************************************************************************)
RevokeFinds(d) ==
  /\ revoking[d] = "idle"
  /\ GetDevice(d) # "none"
  /\ revoking' = [revoking EXCEPT ![d] = "found"]
  /\ UNCHANGED <<deviceRow, jwt, renaming, seenLater, countLater, counted, revoked>>

\* A failed statement ends the request; otherwise its notifications are
\* deleted (NotificationQueue.tla) and its connections closed
\* (WebSocketHub.tla).
HandleRevokeDevice(d, ok, fk) ==
  /\ revoking[d] = "found"
  /\ IF ok THEN DeleteDevice(d, fk) ELSE UNCHANGED <<deviceRow, counted, revoked>>
  /\ revoking' = [revoking EXCEPT ![d] = "idle"]
  /\ UNCHANGED <<jwt, renaming, seenLater, countLater>>

RenameFinds(d) ==
  /\ renaming[d] = "idle"
  /\ GetDevice(d) # "none"
  /\ renaming' = [renaming EXCEPT ![d] = "found"]
  /\ UNCHANGED <<deviceRow, jwt, revoking, seenLater, countLater, counted, revoked>>

\* The row read before the body was decoded is saved after it.
HandleUpdateDeviceMetadata(d, ok) ==
  /\ renaming[d] = "found"
  /\ IF ok THEN SaveDevice(d) ELSE UNCHANGED <<deviceRow, revoked>>
  /\ renaming' = [renaming EXCEPT ![d] = "idle"]
  /\ UNCHANGED <<jwt, revoking, seenLater, countLater, counted>>

\* The rows and the devices' tokens outlive the process.
DevicesRestart ==
  /\ revoking' = [d \in DeviceIds |-> "idle"]
  /\ renaming' = [d \in DeviceIds |-> "idle"]
  /\ seenLater' = {} /\ countLater' = {}
  /\ UNCHANGED <<deviceRow, jwt, counted, revoked>>

DevicesNext ==
  \/ \E d \in DeviceIds :
       \/ HandleRefresh(d) \/ TokenAges(d)
       \/ StrictAccess(d) \/ IPBasedAccess(d) \/ LastSeenUpdated(d) \/ DeviceQuiet(d)
       \/ RevokeFinds(d) \/ RenameFinds(d)
       \/ \E ok \in BOOLEAN :
            \/ PairDevice(d, ok) \/ HandleUpdateDeviceMetadata(d, ok)
            \/ \E fk \in BOOLEAN : HandleRevokeDevice(d, ok, fk)
       \/ \E fk \in BOOLEAN : RequestCounted(d, fk)
  \/ DevicesRestart

DevicesSpec == DevicesInit /\ [][DevicesNext]_deviceVars

(***************************************************************************)
(* Properties.                                                             *)
(***************************************************************************)
DevicesTypeOK ==
  /\ deviceRow \in [DeviceIds -> {"none", "recent", "stale"}]
  /\ jwt \in [DeviceIds -> {"none", "live", "grace"}]
  /\ revoking \in [DeviceIds -> {"idle", "found"}]
  /\ renaming \in [DeviceIds -> {"idle", "found"}]
  /\ seenLater \subseteq DeviceIds /\ countLater \subseteq DeviceIds
  /\ counted \in [DeviceIds -> 0..MaxCounted]
  /\ revoked \subseteq DeviceIds

\* A revoked device stays out of the strict endpoints and off the device list
\* until it is paired again or a rename that began before the revocation saves
\* it: no late last_seen update, no count, no refreshed token brings it back.
RevokedStaysOut ==
  \A d \in revoked : ~StrictAllows(d) /\ ComputeStatus(d) = "offline"
=============================================================================
