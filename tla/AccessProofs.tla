---------------------------- MODULE AccessProofs ----------------------------
(* Proofs about who and what an instance lets in: Devices, Accounts, Pairing *)
(* and Certificates, for any number of devices, users, requests, codes,      *)
(* names and handshakes, and their composition with the route registry.      *)
EXTENDS MCAccess, RouteRegistryProofs

-----------------------------------------------------------------------------
(* Devices. *)

(* A device that was deleted and not saved since has no row.                 *)
RevokedHasNoRow == \A d \in revoked : deviceRow[d] = "none"

DevicesIInv == DevicesTypeOK /\ RevokedHasNoRow

(* No step of a request, a goroutine or a handler gives a revoked device its *)
(* row back but a pairing or a rename, which end the revocation.             *)
LEMMA DevicesPreserves == DevicesIInv /\ [DevicesNext]_deviceVars => DevicesIInv'
<1> SUFFICES ASSUME DevicesIInv, [DevicesNext]_deviceVars PROVE DevicesIInv'
    OBVIOUS
<1> USE DevicesAssumption DEF DevicesIInv, DevicesTypeOK, RevokedHasNoRow
<1>1. CASE UNCHANGED deviceVars
    BY <1>1 DEF deviceVars
<1>2. ASSUME NEW d \in DeviceIds, HandleRefresh(d) \/ TokenAges(d)
      PROVE  DevicesIInv'
    BY <1>2 DEF HandleRefresh, SignJWT, TokenAges
<1>3. ASSUME NEW d \in DeviceIds, StrictAccess(d) \/ IPBasedAccess(d)
      PROVE  DevicesIInv'
    BY <1>3 DEF StrictAccess, IPBasedAccess
<1>4. ASSUME NEW d \in DeviceIds, LastSeenUpdated(d) \/ DeviceQuiet(d)
      PROVE  DevicesIInv'
    BY <1>4 DEF LastSeenUpdated, UpdateDeviceLastSeen, DeviceQuiet
<1>5. ASSUME NEW d \in DeviceIds, NEW fk \in BOOLEAN, RequestCounted(d, fk)
      PROVE  DevicesIInv'
    BY <1>5 DEF RequestCounted, IncrementRequestCount
<1>6. ASSUME NEW d \in DeviceIds, RevokeFinds(d) \/ RenameFinds(d)
      PROVE  DevicesIInv'
    BY <1>6 DEF RevokeFinds, RenameFinds
<1>7. ASSUME NEW d \in DeviceIds, NEW ok \in BOOLEAN,
             PairDevice(d, ok) \/ HandleUpdateDeviceMetadata(d, ok)
      PROVE  DevicesIInv'
    BY <1>7 DEF PairDevice, HandleUpdateDeviceMetadata, SaveDevice, SignJWT
<1>8. ASSUME NEW d \in DeviceIds, NEW ok \in BOOLEAN, NEW fk \in BOOLEAN,
             HandleRevokeDevice(d, ok, fk)
      PROVE  DevicesIInv'
    BY <1>8 DEF HandleRevokeDevice, DeleteDevice
<1>9. CASE DevicesRestart
    BY <1>9 DEF DevicesRestart
<1> QED BY <1>1, <1>2, <1>3, <1>4, <1>5, <1>6, <1>7, <1>8, <1>9 DEF DevicesNext

(* No device is known when the database is created. *)
LEMMA DevicesInitially == DevicesInit => DevicesIInv
BY DevicesAssumption DEF DevicesInit, DevicesIInv, DevicesTypeOK, RevokedHasNoRow

(* A revoked device stays out of the strict endpoints and is shown offline,  *)
(* whatever its requests under way, its refreshes and the goroutines of the  *)
(* middleware do after the revocation (HandleRevokeDevice, StrictAllows).    *)
THEOREM RevokedStaysOutHolds == DevicesSpec => []RevokedStaysOut
<1>1. DevicesIInv => RevokedStaysOut
    BY DEF DevicesIInv, DevicesTypeOK, RevokedHasNoRow, RevokedStaysOut, StrictAllows,
           GetDevice, ComputeStatus
<1> QED BY <1>1, DevicesInitially, DevicesPreserves, PTL DEF DevicesSpec

(* The types of the tables, and request counts within their bound.           *)
THEOREM DevicesTypeCorrect == DevicesSpec => []DevicesTypeOK
<1>1. DevicesIInv => DevicesTypeOK
    BY DEF DevicesIInv
<1> QED BY <1>1, DevicesInitially, DevicesPreserves, PTL DEF DevicesSpec

-----------------------------------------------------------------------------
(* Accounts. *)

(* A setup that succeeded named a user and a password.                       *)
CreatedIsNamed == \A r \in SetupRequests : setup[r].stage = "created" =>
                    setup[r].name \in UserNames /\ setup[r].pw \in Passwords

AccountsIInv == AccountsTypeOK /\ CreatedIsNamed /\ SetupAnswersHold

(* No user's password changes once the row is there.                         *)
LEMMA CreateUserKeeps ==
    ASSUME AccountsTypeOK, NEW u \in UserNames, NEW pw \in Passwords
    PROVE  /\ CreateUser(u, pw).rows \in [UserNames -> Passwords \cup {"none"}]
           /\ \A x \in UserNames : userRow[x] # "none" =>
                                     CreateUser(u, pw).rows[x] = userRow[x]
           /\ CreateUser(u, pw).ok => CreateUser(u, pw).rows[u] = pw
BY DEF AccountsTypeOK, CreateUser

(* Of two setups that passed the check together one is refused or makes      *)
(* another user.                                                             *)
LEMMA SetupPreserves ==
    ASSUME AccountsIInv, NEW r \in SetupRequests,
           \/ SetupChecks(r) \/ SetupRejected(r)
           \/ \E u \in UserNames, pw \in Passwords : HandleSetup(r, u, pw)
    PROVE  AccountsIInv'
<1> USE AccountsAssumption DEF AccountsIInv
<1>1. CASE SetupChecks(r) \/ SetupRejected(r)
    BY <1>1 DEF AccountsTypeOK, CreatedIsNamed, SetupAnswersHold, ValidateCredentials,
                SetupChecks, SetupRejected, NoSetup
<1>2. ASSUME NEW u \in UserNames, NEW pw \in Passwords, HandleSetup(r, u, pw)
      PROVE  AccountsIInv'
    <2>1. /\ userRow' \in [UserNames -> Passwords \cup {"none"}]
          /\ \A x \in UserNames : userRow[x] # "none" => userRow'[x] = userRow[x]
          /\ CreateUser(u, pw).ok => userRow'[u] = pw
        BY <1>2, CreateUserKeeps DEF HandleSetup
    <2>2. setup' = [setup EXCEPT ![r] = [stage |-> IF CreateUser(u, pw).ok THEN "created"
                                                   ELSE "refused", name |-> u, pw |-> pw]]
        BY <1>2 DEF HandleSetup
    <2>3. AccountsTypeOK'
        BY <1>2, <2>1, <2>2 DEF HandleSetup, AccountsTypeOK
    <2>4. ASSUME NEW x \in SetupRequests, setup'[x].stage = "created"
          PROVE  /\ setup'[x].name \in UserNames /\ setup'[x].pw \in Passwords
                 /\ userRow'[setup'[x].name] = setup'[x].pw
        <3>1. CASE x = r
            BY <2>1, <2>2, <2>4, <3>1 DEF AccountsTypeOK
        <3>2. CASE x # r
            <4>1. setup'[x] = setup[x]
                BY <2>2, <3>2 DEF AccountsTypeOK
            <4> QED BY <2>1, <2>4, <4>1
                    DEF CreatedIsNamed, SetupAnswersHold, ValidateCredentials
        <3> QED BY <3>1, <3>2
    <2> QED BY <2>3, <2>4 DEF CreatedIsNamed, SetupAnswersHold, ValidateCredentials
<1> QED BY <1>1, <1>2

(* Logins, keys and setups keep what a setup was told. *)
LEMMA AccountsPreserves == AccountsIInv /\ [AccountsNext]_accountVars => AccountsIInv'
<1> SUFFICES ASSUME AccountsIInv, [AccountsNext]_accountVars PROVE AccountsIInv'
    OBVIOUS
<1> USE DEF AccountsIInv, AccountsTypeOK, CreatedIsNamed, SetupAnswersHold,
            ValidateCredentials
<1>1. CASE UNCHANGED accountVars
    BY <1>1 DEF accountVars
<1>2. CASE \E r \in SetupRequests :
             \/ SetupChecks(r) \/ SetupRejected(r)
             \/ \E u \in UserNames, pw \in Passwords : HandleSetup(r, u, pw)
    BY <1>2, SetupPreserves
<1>3. CASE \E u \in UserNames :
             \/ UpdateLastLogin(u) \/ SessionEnds(u)
             \/ \E pw \in Passwords : HandleLogin(u, pw)
    BY <1>3 DEF UpdateLastLogin, SessionEnds, HandleLogin
<1>4. CASE \E k \in KeyIds : HandleCreateAPIKey(k) \/ KeyExpires(k)
    <2>1. PICK k \in KeyIds : HandleCreateAPIKey(k) \/ KeyExpires(k)
        BY <1>4
    <2>2. apiKey' \in [KeyIds -> [state : {"none", "live", "revoked", "deleted"},
                                  expired : BOOLEAN]]
        <3>1. CASE HandleCreateAPIKey(k)
            BY <3>1 DEF HandleCreateAPIKey
        <3>2. CASE KeyExpires(k)
            BY <3>2 DEF KeyExpires
        <3> QED BY <2>1, <3>1, <3>2
    <2> QED BY <2>1, <2>2 DEF HandleCreateAPIKey, KeyExpires
<1>5. CASE \E k \in KeyIds :
             \/ APIKeyAuth(k) \/ UpdateAPIKeyLastUsed(k)
             \/ \E p \in BOOLEAN : HandleRevokeAPIKey(k, p)
    BY <1>5 DEF APIKeyAuth, UpdateAPIKeyLastUsed, HandleRevokeAPIKey, DeleteAPIKey,
                RevokeAPIKey
<1> QED BY <1>1, <1>2, <1>3, <1>4, <1>5 DEF AccountsNext

(* There is no user and no setup under way at first. *)
LEMMA AccountsInitially == AccountsInit => AccountsIInv
BY DEF AccountsInit, AccountsIInv, AccountsTypeOK, CreatedIsNamed, SetupAnswersHold,
       NoSetup, NoKey

(* Whoever was told that the setup is complete can log in as the user they   *)
(* named, however many setups passed the check together (HandleSetup).       *)
THEOREM SetupsAreKept == AccountsSpec => []SetupAnswersHold
<1>1. AccountsIInv => SetupAnswersHold
    BY DEF AccountsIInv
<1> QED BY <1>1, AccountsInitially, AccountsPreserves, PTL DEF AccountsSpec

(* The types of the tables of users and keys.                                *)
THEOREM AccountsTypeCorrect == AccountsSpec => []AccountsTypeOK
<1>1. AccountsIInv => AccountsTypeOK
    BY DEF AccountsIInv
<1> QED BY <1>1, AccountsInitially, AccountsPreserves, PTL DEF AccountsSpec

-----------------------------------------------------------------------------
(* Pairing. *)

Entry == [left : 0..Gone, over : BOOLEAN, redeemed : BOOLEAN, used : BOOLEAN,
          failed : 0..MaxCodeFailures, locked : 0..LockTTL]
Recorded(k) == \E p \in PairRequests : pairReq[p] = [token |-> k, stage |-> "recorded"]

(* A request has a token, which the app learned from a code it redeemed; a   *)
(* token nobody knows cannot fail.                                           *)
OnlyScannedArePresented ==
  /\ \A p \in PairRequests : pairReq[p].stage # "idle" =>
       /\ pairReq[p].token \in Tokens
       /\ pairReq[p].token \in QRs => qrStage[pairReq[p].token] = "scanned"
  /\ \A k \in rateLimited : k \in QRs => qrStage[k] = "scanned"

(* The code of a token that paired is used or gone, and never made again.    *)
PairedAreUsed ==
  \A k \in pairedWith : /\ k \in QRs /\ qrStage[k] = "scanned"
                        /\ codes[k].left = Gone \/ codes[k].used

(* A token in its lifetime pairs until a pairing with it is recorded.        *)
AliveTokensPair ==
  /\ alive \subseteq QRs
  /\ \A k \in alive : \/ k \in pairedWith \/ Recorded(k)
                      \/ k \notin rateLimited /\ tokenLeft[k] \in 1..CodeTTL

PairingIInv == /\ PairingTypeOK
               /\ OnlyScannedArePresented
               /\ PairedAreUsed
               /\ AliveTokensPair

(* A redemption keeps the entry well formed and a used code used.            *)
LEMMA RedemptionKeepsUsed ==
    ASSUME PairingTypeOK, NEW k \in QRs
    PROVE  /\ AfterRedemption(k) \in Entry
           /\ codes[k].used => AfterRedemption(k).left = Gone \/ AfterRedemption(k).used
<1> DEFINE c == codes[k]
<1>1. c \in Entry
    BY DEF PairingTypeOK, Entry
<1>2. NoCode \in Entry /\ NoCode.left = Gone
    BY PairingAssumption DEF Entry, NoCode, Gone
<1>3. CASE c.locked > 0
    BY <1>1, <1>3, PairingAssumption DEF AfterRedemption, Entry
<1>4. CASE c.locked = 0 /\ c.used
    <2>1. AfterRedemption(k) =
            [c EXCEPT !.failed = IF @ < MaxCodeFailures THEN @ + 1 ELSE @,
                      !.locked = IF c.failed + 1 >= MaxCodeFailures THEN LockTTL ELSE 0]
        BY <1>4 DEF AfterRedemption
    <2>2. /\ IF c.failed < MaxCodeFailures THEN c.failed + 1 \in 0..MaxCodeFailures
                                           ELSE c.failed \in 0..MaxCodeFailures
          /\ 0 \in 0..LockTTL /\ LockTTL \in 0..LockTTL
        BY <1>1, PairingAssumption DEF Entry
    <2> HIDE DEF c
    <2> QED BY <1>1, <1>4, <2>1, <2>2 DEF Entry
<1>5. CASE c.locked = 0 /\ ~c.used /\ Expired(c.left)
    BY <1>1, <1>2, <1>5 DEF AfterRedemption
<1>6. CASE c.locked = 0 /\ ~c.used /\ ~Expired(c.left)
    BY <1>1, <1>6 DEF AfterRedemption, Entry
<1> QED BY <1>1, <1>3, <1>4, <1>5, <1>6, PairingAssumption DEF Entry

(* Making, redeeming and cleaning up codes: a new token is in its lifetime    *)
(* and a code that paired is not made again.                                 *)
LEMMA CodesPreserve ==
    ASSUME PairingIInv,
           \/ \E k \in QRs : GenerateShortLived(k) \/ GenerateCode(k) \/ RedeemCode(k)
           \/ RedeemUnknown \/ CodeCleanup
    PROVE  PairingIInv'
<1> USE PairingAssumption DEF PairingIInv
<1>w. /\ CodeWindow \in [count : 0..GlobalCodeLimit, over : BOOLEAN]
      /\ FailureWindow \in [count : 0..GlobalFailureLimit, over : BOOLEAN]
    BY DEF PairingTypeOK, CodeWindow, FailureWindow, FreshWindow
<1>n. NoCode \in Entry /\ NoCode.left = Gone /\ [NoCode EXCEPT !.left = CodeTTL] \in Entry
    <2>1. 0 \in 0..MaxCodeFailures /\ 0 \in 0..LockTTL /\ Gone \in 0..Gone /\ CodeTTL \in 0..Gone
        BY DEF Gone
    <2> QED BY <2>1 DEF Entry, NoCode
<1>1. ASSUME NEW k \in QRs, GenerateShortLived(k)
      PROVE  PairingIInv'
    <2>1. PairingTypeOK'
        BY <1>1, <1>w
        DEF PairingTypeOK, GenerateShortLived, Gone, IsGlobalCodeLimitExceeded
    <2>2. OnlyScannedArePresented' /\ PairedAreUsed'
        BY <1>1
        DEF PairingTypeOK, OnlyScannedArePresented, PairedAreUsed, GenerateShortLived
    <2>3. AliveTokensPair'
        BY <1>1 DEF PairingTypeOK, OnlyScannedArePresented, AliveTokensPair, Recorded,
                    GenerateShortLived
    <2> QED BY <2>1, <2>2, <2>3
<1>2. ASSUME NEW k \in QRs, GenerateCode(k)
      PROVE  PairingIInv'
    <2>1. PairingTypeOK'
        BY <1>2, <1>n DEF PairingTypeOK, Entry, GenerateCode
    <2>2. OnlyScannedArePresented' /\ PairedAreUsed'
        BY <1>2 DEF PairingTypeOK, OnlyScannedArePresented, PairedAreUsed, GenerateCode
    <2>3. AliveTokensPair'
        BY <1>2 DEF AliveTokensPair, Recorded, GenerateCode
    <2> QED BY <2>1, <2>2, <2>3
<1>3. ASSUME NEW k \in QRs, RedeemCode(k)
      PROVE  PairingIInv'
    <2>0. /\ codes' = IF Present(k) THEN [codes EXCEPT ![k] = AfterRedemption(k)] ELSE codes
          /\ qrStage' = qrStage \/ qrStage' = [qrStage EXCEPT ![k] = "scanned"]
          /\ UNCHANGED <<tokenLeft, failedAttempts, rateLimited, permanent, generated,
                         pairReq, pairedWith, alive>>
        BY <1>3 DEF RedeemCode
    <2>f. failures' \in [count : 0..GlobalFailureLimit, over : BOOLEAN]
        BY <1>3, <1>w DEF RedeemCode, IsGloballyRateLimited
    <2>1. PairingTypeOK'
        BY <2>0, <2>f, RedemptionKeepsUsed DEF PairingTypeOK, Entry
    <2>2. OnlyScannedArePresented'
        BY <2>0 DEF PairingTypeOK, OnlyScannedArePresented
    <2>3. PairedAreUsed'
        <3>1. \A x \in QRs : \/ codes'[x] = codes[x]
                             \/ x = k /\ Present(k) /\ codes'[k] = AfterRedemption(k)
            BY <2>0 DEF PairingTypeOK
        <3>2. \A x \in pairedWith : x \in QRs /\ qrStage'[x] = "scanned"
            BY <2>0 DEF PairingTypeOK, PairedAreUsed
        <3>3. codes[k].used => AfterRedemption(k).left = Gone \/ AfterRedemption(k).used
            BY RedemptionKeepsUsed
        <3> QED BY <2>0, <3>1, <3>2, <3>3 DEF PairedAreUsed, Present
    <2>4. AliveTokensPair'
        BY <2>0 DEF AliveTokensPair, Recorded
    <2> QED BY <2>1, <2>2, <2>3, <2>4
<1>4. CASE RedeemUnknown
    <2>1. PairingTypeOK'
        BY <1>4, <1>w DEF PairingTypeOK, RedeemUnknown, IsGloballyRateLimited
    <2> QED BY <1>4, <2>1
    DEF OnlyScannedArePresented, PairedAreUsed, AliveTokensPair, Recorded,
                              RedeemUnknown
<1>5. CASE CodeCleanup
    <2>1. PairingTypeOK'
        BY <1>5, <1>n DEF PairingTypeOK, CodeCleanup, Entry
    <2>2. PairedAreUsed'
        BY <1>5, <1>n DEF PairedAreUsed, CodeCleanup
    <2> QED BY <1>5, <2>1, <2>2
    DEF OnlyScannedArePresented, AliveTokensPair, Recorded, CodeCleanup
<1> QED BY <1>1, <1>2, <1>3, <1>4, <1>5

(* A pairing request takes away only the token it recorded, and that one *)
(* leaves a used code behind.                                            *)
LEMMA RequestsPreserve ==
    ASSUME PairingIInv, NEW p \in PairRequests,
           \/ \E t \in Tokens : PairAdmitted(p, t)
           \/ PairRefused(p) \/ PairValidated(p) \/ PairRejected(p)
           \/ PairRecorded(p) \/ PairAnswered(p)
    PROVE  PairingIInv'
<1> USE PairingAssumption DEF PairingIInv
<1>r. pairReq \in [PairRequests -> [token : Tokens \cup {"none"},
                    stage : {"idle", "admitted", "validated", "recorded"}]]
    BY DEF PairingTypeOK
<1>1. ASSUME NEW t \in Tokens, PairAdmitted(p, t)
      PROVE  PairingIInv'
    <2>1. PairingTypeOK'
        BY <1>1 DEF PairingTypeOK, PairAdmitted
    <2>2. OnlyScannedArePresented' /\ PairedAreUsed'
        BY <1>1 DEF PairingTypeOK, OnlyScannedArePresented, PairedAreUsed, PairAdmitted
    <2>3. AliveTokensPair'
        BY <1>1, <1>r DEF AliveTokensPair, Recorded, PairAdmitted
    <2> QED BY <2>1, <2>2, <2>3
<1>2. CASE PairRefused(p)
    <2> DEFINE t == pairReq[p].token
    <2>0. /\ t \in Tokens /\ ~Validate(t)
          /\ pairReq' = [pairReq EXCEPT ![p] = NoRequest]
          /\ pairReq[p].stage = "admitted"
          /\ rateLimited' \in {rateLimited, rateLimited \cup {t}}
          /\ tokenLeft' \in {tokenLeft, [tokenLeft EXCEPT ![t] = Gone]}
          /\ UNCHANGED <<qrStage, permanent, codes, failures, generated, pairedWith, alive>>
        BY <1>2 DEF PairRefused, RecordFailedPairing, OnlyScannedArePresented
    <2>f. failedAttempts' \in [Tokens -> 0..MaxPairingAttempts]
        BY <1>2, <2>0 DEF PairRefused, RecordFailedPairing, PairingTypeOK
    <2>1. PairingTypeOK'
        BY <2>0, <2>f DEF PairingTypeOK, NoRequest, Gone
    <2>2. OnlyScannedArePresented' /\ PairedAreUsed'
        BY <1>r, <2>0 DEF OnlyScannedArePresented, PairedAreUsed, NoRequest
    <2>3. ASSUME NEW k \in alive, k \notin pairedWith, ~Recorded(k)'
          PROVE  k \notin rateLimited' /\ tokenLeft'[k] \in 1..CodeTTL
        <3>1. ~Recorded(k)
            BY <1>r, <2>0, <2>3 DEF Recorded, NoRequest
        <3>2. k \in QRs /\ k \notin rateLimited /\ tokenLeft[k] \in 1..CodeTTL
            BY <2>3, <3>1 DEF AliveTokensPair
        <3>3. k # t
            BY <2>0, <3>2 DEF Validate, ValidateShortLived, Gone
        <3> QED BY <2>0, <3>2, <3>3 DEF PairingTypeOK
    <2> QED BY <2>0, <2>1, <2>2, <2>3 DEF AliveTokensPair
<1>3. CASE PairValidated(p)
    <2>1. PairingTypeOK'
        BY <1>3 DEF PairingTypeOK, PairValidated, Stage
    <2>2. OnlyScannedArePresented' /\ PairedAreUsed'
        BY <1>3, <1>r DEF OnlyScannedArePresented, PairedAreUsed, PairValidated, Stage
    <2>3. \A k : Recorded(k) => Recorded(k)'
        BY <1>3, <1>r DEF Recorded, PairValidated, Stage
    <2> QED BY <1>3, <2>1, <2>2, <2>3 DEF AliveTokensPair, PairValidated
<1>4. CASE PairRejected(p)
    <2>1. PairingTypeOK'
        BY <1>4 DEF PairingTypeOK, PairRejected, NoRequest
    <2>2. OnlyScannedArePresented' /\ PairedAreUsed'
        BY <1>4, <1>r DEF OnlyScannedArePresented, PairedAreUsed, PairRejected, NoRequest
    <2>3. \A k : Recorded(k) => Recorded(k)'
        BY <1>4, <1>r DEF Recorded, PairRejected, NoRequest
    <2> QED BY <1>4, <2>1, <2>2, <2>3 DEF AliveTokensPair, PairRejected
<1>5. CASE PairRecorded(p)
    <2> DEFINE t == pairReq[p].token
    <2>0. /\ t \in Tokens
          /\ pairReq' = [pairReq EXCEPT ![p].stage = "recorded"]
          /\ pairReq[p].stage = "validated"
          /\ rateLimited' = rateLimited \ {t}
          /\ tokenLeft' \in {tokenLeft, [tokenLeft EXCEPT ![t] = Gone]}
          /\ failedAttempts' = [failedAttempts EXCEPT ![t] = 0]
          /\ UNCHANGED <<qrStage, permanent, codes, failures, generated, pairedWith, alive>>
        BY <1>5 DEF PairRecorded, RecordSuccessfulPairing, OnlyScannedArePresented, Stage
    <2>1. PairingTypeOK'
        BY <2>0 DEF PairingTypeOK, Gone
    <2>2. OnlyScannedArePresented' /\ PairedAreUsed'
        BY <1>r, <2>0 DEF OnlyScannedArePresented, PairedAreUsed
    <2>3. Recorded(t)' /\ \A k : Recorded(k) => Recorded(k)'
        BY <1>r, <2>0 DEF Recorded
    <2>4. \A k \in alive : k = t \/ tokenLeft'[k] = tokenLeft[k]
        BY <2>0 DEF PairingTypeOK, AliveTokensPair
    <2> QED BY <2>0, <2>1, <2>2, <2>3, <2>4 DEF AliveTokensPair
<1>6. CASE PairAnswered(p)
    <2> DEFINE t == pairReq[p].token
    <2>0. /\ t \in Tokens /\ (t \in QRs => qrStage[t] = "scanned")
          /\ pairReq' = [pairReq EXCEPT ![p] = NoRequest]
          /\ pairedWith' = pairedWith \cup ({t} \cap QRs)
          /\ codes' = ConsumeByBootstrapToken(t)
          /\ UNCHANGED <<qrStage, tokenLeft, failedAttempts, rateLimited, permanent, failures,
                         generated, alive>>
        BY <1>6 DEF PairAnswered, OnlyScannedArePresented
    <2>1. PairingTypeOK'
        <3>c. codes \in [QRs -> Entry]
            BY DEF PairingTypeOK, Entry
        <3>e. \A k \in QRs : [codes[k] EXCEPT !.used = TRUE] \in Entry
            BY <3>c DEF Entry
        <3>1. codes' \in [QRs -> Entry]
            BY <2>0, <3>c, <3>e DEF ConsumeByBootstrapToken
        <3> QED BY <2>0, <3>1 DEF PairingTypeOK, NoRequest, Entry
    <2>2. OnlyScannedArePresented'
        BY <1>r, <2>0 DEF OnlyScannedArePresented, NoRequest
    <2>3. PairedAreUsed'
        BY <2>0 DEF PairingTypeOK, PairedAreUsed, ConsumeByBootstrapToken
    <2>4. \A k \in QRs : Recorded(k) => Recorded(k)' \/ k = t
        BY <1>r, <2>0 DEF Recorded
    <2> QED BY <2>0, <2>1, <2>2, <2>3, <2>4 DEF AliveTokensPair
<1> QED BY <1>1, <1>2, <1>3, <1>4, <1>5, <1>6

(* Minutes, hours, cleanups, reloads and restarts end lifetimes and make *)
(* no code or token.                                                     *)
LEMMA TimePreserves ==
    ASSUME PairingIInv,
           \/ PairingTick \/ FailureHourEnds \/ CodeHourEnds \/ CleanupExpired
           \/ \E tokens \in SUBSET PermanentTokens : UpdateBootstrapTokens(tokens)
           \/ PairingRestart
    PROVE  PairingIInv'
<1> USE PairingAssumption DEF PairingIInv
<1>1. CASE PairingTick
    <2>0. \A n \in 0..Gone : /\ OneLess(n) \in 0..Gone
                             /\ n = Gone => OneLess(n) = Gone
                             /\ n \in 1..CodeTTL /\ n # 1 => OneLess(n) \in 1..CodeTTL
        BY DEF OneLess, Gone
    <2>1. ASSUME NEW k \in QRs
          PROVE  codes'[k] \in Entry /\ codes'[k].used = codes[k].used
                 /\ codes'[k].left = OneLess(codes[k].left)
        <3> DEFINE c == codes[k]
        <3>1. c \in Entry
            BY DEF PairingTypeOK, Entry
        <3>2. codes'[k] = [c EXCEPT !.left = OneLess(@), !.over = Expired(c.left),
                                    !.locked = IF @ = 0 THEN 0 ELSE @ - 1]
            BY <1>1 DEF PairingTick
        <3>3. /\ IF c.locked = 0 THEN 0 \in 0..LockTTL ELSE c.locked - 1 \in 0..LockTTL
              /\ OneLess(c.left) \in 0..Gone /\ Expired(c.left) \in BOOLEAN
            BY <2>0, <3>1 DEF Entry, Expired
        <3> HIDE DEF c
        <3>4. [c EXCEPT !.left = OneLess(@), !.over = Expired(c.left),
                        !.locked = IF @ = 0 THEN 0 ELSE @ - 1] \in Entry
            BY <3>1, <3>3 DEF Entry
        <3>5. codes'[k].used = c.used /\ codes'[k].left = OneLess(c.left)
            BY <3>1, <3>2 DEF Entry
        <3> QED BY <3>2, <3>4, <3>5 DEF c
    <2>2. PairingTypeOK'
        BY <1>1, <2>0, <2>1 DEF PairingTick, PairingTypeOK, Entry
    <2>3. OnlyScannedArePresented' /\ PairedAreUsed'
        BY <1>1, <2>0, <2>1
        DEF PairingTick, PairingTypeOK, OnlyScannedArePresented, PairedAreUsed
    <2>4. AliveTokensPair'
        BY <1>1, <2>0 DEF PairingTick, PairingTypeOK, AliveTokensPair, Recorded
    <2> QED BY <2>2, <2>3, <2>4
<1>2. CASE FailureHourEnds \/ CodeHourEnds
    <2>1. PairingTypeOK'
        BY <1>2 DEF PairingTypeOK, FailureHourEnds, CodeHourEnds
    <2> QED BY <1>2, <2>1
    DEF OnlyScannedArePresented, PairedAreUsed, AliveTokensPair, Recorded,
                              FailureHourEnds, CodeHourEnds
<1>3. CASE CleanupExpired
    <2>1. PairingTypeOK'
        BY <1>3 DEF PairingTypeOK, CleanupExpired, Gone
    <2>2. AliveTokensPair'
        BY <1>3 DEF AliveTokensPair, Recorded, CleanupExpired, Expired
    <2> QED BY <1>3, <2>1, <2>2 DEF OnlyScannedArePresented, PairedAreUsed, CleanupExpired
<1>4. ASSUME NEW tokens \in SUBSET PermanentTokens, UpdateBootstrapTokens(tokens)
      PROVE  PairingIInv'
    <2>1. PairingTypeOK'
        BY <1>4 DEF PairingTypeOK, UpdateBootstrapTokens, NewBootstrapStore, Gone
    <2> QED BY <1>4, <2>1 DEF OnlyScannedArePresented, PairedAreUsed, AliveTokensPair,
                              UpdateBootstrapTokens, NewBootstrapStore
<1>5. CASE PairingRestart
    <2>1. PairingTypeOK'
        BY <1>5
        DEF PairingTypeOK, PairingRestart, NewBootstrapStore, NewPairingManager, Gone,
                    NoCode, FreshWindow, NoRequest
    <2> QED BY <1>5, <2>1
            DEF PairingTypeOK, OnlyScannedArePresented, PairedAreUsed, AliveTokensPair,
                PairingRestart, NewBootstrapStore, NewPairingManager, NoCode, NoRequest
<1> QED BY <1>1, <1>2, <1>3, <1>4, <1>5

(* Every step keeps the invariant. *)
LEMMA PairingPreserves == PairingIInv /\ [PairingNext]_pairingVars => PairingIInv'
<1> SUFFICES ASSUME PairingIInv, [PairingNext]_pairingVars PROVE PairingIInv'
    OBVIOUS
<1>1. CASE UNCHANGED pairingVars
    BY <1>1 DEF pairingVars, PairingIInv, PairingTypeOK, OnlyScannedArePresented,
                PairedAreUsed, AliveTokensPair, Recorded
<1> QED BY <1>1, CodesPreserve, RequestsPreserve, TimePreserves DEF PairingNext

(* The two stores are empty when the program starts. *)
LEMMA PairingInitially == PairingInit => PairingIInv
<1> SUFFICES ASSUME PairingInit PROVE PairingIInv
    OBVIOUS
<1>1. PairingTypeOK
    BY PairingAssumption
    DEF PairingInit, PairingTypeOK, Gone, NoCode, FreshWindow, NoRequest
<1> QED BY <1>1 DEF PairingInit, PairingIInv, OnlyScannedArePresented, PairedAreUsed,
                    AliveTokensPair, NoRequest

(* A pairing code is good for one pairing: until its token has paired the    *)
(* code can be redeemed again and leads to a token that pairs, and never     *)
(* after, for any number of codes, requests and failures and any limits      *)
(* (RedeemCode, HandlePair, ConsumeByBootstrapToken).                        *)
THEOREM CodesPairOnceHolds == PairingSpec => []CodesPairOnce
<1>1. PairingIInv => PairedCodesAreFinished
    BY DEF PairingIInv, PairedAreUsed, PairedCodesAreFinished, Redeemable, Present
<1>2. PairingIInv => RedeemedCodePairs
    <2> SUFFICES ASSUME PairingIInv, NEW k \in QRs, Redeemable(k), k \in alive, ~Recorded(k)
                 PROVE  Validate(k)
        BY DEF RedeemedCodePairs, Recorded
    <2>1. k \notin pairedWith
        BY <1>1 DEF PairedCodesAreFinished
    <2> QED BY <2>1, PairingAssumption
            DEF PairingIInv, AliveTokensPair, Validate, ValidateShortLived, Gone
<1> QED BY <1>1, <1>2, PairingInitially, PairingPreserves, PTL
DEF PairingSpec, CodesPairOnce

(* The types of the two stores: no counter passes its limit, whatever limits *)
(* are configured (isGlobalCodeLimitExceeded, recordGlobalFailure,           *)
(* RecordFailedPairing).                                                     *)
THEOREM PairingTypeCorrect == PairingSpec => []PairingTypeOK
<1>1. PairingIInv => PairingTypeOK
    BY DEF PairingIInv
<1> QED BY <1>1, PairingInitially, PairingPreserves, PTL DEF PairingSpec

-----------------------------------------------------------------------------
(* Certificates. *)

(* Who is about to write which domain: a request whose certificate is in     *)
(* memory and not yet in the database, or out of memory and not yet out of   *)
(* the database, and a handshake that found nothing usable in memory.        *)
Persists(r, d) == certOps[r].pc = "persist" /\ certOps[r].cert.domain = d
Deletes(r, d) == certOps[r].pc = "row" /\ certOps[r].domain = d
Serves(h, d) == hellos[h].pc \in {"storage", "cache"} /\ hellos[h].domain = d
Requested(r, d) == Persists(r, d) \/ Deletes(r, d)
Written(d) == \/ \E r \in CertOps : Requested(r, d)
              \/ \E h \in Handshakes : Serves(h, d)

(* The fields of what the steps copy, whatever its names are. *)
IsCert(c) == DOMAIN c = {"key", "domain", "names"}
CertsShape ==
  /\ DOMAIN certs = CertNames /\ DOMAIN certRows = CertNames
  /\ \A d \in CertNames : IsCert(certs[d]) /\ IsCert(certRows[d])
  /\ DOMAIN certOps = CertOps
  /\ \A r \in CertOps : /\ DOMAIN certOps[r] = {"pc", "kind", "domain", "cert", "ok"}
                        /\ IsCert(certOps[r].cert)
  /\ DOMAIN hellos = Handshakes
  /\ \A h \in Handshakes : /\ DOMAIN hellos[h] = {"pc", "domain", "cert"}
                           /\ IsCert(hellos[h].cert)
                           /\ hellos[h].pc # "idle" => hellos[h].domain \in CertNames

(* One writer at a time works on a domain that is not contended.             *)
OneWriter(d) ==
  /\ \A r, q \in CertOps : Requested(r, d) /\ Requested(q, d) => r = q
  /\ \A h, g \in Handshakes : Serves(h, d) /\ Serves(g, d) => h = g
  /\ \A r \in CertOps, h \in Handshakes : ~(Requested(r, d) /\ Serves(h, d))

(* What a writer finds where it left it, and what the last one left.         *)
WriterAgrees(d) ==
  /\ \A r \in CertOps : /\ Persists(r, d) => certs[d].key = certOps[r].cert.key
                        /\ Deletes(r, d) => certs[d].key = 0
  /\ \A h \in Handshakes : Serves(h, d) =>
       IF hellos[h].pc = "storage" THEN ~Usable(certs, d)
       ELSE hellos[h].cert.key = certRows[d].key
  /\ ~Written(d) /\ Usable(certs, d) => certs[d].key = certRows[d].key

CertsAgree == \A d \in CertNames : d \in contended \/ (OneWriter(d) /\ WriterAgrees(d))

CertsIInv == CertsShape /\ CertsAgree

(* What is written is under way in the sense of the code.                    *)
LEMMA WrittenIsInWrite ==
    ASSUME NEW d, Written(d)
    PROVE  InWrite(d)
BY DEF Written, Requested, Persists, Deletes, Serves, InWrite

(* What the steps read from the database has the key of the row.             *)
LEMMA ReadingKeepsTheKey ==
    ASSUME NEW row, IsCert(row)
    PROVE  IsCert(ToCertificate(row)) /\ ToCertificate(row).key = row.key
BY DEF IsCert, ToCertificate

(* A new certificate in memory has its request for its only writer, or makes *)
(* its domain contended.                                                     *)
LEMMA InMemoryPreserves ==
    ASSUME CertsIInv, NEW r \in CertOps, certOps[r].pc \notin {"persist", "row"},
           NEW kind, NEW dom, NEW cert, IsCert(cert),
           InMemory(r, kind, dom, cert), UNCHANGED <<certRows, expiredKeys, hellos>>
    PROVE  CertsIInv'
<1>0. /\ certs' = [certs EXCEPT ![cert.domain] = cert]
      /\ certOps' = [certOps EXCEPT ![r] = [pc |-> "persist", kind |-> kind, domain |-> dom,
                                            cert |-> cert, ok |-> FALSE]]
      /\ contended' = IF InWrite(cert.domain) THEN contended \cup {cert.domain} ELSE contended
      /\ UNCHANGED <<certRows, expiredKeys, hellos>>
    BY DEF InMemory, Touch
<1>1. CertsShape'
    BY <1>0 DEF CertsIInv, CertsShape, IsCert
<1>2. ASSUME NEW d \in CertNames, d \notin contended'
      PROVE  OneWriter(d)' /\ WriterAgrees(d)'
    <2>1. d \notin contended /\ OneWriter(d) /\ WriterAgrees(d)
        BY <1>0, <1>2 DEF CertsIInv, CertsAgree
    <2>2. /\ \A q \in CertOps \ {r} : /\ Persists(q, d)' <=> Persists(q, d)
                                      /\ Deletes(q, d)' <=> Deletes(q, d)
                                      /\ certOps'[q] = certOps[q]
          /\ \A h \in Handshakes : Serves(h, d)' <=> Serves(h, d)
          /\ ~Requested(r, d) /\ ~Deletes(r, d)'
          /\ Persists(r, d)' <=> cert.domain = d
        BY <1>0 DEF CertsIInv, CertsShape, Persists, Deletes, Requested, Serves
    <2>3. CASE cert.domain = d
        <3>1. ~Written(d)
            BY <1>0, <1>2, <2>3, WrittenIsInWrite
        <3>2. /\ \A q \in CertOps : Requested(q, d)' => q = r
              /\ \A h \in Handshakes : ~Serves(h, d)'
              /\ Requested(r, d)' /\ ~Deletes(r, d)'
            BY <2>2, <2>3, <3>1 DEF Written, Requested
        <3>3. certs'[d].key = certOps'[r].cert.key
            BY <1>0, <2>3 DEF CertsIInv, CertsShape
        <3>4. OneWriter(d)'
            BY <3>2 DEF OneWriter
        <3>5. WriterAgrees(d)'
            BY <3>2, <3>3 DEF WriterAgrees, Written, Requested
        <3> QED BY <3>4, <3>5
    <2>4. CASE cert.domain # d
        <3>1. certs'[d] = certs[d] /\ (Usable(certs, d)' <=> Usable(certs, d))
            BY <1>0, <2>4 DEF Usable, Has, IsExpired
        <3>2. OneWriter(d)'
            BY <2>1, <2>2, <2>4 DEF OneWriter, Requested
        <3>3. Written(d)' <=> Written(d)
            BY <2>2, <2>4 DEF Written, Requested
        <3>4. WriterAgrees(d)'
            BY <1>0, <2>1, <2>2, <2>4, <3>1, <3>3 DEF WriterAgrees
        <3> QED BY <3>2, <3>4
    <2> QED BY <2>3, <2>4
<1> QED BY <1>1, <1>2 DEF CertsIInv, CertsAgree

(* A request that starts or gives up writes nothing yet.                     *)
LEMMA IdleRequestPreserves ==
    ASSUME CertsIInv, NEW r \in CertOps, certOps[r].pc \notin {"persist", "row"},
           NEW op, DOMAIN op = {"pc", "kind", "domain", "cert", "ok"}, IsCert(op.cert),
           op.pc \notin {"persist", "row"}, certOps' = [certOps EXCEPT ![r] = op],
           UNCHANGED <<certs, certRows, expiredKeys, hellos, contended>>
    PROVE  CertsIInv'
<1>1. CertsShape'
    BY DEF CertsIInv, CertsShape
<1>2. ASSUME NEW d \in CertNames
      PROVE  /\ \A q \in CertOps : /\ Persists(q, d)' <=> Persists(q, d)
                                   /\ Deletes(q, d)' <=> Deletes(q, d)
                                   /\ Persists(q, d) => certOps'[q] = certOps[q]
             /\ \A h \in Handshakes : Serves(h, d)' <=> Serves(h, d)
    BY DEF CertsIInv, CertsShape, Persists, Deletes, Serves
<1>3. ASSUME NEW d \in CertNames
      PROVE  /\ OneWriter(d) => OneWriter(d)'
             /\ WriterAgrees(d) => WriterAgrees(d)'
    BY <1>2 DEF OneWriter, WriterAgrees, Written, Requested, Usable, Has, IsExpired
<1> QED BY <1>1, <1>3 DEF CertsIInv, CertsAgree

(* A renewal reads, and then makes a certificate under the first name it *)
(* read.                                                                 *)
LEMMA RenewPreserves ==
    ASSUME CertsIInv, NEW r \in CertOps, RenewReads(r) \/ RenewGenerates(r)
    PROVE  CertsIInv'
<1>1. CASE RenewReads(r)
    <2>1. PICK d \in CertNames :
            certOps' = [certOps EXCEPT ![r] =
                [pc |-> "make", kind |-> "renew", domain |-> d, ok |-> FALSE,
                 cert |-> IF Has(certs, d) THEN certs[d] ELSE ToCertificate(certRows[d])]]
        BY <1>1 DEF RenewReads
    <2>2. IsCert(IF Has(certs, d) THEN certs[d] ELSE ToCertificate(certRows[d]))
        BY ReadingKeepsTheKey DEF CertsIInv, CertsShape
    <2> DEFINE op == [pc |-> "make", kind |-> "renew", domain |-> d, ok |-> FALSE,
                      cert |-> IF Has(certs, d) THEN certs[d] ELSE ToCertificate(certRows[d])]
    <2>3. /\ DOMAIN op = {"pc", "kind", "domain", "cert", "ok"} /\ IsCert(op.cert)
          /\ op.pc \notin {"persist", "row"}
        BY <2>2
    <2>4. /\ certOps[r].pc \notin {"persist", "row"}
          /\ UNCHANGED <<certs, certRows, expiredKeys, hellos, contended>>
        BY <1>1 DEF RenewReads
    <2> HIDE DEF op
    <2> QED BY <2>1, <2>3, <2>4, IdleRequestPreserves DEF op
<1>2. CASE RenewGenerates(r) /\ certOps[r].cert.names = <<>>
    <2> DEFINE op == [certOps[r] EXCEPT !.pc = "done"]
    <2>1. /\ DOMAIN op = {"pc", "kind", "domain", "cert", "ok"} /\ IsCert(op.cert)
          /\ op.pc \notin {"persist", "row"}
        BY DEF CertsIInv, CertsShape
    <2>2. /\ certOps[r].pc \notin {"persist", "row"}
          /\ certOps' = [certOps EXCEPT ![r] = op]
          /\ UNCHANGED <<certs, certRows, expiredKeys, hellos, contended>>
        BY <1>2 DEF RenewGenerates
    <2> HIDE DEF op
    <2> QED BY <2>1, <2>2, IdleRequestPreserves
<1>3. CASE RenewGenerates(r) /\ certOps[r].cert.names # <<>>
    <2> DEFINE names == certOps[r].cert.names
               cert == [key |-> nextKey, domain |-> names[1], names |-> names]
    <2>1. IsCert(cert)
        BY DEF IsCert
    <2>2. /\ certOps[r].pc \notin {"persist", "row"}
          /\ InMemory(r, "renew", certOps[r].domain, cert)
          /\ UNCHANGED <<certRows, expiredKeys, hellos>>
        BY <1>3 DEF RenewGenerates
    <2> HIDE DEF cert
    <2> QED BY <2>1, <2>2, InMemoryPreserves
<1> QED BY <1>1, <1>2, <1>3

(* A generated and a replaced certificate are in memory first. *)
LEMMA NewCertificatePreserves ==
    ASSUME CertsIInv, NEW r \in CertOps, HandleGenerate(r) \/ HandleReplace(r)
    PROVE  CertsIInv'
<1>1. PICK kind, dom, cert : /\ IsCert(cert) /\ InMemory(r, kind, dom, cert)
                             /\ UNCHANGED <<certRows, expiredKeys, hellos>>
    BY DEF HandleGenerate, HandleReplace, IsCert
<1>2. certOps[r].pc \notin {"persist", "row"}
    BY DEF HandleGenerate, HandleReplace
<1> QED BY <1>1, <1>2, InMemoryPreserves

(* The row is written as the certificate is in memory, or its domain is      *)
(* contended.                                                                *)
LEMMA PersistPreserves ==
    ASSUME CertsIInv, NEW r \in CertOps, Persist(r)
    PROVE  CertsIInv'
<1> DEFINE x == certOps[r].cert.domain
<1>0. /\ certOps[r].pc = "persist"
      /\ certOps' = [certOps EXCEPT ![r].pc = "done", ![r].ok = TRUE]
      /\ \/ certRows' = [certRows EXCEPT ![x] = certOps[r].cert] /\ contended' = contended
         \/ certRows' = certRows /\ contended' = contended \cup {x}
      /\ UNCHANGED <<certs, expiredKeys, hellos>>
    BY DEF Persist
<1>1. CertsShape'
    BY <1>0 DEF CertsIInv, CertsShape, IsCert
<1>2. ASSUME NEW d \in CertNames, d \notin contended'
      PROVE  OneWriter(d)' /\ WriterAgrees(d)'
    <2>1. d \notin contended /\ OneWriter(d) /\ WriterAgrees(d)
        BY <1>0, <1>2 DEF CertsIInv, CertsAgree
    <2>2. /\ \A q \in CertOps \ {r} : /\ Persists(q, d)' <=> Persists(q, d)
                                      /\ Deletes(q, d)' <=> Deletes(q, d)
                                      /\ certOps'[q] = certOps[q]
          /\ \A h \in Handshakes : (Serves(h, d)' <=> Serves(h, d)) /\ hellos'[h] = hellos[h]
          /\ ~Persists(r, d)' /\ ~Deletes(r, d)' /\ ~Deletes(r, d)
          /\ Persists(r, d) <=> x = d
          /\ certs'[d] = certs[d] /\ (Usable(certs, d)' <=> Usable(certs, d))
        BY <1>0
        DEF CertsIInv, CertsShape, Persists, Deletes, Serves, Usable, Has, IsExpired
    <2>3. OneWriter(d)'
        BY <2>1, <2>2 DEF OneWriter, Requested
    <2>4. CASE x = d
        <3>1. certRows'[d].key = certs[d].key
            BY <1>0, <1>2, <2>1, <2>2, <2>4 DEF WriterAgrees, CertsIInv, CertsShape
        <3>2. /\ \A q \in CertOps : ~Requested(q, d)'
              /\ \A h \in Handshakes : ~Serves(h, d)'
            BY <2>1, <2>2, <2>4 DEF OneWriter, Requested
        <3>3. WriterAgrees(d)'
            BY <2>2, <3>1, <3>2 DEF WriterAgrees, Requested
        <3> QED BY <2>3, <3>3
    <2>5. CASE x # d
        <3>1. certRows'[d] = certRows[d]
            BY <1>0, <2>5 DEF CertsIInv, CertsShape
        <3>2. Written(d)' <=> Written(d)
            BY <2>2, <2>5 DEF Written, Requested
        <3>3. WriterAgrees(d)'
            BY <2>1, <2>2, <2>5, <3>1, <3>2 DEF WriterAgrees
        <3> QED BY <2>3, <3>3
    <2> QED BY <2>4, <2>5
<1> QED BY <1>1, <1>2 DEF CertsIInv, CertsAgree

(* The certificate leaves the memory and the row follows.                    *)
LEMMA DeletePreserves ==
    ASSUME CertsIInv, NEW r \in CertOps, HandleDelete(r)
    PROVE  CertsIInv'
<1>0. PICK x \in CertNames :
        /\ certOps[r].pc \notin {"persist", "row"}
        /\ certs' = [certs EXCEPT ![x] = NoCert]
        /\ certOps' = [certOps EXCEPT ![r] = [pc |-> "row", kind |-> "delete", domain |-> x,
                                              cert |-> certs[x], ok |-> FALSE]]
        /\ contended' = IF InWrite(x) THEN contended \cup {x} ELSE contended
        /\ UNCHANGED <<certRows, expiredKeys, hellos>>
    BY DEF HandleDelete, MemoryAfterDelete, Touch
<1>1. CertsShape'
    BY <1>0 DEF CertsIInv, CertsShape, IsCert, NoCert
<1>2. ASSUME NEW d \in CertNames, d \notin contended'
      PROVE  OneWriter(d)' /\ WriterAgrees(d)'
    <2>1. d \notin contended /\ OneWriter(d) /\ WriterAgrees(d)
        BY <1>0, <1>2 DEF CertsIInv, CertsAgree
    <2>2. /\ \A q \in CertOps \ {r} : /\ Persists(q, d)' <=> Persists(q, d)
                                      /\ Deletes(q, d)' <=> Deletes(q, d)
                                      /\ certOps'[q] = certOps[q]
          /\ \A h \in Handshakes : Serves(h, d)' <=> Serves(h, d)
          /\ ~Requested(r, d) /\ ~Persists(r, d)'
          /\ Deletes(r, d)' <=> x = d
        BY <1>0 DEF CertsIInv, CertsShape, Persists, Deletes, Requested, Serves
    <2>3. CASE x = d
        <3>1. ~Written(d)
            BY <1>0, <1>2, <2>3, WrittenIsInWrite
        <3>2. /\ \A q \in CertOps : Requested(q, d)' => q = r
              /\ \A h \in Handshakes : ~Serves(h, d)'
              /\ Requested(r, d)' /\ ~Persists(r, d)'
            BY <2>2, <2>3, <3>1 DEF Written, Requested
        <3>3. certs'[d].key = 0
            BY <1>0, <2>3 DEF CertsIInv, CertsShape, NoCert
        <3>4. OneWriter(d)'
            BY <3>2 DEF OneWriter
        <3>5. WriterAgrees(d)'
            BY <3>2, <3>3 DEF WriterAgrees, Written, Requested
        <3> QED BY <3>4, <3>5
    <2>4. CASE x # d
        <3>1. certs'[d] = certs[d] /\ (Usable(certs, d)' <=> Usable(certs, d))
            BY <1>0, <2>4 DEF CertsIInv, CertsShape, Usable, Has, IsExpired
        <3>2. OneWriter(d)'
            BY <2>1, <2>2, <2>4 DEF OneWriter, Requested
        <3>3. Written(d)' <=> Written(d)
            BY <2>2, <2>4 DEF Written, Requested
        <3>4. WriterAgrees(d)'
            BY <1>0, <2>1, <2>2, <2>4, <3>1, <3>3 DEF WriterAgrees
        <3> QED BY <3>2, <3>4
    <2> QED BY <2>3, <2>4
<1> QED BY <1>1, <1>2 DEF CertsIInv, CertsAgree

(* The row goes, and nothing usable is in memory. *)
LEMMA DeleteRowPreserves ==
    ASSUME CertsIInv, NEW r \in CertOps, DeleteRow(r)
    PROVE  CertsIInv'
<1> DEFINE x == certOps[r].domain
<1>0. /\ certOps[r].pc = "row"
      /\ certOps' = [certOps EXCEPT ![r].pc = "done", ![r].ok = Has(certRows, x)]
      /\ certRows' = [certRows EXCEPT ![x] = NoCert]
      /\ UNCHANGED <<certs, expiredKeys, hellos, contended>>
    BY DEF DeleteRow
<1>1. CertsShape'
    BY <1>0 DEF CertsIInv, CertsShape, IsCert, NoCert
<1>2. ASSUME NEW d \in CertNames, d \notin contended'
      PROVE  OneWriter(d)' /\ WriterAgrees(d)'
    <2>1. d \notin contended /\ OneWriter(d) /\ WriterAgrees(d)
        BY <1>0, <1>2 DEF CertsIInv, CertsAgree
    <2>2. /\ \A q \in CertOps \ {r} : /\ Persists(q, d)' <=> Persists(q, d)
                                      /\ Deletes(q, d)' <=> Deletes(q, d)
                                      /\ certOps'[q] = certOps[q]
          /\ \A h \in Handshakes : (Serves(h, d)' <=> Serves(h, d)) /\ hellos'[h] = hellos[h]
          /\ ~Persists(r, d)' /\ ~Deletes(r, d)' /\ ~Persists(r, d)
          /\ Deletes(r, d) <=> x = d
          /\ certs'[d] = certs[d] /\ (Usable(certs, d)' <=> Usable(certs, d))
        BY <1>0
        DEF CertsIInv, CertsShape, Persists, Deletes, Serves, Usable, Has, IsExpired
    <2>3. OneWriter(d)'
        BY <2>1, <2>2 DEF OneWriter, Requested
    <2>4. CASE x = d
        <3>1. ~Usable(certs, d)'
            BY <2>1, <2>2, <2>4 DEF WriterAgrees, Usable, Has
        <3>2. /\ \A q \in CertOps : ~Requested(q, d)'
              /\ \A h \in Handshakes : ~Serves(h, d)'
            BY <2>1, <2>2, <2>4 DEF OneWriter, Requested
        <3>3. WriterAgrees(d)'
            BY <3>1, <3>2 DEF WriterAgrees, Requested
        <3> QED BY <2>3, <3>3
    <2>5. CASE x # d
        <3>1. certRows'[d] = certRows[d]
            BY <1>0, <2>5 DEF CertsIInv, CertsShape
        <3>2. Written(d)' <=> Written(d)
            BY <2>2, <2>5 DEF Written, Requested
        <3>3. WriterAgrees(d)'
            BY <2>1, <2>2, <2>5, <3>1, <3>2 DEF WriterAgrees
        <3> QED BY <2>3, <3>3
    <2> QED BY <2>4, <2>5
<1> QED BY <1>1, <1>2 DEF CertsIInv, CertsAgree

(* A handshake that goes on looks at a domain nobody else writes, or makes   *)
(* it contended.                                                             *)
LEMMA HelloLooksUpPreserves ==
    ASSUME CertsIInv, NEW h \in Handshakes, NEW x \in CertNames, HelloLooksUp(h, x)
    PROVE  CertsIInv'
<1>0. /\ hellos[h].pc = "idle" /\ ~Usable(certs, x)
      /\ hellos' = [hellos EXCEPT ![h] = [pc |-> "storage", domain |-> x, cert |-> NoCert]]
      /\ contended' = IF InWrite(x) THEN contended \cup {x} ELSE contended
      /\ UNCHANGED <<certs, certRows, expiredKeys, certOps>>
    BY DEF HelloLooksUp, Touch
<1>1. CertsShape'
    BY <1>0 DEF CertsIInv, CertsShape, IsCert, NoCert
<1>2. ASSUME NEW d \in CertNames, d \notin contended'
      PROVE  OneWriter(d)' /\ WriterAgrees(d)'
    <2>1. d \notin contended /\ OneWriter(d) /\ WriterAgrees(d)
        BY <1>0, <1>2 DEF CertsIInv, CertsAgree
    <2>2. /\ \A q \in CertOps : /\ Persists(q, d)' <=> Persists(q, d)
                                /\ Deletes(q, d)' <=> Deletes(q, d)
                                /\ Requested(q, d)' <=> Requested(q, d)
          /\ \A g \in Handshakes \ {h} : (Serves(g, d)' <=> Serves(g, d)) /\ hellos'[g] = hellos[g]
          /\ ~Serves(h, d) /\ (Serves(h, d)' <=> x = d)
          /\ hellos'[h].pc = "storage"
          /\ Usable(certs, d)' <=> Usable(certs, d)
        BY <1>0
        DEF CertsIInv, CertsShape, Persists, Deletes, Requested, Serves, Usable, Has,
            IsExpired
    <2>3. CASE x = d
        <3>1. ~Written(d)
            BY <1>0, <1>2, <2>3, WrittenIsInWrite
        <3>2. /\ \A q \in CertOps : ~Requested(q, d)'
              /\ \A g \in Handshakes : Serves(g, d)' => g = h
              /\ Serves(h, d)'
            BY <2>2, <2>3, <3>1 DEF Written
        <3>3. OneWriter(d)'
            BY <3>2 DEF OneWriter
        <3>4. WriterAgrees(d)'
            BY <1>0, <2>2, <2>3, <3>2 DEF WriterAgrees, Written, Requested
        <3> QED BY <3>3, <3>4
    <2>4. CASE x # d
        <3>1. OneWriter(d)'
            BY <2>1, <2>2, <2>4 DEF OneWriter
        <3>2. Written(d)' <=> Written(d)
            BY <2>2, <2>4 DEF Written
        <3>3. WriterAgrees(d)'
            BY <1>0, <2>1, <2>2, <2>4, <3>2 DEF WriterAgrees
        <3> QED BY <3>1, <3>3
    <2> QED BY <2>3, <2>4
<1> QED BY <1>1, <1>2 DEF CertsIInv, CertsAgree

(* A handshake gives up, or goes on with what the row says.                  *)
LEMMA HelloReadPreserves ==
    ASSUME CertsIInv, NEW h \in Handshakes, hellos[h].pc = "storage",
           NEW next, DOMAIN next = {"pc", "domain", "cert"}, IsCert(next.cert),
           \/ next.pc = "idle"
           \/ /\ next.pc = "cache" /\ next.domain = hellos[h].domain
              /\ next.cert.key = certRows[next.domain].key,
           hellos' = [hellos EXCEPT ![h] = next],
           UNCHANGED <<certs, certRows, expiredKeys, certOps, contended>>
    PROVE  CertsIInv'
<1>1. CertsShape'
    BY DEF CertsIInv, CertsShape
<1>2. ASSUME NEW d \in CertNames, d \notin contended'
      PROVE  OneWriter(d)' /\ WriterAgrees(d)'
    <2>1. OneWriter(d) /\ WriterAgrees(d)
        BY <1>2 DEF CertsIInv, CertsAgree
    <2>2. /\ \A q \in CertOps : /\ Persists(q, d)' <=> Persists(q, d)
                                /\ Deletes(q, d)' <=> Deletes(q, d)
                                /\ Requested(q, d)' <=> Requested(q, d)
          /\ \A g \in Handshakes \ {h} : (Serves(g, d)' <=> Serves(g, d)) /\ hellos'[g] = hellos[g]
          /\ Usable(certs, d)' <=> Usable(certs, d)
        BY DEF CertsIInv, CertsShape, Persists, Deletes, Requested, Serves, Usable, Has,
               IsExpired
    <2>3. /\ Serves(h, d)' => Serves(h, d)
          /\ Serves(h, d)' => hellos'[h].pc = "cache" /\ hellos'[h].cert.key = certRows[d].key
        BY DEF CertsIInv, CertsShape, Serves
    <2>4. Serves(h, d) => ~Usable(certs, d)
        BY <2>1 DEF WriterAgrees
    <2>5. OneWriter(d)'
        BY <2>1, <2>2, <2>3 DEF OneWriter
    <2>6. WriterAgrees(d)'
        BY <2>1, <2>2, <2>3, <2>4 DEF WriterAgrees, Written
    <2> QED BY <2>5, <2>6
<1> QED BY <1>1, <1>2 DEF CertsIInv, CertsAgree

(* What the handshake read is still the row when it is kept in memory.       *)
LEMMA HelloGoesOnPreserves ==
    ASSUME CertsIInv, NEW h \in Handshakes, HelloReadsStorage(h) \/ HelloCaches(h)
    PROVE  CertsIInv'
<1> DEFINE x == hellos[h].domain
<1>a. ASSUME NEW d
      PROVE  \A q \in CertOps : /\ Persists(q, d)' <=> Persists(q, d)
                                /\ Deletes(q, d)' <=> Deletes(q, d)
                                /\ Requested(q, d)' <=> Requested(q, d)
    BY DEF Persists, Deletes, Requested, HelloReadsStorage, HelloCaches
<1>1. CASE HelloReadsStorage(h)
    <2> DEFINE read == ToCertificate(certRows[x])
               next == IF Usable(certRows, x) THEN [pc |-> "cache", domain |-> x, cert |-> read]
                       ELSE NoHello
    <2>0. /\ hellos[h].pc = "storage"
          /\ hellos' = [hellos EXCEPT ![h] = next]
          /\ UNCHANGED <<certs, certRows, expiredKeys, certOps, contended>>
        BY <1>1 DEF HelloReadsStorage
    <2>1. IsCert(read) /\ read.key = certRows[x].key
        BY <2>0, ReadingKeepsTheKey DEF CertsIInv, CertsShape
    <2> HIDE DEF read
    <2>2. /\ DOMAIN next = {"pc", "domain", "cert"} /\ IsCert(next.cert)
          /\ \/ next.pc = "idle"
             \/ /\ next.pc = "cache" /\ next.domain = x
                /\ next.cert.key = certRows[next.domain].key
        BY <2>1 DEF NoHello, NoCert, IsCert
    <2> HIDE DEF next
    <2> QED BY <2>0, <2>2, HelloReadPreserves
<1>2. CASE HelloCaches(h)
    <2>0. /\ hellos[h].pc = "cache"
          /\ certs' = [certs EXCEPT ![x] = hellos[h].cert]
          /\ hellos' = [hellos EXCEPT ![h] = NoHello]
          /\ UNCHANGED <<certRows, expiredKeys, certOps, contended>>
        BY <1>2 DEF HelloCaches
    <2>1. CertsShape'
        BY <2>0 DEF CertsIInv, CertsShape, IsCert, NoHello, NoCert
    <2>2. ASSUME NEW d \in CertNames, d \notin contended'
          PROVE  OneWriter(d)' /\ WriterAgrees(d)'
        <3>1. OneWriter(d) /\ WriterAgrees(d)
            BY <2>0, <2>2 DEF CertsIInv, CertsAgree
        <3>2. /\ \A g \in Handshakes \ {h} : (Serves(g, d)' <=> Serves(g, d)) /\ hellos'[g] = hellos[g]
              /\ ~Serves(h, d)'
              /\ Serves(h, d) <=> x = d
            BY <2>0 DEF CertsIInv, CertsShape, Serves, NoHello
        <3>3. OneWriter(d)'
            BY <1>a, <3>1, <3>2 DEF OneWriter
        <3>4. CASE x = d
            <4>1. certs'[d].key = certRows'[d].key
                BY <2>0, <3>1, <3>2, <3>4 DEF CertsIInv, CertsShape, WriterAgrees
            <4>2. /\ \A q \in CertOps : ~Requested(q, d)'
                  /\ \A g \in Handshakes : ~Serves(g, d)'
                BY <1>a, <3>1, <3>2, <3>4 DEF OneWriter
            <4> QED BY <3>3, <4>1, <4>2 DEF WriterAgrees, Requested
        <3>5. CASE x # d
            <4>1. certs'[d] = certs[d] /\ (Usable(certs, d)' <=> Usable(certs, d))
                BY <2>0, <3>5 DEF CertsIInv, CertsShape, Usable, Has, IsExpired
            <4>2. Written(d)' <=> Written(d)
                BY <1>a, <3>2, <3>5 DEF Written
            <4>3. WriterAgrees(d)'
                BY <1>a, <2>0, <3>1, <3>2, <3>5, <4>1, <4>2 DEF WriterAgrees
            <4> QED BY <3>3, <4>3
        <3> QED BY <3>4, <3>5
    <2> QED BY <2>1, <2>2 DEF CertsIInv, CertsAgree
<1> QED BY <1>1, <1>2

(* An expiry makes certificates unusable and writes nothing. *)
LEMMA ExpiryPreserves ==
    ASSUME CertsIInv, NEW k, CertificateExpires(k)
    PROVE  CertsIInv'
<1>1. CertsShape'
    BY DEF CertsIInv, CertsShape, CertificateExpires
<1>2. ASSUME NEW d \in CertNames
      PROVE  /\ \A q \in CertOps : (Persists(q, d)' <=> Persists(q, d)) /\ (Deletes(q, d)' <=> Deletes(q, d))
             /\ \A h \in Handshakes : Serves(h, d)' <=> Serves(h, d)
             /\ Usable(certs, d)' => Usable(certs, d)
    BY DEF CertificateExpires, Persists, Deletes, Serves, Usable, Has, IsExpired
<1>3. ASSUME NEW d \in CertNames
      PROVE  /\ OneWriter(d) => OneWriter(d)'
             /\ WriterAgrees(d) => WriterAgrees(d)'
    BY <1>2 DEF OneWriter, WriterAgrees, Written, Requested, CertificateExpires
<1> QED BY <1>1, <1>3 DEF CertsIInv, CertsAgree, CertificateExpires

(* A restart loads the memory from the database and ends every writer.       *)
LEMMA CertificatesRestartPreserves ==
    ASSUME CertsIInv, CertificatesRestart
    PROVE  CertsIInv'
<1>0. /\ certs' = LoadCertificates
      /\ certOps' = [r \in CertOps |-> NoOp]
      /\ hellos' = [h \in Handshakes |-> NoHello]
      /\ UNCHANGED <<certRows, expiredKeys>>
    BY DEF CertificatesRestart
<1>1. ASSUME NEW d \in CertNames
      PROVE  IsCert(certs'[d]) /\ (certs'[d].key = certRows[d].key \/ certs'[d].key = 0)
    BY <1>0, ReadingKeepsTheKey
    DEF CertsIInv, CertsShape, LoadCertificates, NoCert, IsCert
<1>2. CertsShape'
    BY <1>0, <1>1
    DEF CertsIInv, CertsShape, LoadCertificates, NoOp, NoHello, NoCert, IsCert
<1>3. ASSUME NEW d \in CertNames
      PROVE  /\ \A q \in CertOps : ~Persists(q, d)' /\ ~Deletes(q, d)'
             /\ \A h \in Handshakes : ~Serves(h, d)'
    BY <1>0 DEF Persists, Deletes, Serves, NoOp, NoHello
<1>4. CertsAgree'
    BY <1>0, <1>1, <1>3 DEF CertsAgree, OneWriter, WriterAgrees, Requested, Usable, Has
<1> QED BY <1>2, <1>4 DEF CertsIInv

(* Every step keeps the invariant. *)
LEMMA CertificatesPreserve ==
    CertsIInv /\ [CertificatesNext]_certVars => CertsIInv'
<1> SUFFICES ASSUME CertsIInv, [CertificatesNext]_certVars PROVE CertsIInv'
    OBVIOUS
<1>1. CASE UNCHANGED certVars
    BY <1>1 DEF certVars, CertsIInv, CertsShape, CertsAgree, OneWriter, WriterAgrees,
                Written, Requested, Persists, Deletes, Serves, Usable, Has, IsExpired
<1>2. CASE CertificatesNext
    BY <1>2, NewCertificatePreserves, RenewPreserves, PersistPreserves, DeletePreserves,
       DeleteRowPreserves, HelloLooksUpPreserves, HelloGoesOnPreserves, ExpiryPreserves,
       CertificatesRestartPreserves
    DEF CertificatesNext
<1> QED BY <1>1, <1>2

(* Memory and database are empty at first. *)
LEMMA CertificatesInitially == CertificatesInit => CertsIInv
<1> SUFFICES ASSUME CertificatesInit PROVE CertsIInv
    OBVIOUS
<1>1. CertsShape
    BY DEF CertificatesInit, CertsShape, IsCert, NoCert, NoOp, NoHello
<1>2. ASSUME NEW d \in CertNames
      PROVE  /\ \A q \in CertOps : ~Persists(q, d) /\ ~Deletes(q, d)
             /\ \A h \in Handshakes : ~Serves(h, d)
             /\ ~Usable(certs, d)
    BY DEF CertificatesInit, Persists, Deletes, Serves, Usable, Has, NoCert, NoOp, NoHello
<1>3. CertsAgree
    BY <1>2 DEF CertsAgree, OneWriter, WriterAgrees, Requested
<1> QED BY <1>1, <1>3 DEF CertsIInv

(* The certificate in memory is the one of the database wherever requests    *)
(* and handshakes did not overlap and no write failed, for any number of     *)
(* them and of names: what clients pin survives a restart (Manager.Generate, *)
(* Renew, Replace, Delete, GetCertificate).                                  *)
THEOREM MemoryIsPersistedHolds == CertificatesSpec => []MemoryIsPersisted
<1>1. CertsIInv => MemoryIsPersisted
    BY WrittenIsInWrite DEF CertsIInv, CertsAgree, WriterAgrees, MemoryIsPersisted
<1> QED BY <1>1, CertificatesInitially, CertificatesPreserve, PTL DEF CertificatesSpec

(* What a certificate waits for its row under, and a handshake asks for, is a *)
(* local name.                                                               *)
WritesAreFiled ==
    /\ \A r \in CertOps : certOps[r].pc = "persist" => certOps[r].cert.domain \in CertNames
    /\ \A h \in Handshakes : hellos[h].pc # "idle" => hellos[h].domain \in CertNames


CertOperation == [pc : {"idle", "make", "persist", "row", "done"},
              kind : {"generate", "renew", "replace", "delete"},
              domain : CertNames \cup {""}, cert : Cert, ok : BOOLEAN]
CertHello == [pc : {"idle", "storage", "cache"}, domain : CertNames \cup {""}, cert : Cert]

(* The type invariant in parts. *)
CertTables == certs \in [CertNames -> Cert] /\ certRows \in [CertNames -> Cert]
CertWork == certOps \in [CertOps -> CertOperation] /\ hellos \in [Handshakes -> CertHello]
CertCounters ==
    /\ expiredKeys \subseteq 1..MaxKeys /\ nextKey \in 1..(MaxKeys + 1)
    /\ repairs \subseteq {"certificate_rotated", "certificate_replaced", "certificate_deleted"}
    /\ contended \subseteq CertNames /\ certFaults \in 0..MaxCertFaults

CertTypeInv == CertTables /\ CertWork /\ CertCounters /\ WritesAreFiled

(* The parts make up the type invariant. *)
LEMMA CertificatesTypes == CertificatesTypeOK <=> CertTables /\ CertWork /\ CertCounters
BY DEF CertificatesTypeOK, CertTables, CertWork, CertCounters, CertOperation, CertHello

(* A list of names has one name or two, or none when it was read back, and   *)
(* its first is a local name.                                                *)
LEMMA NameListsAreShort ==
    ASSUME NEW names \in NameLists
    PROVE  /\ names[1] \in CertNames /\ names # <<>>
           /\ DOMAIN names = {1} \/ DOMAIN names = {1, 2}
           /\ \A i \in DOMAIN names : names[i] \in CertNames
<1>1. PICK a \in CertNames, b \in CertNames : names = <<a>> \/ names = <<a, b>>
    BY DEF NameLists
<1>2. CASE names = <<a>>
    BY <1>2
<1>3. CASE names = <<a, b>>
    BY <1>3
<1> QED BY <1>1, <1>2, <1>3

(* What is read back from the database is a certificate again, with DNS      *)
(* names only.                                                               *)
LEMMA ReadBackIsACertificate ==
    ASSUME NEW row \in Cert
    PROVE  ToCertificate(row) \in Cert
<1> DEFINE dns == {i \in DOMAIN row.names : row.names[i] \in DnsNames}
           only == CHOOSE i \in dns : TRUE
           left == IF dns = {} THEN <<>> ELSE IF dns = DOMAIN row.names THEN row.names
                   ELSE <<row.names[only]>>
<1>1. /\ row.key \in 0..MaxKeys /\ row.domain \in CertNames \cup {""}
      /\ row.names \in NameLists \cup {<<>>}
      /\ DOMAIN row = {"key", "domain", "names"}
    BY DEF Cert
<1>2. left \in NameLists \cup {<<>>}
    <2>1. CASE dns = {} \/ dns = DOMAIN row.names
        BY <1>1, <2>1
    <2>2. CASE dns # {} /\ dns # DOMAIN row.names
        <3>1. only \in dns
            BY <2>2
        <3>2. row.names[only] \in CertNames
            BY <3>1 DEF CertNames
        <3>3. left = <<row.names[only]>>
            BY <2>2
        <3> HIDE DEF left, only
        <3> QED BY <3>2, <3>3 DEF NameLists
    <2> QED BY <2>1, <2>2
<1>3. ToCertificate(row) = [row EXCEPT !.names = left]
    BY DEF ToCertificate
<1>4. row = [key |-> row.key, domain |-> row.domain, names |-> row.names]
    BY DEF Cert
<1> HIDE DEF left
<1>5. ToCertificate(row) = [key |-> row.key, domain |-> row.domain, names |-> left]
    BY <1>3, <1>4
<1>6. [key |-> row.key, domain |-> row.domain, names |-> left] \in Cert
    BY <1>1, <1>2 DEF Cert
<1> QED BY <1>5, <1>6

(* What the tables, the requests and the handshakes begin with. *)
LEMMA NoCertIsACertificate == NoCert \in Cert /\ NoOp \in CertOperation /\ NoHello \in CertHello
BY CertificatesAssumption DEF NoCert, NoOp, NoHello, Cert, CertOperation, CertHello, NameLists

(* A certificate is made within the bound. *)
LEMMA KeysAreCounted ==
    ASSUME NEW k \in 1..(MaxKeys + 1), k <= MaxKeys
    PROVE  k \in 0..MaxKeys /\ k + 1 \in 1..(MaxKeys + 1)
BY CertificatesAssumption

(* A new certificate is a certificate, filed under a local name. *)
LEMMA InMemoryIsTyped ==
    ASSUME CertTypeInv, NEW r \in CertOps,
           NEW kind \in {"generate", "renew", "replace", "delete"},
           NEW dom \in CertNames \cup {""}, NEW filed \in CertNames,
           NEW names \in NameLists \cup {<<>>},
           InMemory(r, kind, dom, [key |-> nextKey, domain |-> filed, names |-> names]),
           UNCHANGED <<certRows, expiredKeys, hellos, repairs, certFaults>>
    PROVE  CertTypeInv'
<1> DEFINE cert == [key |-> nextKey, domain |-> filed, names |-> names]
           op == [pc |-> "persist", kind |-> kind, domain |-> dom, cert |-> cert, ok |-> FALSE]
<1>2. nextKey \in 0..MaxKeys /\ nextKey' \in 1..(MaxKeys + 1)
    BY KeysAreCounted DEF CertTypeInv, CertCounters, InMemory
<1>1. /\ certs' = [certs EXCEPT ![filed] = cert]
      /\ certOps' = [certOps EXCEPT ![r] = op]
      /\ contended' \subseteq contended \cup {filed}
    BY DEF InMemory, Touch
<1>3. cert \in Cert
    BY <1>2 DEF Cert
<1> HIDE DEF cert
<1>4. op \in CertOperation
    BY <1>3 DEF CertOperation
<1>5. op.pc = "persist" /\ op.cert = cert /\ cert.domain = filed
    BY DEF cert
<1> HIDE DEF op
<1>6. CertTables' /\ CertWork' /\ CertCounters'
    BY <1>1, <1>2, <1>3, <1>4 DEF CertTypeInv, CertTables, CertWork, CertCounters
<1>7. WritesAreFiled'
    BY <1>1, <1>5 DEF CertTypeInv, CertTables, CertWork, CertCounters, WritesAreFiled
<1> QED BY <1>6, <1>7 DEF CertTypeInv

(* The steps of a request. *)
LEMMA RequestIsTyped ==
    ASSUME CertTypeInv, NEW r \in CertOps,
           \/ HandleGenerate(r) \/ HandleReplace(r) \/ RenewReads(r) \/ RenewGenerates(r)
           \/ Persist(r) \/ HandleDelete(r) \/ DeleteRow(r)
    PROVE  CertTypeInv'
<1>0. /\ certs \in [CertNames -> Cert] /\ certRows \in [CertNames -> Cert]
      /\ certOps \in [CertOps -> CertOperation] /\ certOps[r] \in CertOperation
      /\ certOps[r].cert \in Cert /\ certOps[r].domain \in CertNames \cup {""}
      /\ certOps[r].kind \in {"generate", "renew", "replace", "delete"}
    BY DEF CertTypeInv, CertTables, CertWork, CertOperation
(* A request that moves on, its certificate filed where it is to be written. *)
<1>1. ASSUME NEW op \in CertOperation, certOps' = [certOps EXCEPT ![r] = op], op.pc # "persist",
             UNCHANGED hellos
      PROVE  certOps' \in [CertOps -> CertOperation] /\ WritesAreFiled'
    BY <1>0, <1>1 DEF CertTypeInv, CertTables, CertWork, CertCounters, WritesAreFiled
<1>9. UNCHANGED hellos
    BY DEF HandleGenerate, HandleReplace, RenewReads, RenewGenerates, InMemory, Persist,
           HandleDelete, DeleteRow
<1>2. CASE HandleGenerate(r)
    <2>1. PICK names \in NameLists :
            InMemory(r, "generate", names[1],
                     [key |-> nextKey, domain |-> names[1], names |-> names])
        BY <1>2 DEF HandleGenerate
    <2>2. names[1] \in CertNames
        BY NameListsAreShort
    <2> QED BY <1>2, <2>1, <2>2, InMemoryIsTyped DEF HandleGenerate
<1>3. CASE HandleReplace(r)
    <2>1. PICK d \in CertNames, names \in DnsLists :
            InMemory(r, "replace", d, [key |-> nextKey, domain |-> d, names |-> names])
        BY <1>3 DEF HandleReplace
    <2>2. names \in NameLists \cup {<<>>}
        BY DEF DnsLists, NameLists, CertNames
    <2> QED BY <1>3, <2>1, <2>2, InMemoryIsTyped DEF HandleReplace
<1>4. CASE RenewReads(r)
    <2>1. PICK d \in CertNames : certOps' = [certOps EXCEPT ![r] =
                [pc |-> "make", kind |-> "renew", domain |-> d, ok |-> FALSE,
                 cert |-> IF Has(certs, d) THEN certs[d] ELSE ToCertificate(certRows[d])]]
        BY <1>4 DEF RenewReads
    <2> DEFINE read == IF Has(certs, d) THEN certs[d] ELSE ToCertificate(certRows[d])
               op == [pc |-> "make", kind |-> "renew", domain |-> d, ok |-> FALSE, cert |-> read]
    <2>2. read \in Cert
        BY <1>0, ReadBackIsACertificate
    <2>3. certOps' = [certOps EXCEPT ![r] = op]
        BY <2>1
    <2> HIDE DEF read
    <2>4. op \in CertOperation /\ op.pc # "persist"
        BY <2>2 DEF CertOperation
    <2> HIDE DEF op
    <2>5. certOps' \in [CertOps -> CertOperation] /\ WritesAreFiled'
        BY <1>1, <2>3, <2>4, <1>9
    <2> QED BY <1>4, <2>5 DEF RenewReads, CertTypeInv, CertTables, CertWork, CertCounters
<1>5. CASE RenewGenerates(r)
    <2> DEFINE names == certOps[r].cert.names
    <2>1. names \in NameLists \cup {<<>>}
        BY <1>0 DEF Cert
    <2>2. CASE names = <<>>
        <3>1. certOps' = [certOps EXCEPT ![r].pc = "done"]
            BY <1>5, <2>2 DEF RenewGenerates
        <3> DEFINE op == [certOps[r] EXCEPT !.pc = "done"]
        <3>2. certOps' = [certOps EXCEPT ![r] = op]
            BY <3>1
        <3>3. op \in CertOperation /\ op.pc # "persist"
            BY <1>0 DEF CertOperation
        <3> HIDE DEF op
        <3>4. certOps' \in [CertOps -> CertOperation] /\ WritesAreFiled'
            BY <1>1, <3>2, <3>3, <1>9
        <3> QED BY <1>5, <2>2, <3>4 DEF RenewGenerates, CertTypeInv, CertTables, CertWork, CertCounters
    <2>3. CASE names # <<>>
        <3>1. names \in NameLists /\ names[1] \in CertNames
            BY <2>1, <2>3, NameListsAreShort
        <3>2. InMemory(r, "renew", certOps[r].domain,
                       [key |-> nextKey, domain |-> names[1], names |-> names])
            BY <1>5, <2>3 DEF RenewGenerates
        <3> HIDE DEF names
        <3> QED BY <1>0, <1>5, <3>1, <3>2, InMemoryIsTyped DEF RenewGenerates
    <2> QED BY <2>2, <2>3
<1>6. CASE Persist(r)
    <2> DEFINE op == [certOps[r] EXCEPT !.pc = "done", !.ok = TRUE]
    <2>1. /\ certOps' = [certOps EXCEPT ![r] = op]
          /\ certOps[r].cert.domain \in CertNames
          /\ \/ /\ certRows' = [certRows EXCEPT ![certOps[r].cert.domain] = certOps[r].cert]
                /\ UNCHANGED <<contended, certFaults>>
             \/ /\ certFaults < MaxCertFaults /\ certFaults' = certFaults + 1
                /\ contended' = contended \cup {certOps[r].cert.domain}
                /\ UNCHANGED certRows
          /\ repairs' \subseteq repairs \cup Announced(certOps[r])
        BY <1>6 DEF Persist, CertTypeInv, WritesAreFiled
    <2>2. op \in CertOperation /\ op.pc # "persist"
        BY <1>0 DEF CertOperation
    <2> HIDE DEF op
    <2>3. certOps' \in [CertOps -> CertOperation] /\ WritesAreFiled'
        BY <1>1, <2>1, <2>2, <1>9
    <2>4. certRows' \in [CertNames -> Cert]
        BY <1>0, <2>1
    <2>5. certFaults' \in 0..MaxCertFaults
        <3>1. certFaults \in 0..MaxCertFaults
            BY DEF CertTypeInv, CertCounters
        <3> QED BY <2>1, <3>1, CertificatesAssumption
    <2>7. contended' \subseteq CertNames
        BY <2>1 DEF CertTypeInv, CertCounters
    <2>6. repairs' \subseteq {"certificate_rotated", "certificate_replaced", "certificate_deleted"}
        BY <2>1 DEF Announced, CertTypeInv, CertTables, CertWork, CertCounters
    <2> QED BY <1>6, <2>3, <2>4, <2>5, <2>6, <2>7
            DEF Persist, CertTypeInv, CertTables, CertWork, CertCounters
<1>7. CASE HandleDelete(r)
    <2>1. PICK d \in CertNames :
            /\ certs' = [certs EXCEPT ![d] = NoCert]
            /\ certOps' = [certOps EXCEPT ![r] = [pc |-> "row", kind |-> "delete", domain |-> d,
                                                  cert |-> certs[d], ok |-> FALSE]]
            /\ contended' \subseteq contended \cup {d}
        BY <1>7 DEF HandleDelete, MemoryAfterDelete, Touch
    <2> DEFINE op == [pc |-> "row", kind |-> "delete", domain |-> d, cert |-> certs[d], ok |-> FALSE]
    <2>2. op \in CertOperation /\ op.pc # "persist"
        BY <1>0 DEF CertOperation
    <2>3. certOps' = [certOps EXCEPT ![r] = op]
        BY <2>1
    <2> HIDE DEF op
    <2>4. certOps' \in [CertOps -> CertOperation] /\ WritesAreFiled'
        BY <1>1, <2>2, <2>3, <1>9
    <2>5. certs' \in [CertNames -> Cert]
        BY <1>0, <2>1, NoCertIsACertificate
    <2> QED BY <1>7, <2>1, <2>4, <2>5 DEF HandleDelete, CertTypeInv, CertTables, CertWork, CertCounters
<1>8. CASE DeleteRow(r)
    <2> DEFINE ok == Has(certRows, certOps[r].domain)
               op == [certOps[r] EXCEPT !.pc = "done", !.ok = ok]
    <2>1. /\ certRows' = [certRows EXCEPT ![certOps[r].domain] = NoCert]
          /\ certOps' = [certOps EXCEPT ![r] = op]
          /\ repairs' \subseteq repairs \cup {"certificate_deleted"}
        BY <1>8 DEF DeleteRow
    <2>2. ok \in BOOLEAN
        BY DEF Has
    <2> HIDE DEF ok
    <2>3. op \in CertOperation /\ op.pc # "persist"
        BY <1>0, <2>2 DEF CertOperation
    <2> HIDE DEF op
    <2>4. certOps' \in [CertOps -> CertOperation] /\ WritesAreFiled'
        BY <1>1, <2>1, <2>3, <1>9
    <2>5. certRows' \in [CertNames -> Cert]
        BY <1>0, <2>1, NoCertIsACertificate
    <2> QED BY <1>8, <2>1, <2>4, <2>5 DEF DeleteRow, CertTypeInv, CertTables, CertWork, CertCounters
<1> QED BY <1>2, <1>3, <1>4, <1>5, <1>6, <1>7, <1>8

(* The steps of a handshake. *)
LEMMA HelloIsTyped ==
    ASSUME CertTypeInv, NEW h \in Handshakes,
           \/ \E d \in CertNames : HelloLooksUp(h, d)
           \/ HelloReadsStorage(h) \/ HelloCaches(h)
    PROVE  CertTypeInv'
<1>0. /\ certs \in [CertNames -> Cert] /\ certRows \in [CertNames -> Cert]
      /\ hellos \in [Handshakes -> CertHello] /\ hellos[h] \in CertHello
      /\ hellos[h].cert \in Cert /\ hellos[h].domain \in CertNames \cup {""}
    BY DEF CertTypeInv, CertTables, CertWork, CertHello
<1>1. ASSUME NEW d \in CertNames, HelloLooksUp(h, d) PROVE CertTypeInv'
    <2> DEFINE hello == [pc |-> "storage", domain |-> d, cert |-> NoCert]
    <2>1. hellos' = [hellos EXCEPT ![h] = hello] /\ contended' \subseteq contended \cup {d}
        BY <1>1 DEF HelloLooksUp, Touch
    <2>2. hello \in CertHello /\ (hello.pc # "idle" => hello.domain \in CertNames)
        BY NoCertIsACertificate DEF CertHello
    <2> HIDE DEF hello
    <2> QED BY <1>0, <1>1, <2>1, <2>2
            DEF HelloLooksUp, CertTypeInv, CertTables, CertWork, CertCounters, WritesAreFiled
<1>2. CASE HelloReadsStorage(h)
    <2> DEFINE d == hellos[h].domain
               read == ToCertificate(certRows[d])
               hello == IF Usable(certRows, d) THEN [pc |-> "cache", domain |-> d, cert |-> read]
                        ELSE NoHello
    <2>1. hellos' = [hellos EXCEPT ![h] = hello]
        BY <1>2 DEF HelloReadsStorage
    <2>2. CASE d \in CertNames
        <3>1. read \in Cert
            BY <1>0, <2>2, ReadBackIsACertificate
        <3> HIDE DEF read
        <3>2. hello \in CertHello
            BY <2>2, <3>1, NoCertIsACertificate DEF CertHello
        <3>3. hello.pc # "idle" => hello.domain \in CertNames
            BY <2>2 DEF NoHello
        <3> HIDE DEF hello
        <3> QED BY <1>0, <1>2, <2>1, <3>2, <3>3
                DEF HelloReadsStorage, CertTypeInv, CertTables, CertWork, CertCounters, WritesAreFiled
    <2>3. d \in CertNames
        BY <1>2 DEF HelloReadsStorage, CertTypeInv, WritesAreFiled
    <2> QED BY <2>2, <2>3
<1>3. CASE HelloCaches(h)
    <2>1. /\ certs' = [certs EXCEPT ![hellos[h].domain] = hellos[h].cert]
          /\ hellos' = [hellos EXCEPT ![h] = NoHello]
        BY <1>3 DEF HelloCaches
    <2>2. certs' \in [CertNames -> Cert] /\ hellos' \in [Handshakes -> CertHello]
        BY <1>0, <2>1, NoCertIsACertificate
    <2>3. NoHello.pc = "idle"
        BY DEF NoHello
    <2> QED BY <1>0, <1>3, <2>1, <2>2, <2>3
            DEF HelloCaches, CertTypeInv, CertTables, CertWork, CertCounters, WritesAreFiled
<1> QED BY <1>1, <1>2, <1>3

(* Requests, handshakes, expiry and restart keep the types. *)
LEMMA CertTypeInvInductive == CertTypeInv /\ [CertificatesNext]_certVars => CertTypeInv'
<1> SUFFICES ASSUME CertTypeInv, [CertificatesNext]_certVars PROVE CertTypeInv'
    OBVIOUS
<1>1. CASE UNCHANGED certVars
    BY <1>1 DEF certVars, CertTypeInv, CertTables, CertWork, CertCounters, WritesAreFiled
<1>2. ASSUME NEW k \in 1..MaxKeys, CertificateExpires(k) PROVE CertTypeInv'
    BY <1>2 DEF CertificateExpires, CertTypeInv, CertTables, CertWork, CertCounters, WritesAreFiled
<1>3. CASE CertificatesRestart
    <2>1. LoadCertificates \in [CertNames -> Cert]
        BY ReadBackIsACertificate, NoCertIsACertificate
           DEF LoadCertificates, CertTypeInv, CertTables, CertWork, CertCounters
    <2>2. NoHello.pc = "idle" /\ NoOp.pc = "idle"
        BY DEF NoHello, NoOp
    <2>3. WritesAreFiled'
        BY <1>3, <2>2 DEF CertificatesRestart, WritesAreFiled
    <2> QED BY <1>3, <2>1, <2>3, NoCertIsACertificate
            DEF CertificatesRestart, CertTypeInv, CertTables, CertWork, CertCounters, WritesAreFiled,
                CertHello, NoOp
<1> QED BY <1>1, <1>2, <1>3, RequestIsTyped, HelloIsTyped DEF CertificatesNext

(* What memory, rows, requests and handshakes hold is a certificate, also    *)
(* what was read back from the database with its DNS names only, and each    *)
(* certificate that waits for its row is filed under a local name.           *)
THEOREM CertificatesTypeCorrect == CertificatesSpec => []CertificatesTypeOK
<1>1. CertificatesInit => CertTypeInv
    <2> SUFFICES ASSUME CertificatesInit PROVE CertTypeInv
        OBVIOUS
    <2>1. CertTables /\ CertWork
        BY NoCertIsACertificate DEF CertificatesInit, CertTables, CertWork
    <2>2. 1 \in 1..(MaxKeys + 1) /\ 0 \in 0..MaxCertFaults
        BY CertificatesAssumption
    <2>3. CertCounters
        BY <2>2 DEF CertificatesInit, CertCounters
    <2>4. WritesAreFiled
        BY DEF CertificatesInit, WritesAreFiled, NoOp, NoHello
    <2> QED BY <2>1, <2>3, <2>4 DEF CertTypeInv
<1>2. CertTypeInv => CertificatesTypeOK
    BY CertificatesTypes DEF CertTypeInv
<1> QED BY <1>1, <1>2, CertTypeInvInductive, PTL DEF CertificatesSpec

-----------------------------------------------------------------------------
(* The composition. *)

(* Whatever part of the instance runs, each of its parts behaves as its own  *)
(* specification says.                                                       *)
THEOREM AccessRunsItsParts ==
    AccessSpec => Spec /\ PairingSpec /\ DevicesSpec /\ AccountsSpec /\ CertificatesSpec
<1>1. AccessInit => Init /\ PairingInit /\ DevicesInit /\ AccountsInit /\ CertificatesInit
    BY DEF AccessInit
<1>2. [AccessNext]_accessVars => /\ [Next]_vars /\ [PairingNext]_pairingVars
                                /\ [DevicesNext]_deviceVars /\ [AccountsNext]_accountVars
                                /\ [CertificatesNext]_certVars
    BY DEF AccessNext, accessVars
<1> QED BY <1>1, <1>2, PTL
        DEF AccessSpec, Spec, PairingSpec, DevicesSpec, AccountsSpec, CertificatesSpec

(* The part that runs keeps its types, for any number of routes, codes,      *)
(* devices, users and certificates.                                          *)
THEOREM AccessTypeCorrect == AccessSpec => []AccessTypeOK
<1> DEFINE Focus == focus \in {"routes", "pairing", "devices", "accounts", "certificates"}
<1>1. AccessSpec => []Focus
    <2>1. AccessInit => Focus
        BY DEF AccessInit
    <2>2. Focus /\ [AccessNext]_accessVars => Focus'
        BY DEF AccessNext, accessVars
    <2> QED BY <2>1, <2>2, PTL DEF AccessSpec
<1>2. Focus /\ TypeOK /\ PairingTypeOK /\ DevicesTypeOK /\ AccountsTypeOK /\ CertificatesTypeOK
      => AccessTypeOK
    BY DEF AccessTypeOK
<1> HIDE DEF Focus
<1> QED BY <1>1, <1>2, AccessRunsItsParts, RegistryTypeCorrect, PairingTypeCorrect,
           DevicesTypeCorrect, AccountsTypeCorrect, CertificatesTypeCorrect, PTL
=============================================================================
