------------------------------- MODULE Pairing -------------------------------
(***************************************************************************)
(* Pairing a device: the QR code that carries a pairing code, the          *)
(* short-lived bootstrap token behind the code, the redemption of the code *)
(* by the app, and the pairing request that presents the token             *)
(* (internal/auth/pairing.go, bootstrap.go; internal/handlers/qr.go,       *)
(* pairing.go, auth.go).                                                   *)
(*                                                                         *)
(* Two stores that know nothing of each other have to agree: the pairing   *)
(* manager's codes and the bootstrap store's tokens. Codes and tokens are  *)
(* random, so a QR code stands for both of its own. Lifetimes are counted  *)
(* in ticks of one minute; the hourly windows end by a step of their own.  *)
(* A request the per-address limiter refuses changes nothing and is left   *)
(* out, as are the development bypass and the environment's token.         *)
(***************************************************************************)
EXTENDS Naturals, FiniteSets

CONSTANTS QRs,                 \* QR codes ever generated
          PermanentTokens,     \* bootstrap tokens the configuration may list
          PairRequests,        \* pairing requests under way at once
          CodeTTL,             \* lifetime of codes and of tokens
          LockTTL,             \* codeLockDuration
          MaxPairingAttempts,  \* failures after which a token is rate limited
          MaxCodeFailures,     \* maxFailedAttemptsPerCode
          GlobalFailureLimit,  \* globalFailureThreshold
          GlobalCodeLimit      \* maxGlobalCodesPerHour

ASSUME PairingAssumption == /\ QRs \cap PermanentTokens = {}
                            /\ CodeTTL \in Nat \ {0} /\ LockTTL \in Nat \ {0}
                            /\ MaxPairingAttempts \in Nat \ {0}
                            /\ MaxCodeFailures \in Nat \ {0}
                            /\ GlobalFailureLimit \in Nat \ {0}
                            /\ GlobalCodeLimit \in Nat \ {0}

VARIABLES qrStage,         \* QR -> how far its request came
          tokenLeft,       \* QR -> minutes its token has left in shortLivedTokens
          failedAttempts,  \* token -> failedAttempts of the bootstrap store
          rateLimited,     \* tokens the bootstrap store rate limits
          permanent,       \* permanentTokens
          codes,           \* QR -> its entry in the pairing manager
          failures,        \* globalFailures and whether its hour is over
          generated,       \* globalCodeCount and whether its hour is over
          pairReq,         \* request -> token and stage
          pairedWith,      \* QRs whose token completed a pairing (history)
          alive            \* QRs whose token is in its lifetime, store unswapped (history)

pairingVars == <<qrStage, tokenLeft, failedAttempts, rateLimited, permanent, codes,
                 failures, generated, pairReq, pairedWith, alive>>

Tokens == QRs \cup PermanentTokens
Gone == CodeTTL + 1                 \* not in the map
Expired(left) == left = 0
NoCode == [left |-> Gone, over |-> FALSE, redeemed |-> FALSE, used |-> FALSE,
           failed |-> 0, locked |-> 0]
NoRequest == [token |-> "none", stage |-> "idle"]
FreshWindow == [count |-> 0, over |-> FALSE]

\* NewBootstrapStore: the configured tokens, and nothing remembered.
NewBootstrapStore(tokens) ==
  /\ permanent' = tokens
  /\ tokenLeft' = [k \in QRs |-> Gone]
  /\ failedAttempts' = [t \in Tokens |-> 0]
  /\ rateLimited' = {}

\* NewPairingManager.
NewPairingManager ==
  /\ codes' = [k \in QRs |-> NoCode]
  /\ failures' = FreshWindow

PairingInit ==
  /\ qrStage = [k \in QRs |-> "none"]
  /\ tokenLeft = [k \in QRs |-> Gone]
  /\ failedAttempts = [t \in Tokens |-> 0]
  /\ rateLimited = {}
  /\ permanent \in SUBSET PermanentTokens
  /\ codes = [k \in QRs |-> NoCode]
  /\ failures = FreshWindow /\ generated = FreshWindow
  /\ pairReq = [p \in PairRequests |-> NoRequest]
  /\ pairedWith = {} /\ alive = {}

(***************************************************************************)
(* HandleQRCode: limit, token, code.                                       *)
(***************************************************************************)
\* isGlobalCodeLimitExceeded counts the code it lets through.
CodeWindow == IF generated.over THEN FreshWindow ELSE generated
IsGlobalCodeLimitExceeded == CodeWindow.count >= GlobalCodeLimit

\* GenerateShortLivedToken of a request within the limit.
GenerateShortLived(k) ==
  /\ qrStage[k] = "none"
  /\ ~IsGlobalCodeLimitExceeded
  /\ generated' = [CodeWindow EXCEPT !.count = @ + 1]
  /\ tokenLeft' = [tokenLeft EXCEPT ![k] = CodeTTL]
  /\ alive' = alive \cup {k}
  /\ qrStage' = [qrStage EXCEPT ![k] = "token"]
  /\ UNCHANGED <<failedAttempts, rateLimited, permanent, codes, failures, pairReq,
                 pairedWith>>

\* GenerateCode, and the answer that shows it.
GenerateCode(k) ==
  /\ qrStage[k] = "token"
  /\ codes' = [codes EXCEPT ![k] = [NoCode EXCEPT !.left = CodeTTL]]
  /\ qrStage' = [qrStage EXCEPT ![k] = "shown"]
  /\ UNCHANGED <<tokenLeft, failedAttempts, rateLimited, permanent, failures,
                 generated, pairReq, pairedWith, alive>>

(***************************************************************************)
(* RedeemCode, called by HandleRedeemPairingCode.                          *)
(***************************************************************************)
FailureWindow == IF failures.over THEN FreshWindow ELSE failures
IsGloballyRateLimited == FailureWindow.count >= GlobalFailureLimit

Present(k) == codes[k].left # Gone
Redeemable(k) == /\ Present(k) /\ codes[k].locked = 0
                 /\ ~codes[k].used /\ ~Expired(codes[k].left)

\* What a redemption does to the entry of the code it names.
AfterRedemption(k) ==
  LET c == codes[k] IN
  CASE c.locked > 0 -> c
    [] c.locked = 0 /\ c.used ->
         [c EXCEPT !.failed = IF @ < MaxCodeFailures THEN @ + 1 ELSE @,
                   !.locked = IF c.failed + 1 >= MaxCodeFailures THEN LockTTL ELSE 0]
    [] c.locked = 0 /\ ~c.used /\ Expired(c.left) -> NoCode
    [] OTHER -> [c EXCEPT !.redeemed = TRUE]

RedeemCode(k) ==
  /\ qrStage[k] \in {"shown", "scanned"}
  /\ ~IsGloballyRateLimited
  /\ codes' = IF Present(k) THEN [codes EXCEPT ![k] = AfterRedemption(k)] ELSE codes
  /\ failures' = IF Redeemable(k) THEN FailureWindow
                 ELSE [FailureWindow EXCEPT !.count = @ + 1]
  /\ qrStage' = IF Redeemable(k) THEN [qrStage EXCEPT ![k] = "scanned"] ELSE qrStage
  /\ UNCHANGED <<tokenLeft, failedAttempts, rateLimited, permanent, generated,
                 pairReq, pairedWith, alive>>

\* A code that no map holds: a mistyped one.
RedeemUnknown ==
  /\ ~IsGloballyRateLimited
  /\ failures' = [FailureWindow EXCEPT !.count = @ + 1]
  /\ UNCHANGED <<qrStage, tokenLeft, failedAttempts, rateLimited, permanent, codes,
                 generated, pairReq, pairedWith, alive>>

\* Mutant: the pairing leaves the code as it was.
ConsumeNothing(t) == codes

\* ConsumeByBootstrapToken: the code may be gone by now.
ConsumeByBootstrapToken(t) ==
  IF t \in QRs /\ codes[t].left # Gone THEN [codes EXCEPT ![t].used = TRUE] ELSE codes

\* cleanup: codes that expired more than a minute ago.
CodeCleanup ==
  /\ \E k \in QRs : codes[k].over
  /\ codes' = [k \in QRs |-> IF codes[k].over THEN NoCode ELSE codes[k]]
  /\ UNCHANGED <<qrStage, tokenLeft, failedAttempts, rateLimited, permanent, failures,
                 generated, pairReq, pairedWith, alive>>

(***************************************************************************)
(* The bootstrap store.                                                    *)
(***************************************************************************)
IsRateLimited(t) == t \in rateLimited
ValidateShortLived(t) == /\ t \in QRs /\ t \notin rateLimited
                         /\ tokenLeft[t] \notin {Gone, 0}
ValidatePermanent(t) == t \in permanent
Validate(t) == ValidateShortLived(t) \/ ValidatePermanent(t)

\* An expired token is dropped with its counters when it is presented.
ForgetExpired(t) == t \in QRs /\ t \notin rateLimited /\ Expired(tokenLeft[t])

\* RecordFailedPairing after a validation that failed.
RecordFailedPairing(t) ==
  LET n == CASE ForgetExpired(t) -> 1
             [] OTHER -> IF failedAttempts[t] < MaxPairingAttempts
                         THEN failedAttempts[t] + 1 ELSE MaxPairingAttempts
      limit == n >= MaxPairingAttempts
  IN /\ failedAttempts' = [failedAttempts EXCEPT ![t] = n]
     /\ rateLimited' = IF limit THEN rateLimited \cup {t} ELSE rateLimited
     /\ tokenLeft' = IF t \in QRs /\ (limit \/ ForgetExpired(t))
                     THEN [tokenLeft EXCEPT ![t] = Gone] ELSE tokenLeft

RecordSuccessfulPairing(t) ==
  /\ failedAttempts' = [failedAttempts EXCEPT ![t] = 0]
  /\ rateLimited' = rateLimited \ {t}
  /\ tokenLeft' = IF t \in QRs THEN [tokenLeft EXCEPT ![t] = Gone] ELSE tokenLeft

\* cleanupExpired forgets the token and keeps its counters.
CleanupExpired ==
  /\ \E k \in QRs : Expired(tokenLeft[k])
  /\ tokenLeft' = [k \in QRs |-> IF Expired(tokenLeft[k]) THEN Gone ELSE tokenLeft[k]]
  /\ UNCHANGED <<qrStage, failedAttempts, rateLimited, permanent, codes, failures,
                 generated, pairReq, pairedWith, alive>>

(***************************************************************************)
(* HandlePair. Validating the token, recording the success and consuming   *)
(* the code take the locks one after the other.                            *)
(***************************************************************************)
Stage(p, s) == pairReq' = [pairReq EXCEPT ![p].stage = s]

\* A request whose token is not rate limited. The app knows the token of a
\* code it redeemed.
PairAdmitted(p, t) ==
  /\ pairReq[p].stage = "idle"
  /\ t \in QRs => qrStage[t] = "scanned"
  /\ ~IsRateLimited(t)
  /\ pairReq' = [pairReq EXCEPT ![p] = [token |-> t, stage |-> "admitted"]]
  /\ UNCHANGED <<qrStage, tokenLeft, failedAttempts, rateLimited, permanent, codes,
                 failures, generated, pairedWith, alive>>

PairRefused(p) ==
  /\ pairReq[p].stage = "admitted"
  /\ ~Validate(pairReq[p].token)
  /\ RecordFailedPairing(pairReq[p].token)
  /\ pairReq' = [pairReq EXCEPT ![p] = NoRequest]
  /\ UNCHANGED <<qrStage, permanent, codes, failures, generated, pairedWith, alive>>

PairValidated(p) ==
  /\ pairReq[p].stage = "admitted"
  /\ Validate(pairReq[p].token)
  /\ Stage(p, "validated")
  /\ UNCHANGED <<qrStage, tokenLeft, failedAttempts, rateLimited, permanent, codes,
                 failures, generated, pairedWith, alive>>

\* The body cannot be read or is refused, or no token can be signed: nothing
\* is recorded and the app may try again.
PairRejected(p) ==
  /\ pairReq[p].stage = "validated"
  /\ pairReq' = [pairReq EXCEPT ![p] = NoRequest]
  /\ UNCHANGED <<qrStage, tokenLeft, failedAttempts, rateLimited, permanent, codes,
                 failures, generated, pairedWith, alive>>

\* The device is saved (Devices.tla) and the token is used up.
PairRecorded(p) ==
  /\ pairReq[p].stage = "validated"
  /\ RecordSuccessfulPairing(pairReq[p].token)
  /\ Stage(p, "recorded")
  /\ UNCHANGED <<qrStage, permanent, codes, failures, generated, pairedWith, alive>>

PairAnswered(p) ==
  /\ pairReq[p].stage = "recorded"
  /\ codes' = ConsumeByBootstrapToken(pairReq[p].token)
  /\ pairedWith' = pairedWith \cup ({pairReq[p].token} \cap QRs)
  /\ pairReq' = [pairReq EXCEPT ![p] = NoRequest]
  /\ UNCHANGED <<qrStage, tokenLeft, failedAttempts, rateLimited, permanent, failures,
                 generated, alive>>

(***************************************************************************)
(* Time, reload, restart.                                                  *)
(***************************************************************************)
OneLess(n) == IF n \in {0, Gone} THEN n ELSE n - 1

\* A minute passes.
PairingTick ==
  /\ tokenLeft' = [k \in QRs |-> OneLess(tokenLeft[k])]
  /\ codes' = [k \in QRs |->
       [codes[k] EXCEPT !.left = OneLess(@),
                        !.over = Expired(codes[k].left),
                        !.locked = IF @ = 0 THEN 0 ELSE @ - 1]]
  /\ <<tokenLeft', codes'>> # <<tokenLeft, codes>>
  /\ alive' = {k \in alive : tokenLeft[k] # 1}
  /\ UNCHANGED <<qrStage, failedAttempts, rateLimited, permanent, failures, generated,
                 pairReq, pairedWith>>

\* The hour of the failure counter, and that of the code counter.
FailureHourEnds ==
  /\ failures' = [failures EXCEPT !.over = TRUE]
  /\ failures' # failures
  /\ UNCHANGED <<qrStage, tokenLeft, failedAttempts, rateLimited, permanent, codes,
                 generated, pairReq, pairedWith, alive>>
CodeHourEnds ==
  /\ generated' = [generated EXCEPT !.over = TRUE]
  /\ generated' # generated
  /\ UNCHANGED <<qrStage, tokenLeft, failedAttempts, rateLimited, permanent, codes,
                 failures, pairReq, pairedWith, alive>>

\* A reload swaps the store when the number of configured tokens changed.
UpdateBootstrapTokens(tokens) ==
  /\ Cardinality(tokens) # Cardinality(permanent)
  /\ NewBootstrapStore(tokens)
  /\ alive' = {}
  /\ UNCHANGED <<qrStage, codes, failures, generated, pairReq, pairedWith>>

\* Codes and tokens live in memory only.
PairingRestart ==
  /\ NewBootstrapStore(permanent)
  /\ NewPairingManager
  /\ generated' = FreshWindow
  /\ pairReq' = [p \in PairRequests |-> NoRequest]
  /\ qrStage' = [k \in QRs |-> IF qrStage[k] = "token" THEN "none" ELSE qrStage[k]]
  /\ alive' = {}
  /\ UNCHANGED pairedWith

PairingNext ==
  \/ \E k \in QRs : GenerateShortLived(k) \/ GenerateCode(k) \/ RedeemCode(k)
  \/ RedeemUnknown \/ CodeCleanup \/ CleanupExpired
  \/ \E p \in PairRequests :
       \/ \E t \in Tokens : PairAdmitted(p, t)
       \/ PairRefused(p) \/ PairValidated(p) \/ PairRejected(p)
       \/ PairRecorded(p) \/ PairAnswered(p)
  \/ PairingTick \/ FailureHourEnds \/ CodeHourEnds
  \/ \E tokens \in SUBSET PermanentTokens : UpdateBootstrapTokens(tokens)
  \/ PairingRestart

PairingSpec == PairingInit /\ [][PairingNext]_pairingVars

(***************************************************************************)
(* Properties.                                                             *)
(***************************************************************************)
PairingTypeOK ==
  /\ qrStage \in [QRs -> {"none", "token", "shown", "scanned"}]
  /\ tokenLeft \in [QRs -> 0..Gone]
  /\ failedAttempts \in [Tokens -> 0..MaxPairingAttempts]
  /\ rateLimited \subseteq Tokens /\ permanent \subseteq PermanentTokens
  /\ codes \in [QRs -> [left : 0..Gone, over : BOOLEAN, redeemed : BOOLEAN,
                        used : BOOLEAN, failed : 0..MaxCodeFailures, locked : 0..LockTTL]]
  /\ failures \in [count : 0..GlobalFailureLimit, over : BOOLEAN]
  /\ generated \in [count : 0..GlobalCodeLimit, over : BOOLEAN]
  /\ pairReq \in [PairRequests -> [token : Tokens \cup {"none"},
                    stage : {"idle", "admitted", "validated", "recorded"}]]

\* A code is finished by the pairing that used its token: whatever redemptions,
\* second pairings, expiry and cleanup interleave with it, a code whose token
\* completed a pairing is never handed out again.
PairedCodesAreFinished == \A k \in pairedWith : ~Redeemable(k)

\* A retry can succeed: a code that can still be redeemed leads to a token that
\* still pairs, unless a pairing with it is under way or the token, which is
\* made first, has reached its own end. A reload that swaps the bootstrap
\* store is the one thing that breaks this.
RedeemedCodePairs ==
  \A k \in QRs :
    /\ Redeemable(k) /\ k \in alive
    /\ ~\E p \in PairRequests : pairReq[p] = [token |-> k, stage |-> "recorded"]
    => Validate(k)

\* A pairing code is good for one pairing: until then it can be redeemed again
\* and leads to a token that pairs, and never after.
CodesPairOnce == PairedCodesAreFinished /\ RedeemedCodePairs
=============================================================================
