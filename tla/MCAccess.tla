------------------------------ MODULE MCAccess ------------------------------
(***************************************************************************)
(* Who and what an instance lets in, for TLC: the registry of routes, the  *)
(* pairing of devices, the devices and users and the certificates.  They   *)
(* share no state, so a behaviour runs one of them, chosen at the start,   *)
(* and the others stay in one of their initial states.                     *)
(***************************************************************************)
EXTENDS RouteRegistry, Pairing, Devices, Accounts, Certificates, TLC

CONSTANTS routeA, routeB, pathX, pathXSlash, subA, subB, appA

VARIABLE focus  \* the component that runs

MCWithSlash == [p \in Paths |-> pathXSlash]

Offer(id, path, strip, sub, bySub, app) ==
    [id |-> id, path |-> path, strip |-> strip, sub |-> sub, bySub |-> bySub, app |-> app]

\* Two routes, of one app or of none, that compete for two paths, one of them by way of the
\* trailing slash, and for two subdomains, one of which routeB may hold in path mode.
MCOffers == {Offer(routeA, pathX, TRUE, subB, TRUE, appA), Offer(routeA, pathX, FALSE, subA, TRUE, appA),
             Offer(routeB, pathX, FALSE, subA, FALSE, appA), Offer(routeB, pathXSlash, FALSE, subB, TRUE, None)}

MCConfigs == {[routes |-> {Offer(routeA, pathX, FALSE, subA, TRUE, appA)}, apps |-> {}],
              [routes |-> {}, apps |-> {appA}]}

MCSymmetry == Permutations(Callers)

AccessInit ==
    /\ focus \in {"routes", "pairing", "devices", "accounts", "certificates"}
    /\ PairingInit /\ (focus # "pairing" => permanent = {})
    /\ Init /\ DevicesInit /\ AccountsInit /\ CertificatesInit

AccessNext ==
    /\ UNCHANGED focus
    /\ \/ /\ focus = "routes" /\ Next
          /\ UNCHANGED <<pairingVars, deviceVars, accountVars, certVars>>
       \/ /\ focus = "pairing" /\ PairingNext
          /\ UNCHANGED <<vars, deviceVars, accountVars, certVars>>
       \/ /\ focus = "devices" /\ DevicesNext
          /\ UNCHANGED <<vars, pairingVars, accountVars, certVars>>
       \/ /\ focus = "accounts" /\ AccountsNext
          /\ UNCHANGED <<vars, pairingVars, deviceVars, certVars>>
       \/ /\ focus = "certificates" /\ CertificatesNext
          /\ UNCHANGED <<vars, pairingVars, deviceVars, accountVars>>

accessVars == <<focus, vars, pairingVars, deviceVars, accountVars, certVars>>

AccessSpec == AccessInit /\ [][AccessNext]_accessVars

\* The type invariant of the component that runs; the others have not moved.
AccessTypeOK ==
    CASE focus = "routes" -> TypeOK
      [] focus = "pairing" -> PairingTypeOK
      [] focus = "devices" -> DevicesTypeOK
      [] focus = "accounts" -> AccountsTypeOK
      [] focus = "certificates" -> CertificatesTypeOK
=============================================================================
