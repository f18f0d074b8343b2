---------------------------- MODULE SystemHealth ----------------------------
(***************************************************************************)
(* /healthz and /readyz (internal/health): concurrent requests that check  *)
(* the components of the program, with a cache that only serves results    *)
(* that were healthy, and the status of the whole.                         *)
(*                                                                         *)
(* Each component has a condition, which its checker turns into a status.  *)
(* Seconds are counted as ages, which stop at AgeLimit; a check takes at   *)
(* most CheckTimeout seconds.                                              *)
(***************************************************************************)
EXTENDS Integers

CONSTANTS HealthCalls,        \* requests
          SystemComponents,   \* components with a checker
          CacheTTL,           \* seconds a healthy result is served from the cache
          CheckTimeout        \* seconds a check may take

ASSUME SystemHealthAssumption ==
  /\ SystemComponents \subseteq {"storage", "discovery", "certificates"}
  /\ CacheTTL \in Nat /\ CheckTimeout \in Nat

VARIABLES condition,    \* component -> what its checker would see
          illFor,       \* component -> seconds since it was last healthy
          resultCache,  \* component -> status and age, status "none" for no entry
          checkCall,    \* request -> component -> progress of its check
          overall       \* request -> answer

systemVars == <<condition, illFor, resultCache, checkCall, overall>>

Staleness == CacheTTL + 2 * CheckTimeout
AgeLimit == Staleness + 1
Older(age) == IF age < AgeLimit THEN age + 1 ELSE age

(***************************************************************************)
(* The checkers.                                                           *)
(***************************************************************************)
\* A database that does not answer, and one with long queues.
StorageCheck(db) == CASE db = "down" -> "unhealthy"
                      [] db = "waiting" -> "degraded"
                      [] OTHER -> "healthy"

\* The number of workers of an enabled discovery.
DiscoveryCheck(workers) == IF workers = 0 THEN "degraded" ELSE "healthy"

\* The days left to the certificates: at 0 expired, below 30 expiring soon.
CertificateCheck(days) == CASE \E d \in days : d <= 0 -> "unhealthy"
                            [] \E d \in days : d < 30 -> "degraded"
                            [] OTHER -> "healthy"

Conditions(c) == CASE c = "storage" -> {"fine", "waiting", "down"}
                   [] c = "discovery" -> {0, 1}
                   [] OTHER -> {{}, {0, 40}}

CheckerOf(c, seen) == CASE c = "storage" -> StorageCheck(seen)
                        [] c = "discovery" -> DiscoveryCheck(seen)
                        [] OTHER -> CertificateCheck(seen)

Fine(c) == CheckerOf(c, condition[c]) = "healthy"
NoCheck == [pc |-> "none", status |-> "none", age |-> 0]

SystemHealthInit ==
  /\ condition = [c \in SystemComponents |->
                    CASE c = "storage" -> "fine" [] c = "discovery" -> 1 [] OTHER -> {}]
  /\ illFor = [c \in SystemComponents |-> 0]
  /\ resultCache = [c \in SystemComponents |-> [status |-> "none", age |-> 0]]
  /\ checkCall = [r \in HealthCalls |-> [c \in SystemComponents |-> NoCheck]]
  /\ overall = [r \in HealthCalls |-> "none"]

(***************************************************************************)
(* A request: one task per component, then the status of the whole.        *)
(***************************************************************************)
SetCheck(r, c, pc, status) ==
  checkCall' = [checkCall EXCEPT ![r][c] = [@ EXCEPT !.pc = pc, !.status = status]]

CheckBegins(r) ==
  /\ overall[r] = "none"
  /\ \A c \in SystemComponents : checkCall[r][c] = NoCheck
  /\ checkCall' = [checkCall EXCEPT ![r] = [c \in SystemComponents |->
                     [pc |-> "submitted", status |-> "none", age |-> 0]]]
  /\ UNCHANGED <<condition, illFor, resultCache, overall>>

\* Mutant: the age of an entry does not matter.
ServableAtAnyAge(c) == resultCache[c].status = "healthy"

\* The entry is served while it is young and healthy.
Servable(c) == /\ resultCache[c].status = "healthy"
               /\ resultCache[c].age < CacheTTL

CachedResult(r, c) ==
  /\ checkCall[r][c].pc = "submitted"
  /\ Servable(c)
  /\ SetCheck(r, c, "done", resultCache[c].status)
  /\ UNCHANGED <<condition, illFor, resultCache, overall>>

\* The checker looks at the component ...
CheckerLooks(r, c) ==
  /\ checkCall[r][c].pc = "submitted"
  /\ ~Servable(c)
  /\ SetCheck(r, c, "looked", CheckerOf(c, condition[c]))
  /\ UNCHANGED <<condition, illFor, resultCache, overall>>

\* ... and its result enters the cache when it is there. A request that finds
\* a result in the cache leaves its age alone.
CheckerReturns(r, c) ==
  /\ checkCall[r][c].pc = "looked"
  /\ resultCache' = [resultCache EXCEPT ![c] = [status |-> checkCall[r][c].status, age |-> 0]]
  /\ SetCheck(r, c, "done", checkCall[r][c].status)
  /\ UNCHANGED <<condition, illFor, overall>>

CalculateOverallStatus(results) ==
  CASE results = {} -> "unknown"
    [] "unhealthy" \in results -> "unhealthy"
    [] "degraded" \in results -> "degraded"
    [] OTHER -> "healthy"

CheckEnds(r) ==
  /\ overall[r] = "none"
  /\ \A c \in SystemComponents : checkCall[r][c].pc = "done"
  /\ overall' = [overall EXCEPT ![r] =
       CalculateOverallStatus({checkCall[r][c].status : c \in SystemComponents})]
  /\ UNCHANGED <<condition, illFor, resultCache, checkCall>>

\* The client has its answer and asks again.
Answered(r) ==
  /\ overall[r] # "none"
  /\ overall' = [overall EXCEPT ![r] = "none"]
  /\ checkCall' = [checkCall EXCEPT ![r] = [c \in SystemComponents |-> NoCheck]]
  /\ UNCHANGED <<condition, illFor, resultCache>>

(***************************************************************************)
(* The world.                                                              *)
(***************************************************************************)
ConditionChanges(c, seen) ==
  /\ condition' = [condition EXCEPT ![c] = seen]
  /\ illFor' = [illFor EXCEPT ![c] = IF CheckerOf(c, seen) = "healthy" THEN 0 ELSE @]
  /\ UNCHANGED <<resultCache, checkCall, overall>>

\* A second passes; no check is under way for longer than its timeout and an
\* answer is calculated and read at once.
SecondPasses ==
  /\ \A r \in HealthCalls :
       /\ overall[r] = "none"
       /\ \E c \in SystemComponents : checkCall[r][c].pc # "done"
       /\ \A c \in SystemComponents : checkCall[r][c].pc \in {"submitted", "looked"}
                                      => checkCall[r][c].age < CheckTimeout
  /\ illFor' = [c \in SystemComponents |-> IF Fine(c) THEN 0 ELSE Older(illFor[c])]
  /\ resultCache' = [c \in SystemComponents |->
                       IF resultCache[c].status # "healthy" THEN resultCache[c]
                       ELSE [resultCache[c] EXCEPT !.age = Older(@)]]
  /\ checkCall' = [r \in HealthCalls |-> [c \in SystemComponents |->
                     IF checkCall[r][c].pc \in {"none", "done"} THEN checkCall[r][c]
                     ELSE [checkCall[r][c] EXCEPT !.age = @ + 1]]]
  /\ UNCHANGED <<condition, overall>>

SystemHealthNext ==
  \/ \E r \in HealthCalls :
       \/ CheckBegins(r) \/ CheckEnds(r) \/ Answered(r)
       \/ \E c \in SystemComponents :
            CachedResult(r, c) \/ CheckerLooks(r, c) \/ CheckerReturns(r, c)
  \/ \E c \in SystemComponents : \E seen \in Conditions(c) : ConditionChanges(c, seen)
  \/ SecondPasses

SystemHealthSpec == SystemHealthInit /\ [][SystemHealthNext]_systemVars

(***************************************************************************)
(* Properties.                                                             *)
(***************************************************************************)
SystemHealthTypeOK ==
  /\ \A c \in SystemComponents : condition[c] \in Conditions(c)
  /\ illFor \in [SystemComponents -> 0..AgeLimit]
  /\ resultCache \in [SystemComponents ->
       [status : {"none", "healthy", "degraded", "unhealthy"}, age : 0..AgeLimit]]
  /\ overall \in [HealthCalls -> {"none", "healthy", "degraded", "unhealthy", "unknown"}]

\* An answer "healthy" is never older than the cache allows: each component was
\* healthy at some moment of the last CacheTTL + 2 * CheckTimeout seconds. The
\* check that filled the cache and the request that reads it take a timeout
\* each, and requests that find a result in the cache do not prolong it.
HealthyIsRecent ==
  \A r \in HealthCalls : overall[r] = "healthy" =>
    \A c \in SystemComponents : illFor[c] <= Staleness
=============================================================================
