-------------------------- MODULE NotificationLife --------------------------
(***************************************************************************)
(* What the notification subsystem promises about a notification, whoever  *)
(* works on it (the caller of Enqueue, a worker, a retry, an               *)
(* acknowledgement, the web UI, a revocation, a restart): once accepted it *)
(* waits in memory until it is stored or lost, it is stored at most once,  *)
(* and what is stored is no longer lost: it goes when somebody deletes it, *)
(* for good.  It counts as delivered only after its device acknowledged    *)
(* it, and nobody acknowledges what was not stored.                        *)
(* NotificationQueue.tla implements this specification.                    *)
(***************************************************************************)
CONSTANT Notifs

VARIABLES
    life,   \* "new", "memory" or "lost", the status of its row, or "deleted"
    acked   \* notifications their device has acknowledged

RowStates == {"pending", "delivered", "failed", "expired", "dismissed"}

With(states) == {n \in Notifs : life[n] \in states}

LifeInit == life = [n \in Notifs |-> "new"] /\ acked = {}

Become(S, state) ==
    /\ life' = [n \in Notifs |-> IF n \in S THEN state ELSE life[n]]
    /\ UNCHANGED acked

\* A caller whose notification finds no room in memory stores it itself.
Accept(n) == n \in With({"new"}) /\ (Become({n}, "memory") \/ Become({n}, "pending"))
Store(n) == n \in With({"memory"}) /\ Become({n}, "pending")

\* TTL over, insert failed or, for all of them at once, the process ended.
Lose(S) == S \subseteq With({"memory"}) /\ Become(S, "lost")

Acknowledge(n) ==
    /\ n \in With(RowStates \cup {"deleted"})
    /\ acked' = acked \cup {n}
    /\ UNCHANGED life

\* A late answer is an answer: whatever the row says, it may become delivered.
Deliver(S) == S \subseteq With(RowStates) \cap acked /\ Become(S, "delivered")

\* Retries and expiry do not ask what the row says; a dismissal does.
Renew(S) == S \subseteq With(RowStates) /\ Become(S, "pending")
Fail(S) == S \subseteq With(RowStates) /\ Become(S, "failed")
Expire(S) == S \subseteq With(RowStates) /\ Become(S, "expired")
Dismiss(S) == S \subseteq With({"pending"}) /\ Become(S, "dismissed")
Delete(S) == S \subseteq With(RowStates) /\ Become(S, "deleted")

LifeNext ==
    \/ \E n \in Notifs : Accept(n) \/ Store(n) \/ Acknowledge(n)
    \/ \E S \in SUBSET Notifs : \/ Lose(S) \/ Deliver(S) \/ Renew(S) \/ Fail(S)
                                \/ Expire(S) \/ Dismiss(S) \/ Delete(S)

LifeSpec == LifeInit /\ [][LifeNext]_<<life, acked>>
=============================================================================
