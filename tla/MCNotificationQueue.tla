----------------------- MODULE MCNotificationQueue -----------------------
(* Instances of NotificationQueue for TLC. *)
EXTENDS NotificationQueue, TLC

CONSTANTS d1

\* All notifications go to one device, so that a short buffer overflows.
MCDeviceOf == [n \in Notifs |-> d1]

\* Tokens, notifications and the goroutines of one kind are interchangeable.
MCSymmetry == Permutations(Tokens) \cup Permutations(Notifs)
                \cup Permutations(Workers) \cup Permutations(Retriers)
=============================================================================
