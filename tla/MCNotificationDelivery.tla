----------------------- MODULE MCNotificationDelivery -----------------------
(* NotificationDelivery on small instances. *)
EXTENDS NotificationDelivery, TLC

Symmetric == Permutations(Sessions)
=============================================================================
