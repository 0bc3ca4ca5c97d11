-------------------------- MODULE MCSubscriptions --------------------------
(* One socket is enough: the sockets of a user share the database and the   *)
(* groups, and no message of one consumer reaches another.  Two job slots   *)
(* let a recheck and a subscribe, or two subscribes, overlap.               *)
EXTENDS Subscriptions
=============================================================================
