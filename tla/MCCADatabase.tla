---------------------------- MODULE MCCADatabase ----------------------------
(* CADatabase with an administrator the configuration names and a user. *)
EXTENDS CADatabase

CONSTANTS admin, user, r1, r2

MCConfigured == <<admin>>
=============================================================================
