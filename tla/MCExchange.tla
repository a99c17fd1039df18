------------------------------ MODULE MCExchange ------------------------------
(* Exchange with two clients and two identities, one of them registered. *)
EXTENDS Exchange

CONSTANTS c1, c2

MCListed == <<"result", "identities">>
MCRegistered == <<"alice">>
=============================================================================
