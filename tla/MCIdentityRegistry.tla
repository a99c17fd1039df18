------------------------- MODULE MCIdentityRegistry -------------------------
(***************************************************************************)
(* Instances of IdentityRegistry for TLC: the bootstrap identity "admin"   *)
(* manages itself and one identity "user".  Requests and serial numbers    *)
(* are interchangeable.                                                    *)
(***************************************************************************)
EXTENDS IdentityRegistry, TLC

CONSTANTS admin, user

MCIds == {admin, user}
MCScope == {<<admin, admin>>, <<admin, user>>}

MCReqMax == {-2, -1, 0, 2}

HandlerOps == {"enroll", "reenroll", "register", "revokeName", "revokeSerial",
               "modify", "delete"}
EveryOp == HandlerOps \cup {"start"}

Symmetry == Permutations(Requests) \cup Permutations(Serials)
=============================================================================
