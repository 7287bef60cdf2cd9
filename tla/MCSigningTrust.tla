--------------------------- MODULE MCSigningTrust ---------------------------
(* Instances of SigningTrust for TLC: the Owner with a Device and a Member    *)
(* with one, or two Devices of the Owner.                                     *)
EXTENDS SigningTrust, TLC

CONSTANTS owner, mate, d1, d2

MCOwnerOf == d1 :> owner @@ d2 :> mate
MCTrue == {0}
=============================================================================
