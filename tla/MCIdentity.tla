----------------------------- MODULE MCIdentity ----------------------------
(* One owner, three sessions and two authenticators over three codes.        *)
EXTENDS Identity
=============================================================================
