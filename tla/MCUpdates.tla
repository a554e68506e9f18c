----------------------------- MODULE MCUpdates -----------------------------
(* Two releases on the offline channel, and a beta release, signed with the *)
(* other key, that only an installation of the second can be updated to.    *)
EXTENDS UpdateManager

CONSTANTS offline, beta, k1, k2

MCBundle ==
    <<[version |-> 1, minFrom |-> 0, channel |-> offline, key |-> k1],
      [version |-> 2, minFrom |-> 0, channel |-> offline, key |-> k1],
      [version |-> 3, minFrom |-> 2, channel |-> beta, key |-> k2]>>
=============================================================================
