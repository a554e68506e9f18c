-------------------------- MODULE MCEventLedger --------------------------
(* Two runs, four events and two crashes: enough for a write to be torn,   *)
(* recovered, appended to, torn and recovered again.                       *)
EXTENDS EventLedger
=============================================================================
