----------------------------- MODULE MCUplinkLink -----------------------------
(***************************************************************************)
(* Small instances of UplinkLink: a window of two records, an idle         *)
(* timeout of two read timeouts, and the budgets of faults in each .cfg.   *)
(***************************************************************************)
EXTENDS UplinkLink
=============================================================================
