--------------------------- MODULE MCDurableOutbox ---------------------------
(***************************************************************************)
(* Small instances of DurableOutbox.  The capacity is one record in the    *)
(* passing run, so that Protected records alone exceed it with an          *)
(* evictable one beside them; the faults, the retention classes and the    *)
(* cloud's history are chosen in each .cfg.                                *)
(***************************************************************************)
EXTENDS DurableOutbox

Symm == Permutations(EnvelopeIds)
=============================================================================
