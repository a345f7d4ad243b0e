---------------------------- MODULE LeaseQueue ----------------------------
(***************************************************************************)
(* What the modem arbiter promises: one holder, and no normal caller is    *)
(* let in while an authentication is waiting.  ModemArbiter implements it  *)
(* with a mutex, a condition variable and two counters.                    *)
(***************************************************************************)
CONSTANTS Thread, NoThread

VARIABLES holder,    \* who has the modules
          class,     \* the priority it was let in with, or "none"
          urgent,    \* callers waiting with priority Aka
          ordinary   \* callers waiting with priority Normal

queueVars == <<holder, class, urgent, ordinary>>

QueueInit == holder = NoThread /\ class = "none" /\ urgent = {} /\ ordinary = {}

Idle(t) == t \notin urgent \cup ordinary \cup {holder}

Queue(t) ==
    /\ Idle(t)
    /\ \/ urgent' = urgent \cup {t} /\ UNCHANGED ordinary
       \/ ordinary' = ordinary \cup {t} /\ UNCHANGED urgent
    /\ UNCHANGED <<holder, class>>

Grant(t) ==
    /\ holder = NoThread
    /\ \/ t \in urgent /\ class' = "aka"
       \/ t \in ordinary /\ urgent = {} /\ class' = "normal"
    /\ holder' = t
    /\ urgent' = urgent \ {t}
    /\ ordinary' = ordinary \ {t}

\* A caller that finds the modules free is let in without waiting.
EnterAtOnce(t) ==
    /\ Idle(t)
    /\ holder = NoThread
    /\ class' = "aka" \/ (class' = "normal" /\ urgent = {})
    /\ holder' = t
    /\ UNCHANGED <<urgent, ordinary>>

GiveBack ==
    /\ holder # NoThread
    /\ holder' = NoThread
    /\ class' = "none"
    /\ UNCHANGED <<urgent, ordinary>>

QueueNext == GiveBack \/ \E t \in Thread : Queue(t) \/ Grant(t) \/ EnterAtOnce(t)

QueueSpec == QueueInit /\ [][QueueNext]_queueVars
=============================================================================
