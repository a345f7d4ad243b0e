--------------------------- MODULE ModemArbiter ---------------------------
(***************************************************************************)
(* The arbiter every conversation with a module goes through, and the      *)
(* local socket that lends it to the tunnel process (edge-modem/src/at.rs, *)
(* ModemArbiter, ModemLease, serve_lease).                                 *)
(*                                                                         *)
(* An action is one critical section of the mutex, or the notification     *)
(* that follows one.  A thread on the condition variable sleeps until it   *)
(* is notified; it may also wake for no reason.                            *)
(***************************************************************************)
EXTENDS Naturals, FiniteSets

CONSTANTS Local,        \* threads of the daemon: poll loop, commands, panel
          Client,       \* connections to the lease socket
          MaxClients,   \* MAX_LEASE_CLIENTS
          MaxAka,       \* bound: authentications asked for
          NoThread      \* nobody

Thread == Local \cup Client

ASSUME ArbiterAssumption ==
    /\ MaxClients \in Nat /\ MaxAka \in Nat
    /\ IsFiniteSet(Thread)
    /\ NoThread \notin Thread

VARIABLES
    held,            \* ArbiterState::held
    waitingNormal,   \* ArbiterState::waiting_normal
    waitingAka,      \* ArbiterState::waiting_aka
    at,              \* where each thread is
    priority,        \* ModemPriority of each thread's present call
    conns,           \* clients connected to the socket
    akas             \* authentications asked for so far

arbiterVars == <<held, waitingNormal, waitingAka, at, priority, conns, akas>>

ArbiterInit ==
    /\ held = FALSE
    /\ waitingNormal = 0
    /\ waitingAka = 0
    /\ at = [t \in Thread |-> "idle"]
    /\ priority = [t \in Thread |-> "normal"]
    /\ conns = {}
    /\ akas = 0

-----------------------------------------------------------------------------
\* Mutants: normal callers do not wait for queued authentications; one waiter
\* is woken instead of all; a woken caller is left in the count.
MustWaitMutant(p, isHeld, akaQueued) == isHeld

NotifyAllMutant(t) ==
    /\ at[t] = "notifying"
    /\ LET sleepers == {u \in Thread : at[u] = "asleep"}
       IN  \/ sleepers = {} /\ at' = [at EXCEPT ![t] = "idle"]
           \/ \E u \in sleepers : at' = [at EXCEPT ![t] = "idle", ![u] = "woken"]
    /\ UNCHANGED <<held, waitingAka, waitingNormal, priority, conns, akas>>

\* The condition of the two loops of acquire: an AKA caller waits for the
\* holder only, a normal caller also for every AKA caller in the queue.
MustWait(p, isHeld, akaQueued) ==
    isHeld \/ (p = "normal" /\ akaQueued > 0)

RecheckMutant(t) ==
    /\ at[t] = "woken"
    /\ IF MustWait(priority[t], held, waitingAka)
       THEN at' = [at EXCEPT ![t] = "asleep"] /\ UNCHANGED <<held, waitingAka, waitingNormal>>
       ELSE /\ at' = [at EXCEPT ![t] = "holding"]
            /\ held' = TRUE
            /\ UNCHANGED <<waitingAka, waitingNormal>>
    /\ UNCHANGED <<priority, conns, akas>>

\* acquire, up to the first test of the loop: the caller is counted before it
\* looks, and is taken off the count when it need not wait.
Acquire(t, p) ==
    LET aka == IF p = "aka" THEN waitingAka + 1 ELSE waitingAka
    IN  /\ at[t] = "idle"
        /\ priority' = [priority EXCEPT ![t] = p]
        /\ akas' = IF p = "aka" THEN akas + 1 ELSE akas
        /\ akas' <= MaxAka
        /\ IF MustWait(p, held, aka)
           THEN /\ at' = [at EXCEPT ![t] = "asleep"]
                /\ waitingAka' = aka
                /\ waitingNormal' = IF p = "normal" THEN waitingNormal + 1 ELSE waitingNormal
                /\ UNCHANGED held
           ELSE /\ at' = [at EXCEPT ![t] = "holding"]
                /\ held' = TRUE
                /\ UNCHANGED <<waitingAka, waitingNormal>>
        /\ UNCHANGED conns

\* The rest of the loop: a woken thread tests again, and sleeps again or enters.
\* An AKA caller is itself among waiting_aka, which its own test ignores.
Recheck(t) ==
    /\ at[t] = "woken"
    /\ IF MustWait(priority[t], held, waitingAka)
       THEN /\ at' = [at EXCEPT ![t] = "asleep"]
            /\ UNCHANGED <<held, waitingAka, waitingNormal>>
       ELSE /\ at' = [at EXCEPT ![t] = "holding"]
            /\ held' = TRUE
            /\ waitingAka' = IF priority[t] = "aka" THEN waitingAka - 1 ELSE waitingAka
            /\ waitingNormal' = IF priority[t] = "normal" THEN waitingNormal - 1 ELSE waitingNormal
    /\ UNCHANGED <<priority, conns, akas>>

\* release, from ModemLease::drop, in its two parts: the flag under the mutex,
\* and the notification after it.
Release(t) ==
    /\ at[t] = "holding"
    /\ held' = FALSE
    /\ at' = [at EXCEPT ![t] = "notifying"]
    /\ UNCHANGED <<waitingAka, waitingNormal, priority, conns, akas>>

NotifyAll(t) ==
    /\ at[t] = "notifying"
    /\ at' = [u \in Thread |-> IF u = t THEN "idle"
                               ELSE IF at[u] = "asleep" THEN "woken" ELSE at[u]]
    /\ UNCHANGED <<held, waitingAka, waitingNormal, priority, conns, akas>>

\* Condvar::wait may return without a notification.
SpuriousWake(t) ==
    /\ at[t] = "asleep"
    /\ at' = [at EXCEPT ![t] = "woken"]
    /\ UNCHANGED <<held, waitingAka, waitingNormal, priority, conns, akas>>

-----------------------------------------------------------------------------
\* serve_lease: past MAX_LEASE_CLIENTS a connection is refused.
Connect(c) ==
    /\ c \notin conns
    /\ Cardinality(conns) < MaxClients
    /\ conns' = conns \cup {c}
    /\ UNCHANGED <<held, waitingNormal, waitingAka, at, priority, akas>>

\* serve_connection ends between two requests: it reads the next line only
\* after it has answered the last.
Disconnect(c) ==
    /\ c \in conns
    /\ at[c] = "idle"
    /\ conns' = conns \ {c}
    /\ UNCHANGED <<held, waitingNormal, waitingAka, at, priority, akas>>

\* handle_lease_request: execute_at at either priority, authenticate at aka.
HandleLeaseRequest(c) ==
    /\ c \in conns
    /\ \E p \in {"normal", "aka"} : Acquire(c, p)

ArbiterNext ==
    \/ \E t \in Local : Acquire(t, "normal")
    \/ \E c \in Client : Connect(c) \/ Disconnect(c) \/ HandleLeaseRequest(c)
    \/ \E t \in Thread : Recheck(t) \/ Release(t) \/ NotifyAll(t) \/ SpuriousWake(t)

ArbiterSpec == ArbiterInit /\ [][ArbiterNext]_arbiterVars

\* Every piece of work under a lease has a timeout of its own, so a holder
\* comes to an end; a thread that can take the mutex takes it.  Nothing is
\* assumed of the order in which woken threads get the mutex.
FairArbiterSpec ==
    /\ ArbiterSpec
    /\ \A t \in Thread :
          WF_arbiterVars(Recheck(t)) /\ WF_arbiterVars(Release(t)) /\ WF_arbiterVars(NotifyAll(t))

-----------------------------------------------------------------------------
Holding == {t \in Thread : at[t] = "holding"}
Queued(p) == {t \in Thread : at[t] \in {"asleep", "woken"} /\ priority[t] = p}

\* The flag and the counters are the truth about the threads: the flag is set
\* while one thread has the modules, never two, and each counter is the number
\* of threads in its loop (ModemArbiter::waiting shows them to an operator).
FlagsAgree ==
    /\ held = (Holding # {})
    /\ Cardinality(Holding) <= 1
    /\ waitingAka = Cardinality(Queued("aka"))
    /\ waitingNormal = Cardinality(Queued("normal"))

\* The arbiter is the queue it promises to be, steps of the condition variable
\* included: those are stutters of the queue.
Holder == CHOOSE t \in Thread : at[t] = "holding"
Promise == INSTANCE LeaseQueue WITH
    holder <- IF Holding = {} THEN NoThread ELSE Holder,
    class <- IF Holding = {} THEN "none" ELSE priority[Holder],
    urgent <- Queued("aka"),
    ordinary <- Queued("normal")

KeepsPromise == Promise!QueueSpec

\* An authentication that waits gets the modules, whatever else wants them:
\* it sleeps through no release, and no normal caller gets in before it.
AkaServed == \A t \in Client : t \in Queued("aka") ~> at[t] = "holding"
=============================================================================
