---------------------------- MODULE AccessProofs ----------------------------
(***************************************************************************)
(* What the protocols of MCAccess promise, for any number of threads,      *)
(* groups, candidates, messages, client ids, calls and samples: the lease  *)
(* over the modules, the IKE probe, the submission of messages, the        *)
(* enrolment, and the voice process with its echo.                         *)
(***************************************************************************)
EXTENDS ModemArbiter, IkeProbe, SmsSubmit, Enrolment, VoiceBridge, FiniteSetTheorems, TLAPS

(***************************************************************************)
(* The lease: the flag and the counters of ModemArbiter are the truth, and *)
(* it is the queue with one holder and two classes that LeaseQueue         *)
(* describes.                                                              *)
(***************************************************************************)
Place == {"idle", "asleep", "woken", "holding", "notifying"}
Class == {"normal", "aka"}

\* Where the threads are and what they asked for.
ArbiterTypeOK ==
    /\ at \in [Thread -> Place]
    /\ priority \in [Thread -> Class]
    /\ held \in BOOLEAN

\* At most one thread has the modules.
Exclusive == \A t, u \in Thread : at[t] = "holding" /\ at[u] = "holding" => t = u

CountsAgree ==
    /\ waitingAka = Cardinality(Queued("aka"))
    /\ waitingNormal = Cardinality(Queued("normal"))

\* The inductive invariant.  It is FlagsAgree with the types, and with "at most
\* one" said of the threads instead of their number.
ArbiterInv ==
    /\ ArbiterTypeOK
    /\ held = (Holding # {})
    /\ Exclusive
    /\ CountsAgree

-----------------------------------------------------------------------------
\* A queue is finite, as the threads are.
LEMMA QueuesFinite ==
    ASSUME NEW p
    PROVE  IsFiniteSet(Queued(p)) /\ Cardinality(Queued(p)) \in Nat
<1>1. Queued(p) \subseteq Thread
  BY DEF Queued
<1>2. IsFiniteSet(Queued(p))
  BY <1>1, ArbiterAssumption, FS_Subset
<1> QED
  BY <1>2, FS_CardinalityType

\* A thread that starts to wait is one more in its queue.
LEMMA JoinCounts ==
    ASSUME NEW S, IsFiniteSet(S), NEW t, t \notin S
    PROVE  Cardinality(S \cup {t}) = Cardinality(S) + 1
BY FS_AddElement, FS_CardinalityType

\* A thread that stops waiting is one less, and the count was not zero.
LEMMA LeaveCounts ==
    ASSUME NEW S, IsFiniteSet(S), NEW t \in S
    PROVE  Cardinality(S \ {t}) = Cardinality(S) - 1
BY FS_RemoveElement, FS_CardinalityType

\* ArbiterState::default: nobody holds and nobody waits.
LEMMA ArbiterInitInv == ArbiterInit => ArbiterInv
<1> SUFFICES ASSUME ArbiterInit PROVE ArbiterInv
  OBVIOUS
<1>1. ArbiterTypeOK /\ Exclusive /\ Holding = {}
  BY DEF ArbiterInit, ArbiterTypeOK, Exclusive, Holding, Place, Class
<1>2. Queued("aka") = {} /\ Queued("normal") = {}
  BY DEF ArbiterInit, Queued
<1>3. CountsAgree
  BY <1>2, FS_EmptySet DEF ArbiterInit, CountsAgree
<1> QED
  BY <1>1, <1>3 DEF ArbiterInit, ArbiterInv

\* A step that moves no thread into or out of a queue or the modules.
LEMMA QuietStep ==
    ASSUME ArbiterInv, UNCHANGED <<held, waitingAka, waitingNormal, priority>>,
           at' \in [Thread -> Place],
           \A u \in Thread : /\ at'[u] = "holding" <=> at[u] = "holding"
                             /\ at'[u] \in {"asleep", "woken"} <=> at[u] \in {"asleep", "woken"}
    PROVE  ArbiterInv' /\ UNCHANGED <<Holding, Queued("aka"), Queued("normal")>>
<1>1. UNCHANGED <<Holding, Queued("aka"), Queued("normal")>>
  BY DEF Holding, Queued
<1>2. ArbiterTypeOK' /\ Exclusive'
  BY DEF ArbiterInv, ArbiterTypeOK, Exclusive
<1>3. CountsAgree'
  BY <1>1 DEF ArbiterInv, CountsAgree
<1> QED
  BY <1>1, <1>2, <1>3 DEF ArbiterInv

\* acquire, when the caller has to wait: it is in its queue and in no other.
LEMMA AcquireWaits ==
    ASSUME ArbiterInv, NEW t \in Thread, NEW p \in Class, Acquire(t, p),
           MustWait(p, held, IF p = "aka" THEN waitingAka + 1 ELSE waitingAka)
    PROVE  /\ ArbiterInv'
           /\ Holding' = Holding
           /\ at' = [at EXCEPT ![t] = "asleep"]
           /\ t \notin Queued("aka") \cup Queued("normal") \cup Holding
           /\ Queued("aka")' = IF p = "aka" THEN Queued("aka") \cup {t} ELSE Queued("aka")
           /\ Queued("normal")' = IF p = "normal" THEN Queued("normal") \cup {t} ELSE Queued("normal")
<1> USE DEF ArbiterInv, ArbiterTypeOK
<1>1. /\ at[t] = "idle"
      /\ at' = [at EXCEPT ![t] = "asleep"]
      /\ priority' = [priority EXCEPT ![t] = p]
      /\ held' = held
      /\ waitingAka' = IF p = "aka" THEN waitingAka + 1 ELSE waitingAka
      /\ waitingNormal' = IF p = "normal" THEN waitingNormal + 1 ELSE waitingNormal
  BY DEF Acquire
<1>2. t \notin Queued("aka") \cup Queued("normal") \cup Holding
  BY <1>1 DEF Queued, Holding
<1>3. Queued("aka")' = IF p = "aka" THEN Queued("aka") \cup {t} ELSE Queued("aka")
  BY <1>1 DEF Queued, Class
<1>4. Queued("normal")' = IF p = "normal" THEN Queued("normal") \cup {t} ELSE Queued("normal")
  BY <1>1 DEF Queued, Class
<1>5. CountsAgree'
  <2>1. CASE p = "aka"
    BY <2>1, <1>1, <1>2, <1>3, <1>4, QueuesFinite, JoinCounts DEF CountsAgree
  <2>2. CASE p = "normal"
    BY <2>2, <1>1, <1>2, <1>3, <1>4, QueuesFinite, JoinCounts DEF CountsAgree
  <2> QED
    BY <2>1, <2>2 DEF Class
<1>6. Holding' = Holding /\ ArbiterTypeOK' /\ Exclusive'
  BY <1>1 DEF Holding, Exclusive, Place, Class
<1> QED
  BY <1>1, <1>2, <1>3, <1>4, <1>5, <1>6

\* acquire, when it need not wait: the modules are free and it has them, and a
\* normal caller found no authentication in the queue.
LEMMA AcquireEnters ==
    ASSUME ArbiterInv, NEW t \in Thread, NEW p \in Class, Acquire(t, p),
           ~MustWait(p, held, IF p = "aka" THEN waitingAka + 1 ELSE waitingAka)
    PROVE  /\ ArbiterInv'
           /\ Holding = {} /\ at' = [at EXCEPT ![t] = "holding"] /\ priority'[t] = p
           /\ t \notin Queued("aka") \cup Queued("normal")
           /\ p = "normal" => Queued("aka") = {}
           /\ UNCHANGED <<Queued("aka"), Queued("normal")>>
<1> USE DEF ArbiterInv, ArbiterTypeOK
<1>1. /\ at[t] = "idle"
      /\ at' = [at EXCEPT ![t] = "holding"]
      /\ priority' = [priority EXCEPT ![t] = p]
      /\ held' = TRUE
      /\ waitingAka' = waitingAka
      /\ waitingNormal' = waitingNormal
  BY DEF Acquire
<1>2. Holding = {}
  BY DEF MustWait
<1>3. p = "normal" => Queued("aka") = {}
  <2> SUFFICES ASSUME p = "normal" PROVE Queued("aka") = {}
    OBVIOUS
  <2>1. ~(waitingAka > 0)
    BY DEF MustWait
  <2>2. Cardinality(Queued("aka")) = 0
    BY <2>1, QueuesFinite DEF CountsAgree
  <2> QED
    BY <2>2, QueuesFinite, FS_EmptySet
<1>4. UNCHANGED <<Queued("aka"), Queued("normal")>> /\ t \notin Queued("aka") \cup Queued("normal")
  BY <1>1 DEF Queued
<1>5. Holding' # {} /\ Exclusive' /\ ArbiterTypeOK'
  BY <1>1, <1>2 DEF Holding, Exclusive, Place, Class
<1>6. CountsAgree'
  BY <1>1, <1>4 DEF CountsAgree
<1> QED
  BY <1>1, <1>2, <1>3, <1>4, <1>5, <1>6

\* A woken caller that need not wait any more: it leaves its queue for the
\* modules, which are free.
LEMMA RecheckEnters ==
    ASSUME ArbiterInv, NEW t \in Thread, Recheck(t), ~MustWait(priority[t], held, waitingAka)
    PROVE  /\ ArbiterInv'
           /\ Holding = {} /\ at' = [at EXCEPT ![t] = "holding"] /\ priority' = priority
           /\ t \in Queued(priority[t])
           /\ priority[t] = "normal" => Queued("aka") = {}
           /\ Queued("aka")' = Queued("aka") \ {t}
           /\ Queued("normal")' = Queued("normal") \ {t}
<1> USE DEF ArbiterInv, ArbiterTypeOK
<1>1. /\ at[t] = "woken"
      /\ at' = [at EXCEPT ![t] = "holding"]
      /\ priority' = priority
      /\ held' = TRUE
      /\ waitingAka' = IF priority[t] = "aka" THEN waitingAka - 1 ELSE waitingAka
      /\ waitingNormal' = IF priority[t] = "normal" THEN waitingNormal - 1 ELSE waitingNormal
  BY DEF Recheck
<1>2. Holding = {}
  BY DEF MustWait
<1>3. priority[t] = "normal" => Queued("aka") = {}
  <2> SUFFICES ASSUME priority[t] = "normal" PROVE Queued("aka") = {}
    OBVIOUS
  <2>1. ~(waitingAka > 0)
    BY DEF MustWait
  <2>2. Cardinality(Queued("aka")) = 0
    BY <2>1, QueuesFinite DEF CountsAgree
  <2> QED
    BY <2>2, QueuesFinite, FS_EmptySet
<1>4. t \in Queued(priority[t]) /\ \A p \in Class : t \in Queued(p) => p = priority[t]
  BY <1>1 DEF Queued
<1>5. Queued("aka")' = Queued("aka") \ {t}
  BY <1>1 DEF Queued
<1>6. Queued("normal")' = Queued("normal") \ {t}
  BY <1>1 DEF Queued
<1>7. CountsAgree'
  <2>1. CASE priority[t] = "aka"
    <3>1. Queued("normal") \ {t} = Queued("normal")
      BY <2>1, <1>4 DEF Class
    <3> QED
      BY <2>1, <3>1, <1>1, <1>4, <1>5, <1>6, QueuesFinite, LeaveCounts DEF CountsAgree
  <2>2. CASE priority[t] = "normal"
    <3>1. Queued("aka") \ {t} = Queued("aka")
      BY <2>2, <1>4 DEF Class
    <3> QED
      BY <2>2, <3>1, <1>1, <1>4, <1>5, <1>6, QueuesFinite, LeaveCounts DEF CountsAgree
  <2> QED
    BY <2>1, <2>2 DEF Class
<1>8. Holding' # {} /\ Exclusive' /\ ArbiterTypeOK'
  BY <1>1, <1>2 DEF Holding, Exclusive, Place
<1> QED
  BY <1>1, <1>2, <1>3, <1>4, <1>5, <1>6, <1>7, <1>8

\* release: the holder was alone, so nobody has the modules any more.
LEMMA ReleaseFrees ==
    ASSUME ArbiterInv, NEW t \in Thread, Release(t)
    PROVE  /\ ArbiterInv'
           /\ at[t] = "holding" /\ Holding' = {}
           /\ UNCHANGED <<Queued("aka"), Queued("normal")>>
<1> USE DEF ArbiterInv, ArbiterTypeOK
<1>1. /\ at[t] = "holding"
      /\ at' = [at EXCEPT ![t] = "notifying"]
      /\ held' = FALSE
      /\ UNCHANGED <<waitingAka, waitingNormal, priority>>
  BY DEF Release
<1>2. Holding' = {}
  BY <1>1 DEF Holding, Exclusive
<1>3. UNCHANGED <<Queued("aka"), Queued("normal")>>
  BY <1>1 DEF Queued
<1>4. ArbiterTypeOK' /\ Exclusive'
  BY <1>1, <1>2 DEF Exclusive, Place, Holding
<1>5. CountsAgree'
  BY <1>1, <1>3 DEF CountsAgree
<1> QED
  BY <1>1, <1>2, <1>3, <1>4, <1>5

\* The steps of the condition variable and of the connections are quiet.
LEMMA QuietActions ==
    ASSUME ArbiterInv, NEW t \in Thread,
           \/ Recheck(t) /\ MustWait(priority[t], held, waitingAka)
           \/ NotifyAll(t) \/ SpuriousWake(t)
           \/ Connect(t) \/ Disconnect(t)
           \/ UNCHANGED arbiterVars
    PROVE  /\ ArbiterInv'
           /\ UNCHANGED <<Holding, Queued("aka"), Queued("normal"), priority>>
           /\ \A u \in Thread : at'[u] = "holding" <=> at[u] = "holding"
<1> USE DEF ArbiterInv, ArbiterTypeOK
<1>1. UNCHANGED <<held, waitingAka, waitingNormal, priority>>
  BY DEF Recheck, NotifyAll, SpuriousWake, Connect, Disconnect, arbiterVars
<1>2. /\ at' \in [Thread -> Place]
      /\ \A u \in Thread :
            /\ at'[u] = "holding" <=> at[u] = "holding"
            /\ at'[u] \in {"asleep", "woken"} <=> at[u] \in {"asleep", "woken"}
  <2>1. CASE Recheck(t) /\ MustWait(priority[t], held, waitingAka)
    BY <2>1 DEF Recheck, Place
  <2>2. CASE NotifyAll(t)
    BY <2>2 DEF NotifyAll, Place
  <2>3. CASE SpuriousWake(t)
    BY <2>3 DEF SpuriousWake, Place
  <2>4. CASE Connect(t) \/ Disconnect(t) \/ UNCHANGED arbiterVars
    BY <2>4 DEF Connect, Disconnect, arbiterVars
  <2> QED
    BY <2>1, <2>2, <2>3, <2>4
<1> QED
  BY <1>1, <1>2, QuietStep

\* Every step of the arbiter is one of these.
LEMMA NextCases ==
    ASSUME ArbiterNext
    PROVE  \E t \in Thread :
              \/ \E p \in Class : Acquire(t, p)
              \/ Recheck(t) \/ Release(t) \/ NotifyAll(t) \/ SpuriousWake(t)
              \/ Connect(t) \/ Disconnect(t)
BY DEF ArbiterNext, HandleLeaseRequest, Thread, Class

\* Each step keeps the invariant.
LEMMA ArbiterNextInv == ArbiterInv /\ [ArbiterNext]_arbiterVars => ArbiterInv'
<1> SUFFICES ASSUME ArbiterInv, [ArbiterNext]_arbiterVars PROVE ArbiterInv'
  OBVIOUS
<1>1. CASE ArbiterNext
  <2>1. PICK t \in Thread :
              \/ \E p \in Class : Acquire(t, p)
              \/ Recheck(t) \/ Release(t) \/ NotifyAll(t) \/ SpuriousWake(t)
              \/ Connect(t) \/ Disconnect(t)
    BY <1>1, NextCases
  <2>2. ASSUME NEW p \in Class, Acquire(t, p) PROVE ArbiterInv'
    BY <2>2, AcquireWaits, AcquireEnters
  <2>3. CASE Recheck(t)
    BY <2>3, RecheckEnters, QuietActions
  <2>4. CASE Release(t)
    BY <2>4, ReleaseFrees
  <2>5. CASE NotifyAll(t) \/ SpuriousWake(t) \/ Connect(t) \/ Disconnect(t)
    BY <2>5, QuietActions
  <2> QED
    BY <2>1, <2>2, <2>3, <2>4, <2>5
<1>2. CASE UNCHANGED arbiterVars
  BY <1>2, QuietStep DEF arbiterVars, ArbiterInv, ArbiterTypeOK
<1> QED
  BY <1>1, <1>2

\* The invariant says what the run checks.
LEMMA ArbiterInvFlags == ArbiterInv => FlagsAgree
<1> SUFFICES ASSUME ArbiterInv PROVE Cardinality(Holding) <= 1
  BY DEF ArbiterInv, CountsAgree, FlagsAgree
<1>1. CASE Holding = {}
  BY <1>1, FS_EmptySet
<1>2. CASE Holding # {}
  <2>1. PICK t \in Thread : Holding = {t}
    BY <1>2 DEF Holding, ArbiterInv, Exclusive
  <2> QED
    BY <2>1, FS_Singleton
<1> QED
  BY <1>1, <1>2

\* The flag and the counters of the arbiter are the truth about its threads,
\* however many there are and whatever wakes them.  (at.rs, ModemArbiter.)
THEOREM FlagsAlwaysAgree == ArbiterSpec => []FlagsAgree
<1>1. ArbiterSpec => []ArbiterInv
  BY ArbiterInitInv, ArbiterNextInv, PTL DEF ArbiterSpec
<1> QED
  BY <1>1, ArbiterInvFlags, PTL

-----------------------------------------------------------------------------
\* The one thread that has the modules is the holder of the queue.
LEMMA HolderIs ==
    ASSUME Exclusive, NEW t \in Thread, at[t] = "holding"
    PROVE  Holder = t
BY DEF Holder, Exclusive

\* A new arbiter is a new queue.
LEMMA ArbiterInitQueue == ArbiterInit => Promise!QueueInit
<1> SUFFICES ASSUME ArbiterInit PROVE Promise!QueueInit
  OBVIOUS
<1>1. Holding = {} /\ Queued("aka") = {} /\ Queued("normal") = {}
  BY DEF ArbiterInit, Holding, Queued
<1> QED
  BY <1>1 DEF Promise!QueueInit

\* A step that changes neither the queues nor the holder is a stutter of the queue.
LEMMA QuietStutters ==
    ASSUME UNCHANGED <<Holding, Queued("aka"), Queued("normal"), priority>>,
           \A u \in Thread : at'[u] = "holding" <=> at[u] = "holding"
    PROVE  UNCHANGED Promise!queueVars
<1>1. Holder' = Holder
  BY DEF Holder
<1> QED
  BY <1>1 DEF Promise!queueVars

\* A thread that enters free modules becomes the holder.
LEMMA HolderEnters ==
    ASSUME ArbiterInv, ArbiterInv', NEW t \in Thread, Holding = {}, at' = [at EXCEPT ![t] = "holding"]
    PROVE  Holding' # {} /\ Holder' = t
<1>1. at'[t] = "holding"
  BY DEF ArbiterInv, ArbiterTypeOK
<1>2. \A u \in Thread : at'[u] = "holding" => u = t
  BY <1>1 DEF ArbiterInv, Exclusive
<1> QED
  BY <1>1, <1>2 DEF Holder, Holding

\* Each step of the arbiter is a step of the queue or a stutter of it.
LEMMA ArbiterNextQueue ==
    ArbiterInv /\ [ArbiterNext]_arbiterVars => [Promise!QueueNext]_(Promise!queueVars)
<1> SUFFICES ASSUME ArbiterInv, [ArbiterNext]_arbiterVars
             PROVE  Promise!QueueNext \/ UNCHANGED Promise!queueVars
  OBVIOUS
<1>0. ArbiterInv'
  BY ArbiterNextInv
<1>1. CASE ArbiterNext
  <2>1. PICK t \in Thread :
              \/ \E p \in Class : Acquire(t, p)
              \/ Recheck(t) \/ Release(t) \/ NotifyAll(t) \/ SpuriousWake(t)
              \/ Connect(t) \/ Disconnect(t)
    BY <1>1, NextCases
  <2>a. t # NoThread
    BY ArbiterAssumption
  <2>2. ASSUME NEW p \in Class, Acquire(t, p),
               MustWait(p, held, IF p = "aka" THEN waitingAka + 1 ELSE waitingAka)
        PROVE  Promise!Queue(t)
    <3>1. /\ Holding' = Holding
          /\ at' = [at EXCEPT ![t] = "asleep"]
          /\ t \notin Queued("aka") \cup Queued("normal") \cup Holding
          /\ Queued("aka")' = IF p = "aka" THEN Queued("aka") \cup {t} ELSE Queued("aka")
          /\ Queued("normal")' = IF p = "normal" THEN Queued("normal") \cup {t} ELSE Queued("normal")
      BY <2>2, AcquireWaits
    <3>2. \A u \in Holding : Holder = u /\ Holder' = u /\ u # t /\ priority'[u] = priority[u]
      <4> SUFFICES ASSUME NEW u \in Holding
                   PROVE  Holder = u /\ Holder' = u /\ u # t /\ priority'[u] = priority[u]
        OBVIOUS
      <4>1. u \in Thread /\ at[u] = "holding" /\ u # t
        BY <3>1 DEF Holding
      <4>2. at'[u] = "holding" /\ \A v \in Thread : at'[v] = "holding" => v = u
        BY <4>1, <3>1, <1>0 DEF ArbiterInv, ArbiterTypeOK, Exclusive
      <4>3. Holder' = u
        BY <4>1, <4>2 DEF Holder
      <4> QED
        BY <4>1, <4>3, <2>2, HolderIs DEF ArbiterInv, ArbiterTypeOK, Acquire
    <3>3. /\ (IF Holding = {} THEN NoThread ELSE Holder)' = IF Holding = {} THEN NoThread ELSE Holder
          /\ (IF Holding = {} THEN "none" ELSE priority[Holder])' = IF Holding = {} THEN "none" ELSE priority[Holder]
          /\ t # IF Holding = {} THEN NoThread ELSE Holder
      BY <3>1, <3>2, <2>a
    <3> QED
      BY <3>1, <3>3 DEF Promise!Queue, Promise!Idle, Class
  <2>3. ASSUME NEW p \in Class, Acquire(t, p),
               ~MustWait(p, held, IF p = "aka" THEN waitingAka + 1 ELSE waitingAka)
        PROVE  Promise!EnterAtOnce(t)
    <3>1. /\ Holding = {} /\ at' = [at EXCEPT ![t] = "holding"] /\ priority'[t] = p
          /\ t \notin Queued("aka") \cup Queued("normal")
          /\ p = "normal" => Queued("aka") = {}
          /\ UNCHANGED <<Queued("aka"), Queued("normal")>>
      BY <2>3, AcquireEnters
    <3>2. Holding' # {} /\ Holder' = t
      BY <1>0, <3>1, HolderEnters
    <3> QED
      BY <3>1, <3>2, <2>a DEF Promise!EnterAtOnce, Promise!Idle, Class
  <2>4. CASE Recheck(t) /\ ~MustWait(priority[t], held, waitingAka)
    <3>1. /\ Holding = {} /\ at' = [at EXCEPT ![t] = "holding"] /\ priority' = priority
          /\ t \in Queued(priority[t])
          /\ priority[t] = "normal" => Queued("aka") = {}
          /\ Queued("aka")' = Queued("aka") \ {t}
          /\ Queued("normal")' = Queued("normal") \ {t}
      BY <2>4, RecheckEnters
    <3>2. Holding' # {} /\ Holder' = t
      BY <1>0, <3>1, HolderEnters
    <3>3. priority[t] \in Class
      BY DEF ArbiterInv, ArbiterTypeOK
    <3>4. Promise!Grant(t)
      BY <3>1, <3>2, <3>3 DEF Promise!Grant, Class
    <3> QED
      BY <3>4 DEF Promise!QueueNext
  <2>5. CASE Release(t)
    <3>1. at[t] = "holding" /\ Holding' = {} /\ UNCHANGED <<Queued("aka"), Queued("normal")>>
      BY <2>5, ReleaseFrees
    <3>2. Holding # {} /\ Holder = t
      BY <3>1, HolderIs DEF Holding, ArbiterInv
    <3>3. Promise!GiveBack
      BY <3>1, <3>2, <2>a DEF Promise!GiveBack
    <3> QED
      BY <3>3 DEF Promise!QueueNext
  <2>6. CASE \/ Recheck(t) /\ MustWait(priority[t], held, waitingAka)
             \/ NotifyAll(t) \/ SpuriousWake(t) \/ Connect(t) \/ Disconnect(t)
    BY <2>6, QuietActions, QuietStutters
  <2>7. ASSUME NEW p \in Class, Acquire(t, p) PROVE Promise!QueueNext
    BY <2>7, <2>2, <2>3 DEF Promise!QueueNext
  <2> QED
    BY <2>1, <2>4, <2>5, <2>6, <2>7
<1>2. CASE UNCHANGED arbiterVars
  <2>1. UNCHANGED <<Holding, Queued("aka"), Queued("normal"), priority>>
    BY <1>2 DEF arbiterVars, Holding, Queued
  <2> QED
    BY <1>2, <2>1, QuietStutters DEF arbiterVars
<1> QED
  BY <1>1, <1>2

\* The arbiter is the queue it promises to be: one holder at a time, and no normal
\* caller let in while an authentication waits.  (at.rs, ModemArbiter::acquire.)
THEOREM ArbiterKeepsPromise == ArbiterSpec => KeepsPromise
<1>1. ArbiterSpec => []ArbiterInv
  BY ArbiterInitInv, ArbiterNextInv, PTL DEF ArbiterSpec
<1>2. ArbiterSpec => Promise!QueueInit
  BY ArbiterInitQueue DEF ArbiterSpec
<1>3. ArbiterSpec => [][Promise!QueueNext]_(Promise!queueVars)
  BY <1>1, ArbiterNextQueue, PTL DEF ArbiterSpec
<1> QED
  BY <1>2, <1>3, PTL DEF KeepsPromise, Promise!QueueSpec

(***************************************************************************)
(* The IKE probe.                                                          *)
(***************************************************************************)
AnyProof == {"none", "forged", "signed"}
InitBody == [kind : {"cookie", "refused"}] \cup [kind : {"invalidKE"}, group : Group]
                \cup [kind : {"sa"}, selected : Group, ke : Group]
AuthBody == [kind : {"eap"}, eap : {"identity", "challenge", "kdf", "control", "success", "failure"},
             auth : {"none", "forged"}, sa : BOOLEAN]
                \cup [kind : {"child"}, auth : AnyProof, sa : BOOLEAN]
                \cup [kind : {"refused"}]
Datagram == [age : {0, 1}, id : Nat, body : InitBody \cup AuthBody]

\* The type of the probe's wire, and of what its properties read.
IkeTypeOK ==
    /\ phase \in Waiting \cup Ended \cup {"card"}
    /\ home \in BOOLEAN /\ keys \in BOOLEAN /\ recorded \in BOOLEAN
    /\ request \in [id : Nat, group : Group]
    /\ answers \subseteq Datagram
    /\ queue \in Seq(Datagram)
    /\ matched \in [id : Nat, age : {0, 1}]

\* What is under way or unread never answers a later request, and an answer to
\* an earlier exchange has its Message ID only in IKE_SA_INIT.
InTime(a) == a.id <= request.id /\ (a.age = 0 \/ a.id < request.id \/ request.id = 0)

\* Only the subscriber's own network signs.
Genuine(a) == a.body.kind = "child" /\ a.body.auth = "signed" => home

WireHonest ==
    /\ \A a \in answers : InTime(a) /\ Genuine(a)
    /\ \A i \in 1..Len(queue) : InTime(queue[i]) /\ Genuine(queue[i])

\* Keys come from a card that was asked, and AUTH is verified with keys.
KeysEarned ==
    /\ keys => recorded
    /\ phase \in {"final", "up"} => keys
    /\ phase = "init" => request.id = 0

\* The inductive invariant of the probe.
ProbeInv == IkeTypeOK /\ WireHonest /\ KeysEarned /\ IkeInv

LEMMA ProbeInitInv == IkeInit => ProbeInv
<1> SUFFICES ASSUME IkeInit PROVE ProbeInv
    OBVIOUS
<1>1. FirstGroup \in Group
    BY IkeConstants
<1>2. IkeTypeOK
    <2>1. request \in [id : Nat, group : Group] /\ matched \in [id : Nat, age : {0, 1}]
        BY <1>1 DEF IkeInit, InitRequest
    <2>2. phase \in Waiting \cup Ended \cup {"card"} /\ queue \in Seq(Datagram)
        BY DEF IkeInit, Waiting
    <2>3. answers \subseteq Datagram /\ home \in BOOLEAN /\ keys \in BOOLEAN /\ recorded \in BOOLEAN
        BY DEF IkeInit
    <2> QED
        BY <2>1, <2>2, <2>3 DEF IkeTypeOK
<1>3. WireHonest /\ KeysEarned /\ IkeInv
    BY DEF IkeInit, WireHonest, KeysEarned, IkeInv, HomeOnly, AuthAnswersFresh, InitRequest
<1> QED
    BY <1>2, <1>3 DEF ProbeInv

\* A new request: what was unread is gone, and what is under way is older.
LEMMA ExchangeKeepsWire ==
    ASSUME ProbeInv, NEW r \in [id : Nat, group : Group], Exchange(r),
           r.id > request.id \/ (r.id = 0 /\ request.id = 0), UNCHANGED home
    PROVE  WireHonest' /\ request' = r /\ answers' \subseteq Datagram /\ queue' = <<>>
           /\ queue' \in Seq(Datagram)
<1>1. /\ request' = r /\ queue' = <<>>
      /\ answers' = {[a EXCEPT !.age = 1] : a \in {b \in answers : b.age = 0}}
    BY DEF Exchange
<1>2. \A a \in answers : a \in Datagram /\ a.id \in Nat /\ InTime(a) /\ Genuine(a)
    BY DEF ProbeInv, IkeTypeOK, WireHonest, Datagram
<1>3. request.id \in Nat
    BY DEF ProbeInv, IkeTypeOK
<1>4. ASSUME NEW a \in answers
      PROVE  /\ [a EXCEPT !.age = 1] \in Datagram
             /\ [a EXCEPT !.age = 1].id = a.id /\ [a EXCEPT !.age = 1].body = a.body
    BY <1>2 DEF Datagram
<1>5. ASSUME NEW x \in answers' PROVE x \in Datagram /\ InTime(x)' /\ Genuine(x)'
    <2>1. PICK a \in answers : x = [a EXCEPT !.age = 1]
        BY <1>1
    <2>2. x \in Datagram /\ x.id = a.id /\ x.body = a.body
        BY <1>4, <2>1
    <2>3. x.id <= r.id /\ (x.id < r.id \/ r.id = 0)
        BY <1>2, <1>3, <2>2 DEF InTime
    <2> QED
        BY <1>1, <1>2, <2>2, <2>3 DEF InTime, Genuine
<1> QED
    BY <1>1, <1>5 DEF WireHonest

\* A ladder against the next address begins with nothing on its wire.
LEMMA StartKeepsInv ==
    ASSUME ProbeInv, NEW c, Start(c), matched' \in [id : Nat, age : {0, 1}], AuthAnswersFresh'
    PROVE  ProbeInv'
<1>1. /\ home' \in BOOLEAN /\ request' = InitRequest(FirstGroup) /\ answers' = {} /\ queue' = <<>>
      /\ keys' = FALSE /\ recorded' = FALSE /\ phase' = "init"
    BY DEF Start
<1>2. request' \in [id : Nat, group : Group] /\ request'.id = 0
    BY <1>1, IkeConstants DEF InitRequest
<1>3. IkeTypeOK'
    <2>1. phase' \in Waiting \cup Ended \cup {"card"} /\ queue' \in Seq(Datagram)
        BY <1>1 DEF Waiting
    <2>2. answers' \subseteq Datagram /\ keys' \in BOOLEAN /\ recorded' \in BOOLEAN
        BY <1>1
    <2> QED
        BY <1>1, <1>2, <2>1, <2>2 DEF IkeTypeOK
<1>4. WireHonest' /\ KeysEarned'
    BY <1>1, <1>2 DEF WireHonest, KeysEarned
<1>5. HomeOnly'
    BY <1>1 DEF HomeOnly
<1> QED
    BY <1>3, <1>4, <1>5 DEF ProbeInv, IkeInv

\* A ladder that fails ends the run or begins the next.
LEMMA FailKeepsInv ==
    ASSUME ProbeInv, Fail, matched' \in [id : Nat, age : {0, 1}], AuthAnswersFresh'
    PROVE  ProbeInv'
<1>1. CASE phase' = "down" /\ UNCHANGED <<candidate, home, wire, ladder, recorded>>
    <2>1. UNCHANGED <<home, request, answers, queue, keys, recorded>>
        BY <1>1 DEF wire, ladder
    <2>2. IkeTypeOK'
        BY <1>1, <2>1 DEF ProbeInv, IkeTypeOK, Ended
    <2>3. WireHonest' /\ KeysEarned' /\ HomeOnly'
        BY <1>1, <2>1 DEF ProbeInv, WireHonest, InTime, Genuine, KeysEarned, HomeOnly
    <2> QED
        BY <2>2, <2>3 DEF ProbeInv, IkeInv
<1>2. CASE Start(candidate + 1)
    BY <1>2, StartKeepsInv
<1> QED
    BY <1>1, <1>2 DEF Fail

\* What an exchange ends with is the answer to its own request.
LEMMA TakenIsFresh ==
    ASSUME ProbeInv, Take
    PROVE  /\ matched' \in [id : Nat, age : {0, 1}] /\ AuthAnswersFresh'
           /\ Head(queue) \in Datagram /\ Genuine(Head(queue))
<1>1. queue \in Seq(Datagram) /\ queue # <<>> /\ Head(queue).id = request.id
      /\ matched' = [id |-> request.id, age |-> Head(queue).age]
    BY DEF ProbeInv, IkeTypeOK, Take, MatchesResponse
<1>2. Head(queue) = queue[1] /\ 1 \in 1..Len(queue) /\ Head(queue) \in Datagram
    BY <1>1
<1>3. InTime(Head(queue)) /\ Genuine(Head(queue))
    BY <1>2 DEF ProbeInv, WireHonest
<1>4. request.id \in Nat /\ Head(queue).age \in {0, 1}
    BY <1>2 DEF ProbeInv, IkeTypeOK, Datagram
<1> QED
    BY <1>1, <1>2, <1>3, <1>4 DEF InTime, AuthAnswersFresh

\* Every step of the probe, the peer, the network and the card keeps the invariant.
LEMMA ProbeStep == ProbeInv /\ [IkeNext]_ikeVars => ProbeInv'
<1> SUFFICES ASSUME ProbeInv, [IkeNext]_ikeVars PROVE ProbeInv'
    OBVIOUS
<1>1. IkeTypeOK /\ WireHonest /\ KeysEarned /\ HomeOnly /\ AuthAnswersFresh
    BY DEF ProbeInv, IkeInv
<1>2. /\ matched \in [id : Nat, age : {0, 1}] /\ queue \in Seq(Datagram) /\ answers \subseteq Datagram
      /\ request \in [id : Nat, group : Group] /\ request.id \in Nat
      /\ matched' = matched => AuthAnswersFresh'
    BY <1>1 DEF IkeTypeOK, AuthAnswersFresh
\* What a step has to show that changes only what is on the wire.
<1>3. ASSUME UNCHANGED <<phase, home, request, matched, keys, recorded>>,
             answers' \subseteq Datagram, queue' \in Seq(Datagram), WireHonest'
      PROVE  ProbeInv'
    BY <1>1, <1>3 DEF IkeTypeOK, KeysEarned, HomeOnly, AuthAnswersFresh, ProbeInv, IkeInv
<1>4. CASE PeerAnswers
    <2>1. PICK body \in (IF request.id = 0 THEN InitAnswer(request.group) ELSE AuthAnswer) :
             answers' = answers \cup {[age |-> 0, id |-> request.id, body |-> body]}
        BY <1>4 DEF PeerAnswers
    <2>2. UNCHANGED <<phase, home, request, queue, matched, keys, recorded>>
        BY <1>4 DEF PeerAnswers, ladder
    <2>3. body \in InitBody \cup AuthBody /\ (body.kind = "child" /\ body.auth = "signed" => home)
        <3>1. CASE request.id = 0
            <4>1. body \in InitAnswer(request.group) /\ request.group \in Group
                BY <1>2, <2>1, <3>1
            <4>2. body \in InitBody /\ body.kind # "child"
                BY <4>1 DEF InitAnswer, InitBody
            <4> QED
                BY <4>2
        <3>2. CASE request.id # 0
            <4>1. body \in AuthAnswer
                BY <2>1, <3>2
            <4> QED
                BY <4>1 DEF AuthAnswer, AuthBody, Proofs, AnyProof
        <3> QED
            BY <3>1, <3>2
    <2> DEFINE a == [age |-> 0, id |-> request.id, body |-> body]
    <2>4. a \in Datagram /\ a.age = 0 /\ a.id = request.id /\ a.body = body
        BY <1>2, <2>3 DEF Datagram
    <2>5. InTime(a) /\ Genuine(a)
        BY <1>2, <2>3, <2>4 DEF InTime, Genuine
    <2> HIDE DEF a
    <2>6. answers' = answers \cup {a}
        BY <2>1 DEF a
    <2>7. WireHonest'
        BY <1>1, <2>2, <2>5, <2>6 DEF WireHonest, InTime, Genuine
    <2> QED
        BY <1>2, <1>3, <2>2, <2>4, <2>6, <2>7
<1>5. ASSUME NEW a \in answers, Deliver(a) PROVE ProbeInv'
    <2>1. UNCHANGED <<phase, home, request, answers, matched, keys, recorded>>
        BY <1>5 DEF Deliver, ladder
    <2>2. a \in Datagram /\ InTime(a) /\ Genuine(a)
        BY <1>1, <1>2 DEF WireHonest
    <2>3. queue' = Append(queue, a) \/ (queue # <<>> /\ queue' = Append(Tail(queue), a))
        <3>1. QueueDepth \in Nat \ {0}
            BY IkeConstants
        <3>2. Len(queue) < QueueDepth \/ queue # <<>>
            BY <1>2, <3>1
        <3> QED
            BY <1>5, <3>2 DEF Deliver
    <2>4. /\ queue' \in Seq(Datagram)
          /\ \A i \in 1..Len(queue') : queue'[i] = a \/ \E j \in 1..Len(queue) : queue'[i] = queue[j]
        <3>1. CASE queue' = Append(queue, a)
            BY <1>2, <2>2, <3>1
        <3>2. CASE queue # <<>> /\ queue' = Append(Tail(queue), a)
            <4>1. /\ Tail(queue) \in Seq(Datagram) /\ Len(Tail(queue)) = Len(queue) - 1
                  /\ \A i \in 1..Len(Tail(queue)) : Tail(queue)[i] = queue[i + 1] /\ i + 1 \in 1..Len(queue)
                BY <1>2, <3>2
            <4>2. /\ queue' \in Seq(Datagram) /\ Len(queue') = Len(Tail(queue)) + 1
                  /\ \A i \in 1..Len(Tail(queue)) : queue'[i] = Tail(queue)[i]
                  /\ queue'[Len(Tail(queue)) + 1] = a
                BY <2>2, <3>2, <4>1
            <4> QED
                BY <4>1, <4>2
        <3> QED
            BY <2>3, <3>1, <3>2
    <2>5. WireHonest'
        BY <1>1, <2>1, <2>2, <2>4 DEF WireHonest, InTime, Genuine
    <2> QED
        BY <1>2, <1>3, <2>1, <2>4, <2>5
<1>6. CASE Unmatched
    <2>1. UNCHANGED <<phase, home, request, answers, matched, keys, recorded>> /\ queue' = Tail(queue)
          /\ queue # <<>>
        BY <1>6 DEF Unmatched, ladder
    <2>2. /\ queue' \in Seq(Datagram)
          /\ \A i \in 1..Len(queue') : queue'[i] = queue[i + 1] /\ i + 1 \in 1..Len(queue)
        BY <1>2, <2>1
    <2>3. WireHonest'
        BY <1>1, <2>1, <2>2 DEF WireHonest, InTime, Genuine
    <2> QED
        BY <1>2, <1>3, <2>1, <2>2, <2>3
<1>7. CASE Expire
    <2>1. UNCHANGED matched
        BY <1>7 DEF Expire
    <2>2. CASE UNCHANGED <<phase, candidate, home, request, answers, queue, ladder, recorded>>
        <3>1. UNCHANGED <<phase, home, request, answers, queue, matched, keys, recorded>>
            BY <2>1, <2>2 DEF ladder
        <3>2. WireHonest'
            BY <1>1, <3>1 DEF WireHonest, InTime, Genuine
        <3> QED
            BY <1>2, <1>3, <3>1, <3>2
    <2>3. CASE Fail
        BY <1>2, <2>1, <2>3, FailKeepsInv
    <2> QED
        BY <1>7, <2>2, <2>3 DEF Expire
<1>8. CASE ContextEnds
    BY <1>2, <1>8, FailKeepsInv DEF ContextEnds
\* What a step has to show that leaves the address: the next request, and the
\* phase and the keys it is made in.
<1>9. ASSUME NEW r \in [id : Nat, group : Group], Exchange(r),
             r.id > request.id \/ (r.id = 0 /\ request.id = 0), UNCHANGED home,
             matched' \in [id : Nat, age : {0, 1}], AuthAnswersFresh',
             phase' \in {"init", "eap", "final"}, keys' \in BOOLEAN, recorded' \in BOOLEAN,
             keys' => recorded', phase' = "final" => keys', phase' = "init" => r.id = 0
      PROVE  ProbeInv'
    <2>1. WireHonest' /\ request' = r /\ answers' \subseteq Datagram /\ queue' \in Seq(Datagram)
        BY <1>9, ExchangeKeepsWire
    <2>2. IkeTypeOK'
        BY <1>1, <1>9, <2>1 DEF IkeTypeOK, Waiting
    <2>3. KeysEarned' /\ HomeOnly'
        BY <1>9, <2>1 DEF KeysEarned, HomeOnly
    <2> QED
        BY <1>9, <2>1, <2>2, <2>3 DEF ProbeInv, IkeInv
\* What a step has to show that leaves the wire as it is.
<1>10. ASSUME UNCHANGED <<home, request, answers, queue>>,
              matched' \in [id : Nat, age : {0, 1}], AuthAnswersFresh',
              phase' \in Waiting \cup Ended \cup {"card"}, keys' \in BOOLEAN, recorded' \in BOOLEAN,
              KeysEarned', HomeOnly'
       PROVE  ProbeInv'
    <2>1. WireHonest'
        BY <1>1, <1>10 DEF WireHonest, InTime, Genuine
    <2>2. IkeTypeOK'
        BY <1>1, <1>10 DEF IkeTypeOK
    <2> QED
        BY <1>10, <2>1, <2>2 DEF ProbeInv, IkeInv
<1>11. AuthRequest \in [id : Nat, group : Group] /\ AuthRequest.id > request.id /\ AuthRequest.id # 0
    BY <1>2 DEF AuthRequest
<1>12. /\ keys \in BOOLEAN /\ recorded \in BOOLEAN /\ home \in BOOLEAN /\ (keys => recorded)
       /\ (phase \in {"final", "up"} => keys) /\ (phase = "init" => request.id = 0)
    BY <1>1 DEF IkeTypeOK, KeysEarned
<1>13. CASE TakeInit
    <2>1. phase = "init" /\ request.id = 0 /\ Take
        BY <1>12, <1>13 DEF TakeInit
    <2>2. /\ matched' \in [id : Nat, age : {0, 1}] /\ AuthAnswersFresh'
        BY <2>1, TakenIsFresh
    <2>3. ASSUME Refuse PROVE ProbeInv'
        BY <2>2, <2>3, FailKeepsInv DEF Refuse
    <2>4. ASSUME NEW g \in Group, InitAgain(g), UNCHANGED <<phase, home, keys, recorded>>
          PROVE  ProbeInv'
        <3>1. InitRequest(g) \in [id : Nat, group : Group] /\ InitRequest(g).id = 0
            BY DEF InitRequest
        <3>2. Exchange(InitRequest(g))
            BY <2>4 DEF InitAgain
        <3> QED
            BY <1>9, <1>12, <2>1, <2>2, <2>4, <3>1, <3>2
    <2>5. ASSUME Cookie PROVE ProbeInv'
        <3>1. request.group \in Group
            BY <1>2
        <3> QED
            BY <2>3, <2>4, <2>5, <3>1 DEF Cookie
    <2>6. ASSUME NEW g, SwitchGroup(g) PROVE ProbeInv'
        <3>1. g \in OfferedGroup => g \in Group
            BY IkeConstants
        <3> QED
            BY <2>3, <2>4, <2>6, <3>1 DEF SwitchGroup
    <2>7. ASSUME InitDone PROVE ProbeInv'
        <3>1. Exchange(AuthRequest) /\ phase' = "eap" /\ UNCHANGED <<home, keys, recorded>>
            BY <2>7 DEF InitDone, NewSession, ladder
        <3> QED
            BY <1>9, <1>11, <1>12, <2>2, <3>1
    <2> QED
        BY <1>13, <2>3, <2>5, <2>6, <2>7 DEF TakeInit
<1>14. CASE TakeEap
    <2>1. phase = "eap" /\ Take
        BY <1>14 DEF TakeEap
    <2>2. /\ matched' \in [id : Nat, age : {0, 1}] /\ AuthAnswersFresh'
        BY <2>1, TakenIsFresh
    <2>3. ASSUME Refuse PROVE ProbeInv'
        BY <2>2, <2>3, FailKeepsInv DEF Refuse
    <2>4. ASSUME EapStep PROVE ProbeInv'
        <3>1. Exchange(AuthRequest) /\ phase' = "eap" /\ UNCHANGED <<home, keys, recorded>>
            BY <2>4 DEF EapStep, Answer
        <3> QED
            BY <1>9, <1>11, <1>12, <2>2, <3>1
    <2>5. ASSUME AskCard PROVE ProbeInv'
        <3>1. UNCHANGED <<home, request, answers, queue, keys>>
              /\ ((phase' = "card" /\ recorded' = recorded) \/ (phase' = "down" /\ recorded' = TRUE))
            BY <2>5 DEF AskCard, ladder
        <3>2. KeysEarned' /\ HomeOnly'
            BY <1>12, <3>1 DEF KeysEarned, HomeOnly
        <3>3. phase' \in Waiting \cup Ended \cup {"card"}
            BY <3>1 DEF Ended
        <3> QED
            BY <1>10, <1>12, <2>2, <3>1, <3>2, <3>3
    <2>6. ASSUME NEW b, EapSuccess(b) PROVE ProbeInv'
        <3>1. CASE b.sa \/ ~keys
            BY <2>3, <2>6, <3>1 DEF EapSuccess
        <3>2. CASE ~(b.sa \/ ~keys)
            <4>1. Exchange(AuthRequest) /\ phase' = "final" /\ keys /\ UNCHANGED <<home, keys, recorded>>
                BY <2>6, <3>2 DEF EapSuccess, ladder
            <4> QED
                BY <1>9, <1>11, <1>12, <2>2, <4>1
        <3> QED
            BY <3>1, <3>2
    <2> QED
        BY <1>14, <2>3, <2>4, <2>5, <2>6 DEF TakeEap
<1>15. CASE TakeFinal
    <2>1. phase = "final" /\ Take
        BY <1>15 DEF TakeFinal
    <2>2. /\ matched' \in [id : Nat, age : {0, 1}] /\ AuthAnswersFresh' /\ Genuine(Head(queue))
        BY <2>1, TakenIsFresh
    <2>3. CASE Refuse
        BY <2>2, <2>3, FailKeepsInv DEF Refuse
    <2>4. CASE ~Refuse
        <3>1. /\ Head(queue).body.kind = "child" /\ VerifyPeerAuth(Head(queue).body)
              /\ phase' = "up"
              /\ UNCHANGED <<candidate, home, request, sent, answers, queue, ladder, recorded, calls>>
            BY <1>15, <2>4 DEF TakeFinal
        <3>2. home /\ keys /\ recorded
            BY <1>12, <2>1, <2>2, <3>1 DEF Genuine, VerifyPeerAuth
        <3>3. UNCHANGED <<home, request, answers, queue, keys, recorded>> /\ phase' \in Ended
            BY <3>1 DEF ladder, Ended
        <3>4. KeysEarned' /\ HomeOnly'
            BY <3>1, <3>2, <3>3 DEF KeysEarned, HomeOnly
        <3> QED
            BY <1>10, <1>12, <2>2, <3>3, <3>4
    <2> QED
        BY <2>3, <2>4
<1>16. ASSUME NEW n \in DOMAIN calls, CardAnswers(n) PROVE ProbeInv'
    <2>1. recorded' = TRUE /\ UNCHANGED <<home, matched>> /\ phase = "card"
        BY <1>16 DEF CardAnswers
    <2>2. AuthAnswersFresh' /\ matched' \in [id : Nat, age : {0, 1}]
        BY <1>2, <2>1
    <2>3. CASE phase' = "down" /\ UNCHANGED <<request, sent, answers, queue, rounds, keys>>
        <3>1. KeysEarned' /\ HomeOnly' /\ phase' \in Ended
            BY <2>1, <2>3 DEF KeysEarned, HomeOnly, Ended
        <3> QED
            BY <1>10, <1>12, <2>1, <2>2, <2>3, <3>1
    <2>4. CASE Answer /\ keys' \in {keys, TRUE}
        <3>1. Exchange(AuthRequest) /\ phase' = "eap" /\ keys' \in BOOLEAN
            BY <1>12, <2>4 DEF Answer
        <3> QED
            BY <1>9, <1>11, <2>1, <2>2, <3>1
    <2> QED
        BY <1>16, <2>3, <2>4 DEF CardAnswers
<1>17. ASSUME NEW n \in DOMAIN calls, ProviderTimeout(n) PROVE ProbeInv'
    <2>1. /\ UNCHANGED <<home, request, answers, queue, keys, matched>>
          /\ (recorded' = TRUE /\ phase' = "down") \/ UNCHANGED <<recorded, phase>>
        BY <1>17 DEF ProviderTimeout, wire, ladder
    <2>2. AuthAnswersFresh' /\ matched' \in [id : Nat, age : {0, 1}]
        BY <1>2, <2>1
    <2>3. KeysEarned' /\ HomeOnly' /\ phase' \in Waiting \cup Ended \cup {"card"}
        BY <1>1, <2>1 DEF KeysEarned, HomeOnly, Ended, IkeTypeOK
    <2> QED
        BY <1>10, <1>12, <2>1, <2>2, <2>3
<1>18. ASSUME NEW n \in DOMAIN calls, OuterDeadline(n) PROVE ProbeInv'
    BY <1>2, <1>18, FailKeepsInv DEF OuterDeadline
<1>19. ASSUME UNCHANGED <<phase, candidate, home, wire, matched, ladder, recorded>> PROVE ProbeInv'
    <2>1. UNCHANGED <<phase, home, request, answers, queue, keys, recorded, matched>>
        BY <1>19 DEF wire, ladder
    <2>2. WireHonest'
        BY <1>1, <2>1 DEF WireHonest, InTime, Genuine
    <2> QED
        BY <1>2, <1>3, <2>1, <2>2
<1>20. ASSUME NEW n \in DOMAIN calls, Reap(n) PROVE ProbeInv'
    BY <1>19, <1>20 DEF Reap
<1>21. CASE UNCHANGED ikeVars
    BY <1>19, <1>21 DEF ikeVars
<1> QED
    BY <1>4, <1>5, <1>6, <1>7, <1>8, <1>13, <1>14, <1>15, <1>16, <1>17, <1>18, <1>20, <1>21
       DEF IkeNext, ClientStep

\* The invariant holds of every run of the probe.
THEOREM ProbeInvariant == IkeSpec => []ProbeInv
BY ProbeInitInv, ProbeStep, PTL DEF IkeSpec

\* A tunnel is only built with the subscriber's own network, and no IKE_AUTH
\* exchange ends with the answer to an earlier one, for any number of groups,
\* addresses, transmissions and rounds (authSession.finish, matchesResponse).
THEOREM TunnelOnlyHome == IkeSpec => []IkeInv
<1>1. ProbeInv => IkeInv
    BY DEF ProbeInv
<1> QED
    BY <1>1, ProbeInvariant, PTL

(***************************************************************************)
(* The submission of messages.                                             *)
(***************************************************************************)
Service == {"ctl", "dms", "wms"}
Message == {"sync", "alloc_dms", "serials", "alloc_wms"}
Asking == [svc : Service, cli : Nat, tx : Nat, msg : Message, n : 0..MaxSends]
              \cup [svc : Service, cli : Nat, tx : Nat, msg : {"raw_send"}, n : Send]
Frame == [svc : Service, cli : Nat, tx : Nat, msg : Message \cup {"raw_send", "event"},
          ind : BOOLEAN, ok : BOOLEAN, given : Nat]
AtItem == [cmd : {"cmgf", "cmgs", "esc"}, n : {0}] \cup [cmd : {"pdu"}, n : Send]
AtLine == {"OK", "ERROR", ">"}
Outcome == {"none", "sent", "modem_open_failed", "modem_sync_failed", "send_failed",
            "modem_left_bus_after_submit", "at_send_failed", "interrupted"}
AgentJob == [kind : {"idle", "poll", "send", "at", "receipts"}, n : 0..MaxSends,
             step : 0..5, live : BOOLEAN]
QmiClient == [ctl : Nat, svc : Nat, dms : Nat, wms : Nat, pending : Asking \cup {NoRequest}]
Port == [in : Seq(AtItem), out : Seq(AtLine), prompt : BOOLEAN]

\* The type of the agent's work, of the wires and of what they carry.
SubmitTypeOK ==
    /\ job \in AgentJob
    /\ session \in QmiClient
    /\ inbox \in Seq(Asking) /\ out \in Seq(Frame)
    /\ serial \in Port
    /\ air \in [Send -> Nat] /\ result \in [Send -> Outcome]

\* The agent works on a message only while the cloud has no result of it.
JobPlace ==
    /\ job.kind \in {"send", "at"} => job.n \in Send /\ result[job.n] = None /\ job.step \in 1..5
    /\ job.kind \notin {"send", "at"} => job.n = 0
    /\ job.kind = "poll" => job.step \in 1..3

\* Where a message waits on the two wires.
Asked(q, n) == {i \in 1..Len(q) : q[i].msg = "raw_send" /\ q[i].n = n}
Given(q, n) == {i \in 1..Len(q) : q[i].cmd = "pdu" /\ q[i].n = n}
Single(positions) == \A i, j \in positions : i = j

\* A message nobody has written to a module: not begun, or not yet at that step.
Unwritten(n) ==
    /\ result[n] = None
    /\ job.kind = "send" /\ job.n = n => job.step < 5 \/ session.pending = NoRequest
    /\ job.kind = "at" /\ job.n = n => job.step < 5

\* A message is in one place only: unwritten, on one of the wires, or on the air.
Once(n) ==
    /\ air[n] \in {0, 1}
    /\ Single(Asked(inbox, n)) /\ Single(Given(serial.in, n))
    /\ Asked(inbox, n) # {} => Given(serial.in, n) = {} /\ air[n] = 0
    /\ Given(serial.in, n) # {} => air[n] = 0
    /\ Unwritten(n) => Asked(inbox, n) = {} /\ Given(serial.in, n) = {} /\ air[n] = 0

\* The inductive invariant of the wires.
WireInv == SubmitTypeOK /\ JobPlace /\ \A n \in Send : Once(n)

\* What Append and Tail do to the places where a message waits.
LEMMA AskedAppended ==
    ASSUME NEW q \in Seq(Asking), NEW r \in Asking, NEW n
    PROVE  /\ Append(q, r) \in Seq(Asking)
           /\ ~(r.msg = "raw_send" /\ r.n = n) => Asked(Append(q, r), n) = Asked(q, n)
           /\ r.msg = "raw_send" /\ r.n = n => Asked(Append(q, r), n) = Asked(q, n) \cup {Len(q) + 1}
<1>1. /\ Append(q, r) \in Seq(Asking) /\ Len(Append(q, r)) = Len(q) + 1 /\ Len(q) \in Nat
      /\ \A i \in 1..Len(q) : Append(q, r)[i] = q[i]
      /\ Append(q, r)[Len(q) + 1] = r
    OBVIOUS
<1>2. 1..(Len(q) + 1) = 1..Len(q) \cup {Len(q) + 1}
    BY <1>1
<1> QED
    BY <1>1, <1>2 DEF Asked

LEMMA AskedTail ==
    ASSUME NEW q \in Seq(Asking), q # <<>>, NEW n
    PROVE  /\ Tail(q) \in Seq(Asking) /\ Head(q) \in Asking
           /\ Asked(Tail(q), n) # {} => Asked(q, n) # {}
           /\ Single(Asked(q, n)) => Single(Asked(Tail(q), n))
           /\ Head(q).msg = "raw_send" /\ Head(q).n = n =>
                 Asked(q, n) # {} /\ (Single(Asked(q, n)) => Asked(Tail(q), n) = {})
<1>1. /\ Tail(q) \in Seq(Asking) /\ Len(Tail(q)) = Len(q) - 1 /\ Len(q) \in Nat \ {0}
      /\ \A i \in 1..Len(Tail(q)) : Tail(q)[i] = q[i + 1]
      /\ Head(q) = q[1] /\ Head(q) \in Asking
    OBVIOUS
<1>2. \A i \in Asked(Tail(q), n) : i \in Nat /\ i # 0 /\ i + 1 \in Asked(q, n)
    BY <1>1 DEF Asked
<1>3. Head(q).msg = "raw_send" /\ Head(q).n = n => 1 \in Asked(q, n)
    BY <1>1 DEF Asked
<1>4. Single(Asked(q, n)) => Single(Asked(Tail(q), n))
    BY <1>2 DEF Single
<1>5. 1 \in Asked(q, n) /\ Single(Asked(q, n)) => Asked(Tail(q), n) = {}
    BY <1>2 DEF Single
<1> QED
    BY <1>1, <1>2, <1>3, <1>4, <1>5

LEMMA GivenAppended ==
    ASSUME NEW q \in Seq(AtItem), NEW r \in AtItem, NEW n
    PROVE  /\ Append(q, r) \in Seq(AtItem)
           /\ ~(r.cmd = "pdu" /\ r.n = n) => Given(Append(q, r), n) = Given(q, n)
           /\ r.cmd = "pdu" /\ r.n = n => Given(Append(q, r), n) = Given(q, n) \cup {Len(q) + 1}
<1>1. /\ Append(q, r) \in Seq(AtItem) /\ Len(Append(q, r)) = Len(q) + 1 /\ Len(q) \in Nat
      /\ \A i \in 1..Len(q) : Append(q, r)[i] = q[i]
      /\ Append(q, r)[Len(q) + 1] = r
    OBVIOUS
<1>2. 1..(Len(q) + 1) = 1..Len(q) \cup {Len(q) + 1}
    BY <1>1
<1> QED
    BY <1>1, <1>2 DEF Given

LEMMA GivenTail ==
    ASSUME NEW q \in Seq(AtItem), q # <<>>, NEW n
    PROVE  /\ Tail(q) \in Seq(AtItem) /\ Head(q) \in AtItem
           /\ Given(Tail(q), n) # {} => Given(q, n) # {}
           /\ Single(Given(q, n)) => Single(Given(Tail(q), n))
           /\ Head(q).cmd = "pdu" /\ Head(q).n = n =>
                 Given(q, n) # {} /\ (Single(Given(q, n)) => Given(Tail(q), n) = {})
<1>1. /\ Tail(q) \in Seq(AtItem) /\ Len(Tail(q)) = Len(q) - 1 /\ Len(q) \in Nat \ {0}
      /\ \A i \in 1..Len(Tail(q)) : Tail(q)[i] = q[i + 1]
      /\ Head(q) = q[1] /\ Head(q) \in AtItem
    OBVIOUS
<1>2. \A i \in Given(Tail(q), n) : i \in Nat /\ i # 0 /\ i + 1 \in Given(q, n)
    BY <1>1 DEF Given
<1>3. Head(q).cmd = "pdu" /\ Head(q).n = n => 1 \in Given(q, n)
    BY <1>1 DEF Given
<1>4. Single(Given(q, n)) => Single(Given(Tail(q), n))
    BY <1>2 DEF Single
<1>5. 1 \in Given(q, n) /\ Single(Given(q, n)) => Given(Tail(q), n) = {}
    BY <1>2 DEF Single
<1> QED
    BY <1>1, <1>2, <1>3, <1>4, <1>5

LEMMA NothingWaits == \A n : Asked(<<>>, n) = {} /\ Given(<<>>, n) = {}
BY DEF Asked, Given

\* A step that writes no message and begins none again leaves each in its place.
LEMMA OnceKept ==
    ASSUME NEW n \in Send, Once(n), air'[n] = air[n],
           Asked(inbox', n) # {} => Asked(inbox, n) # {},
           Single(Asked(inbox', n)),
           Given(serial'.in, n) # {} => Given(serial.in, n) # {},
           Single(Given(serial'.in, n)),
           Unwritten(n)' => Unwritten(n)
    PROVE  Once(n)'
BY DEF Once

\* What a step leaves alone on the wires keeps the messages there.
LEMMA WiresAlone ==
    ASSUME WireInv, SubmitTypeOK', JobPlace', UNCHANGED air,
           inbox' = inbox \/ inbox' = <<>>,
           \A n \in Send : Given(serial'.in, n) = Given(serial.in, n) \/ Given(serial'.in, n) = {},
           \A n \in Send : Unwritten(n)' => Unwritten(n)
    PROVE  WireInv'
<1> SUFFICES ASSUME NEW n \in Send PROVE Once(n)'
    BY DEF WireInv
<1>1. Once(n)
    BY DEF WireInv
<1>2. Asked(inbox', n) = Asked(inbox, n) \/ Asked(inbox', n) = {}
    BY NothingWaits
<1>3. Single({})
    BY DEF Single
<1>4. Given(serial'.in, n) = Given(serial.in, n) \/ Given(serial'.in, n) = {}
    OBVIOUS
<1> QED
    BY <1>1, <1>2, <1>3, <1>4, OnceKept DEF Once

\* The agent's work on a message ends when the cloud is told, and only then.
LEMMA JobEnds ==
    ASSUME WireInv, NEW code \in Outcome, code # None, job' = Idle, Told(code)
    PROVE  /\ job' \in AgentJob
           /\ result' \in [Send -> Outcome]
           /\ JobPlace'
           /\ \A n \in Send : Unwritten(n)' => Unwritten(n)
<1>1. SubmitTypeOK /\ JobPlace
    BY DEF WireInv
<1>2. MaxSends \in Nat /\ 0 \notin Send
    BY SubmitAssumption DEF Send
<1>3. job' \in AgentJob
    BY <1>2 DEF Idle, AgentJob
<1>4. CASE job.n = 0
    <2>1. result' = result /\ job.kind \notin {"send", "at"}
        BY <1>1, <1>2, <1>4 DEF Told, JobPlace
    <2> QED
        BY <1>1, <1>3, <2>1 DEF Idle, JobPlace, Unwritten, SubmitTypeOK
<1>5. CASE job.n # 0
    <2>1. result' = [result EXCEPT ![job.n] = code] /\ job.kind \in {"send", "at"} /\ job.n \in Send
        BY <1>1, <1>5 DEF Told, JobPlace
    <2>2. result' \in [Send -> Outcome]
        BY <1>1, <2>1 DEF SubmitTypeOK
    <2>3. JobPlace'
        BY DEF Idle, JobPlace
    <2>4. ASSUME NEW n \in Send, Unwritten(n)' PROVE Unwritten(n)
        <3>1. result'[n] = None
            BY <2>4 DEF Unwritten
        <3>2. n # job.n /\ result[n] = None
            BY <1>1, <2>1, <3>1 DEF SubmitTypeOK
        <3> QED
            BY <3>2 DEF Unwritten
    <2> QED
        BY <1>3, <2>2, <2>3, <2>4
<1> QED
    BY <1>4, <1>5

LEMMA NewClientTyped ==
    /\ NewClient \in QmiClient
    /\ NewClient.pending = NoRequest
BY DEF NewClient, QmiClient

\* A session that fails ends the send: no failure below send_sms is the one that
\* the serial port is tried after.
LEMMA FailedSession ==
    ASSUME WireInv, InSession, NEW error, FailSession(error)
    PROVE  /\ session' = NewClient /\ job' = Idle
           /\ \E code \in Outcome : code # None /\ Told(code)
<1>1. JobPlace /\ 0 \notin Send
    BY SubmitAssumption DEF WireInv, Send
<1>2. Reported(error) \in Outcome /\ Reported(error) # None /\ Reported(error) # "modem_not_found"
    <2>1. Describe(error) \in {"modem_left_bus_after_submit", "send_failed"}
        BY DEF Describe
    <2>2. Reported(error) \in {"modem_sync_failed", "modem_left_bus_after_submit", "send_failed"}
        BY <2>1, Zenon DEF Reported
    <2>3. ASSUME NEW c \in {"modem_sync_failed", "modem_left_bus_after_submit", "send_failed"}
          PROVE  c \in Outcome /\ c # None /\ c # "modem_not_found"
        BY DEF None, Outcome
    <2> QED
        BY <2>2, <2>3, Zenon
<1>3. CASE job.kind = "send"
    <2>1. job.n \in Send /\ job.n # 0
        BY <1>1, <1>3 DEF JobPlace
    <2>2. SendEnded(job.n, Reported(error)) /\ session' = NewClient
        BY <1>3 DEF FailSession
    <2>3. job' = Idle /\ Told(Reported(error))
        BY <1>2, <2>1, <2>2 DEF SendEnded, FallsBack, Told
    <2> QED
        BY <1>2, <2>2, <2>3
<1>4. CASE job.kind # "send"
    <2>1. job.n = 0
        BY <1>1, <1>4 DEF InSession, JobPlace
    <2>2. job' = Idle /\ session' = NewClient /\ Told(Reported(error))
        BY <1>4, <2>1 DEF FailSession, Told
    <2> QED
        BY <1>2, <2>2
<1> QED
    BY <1>3, <1>4

\* What is asked at a step is well formed, and is the message only in the last.
LEMMA RequestTyped ==
    ASSUME WireInv, InSession
    PROVE  LET r == Request(Script[job.kind][job.step], job.n)
           IN  r \in Asking /\ r # NoRequest /\ (r.msg = "raw_send" => job.kind = "send" /\ job.step = 5)
               /\ r.n = job.n
<1> DEFINE m == Script[job.kind][job.step]
<1>1. SubmitTypeOK /\ JobPlace
    BY DEF WireInv
<1>2. m \in Message \cup {"raw_send"} /\ (m = "raw_send" => job.kind = "send" /\ job.step = 5)
    <2>1. CASE job.kind = "poll"
        <3>1. job.step \in {1, 2, 3}
            BY <1>1, <2>1 DEF JobPlace
        <3>2. Script["poll"] = <<"sync", "alloc_dms", "serials">>
            BY DEF Script
        <3> QED
            BY <2>1, <3>1, <3>2 DEF Message
    <2>2. CASE job.kind = "send"
        <3>1. job.step \in {1, 2, 3, 4, 5}
            BY <1>1, <2>2 DEF JobPlace
        <3>2. Script["send"] = <<"sync", "alloc_dms", "serials", "alloc_wms", "raw_send">>
            BY DEF Script
        <3> QED
            BY <2>2, <3>1, <3>2 DEF Message
    <2> QED
        BY <2>1, <2>2 DEF InSession
<1>3. /\ job.n \in 0..MaxSends /\ (m = "raw_send" => job.n \in Send)
      /\ session.dms \in Nat /\ session.wms \in Nat /\ session.svc \in Nat /\ session.ctl \in Nat
    BY <1>1, <1>2 DEF SubmitTypeOK, JobPlace, AgentJob, QmiClient
<1> HIDE DEF m
<1>4. Request(m, job.n) \in Asking /\ Request(m, job.n).msg = m /\ Request(m, job.n).n = job.n
    <2>1. CASE m = "serials"
        BY <1>3, <2>1 DEF Request, Asking, Service, Message
    <2>2. CASE m = "raw_send"
        BY <1>3, <2>2 DEF Request, Asking, Service, Message
    <2>3. CASE m \notin {"serials", "raw_send"}
        BY <1>2, <1>3, <2>3 DEF Request, Asking, Service, Message
    <2> QED
        BY <2>1, <2>2, <2>3
<1>5. Request(m, job.n) # NoRequest
    BY <1>2, <1>4 DEF NoRequest, None, Message
<1> QED
    BY <1>2, <1>4, <1>5 DEF m

LEMMA NextTransactionTyped ==
    ASSUME NEW t \in Nat PROVE NextTransaction(t, 8) \in Nat /\ NextTransaction(t, 16) \in Nat
<1>1. 2^8 \in Nat \ {0} /\ 2^16 \in Nat \ {0}
    OBVIOUS
<1>2. (t + 1) % 2^8 \in Nat /\ (t + 1) % 2^16 \in Nat
    BY <1>1
<1> QED
    BY <1>2 DEF NextTransaction

\* Every step of the agent, the module, the network and the bus keeps each
\* message in one place.
LEMMA WireStep == WireInv /\ [SubmitNext]_submitVars => WireInv'
<1> SUFFICES ASSUME WireInv, [SubmitNext]_submitVars PROVE WireInv'
    OBVIOUS
<1>1. SubmitTypeOK /\ JobPlace /\ \A n \in Send : Once(n)
    BY DEF WireInv
<1>2. /\ job \in AgentJob /\ session \in QmiClient /\ inbox \in Seq(Asking) /\ out \in Seq(Frame)
      /\ serial \in Port /\ air \in [Send -> Nat] /\ result \in [Send -> Outcome]
    BY <1>1 DEF SubmitTypeOK
<1>3. MaxSends \in Nat \ {0} /\ Send = 1..MaxSends /\ 0 \notin Send
    BY SubmitAssumption DEF Send
<1>4. <<>> \in Seq(Asking) /\ <<>> \in Seq(Frame) /\ Quiet \in Port /\ Quiet.in = <<>>
    BY DEF Quiet, Port
\* A step after which the agent is idle and the cloud has been told.
<1>5. ASSUME job' = Idle, \E code \in Outcome : code # None /\ Told(code), session' \in QmiClient,
             inbox' = inbox \/ inbox' = <<>>, out' \in Seq(Frame), serial' \in Port, UNCHANGED air,
             \A n \in Send : Given(serial'.in, n) = Given(serial.in, n) \/ Given(serial'.in, n) = {}
      PROVE  WireInv'
    <2>1. /\ job' \in AgentJob /\ result' \in [Send -> Outcome] /\ JobPlace'
          /\ \A n \in Send : Unwritten(n)' => Unwritten(n)
        BY <1>5, JobEnds
    <2>2. inbox' \in Seq(Asking)
        BY <1>2, <1>4, <1>5
    <2>3. SubmitTypeOK'
        BY <1>2, <1>5, <2>1, <2>2 DEF SubmitTypeOK
    <2> QED
        BY <1>5, <2>1, <2>3, WiresAlone
\* A step that begins, advances or ends no work on a message.
<1>6. ASSUME session' = session \/ (job.kind # "send" /\ session' \in QmiClient),
             job' \in AgentJob, result' = result,
             job'.kind \in {"send", "at"} <=> job.kind \in {"send", "at"}, JobPlace',
             job'.kind \in {"send", "at"} => job'.kind = job.kind /\ job'.n = job.n /\ job'.step = job.step,
             inbox' = inbox \/ inbox' = <<>>, out' \in Seq(Frame), serial' \in Port, UNCHANGED air,
             \A n \in Send : Given(serial'.in, n) = Given(serial.in, n) \/ Given(serial'.in, n) = {}
      PROVE  WireInv'
    <2>1. \A n \in Send : Unwritten(n)' => Unwritten(n)
        BY <1>6 DEF Unwritten
    <2>2. inbox' \in Seq(Asking) /\ session' \in QmiClient
        BY <1>2, <1>4, <1>6
    <2>3. SubmitTypeOK'
        BY <1>2, <1>6, <2>2 DEF SubmitTypeOK
    <2> QED
        BY <1>6, <2>1, <2>3, WiresAlone
\* A step of the agent that touches neither messages nor wires.
<1>7. ASSUME UNCHANGED <<inbox, out, serial, air, result>>, session' = session \/ session' = NewClient,
             job.kind \notin {"send", "at"}, job' \in AgentJob, job'.kind \in {"idle", "receipts"}, job'.n = 0
      PROVE  WireInv'
    <2>1. JobPlace'
        BY <1>7 DEF JobPlace
    <2>2. session' \in QmiClient
        BY <1>2, <1>7, NewClientTyped
    <2> QED
        BY <1>2, <1>6, <1>7, <2>1, <2>2
\* A session that failed.
<1>8. ASSUME NEW error, InSession, FailSession(error), inbox' = inbox \/ inbox' = <<>>,
             out' \in Seq(Frame), serial' = serial \/ serial' = Quiet, UNCHANGED air
      PROVE  WireInv'
    <2>1. session' \in QmiClient /\ job' = Idle /\ \E code \in Outcome : code # None /\ Told(code)
        BY <1>8, FailedSession, NewClientTyped
    <2>2. \A n \in Send : Given(serial'.in, n) = Given(serial.in, n) \/ Given(serial'.in, n) = {}
        BY <1>4, <1>8, NothingWaits
    <2>3. serial' \in Port
        BY <1>2, <1>4, <1>8
    <2> QED
        BY <1>5, <1>8, <2>1, <2>2, <2>3
<1>9. ASSUME NEW n \in Send, SendSms(n) PROVE WireInv'
    <2>1. job = Idle /\ result[n] = None /\ job.kind = "idle" /\ session' = NewClient
          /\ UNCHANGED <<inbox, serial, air>> /\ out' = out
        BY <1>9 DEF SendSms, Idle
    <2>2. \A m \in Send : Given(serial'.in, m) = Given(serial.in, m)
        BY <2>1
    <2>3. ASSUME NEW k \in {"send", "at"}, job' = [kind |-> k, n |-> n, step |-> 1, live |-> TRUE],
                 UNCHANGED result
          PROVE  WireInv'
        <3>1. job' \in AgentJob /\ job'.kind = k /\ job'.n = n /\ job'.step = 1
            BY <1>3, <2>3 DEF AgentJob
        <3>2. JobPlace'
            BY <2>1, <2>3, <3>1 DEF JobPlace
        <3>3. \A m \in Send : Unwritten(m)' => Unwritten(m)
            BY <2>1, <2>3 DEF Unwritten
        <3>4. SubmitTypeOK'
            BY <1>2, <2>1, <2>3, <3>1, NewClientTyped DEF SubmitTypeOK
        <3> QED
            BY <2>1, <2>2, <3>2, <3>3, <3>4, WiresAlone
    <2>4. ASSUME job' = Idle, result' = [result EXCEPT ![n] = "modem_open_failed"] PROVE WireInv'
        <3>1. result' \in [Send -> Outcome] /\ \A m \in Send : result'[m] = None => result[m] = None
            BY <1>2, <2>1, <2>4 DEF Outcome, None
        <3>2. JobPlace' /\ job' \in AgentJob
            BY <1>3, <2>4 DEF JobPlace, Idle, AgentJob
        <3>3. \A m \in Send : Unwritten(m)' => Unwritten(m)
            BY <2>1, <3>1 DEF Unwritten
        <3>4. SubmitTypeOK'
            BY <1>2, <2>1, <3>1, <3>2, NewClientTyped DEF SubmitTypeOK
        <3> QED
            BY <2>1, <2>2, <3>2, <3>3, <3>4, WiresAlone
    <2>5. CASE ~known
        <3>1. job' = [kind |-> "at", n |-> n, step |-> 1, live |-> TRUE] /\ UNCHANGED result
            BY <1>9, <2>5 DEF SendSms, SendEnded, FallsBack
        <3> QED
            BY <2>3, <3>1
    <2>6. CASE known /\ ~onBus
        <3>1. job' = Idle /\ result' = [result EXCEPT ![n] = "modem_open_failed"]
            BY <1>9, <2>6 DEF SendSms, SendEnded, FallsBack
        <3> QED
            BY <2>4, <3>1
    <2>7. CASE known /\ onBus
        <3>1. job' = [kind |-> "send", n |-> n, step |-> 1, live |-> TRUE] /\ UNCHANGED result
            BY <1>9, <2>7 DEF SendSms
        <3> QED
            BY <2>3, <3>1
    <2> QED
        BY <2>5, <2>6, <2>7
<1>10. CASE Probe
    <2>1. /\ job.kind = "idle" /\ job' = [kind |-> "poll", n |-> 0, step |-> 1, live |-> TRUE]
          /\ session' = NewClient /\ UNCHANGED <<inbox, out, serial, air, result>>
        BY <1>10 DEF Probe, Idle
    <2>2. job' \in AgentJob /\ job'.kind = "poll" /\ JobPlace'
        BY <1>3, <2>1 DEF AgentJob, JobPlace
    <2> QED
        BY <1>2, <1>6, <2>1, <2>2, NewClientTyped
<1>11. CASE Write
    <2> DEFINE r == Request(Script[job.kind][job.step], job.n)
    <2>1. InSession /\ session.pending = NoRequest /\ UNCHANGED <<out, serial, air>>
        BY <1>11 DEF Write, AwaitsAnswer
    <2>2. CASE ~job.live
        <3>1. FailSession("gone") /\ UNCHANGED inbox
            BY <1>11, <2>2 DEF Write
        <3> QED
            BY <1>2, <1>8, <2>1, <3>1
    <2>3. CASE job.live
        <3>1. r \in Asking /\ r # NoRequest /\ (r.msg = "raw_send" => job.kind = "send" /\ job.step = 5)
              /\ r.n = job.n
            BY <2>1, RequestTyped
        <3>2. /\ inbox' = Append(inbox, r) /\ UNCHANGED <<job, result>>
              /\ session' = [session EXCEPT
                      !.pending = r,
                      !.ctl = IF r.svc = "ctl" THEN NextTransaction(@, 8) ELSE @,
                      !.svc = IF r.svc = "ctl" THEN @ ELSE NextTransaction(@, 16)]
            BY <1>11, <2>3 DEF Write
        <3> HIDE DEF r
        <3>3. session' \in QmiClient /\ session'.pending = r
            <4>1. session.ctl \in Nat /\ session.svc \in Nat
                BY <1>2 DEF QmiClient
            <4>2. NextTransaction(session.ctl, 8) \in Nat /\ NextTransaction(session.svc, 16) \in Nat
                BY <4>1, NextTransactionTyped
            <4> QED
                BY <1>2, <3>1, <3>2, <4>2 DEF QmiClient
        <3>4. inbox' \in Seq(Asking)
            BY <1>2, <3>1, <3>2, AskedAppended
        <3>5. SubmitTypeOK' /\ JobPlace'
            BY <1>1, <1>2, <2>1, <3>2, <3>3, <3>4 DEF SubmitTypeOK, JobPlace
        <3>6. ASSUME NEW n \in Send PROVE Once(n)'
            <4>1. Once(n) /\ serial' = serial /\ air'[n] = air[n]
                BY <1>1, <2>1
            <4>2. Unwritten(n)' => Unwritten(n)
                BY <2>1, <3>2 DEF Unwritten
            <4>3. CASE ~(r.msg = "raw_send" /\ r.n = n)
                <5>1. Asked(inbox', n) = Asked(inbox, n)
                    BY <1>2, <3>1, <3>2, <4>3, AskedAppended
                <5> QED
                    BY <4>1, <4>2, <5>1, OnceKept DEF Once
            <4>4. CASE r.msg = "raw_send" /\ r.n = n
                <5>1. job.kind = "send" /\ job.step = 5 /\ job.n = n /\ result[n] = None
                    BY <1>1, <3>1, <4>4 DEF JobPlace
                <5>2. Unwritten(n) /\ ~Unwritten(n)'
                    BY <2>1, <3>1, <3>2, <3>3, <5>1 DEF Unwritten
                <5>3. Asked(inbox, n) = {} /\ Given(serial.in, n) = {} /\ air[n] = 0
                    BY <4>1, <5>2 DEF Once
                <5>4. Asked(inbox', n) = {Len(inbox) + 1} /\ Given(serial'.in, n) = {} /\ air'[n] = 0
                    <6>1. Asked(inbox', n) = Asked(inbox, n) \cup {Len(inbox) + 1}
                        BY <1>2, <3>1, <3>2, <4>4, AskedAppended
                    <6> QED
                        BY <4>1, <5>3, <6>1
                <5>5. Single({Len(inbox) + 1}) /\ Single({})
                    BY DEF Single
                <5> QED
                    BY <5>2, <5>4, <5>5 DEF Once
            <4> QED
                BY <4>3, <4>4
        <3> QED
            BY <3>5, <3>6 DEF WireInv
    <2> QED
        BY <2>2, <2>3
<1>12. ASSUME NEW error, WriteRaced(error) PROVE WireInv'
    <2>1. InSession /\ FailSession(error) /\ inbox' = <<>> /\ out' = <<>> /\ serial' = Quiet /\ UNCHANGED air
        BY <1>12 DEF WriteRaced
    <2> QED
        BY <1>4, <1>8, <2>1
<1>13. CASE ReadFrame
    <2>1. InSession /\ session.pending # NoRequest /\ out # <<>> /\ out' = Tail(out)
          /\ UNCHANGED <<inbox, serial, air>>
        BY <1>13 DEF ReadFrame, AwaitsAnswer
    <2>2. out' \in Seq(Frame) /\ Head(out) \in Frame
        BY <1>2, <2>1
    <2>3. CASE UNCHANGED <<known, job, session, result, last>>
        BY <1>1, <1>2, <1>6, <2>1, <2>2, <2>3 DEF JobPlace
    <2>4. CASE FailSession("refused")
        BY <1>8, <2>1, <2>2, <2>4
    <2>5. CASE Advance(Head(out))
        <3>1. CASE job.step < Len(Script[job.kind])
            <4>1. job' = [job EXCEPT !.step = @ + 1] /\ session' = Install(Head(out)) /\ UNCHANGED result
                BY <2>5, <3>1 DEF Advance
            <4>2. Head(out).given \in Nat
                BY <2>2 DEF Frame
            <4>3. session' \in QmiClient /\ session'.pending = NoRequest
                BY <1>2, <4>1, <4>2 DEF Install, QmiClient
            <4>4. /\ job.kind = "poll" => job.step \in {1, 2}
                  /\ job.kind = "send" => job.step \in {1, 2, 3, 4}
                <5>1. Script["poll"] = <<"sync", "alloc_dms", "serials">>
                      /\ Script["send"] = <<"sync", "alloc_dms", "serials", "alloc_wms", "raw_send">>
                    BY DEF Script
                <5>2. Len(Script["poll"]) = 3 /\ Len(Script["send"]) = 5
                    BY <5>1
                <5>3. /\ job.kind = "poll" => job.step \in 1..3 /\ job.step < 3
                      /\ job.kind = "send" => job.step \in 1..5 /\ job.step < 5
                    BY <1>1, <3>1, <5>2 DEF JobPlace
                <5> QED
                    BY <5>3
            <4>5. job' \in AgentJob /\ job'.kind = job.kind /\ job'.n = job.n /\ job'.step = job.step + 1
                  /\ job.step \in 0..5
                <5>1. job.step \in 0..5 /\ job.step + 1 \in 0..5
                    BY <1>2, <2>1, <4>4 DEF AgentJob, InSession
                <5> QED
                    BY <1>2, <4>1, <5>1 DEF AgentJob
            <4>6. JobPlace'
                BY <1>1, <2>1, <4>1, <4>4, <4>5 DEF JobPlace, InSession
            <4>7. \A n \in Send : Unwritten(n)' => Unwritten(n)
                BY <2>1, <4>1, <4>4, <4>5 DEF Unwritten, InSession
            <4>8. SubmitTypeOK'
                BY <1>2, <2>1, <2>2, <4>1, <4>3, <4>5 DEF SubmitTypeOK
            <4> QED
                BY <2>1, <4>6, <4>7, <4>8, WiresAlone
        <3>2. CASE ~(job.step < Len(Script[job.kind])) /\ job.kind = "poll"
            <4>1. job' = [job EXCEPT !.kind = "receipts", !.step = 0] /\ session' = NewClient /\ Told("sent")
                BY <2>5, <3>2 DEF Advance
            <4>2. job.n = 0 /\ UNCHANGED result
                BY <1>1, <3>2, <4>1 DEF JobPlace, Told
            <4>3. job' \in AgentJob /\ job'.kind = "receipts" /\ job'.n = 0
                <5>1. 0 \in 0..5
                    OBVIOUS
                <5> QED
                    BY <1>2, <4>1, <4>2, <5>1, Zenon DEF AgentJob
            <4>4. JobPlace'
                BY <4>3 DEF JobPlace
            <4> QED
                BY <1>2, <1>6, <2>1, <2>2, <3>2, <4>1, <4>2, <4>3, <4>4, NewClientTyped
        <3>3. CASE ~(job.step < Len(Script[job.kind])) /\ job.kind # "poll"
            <4>1. job' = Idle /\ session' = NewClient /\ Told("sent")
                BY <2>5, <3>3 DEF Advance
            <4>2. "sent" \in Outcome /\ "sent" # None
                BY DEF Outcome, None
            <4> QED
                BY <1>2, <1>5, <2>1, <2>2, <4>1, <4>2, NewClientTyped
        <3> QED
            BY <3>1, <3>2, <3>3
    <2> QED
        BY <1>13, <2>3, <2>4, <2>5 DEF ReadFrame
<1>14. CASE Timeout
    BY <1>2, <1>8, <1>14 DEF Timeout, AwaitsAnswer
<1>15. CASE Hangup
    BY <1>2, <1>8, <1>15 DEF Hangup, AwaitsAnswer
<1>16. ASSUME NEW took \in BOOLEAN, NEW given \in ClientId, Handle(took, given) PROVE WireInv'
    <2>1. inbox # <<>> /\ inbox' = Tail(inbox) /\ UNCHANGED <<job, session, serial, result>>
        BY <1>16 DEF Handle
    <2>2. Head(inbox) \in Asking /\ inbox' \in Seq(Asking)
        BY <1>2, <2>1, AskedTail
    <2>3. given \in Nat
        BY SubmitAssumption
    <2>4. out' \in Seq(Frame)
        <3>1. Response(Head(inbox), took, 0) \in Frame /\ Response(Head(inbox), TRUE, given) \in Frame
            BY <2>2, <2>3 DEF Response, Asking, Frame
        <3>2. out' = Append(out, Response(Head(inbox), took, 0))
              \/ out' = Append(out, Response(Head(inbox), TRUE, given))
            BY <1>16 DEF Handle
        <3>3. ASSUME NEW f \in Frame PROVE Append(out, f) \in Seq(Frame)
            BY <1>2
        <3> QED
            BY <3>1, <3>2, <3>3
    <2>5. CASE Head(inbox).msg = "raw_send" /\ took
        <3>1. Head(inbox).n \in Send /\ air' = [air EXCEPT ![Head(inbox).n] = @ + 1]
            BY <1>16, <2>2, <2>5 DEF Handle, Transmit, Asking, Message
        <3>2. SubmitTypeOK' /\ JobPlace'
            BY <1>1, <1>2, <2>1, <2>2, <2>4, <3>1 DEF SubmitTypeOK, JobPlace
        <3>3. ASSUME NEW n \in Send PROVE Once(n)'
            <4>1. Once(n) /\ (Unwritten(n)' <=> Unwritten(n))
                BY <1>1, <2>1 DEF Unwritten
            <4>2. CASE n = Head(inbox).n
                <5>1. Asked(inbox, n) # {} /\ Asked(inbox', n) = {}
                    BY <1>2, <2>1, <2>5, <4>1, <4>2, AskedTail DEF Once
                <5>2. Given(serial.in, n) = {} /\ air[n] = 0 /\ ~Unwritten(n)
                    BY <4>1, <5>1 DEF Once
                <5>3. air'[n] = 1 /\ Given(serial'.in, n) = {}
                    BY <1>2, <2>1, <3>1, <4>2, <5>2
                <5>4. Single({})
                    BY DEF Single
                <5> QED
                    BY <4>1, <5>1, <5>2, <5>3, <5>4 DEF Once
            <4>3. CASE n # Head(inbox).n
                <5>1. air'[n] = air[n]
                    BY <1>2, <3>1, <4>3
                <5>2. (Asked(inbox', n) # {} => Asked(inbox, n) # {}) /\ Single(Asked(inbox', n))
                    BY <1>2, <2>1, <4>1, AskedTail DEF Once
                <5>3. serial'.in = serial.in
                    BY <2>1
                <5> QED
                    BY <4>1, <5>1, <5>2, <5>3, OnceKept DEF Once
            <4> QED
                BY <4>2, <4>3
        <3> QED
            BY <3>2, <3>3 DEF WireInv
    <2>6. CASE ~(Head(inbox).msg = "raw_send" /\ took)
        <3>1. air' = air
            BY <1>16, <2>6 DEF Handle, Transmit
        <3>2. SubmitTypeOK' /\ JobPlace'
            BY <1>1, <1>2, <2>1, <2>2, <2>4, <3>1 DEF SubmitTypeOK, JobPlace
        <3>3. ASSUME NEW n \in Send PROVE Once(n)'
            <4>1. Once(n) /\ (Unwritten(n)' <=> Unwritten(n)) /\ air'[n] = air[n] /\ serial'.in = serial.in
                BY <1>1, <2>1, <3>1 DEF Unwritten
            <4>2. (Asked(inbox', n) # {} => Asked(inbox, n) # {}) /\ Single(Asked(inbox', n))
                BY <1>2, <2>1, <4>1, AskedTail DEF Once
            <4> QED
                BY <4>1, <4>2, OnceKept DEF Once
        <3> QED
            BY <3>2, <3>3 DEF WireInv
    <2> QED
        BY <2>5, <2>6
<1>17. CASE Indicate
    <2>1. UNCHANGED <<job, session, inbox, serial, air, result>>
        BY <1>17 DEF Indicate
    <2>2. out' \in Seq(Frame)
        <3> DEFINE f == [svc |-> "wms", cli |-> 1, tx |-> 1, msg |-> "event",
                         ind |-> TRUE, ok |-> TRUE, given |-> 0]
        <3>1. f \in Frame
            BY DEF Frame, Service
        <3>2. out' = Append(out, f)
            BY <1>17 DEF Indicate
        <3> HIDE DEF f
        <3> QED
            BY <1>2, <3>1, <3>2
    <2> QED
        BY <1>1, <1>2, <1>6, <2>1, <2>2 DEF JobPlace
<1>18. ASSUME NEW kept \in BOOLEAN, LeaveBus(kept) PROVE WireInv'
    <2>1. /\ UNCHANGED <<session, air, result>> /\ inbox' = <<>> /\ serial' = Quiet
          /\ out' = out \/ out' = <<>>
          /\ job' = [job EXCEPT !.live = FALSE]
        BY <1>18 DEF LeaveBus
    <2>2. job' \in AgentJob /\ job'.kind = job.kind /\ job'.n = job.n /\ job'.step = job.step
        BY <1>2, <2>1 DEF AgentJob
    <2>3. JobPlace'
        BY <1>1, <2>1, <2>2 DEF JobPlace
    <2>4. \A n \in Send : Given(serial'.in, n) = {}
        BY <1>4, <2>1, NothingWaits
    <2>5. out' \in Seq(Frame)
        BY <1>2, <1>4, <2>1
    <2> QED
        BY <1>4, <1>6, <2>1, <2>2, <2>3, <2>4, <2>5
<1>19. CASE ComeBack
    <2>1. UNCHANGED <<job, session, serial, air, result>> /\ inbox' = <<>> /\ out' = <<>>
        BY <1>19 DEF ComeBack
    <2> QED
        BY <1>1, <1>2, <1>4, <1>6, <2>1 DEF JobPlace
\* The serial port: the agent's work goes on with the same message.
<1>20. ASSUME UNCHANGED <<session, inbox, out, air, result>>, job.kind = "at", NEW k \in 1..5,
              job' = [job EXCEPT !.step = k], k < 5, serial' \in Port, job.step < 5,
              \A n \in Send : Given(serial'.in, n) = Given(serial.in, n)
       PROVE  WireInv'
    <2>1. job' \in AgentJob /\ job'.kind = "at" /\ job'.n = job.n /\ job'.step = k
        <3>1. job \in AgentJob /\ job' = [job EXCEPT !.step = k] /\ job.kind = "at" /\ k \in 0..5
            BY <1>2, <1>20
        <3> QED
            BY <3>1 DEF AgentJob
    <2>2. JobPlace'
        BY <1>1, <1>20, <2>1 DEF JobPlace
    <2>3. \A n \in Send : Unwritten(n)' => Unwritten(n)
        BY <1>20, <2>1 DEF Unwritten
    <2>4. SubmitTypeOK'
        BY <1>2, <1>20, <2>1 DEF SubmitTypeOK
    <2> QED
        BY <1>20, <2>2, <2>3, <2>4, WiresAlone
\* The serial port: the exchange is over.
<1>21. ASSUME UNCHANGED <<session, inbox, out, air>>, NEW code \in {"sent", "at_send_failed"},
              job' = Idle, Told(code), serial' \in Port,
              \A n \in Send : Given(serial'.in, n) = Given(serial.in, n)
       PROVE  WireInv'
    <2>1. code \in Outcome /\ code # None
        BY <1>21 DEF Outcome, None
    <2> QED
        BY <1>2, <1>5, <1>21, <2>1
<1>22. ASSUME NEW item \in AtItem, item.cmd # "pdu"
       PROVE  /\ [serial EXCEPT !.in = Append(@, item)] \in Port
              /\ [Drain(serial) EXCEPT !.in = Append(@, item)] \in Port
              /\ \A n \in Send : Given([serial EXCEPT !.in = Append(@, item)].in, n) = Given(serial.in, n)
              /\ \A n \in Send : Given([Drain(serial) EXCEPT !.in = Append(@, item)].in, n) = Given(serial.in, n)
    <2>1. serial.in \in Seq(AtItem) /\ <<>> \in Seq(AtLine)
        BY <1>2 DEF Port
    <2>2. /\ Append(serial.in, item) \in Seq(AtItem)
          /\ \A n \in Send : Given(Append(serial.in, item), n) = Given(serial.in, n)
        BY <1>22, <2>1, GivenAppended
    <2>3. /\ [serial EXCEPT !.in = Append(@, item)].in = Append(serial.in, item)
          /\ [Drain(serial) EXCEPT !.in = Append(@, item)].in = Append(serial.in, item)
        BY <1>2 DEF Port, Drain
    <2>4. [serial EXCEPT !.in = Append(@, item)] \in Port
        BY <1>2, <2>2 DEF Port
    <2>5. [Drain(serial) EXCEPT !.in = Append(@, item)] \in Port
        BY <1>2, <2>1, <2>2 DEF Port, Drain
    <2> QED
        BY <2>2, <2>3, <2>4, <2>5
<1>23. CASE AtWrite
    <2>1. job.kind = "at" /\ job.step \in {1, 3} /\ UNCHANGED <<session, inbox, out, air>>
        BY <1>23 DEF AtWrite
    <2>2. CASE ~onBus \/ ~job.live
        <3>1. job' = Idle /\ Told("at_send_failed") /\ UNCHANGED serial
            BY <1>23, <2>2 DEF AtWrite
        <3> QED
            BY <1>2, <1>21, <2>1, <3>1
    <2>3. CASE ~(~onBus \/ ~job.live)
        <3> DEFINE item == [cmd |-> AtCommand[(job.step + 1) \div 2], n |-> 0]
        <3>1. serial' = [Drain(serial) EXCEPT !.in = Append(@, item)]
              /\ job' = [job EXCEPT !.step = @ + 1] /\ UNCHANGED result
            BY <1>23, <2>3 DEF AtWrite
        <3>2. item \in AtItem /\ item.cmd # "pdu"
            <4>1. (1 + 1) \div 2 = 1 /\ (3 + 1) \div 2 = 2
                OBVIOUS
            <4>2. AtCommand[1] = "cmgf" /\ AtCommand[2] = "cmgs"
                BY DEF AtCommand
            <4>3. AtCommand[(job.step + 1) \div 2] \in {"cmgf", "cmgs"}
                BY <2>1, <4>1, <4>2
            <4> HIDE DEF AtCommand
            <4> QED
                BY <4>3 DEF AtItem
        <3> HIDE DEF item
        <3>3. serial' \in Port /\ \A n \in Send : Given(serial'.in, n) = Given(serial.in, n)
            BY <1>22, <3>1, <3>2
        <3>4. job.step + 1 \in 1..5 /\ job.step + 1 < 5 /\ job.step < 5
            BY <2>1
        <3>5. job' = [job EXCEPT !.step = job.step + 1]
            BY <3>1
        <3> QED
            BY <1>20, <2>1, <3>1, <3>3, <3>4, <3>5
    <2> QED
        BY <2>2, <2>3
<1>24. ASSUME serial.out # <<>>
       PROVE  /\ [serial EXCEPT !.out = Tail(@)] \in Port
              /\ [serial EXCEPT !.out = Tail(@)].in = serial.in
    <2>1. serial.out \in Seq(AtLine)
        BY <1>2 DEF Port
    <2>2. Tail(serial.out) \in Seq(AtLine)
        BY <1>24, <2>1
    <2> QED
        BY <1>2, <2>2 DEF Port
<1>25. CASE AtRead
    <2>1. job.kind = "at" /\ job.step \in {2, 4, 5} /\ serial.out # <<>> /\ UNCHANGED <<session, inbox, out, air>>
        BY <1>25 DEF AtRead
    <2> DEFINE atLine == Head(serial.out)
    <2>2. CASE job.step = 2 /\ Succeeded(atLine)
        <3>1. job' = [job EXCEPT !.step = 3] /\ serial' = [serial EXCEPT !.out = Tail(@)] /\ UNCHANGED result
            BY <1>25, <2>2 DEF AtRead
        <3>2. 3 \in 1..5 /\ 3 < 5 /\ job.step < 5
            BY <2>2
        <3> QED
            BY <1>20, <1>24, <2>1, <3>1, <3>2
    <2>3. CASE job.step = 4 /\ atLine = ">"
        <3> DEFINE item == [cmd |-> "pdu", n |-> job.n]
        <3>1. /\ job' = [job EXCEPT !.step = 5] /\ UNCHANGED result
              /\ serial' = [serial EXCEPT !.out = Tail(@), !.in = Append(@, item)]
            BY <1>25, <2>3 DEF AtRead
        <3>2. job.n \in Send /\ result[job.n] = None
            BY <1>1, <2>1 DEF JobPlace
        <3>3. item \in AtItem /\ item.cmd = "pdu" /\ item.n = job.n
            BY <3>2 DEF AtItem
        <3> HIDE DEF item
        <3>4. serial.in \in Seq(AtItem) /\ Append(serial.in, item) \in Seq(AtItem)
            BY <1>2, <3>3, GivenAppended DEF Port
        <3>5. serial' \in Port /\ serial'.in = Append(serial.in, item)
            <4>1. serial.out \in Seq(AtLine)
                BY <1>2 DEF Port
            <4>2. Tail(serial.out) \in Seq(AtLine)
                BY <2>1, <4>1
            <4> QED
                BY <1>2, <3>1, <3>4, <4>2 DEF Port
        <3>6. job' \in AgentJob /\ job'.kind = "at" /\ job'.n = job.n /\ job'.step = 5
            BY <1>2, <2>1, <3>1 DEF AgentJob
        <3>7. SubmitTypeOK'
            BY <1>2, <2>1, <3>1, <3>5, <3>6 DEF SubmitTypeOK
        <3>8. JobPlace'
            BY <3>1, <3>2, <3>6 DEF JobPlace
        <3>9. ASSUME NEW n \in Send PROVE Once(n)'
            <4>1. Once(n) /\ inbox' = inbox /\ air'[n] = air[n]
                BY <1>1, <2>1
            <4>2. Unwritten(n)' => Unwritten(n)
                BY <2>1, <2>3, <3>1, <3>6 DEF Unwritten
            <4>3. CASE n # job.n
                <5>1. Given(serial'.in, n) = Given(serial.in, n)
                    BY <3>3, <3>4, <3>5, <4>3, GivenAppended
                <5> QED
                    BY <4>1, <4>2, <5>1, OnceKept DEF Once
            <4>4. CASE n = job.n
                <5>1. Unwritten(n) /\ ~Unwritten(n)'
                    BY <2>1, <2>3, <3>2, <3>6, <4>4 DEF Unwritten
                <5>2. Asked(inbox, n) = {} /\ Given(serial.in, n) = {} /\ air[n] = 0
                    BY <4>1, <5>1 DEF Once
                <5>3. Given(serial'.in, n) = Given(serial.in, n) \cup {Len(serial.in) + 1}
                    <6>1. Given(Append(serial.in, item), n) = Given(serial.in, n) \cup {Len(serial.in) + 1}
                        BY <3>3, <3>4, <4>4, GivenAppended
                    <6> QED
                        BY <3>5, <6>1
                <5>4. Given(serial'.in, n) = {Len(serial.in) + 1} /\ Asked(inbox', n) = {} /\ air'[n] = 0
                    BY <4>1, <5>2, <5>3
                <5>5. Single({Len(serial.in) + 1}) /\ Single({})
                    BY DEF Single
                <5> QED
                    BY <5>1, <5>4, <5>5 DEF Once
            <4> QED
                BY <4>3, <4>4
        <3> QED
            BY <3>7, <3>8, <3>9 DEF WireInv
    <2>4. CASE ~(job.step = 2 /\ Succeeded(atLine)) /\ ~(job.step = 4 /\ atLine = ">")
        <3>1. job' = Idle /\ serial' = [serial EXCEPT !.out = Tail(@)]
              /\ Told(IF Succeeded(atLine) THEN "sent" ELSE "at_send_failed")
            BY <1>25, <2>4 DEF AtRead
        <3>2. CASE Succeeded(atLine)
            BY <1>21, <1>24, <2>1, <3>1, <3>2
        <3>3. CASE ~Succeeded(atLine)
            BY <1>21, <1>24, <2>1, <3>1, <3>3
        <3> QED
            BY <3>2, <3>3
    <2> QED
        BY <2>2, <2>3, <2>4
<1>26. CASE AtTimeout
    <2> DEFINE item == [cmd |-> "esc", n |-> 0]
    <2>1. /\ job' = Idle /\ Told("at_send_failed") /\ UNCHANGED <<session, inbox, out, air>>
          /\ serial' = [serial EXCEPT !.in = Append(@, item)] \/ serial' = serial
        BY <1>26 DEF AtTimeout
    <2>2. item \in AtItem /\ item.cmd # "pdu"
        BY DEF AtItem
    <2> HIDE DEF item
    <2>3. serial' \in Port /\ \A n \in Send : Given(serial'.in, n) = Given(serial.in, n)
        BY <1>2, <1>22, <2>1, <2>2
    <2> QED
        BY <1>21, <2>1, <2>3
<1>27. ASSUME NEW took \in BOOLEAN, SerialStep(took) PROVE WireInv'
    <2> DEFINE item == Head(serial.in)
    <2>1. /\ serial.in # <<>> /\ serial.in \in Seq(AtItem) /\ serial.out \in Seq(AtLine)
          /\ serial.prompt \in BOOLEAN
          /\ UNCHANGED <<job, session, inbox, out, result>>
        BY <1>2, <1>27 DEF SerialStep, Port
    <2>2. item \in AtItem /\ Tail(serial.in) \in Seq(AtItem)
        BY <2>1, GivenTail
    <2>3. ASSUME NEW atLine \in AtLine, NEW p \in BOOLEAN
          PROVE  [in |-> Tail(serial.in), out |-> Append(serial.out, atLine), prompt |-> p] \in Port
        <3>1. Append(serial.out, atLine) \in Seq(AtLine)
            BY <2>1
        <3> QED
            BY <2>2, <3>1 DEF Port
    <2>4. serial' \in Port /\ serial'.in = Tail(serial.in)
        <3> DEFINE word == IF took THEN "OK" ELSE "ERROR"
        <3>1. word \in AtLine /\ ">" \in AtLine /\ (IF serial.prompt THEN ">" ELSE word) \in AtLine
            BY DEF AtLine
        <3>2. CASE item.cmd = "esc"
            <4>1. serial' = [serial EXCEPT !.in = Tail(@), !.prompt = FALSE]
                BY <1>27, <3>2 DEF SerialStep
            <4> QED
                BY <1>2, <2>2, <4>1 DEF Port
        <3> HIDE DEF word
        <3>3. CASE item.cmd = "pdu"
            <4>1. serial' = [in |-> Tail(serial.in), out |-> Append(serial.out, word), prompt |-> FALSE]
                BY <1>27, <3>3 DEF SerialStep, word
            <4> QED
                BY <2>3, <3>1, <4>1
        <3>4. CASE item.cmd = "cmgs" /\ took
            <4>1. serial' = [in |-> Tail(serial.in), out |-> Append(serial.out, ">"), prompt |-> TRUE]
                BY <1>27, <3>4 DEF SerialStep
            <4> QED
                BY <2>3, <3>1, <4>1
        <3>5. CASE item.cmd \notin {"esc", "pdu"} /\ ~(item.cmd = "cmgs" /\ took)
            <4>1. serial' = [in |-> Tail(serial.in),
                             out |-> Append(serial.out, IF serial.prompt THEN ">" ELSE word),
                             prompt |-> serial.prompt]
                BY <1>27, <3>5 DEF SerialStep, word
            <4> QED
                BY <2>1, <2>3, <3>1, <4>1
        <3> QED
            BY <3>2, <3>3, <3>4, <3>5
    <2>5. CASE item.cmd = "pdu" /\ took
        <3>1. item.n \in Send /\ air' = [air EXCEPT ![item.n] = @ + 1]
            BY <1>27, <2>2, <2>5 DEF SerialStep, Transmit, AtItem
        <3>2. SubmitTypeOK' /\ JobPlace'
            BY <1>1, <1>2, <2>1, <2>4, <3>1 DEF SubmitTypeOK, JobPlace
        <3>3. ASSUME NEW n \in Send PROVE Once(n)'
            <4>1. Once(n) /\ (Unwritten(n)' <=> Unwritten(n)) /\ inbox' = inbox
                BY <1>1, <2>1 DEF Unwritten
            <4>2. CASE n = item.n
                <5>1. Given(serial.in, n) # {} /\ Given(Tail(serial.in), n) = {}
                    BY <2>1, <2>5, <4>1, <4>2, GivenTail DEF Once
                <5>2. Asked(inbox, n) = {} /\ air[n] = 0 /\ ~Unwritten(n)
                    BY <4>1, <5>1 DEF Once
                <5>3. air'[n] = 1 /\ Given(serial'.in, n) = {}
                    BY <1>2, <2>4, <3>1, <4>2, <5>1, <5>2
                <5>4. Single({})
                    BY DEF Single
                <5> QED
                    BY <4>1, <5>2, <5>3, <5>4 DEF Once
            <4>3. CASE n # item.n
                <5>1. air'[n] = air[n]
                    BY <1>2, <3>1, <4>3
                <5>2. (Given(serial'.in, n) # {} => Given(serial.in, n) # {}) /\ Single(Given(serial'.in, n))
                    BY <2>1, <2>4, <4>1, GivenTail DEF Once
                <5> QED
                    BY <4>1, <5>1, <5>2, OnceKept DEF Once
            <4> QED
                BY <4>2, <4>3
        <3> QED
            BY <3>2, <3>3 DEF WireInv
    <2>6. CASE ~(item.cmd = "pdu" /\ took)
        <3>1. air' = air
            BY <1>27, <2>6 DEF SerialStep, Transmit
        <3>2. SubmitTypeOK' /\ JobPlace'
            BY <1>1, <1>2, <2>1, <2>4, <3>1 DEF SubmitTypeOK, JobPlace
        <3>3. ASSUME NEW n \in Send PROVE Once(n)'
            <4>1. Once(n) /\ (Unwritten(n)' <=> Unwritten(n)) /\ air'[n] = air[n] /\ inbox' = inbox
                BY <1>1, <2>1, <3>1 DEF Unwritten
            <4>2. (Given(serial'.in, n) # {} => Given(serial.in, n) # {}) /\ Single(Given(serial'.in, n))
                BY <2>1, <2>4, <4>1, GivenTail DEF Once
            <4> QED
                BY <4>1, <4>2, OnceKept DEF Once
        <3> QED
            BY <3>2, <3>3 DEF WireInv
    <2> QED
        BY <2>5, <2>6
\* The receipts: the agent is at work on no message.
<1>28. ASSUME NEW found, ListReports(found) PROVE WireInv'
    <2>1. /\ job.kind = "receipts" /\ UNCHANGED <<session, inbox, out, serial, air, result>>
          /\ job' = [job EXCEPT !.step = 1] \/ job' = Idle
        BY <1>28 DEF ListReports
    <2>2. job' \in AgentJob /\ job'.kind \in {"idle", "receipts"} /\ job'.n = 0
        <3>1. CASE job' = [job EXCEPT !.step = 1]
            BY <1>1, <1>2, <2>1, <3>1 DEF AgentJob, JobPlace
        <3>2. CASE job' = Idle
            BY <1>3, <3>2 DEF AgentJob, Idle
        <3> QED
            BY <2>1, <3>1, <3>2
    <2> QED
        BY <1>7, <2>1, <2>2
<1>29. ASSUME NEW failed, DeleteReports(failed) PROVE WireInv'
    <2>1. /\ job.kind = "receipts" /\ UNCHANGED <<session, inbox, out, serial, air, result>>
          /\ job' = [job EXCEPT !.step = 2]
        BY <1>29 DEF DeleteReports
    <2>2. job' \in AgentJob /\ job'.kind \in {"idle", "receipts"} /\ job'.n = 0
        BY <1>1, <1>2, <2>1 DEF AgentJob, JobPlace
    <2> QED
        BY <1>7, <2>1, <2>2
<1>30. ASSUME NEW taken, QueueReports(taken) PROVE WireInv'
    <2>1. /\ job.kind = "receipts" /\ UNCHANGED <<session, inbox, out, serial, air, result>>
          /\ job' = Idle
        BY <1>30 DEF QueueReports
    <2>2. job' \in AgentJob /\ job'.kind \in {"idle", "receipts"} /\ job'.n = 0
        BY <1>3, <2>1 DEF AgentJob, Idle
    <2> QED
        BY <1>7, <2>1, <2>2
<1>31. CASE Restart
    <2>1. job' = Idle /\ session' = NewClient /\ Told("interrupted") /\ UNCHANGED <<inbox, out, serial, air>>
        BY <1>31 DEF Restart
    <2>2. "interrupted" \in Outcome /\ "interrupted" # None
        BY DEF Outcome, None
    <2> QED
        BY <1>2, <1>5, <2>1, <2>2, NewClientTyped
<1>32. ASSUME UNCHANGED <<job, session, inbox, out, serial, air, result>> PROVE WireInv'
    BY <1>1, <1>2, <1>6, <1>32 DEF JobPlace
<1>33. ASSUME NEW n \in Send, Delivered(n) PROVE WireInv'
    BY <1>32, <1>33 DEF Delivered
<1>34. CASE UNCHANGED submitVars
    BY <1>32, <1>34 DEF submitVars
<1> QED
    BY <1>9, <1>10, <1>11, <1>12, <1>13, <1>14, <1>15, <1>16, <1>17, <1>18, <1>19, <1>23, <1>25, <1>26,
       <1>27, <1>28, <1>29, <1>30, <1>31, <1>33, <1>34
       DEF SubmitNext, SubmitStep, Module

\* The receipts, and the invariant of what was listed: only what was read is deleted.
ReceiptInv ==
    /\ receipts = [arrived |-> receipts.arrived, store |-> receipts.store, listed |-> receipts.listed,
                   read |-> receipts.read, queued |-> receipts.queued]
    /\ receipts.listed \subseteq receipts.read
    /\ UnreadReceiptKept

LEMMA ReceiptStep == ReceiptInv /\ [SubmitNext]_submitVars => ReceiptInv'
<1> SUFFICES ASSUME ReceiptInv, [SubmitNext]_submitVars PROVE ReceiptInv'
    OBVIOUS
<1>1. ASSUME UNCHANGED receipts PROVE ReceiptInv'
    BY <1>1 DEF ReceiptInv, UnreadReceiptKept
<1>2. ASSUME NEW n \in Send, Delivered(n) PROVE ReceiptInv'
    BY <1>2 DEF Delivered, ReceiptInv, UnreadReceiptKept
<1>3. ASSUME NEW found \in BOOLEAN, ListReports(found) PROVE ReceiptInv'
    <2>1. CASE receipts' = [receipts EXCEPT !.listed = receipts.store, !.read = @ \cup receipts.store]
        BY <2>1 DEF ReceiptInv, UnreadReceiptKept
    <2>2. CASE UNCHANGED receipts
        BY <1>1, <2>2
    <2> QED
        BY <1>3, <2>1, <2>2 DEF ListReports
<1>4. ASSUME NEW failed \in SUBSET receipts.listed, DeleteReports(failed) PROVE ReceiptInv'
    BY <1>4 DEF DeleteReports, Deleted, ReceiptInv, UnreadReceiptKept
<1>5. ASSUME NEW taken \in SUBSET receipts.listed, QueueReports(taken) PROVE ReceiptInv'
    BY <1>5 DEF QueueReports, ReceiptInv, UnreadReceiptKept
<1>6. CASE Restart
    BY <1>6 DEF Restart, ReceiptInv, UnreadReceiptKept
<1>7. CASE \/ \E n \in Send : SendSms(n)
           \/ Probe \/ Write \/ ReadFrame \/ Hangup \/ AtWrite \/ AtRead \/ AtTimeout
           \/ Module \/ Timeout \/ Indicate
           \/ \E error \in {"timeout", "gone", "left_bus"} : WriteRaced(error)
           \/ \E kept \in BOOLEAN : LeaveBus(kept)
           \/ UNCHANGED submitVars
    <2>1. UNCHANGED receipts
        BY <1>7 DEF SendSms, Probe, Write, ReadFrame, Hangup, AtWrite, AtRead, AtTimeout, Module, Handle,
                    SerialStep, ComeBack, Timeout, Indicate, WriteRaced, LeaveBus, submitVars
    <2> QED
        BY <1>1, <2>1
<1> QED
    BY <1>2, <1>3, <1>4, <1>5, <1>6, <1>7 DEF SubmitNext, SubmitStep

LEMMA SubmitInitInv == SubmitInit => WireInv /\ ReceiptInv
<1> SUFFICES ASSUME SubmitInit PROVE WireInv /\ ReceiptInv
    OBVIOUS
<1>1. MaxSends \in Nat \ {0}
    BY SubmitAssumption
<1>2. job = Idle /\ session = NewClient /\ inbox = <<>> /\ out = <<>> /\ serial = Quiet
      /\ air = [n \in Send |-> 0] /\ result = [n \in Send |-> None]
    BY DEF SubmitInit
<1>3. job \in AgentJob /\ session \in QmiClient /\ serial \in Port
    BY <1>1, <1>2, NewClientTyped DEF Idle, AgentJob, Quiet, Port
<1>4. air \in [Send -> Nat] /\ result \in [Send -> Outcome]
    BY <1>2 DEF Outcome, None
<1>5. SubmitTypeOK
    BY <1>2, <1>3, <1>4 DEF SubmitTypeOK
<1>6. JobPlace
    BY <1>2 DEF Idle, JobPlace
<1>7. ASSUME NEW n \in Send PROVE Once(n)
    <2>1. air[n] = 0 /\ serial.in = <<>> /\ Single({})
        BY <1>2 DEF Quiet, Single
    <2> QED
        BY <1>2, <2>1, NothingWaits DEF Once
<1>8. ReceiptInv
    BY DEF SubmitInit, ReceiptInv, UnreadReceiptKept
<1> QED
    BY <1>5, <1>6, <1>7, <1>8 DEF WireInv

\* The invariants hold of every run of the submission.
THEOREM SubmitInvariant == SubmitSpec => [](WireInv /\ ReceiptInv)
BY SubmitInitInv, WireStep, ReceiptStep, PTL DEF SubmitSpec

\* A message the cloud asked for once is on the air at most once, for any number
\* of messages, timeouts, hangups and restarts, and a receipt leaves the module's
\* store only after it was read (send_sms, CdcWdmDevice::transact, read_at_pass).
THEOREM NeverSentTwice == SubmitSpec => []SubmitInv
<1>1. WireInv /\ ReceiptInv => SubmitInv
    <2> SUFFICES ASSUME WireInv, ReceiptInv PROVE SubmitInv
        OBVIOUS
    <2>1. \A n \in Send : air[n] \in {0, 1}
        BY DEF WireInv, Once
    <2>2. NoDoubleSubmit
        BY <2>1 DEF NoDoubleSubmit
    <2> QED
        BY <2>2 DEF ReceiptInv, SubmitInv
<1> QED
    BY <1>1, SubmitInvariant, PTL

(***************************************************************************)
(* The enrolment.                                                          *)
(***************************************************************************)
\* While an identity is asked for, and until its key is written, there is no key
\* on the disk: ensure has removed one that had no certificate.
NoKeyYet ==
    /\ DOMAIN disk = {"ca", "key", "cert", "id", "code"}
    /\ disk = [ca |-> disk.ca, key |-> disk.key, cert |-> disk.cert, id |-> disk.id, code |-> disk.code]
    /\ step \in {"post", "key"} => disk.key = NoFile

\* What no step does to a machine that has an identity.
IdentityKept ==
    disk.cert # NoFile /\ disk.cert = disk.key
        => spent' = spent /\ (disk'.key = disk.key \/ disk' = Empty)

\* The three writes, one by one.
LEMMA WriteOf ==
    ASSUME NoKeyYet, NEW i \in 1..3, WriteFile(i)
    PROVE  /\ spent' = spent
           /\ \/ step = "key" /\ step' = "cert" /\ disk' = [disk EXCEPT !.key = issued.device]
              \/ step = "cert" /\ step' = "id" /\ disk' = [disk EXCEPT !.cert = issued.cert]
              \/ step = "id" /\ step' = "code" /\ disk' = [disk EXCEPT !.id = issued.device]
<1>1. WriteOrder[1] = "key" /\ WriteOrder[2] = "cert" /\ WriteOrder[3] = "id"
    BY DEF WriteOrder
<1>2. Contents["key"] = issued.device /\ Contents["cert"] = issued.cert /\ Contents["id"] = issued.device
    BY DEF Contents
<1>3. CASE i = 1
    <2>1. step = WriteOrder[1] /\ disk' = [disk EXCEPT ![WriteOrder[1]] = Contents[WriteOrder[1]]]
          /\ step' = WriteOrder[2] /\ spent' = spent
        BY <1>3 DEF WriteFile
    <2> QED
        BY <1>1, <1>2, <2>1
<1>4. CASE i = 2
    <2>1. step = WriteOrder[2] /\ disk' = [disk EXCEPT ![WriteOrder[2]] = Contents[WriteOrder[2]]]
          /\ step' = WriteOrder[3] /\ spent' = spent
        BY <1>4 DEF WriteFile
    <2> QED
        BY <1>1, <1>2, <2>1
<1>5. CASE i = 3
    <2>1. step = WriteOrder[3] /\ disk' = [disk EXCEPT ![WriteOrder[3]] = Contents[WriteOrder[3]]]
          /\ step' = "code" /\ spent' = spent
        BY <1>5 DEF WriteFile
    <2> QED
        BY <1>1, <1>2, <2>1
<1> QED
    BY <1>3, <1>4, <1>5

LEMMA EnrolStepKeeps == NoKeyYet /\ [EnrolNext]_enrolVars => NoKeyYet' /\ (IdentityKept \/ UNCHANGED enrolVars)
<1> SUFFICES ASSUME NoKeyYet, [EnrolNext]_enrolVars PROVE NoKeyYet' /\ (IdentityKept \/ UNCHANGED enrolVars)
    OBVIOUS
<1>1. CASE Ensure
    <2>1. disk' = Cleared(disk) /\ spent' = spent
          /\ (step' = "post" => Stage(disk) # "Enrolled") /\ step' \in {"identity", "post", "ensure"}
        BY <1>1 DEF Ensure
    <2>2. CASE Stage(disk) = "KeyWithoutCertificate"
        <3>1. disk' = [disk EXCEPT !.key = NoFile] /\ disk.key # NoFile /\ ~(disk.cert # NoFile /\ disk.key # NoFile)
            BY <2>1, <2>2 DEF Cleared, Stage
        <3> QED
            BY <2>1, <3>1 DEF NoKeyYet, IdentityKept
    <2>3. CASE Stage(disk) # "KeyWithoutCertificate"
        <3>1. disk' = disk /\ (step' = "post" => disk.key = NoFile)
            BY <2>1, <2>3 DEF Cleared, Stage
        <3> QED
            BY <2>1, <3>1 DEF NoKeyYet, IdentityKept
    <2> QED
        BY <2>2, <2>3
<1>2. ASSUME NEW answer, PostSigned(answer) PROVE NoKeyYet' /\ IdentityKept
    <2>1. step = "post" /\ disk' = disk
        BY <1>2 DEF PostSigned
    <2> QED
        BY <2>1 DEF NoKeyYet, IdentityKept
<1>3. ASSUME NEW signed, PostLost(signed) PROVE NoKeyYet' /\ IdentityKept
    <2>1. step = "post" /\ disk' = disk
        BY <1>3 DEF PostLost
    <2> QED
        BY <2>1 DEF NoKeyYet, IdentityKept
<1>4. ASSUME NEW i \in 1..3, WriteFile(i) PROVE NoKeyYet' /\ IdentityKept
    BY <1>4, WriteOf DEF NoKeyYet, IdentityKept
<1>5. ASSUME NEW removed, RemoveCode(removed) PROVE NoKeyYet' /\ IdentityKept
    <2>1. step' = "identity" /\ spent' = spent /\ (disk' = disk \/ disk' = [disk EXCEPT !.code = NoFile])
        BY <1>5 DEF RemoveCode
    <2> QED
        BY <2>1 DEF NoKeyYet, IdentityKept
<1>6. CASE PlaceCa \/ PlaceCode \/ PlaceHalf
    <2>1. step' = "ensure" /\ spent' = spent
        BY <1>6 DEF PlaceCa, PlaceCode, PlaceHalf, Waits
    <2>2. \/ disk' = [disk EXCEPT !.ca = TRUE] \/ disk' = [disk EXCEPT !.code = made + 1]
          \/ disk' = [disk EXCEPT !.code = Garbage]
        BY <1>6 DEF PlaceCa, PlaceCode, PlaceHalf
    <2> QED
        BY <2>1, <2>2 DEF NoKeyYet, IdentityKept
<1>7. CASE NewDisk
    <2>1. disk' = Empty /\ step' = "ensure" /\ spent' = spent
        BY <1>7 DEF NewDisk
    <2> QED
        BY <2>1 DEF NoKeyYet, IdentityKept, Empty
<1>8. ASSUME disk' = disk, spent' = spent, step' \in {"ensure", "dial", "online"} PROVE NoKeyYet' /\ IdentityKept
    BY <1>8 DEF NoKeyYet, IdentityKept
<1>9. CASE PostRefused \/ Identity \/ Dial \/ DialFails \/ Closed \/ Crash
    BY <1>8, <1>9 DEF PostRefused, Identity, Dial, DialFails, Closed, Crash
<1>10. ASSUME NEW i \in 1..3, WriteFails(i) PROVE NoKeyYet' /\ IdentityKept
    BY <1>8, <1>10 DEF WriteFails
<1>11. CASE UNCHANGED enrolVars
    BY <1>11 DEF enrolVars, NoKeyYet
<1> QED
    BY <1>1, <1>2, <1>3, <1>4, <1>5, <1>6, <1>7, <1>9, <1>10, <1>11 DEF EnrolNext, EnrolStep, Person

\* A machine that has an identity keeps it until its disk is replaced, for any
\* number of codes, crashes, failed writes and lost answers (enroll::ensure,
\* write_identity): no start spends a code for it or touches its key.
THEOREM IdentityAlwaysKept == EnrolSpec => ServingIdentityKept
<1>1. EnrolInit => NoKeyYet
    BY DEF EnrolInit, NoKeyYet, Empty
<1>2. NoKeyYet /\ [EnrolNext]_enrolVars => [IdentityKept]_enrolVars
    BY EnrolStepKeeps
<1>3. NoKeyYet /\ [EnrolNext]_enrolVars => NoKeyYet'
    BY EnrolStepKeeps
<1>4. IdentityKept <=> (disk.cert # NoFile /\ disk.cert = disk.key
                            => spent' = spent /\ (disk'.key = disk.key \/ disk' = Empty))
    BY DEF IdentityKept
<1> QED
    BY <1>1, <1>2, <1>3, <1>4, PTL DEF EnrolSpec, ServingIdentityKept

(***************************************************************************)
(* The voice process: who holds the lock, and which call is whose.         *)
(***************************************************************************)
Locked == {"building", "replacing", "undoing"}
Doing == {"idle", "offer", "hangup", "closing"} \cup Locked
Work == [at : Doing, call : 0..MaxCalls, step : 1..11]

\* The type of the handlers' state.
CallTypeOK ==
    /\ mu \in Actor \cup {Nobody}
    /\ current \in 0..MaxCalls /\ began \in 0..MaxCalls
    /\ act \in [Actor -> Work]
    /\ serving \in {"yes", "no", "down", "exited"}
    /\ act[Main].at \in {"idle", "hangup", "closing"}
    /\ serving \in {"yes", "no"} => act[Main].at = "idle"

\* A handler has a call exactly while it puts one up or takes one down, and the
\* lock exactly while it answers an offer.
OwnWork ==
    \A h \in Actor :
        /\ act[h].call # NoCall <=> act[h].at \in Locked \cup {"closing"}
        /\ act[h].at \in Locked <=> mu = h
        /\ act[h].call <= began

\* What each says of the active call.
ActiveCall ==
    /\ current <= began
    /\ \A h \in Actor :
        /\ act[h].at = "replacing" => act[h].call = current
        /\ act[h].at \in {"building", "undoing"} => current = NoCall
        /\ act[h].at = "closing" => act[h].call # current

\* No call is in the hands of two.
CallsApart == \A g, h \in Actor : g # h /\ act[g].call = act[h].call => act[g].call = NoCall

\* An offer that was let in has a call left to begin.
Offering == {g \in Handler : act[g].at \in {"offer", "replacing"}}
CallsLeft == began + Cardinality(Offering) <= MaxCalls

\* The inductive invariant of the handlers.
CallInv == CallTypeOK /\ OwnWork /\ ActiveCall /\ CallsApart /\ CallsLeft

LEMMA OfferingFinite == IsFiniteSet(Offering) /\ Cardinality(Offering) \in Nat
<1>1. IsFiniteSet(Handler) /\ Offering \subseteq Handler
    BY VoiceAssumption DEF Offering
<1>2. IsFiniteSet(Offering)
    BY <1>1, FS_Subset
<1> QED
    BY <1>2, FS_CardinalityType

LEMMA ActorFacts ==
    /\ Nobody \notin Actor /\ Main \in Actor /\ Handler \subseteq Actor /\ Main \notin Handler
    /\ MaxCalls \in Nat /\ NoCall = 0
BY VoiceAssumption DEF Actor, Nobody, NoCall

LEMMA CallInitInv == VoiceInit => CallInv
<1> SUFFICES ASSUME VoiceInit PROVE CallInv
    OBVIOUS
<1>1. /\ mu = Nobody /\ current = 0 /\ began = 0 /\ serving = "yes"
      /\ act = [h \in Actor |-> AtRest]
    BY DEF VoiceInit, NoCall
<1>2. AtRest \in Work /\ AtRest.at = "idle" /\ AtRest.call = 0
    BY ActorFacts DEF AtRest, Work, Doing, NoCall
<1>3. CallTypeOK
    BY <1>1, <1>2, ActorFacts DEF CallTypeOK
<1>4. OwnWork /\ ActiveCall /\ CallsApart
    BY <1>1, <1>2, ActorFacts DEF OwnWork, ActiveCall, CallsApart, Locked
<1>5. Offering = {}
    BY <1>1, <1>2, ActorFacts DEF Offering
<1>6. CallsLeft
    BY <1>1, <1>5, ActorFacts, FS_EmptySet DEF CallsLeft
<1> QED
    BY <1>3, <1>4, <1>6 DEF CallInv

\* One handler goes on with other work: what is left to show.
LEMMA OneMoves ==
    ASSUME CallInv, NEW h \in Actor, NEW w \in Work, act' = [act EXCEPT ![h] = w],
           mu' \in Actor \cup {Nobody}, current' \in 0..MaxCalls, began' \in 0..MaxCalls, began <= began',
           UNCHANGED serving,
           h = Main => w.at \in {"idle", "hangup", "closing"} /\ (serving \in {"yes", "no"} => w.at = "idle"),
           w.call # NoCall <=> w.at \in Locked \cup {"closing"},
           w.call <= began', current' <= began',
           w.at \in Locked <=> mu' = h,
           \A g \in Actor : g # h => (act[g].at \in Locked <=> mu' = g),
           w.at = "replacing" => w.call = current',
           w.at \in {"building", "undoing"} => current' = NoCall,
           w.at = "closing" => w.call # current',
           \A g \in Actor : g # h /\ act[g].at \in Locked => current' = current,
           \A g \in Actor : g # h /\ act[g].at = "closing" => act[g].call # current',
           w.call = act[h].call \/ w.call = NoCall \/ \A g \in Actor : g # h => act[g].call # w.call,
           CallsLeft'
    PROVE  CallInv'
<1>1. CallTypeOK /\ OwnWork /\ ActiveCall /\ CallsApart
    BY DEF CallInv
<1>2. act \in [Actor -> Work] /\ act' \in [Actor -> Work]
    BY <1>1 DEF CallTypeOK
<1>3. act'[h] = w /\ \A g \in Actor : g # h => act'[g] = act[g]
    BY <1>2
<1>4. Main \in Actor
    BY ActorFacts
<1>5. CallTypeOK'
    BY <1>1, <1>2, <1>3, <1>4 DEF CallTypeOK
<1>6. \A g \in Actor : act[g].call \in 0..MaxCalls /\ act[g].call <= began
    BY <1>1, <1>2 DEF OwnWork, Work
<1>7. began \in 0..MaxCalls
    BY <1>1 DEF CallTypeOK
<1>8. \A g \in Actor : act[g].call <= began'
    BY <1>6, <1>7, ActorFacts
<1>9. OwnWork'
    BY <1>1, <1>3, <1>8 DEF OwnWork
<1>10. ActiveCall'
    BY <1>1, <1>3 DEF ActiveCall, Locked
<1>11. CallsApart'
    BY <1>1, <1>3 DEF CallsApart
<1> QED
    BY <1>5, <1>9, <1>10, <1>11 DEF CallInv

\* How the offers that are under way change.
LEMMA OfferingChanges ==
    ASSUME CallInv, NEW h \in Actor, NEW w \in Work, act' = [act EXCEPT ![h] = w]
    PROVE  /\ w.at \notin {"offer", "replacing"} => Offering' = Offering \ {h}
           /\ w.at \in {"offer", "replacing"} /\ h \in Handler => Offering' = Offering \cup {h}
<1>1. act \in [Actor -> Work] /\ Handler \subseteq Actor
    BY ActorFacts DEF CallInv, CallTypeOK
<1>2. act'[h] = w /\ \A g \in Actor : g # h => act'[g] = act[g]
    BY <1>1
<1>3. \A g \in Handler : g \in Offering <=> act[g].at \in {"offer", "replacing"}
    BY DEF Offering
<1>4. \A g \in Handler : g \in Offering' <=> act'[g].at \in {"offer", "replacing"}
    BY DEF Offering
<1>5. Offering \subseteq Handler /\ Offering' \subseteq Handler
    BY DEF Offering
<1> QED
    BY <1>1, <1>2, <1>3, <1>4, <1>5

\* Every step of a handler, a signal or the media keeps the calls apart.
LEMMA CallStep == CallInv /\ [VoiceNext]_voiceVars => CallInv'
<1> SUFFICES ASSUME CallInv, [VoiceNext]_voiceVars PROVE CallInv'
    OBVIOUS
<1>1. CallTypeOK /\ OwnWork /\ ActiveCall /\ CallsApart /\ CallsLeft
    BY DEF CallInv
<1>2. /\ act \in [Actor -> Work] /\ mu \in Actor \cup {Nobody}
      /\ current \in Nat /\ current <= MaxCalls /\ began \in Nat /\ began <= MaxCalls /\ current <= began
    BY <1>1, ActorFacts DEF CallTypeOK, ActiveCall
<1>3. ASSUME NEW h \in Actor
      PROVE  /\ act[h] \in Work /\ act[h].at \in Doing /\ act[h].call \in Nat /\ act[h].call <= began
             /\ act[h].call \in 0..MaxCalls /\ act[h].step \in 1..11
             /\ (act[h].call # NoCall <=> act[h].at \in Locked \cup {"closing"})
             /\ (act[h].at \in Locked <=> mu = h)
    BY <1>1, <1>2, ActorFacts DEF OwnWork, Work
<1>0. current \in 0..MaxCalls /\ began \in 0..MaxCalls /\ began <= began
    BY <1>2, ActorFacts
<1>4. IsFiniteSet(Offering) /\ Cardinality(Offering) \in Nat
    BY OfferingFinite
<1>5. /\ Nobody \notin Actor /\ Main \in Actor /\ Handler \subseteq Actor /\ Main \notin Handler
      /\ MaxCalls \in Nat /\ NoCall = 0
    BY ActorFacts
<1>6. AtRest \in Work /\ AtRest.at = "idle" /\ AtRest.call = NoCall
    BY <1>5 DEF AtRest, Work, Doing
\* One offer fewer.
<1>7. ASSUME NEW S, S \subseteq Offering PROVE Cardinality(S) \in Nat /\ Cardinality(S) <= Cardinality(Offering)
    <2>1. IsFiniteSet(S) /\ Cardinality(S) <= Cardinality(Offering)
        BY <1>4, <1>7, FS_Subset
    <2> QED
        BY <2>1, FS_CardinalityType
<1>8. ASSUME NEW h \in Actor, NEW op \in {"offer", "hangup"}, h \in Handler, Asks(h, op) PROVE CallInv'
    <2> DEFINE w == [act[h] EXCEPT !.at = op]
    <2>1. /\ act[h].at = "idle" /\ act' = [act EXCEPT ![h].at = op]
          /\ UNCHANGED <<mu, current, serving, began>>
          /\ op = "offer" => began + Cardinality({g \in Handler : act[g].at \in {"offer", "replacing"}}) < MaxCalls
        BY <1>8 DEF Asks
    <2>2. w \in Work /\ w.at = op /\ w.call = act[h].call /\ act' = [act EXCEPT ![h] = w]
        BY <1>2, <1>3, <2>1 DEF Work, Doing
    <2> HIDE DEF w
    <2>3. act[h].call = NoCall /\ mu # h
        BY <1>3, <2>1 DEF Locked
    <2>4. CallsLeft'
        <3>1. CASE op = "offer"
            <4>1. began + Cardinality(Offering) < MaxCalls
                BY <2>1, <3>1 DEF Offering
            <4>2. Offering' = Offering \cup {h}
                BY <1>8, <2>2, <3>1, OfferingChanges
            <4>3. Cardinality(Offering \cup {h}) \in Nat /\ Cardinality(Offering \cup {h}) <= Cardinality(Offering) + 1
                <5>1. IsFiniteSet(Offering \cup {h})
                      /\ Cardinality(Offering \cup {h}) = IF h \in Offering THEN Cardinality(Offering) ELSE Cardinality(Offering) + 1
                    BY <1>4, FS_AddElement
                <5> QED
                    BY <1>4, <5>1
            <4>4. Cardinality(Offering') <= Cardinality(Offering) + 1 /\ Cardinality(Offering') \in Nat
                BY <4>2, <4>3
            <4> QED
                BY <1>2, <1>4, <1>5, <2>1, <4>1, <4>4 DEF CallsLeft
        <3>2. CASE op = "hangup"
            <4>1. Offering' = Offering \ {h}
                BY <2>2, <3>2, OfferingChanges
            <4>2. Cardinality(Offering') \in Nat /\ Cardinality(Offering') <= Cardinality(Offering)
                BY <1>7, <4>1
            <4> QED
                BY <1>1, <1>2, <1>4, <1>5, <2>1, <4>2 DEF CallsLeft
        <3> QED
            BY <3>1, <3>2
    <2>5. h # Main /\ op \notin Locked \cup {"closing"}
        BY <1>5, <1>8 DEF Locked
    <2>6. op \notin {"replacing", "building", "undoing", "closing"}
        OBVIOUS
    <2>7. \A g \in Actor : act[g].at = "closing" => act[g].call # current
        BY <1>1 DEF ActiveCall
    <2> QED
        <3>1. UNCHANGED <<mu, current, serving, began>>
            BY <2>1
        <3>2. w.call = NoCall /\ w.at \notin Locked \cup {"closing"} /\ w.at \notin {"replacing", "building", "undoing"}
            BY <2>2, <2>3, <2>5, <2>6
        <3>3. NoCall <= began
            BY <1>2, <1>5
        <3>4. \A g \in Actor : act[g].at \in Locked <=> mu = g
            BY <1>3
        <3> QED
            BY <1>2, <1>0, <2>2, <2>3, <2>4, <2>5, <2>7, <3>1, <3>2, <3>3, <3>4, OneMoves
\* A handler that holds the lock, or takes it free, begins a call of its own.
<1>9. ASSUME NEW h \in Actor, h \in Offering, Build(h), mu' = h, mu \in {h, Nobody}, current' = NoCall,
             UNCHANGED serving
      PROVE  CallInv'
    <2> DEFINE w == [at |-> "building", call |-> began + 1, step |-> 1]
    <2>1. began' = began + 1 /\ act' = [act EXCEPT ![h] = w]
        BY <1>9 DEF Build
    <2>2. Cardinality(Offering \ {h}) = Cardinality(Offering) - 1
        BY <1>4, <1>9, FS_RemoveElement
    <2>3. Cardinality(Offering) # 0
        BY <1>4, <1>9, FS_EmptySet
    <2>4. began + 1 <= MaxCalls
        BY <1>1, <1>2, <1>4, <1>5, <2>3 DEF CallsLeft
    <2>5. w \in Work /\ w.at = "building" /\ w.call = began + 1
        BY <1>2, <1>5, <2>4 DEF Work, Doing, Locked
    <2> HIDE DEF w
    <2>6. Offering' = Offering \ {h}
        BY <2>1, <2>5, OfferingChanges
    <2>7. CallsLeft'
        BY <1>1, <1>2, <1>4, <1>5, <2>1, <2>2, <2>6 DEF CallsLeft
    <2>8. h # Main
        BY <1>5, <1>9 DEF Offering
    <2>9. \A g \in Actor : g # h => act[g].at \notin Locked /\ mu' # g /\ act[g].call # began + 1
        BY <1>2, <1>3, <1>5, <1>9
    <2>10. \A g \in Actor : act[g].at = "closing" => act[g].call # NoCall
        BY <1>3
    <2>11. began' \in 0..MaxCalls /\ began <= began' /\ 0 <= began' /\ began' # 0 /\ w.call <= began'
        BY <1>2, <1>5, <2>1, <2>4, <2>5
    <2>12. current' \in 0..MaxCalls /\ current' <= began' /\ mu' \in Actor \cup {Nobody}
        BY <1>5, <1>9, <2>11
    <2>13. "building" \in Locked /\ w.call # NoCall
        BY <1>2, <1>5, <2>5 DEF Locked
    <2> QED
        BY <1>9, <2>1, <2>5, <2>7, <2>8, <2>9, <2>10, <2>11, <2>12, <2>13, OneMoves
<1>10. ASSUME NEW h \in Actor, AnswerOffer(h) PROVE CallInv'
    <2>1. act[h].at = "offer" /\ mu = Nobody /\ mu' = h /\ UNCHANGED <<current, serving>>
        BY <1>10 DEF AnswerOffer
    <2>2. h \in Handler /\ h \in Offering
        BY <1>1, <2>1 DEF Actor, Offering, CallTypeOK
    <2>3. CASE current = NoCall
        BY <1>9, <1>10, <2>1, <2>2, <2>3 DEF AnswerOffer
    <2>4. CASE current # NoCall
        <3> DEFINE w == [at |-> "replacing", call |-> current, step |-> 1]
        <3>1. act' = [act EXCEPT ![h] = w] /\ UNCHANGED began
            BY <1>10, <2>4 DEF AnswerOffer
        <3>2. w \in Work /\ w.at = "replacing" /\ w.call = current
            BY <1>2, <1>5 DEF Work, Doing, Locked
        <3> HIDE DEF w
        <3>3. Offering' = Offering
            BY <2>2, <3>1, <3>2, OfferingChanges
        <3>4. CallsLeft'
            BY <1>1, <3>1, <3>3 DEF CallsLeft
        <3>5. \A g \in Actor : act[g].at \notin Locked /\ (g # h => mu' # g)
            BY <1>3, <1>5, <2>1
        <3>6. \A g \in Actor : act[g].call # NoCall => act[g].at = "closing"
            BY <1>3, <3>5
        <3>7. \A g \in Actor : act[g].at = "closing" => act[g].call # current
            BY <1>1 DEF ActiveCall
        <3>8. \A g \in Actor : act[g].call # current
            BY <2>4, <3>6, <3>7
        <3>9. "replacing" \in Locked
            BY DEF Locked
        <3>10. h # Main
            BY <1>5, <2>2
        <3> QED
            BY <1>2, <1>0, <2>1, <2>4, <3>1, <3>2, <3>4, <3>5, <3>7, <3>8, <3>9, <3>10, OneMoves
    <2> QED
        BY <2>3, <2>4
\* A handler that is no longer, or never was, at an offer: the offers are fewer.
<1>11. ASSUME NEW h \in Actor, NEW w \in Work, act' = [act EXCEPT ![h] = w], UNCHANGED began,
              w.at \notin {"offer", "replacing"}
       PROVE  CallsLeft'
    <2>1. Offering' = Offering \ {h}
        BY <1>11, OfferingChanges
    <2>2. Cardinality(Offering') \in Nat /\ Cardinality(Offering') <= Cardinality(Offering)
        BY <1>7, <2>1
    <2> QED
        BY <1>1, <1>2, <1>4, <1>5, <1>11, <2>2 DEF CallsLeft
\* A handler that is done, with the lock or without it.
<1>12. ASSUME NEW h \in Actor, act' = [act EXCEPT ![h] = AtRest], UNCHANGED <<began, serving>>,
              \/ mu = h /\ mu' = Nobody /\ current = NoCall /\ current' \in {NoCall, act[h].call}
              \/ mu # h /\ mu' = mu /\ current' = current
       PROVE  CallInv'
    <2>1. CallsLeft'
        BY <1>6, <1>11, <1>12
    <2>2. mu' # h /\ mu' \in Actor \cup {Nobody} /\ \A g \in Actor : g # h => (act[g].at \in Locked <=> mu' = g)
        BY <1>2, <1>3, <1>5, <1>12
    <2>3. AtRest.at \notin Locked \cup {"closing", "replacing", "building", "undoing"}
        BY <1>6 DEF Locked
    <2>4. current' \in 0..MaxCalls /\ current' <= began /\ NoCall <= began
        BY <1>0, <1>2, <1>3, <1>5, <1>12
    <2>5. \A g \in Actor : g # h /\ act[g].at = "closing" => act[g].call # current'
        <3>1. \A g \in Actor : act[g].at = "closing" => act[g].call # NoCall /\ act[g].call # current
            BY <1>1, <1>3 DEF ActiveCall
        <3>2. \A g \in Actor : g # h /\ act[g].call = act[h].call => act[g].call = NoCall
            BY <1>1 DEF CallsApart
        <3> QED
            BY <1>12, <3>1, <3>2
    <2>6. \A g \in Actor : g # h /\ act[g].at \in Locked => current' = current
        BY <1>3, <1>12
    <2> QED
        BY <1>0, <1>6, <1>12, <2>1, <2>2, <2>3, <2>4, <2>5, <2>6, OneMoves
<1>13. ASSUME NEW h \in Actor, CloseCall(h) PROVE CallInv'
    <2>1. act[h].at = "hangup" /\ mu = Nobody /\ current' = NoCall /\ UNCHANGED <<mu, serving, began>>
        BY <1>13 DEF CloseCall
    <2>2. \A g \in Actor : act[g].at \notin Locked
        BY <1>3, <1>5, <2>1
    <2>3. CASE current = NoCall
        <3>1. act' = [act EXCEPT ![h] = AtRest]
            BY <1>13, <2>3 DEF CloseCall
        <3> QED
            BY <1>5, <1>12, <2>1, <2>3, <3>1
    <2>4. CASE current # NoCall
        <3> DEFINE w == [at |-> "closing", call |-> current, step |-> 1]
        <3>1. act' = [act EXCEPT ![h] = w]
            BY <1>13, <2>4 DEF CloseCall
        <3>2. w \in Work /\ w.at = "closing" /\ w.call = current
            BY <1>2, <1>5 DEF Work, Doing
        <3> HIDE DEF w
        <3>3. CallsLeft'
            BY <1>11, <2>1, <3>1, <3>2
        <3>4. \A g \in Actor : act[g].call # current
            <4>1. \A g \in Actor : act[g].call # NoCall => act[g].at = "closing"
                BY <1>3, <2>2
            <4>2. \A g \in Actor : act[g].at = "closing" => act[g].call # current
                BY <1>1 DEF ActiveCall
            <4> QED
                BY <2>4, <4>1, <4>2
        <3>5. h = Main => serving \notin {"yes", "no"}
            BY <1>1, <2>1 DEF CallTypeOK
        <3>6. "closing" \notin Locked
            BY DEF Locked
        <3>7. NoCall \in 0..MaxCalls /\ NoCall <= began /\ mu' \in Actor \cup {Nobody}
            BY <1>2, <1>5, <2>1
        <3>8. \A g \in Actor : act[g].at = "closing" => act[g].call # NoCall
            BY <1>3
        <3>9. \A g \in Actor : mu' # g
            BY <1>5, <2>1
        <3> QED
            BY <1>0, <1>2, <2>1, <2>2, <2>4, <3>1, <3>2, <3>3, <3>4, <3>5, <3>6, <3>7, <3>8, <3>9, OneMoves
    <2> QED
        BY <2>3, <2>4
<1>14. ASSUME NEW h \in Actor, CloseDone(h) PROVE CallInv'
    <2>1. Closing(h) /\ UNCHANGED serving
        BY <1>14 DEF CloseDone
    <2>2. CASE act[h].at = "replacing"
        <3>1. current' = NoCall /\ Build(h) /\ UNCHANGED mu /\ mu = h
            <4>1. mu = h
                BY <1>3, <2>2 DEF Locked
            <4> QED
                BY <1>14, <2>2, <4>1 DEF CloseDone
        <3>2. h \in Offering
            BY <1>1, <2>2 DEF Actor, Offering, CallTypeOK
        <3> QED
            BY <1>9, <2>1, <3>1, <3>2
    <2>3. CASE act[h].at # "replacing"
        <3>1. /\ act' = [act EXCEPT ![h] = AtRest] /\ UNCHANGED <<current, began>>
              /\ mu' = IF act[h].at = "undoing" THEN Nobody ELSE mu
            BY <1>14, <2>3 DEF CloseDone
        <3>2. CASE act[h].at = "undoing"
            <4>1. mu = h /\ current = NoCall
                BY <1>1, <1>3, <3>2 DEF Locked, ActiveCall
            <4> QED
                BY <1>12, <2>1, <3>1, <3>2, <4>1
        <3>3. CASE act[h].at = "closing"
            <4>1. mu # h
                BY <1>3, <3>3 DEF Locked
            <4> QED
                BY <1>12, <2>1, <3>1, <3>3, <4>1
        <3> QED
            BY <2>1, <2>3, <3>2, <3>3 DEF Closing
    <2> QED
        BY <2>2, <2>3
\* A handler that goes on with the call it puts up.
<1>15. ASSUME NEW h \in Actor, act[h].at = "building", NEW w \in Work, act' = [act EXCEPT ![h] = w],
              w.call = act[h].call, w.at \in {"building", "undoing"}, UNCHANGED <<mu, current, serving, began>>
       PROVE  CallInv'
    <2>1. CallsLeft'
        BY <1>11, <1>15
    <2>2. mu = h /\ current = NoCall /\ h # Main /\ w.call # NoCall
        BY <1>1, <1>3, <1>15 DEF Locked, ActiveCall, CallTypeOK
    <2>3. w.at \in Locked
        BY <1>15 DEF Locked
    <2>4. \A g \in Actor : act[g].at = "closing" => act[g].call # NoCall
        BY <1>3
    <2>5. \A g \in Actor : act[g].at \in Locked <=> mu = g
        BY <1>3
    <2>6. w.call <= began
        BY <1>3, <1>15
    <2> QED
        BY <1>0, <1>2, <1>15, <2>1, <2>2, <2>3, <2>4, <2>5, <2>6, OneMoves
<1>16. ASSUME NEW h \in Actor, BuildStep(h) PROVE CallInv'
    <2>1. act[h].at = "building" /\ UNCHANGED <<serving, began>>
        BY <1>16 DEF BuildStep
    <2>2. CASE BuildOrder[act[h].step] = "audited"
        <3>1. current' = act[h].call /\ mu' = Nobody /\ act' = [act EXCEPT ![h] = AtRest]
            BY <1>16, <2>2 DEF BuildStep
        <3>2. mu = h /\ current = NoCall
            BY <1>1, <1>3, <2>1 DEF Locked, ActiveCall
        <3> QED
            BY <1>12, <2>1, <3>1, <3>2
    <2>3. CASE BuildOrder[act[h].step] # "audited"
        <3> DEFINE w == [act[h] EXCEPT !.step = @ + 1]
        <3>1. act' = [act EXCEPT ![h].step = @ + 1] /\ UNCHANGED <<current, mu>>
            BY <1>16, <2>3 DEF BuildStep
        <3>2. act[h].step # 11
            BY <2>3 DEF BuildOrder
        <3>3. act[h].step + 1 \in 1..11
            BY <1>3, <3>2
        <3>4. w \in Work /\ w.at = "building" /\ w.call = act[h].call /\ act' = [act EXCEPT ![h] = w]
            BY <1>2, <1>3, <2>1, <3>1, <3>3 DEF Work
        <3> HIDE DEF w
        <3> QED
            BY <1>15, <2>1, <3>1, <3>4
    <2> QED
        BY <2>2, <2>3
<1>17. ASSUME NEW h \in Actor, BuildFails(h) PROVE CallInv'
    <2> DEFINE w == [act[h] EXCEPT !.at = "undoing", !.step = 1]
    <2>1. act[h].at = "building" /\ UNCHANGED <<mu, current, serving, began>>
          /\ act' = [act EXCEPT ![h].at = "undoing", ![h].step = 1]
        BY <1>17 DEF BuildFails
    <2>2. w \in Work /\ w.at = "undoing" /\ w.call = act[h].call /\ act' = [act EXCEPT ![h] = w]
        <3>1. "undoing" \in Doing /\ 1 \in 1..11
            BY DEF Doing, Locked
        <3>2. w \in Work /\ w.at = "undoing" /\ w.call = act[h].call
            BY <1>3, <3>1 DEF Work
        <3>3. act' = [act EXCEPT ![h] = w]
            BY <1>2, <2>1
        <3> QED
            BY <3>2, <3>3
    <2> HIDE DEF w
    <2> QED
        BY <1>15, <2>1, <2>2
<1>18. CASE UNCHANGED <<mu, current, act, began>> /\ (serving' = serving \/ serving' = "no")
                /\ (serving' = "no" => serving \in {"yes", "no"})
    BY <1>1, <1>18 DEF CallInv, CallTypeOK, OwnWork, ActiveCall, CallsApart, CallsLeft, Offering
<1>19. CASE ShutdownReturned
    <2> DEFINE w == [act[Main] EXCEPT !.at = "hangup"]
    <2>1. serving = "no" /\ serving' = "down" /\ UNCHANGED <<mu, current, began>>
          /\ act' = [act EXCEPT ![Main].at = "hangup"]
        BY <1>19 DEF ShutdownReturned
    <2>2. act[Main].at = "idle"
        BY <1>1, <2>1 DEF CallTypeOK
    <2>3. w \in Work /\ w.at = "hangup" /\ w.call = act[Main].call /\ act' = [act EXCEPT ![Main] = w]
        BY <1>2, <1>3, <1>5, <2>1 DEF Work, Doing
    <2> HIDE DEF w
    <2>4. CallsLeft'
        BY <1>5, <1>11, <2>1, <2>3
    <2>5. act'[Main] = w /\ act' \in [Actor -> Work] /\ \A g \in Actor : g # Main => act'[g] = act[g]
        BY <1>2, <1>5, <2>3
    <2>6. act[Main].call = NoCall /\ mu # Main
        BY <1>3, <1>5, <2>2 DEF Locked
    <2>7. CallTypeOK'
        BY <1>1, <2>1, <2>3, <2>5 DEF CallTypeOK
    <2>8. OwnWork'
        BY <1>1, <2>1, <2>3, <2>5, <2>6 DEF OwnWork, Locked
    <2>9. ActiveCall' /\ CallsApart'
        BY <1>1, <2>1, <2>3, <2>5, <2>6 DEF ActiveCall, CallsApart
    <2> QED
        BY <2>4, <2>7, <2>8, <2>9 DEF CallInv
<1>20. CASE Exit
    <2>1. mu' = Nobody /\ current' = NoCall /\ act' = [h \in Actor |-> AtRest] /\ began' = began /\ serving' = "exited"
        BY <1>20 DEF Exit
    <2>2. \A h \in Actor : act'[h] = AtRest
        BY <2>1
    <2>3. CallTypeOK'
        BY <1>0, <1>5, <1>6, <2>1, <2>2 DEF CallTypeOK
    <2>4. OwnWork' /\ ActiveCall' /\ CallsApart'
        BY <1>2, <1>5, <1>6, <2>1, <2>2 DEF OwnWork, ActiveCall, CallsApart, Locked
    <2>5. Offering' = {}
        BY <1>5, <1>6, <2>2 DEF Offering
    <2>6. CallsLeft'
        BY <1>2, <1>5, <2>1, <2>5, FS_EmptySet DEF CallsLeft
    <2> QED
        BY <2>3, <2>4, <2>6 DEF CallInv
<1>21. ASSUME NEW h \in Actor, CloseStep(h) PROVE CallInv'
    BY <1>18, <1>21 DEF CloseStep
<1>22. CASE Signal
    BY <1>18, <1>22 DEF Signal
<1>23. ASSUME NEW c \in Call, NEW closed \in Socket, TasksEnd(c, closed) PROVE CallInv'
    BY <1>18, <1>23 DEF TasksEnd, callVars
<1>24. ASSUME NEW c \in Call,
              \/ SendTick(c) \/ BrowserSpeaks(c) \/ ToRelay(c) \/ Forward(c)
              \/ PeerReceives(c) \/ FromRelay(c) \/ ToBrowser(c)
       PROVE  CallInv'
    <2>1. UNCHANGED callVars
        BY <1>24 DEF SendTick, BrowserSpeaks, ToRelay, Forward, PeerReceives, FromRelay, ToBrowser, Moves
    <2> QED
        BY <1>18, <2>1 DEF callVars
<1>25. CASE UNCHANGED voiceVars
    BY <1>18, <1>25 DEF voiceVars
<1> QED
    BY <1>5, <1>8, <1>10, <1>13, <1>14, <1>16, <1>17, <1>19, <1>20, <1>21, <1>22, <1>23, <1>24, <1>25
       DEF VoiceNext, VoiceStep, HandlerStep

\* One operator, one call.
LEMMA CallInvMeansOne == CallInv => OneCall
<1> SUFFICES ASSUME CallInv PROVE OneCall
    OBVIOUS
<1>1. OwnWork /\ ActiveCall /\ CallsApart
    BY DEF CallInv
<1> DEFINE Up == {c \in Call : c = current \/ \E h \in Actor : act[h].at \in {"building", "replacing"} /\ act[h].call = c}
<1>2. 0 \notin Call
    BY ActorFacts DEF Call
<1>3. \E x : Up \subseteq {x}
    <2>1. CASE \E h \in Actor : act[h].at \in {"building", "replacing"}
        <3>1. PICK h \in Actor : act[h].at \in {"building", "replacing"}
            BY <2>1
        <3>2. mu = h /\ (current = NoCall \/ current = act[h].call)
            BY <1>1, <3>1 DEF OwnWork, ActiveCall, Locked
        <3>3. \A g \in Actor : act[g].at \in {"building", "replacing"} => g = h
            BY <1>1, <3>2 DEF OwnWork, Locked
        <3> QED
            BY <1>2, <3>2, <3>3, ActorFacts
    <2>2. CASE ~\E h \in Actor : act[h].at \in {"building", "replacing"}
        BY <2>2
    <2> QED
        BY <2>1, <2>2
<1>4. PICK x : Up \subseteq {x}
    BY <1>3
<1>5. IsFiniteSet({x}) /\ Cardinality({x}) = 1
    BY FS_Singleton
<1>6. Cardinality(Up) <= Cardinality({x})
    BY <1>4, <1>5, FS_Subset
<1> QED
    BY <1>1, <1>5, <1>6 DEF OneCall, CallsApart

(***************************************************************************)
(* The voice process: what there is of each call, and its media.           *)
(***************************************************************************)
Part == {"imsPeer", "relay", "rtpConn", "rtcpConn", "clientRemote", "peerTarget",
         "pumps", "pc", "browser", "gathered", "audited"}
Hops == [client : Nat, peer : Nat, ims : Nat, bridge : Nat, up : {0, 1}, down : {0, 1}]
Tally == [fromBrowser : Nat, toRelay : Nat, fromRelay : Nat, toBrowser : Nat,
          peerDropped : Nat, loopDropped : Nat, unseen : Nat]

\* The type of the media state.
MediaTypeOK ==
    /\ have \in [Call -> SUBSET Part]
    /\ tasks \in [Call -> SUBSET (PeerTask \cup LoopTask)]
    /\ path \in [Call -> Hops]
    /\ counts \in [Call -> Tally]

\* Nothing of a call that has not begun.
Fresh == \A c \in Call : c > began => have[c] = {} /\ tasks[c] = {} /\ path[c] = NoPackets

\* What there is while a call is put up: no media before the peer has its target,
\* which it gets after the relay's client leg has one.
Rising(hv, w, s) ==
    /\ w.up = 0 /\ w.client = 0 /\ w.peer = 0 /\ "audited" \notin hv
    /\ s <= 6 => "peerTarget" \notin hv /\ w.ims = 0
    /\ s >= 6 => "clientRemote" \in hv
GoingUp == \A h \in Actor : act[h].at = "building" => Rising(have[act[h].call], path[act[h].call], act[h].step)

\* Where media is or can come from, the relay knows where to send it.
Feeds(hv, w) ==
    (/\ "relay" \in hv
     /\ w.up = 1 \/ w.client > 0 \/ w.peer > 0 \/ w.ims > 0 \/ "peerTarget" \in hv \/ "audited" \in hv)
        => "clientRemote" \in hv
Fed == \A c \in Call : Feeds(have[c], path[c])

\* What MediaAccounted says of one call.
Balanced(n, w) ==
    n.fromBrowser + n.fromRelay
        = n.toRelay + n.toBrowser + n.peerDropped + n.unseen + w.up + w.down

\* The inductive invariant of the media.
MediaInv == MediaTypeOK /\ Fresh /\ GoingUp /\ Fed /\ NothingLeaks /\ TargetsFirst /\ MediaAccounted

LEMMA MediaInitInv == VoiceInit => MediaInv
<1> SUFFICES ASSUME VoiceInit PROVE MediaInv
    OBVIOUS
<1>1. /\ act = [h \in Actor |-> AtRest] /\ have = [c \in Call |-> {}] /\ tasks = [c \in Call |-> {}]
      /\ path = [c \in Call |-> NoPackets] /\ counts = [c \in Call |-> NoCounts] /\ dropped = FALSE
    BY DEF VoiceInit
<1>2. NoPackets \in Hops /\ NoCounts \in Tally
    BY DEF NoPackets, NoCounts, Hops, Tally
<1>3. MediaTypeOK
    BY <1>1, <1>2 DEF MediaTypeOK
<1>4. Fresh /\ Fed /\ NothingLeaks /\ TargetsFirst
    BY <1>1 DEF Fresh, Fed, Feeds, NothingLeaks, TargetsFirst
<1>5. GoingUp
    BY <1>1 DEF GoingUp, AtRest
<1>6. MediaAccounted
    BY <1>1 DEF MediaAccounted, NoCounts, NoPackets
<1> QED
    BY <1>3, <1>4, <1>5, <1>6 DEF MediaInv

\* A packet moves inside one call: what is left to show.
LEMMA PacketMoves ==
    ASSUME CallInv, MediaInv, NEW c \in Call, NEW w \in Hops, NEW n \in Tally, NEW hv \in SUBSET Part,
           Moves(c, w, n), have' = [have EXCEPT ![c] = hv], hv \cap Socket = have[c] \cap Socket,
           ~(have[c] = {} /\ tasks[c] = {} /\ path[c] = NoPackets), dropped' = FALSE,
           Feeds(hv, w), Balanced(n, w),
           \A h \in Actor : act[h].at = "building" /\ act[h].call = c => Rising(hv, w, act[h].step)
    PROVE  MediaInv'
<1>1. MediaTypeOK /\ Fresh /\ GoingUp /\ Fed /\ NothingLeaks /\ MediaAccounted
    BY DEF MediaInv
<1>2. /\ path' = [path EXCEPT ![c] = w] /\ counts' = [counts EXCEPT ![c] = n]
      /\ UNCHANGED <<mu, current, act, began, tasks>>
    BY DEF Moves, callVars
<1>3. /\ have \in [Call -> SUBSET Part] /\ path \in [Call -> Hops] /\ counts \in [Call -> Tally]
      /\ tasks \in [Call -> SUBSET (PeerTask \cup LoopTask)]
    BY <1>1 DEF MediaTypeOK
<1>4. MediaTypeOK'
    BY <1>2, <1>3 DEF MediaTypeOK
<1>5. /\ have'[c] = hv /\ path'[c] = w /\ counts'[c] = n
      /\ \A d \in Call : d # c => have'[d] = have[d] /\ path'[d] = path[d] /\ counts'[d] = counts[d]
    BY <1>2, <1>3
<1>6. ~(c > began)
    BY <1>1 DEF Fresh
<1>7. Fresh'
    BY <1>1, <1>2, <1>5, <1>6 DEF Fresh
<1>8. \A h \in Actor : act[h].at = "building" => act[h].call \in Call
    <2>1. CallTypeOK /\ OwnWork
        BY DEF CallInv
    <2> QED
        BY <2>1, ActorFacts DEF CallTypeOK, OwnWork, Work, Call, Locked
<1>9. GoingUp'
    BY <1>1, <1>2, <1>5, <1>8 DEF GoingUp
<1>10. Fed'
    BY <1>1, <1>5 DEF Fed
<1>11. NothingLeaks'
    BY <1>1, <1>2, <1>5 DEF NothingLeaks
<1>12. MediaAccounted'
    BY <1>1, <1>5 DEF MediaAccounted, Balanced
<1> QED
    BY <1>4, <1>7, <1>9, <1>10, <1>11, <1>12 DEF MediaInv, TargetsFirst

\* Setting two hops, or two counters, at once.
LEMMA TwoHops ==
    ASSUME NEW w \in Hops, NEW a \in Nat, NEW b \in Nat
    PROVE  /\ [w EXCEPT !.up = 0, !.client = a] \in Hops
           /\ [w EXCEPT !.client = a, !.peer = b] \in Hops
           /\ [w EXCEPT !.ims = a, !.bridge = b] \in Hops
           /\ [w EXCEPT !.bridge = a, !.down = 1] \in Hops
<1> DEFINE u == [w EXCEPT !.up = 0]
           v == [w EXCEPT !.client = a]
           x == [w EXCEPT !.ims = a]
           y == [w EXCEPT !.bridge = a]
<1>2. u \in Hops /\ v \in Hops /\ x \in Hops /\ y \in Hops
    BY DEF Hops
<1>3. /\ [w EXCEPT !.up = 0, !.client = a] = [u EXCEPT !.client = a]
      /\ [w EXCEPT !.client = a, !.peer = b] = [v EXCEPT !.peer = b]
      /\ [w EXCEPT !.ims = a, !.bridge = b] = [x EXCEPT !.bridge = b]
      /\ [w EXCEPT !.bridge = a, !.down = 1] = [y EXCEPT !.down = 1]
    OBVIOUS
<1> HIDE DEF u, v, x, y
<1>4. /\ [u EXCEPT !.client = a] \in Hops /\ [v EXCEPT !.peer = b] \in Hops
      /\ [x EXCEPT !.bridge = b] \in Hops /\ [y EXCEPT !.down = 1] \in Hops
    BY <1>2 DEF Hops
<1> QED
    BY <1>3, <1>4

LEMMA TwoTallies ==
    ASSUME NEW n \in Tally, NEW a \in Nat, NEW b \in Nat
    PROVE  [n EXCEPT !.peerDropped = a, !.loopDropped = b] \in Tally
<1> DEFINE u == [n EXCEPT !.peerDropped = a]
<1>1. u \in Tally
    BY DEF Tally
<1>2. [n EXCEPT !.peerDropped = a, !.loopDropped = b] = [u EXCEPT !.loopDropped = b]
    OBVIOUS
<1> HIDE DEF u
<1>3. [u EXCEPT !.loopDropped = b] \in Tally
    BY <1>1 DEF Tally
<1> QED
    BY <1>2, <1>3

\* The media of a call: every packet that moves keeps the invariant.
\* A packet that moves and sets up nothing.
LEMMA PathMoves ==
    ASSUME CallInv, MediaInv, NEW c \in Call, NEW w \in Hops, NEW n \in Tally,
           Moves(c, w, n), have' = have, path[c] # NoPackets, dropped' = FALSE,
           Feeds(have[c], w), Balanced(n, w),
           \A h \in Actor : act[h].at = "building" /\ act[h].call = c => Rising(have[c], w, act[h].step)
    PROVE  MediaInv'
<1>1. PICK hv \in SUBSET Part : hv = have[c]
    BY DEF MediaInv, MediaTypeOK
<1>2. have' = [have EXCEPT ![c] = hv]
    BY <1>1 DEF MediaInv, MediaTypeOK
<1>3. Feeds(hv, w) /\ \A h \in Actor : act[h].at = "building" /\ act[h].call = c => Rising(hv, w, act[h].step)
    BY <1>1
<1> QED
    BY <1>1, <1>2, <1>3, PacketMoves

LEMMA PacketStep ==
    ASSUME CallInv, MediaInv, NEW c \in Call,
           \/ SendTick(c) \/ BrowserSpeaks(c) \/ ToRelay(c) \/ Forward(c)
           \/ PeerReceives(c) \/ FromRelay(c) \/ ToBrowser(c)
    PROVE  MediaInv'
<1>1. MediaTypeOK /\ Fresh /\ GoingUp /\ Fed /\ NothingLeaks /\ MediaAccounted /\ dropped = FALSE
    BY DEF MediaInv, TargetsFirst
<1>2. /\ have \in [Call -> SUBSET Part] /\ have[c] \in SUBSET Part
      /\ path[c] \in Hops /\ counts[c] \in Tally
    BY <1>1 DEF MediaTypeOK
<1>3. Feeds(have[c], path[c]) /\ Balanced(counts[c], path[c])
    BY <1>1 DEF Fed, MediaAccounted, Balanced
<1>4. \A h \in Actor : act[h].at = "building" /\ act[h].call = c => Rising(have[c], path[c], act[h].step)
    BY <1>1 DEF GoingUp
<1>5. \A h \in Actor : act[h].step \in 1..11
    BY DEF CallInv, CallTypeOK, Work
<1>6. NoPackets.up = 0 /\ NoPackets.down = 0 /\ NoPackets.client = 0 /\ NoPackets.peer = 0
      /\ NoPackets.ims = 0 /\ NoPackets.bridge = 0
    BY DEF NoPackets
<1>7. have' = have => have' = [have EXCEPT ![c] = have[c]]
    BY <1>2
<1>8. CASE SendTick(c)
    <2> DEFINE w == [path[c] EXCEPT !.ims = IF "relay" \in have[c] THEN @ + 1 ELSE @]
    <2>1. /\ Moves(c, w, counts[c]) /\ UNCHANGED <<have, dropped>>
          /\ "peerTarget" \in have[c]
        BY <1>8 DEF SendTick
    <2>2. w \in Hops /\ w.up = path[c].up /\ w.client = path[c].client /\ w.peer = path[c].peer /\ w.down = path[c].down
        BY <1>2 DEF Hops
    <2> HIDE DEF w
    <2>3. Feeds(have[c], w) /\ Balanced(counts[c], w)
        BY <1>3, <2>1, <2>2 DEF Feeds, Balanced
    <2>4. \A h \in Actor : act[h].at = "building" /\ act[h].call = c => Rising(have[c], w, act[h].step)
        BY <1>4, <2>1, <2>2 DEF Rising
    <2> QED
        BY <1>1, <1>2, <1>7, <2>1, <2>2, <2>3, <2>4, PacketMoves
<1>9. CASE BrowserSpeaks(c)
    <2> DEFINE w == [path[c] EXCEPT !.up = 1]
               n == [counts[c] EXCEPT !.fromBrowser = @ + 1]
    <2>1. /\ Moves(c, w, n) /\ UNCHANGED <<have, dropped>>
          /\ "audited" \in have[c] /\ path[c].up = 0
        BY <1>9 DEF BrowserSpeaks
    <2>2. w \in Hops /\ n \in Tally
        BY <1>2 DEF Hops, Tally
    <2>3. Balanced(n, w)
        BY <1>2, <1>3, <2>1 DEF Balanced, Hops, Tally
    <2>4. Feeds(have[c], w)
        BY <1>3, <2>1 DEF Feeds
    <2>5. \A h \in Actor : ~(act[h].at = "building" /\ act[h].call = c)
        BY <1>4, <2>1 DEF Rising
    <2> HIDE DEF w, n
    <2> QED
        BY <1>1, <1>2, <1>7, <2>1, <2>2, <2>3, <2>4, <2>5, PacketMoves
<1>10. CASE ToRelay(c)
    <2>1. path[c].up = 1 /\ UNCHANGED <<have, dropped>>
        BY <1>10 DEF ToRelay
    <2>2. \A h \in Actor : ~(act[h].at = "building" /\ act[h].call = c)
        BY <1>4, <2>1 DEF Rising
    <2>3. CASE "rtpConn" \in have[c]
        <3> DEFINE k == IF "relay" \in have[c] THEN path[c].client + 1 ELSE path[c].client
                   w == [path[c] EXCEPT !.up = 0, !.client = k]
                   n == [counts[c] EXCEPT !.toRelay = @ + 1]
        <3>1. Moves(c, w, n)
            BY <1>10, <2>3 DEF ToRelay
        <3>2. k \in Nat /\ n \in Tally
            BY <1>2 DEF Hops, Tally
        <3>5. w \in Hops
            <4> HIDE DEF k
            <4> QED
                BY <1>2, <3>2, TwoHops
        <3>3. Balanced(n, w)
            BY <1>2, <1>3, <2>1 DEF Balanced, Hops, Tally
        <3>4. Feeds(have[c], w)
            BY <1>2, <1>3, <2>1 DEF Feeds, Hops
        <3> HIDE DEF w, n
        <3> QED
            BY <1>1, <1>2, <1>7, <2>1, <2>2, <2>3, <3>1, <3>2, <3>3, <3>4, <3>5, PacketMoves
    <2>4. CASE "rtpConn" \notin have[c]
        <3> DEFINE w == [path[c] EXCEPT !.up = 0]
                   n == [counts[c] EXCEPT !.peerDropped = @ + 1, !.loopDropped = @ + 1]
        <3>1. Moves(c, w, n)
            BY <1>10, <2>4 DEF ToRelay
        <3>6. counts[c].peerDropped + 1 \in Nat /\ counts[c].loopDropped + 1 \in Nat /\ w \in Hops
            BY <1>2 DEF Hops, Tally
        <3>2. w \in Hops /\ n \in Tally
            BY <1>2, <3>6, TwoTallies
        <3>3. Balanced(n, w)
            BY <1>2, <1>3, <2>1 DEF Balanced, Hops, Tally
        <3>4. Feeds(have[c], w)
            BY <1>2, <1>3, <2>1 DEF Feeds, Hops
        <3> HIDE DEF w, n
        <3>5. path[c] # NoPackets
            BY <1>6, <2>1
        <3> QED
            BY <1>1, <2>1, <2>2, <3>1, <3>2, <3>3, <3>4, <3>5, PathMoves
    <2> QED
        BY <2>3, <2>4
<1>11. CASE Forward(c)
    <2>1. "relay" \in have[c] /\ UNCHANGED have
        BY <1>11 DEF Forward
    <2>2. CASE path[c].client > 0 /\ UNCHANGED dropped
               /\ Moves(c, [path[c] EXCEPT !.client = @ - 1,
                                           !.peer = IF "imsPeer" \in have[c] THEN @ + 1 ELSE @], counts[c])
        <3> DEFINE k == IF "imsPeer" \in have[c] THEN path[c].peer + 1 ELSE path[c].peer
                   w == [path[c] EXCEPT !.client = path[c].client - 1, !.peer = k]
        <3>1. "clientRemote" \in have[c]
            BY <1>3, <2>1, <2>2 DEF Feeds
        <3>6. k \in Nat /\ path[c].client - 1 \in Nat
            BY <1>2, <2>2 DEF Hops
        <3>2. w \in Hops /\ w.up = path[c].up /\ w.down = path[c].down
            <4> HIDE DEF k
            <4>1. w.up = path[c].up /\ w.down = path[c].down
                BY <1>2 DEF Hops
            <4> QED
                BY <1>2, <3>6, <4>1, TwoHops
        <3>3. \A h \in Actor : ~(act[h].at = "building" /\ act[h].call = c)
            BY <1>4, <2>2 DEF Rising
        <3> HIDE DEF w
        <3>4. Moves(c, w, counts[c])
            BY <2>2 DEF w
        <3>5. Feeds(have[c], w) /\ Balanced(counts[c], w)
            BY <1>3, <3>1, <3>2 DEF Feeds, Balanced
        <3>7. path[c] # NoPackets /\ dropped' = FALSE
            BY <1>1, <1>6, <2>2
        <3> QED
            BY <1>2, <2>1, <3>2, <3>3, <3>4, <3>5, <3>7, PathMoves
    <2>3. CASE path[c].ims > 0 /\ dropped' = (dropped \/ "clientRemote" \notin have[c])
               /\ Moves(c, [path[c] EXCEPT !.ims = @ - 1,
                                      !.bridge = IF {"clientRemote", "rtpConn"} \subseteq have[c]
                                                 THEN @ + 1 ELSE @], counts[c])
        <3> DEFINE k == IF {"clientRemote", "rtpConn"} \subseteq have[c] THEN path[c].bridge + 1 ELSE path[c].bridge
                   w == [path[c] EXCEPT !.ims = path[c].ims - 1, !.bridge = k]
        <3>1. "clientRemote" \in have[c]
            BY <1>3, <2>1, <2>3 DEF Feeds
        <3>8. k \in Nat /\ path[c].ims - 1 \in Nat
            BY <1>2, <2>3 DEF Hops
        <3>2. w \in Hops /\ w.up = path[c].up /\ w.down = path[c].down /\ w.client = path[c].client
              /\ w.peer = path[c].peer
            <4> HIDE DEF k
            <4>1. w.up = path[c].up /\ w.down = path[c].down /\ w.client = path[c].client /\ w.peer = path[c].peer
                BY <1>2 DEF Hops
            <4> QED
                BY <1>2, <3>8, <4>1, TwoHops
        <3>3. \A h \in Actor : act[h].at = "building" /\ act[h].call = c => ~(act[h].step <= 6)
            BY <1>4, <2>3 DEF Rising
        <3> HIDE DEF w
        <3>4. Moves(c, w, counts[c])
            BY <2>3 DEF w
        <3>5. Feeds(have[c], w) /\ Balanced(counts[c], w)
            BY <1>3, <3>1, <3>2 DEF Feeds, Balanced
        <3>6. \A h \in Actor : act[h].at = "building" /\ act[h].call = c => Rising(have[c], w, act[h].step)
            BY <1>4, <3>2, <3>3 DEF Rising
        <3>7. dropped' = FALSE
            BY <1>1, <2>3, <3>1
        <3>9. path[c] # NoPackets
            BY <1>6, <2>3
        <3> QED
            BY <1>2, <2>1, <3>2, <3>4, <3>5, <3>6, <3>7, <3>9, PathMoves
    <2> QED
        BY <1>11, <2>2, <2>3 DEF Forward
<1>12. CASE PeerReceives(c)
    <2> DEFINE w == [path[c] EXCEPT !.peer = @ - 1]
               hv == have[c] \cup {"peerTarget"}
    <2>1. /\ path[c].peer > 0 /\ Moves(c, w, counts[c]) /\ UNCHANGED dropped
          /\ have' = [have EXCEPT ![c] = hv]
        BY <1>12 DEF PeerReceives
    <2>2. w \in Hops /\ w.up = path[c].up /\ w.down = path[c].down /\ hv \in SUBSET Part
        BY <1>2, <2>1 DEF Hops, Part
    <2>3. \A h \in Actor : ~(act[h].at = "building" /\ act[h].call = c)
        BY <1>4, <2>1 DEF Rising
    <2>4. hv \cap Socket = have[c] \cap Socket /\ ("relay" \in hv <=> "relay" \in have[c])
          /\ ("clientRemote" \in hv <=> "clientRemote" \in have[c])
        BY DEF Socket
    <2> HIDE DEF w, hv
    <2>5. Feeds(hv, w) /\ Balanced(counts[c], w)
        BY <1>3, <2>1, <2>2, <2>4 DEF Feeds, Balanced
    <2>6. path[c] # NoPackets
        BY <1>6, <2>1
    <2> QED
        BY <1>1, <1>2, <2>1, <2>2, <2>3, <2>4, <2>5, <2>6, PacketMoves
<1>13. CASE FromRelay(c)
    <2> DEFINE w == [path[c] EXCEPT !.bridge = @ - 1, !.down = 1]
               n == [counts[c] EXCEPT !.fromRelay = @ + 1]
    <2>1. /\ path[c].bridge > 0 /\ path[c].down = 0 /\ Moves(c, w, n) /\ UNCHANGED <<have, dropped>>
        BY <1>13 DEF FromRelay
    <2>7. path[c].bridge - 1 \in Nat /\ n \in Tally
        BY <1>2, <2>1 DEF Hops, Tally
    <2>8. w.up = path[c].up /\ w.client = path[c].client /\ w.peer = path[c].peer /\ w.ims = path[c].ims
        BY <1>2 DEF Hops
    <2>2. /\ w \in Hops /\ n \in Tally /\ w.up = path[c].up /\ w.client = path[c].client
          /\ w.peer = path[c].peer /\ w.ims = path[c].ims
        BY <1>2, <2>7, <2>8, TwoHops
    <2>3. Balanced(n, w)
        BY <1>2, <1>3, <2>1 DEF Balanced, Hops, Tally
    <2> HIDE DEF w, n
    <2>4. Feeds(have[c], w)
        BY <1>3, <2>2 DEF Feeds
    <2>5. \A h \in Actor : act[h].at = "building" /\ act[h].call = c => Rising(have[c], w, act[h].step)
        BY <1>4, <2>2 DEF Rising
    <2>6. path[c] # NoPackets
        BY <1>6, <2>1
    <2> QED
        BY <1>1, <2>1, <2>2, <2>3, <2>4, <2>5, <2>6, PathMoves
<1>14. CASE ToBrowser(c)
    <2> DEFINE w == [path[c] EXCEPT !.down = 0]
    <2>1. path[c].down = 1 /\ UNCHANGED <<have, dropped>>
        BY <1>14 DEF ToBrowser
    <2>2. PICK n \in {[counts[c] EXCEPT !.unseen = @ + 1], [counts[c] EXCEPT !.peerDropped = @ + 1],
                      [counts[c] EXCEPT !.peerDropped = @ + 1, !.loopDropped = @ + 1],
                      [counts[c] EXCEPT !.toBrowser = @ + 1]} : Moves(c, w, n)
        BY <1>14 DEF ToBrowser
    <2>3. /\ w \in Hops /\ w.up = path[c].up /\ w.client = path[c].client
          /\ w.peer = path[c].peer /\ w.ims = path[c].ims /\ w.down = 0
        BY <1>2 DEF Hops
    <2>4. n \in Tally /\ Balanced(n, w)
        <3>1. CASE n = [counts[c] EXCEPT !.unseen = @ + 1]
            BY <1>2, <1>3, <2>1, <2>3, <3>1 DEF Balanced, Hops, Tally
        <3>2. CASE n = [counts[c] EXCEPT !.peerDropped = @ + 1]
            BY <1>2, <1>3, <2>1, <2>3, <3>2 DEF Balanced, Hops, Tally
        <3>3. CASE n = [counts[c] EXCEPT !.peerDropped = @ + 1, !.loopDropped = @ + 1]
            <4>1. counts[c].peerDropped + 1 \in Nat /\ counts[c].loopDropped + 1 \in Nat
                BY <1>2 DEF Tally
            <4>2. n \in Tally
                BY <1>2, <3>3, <4>1, TwoTallies
            <4>3. Balanced(n, w)
                BY <1>2, <1>3, <2>1, <2>3, <3>3 DEF Balanced, Hops, Tally
            <4> QED
                BY <4>2, <4>3
        <3>4. CASE n = [counts[c] EXCEPT !.toBrowser = @ + 1]
            BY <1>2, <1>3, <2>1, <2>3, <3>4 DEF Balanced, Hops, Tally
        <3> QED
            BY <2>2, <3>1, <3>2, <3>3, <3>4
    <2> HIDE DEF w
    <2>5. Feeds(have[c], w)
        BY <1>3, <2>3 DEF Feeds
    <2>6. \A h \in Actor : act[h].at = "building" /\ act[h].call = c => Rising(have[c], w, act[h].step)
        BY <1>4, <2>3 DEF Rising
    <2>7. path[c] # NoPackets
        BY <1>6, <2>1
    <2> QED
        BY <1>1, <2>1, <2>2, <2>3, <2>4, <2>5, <2>6, <2>7, PathMoves
<1> QED
    BY <1>8, <1>9, <1>10, <1>11, <1>12, <1>13, <1>14

\* The handlers' steps that leave the media alone: what is left to show.
LEMMA MediaLeftAlone ==
    ASSUME CallInv, MediaInv, CallInv', UNCHANGED mediaVars, began <= began',
           \A c \in Call : c = current => c = current' \/ \E h \in Actor : act'[h].call = c,
           \A h \in Actor : act[h].call = NoCall \/ act'[h].call = act[h].call,
           \A h \in Actor : act'[h].at = "building" =>
               \/ act'[h] = act[h]
               \/ act'[h].call > began /\ act'[h].step = 1
    PROVE  MediaInv'
<1>1. MediaTypeOK /\ Fresh /\ GoingUp /\ Fed /\ NothingLeaks /\ TargetsFirst /\ MediaAccounted
    BY DEF MediaInv
<1>2. UNCHANGED <<have, tasks, path, counts, dropped>>
    BY DEF mediaVars
<1>3. MediaTypeOK' /\ Fed' /\ TargetsFirst' /\ MediaAccounted'
    BY <1>1, <1>2 DEF MediaTypeOK, Fed, TargetsFirst, MediaAccounted
<1>4. began \in 0..MaxCalls /\ began' \in 0..MaxCalls
    BY DEF CallInv, CallTypeOK
<1>5. Fresh'
    BY <1>1, <1>2, <1>4, ActorFacts DEF Fresh, Call
<1>6. \A h \in Actor : act'[h].at = "building" => act'[h].call \in Call
    <2>1. CallTypeOK' /\ OwnWork'
        BY DEF CallInv
    <2> QED
        BY <2>1, ActorFacts DEF CallTypeOK, OwnWork, Work, Call, Locked
<1>7. GoingUp'
    <2>1. Rising({}, NoPackets, 1)
        BY DEF Rising, NoPackets
    <2> QED
        BY <1>1, <1>2, <1>6, <2>1 DEF GoingUp, Fresh
<1>8. 0 \notin Call
    BY ActorFacts DEF Call
<1>9. NothingLeaks'
    BY <1>1, <1>2, <1>8, ActorFacts DEF NothingLeaks
<1> QED
    BY <1>3, <1>5, <1>7, <1>9 DEF MediaInv

\* The order in which a call is put up.
LEMMA BuildOrderFacts ==
    /\ BuildOrder[1] = "imsPeer" /\ BuildOrder[2] = "relay" /\ BuildOrder[3] = "rtpConn"
    /\ BuildOrder[4] = "rtcpConn" /\ BuildOrder[5] = "clientRemote" /\ BuildOrder[6] = "peerTarget"
    /\ BuildOrder[7] = "pumps" /\ BuildOrder[8] = "pc" /\ BuildOrder[9] = "browser"
    /\ BuildOrder[10] = "gathered" /\ BuildOrder[11] = "audited"
BY DEF BuildOrder

\* One step of putting a call up keeps the order: no media before both targets.
LEMMA OneRises ==
    ASSUME NEW hv \in SUBSET Part, NEW w \in Hops, NEW s \in 1..11,
           Rising(hv, w, s), Feeds(hv, w), NEW more, more = hv \cup {BuildOrder[s]}
    PROVE  /\ Feeds(more, w)
           /\ s < 11 => Rising(more, w, s + 1)
           /\ BuildOrder[s] \in Part
<1>1. s \in {1, 2, 3, 4, 5, 6, 7, 8, 9, 10, 11}
    OBVIOUS
<1>2. BuildOrder[s] \in Part /\ (BuildOrder[s] = "audited" <=> s = 11)
      /\ (BuildOrder[s] = "relay" <=> s = 2) /\ (BuildOrder[s] = "peerTarget" <=> s = 6)
      /\ (BuildOrder[s] = "clientRemote" <=> s = 5)
    BY <1>1, BuildOrderFacts DEF Part
<1>3. ASSUME NEW p, p = BuildOrder[s]
      PROVE  /\ Feeds(hv \cup {p}, w)
             /\ s < 11 => Rising(hv \cup {p}, w, s + 1)
    <2>1. /\ p = "audited" <=> s = 11
          /\ p = "relay" <=> s = 2
          /\ p = "peerTarget" <=> s = 6
          /\ p = "clientRemote" <=> s = 5
        BY <1>2, <1>3
    <2>2. s < 11 => Rising(hv \cup {p}, w, s + 1)
        BY <2>1 DEF Rising
    <2>3. Feeds(hv \cup {p}, w)
        <3>1. CASE s <= 4
            BY <2>1, <3>1 DEF Rising, Feeds, Hops
        <3>2. CASE s = 5
            BY <2>1, <3>2 DEF Feeds
        <3>3. CASE s >= 6
            BY <3>3 DEF Rising, Feeds
        <3> QED
            BY <3>1, <3>2, <3>3
    <2> QED
        BY <2>2, <2>3
<1> QED
    BY <1>2, <1>3

\* A step on one call that a handler holds: what is left to show.
LEMMA HeldCallChanges ==
    ASSUME CallInv, MediaInv, CallInv', NEW h \in Actor, act[h].call # NoCall,
           NEW hv \in SUBSET Part, NEW tk \in SUBSET (PeerTask \cup LoopTask), NEW w \in Hops,
           have' = [have EXCEPT ![act[h].call] = hv], tasks' = [tasks EXCEPT ![act[h].call] = tk],
           path' = [path EXCEPT ![act[h].call] = w], UNCHANGED <<counts, dropped>>,
           began <= began', w.up = path[act[h].call].up, w.down = path[act[h].call].down,
           Feeds(hv, w),
           \A g \in Actor : g # h => act'[g] = act[g],
           \A c \in Call : c = current => c = current' \/ c = act[h].call,
           \/ act[h].call = current' \/ act'[h].call = act[h].call
           \/ hv \cap Socket = {} /\ tk = {},
           act'[h].at = "building" =>
               \/ act'[h].call = act[h].call /\ Rising(hv, w, act'[h].step)
               \/ act'[h].call > began /\ act'[h].step = 1
    PROVE  MediaInv'
<1> DEFINE c == act[h].call
<1>1. MediaTypeOK /\ Fresh /\ GoingUp /\ Fed /\ NothingLeaks /\ TargetsFirst /\ MediaAccounted
    BY DEF MediaInv
<1>2. CallTypeOK /\ OwnWork /\ CallsApart /\ CallTypeOK' /\ OwnWork' /\ CallsApart'
    BY DEF CallInv
<1>3. c \in Call /\ c <= began /\ began \in Nat /\ began' \in Nat /\ 0 \notin Call /\ Call \subseteq Nat
    BY <1>2, ActorFacts DEF CallTypeOK, OwnWork, Work, Call
<1> HIDE DEF c
<1>4. /\ have \in [Call -> SUBSET Part] /\ path \in [Call -> Hops] /\ counts \in [Call -> Tally]
      /\ tasks \in [Call -> SUBSET (PeerTask \cup LoopTask)]
    BY <1>1 DEF MediaTypeOK
<1>5. MediaTypeOK'
    BY <1>3, <1>4 DEF MediaTypeOK, c
<1>6. /\ have'[c] = hv /\ tasks'[c] = tk /\ path'[c] = w
      /\ \A d \in Call : d # c => have'[d] = have[d] /\ tasks'[d] = tasks[d] /\ path'[d] = path[d]
    BY <1>3, <1>4 DEF c
<1>7. Fresh'
    BY <1>1, <1>3, <1>6 DEF Fresh
<1>8. \A g \in Actor : act'[g].at = "building" => act'[g].call \in Call
    BY <1>2, ActorFacts DEF CallTypeOK, OwnWork, Work, Call, Locked
<1>9. \A g \in Actor : g # h => act[g].call # c
    BY <1>2, <1>3, ActorFacts DEF CallsApart, c
<1>10. GoingUp'
    <2>1. Rising({}, NoPackets, 1)
        BY DEF Rising, NoPackets
    <2>2. ASSUME NEW g \in Actor, act'[g].at = "building"
          PROVE  Rising(have'[act'[g].call], path'[act'[g].call], act'[g].step)
        <3>1. CASE g # h
            BY <1>1, <1>6, <1>8, <1>9, <2>2, <3>1 DEF GoingUp
        <3>2. CASE g = h /\ act'[h].call = c
            <4>1. ~(act'[h].call > began)
                BY <1>3, <3>2
            <4>2. Rising(hv, w, act'[h].step)
                BY <2>2, <3>2, <4>1 DEF c
            <4> QED
                BY <1>6, <3>2, <4>2
        <3>3. CASE g = h /\ act'[h].call # c
            <4>1. act'[h].call > began /\ act'[h].step = 1 /\ act'[h].call \in Call
                BY <1>8, <2>2, <3>3 DEF c
            <4>2. have'[act'[h].call] = {} /\ path'[act'[h].call] = NoPackets
                BY <1>1, <1>6, <3>3, <4>1 DEF Fresh
            <4> QED
                BY <2>1, <3>3, <4>1, <4>2
        <3> QED
            BY <3>1, <3>2, <3>3
    <2> QED
        BY <2>2 DEF GoingUp
<1>11. Fed'
    BY <1>1, <1>6 DEF Fed
<1>12. NothingLeaks'
    <2>1. ASSUME NEW d \in Call, d # c PROVE
             \/ d = current' \/ (\E g \in Actor : act'[g].call = d) \/ (have'[d] \cap Socket = {} /\ tasks'[d] = {})
        BY <1>1, <1>6, <2>1 DEF NothingLeaks, c
    <2>2. \/ c = current' \/ (\E g \in Actor : act'[g].call = c) \/ (have'[c] \cap Socket = {} /\ tasks'[c] = {})
        BY <1>6 DEF c
    <2> QED
        BY <2>1, <2>2 DEF NothingLeaks
<1>13. MediaAccounted'
    <2>1. \A d \in Call : path'[d].up = path[d].up /\ path'[d].down = path[d].down
        BY <1>6 DEF c
    <2> QED
        BY <1>1, <2>1 DEF MediaAccounted
<1> QED
    BY <1>1, <1>5, <1>7, <1>10, <1>11, <1>12, <1>13 DEF MediaInv, TargetsFirst

\* Closing a socket empties its buffer and feeds nothing.
LEMMA ClosingFeedsNothing ==
    ASSUME NEW hv \in SUBSET Part, NEW w \in Hops, NEW part \in Socket, Feeds(hv, w)
    PROVE  /\ Emptied(w, part) \in Hops
           /\ Emptied(w, part).up = w.up /\ Emptied(w, part).down = w.down
           /\ Feeds(hv \ {part}, Emptied(w, part))
<1>1. DOMAIN w = {"client", "peer", "ims", "bridge", "up", "down"}
    BY DEF Hops
<1>2. \A hop \in DOMAIN w : Emptied(w, part)[hop] \in {0, w[hop]}
    BY DEF Emptied
<1>3. Emptied(w, part).up = w.up /\ Emptied(w, part).down = w.down
    BY <1>1 DEF Emptied
<1>4. /\ w.client \in Nat /\ w.peer \in Nat /\ w.ims \in Nat /\ w.bridge \in Nat
      /\ w.up \in {0, 1} /\ w.down \in {0, 1}
    BY DEF Hops
<1>5. /\ Emptied(w, part).client \in {0, w.client} /\ Emptied(w, part).peer \in {0, w.peer}
      /\ Emptied(w, part).ims \in {0, w.ims} /\ Emptied(w, part).bridge \in {0, w.bridge}
    BY <1>1, <1>2
<1>6. Emptied(w, part) \in Hops
    <2> DEFINE e == Emptied(w, part)
    <2>1. e = [hop \in {"client", "peer", "ims", "bridge", "up", "down"} |-> e[hop]]
        BY <1>1 DEF Emptied
    <2>2. /\ e.client \in Nat /\ e.peer \in Nat /\ e.ims \in Nat /\ e.bridge \in Nat
          /\ e.up \in {0, 1} /\ e.down \in {0, 1}
        BY <1>3, <1>4, <1>5
    <2> HIDE DEF e
    <2>3. e = [client |-> e.client, peer |-> e.peer, ims |-> e.ims, bridge |-> e.bridge,
               up |-> e.up, down |-> e.down]
        BY <2>1
    <2>4. e \in Hops
        BY <2>2, <2>3 DEF Hops
    <2> QED
        BY <2>4 DEF e
<1>7. Feeds(hv \ {part}, Emptied(w, part))
    BY <1>3, <1>4, <1>5 DEF Feeds, Socket
<1> QED
    BY <1>3, <1>6, <1>7

\* Every step of the voice process keeps the media right.
LEMMA MediaStep == CallInv /\ MediaInv /\ [VoiceNext]_voiceVars => MediaInv'
<1> SUFFICES ASSUME CallInv, MediaInv, [VoiceNext]_voiceVars PROVE MediaInv'
    OBVIOUS
<1>1. CallInv'
    BY CallStep
<1>2. MediaTypeOK /\ Fresh /\ GoingUp /\ Fed /\ NothingLeaks /\ TargetsFirst /\ MediaAccounted
    BY DEF MediaInv
<1>3. CallTypeOK /\ OwnWork /\ ActiveCall /\ CallsApart
    BY DEF CallInv
<1>4. act \in [Actor -> Work] /\ began \in Nat /\ current \in Nat /\ 0 \notin Call /\ NoCall = 0
    BY <1>3, ActorFacts DEF CallTypeOK, Call
<1>5. /\ have \in [Call -> SUBSET Part] /\ path \in [Call -> Hops] /\ counts \in [Call -> Tally]
      /\ tasks \in [Call -> SUBSET (PeerTask \cup LoopTask)]
    BY <1>2 DEF MediaTypeOK
<1>6. ASSUME NEW h \in Actor, act[h].call # NoCall
      PROVE  act[h].call \in Call /\ act[h].call <= began /\ act[h].step \in 1..11
             /\ have[act[h].call] \in SUBSET Part /\ path[act[h].call] \in Hops
             /\ tasks[act[h].call] \in SUBSET (PeerTask \cup LoopTask)
             /\ Feeds(have[act[h].call], path[act[h].call])
    <2>1. act[h] \in Work /\ act[h].call <= began /\ act[h].call \in 1..MaxCalls
        BY <1>3, <1>4, <1>6, ActorFacts DEF OwnWork, Work
    <2>2. act[h].call \in Call /\ act[h].step \in 1..11
        BY <2>1 DEF Work, Call
    <2> QED
        BY <1>2, <1>5, <2>1, <2>2 DEF Fed
<1>7. ASSUME NEW h \in Handler, NEW op \in {"offer", "hangup"}, Asks(h, op) PROVE MediaInv'
    <2>1. /\ act' = [act EXCEPT ![h].at = op] /\ act[h].at = "idle"
          /\ UNCHANGED <<current, mediaVars, began>>
        BY <1>7 DEF Asks
    <2>2. h \in Actor
        BY ActorFacts
    <2>3. \A g \in Actor : act'[g].call = act[g].call /\ (act'[g].at = "building" => act'[g] = act[g])
        BY <1>4, <2>1, <2>2 DEF Work
    <2> QED
        BY <1>1, <1>4, <2>1, <2>3, MediaLeftAlone
<1>8. ASSUME NEW h \in Actor, AnswerOffer(h) PROVE MediaInv'
    <2>1. act[h].at = "offer" /\ UNCHANGED <<current, mediaVars>>
        BY <1>8 DEF AnswerOffer
    <2>2. act[h].call = NoCall
        BY <1>3, <2>1 DEF OwnWork, Locked
    <2>3. CASE Build(h)
        <3>1. /\ began' = began + 1
              /\ act' = [act EXCEPT ![h] = [at |-> "building", call |-> began + 1, step |-> 1]]
            BY <2>3 DEF Build
        <3>2. /\ act'[h].call > began /\ act'[h].step = 1
              /\ \A g \in Actor : g # h => act'[g] = act[g]
            BY <1>4, <3>1
        <3> QED
            BY <1>1, <1>4, <2>1, <2>2, <3>1, <3>2, MediaLeftAlone
    <2>4. CASE act' = [act EXCEPT ![h] = [at |-> "replacing", call |-> current, step |-> 1]] /\ UNCHANGED began
        <3>1. act'[h].at # "building" /\ \A g \in Actor : g # h => act'[g] = act[g]
            BY <1>4, <2>4
        <3> QED
            BY <1>1, <1>4, <2>1, <2>2, <2>4, <3>1, MediaLeftAlone
    <2> QED
        BY <1>8, <2>3, <2>4 DEF AnswerOffer
<1>9. ASSUME NEW h \in Actor, CloseCall(h) PROVE MediaInv'
    <2>1. /\ act[h].at = "hangup" /\ current' = NoCall /\ UNCHANGED <<mediaVars, began>>
          /\ act' = [act EXCEPT ![h] = IF current = NoCall THEN AtRest
                                       ELSE [at |-> "closing", call |-> current, step |-> 1]]
        BY <1>9 DEF CloseCall
    <2>2. act[h].call = NoCall
        BY <1>3, <2>1 DEF OwnWork, Locked
    <2>3. /\ act'[h].at # "building" /\ \A g \in Actor : g # h => act'[g] = act[g]
          /\ current # NoCall => act'[h].call = current
        BY <1>4, <2>1 DEF AtRest
    <2> QED
        BY <1>1, <1>4, <2>1, <2>2, <2>3, MediaLeftAlone
<1>10. ASSUME NEW h \in Actor, BuildFails(h) PROVE MediaInv'
    <2>1. /\ act[h].at = "building" /\ UNCHANGED <<current, mediaVars, began>>
          /\ act' = [act EXCEPT ![h].at = "undoing", ![h].step = 1]
        BY <1>10 DEF BuildFails
    <2>2. \A g \in Actor : act'[g].call = act[g].call /\ (g # h => act'[g] = act[g])
        BY <1>4, <2>1 DEF Work
    <2>3. act'[h].at = "undoing"
        BY <1>4, <2>1 DEF Work
    <2> QED
        BY <1>1, <1>4, <2>1, <2>2, <2>3, MediaLeftAlone
<1>11. CASE Signal
    BY <1>1, <1>4, <1>11, MediaLeftAlone DEF Signal
<1>12. CASE ShutdownReturned
    <2>1. act' = [act EXCEPT ![Main].at = "hangup"] /\ UNCHANGED <<current, mediaVars, began>>
        BY <1>12 DEF ShutdownReturned
    <2>2. Main \in Actor
        BY ActorFacts
    <2>3. \A g \in Actor : act'[g].call = act[g].call /\ (act'[g].at = "building" => act'[g] = act[g])
        BY <1>4, <2>1, <2>2 DEF Work
    <2> QED
        BY <1>1, <1>4, <2>1, <2>3, MediaLeftAlone
<1>13. CASE Exit
    <2>1. /\ act' = [h \in Actor |-> AtRest] /\ have' = [c \in Call |-> {}] /\ tasks' = [c \in Call |-> {}]
          /\ path' = [c \in Call |-> NoPackets] /\ counts' = [c \in Call |-> NoCounts] /\ UNCHANGED dropped
        BY <1>13 DEF Exit
    <2>2. NoPackets \in Hops /\ NoCounts \in Tally
        BY DEF NoPackets, NoCounts, Hops, Tally
    <2>3. MediaTypeOK'
        BY <2>1, <2>2 DEF MediaTypeOK
    <2>4. Fresh' /\ Fed' /\ NothingLeaks' /\ TargetsFirst'
        BY <1>2, <2>1 DEF Fresh, Fed, Feeds, NothingLeaks, TargetsFirst
    <2>5. GoingUp'
        BY <2>1 DEF GoingUp, AtRest
    <2>6. MediaAccounted'
        BY <2>1 DEF MediaAccounted, NoCounts, NoPackets
    <2> QED
        BY <2>3, <2>4, <2>5, <2>6 DEF MediaInv
<1>14. ASSUME NEW h \in Actor, BuildStep(h) PROVE MediaInv'
    <2> DEFINE c == act[h].call
               s == act[h].step
    <2>1. /\ act[h].at = "building" /\ UNCHANGED <<path, counts, dropped, began>>
          /\ have' = [have EXCEPT ![c] = have[c] \cup {BuildOrder[s]}]
          /\ tasks' = [tasks EXCEPT ![c] = tasks[c] \cup Started(BuildOrder[s])]
          /\ BuildOrder[s] = "audited" => current' = c /\ act' = [act EXCEPT ![h] = AtRest]
          /\ BuildOrder[s] # "audited" => current' = current /\ act' = [act EXCEPT ![h].step = s + 1]
        BY <1>14 DEF BuildStep
    <2>2. c # NoCall /\ mu = h /\ current = NoCall
        BY <1>3, <2>1 DEF OwnWork, ActiveCall, Locked
    <2>3. /\ c \in Call /\ c <= began /\ s \in 1..11 /\ have[c] \in SUBSET Part /\ path[c] \in Hops
          /\ tasks[c] \in SUBSET (PeerTask \cup LoopTask) /\ Feeds(have[c], path[c])
        BY <1>6, <2>2
    <2>4. Rising(have[c], path[c], s)
        BY <1>2, <2>1 DEF GoingUp
    <2>5. /\ Feeds(have[c] \cup {BuildOrder[s]}, path[c])
          /\ s < 11 => Rising(have[c] \cup {BuildOrder[s]}, path[c], s + 1)
          /\ BuildOrder[s] \in Part
          /\ s = 11 => BuildOrder[s] = "audited"
          /\ s < 11 => BuildOrder[s] # "audited"
        <3> DEFINE more == have[c] \cup {BuildOrder[s]}
        <3>1. more = have[c] \cup {BuildOrder[s]}
            OBVIOUS
        <3> HIDE DEF c, s, more
        <3>2. /\ Feeds(more, path[c]) /\ (s < 11 => Rising(more, path[c], s + 1))
              /\ BuildOrder[s] \in Part
            BY <2>3, <2>4, <3>1, OneRises
        <3>3. s = 11 => BuildOrder[s] = "audited"
            BY BuildOrderFacts
        <3>4. s < 11 => BuildOrder[s] # "audited"
            <4>1. s \in {1, 2, 3, 4, 5, 6, 7, 8, 9, 10, 11}
                BY <2>3
            <4> QED
                BY <4>1, BuildOrderFacts
        <3> QED
            BY <3>1, <3>2, <3>3, <3>4
    <2>6. tasks[c] \cup Started(BuildOrder[s]) \in SUBSET (PeerTask \cup LoopTask)
        BY <2>3 DEF Started
    <2>7. path' = [path EXCEPT ![c] = path[c]]
        BY <1>5, <2>1, <2>3
    <2>8. \A g \in Actor : g # h => act'[g] = act[g]
        BY <1>4, <2>1
    <2>9. s = 11 => act'[h].at # "building"
        BY <1>4, <2>1, <2>5 DEF AtRest
    <2>10. s < 11 => act'[h].step = s + 1 /\ act'[h].call = c
        BY <1>4, <2>1, <2>5 DEF Work
    <2>11. s = 11 \/ s < 11
        BY <2>3
    <2> DEFINE hv == have[c] \cup {BuildOrder[s]}
               tk == tasks[c] \cup Started(BuildOrder[s])
    <2>12. hv \in SUBSET Part /\ tk \in SUBSET (PeerTask \cup LoopTask)
           /\ have' = [have EXCEPT ![c] = hv] /\ tasks' = [tasks EXCEPT ![c] = tk]
        BY <2>1, <2>3, <2>5, <2>6
    <2>13. Feeds(hv, path[c]) /\ (s < 11 => Rising(hv, path[c], act'[h].step))
        BY <2>5, <2>10
    <2>14. c = current' \/ act'[h].call = c
        BY <2>1, <2>5, <2>10, <2>11
    <2>15. act'[h].at = "building" => act'[h].call = c /\ Rising(hv, path[c], act'[h].step)
        BY <2>9, <2>10, <2>11, <2>13
    <2>16. began <= began' /\ UNCHANGED <<counts, dropped>> /\ (\A d \in Call : d # current)
        BY <1>4, <2>1, <2>2
    <2> HIDE DEF hv, tk
    <2> QED
        BY <1>1, <2>2, <2>3, <2>7, <2>8, <2>12, <2>13, <2>14, <2>15, <2>16, HeldCallChanges
<1>15. ASSUME NEW h \in Actor, CloseStep(h) PROVE MediaInv'
    <2> DEFINE c == act[h].call
    <2>1. Closing(h) /\ UNCHANGED <<current, act, tasks, counts, dropped, began>>
        BY <1>15 DEF CloseStep
    <2>2. PICK k \in DOMAIN CloseOrder :
              /\ have' = [have EXCEPT ![c] = have[c] \ {CloseOrder[k]}]
              /\ path' = [path EXCEPT ![c] = Emptied(path[c], CloseOrder[k])]
        BY <1>15 DEF CloseStep
    <2>3. CloseOrder[k] \in Socket
        BY DEF CloseOrder, Socket
    <2>4. c # NoCall /\ act[h].at # "building"
        BY <1>3, <2>1 DEF OwnWork, Closing, Locked
    <2>5. /\ c \in Call /\ have[c] \in SUBSET Part /\ path[c] \in Hops
          /\ tasks[c] \in SUBSET (PeerTask \cup LoopTask) /\ Feeds(have[c], path[c])
        BY <1>6, <2>4
    <2> DEFINE w == Emptied(path[c], CloseOrder[k])
               hv == have[c] \ {CloseOrder[k]}
    <2>6. w \in Hops /\ w.up = path[c].up /\ w.down = path[c].down /\ Feeds(hv, w)
        BY <2>3, <2>5, ClosingFeedsNothing
    <2>7. /\ have' = [have EXCEPT ![c] = hv] /\ path' = [path EXCEPT ![c] = w]
          /\ tasks' = [tasks EXCEPT ![c] = tasks[c]] /\ hv \in SUBSET Part
        BY <1>5, <2>1, <2>2, <2>5
    <2>8. /\ began <= began' /\ act'[h].call = c /\ act'[h].at # "building"
          /\ \A g \in Actor : act'[g] = act[g]
          /\ \A d \in Call : d = current => d = current'
        BY <1>4, <2>1, <2>4
    <2> HIDE DEF w, hv
    <2> QED
        BY <1>1, <2>1, <2>4, <2>5, <2>6, <2>7, <2>8, HeldCallChanges
<1>16. ASSUME NEW h \in Actor, CloseDone(h) PROVE MediaInv'
    <2> DEFINE c == act[h].call
    <2>1. /\ Closing(h) /\ tasks[c] = {} /\ have' = [have EXCEPT ![c] = {}]
          /\ UNCHANGED <<tasks, path, counts, dropped>>
        BY <1>16 DEF CloseDone
    <2>2. \/ act[h].at = "replacing" /\ current' = NoCall /\ Build(h)
          \/ act[h].at # "replacing" /\ act' = [act EXCEPT ![h] = AtRest] /\ UNCHANGED <<current, began>>
        BY <1>16 DEF CloseDone
    <2>3. c # NoCall
        BY <1>3, <2>1 DEF OwnWork, Closing, Locked
    <2>4. /\ c \in Call /\ path[c] \in Hops
        BY <1>6, <2>3
    <2>5. /\ path' = [path EXCEPT ![c] = path[c]] /\ tasks' = [tasks EXCEPT ![c] = {}]
          /\ {} \in SUBSET Part /\ {} \in SUBSET (PeerTask \cup LoopTask)
        BY <1>5, <2>1, <2>4
    <2>6. Feeds({}, path[c]) /\ {} \cap Socket = {}
        BY DEF Feeds
    <2>7. /\ began <= began' /\ \A g \in Actor : g # h => act'[g] = act[g]
          /\ act'[h].at = "building" => act'[h].call > began /\ act'[h].step = 1
          /\ \A d \in Call : d = current => d = current' \/ d = c
        <3>1. CASE act[h].at = "replacing" /\ current' = NoCall /\ Build(h)
            <4>1. /\ began' = began + 1
                  /\ act' = [act EXCEPT ![h] = [at |-> "building", call |-> began + 1, step |-> 1]]
                BY <3>1 DEF Build
            <4>2. current = c
                BY <1>3, <3>1 DEF ActiveCall
            <4>3. act'[h].call = began + 1 /\ act'[h].step = 1 /\ \A g \in Actor : g # h => act'[g] = act[g]
                BY <1>4, <4>1
            <4> QED
                BY <1>4, <4>1, <4>2, <4>3
        <3>2. CASE act' = [act EXCEPT ![h] = AtRest] /\ UNCHANGED <<current, began>>
            BY <1>4, <3>2 DEF AtRest
        <3> QED
            BY <2>2, <3>1, <3>2
    <2> QED
        BY <1>1, <2>1, <2>3, <2>4, <2>5, <2>6, <2>7, HeldCallChanges
<1>17. ASSUME NEW c \in Call, NEW closed \in Socket, TasksEnd(c, closed) PROVE MediaInv'
    <2>1. PICK ending \in SUBSET tasks[c] : tasks' = [tasks EXCEPT ![c] = tasks[c] \ ending]
        BY <1>17 DEF TasksEnd
    <2>2. UNCHANGED <<act, current, began, have, path, counts, dropped>>
        BY <1>17 DEF TasksEnd, callVars
    <2>3. \A d \in Call : tasks'[d] \subseteq tasks[d]
        BY <1>5, <2>1
    <2>4. MediaTypeOK' /\ Fresh' /\ NothingLeaks'
        BY <1>2, <1>5, <2>1, <2>2, <2>3 DEF MediaTypeOK, Fresh, NothingLeaks
    <2>5. GoingUp' /\ Fed' /\ TargetsFirst' /\ MediaAccounted'
        BY <1>2, <2>2 DEF GoingUp, Fed, TargetsFirst, MediaAccounted
    <2> QED
        BY <2>4, <2>5 DEF MediaInv
<1>18. ASSUME NEW c \in Call,
              \/ SendTick(c) \/ BrowserSpeaks(c) \/ ToRelay(c) \/ Forward(c)
              \/ PeerReceives(c) \/ FromRelay(c) \/ ToBrowser(c)
       PROVE  MediaInv'
    BY <1>18, PacketStep
<1>19. CASE UNCHANGED voiceVars
    <2>1. UNCHANGED <<act, current, began, mediaVars>>
        BY <1>19 DEF voiceVars, mediaVars
    <2> QED
        BY <1>1, <1>4, <2>1, MediaLeftAlone
<1> QED
    BY <1>7, <1>8, <1>9, <1>10, <1>11, <1>12, <1>13, <1>14, <1>15, <1>16, <1>17, <1>18, <1>19
       DEF VoiceNext, VoiceStep, HandlerStep

(***************************************************************************)
(* The delay line: the ring holds the last samples, each where it belongs. *)
(***************************************************************************)
\* A remainder is what is left of whole multiples, and only that.
LEMMA DivFacts ==
    ASSUME NEW a \in Int, NEW m \in Nat, m > 0
    PROVE  /\ a % m \in 0..(m - 1) /\ a \div m \in Int
           /\ a = m * (a \div m) + (a % m)
OBVIOUS

LEMMA WholeMultiples ==
    ASSUME NEW m \in Nat, m > 0, NEW q \in Int, NEW r \in 0..(m - 1), NEW p \in Int, NEW s \in 0..(m - 1),
           m * q + r = m * p + s
    PROVE  r = s
<1>1. m * (q - p) = s - r
    OBVIOUS
<1> DEFINE d == q - p
<1>2. d \in Int /\ m * d = s - r
    BY <1>1
<1> HIDE DEF d
<1>3. CASE d >= 1
    <2>1. m * d >= m
        BY <1>2, <1>3
    <2> QED
        BY <1>2, <2>1
<1>4. CASE d <= -1
    <2>1. m * d <= -m
        BY <1>2, <1>4
    <2> QED
        BY <1>2, <2>1
<1>5. CASE d = 0
    BY <1>2, <1>5
<1> QED
    BY <1>2, <1>3, <1>4, <1>5

LEMMA RemainderIs ==
    ASSUME NEW a \in Int, NEW m \in Nat, m > 0, NEW q \in Int, NEW r \in 0..(m - 1), a = m * q + r
    PROVE  a % m = r
<1>1. a % m \in 0..(m - 1) /\ a \div m \in Int /\ a = m * (a \div m) + (a % m)
    BY DivFacts
<1> DEFINE p == a \div m
           s == a % m
<1>2. p \in Int /\ s \in 0..(m - 1) /\ m * p + s = m * q + r
    BY <1>1
<1> HIDE DEF p, s
<1>3. s = r
    BY <1>2, WholeMultiples
<1> QED
    BY <1>3 DEF s

\* Where slot k % m lies, seen from the writer at w: k itself when it is still to
\* be written, one round later when it was written in the last one.
LEMMA SlotSeenFrom ==
    ASSUME NEW m \in Nat, m > 0, NEW k \in Nat, NEW w \in Nat
    PROVE  /\ k \in w..(w + m - 1) => ((k % m) - w) % m = k - w
           /\ k \in (w - m)..(w - 1) => ((k % m) - w) % m = k + m - w
<1> DEFINE q == k \div m
           i == k % m
<1>1. i \in 0..(m - 1) /\ q \in Int /\ k = m * q + i
    BY DivFacts
<1> HIDE DEF q, i
<1>2. -q \in Int /\ 1 \in Int /\ i - w \in Int
    BY <1>1
<1>3. m * (-q) = -(m * q) /\ m * (-q - 1) = -(m * q) - m
    BY <1>1
<1>4. CASE k \in w..(w + m - 1)
    <2>1. k - w \in 0..(m - 1) /\ i - w = m * (-q) + (k - w)
        BY <1>1, <1>3, <1>4
    <2>2. (i - w) % m = k - w
        BY <1>2, <2>1, RemainderIs
    <2>3. ~(k \in (w - m)..(w - 1))
        BY <1>4
    <2> QED
        BY <2>2, <2>3 DEF i
<1>5. CASE k \in (w - m)..(w - 1)
    <2>1. k + m - w \in 0..(m - 1) /\ i - w = m * (-q - 1) + (k + m - w) /\ -q - 1 \in Int
        BY <1>1, <1>3, <1>5
    <2>2. (i - w) % m = k + m - w
        BY <1>2, <2>1, RemainderIs
    <2>3. ~(k \in w..(w + m - 1))
        BY <1>5
    <2> QED
        BY <2>2, <2>3 DEF i
<1> QED
    BY <1>4, <1>5

\* The type of the line and the ticks since something was received.
EchoTypeOK ==
    /\ line \in [buf : [0..(EchoCapacity - 1) -> Nat], w : Nat, lastW : Nat, staleReads : Nat,
                 delay : 0..(EchoCapacity - 1)]
    /\ quiet \in Nat

\* Everything said is in the history in its order, and the last of it in the ring.
Kept ==
    /\ said \in Seq(Nat) /\ Len(said) = line.w /\ \A k \in 1..line.w : said[k] = k
    /\ \A k \in 0..(line.w - 1) : k >= line.w - EchoCapacity => line.buf[k % EchoCapacity] = k + 1

\* The stale reads count the ticks since something came.
StaleTold ==
    /\ line.lastW <= line.w
    /\ line.w # line.lastW => quiet = 0
    /\ line.w = line.lastW /\ line.w > 0 => quiet = line.staleReads + 1

EchoInv == EchoTypeOK /\ Kept /\ StaleTold /\ EchoIsDelayed

LEMMA JoinedLength ==
    ASSUME NEW u \in Seq(Nat), NEW v \in Seq(Nat)
    PROVE  u \o v \in Seq(Nat) /\ Len(u \o v) = Len(u) + Len(v)
OBVIOUS

LEMMA EchoFacts == EchoCapacity \in Nat /\ EchoCapacity > 0 /\ EchoFrame \in Nat /\ EchoFrame > 0
                   /\ EchoFrame < EchoCapacity /\ EchoDelays \subseteq Int
BY EchoAssumption

LEMMA EchoInitInv == EchoInit => EchoInv
<1> SUFFICES ASSUME EchoInit PROVE EchoInv
    OBVIOUS
<1>1. PICK d \in EchoDelays : line = NewEchoLine(d)
    BY DEF EchoInit
<1>2. said = <<>> /\ quiet = 0 /\ heard = due
    BY DEF EchoInit
<1> DEFINE delay == IF d < 0 THEN 0 ELSE IF d >= EchoCapacity THEN EchoCapacity - 1 ELSE d
           buf == [i \in 0..(EchoCapacity - 1) |-> 0]
<1>3. delay \in 0..(EchoCapacity - 1) /\ buf \in [0..(EchoCapacity - 1) -> Nat]
    BY <1>1, EchoFacts
<1>4. line = [buf |-> buf, w |-> 0, lastW |-> 0, staleReads |-> 0, delay |-> delay]
    BY <1>1 DEF NewEchoLine
<1> HIDE DEF delay, buf
<1>5. EchoTypeOK
    BY <1>2, <1>3, <1>4 DEF EchoTypeOK
<1>6. line.w = 0 /\ line.lastW = 0
    BY <1>4
<1>7. Kept
    BY <1>2, <1>6 DEF Kept
<1>8. StaleTold
    BY <1>6 DEF StaleTold
<1> QED
    BY <1>2, <1>5, <1>7, <1>8 DEF EchoInv, EchoIsDelayed

LEMMA EchoStep == EchoInv /\ [EchoNext]_echoVars => EchoInv'
<1> SUFFICES ASSUME EchoInv, [EchoNext]_echoVars PROVE EchoInv'
    OBVIOUS
<1> DEFINE cap == EchoCapacity
<1>1. EchoTypeOK /\ Kept /\ StaleTold /\ heard = due
    BY DEF EchoInv, EchoIsDelayed
<1>2. /\ line.buf \in [0..(cap - 1) -> Nat] /\ line.w \in Nat /\ line.lastW \in Nat
      /\ line.staleReads \in Nat /\ line.delay \in 0..(cap - 1) /\ quiet \in Nat
    BY <1>1 DEF EchoTypeOK
<1>3. line \in [buf : [0..(cap - 1) -> Nat], w : Nat, lastW : Nat, staleReads : Nat, delay : 0..(cap - 1)]
    BY <1>1 DEF EchoTypeOK
<1>4. CASE EchoRead
    <2> DEFINE start == line.w - line.delay - EchoFrame
               stale == IF line.w = line.lastW THEN line.staleReads + 1 ELSE 0
    <2>1. /\ line' = [line EXCEPT !.staleReads = stale, !.lastW = line.w]
          /\ heard' = IF start < 0 \/ line.delay + EchoFrame > cap \/ stale > MaxStaleEchoReads THEN Silence
                      ELSE [i \in 1..EchoFrame |-> line.buf[(start + i - 1) % cap]]
          /\ due' = Echo(said, line.delay, quiet)
          /\ quiet' = quiet + 1 /\ UNCHANGED said
        BY <1>4 DEF EchoRead
    <2>2. stale \in Nat /\ start \in Int
        BY <1>2, EchoFacts
    <2>3. line.w > 0 => quiet = stale
        BY <1>1, <1>2 DEF StaleTold
    <2> HIDE DEF stale
    <2>4. /\ line'.staleReads = stale /\ line'.lastW = line.w /\ line'.w = line.w
          /\ line'.buf = line.buf /\ line'.delay = line.delay
        BY <1>3, <2>1
    <2>5. EchoTypeOK'
        <3> DEFINE u == [line EXCEPT !.staleReads = stale]
        <3>1. u \in [buf : [0..(cap - 1) -> Nat], w : Nat, lastW : Nat, staleReads : Nat, delay : 0..(cap - 1)]
            BY <1>3, <2>2
        <3>2. line' = [u EXCEPT !.lastW = line.w]
            BY <2>1
        <3> HIDE DEF u
        <3>3. line' \in [buf : [0..(cap - 1) -> Nat], w : Nat, lastW : Nat, staleReads : Nat, delay : 0..(cap - 1)]
            BY <1>2, <3>1, <3>2
        <3> QED
            BY <1>2, <2>1, <3>3 DEF EchoTypeOK
    <2>6. Kept'
        BY <1>1, <2>1, <2>4 DEF Kept
    <2>7. StaleTold'
        BY <1>2, <2>1, <2>3, <2>4 DEF StaleTold
    <2>8. heard' = due'
        <3>1. said \in Seq(Nat) /\ Len(said) = line.w /\ \A k \in 1..line.w : said[k] = k
            BY <1>1 DEF Kept
        <3>2. CASE start < 0 \/ line.delay + EchoFrame > cap \/ stale > MaxStaleEchoReads
            <4>1. heard' = Silence
                BY <2>1, <3>2
            <4>2. ~(Len(said) >= line.delay + EchoFrame /\ line.delay + EchoFrame <= cap /\ quiet <= MaxStaleEchoReads)
                <5>1. EchoFrame \in Nat /\ EchoFrame > 0 /\ cap \in Nat /\ line.delay \in Nat
                    BY <1>2, EchoFacts
                <5>2. CASE start < 0
                    BY <1>2, <3>1, <5>1, <5>2
                <5>3. CASE line.delay + EchoFrame > cap
                    BY <5>1, <5>3
                <5>4. CASE stale > MaxStaleEchoReads /\ line.w > 0
                    BY <1>2, <2>2, <2>3, <5>4 DEF MaxStaleEchoReads
                <5>5. CASE ~(line.w > 0)
                    BY <1>2, <3>1, <5>1, <5>5
                <5> QED
                    BY <3>2, <5>2, <5>3, <5>4, <5>5
            <4>3. due' = Silence
                BY <2>1, <4>2 DEF Echo
            <4> QED
                BY <4>1, <4>3
        <3>3. CASE ~(start < 0 \/ line.delay + EchoFrame > cap \/ stale > MaxStaleEchoReads)
            <4>1. start >= 0 /\ line.delay + EchoFrame <= cap /\ stale <= MaxStaleEchoReads
                BY <1>2, <2>2, <3>3, EchoFacts DEF MaxStaleEchoReads
            <4>2. heard' = [i \in 1..EchoFrame |-> line.buf[(start + i - 1) % cap]]
                BY <2>1, <3>3
            <4>3. Len(said) >= line.delay + EchoFrame /\ quiet <= MaxStaleEchoReads
                BY <1>2, <2>3, <3>1, <4>1, EchoFacts
            <4>4. due' = SubSeq(said, line.w - line.delay - EchoFrame + 1, line.w - line.delay)
                BY <2>1, <3>1, <4>1, <4>3 DEF Echo
            <4>8. /\ start \in Nat /\ line.delay \in Nat /\ line.delay + EchoFrame <= cap
                  /\ line.w = start + line.delay + EchoFrame
                BY <1>2, <4>1, EchoFacts
            <4>9. due' = SubSeq(said, start + 1, start + EchoFrame)
                <5>1. line.w - line.delay - EchoFrame + 1 = start + 1 /\ line.w - line.delay = start + EchoFrame
                    BY <1>2, <4>8, EchoFacts
                <5> QED
                    BY <4>4, <5>1
            <4> HIDE DEF start
            <4>5. \A i \in 1..EchoFrame : line.buf[(start + i - 1) % cap] = start + i
                <5>1. ASSUME NEW i \in 1..EchoFrame PROVE line.buf[(start + i - 1) % cap] = start + i
                    <6>1. start + i - 1 \in 0..(line.w - 1) /\ start + i - 1 >= line.w - EchoCapacity
                        BY <4>8, EchoFacts
                    <6>2. line.buf[(start + i - 1) % EchoCapacity] = (start + i - 1) + 1
                        BY <1>1, <6>1 DEF Kept
                    <6> QED
                        BY <4>8, <6>2, EchoFacts
                <5> QED
                    BY <5>1
            <4>6. due' = [i \in 1..EchoFrame |-> said[start + i]]
                <5>1. start + 1 \in 1..(Len(said) + 1) /\ start + EchoFrame \in start..Len(said)
                    BY <3>1, <4>8, EchoFacts
                <5>2. SubSeq(said, start + 1, start + EchoFrame)
                        = [i \in 1..EchoFrame |-> said[i + (start + 1) - 1]]
                    <6>1. (start + EchoFrame) - (start + 1) + 1 = EchoFrame
                        BY <4>8, EchoFacts
                    <6> QED
                        BY <3>1, <4>8, <5>1, <6>1, EchoFacts
                <5>3. \A i \in 1..EchoFrame : i + (start + 1) - 1 = start + i
                    BY <4>8, EchoFacts
                <5> QED
                    BY <4>9, <5>2, <5>3
            <4>7. \A i \in 1..EchoFrame : said[start + i] = start + i
                <5>1. ASSUME NEW i \in 1..EchoFrame PROVE said[start + i] = start + i
                    <6>1. start + i \in 1..line.w
                        BY <4>8, EchoFacts
                    <6> QED
                        BY <3>1, <6>1
                <5> QED
                    BY <5>1
            <4> QED
                BY <4>2, <4>5, <4>6, <4>7
        <3> QED
            BY <3>2, <3>3
    <2> QED
        BY <2>5, <2>6, <2>7, <2>8 DEF EchoInv, EchoIsDelayed
<1>5. ASSUME NEW n \in 0..(EchoFrame + 1), EchoWrite(n) PROVE EchoInv'
    <2> DEFINE w == line.w
               turnOf(i) == w + ((i - w) % cap)
               buf == [i \in 0..(cap - 1) |-> IF turnOf(i) < w + n THEN turnOf(i) + 1 ELSE line.buf[i]]
    <2>1. n \in Nat /\ n <= cap /\ w \in Nat /\ cap \in Nat /\ cap > 0
        BY <1>2, EchoFacts
    <2>2. /\ line' = [line EXCEPT !.buf = buf, !.w = w + n]
          /\ said' = said \o [k \in 1..n |-> Len(said) + k]
          /\ quiet' = IF n = 0 THEN quiet ELSE 0
          /\ UNCHANGED <<heard, due>>
        <3>1. DOMAIN line.buf = 0..(cap - 1)
            BY <1>2
        <3>2. line' = [line EXCEPT !.buf = [i \in DOMAIN line.buf |-> IF turnOf(i) < w + n THEN turnOf(i) + 1 ELSE line.buf[i]],
                                   !.w = w + n]
            BY <1>5 DEF EchoWrite
        <3> QED
            BY <1>5, <3>1, <3>2 DEF EchoWrite
    <2>3. \A i \in 0..(cap - 1) : turnOf(i) \in Nat
        <3>1. ASSUME NEW i \in 0..(cap - 1) PROVE turnOf(i) \in Nat
            <4>1. i - w \in Int
                BY <2>1
            <4>2. (i - w) % cap \in 0..(cap - 1)
                BY <2>1, <4>1, DivFacts
            <4> QED
                BY <2>1, <4>2
        <3> QED
            BY <3>1
    <2>4. buf \in [0..(cap - 1) -> Nat]
        <3>1. \A i \in 0..(cap - 1) : line.buf[i] \in Nat
            BY <1>2
        <3> HIDE DEF turnOf
        <3> QED
            BY <2>1, <2>3, <3>1
    <2>5. \A k \in 0..(w + n - 1) : k >= w + n - EchoCapacity => buf[k % EchoCapacity] = k + 1
        <3>1. ASSUME NEW k \in 0..(w + n - 1), k >= w + n - EchoCapacity PROVE buf[k % EchoCapacity] = k + 1
            <4>1. k \in Nat /\ k < w + n /\ k % cap \in 0..(cap - 1)
                BY <2>1, <3>1, DivFacts
            <4>2. buf[k % cap] = IF turnOf(k % cap) < w + n THEN turnOf(k % cap) + 1 ELSE line.buf[k % cap]
                BY <4>1
            <4>3. CASE k >= w
                <5>1. k \in w..(w + cap - 1)
                    BY <2>1, <4>1, <4>3
                <5>2. ((k % cap) - w) % cap = k - w
                    BY <2>1, <4>1, <5>1, SlotSeenFrom
                <5>3. turnOf(k % cap) = k
                    BY <2>1, <4>1, <5>2
                <5> HIDE DEF turnOf, buf
                <5> QED
                    BY <2>1, <4>1, <4>2, <5>3
            <4>4. CASE k < w
                <5>1. k \in (w - cap)..(w - 1)
                    BY <2>1, <3>1, <4>1, <4>4
                <5>2. ((k % cap) - w) % cap = k + cap - w
                    BY <2>1, <4>1, <5>1, SlotSeenFrom
                <5>3. turnOf(k % cap) = k + cap
                    BY <2>1, <4>1, <5>2
                <5>4. ~(k + cap < w + n)
                    BY <2>1, <3>1, <4>1
                <5>5. k \in 0..(line.w - 1) /\ k >= line.w - EchoCapacity
                    BY <2>1, <3>1, <4>1, <4>4
                <5>6. line.buf[k % EchoCapacity] = k + 1
                    BY <1>1, <5>5 DEF Kept
                <5> HIDE DEF turnOf, buf
                <5> QED
                    BY <4>2, <5>3, <5>4, <5>6
            <4> QED
                BY <2>1, <4>1, <4>3, <4>4
        <3> QED
            BY <3>1
    <2> HIDE DEF buf
    <2>6. /\ line'.buf = buf /\ line'.w = w + n /\ line'.lastW = line.lastW
          /\ line'.staleReads = line.staleReads /\ line'.delay = line.delay
        BY <1>3, <2>2
    <2>7. EchoTypeOK'
        <3> DEFINE u == [line EXCEPT !.buf = buf]
        <3>1. u \in [buf : [0..(cap - 1) -> Nat], w : Nat, lastW : Nat, staleReads : Nat, delay : 0..(cap - 1)]
            BY <1>3, <2>4
        <3>2. line' = [u EXCEPT !.w = w + n] /\ w + n \in Nat
            BY <2>1, <2>2
        <3> HIDE DEF u, w
        <3>3. line' \in [buf : [0..(cap - 1) -> Nat], w : Nat, lastW : Nat, staleReads : Nat, delay : 0..(cap - 1)]
            BY <3>1, <3>2
        <3>4. quiet' \in Nat
            BY <1>2, <2>2
        <3> QED
            BY <3>3, <3>4 DEF EchoTypeOK
    <2>8. said' \in Seq(Nat) /\ Len(said') = w + n /\ \A k \in 1..(w + n) : said'[k] = k
        <3> DEFINE more == [k \in 1..n |-> Len(said) + k]
        <3>1. said \in Seq(Nat) /\ Len(said) = w /\ \A k \in 1..w : said[k] = k
            BY <1>1 DEF Kept
        <3> HIDE DEF w
        <3>2. more \in Seq(Nat) /\ Len(more) = n /\ \A k \in 1..n : more[k] = w + k
            BY <2>1, <3>1
        <3>3. said' = said \o more
            BY <2>2
        <3> HIDE DEF more
        <3>6. said \o more \in Seq(Nat) /\ Len(said \o more) = Len(said) + Len(more)
            BY <3>1, <3>2, JoinedLength
        <3>4. said' \in Seq(Nat) /\ Len(said') = w + n
            BY <3>1, <3>2, <3>3, <3>6
        <3>5. ASSUME NEW k \in 1..(w + n) PROVE said'[k] = k
            <4>1. CASE k <= w
                BY <2>1, <3>1, <3>2, <3>3, <3>5, <4>1
            <4>2. CASE k > w
                <5>1. k - w \in 1..n
                    BY <2>1, <3>5, <4>2
                <5>2. said'[k] = more[k - w]
                    BY <2>1, <3>1, <3>2, <3>3, <3>5, <4>2
                <5> QED
                    BY <2>1, <3>2, <3>5, <5>1, <5>2
            <4> QED
                BY <2>1, <4>1, <4>2
        <3> QED
            BY <3>4, <3>5
    <2>9. Kept'
        <3> HIDE DEF w
        <3>1. Len(said') = line'.w /\ \A k \in 1..line'.w : said'[k] = k
            BY <2>6, <2>8
        <3>2. \A k \in 0..(line'.w - 1) : k >= line'.w - EchoCapacity => line'.buf[k % EchoCapacity] = k + 1
            <4>1. ASSUME NEW k \in 0..(line'.w - 1), k >= line'.w - EchoCapacity
                  PROVE  line'.buf[k % EchoCapacity] = k + 1
                <5>1. k \in 0..(w + n - 1) /\ k >= w + n - EchoCapacity
                    BY <2>1, <2>6, <4>1, EchoFacts
                <5>2. buf[k % EchoCapacity] = k + 1
                    BY <2>5, <5>1
                <5> QED
                    BY <2>6, <5>2
            <4> QED
                BY <4>1
        <3> QED
            BY <2>8, <3>1, <3>2 DEF Kept
    <2>10. StaleTold'
        BY <1>1, <1>2, <2>1, <2>2, <2>6 DEF StaleTold
    <2> QED
        BY <1>1, <2>2, <2>7, <2>9, <2>10 DEF EchoInv, EchoIsDelayed
<1>6. CASE UNCHANGED echoVars
    BY <1>1, <1>6 DEF echoVars, EchoInv, EchoTypeOK, Kept, StaleTold, EchoIsDelayed
<1> QED
    BY <1>4, <1>5, <1>6 DEF EchoNext

-----------------------------------------------------------------------------
\* The echo of the stand-in peer is what was said exactly the configured delay
\* ago, or silence, for every ring size, frame and delay (echoLine).
THEOREM EchoAlwaysDelayed == EchoSpec => []EchoIsDelayed
<1>1. EchoInv => EchoIsDelayed
    BY DEF EchoInv
<1> QED
    BY EchoInitInv, EchoStep, <1>1, PTL DEF EchoSpec

-----------------------------------------------------------------------------
\* What the browser was answered is what the audit let through.
LEMMA AnswersStep == AnswersAllowed /\ [VoiceNext]_voiceVars => AnswersAllowed'
<1> SUFFICES ASSUME AnswersAllowed, [VoiceNext]_voiceVars PROVE AnswersAllowed'
    OBVIOUS
<1>1. ASSUME NEW h \in Actor, BuildStep(h) PROVE AnswersAllowed'
    <2>1. UNCHANGED answered \/ \E candidates \in SUBSET CandidateChoice : AuditAnswer(candidates) /\ answered' = candidates
        BY <1>1 DEF BuildStep
    <2> QED
        BY <2>1 DEF AnswersAllowed, AuditAnswer, AllowsIP
<1>2. CASE Exit
    BY <1>2 DEF Exit, AnswersAllowed
<1>3. ASSUME UNCHANGED answered PROVE AnswersAllowed'
    BY <1>3 DEF AnswersAllowed, AllowsIP
<1>4. ASSUME NEW h \in Handler, NEW op \in {"offer", "hangup"}, Asks(h, op) PROVE AnswersAllowed'
    BY <1>3, <1>4 DEF Asks
<1>5. ASSUME NEW h \in Actor,
             AnswerOffer(h) \/ CloseCall(h) \/ CloseStep(h) \/ CloseDone(h) \/ BuildFails(h)
      PROVE  AnswersAllowed'
    BY <1>3, <1>5 DEF AnswerOffer, CloseCall, CloseStep, CloseDone, BuildFails
<1>6. CASE Signal \/ ShutdownReturned
    BY <1>3, <1>6 DEF Signal, ShutdownReturned
<1>7. ASSUME NEW c \in Call,
             \/ SendTick(c) \/ BrowserSpeaks(c) \/ ToRelay(c) \/ Forward(c)
             \/ PeerReceives(c) \/ FromRelay(c) \/ ToBrowser(c)
             \/ \E closed \in Socket : TasksEnd(c, closed)
      PROVE  AnswersAllowed'
    <2>1. UNCHANGED callVars
        BY <1>7 DEF SendTick, BrowserSpeaks, ToRelay, Forward, PeerReceives, FromRelay, ToBrowser, Moves, TasksEnd
    <2> QED
        BY <1>3, <2>1 DEF callVars
<1>8. CASE UNCHANGED voiceVars
    BY <1>3, <1>8 DEF voiceVars
<1> QED
    BY <1>1, <1>2, <1>4, <1>5, <1>6, <1>7, <1>8 DEF VoiceNext, VoiceStep, HandlerStep

\* Whoever holds the lock and whichever step of a call fails, what the
\* voice process keeps is right (VoiceInv): nothing of a call that is over stays
\* open, there is one call, no packet meets a relay without a target, every packet
\* is accounted for, an answer names allowed addresses, and the echo is delayed.
THEOREM VoiceAlwaysRight == VoiceSpec /\ EchoSpec => []VoiceInv
<1>1. VoiceInit => AnswersAllowed
    BY DEF VoiceInit, AnswersAllowed
<1>2. CallInv /\ MediaInv /\ AnswersAllowed /\ EchoInv => VoiceInv
    BY CallInvMeansOne DEF MediaInv, EchoInv, VoiceInv
<1>3. VoiceSpec => [](CallInv /\ MediaInv /\ AnswersAllowed)
    BY <1>1, CallInitInv, MediaInitInv, CallStep, MediaStep, AnswersStep, PTL DEF VoiceSpec
<1>4. EchoSpec => []EchoInv
    BY EchoInitInv, EchoStep, PTL DEF EchoSpec
<1> QED
    BY <1>2, <1>3, <1>4, PTL
=============================================================================
