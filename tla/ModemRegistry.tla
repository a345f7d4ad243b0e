---------------------------- MODULE ModemRegistry ----------------------------
(***************************************************************************)
(* Which modems the edge manages: adoption and removal by an operator      *)
(* (register_modem, unregister_modem, create_modem, reconfirm_modem of     *)
(* edge-bin/src/main.rs, from the panel or by command), and the automatic  *)
(* enforcement at the end of every poll (enforce_registration over         *)
(* edge-core/src/retro.rs), which may retire a modem that no longer passes *)
(* bind_gates.                                                             *)
(*                                                                         *)
(* The tables registered_modems, registration_retirements, local_modems    *)
(* (`inventory') and local_modem_discoveries (`candidates') are those of   *)
(* edge-store/src/lib.rs, behind one mutex: what is done under one lock is *)
(* one step.  The modems are devices this build drives, so that a matrix   *)
(* is the set of modems it admits and has measured.  Time is relative:     *)
(* each mark and each observation carries its age.  A pass judges by the   *)
(* `now' it took at its start, so the clock moves between passes only.     *)
(***************************************************************************)
EXTENDS Integers, FiniteSets, FiniteSetsExt

CONSTANTS
    Modems,
    Matrices,      \* matrices the cloud pushes
    Mode,          \* VODOGE_RETRO_ENFORCE
    Grace,         \* GRACE_MS, in ticks
    GracePasses,   \* GRACE_PASSES
    MaxAge,        \* OBSERVATION_MAX_AGE_MS, in ticks
    MaxFaults      \* bound: restarts, clock jumps, failed statements,
                   \* reconfirmations

ASSUME RegistryAssumption ==
    /\ Matrices \subseteq SUBSET Modems
    /\ Mode \in {"mark", "unbind"}
    /\ Grace \in Nat \ {0} /\ GracePasses \in Nat \ {0, 1}
    /\ MaxAge \in Nat /\ MaxFaults \in Nat

VARIABLES
    registered,   \* modem -> its row, or NoRow
    retirements,  \* the modems with a retirement row
    inventory,    \* modem -> its row of local_modems, or NoObservation
    candidates,   \* modem -> what its candidate row holds
    matrix_row,   \* the stored matrix, as a set of at most one
    exec_matrix,  \* the executor's matrix
    live_matrix, authority,
    resumed,      \* uplink_ever_resumed
    poll,         \* the poll pass in progress
    alerts,       \* the alerts the last pass raised
    reconfirm,    \* the reconfirmation in progress
    streak,       \* history: verdicts against the modem since it last passed
    stood,        \* history: ticks since the first of them, or since a
                  \* reconfirmation that failed; -1 if there was none
    alarmed,      \* history: retro_mark_not_cleared was raised in the streak
    pushed,       \* history: the matrices pushed so far
    unpublished,  \* history: a pushed matrix was stored and never published
    faults

tableVars == <<registered, retirements, inventory, candidates>>
matrixVars == <<matrix_row, exec_matrix, live_matrix, authority>>
pushVars == <<pushed, unpublished>>
historyVars == <<streak, stood, alarmed, pushVars>>
registryVars == <<tableVars, matrixVars, resumed, poll, alerts, reconfirm,
                  historyVars, faults>>

-----------------------------------------------------------------------------
NoMark == -2   \* gate_failed_since is NULL; -1 is a start in the future
Row(family) == [managed |-> TRUE, family |-> family, since |-> NoMark, passes |-> 0]
NoRow == [managed |-> FALSE, family |-> "none", since |-> NoMark, passes |-> 0]
NoObservation == [quality |-> "none", age |-> 0]
Idle == [step |-> "idle", matrix |-> {}]
NoReconfirm == [modem |-> "none", passes |-> FALSE]

\* The built-in matrix, which measured none of these modems.
Builtin == {}

IsRegistered(m) == registered[m].managed
Managed == {m \in Modems : IsRegistered(m)}
Capped(n, max) == IF n > max THEN max ELSE n
Fault == faults < MaxFaults /\ faults' = faults + 1

\* An agent that never received a matrix and manages every modem, or none.
RegistryInit ==
    /\ \E managed \in {{}, Modems} :
          registered = [m \in Modems |-> IF m \in managed THEN Row("agrees")
                                         ELSE NoRow]
    /\ retirements = {}
    /\ inventory = [m \in Modems |-> NoObservation]
    /\ candidates = [m \in Modems |-> "none"]
    /\ matrix_row = {} /\ exec_matrix = Builtin /\ live_matrix = Builtin
    /\ authority = "BuiltinNoRow"
    /\ resumed = FALSE
    /\ poll = Idle
    /\ alerts = {}
    /\ reconfirm = NoReconfirm
    /\ streak = [m \in Modems |-> 0]
    /\ stood = [m \in Modems |-> -1]
    /\ alarmed = [m \in Modems |-> FALSE]
    /\ pushed = {}
    /\ unpublished = FALSE
    /\ faults = 0

-----------------------------------------------------------------------------
(* The poll pass: probe, clone the matrix, enforce. *)

\* What a candidate row can say: the USB identity alone, or the pair of family
\* and home network as well (a driven device has a USB identity); and an
\* inventory row: the pair, or not.
CandidateFacts == {"usb", "full"}
ObservedFacts == {"degraded", "full"}

\* record_discovery: what the row holds stays where nothing was read (or where
\* the write failed, which is only logged); a modem found in another place gets
\* a row of what was read there.
RecordDiscovery(m, read) == {candidates[m], read}

\* What a pass may find out about a modem: nothing (it is not there; a row
\* unseen for a day is forgotten), that its port does not answer, or its
\* identity, as far as it can be read or is kept from earlier passes.  Only a
\* managed modem gets an inventory row.
Findings(m) ==
    {[candidate |-> c, observed |-> inventory[m]] : c \in {candidates[m], "none"}}
    \cup {[candidate |-> c,
           observed |-> IF IsRegistered(m) THEN [quality |-> q, age |-> 0]
                        ELSE inventory[m]] :
                 c \in UNION {RecordDiscovery(m, read) : read \in CandidateFacts},
                 q \in ObservedFacts}

\* A row that cannot be written ends the pass at once.
Probe ==
    /\ poll.step = "idle"
    /\ \E found \in [Modems -> UNION {Findings(m) : m \in Modems}] :
          /\ \A m \in Modems : found[m] \in Findings(m)
          /\ candidates' = [m \in Modems |-> found[m].candidate]
          /\ inventory' = [m \in Modems |-> found[m].observed]
    /\ \/ poll' = [step |-> "clone", matrix |-> {}] /\ UNCHANGED faults
       \/ poll' = Idle /\ Fault
    /\ alerts' = {}
    /\ UNCHANGED <<registered, retirements, matrixVars, resumed, reconfirm,
                   historyVars>>

\* The pass clones the matrix; it loads the authority only when it enforces.
CloneMatrix ==
    /\ poll.step = "clone"
    /\ poll' = [step |-> "enforce", matrix |-> live_matrix]
    /\ UNCHANGED <<alerts, tableVars, matrixVars, resumed, reconfirm, historyVars, faults>>

\* Mutant: any matrix may be judged by.
MayUnbindMutant == TRUE
MayUnbind == authority = "Stored"

\* The evidence is complete and current.
Evidence(m) ==
    /\ inventory[m].quality = "full"
    /\ inventory[m].age <= MaxAge
    /\ registered[m].family = "agrees"
    /\ candidates[m] \in CandidateFacts

\* Time since the first verdict; a start in the future counts as now.
Elapsed(row) == Max({0, row.since})

\* enforce_one
Judge(m) ==
    IF ~MayUnbind \/ ~resumed \/ ~Evidence(m) THEN "Hold"
    ELSE IF m \in poll.matrix THEN "Keep"
    ELSE IF /\ Elapsed(registered[m]) >= Grace
            /\ registered[m].passes + 1 >= GracePasses
    THEN "Unbind" ELSE "Quarantine"

\* clear_gate_failure
Cleared(row) == IF row.managed THEN [row EXCEPT !.since = NoMark, !.passes = 0]
                ELSE row

\* restart_gate_failure
Restarted(row) == IF row.managed THEN [row EXCEPT !.since = 0, !.passes = 0]
                  ELSE row

\* Mutant: every pass restarts the countdown.
MarkedMutant(row) ==
    [row EXCEPT !.since = 0, !.passes = Capped(@ + 1, GracePasses)]

\* mark_gate_failure: the start of the countdown is written once.
Marked(row) ==
    [row EXCEPT !.since = IF @ = NoMark THEN 0 ELSE @,
                !.passes = Capped(@ + 1, GracePasses)]

\* enforce_mode: nothing but the word itself lets a pass remove a modem.
Unbinding == Mode = "unbind"

\* The row of m after a pass that judged it j; the writes of `failed', the
\* retirements of `kept' fail.
RowAfter(m, j, failed, kept) ==
    IF j = "Unbind" /\ Unbinding /\ m \notin kept THEN NoRow
    ELSE IF j = "Hold" \/ m \in failed THEN registered[m]
    ELSE IF j = "Keep" THEN Cleared(registered[m])
    ELSE Marked(registered[m])

\* split_unreadable: a modem whose mark could not be read is held, not judged
\* (a mark taken for absent would keep its old start, and end the grace period
\* at once).
Judgements(unreadable) ==
    [m \in Modems |-> IF m \in Managed \ unreadable THEN Judge(m) ELSE "Hold"]

\* emit_plan_alerts: one alert for each kind of outcome and not for each modem.
\* What holds the whole edge is reported instead of the modems it holds.
PlanAlerts(judgement, unreadable, retired) ==
    LET in(j) == {m \in Managed : judgement[m] = j}
        why == IF in("Hold") \subseteq unreadable \/ (MayUnbind /\ resumed) THEN "retro_hold"
               ELSE IF MayUnbind THEN "retro_uplink_never_resumed"
               ELSE "retro_matrix_not_authoritative"
    IN  {why : m \in in("Hold")}
        \cup {"retro_quarantined" : m \in in("Quarantine")}
        \cup {"retro_would_unbind" : m \in IF Unbinding THEN {} ELSE in("Unbind")}
        \cup {"retro_unbound" : m \in retired}

\* enforce_registration, under one lock; the marks of `unreadable' could not
\* be read.
EnforceAll(unreadable, failed, kept) ==
    LET judgement == Judgements(unreadable)
        after == [m \in Modems |-> RowAfter(m, judgement[m], failed, kept)]
        against == {m \in Modems : judgement[m] \in {"Quarantine", "Unbind"}}
        passed == {m \in Modems : judgement[m] = "Keep"}
        retired == {m \in Managed : ~after[m].managed}
    IN  /\ registered' = after
        /\ alerts' = PlanAlerts(judgement, unreadable, retired)
        /\ retirements' = retirements \cup retired
        /\ streak' = [m \in Modems |->
               IF m \in passed \cup retired THEN 0
               ELSE IF m \in against THEN Capped(streak[m] + 1, GracePasses)
               ELSE streak[m]]
        /\ stood' = [m \in Modems |->
               IF m \in passed \cup retired THEN -1
               ELSE IF m \in against THEN Max({0, stood[m]}) ELSE stood[m]]
        /\ alarmed' = [m \in Modems |->
               IF m \in passed THEN m \in failed
               ELSE alarmed[m] /\ m \notin retired]

Enforce ==
    /\ poll.step = "enforce"
    /\ \E unreadable, failed, kept \in SUBSET Managed :
          /\ IF unreadable \cup failed \cup kept = {} THEN UNCHANGED faults ELSE Fault
          /\ EnforceAll(unreadable, failed, kept)
    /\ poll' = Idle
    /\ UNCHANGED <<inventory, candidates, matrixVars, resumed, reconfirm, pushVars>>

\* The candidate list, the registry or the inventory cannot be read: the
\* whole pass is void.
EnforceVoid ==
    /\ poll.step = "enforce"
    /\ Fault
    /\ poll' = Idle
    /\ UNCHANGED <<alerts, tableVars, matrixVars, resumed, reconfirm, historyVars>>

-----------------------------------------------------------------------------
(* The operator *)

\* adoption_inputs: what the gates need, from the candidate row alone.  A home
\* network that could not be read is not taken for an international one.
AdoptionInputs(m) == [usb |-> candidates[m] \in CandidateFacts,
                      pair |-> candidates[m] = "full"]

\* bind_gates on the candidate row, for adoption: anything unread refuses.
Admitted(m) ==
    /\ AdoptionInputs(m).usb /\ AdoptionInputs(m).pair
    /\ m \in live_matrix

\* Mutant: adopting a managed modem again keeps its countdown.
ReadoptedMutant(row) == row
\* register_modem on a row that exists keeps the adoption, restarts the gates.
Readopted(row) == [Cleared(row) EXCEPT !.family = "agrees"]

\* The history of the modem starts anew, with its clock at t.
NewStreak(m, t) ==
    /\ streak' = [streak EXCEPT ![m] = 0]
    /\ stood' = [stood EXCEPT ![m] = t]
    /\ alarmed' = [alarmed EXCEPT ![m] = FALSE]
    /\ UNCHANGED pushVars

\* A retirement row that cannot be forgotten stays; the adoption stands.
Register(m) ==
    /\ Admitted(m)
    /\ registered' = [registered EXCEPT ![m] =
           IF IsRegistered(m) THEN Readopted(@) ELSE Row("agrees")]
    /\ \/ retirements' = retirements \ {m} /\ UNCHANGED faults
       \/ m \in retirements /\ Fault /\ UNCHANGED retirements
    /\ NewStreak(m, -1)
    /\ UNCHANGED <<alerts, inventory, candidates, matrixVars, resumed, poll, reconfirm>>

Unregister(m) ==
    /\ IsRegistered(m)
    /\ registered' = [registered EXCEPT ![m] = NoRow]
    /\ NewStreak(m, -1)
    /\ UNCHANGED <<alerts, retirements, inventory, candidates, matrixVars, resumed, poll,
                   reconfirm, faults>>

\* update_modem: the note of an adoption, refused where there is none.  The row
\* keeps when and by whom it was adopted, and its countdown.
UpdateNote(m) ==
    /\ IsRegistered(m)
    /\ UNCHANGED registryVars

\* manual_create_refusal: without a family there is no pair to judge by, and a
\* row that exists is not written over.  (What is not an IMEI is refused too: it
\* is none of Modems.)
ManualCreateRefusal(m, family) == family = "none" \/ IsRegistered(m)

\* create_modem: by hand, without gates, of a family the operator names.
Create(m) ==
    /\ \E family \in {"none", "agrees", "differs"} :
          /\ ~ManualCreateRefusal(m, family)
          /\ registered' = [registered EXCEPT ![m] = Row(family)]
    /\ NewStreak(m, -1)
    /\ UNCHANGED <<alerts, retirements, inventory, candidates, matrixVars, resumed, poll,
                   reconfirm, faults>>

\* reconfirm_modem judges outside the lock ...
ReconfirmRead(m) ==
    /\ reconfirm = NoReconfirm
    /\ IsRegistered(m)
    /\ candidates[m] # "none"
    /\ Fault
    /\ reconfirm' = [modem |-> m, passes |-> Admitted(m)]
    /\ UNCHANGED <<alerts, tableVars, matrixVars, resumed, poll, historyVars>>

\* ... and writes under the next lock, if the row is still there.
ReconfirmWrite ==
    /\ reconfirm # NoReconfirm
    /\ registered' = [registered EXCEPT ![reconfirm.modem] =
           IF reconfirm.passes THEN Cleared(@) ELSE Restarted(@)]
    /\ NewStreak(reconfirm.modem,
                 IF reconfirm.passes \/ ~IsRegistered(reconfirm.modem) THEN -1 ELSE 0)
    /\ reconfirm' = NoReconfirm
    /\ UNCHANGED <<alerts, retirements, inventory, candidates, matrixVars, resumed, poll,
                   faults>>

-----------------------------------------------------------------------------
(* Matrix pushes, restarts, time *)

\* update_capability_matrix: persist_capability_matrix stores the matrix and
\* raises the authority, or fails and does neither; handle_command publishes
\* it, unless the outcome of the command cannot be journalled.  (A pass that
\* clones the matrix between the two clones what it would have cloned before.)
PushMatrix(mx) ==
    /\ resumed
    /\ exec_matrix' = mx
    /\ pushed' = pushed \cup {mx}
    /\ \/ /\ matrix_row' = {mx} /\ authority' = "Stored" /\ live_matrix' = mx
          /\ UNCHANGED <<unpublished, faults>>
       \/ /\ Fault /\ live_matrix' = mx
          /\ UNCHANGED <<matrix_row, authority, unpublished>>
       \/ /\ matrix_row' = {mx} /\ authority' = "Stored"
          /\ Fault /\ unpublished' = TRUE
          /\ UNCHANGED live_matrix
    /\ UNCHANGED <<alerts, tableVars, resumed, poll, reconfirm, streak, stood, alarmed>>

\* Any later command publishes the executor's matrix.
OtherCommand ==
    /\ resumed
    /\ live_matrix' = exec_matrix
    /\ UNCHANGED <<alerts, tableVars, matrix_row, exec_matrix, authority, resumed, poll,
                   reconfirm, historyVars, faults>>

\* The uplink sent its first resume.
Resumed ==
    /\ ~resumed
    /\ resumed' = TRUE
    /\ UNCHANGED <<alerts, tableVars, matrixVars, poll, reconfirm, historyVars, faults>>

\* The stored matrix is read back; one that does not parse gives no authority.
Restart ==
    /\ Fault
    /\ \/ /\ matrix_row = {}
          /\ exec_matrix' = Builtin /\ authority' = "BuiltinNoRow"
       \/ /\ matrix_row # {}
          /\ exec_matrix' \in matrix_row /\ authority' = "Stored"
       \/ /\ matrix_row # {}
          /\ exec_matrix' = Builtin /\ authority' = "BuiltinUnparsed"
    /\ live_matrix' = exec_matrix'
    /\ resumed' = FALSE
    /\ poll' = Idle
    /\ reconfirm' = NoReconfirm
    /\ alerts' = {}
    /\ UNCHANGED <<tableVars, matrix_row, historyVars>>

\* All ages move by d: time, or a clock that is set.
Age(d) ==
    /\ poll.step = "idle"
    /\ registered' = [m \in Modems |->
           IF registered[m].since = NoMark THEN registered[m]
           ELSE [registered[m] EXCEPT !.since = Max({-1, Capped(@ + d, Grace)})]]
    /\ inventory' = [m \in Modems |->
           IF inventory[m] = NoObservation THEN NoObservation
           ELSE [inventory[m] EXCEPT !.age = Max({0, Capped(@ + d, MaxAge + 1)})]]
    /\ UNCHANGED <<alerts, retirements, candidates, matrixVars, resumed, poll, reconfirm,
                   streak, alarmed, pushVars>>

Tick ==
    /\ Age(1)
    /\ stood' = [m \in Modems |-> IF stood[m] = -1 THEN -1
                                  ELSE Capped(stood[m] + 1, Grace)]
    /\ UNCHANGED faults

\* The clock is set back.
ClockBack ==
    /\ Age(-1)
    /\ Fault
    /\ UNCHANGED stood

-----------------------------------------------------------------------------
PollStep == Probe \/ CloneMatrix \/ Enforce \/ EnforceVoid

RegistryNext ==
    \/ Probe \/ CloneMatrix \/ Enforce \/ EnforceVoid
    \/ \E m \in Modems :
          \/ Register(m) \/ Unregister(m) \/ Create(m) \/ UpdateNote(m)
          \/ ReconfirmRead(m)
    \/ ReconfirmWrite
    \/ \E mx \in Matrices : PushMatrix(mx)
    \/ OtherCommand \/ Resumed \/ Restart \/ Tick \/ ClockBack

RegistrySpec == RegistryInit /\ [][RegistryNext]_registryVars

\* The poll thread polls for ever and time passes between two polls.
FairRegistrySpec ==
    /\ RegistrySpec
    /\ WF_registryVars(PollStep)
    /\ SF_registryVars(Tick)

-----------------------------------------------------------------------------
(* Properties *)

\* m is retired by the enforcement in this step.
Retires(m) == m \in Managed /\ m \notin Managed' /\ poll.step = "enforce" /\ poll' = Idle

\* A modem is retired only after GracePasses verdicts against it and a grace
\* period since the first (or since a failed reconfirmation), with no pass,
\* adoption or reconfirmation in favour of it in between - or after the alarm
\* that its countdown could not be cleared.  Unreadable marks, failed writes,
\* passes that judge nothing, restarts and a clock set back do not shorten
\* this.  And it does not go silently: its adoption is kept as a retirement and
\* retro_unbound is raised, in the same pass, since no later one looks at it.
RetiredAfterGrace ==
    [][\A m \in Modems :
          Retires(m) =>
              /\ alarmed[m] \/ (streak[m] + 1 >= GracePasses /\ stood[m] >= Grace)
              /\ m \in retirements' /\ "retro_unbound" \in alerts']_registryVars

\* A matrix without m has been pushed.
PushedAgainst(m) == \E mx \in pushed : m \notin mx

\* A modem that every matrix pushed so far admits is not retired: the built-in
\* matrix, which admits none, "is not the source of truth", and "removing the
\* truth by it is backwards" (retro.rs, MatrixAuthority).  A pass that cloned
\* the built-in matrix before a push and enforces after it passes one verdict;
\* GracePasses of them need as many pushes, and a restart that cannot read its
\* matrix between any two.
BuiltinNeverRetires ==
    [][\A m \in Modems :
          Retires(m) => \/ alarmed[m] \/ PushedAgainst(m)
                        \/ faults + 1 >= GracePasses]_registryVars

\* The same, but for a pushed matrix that was stored and never published
\* (handle_command): the race between a push and a pass retires nobody.
PushRaceRetiresNone ==
    [][\A m \in Modems :
          Retires(m) => \/ alarmed[m] \/ unpublished \/ PushedAgainst(m)
                        \/ faults + 1 >= GracePasses]_registryVars

\* The matrix refuses the modem and everything needed to say so is there.
Refused(m) ==
    /\ IsRegistered(m)
    /\ MayUnbind /\ resumed /\ Evidence(m)
    /\ m \notin live_matrix

\* Enforcement is not a dead letter: a modem that stays refused does not stay
\* managed.
RefusedGoes == \A m \in Modems : []<>~Refused(m)
=============================================================================
