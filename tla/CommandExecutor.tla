--------------------------- MODULE CommandExecutor ---------------------------
(***************************************************************************)
(* Commands from the cloud: CommandExecutor (edge-agent/src/lib.rs), the   *)
(* command journal it writes through (StoreJournal of edge-bin/src/main.rs *)
(* over table command_journal of edge-store/src/lib.rs), handle_command,   *)
(* which answers the cloud, and the start-up code that restores it all.    *)
(*                                                                         *)
(* The cloud pushes a command until it has its result or the command has   *)
(* expired, so the same command arrives many times.  One delivery is a     *)
(* sequence of steps, each of which writes the journal, drives the port or *)
(* answers the cloud: the process can be restarted between any two of      *)
(* them, and a write to the journal or to the socket can fail.  The uplink *)
(* thread handles one delivery at a time (`op').                           *)
(*                                                                         *)
(* A command is its id.  All kinds of command that go to the modem port    *)
(* behave alike and are the kind "port"; "matrix" is                       *)
(* update_capability_matrix; "update" is self_update, which the installed  *)
(* RejectUpdate refuses.  A result is its status.  Left out: the sequence  *)
(* numbers of the executor's own in-memory UplinkState, which nothing      *)
(* reads, and the EsimInventory envelope, an event like any other to the   *)
(* outbox.                                                                 *)
(***************************************************************************)
EXTENDS Integers, FiniteSets

CONSTANTS
    Commands,    \* command ids
    Kind,        \* the kind of each command
    Faults,      \* faults that happen: see FaultKinds
    MaxFaults    \* bound: how many of them

Kinds == {"port", "matrix", "update"}
\* "restart": the process ends and starts again; "journal": the write of a
\* journal row fails; "persist": saving the matrix fails; "socket": a frame
\* cannot be sent.
FaultKinds == {"restart", "journal", "persist", "socket"}

ASSUME ExecutorAssumption ==
    /\ Kind \in [Commands -> Kinds]
    /\ Faults \subseteq FaultKinds
    /\ MaxFaults \in Nat
    /\ "none" \notin Commands /\ "builtin" \notin Commands

VARIABLES
    commands,     \* the executor's map: id -> phase and result
    journal,      \* table command_journal
    op,           \* the delivery in progress
    matrix,       \* the executor's matrix: the command that installed it
    matrix_row,   \* the stored matrix; "none" when there is none
    live_matrix,  \* the copy the poll thread reads
    authority,    \* MatrixAuthority
    queued,       \* results in the durable outbox: id -> result
    indexed,      \* ids the outbox knows (envelope_sequences)
    cloud,        \* id -> results the cloud has received
    accepted,     \* id -> "accepted" receipts the cloud has received
    age,          \* id -> "fresh", "expired" (expires_at has passed) or "old"
                  \* (a journal row would be over seven days old)
    executions,   \* history: how often the command took effect
    faults

matrixVars == <<matrix, matrix_row, live_matrix, authority>>
boxVars == <<queued, indexed>>
cloudVars == <<cloud, accepted>>
execVars == <<commands, journal, op, matrixVars, boxVars, cloudVars, age,
              executions, faults>>

-----------------------------------------------------------------------------
CommandPhase == {"none", "recorded", "executing", "terminal"}
Results == {"succeeded", "failed", "expired", "unknown"}
StoredCommand == [phase : CommandPhase, result : Results \cup {"none"}]
Stored(phase, result) == [phase |-> phase, result |-> result]

DeliverySteps == {"idle", "record", "decide", "mark", "run", "terminal",
                  "reply", "queue", "send"}
Delivery(step, cmd, first, result) ==
    [step |-> step, cmd |-> cmd, first |-> first, result |-> result]
NoDelivery == Delivery("idle", "none", FALSE, "none")
At(step) == op.step = step
GoTo(step) == op' = [op EXCEPT !.step = step]

ExecInit ==
    /\ commands = [c \in Commands |-> Stored("none", "none")]
    /\ journal = [c \in Commands |-> Stored("none", "none")]
    /\ op = NoDelivery
    /\ matrix = "builtin" /\ live_matrix = "builtin"
    /\ matrix_row = "none" /\ authority = "BuiltinNoRow"
    /\ queued = [c \in Commands |-> "none"]
    /\ indexed = {}
    /\ cloud = [c \in Commands |-> {}]
    /\ accepted = [c \in Commands |-> 0]
    /\ age = [c \in Commands |-> "fresh"]
    /\ executions = [c \in Commands |-> 0]
    /\ faults = 0

Fault(kind) ==
    /\ kind \in Faults
    /\ faults < MaxFaults
    /\ faults' = faults + 1

-----------------------------------------------------------------------------
(* deliver *)

\* Mutant: a command found executing is executed again.
WhereToMutant(phase) ==
    CASE phase = "terminal" -> "reply"
      [] phase = "none" -> "record"
      [] OTHER -> "decide"

\* Mutant: a command found executing is passed over.
WhereToIgnoring(phase) ==
    CASE phase = "terminal" -> "reply"
      [] phase = "executing" -> "idle"
      [] phase = "recorded" -> "decide"
      [] phase = "none" -> "record"

\* replay, finish_unknown, or on to execution.
WhereTo(phase) ==
    CASE phase = "terminal" -> "reply"
      [] phase = "executing" -> "terminal"
      [] phase = "recorded" -> "decide"
      [] phase = "none" -> "record"

\* The result of a command that is not executed any more.
KnownResult(stored) ==
    IF stored.phase = "executing" THEN "unknown" ELSE stored.result

Deliver(c) ==
    /\ At("idle")
    /\ age[c] # "old"
    /\ LET stored == commands[c]
       IN  op' = Delivery(WhereTo(stored.phase), c, stored.phase = "none",
                          KnownResult(stored))
    /\ UNCHANGED <<commands, journal, matrixVars, boxVars, cloudVars, age,
                   executions, faults>>

\* record_command_phase: a result once written is not erased by a later
\* phase that has none.
JournalRow(c, phase, result) ==
    Stored(phase, IF result = "none" THEN journal[c].result ELSE result)

\* Mutant: the phase is kept in memory only.
JournalPhaseMutant(c, phase, result) ==
    /\ journal' = journal
    /\ commands' = [commands EXCEPT ![c] = Stored(phase, result)]

\* The journal first, then the map in memory.
JournalPhase(c, phase, result) ==
    /\ journal' = [journal EXCEPT ![c] = JournalRow(c, phase, result)]
    /\ commands' = [commands EXCEPT ![c] = Stored(phase, result)]

Record ==
    /\ At("record")
    /\ JournalPhase(op.cmd, "recorded", "none")
    /\ GoTo("decide")
    /\ UNCHANGED <<matrixVars, boxVars, cloudVars, age, executions, faults>>

Expired == age[op.cmd] # "fresh"

\* Expired, or the first thing `execute' does for the kind.
Decide ==
    /\ At("decide")
    /\ op' = IF Expired
             THEN [op EXCEPT !.step = "terminal", !.result = "expired"]
             ELSE [op EXCEPT !.step = IF Kind[op.cmd] = "port" THEN "mark"
                                      ELSE "run"]
    /\ UNCHANGED <<commands, journal, matrixVars, boxVars, cloudVars, age,
                   executions, faults>>

\* mark_executing, before the port is touched.
MarkExecuting ==
    /\ At("mark")
    /\ JournalPhase(op.cmd, "executing", "none")
    /\ GoTo("run")
    /\ UNCHANGED <<matrixVars, boxVars, cloudVars, age, executions, faults>>

\* journal() returns its error: the delivery is abandoned, unanswered.
JournalError ==
    /\ op.step \in {"record", "mark", "terminal"}
    /\ Fault("journal")
    /\ op' = NoDelivery
    /\ UNCHANGED <<commands, journal, matrixVars, boxVars, cloudVars, age,
                   executions>>

-----------------------------------------------------------------------------
(* execute *)

Finish(result) == op' = [op EXCEPT !.step = "terminal", !.result = result]
TakesEffect == executions' = [executions EXCEPT ![op.cmd] = @ + 1]

\* A command for the modem: the port ran it, well or badly.
RunPort ==
    /\ Kind[op.cmd] = "port"
    /\ \E result \in {"succeeded", "failed"} : Finish(result)
    /\ TakesEffect
    /\ UNCHANGED <<matrixVars, faults>>

\* refuse_unsupported, an install_matrix that fails, RejectUpdate: nothing
\* is done.
RunRefused ==
    /\ Finish("failed")
    /\ UNCHANGED <<matrixVars, executions, faults>>

\* UpdateCapabilityMatrix: the matrix in memory, then its row; only a row
\* that was written makes the matrix authoritative.
RunMatrix ==
    /\ Kind[op.cmd] = "matrix"
    /\ matrix' = op.cmd
    /\ \/ /\ matrix_row' = op.cmd
          /\ authority' = "Stored"
          /\ UNCHANGED faults
       \/ /\ Fault("persist")
          /\ UNCHANGED <<matrix_row, authority>>
    /\ Finish("succeeded")
    /\ TakesEffect
    /\ UNCHANGED live_matrix

Execute ==
    /\ At("run")
    /\ RunPort \/ RunRefused \/ RunMatrix
    /\ UNCHANGED <<commands, journal, boxVars, cloudVars, age>>

\* store_terminal
StoreTerminal ==
    /\ At("terminal")
    /\ JournalPhase(op.cmd, "terminal", op.result)
    /\ GoTo("reply")
    /\ UNCHANGED <<matrixVars, boxVars, cloudVars, age, executions, faults>>

-----------------------------------------------------------------------------
(* handle_command: publish the matrix, send the receipt, queue the result   *)
(* under the command's id, send it.                                         *)

FirstSeen == op.first

\* Mutant: the matrix is not published.
PublishedMatrixMutant == live_matrix
PublishedMatrix == matrix

Reply ==
    /\ At("reply")
    /\ live_matrix' = PublishedMatrix
    /\ \/ /\ accepted' = IF FirstSeen
                         THEN [accepted EXCEPT ![op.cmd] = @ + 1] ELSE accepted
          /\ GoTo("queue")
          /\ UNCHANGED faults
       \/ /\ Fault("socket")
          /\ op' = NoDelivery
          /\ UNCHANGED accepted
    /\ UNCHANGED <<commands, journal, matrix, matrix_row, authority, boxVars,
                   cloud, age, executions>>

\* DurableOutbox::append; DuplicateEnvelopeId gives the known sequence.
AppendResult(c, result) ==
    /\ queued' = IF c \in indexed THEN queued ELSE [queued EXCEPT ![c] = result]
    /\ indexed' = indexed \cup {c}

QueueResult ==
    /\ At("queue")
    /\ AppendResult(op.cmd, op.result)
    /\ GoTo("send")
    /\ UNCHANGED <<commands, journal, matrixVars, cloudVars, age, executions,
                   faults>>

SendResult ==
    /\ At("send")
    /\ op' = NoDelivery
    /\ \/ /\ cloud' = [cloud EXCEPT ![op.cmd] = @ \cup {op.result}]
          /\ UNCHANGED faults
       \/ /\ Fault("socket")
          /\ UNCHANGED cloud
    /\ UNCHANGED <<commands, journal, matrixVars, boxVars, accepted, age,
                   executions>>

-----------------------------------------------------------------------------
(* Around the executor *)

\* The outbox delivers a queued result and the cloud acknowledges it.  The
\* outbox still knows the id.
DrainResult(c) ==
    /\ queued[c] # "none"
    /\ cloud' = [cloud EXCEPT ![c] = @ \cup {queued[c]}]
    /\ queued' = [queued EXCEPT ![c] = "none"]
    /\ UNCHANGED <<commands, journal, op, matrixVars, indexed, accepted, age,
                   executions, faults>>

\* Mutant: the journal is not read back.
RestoreCommandsMutant == commands' = [c \in Commands |-> Stored("none", "none")]

\* A terminal row without its result counts as interrupted.
RestoredCommand(row) ==
    IF row.phase = "terminal" /\ row.result = "none"
    THEN Stored("executing", "none") ELSE row

\* restore_commands
RestoreCommands ==
    commands' = [c \in Commands |-> RestoredCommand(journal[c])]

\* prune_command_journal, after the restore; its error is ignored.
PruneJournal ==
    \/ journal' = [c \in Commands |-> IF age[c] = "old"
                                      THEN Stored("none", "none") ELSE journal[c]]
    \/ UNCHANGED journal

Restart ==
    /\ Fault("restart")
    /\ op' = NoDelivery
    /\ RestoreCommands
    /\ PruneJournal
    /\ matrix' = IF matrix_row = "none" THEN "builtin" ELSE matrix_row
    /\ live_matrix' = matrix'
    /\ authority' = IF matrix_row = "none" THEN "BuiltinNoRow" ELSE "Stored"
    /\ indexed' = {c \in Commands : queued[c] # "none"}
    /\ UNCHANGED <<matrix_row, queued, cloudVars, age, executions>>

\* Time passes.  A command the cloud may still push is not "old": it pushes
\* for minutes, the journal keeps rows for seven days.
Expire(c) ==
    /\ age[c] = "fresh"
    /\ age' = [age EXCEPT ![c] = "expired"]
    /\ UNCHANGED <<commands, journal, op, matrixVars, boxVars, cloudVars,
                   executions, faults>>

GrowOld(c) ==
    /\ age[c] = "expired"
    /\ op.cmd # c
    /\ age' = [age EXCEPT ![c] = "old"]
    /\ UNCHANGED <<commands, journal, op, matrixVars, boxVars, cloudVars,
                   executions, faults>>

-----------------------------------------------------------------------------
DeliveryStep ==
    \/ Record \/ Decide \/ MarkExecuting \/ Execute \/ StoreTerminal
    \/ Reply \/ QueueResult \/ SendResult

ExecNext ==
    \/ \E c \in Commands : Deliver(c) \/ DrainResult(c) \/ Expire(c) \/ GrowOld(c)
    \/ DeliveryStep
    \/ JournalError \/ Restart

ExecSpec == ExecInit /\ [][ExecNext]_execVars

\* The uplink thread goes on with a delivery and with the outbox; the cloud
\* pushes a command again every five seconds (frames arrive in order, so one
\* command does not starve another).
ExecFairness ==
    /\ WF_execVars(DeliveryStep)
    /\ \A c \in Commands : SF_execVars(Deliver(c)) /\ WF_execVars(DrainResult(c))

FairExecSpec == ExecSpec /\ ExecFairness

-----------------------------------------------------------------------------
(* Properties *)

\* The types of the executor's state.
ExecTypeOK ==
    /\ commands \in [Commands -> StoredCommand]
    /\ journal \in [Commands -> StoredCommand]
    /\ op \in [step : DeliverySteps, cmd : Commands \cup {"none"},
               first : BOOLEAN, result : Results \cup {"none"}]
    /\ (op.cmd = "none") <=> At("idle")
    /\ matrix \in Commands \cup {"builtin"}
    /\ live_matrix \in Commands \cup {"builtin"}
    /\ matrix_row \in Commands \cup {"none"}
    /\ authority \in {"Stored", "BuiltinNoRow"}
    /\ queued \in [Commands -> Results \cup {"none"}]
    /\ indexed \in SUBSET Commands
    /\ cloud \in [Commands -> SUBSET Results]
    /\ accepted \in [Commands -> Nat]
    /\ age \in [Commands -> {"fresh", "expired", "old"}]
    /\ executions \in [Commands -> Nat]
    /\ faults \in Nat

\* A command for the modem takes effect at most once, however often it is
\* pushed and wherever a restart or a failed journal write falls: no SMS is
\* sent (and charged) twice.  This is what mark_executing is for.
AtMostOnce ==
    \A c \in Commands : Kind[c] = "port" => executions[c] <= 1

\* What the edge has said or will say of a command.
Reported(c) == cloud[c] \cup ({queued[c]} \ {"none"})

\* The cloud never gets two different results for one command, by the direct
\* answer, a replay or the outbox: they share an envelope id and a sequence,
\* so a second payload would be dropped or would overwrite the first.
OneResult ==
    \A c \in Commands : \A r, q \in Reported(c) : r = q

\* A result tells the truth: "succeeded" means the command took effect,
\* "expired" (of a command for the modem) that it did not.
TruthfulResult ==
    \A c \in Commands :
        /\ "succeeded" \in Reported(c) => executions[c] >= 1
        /\ ("expired" \in Reported(c) /\ Kind[c] = "port") => executions[c] = 0

\* At most one receipt of a command says "accepted"; all others say
\* "duplicate", across restarts.
AcceptedOnce == \A c \in Commands : accepted[c] <= 1

\* Between two commands the poll thread judges modems by the executor's
\* matrix, and by the built-in one only without the authority to retire
\* them.  The one exception is a matrix whose result could not be journalled:
\* its command is still unanswered, and its next push publishes the matrix.
MatrixPublished ==
    At("idle") =>
        \/ /\ live_matrix = matrix
           /\ authority = "Stored" => live_matrix # "builtin"
        \/ /\ live_matrix # matrix
           /\ commands[matrix].phase = "recorded"

\* A command the edge has recorded is answered, if the cloud goes on pushing
\* it: no phase it can be left in by a restart or a failure is a dead end.
ResultArrives ==
    \A c \in Commands :
        (journal[c].phase # "none") ~> (cloud[c] # {} \/ age[c] = "old")
=============================================================================
