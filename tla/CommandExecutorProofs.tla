------------------------ MODULE CommandExecutorProofs ------------------------
(***************************************************************************)
(* The safety of command execution, for every set of commands, every kind  *)
(* and every number of faults.                                             *)
(*                                                                         *)
(* AtMostOnce and the others are not inductive: they follow from what a    *)
(* delivery knows at each of its steps (StepInv), from the journal being   *)
(* the map in memory for every command the cloud may still push            *)
(* (MemoryIsJournal), and from what a stored phase says of the past        *)
(* (EffectInv, ReportInv, ReceiptInv).                                     *)
(***************************************************************************)
EXTENDS CommandExecutor, TLAPS

Pushable(c) == age[c] # "old"

\* A delivery in progress is of a command the cloud may still push.
Busy == \A c \in Commands : op.cmd = c => Pushable(c)

MemoryIsJournal == \A c \in Commands : Pushable(c) => commands[c] = journal[c]

\* Exactly the terminal phase has a result.
Sane(stored) == stored.phase = "terminal" <=> stored.result # "none"
RowsSane == \A c \in Commands : Sane(commands[c]) /\ Sane(journal[c])

\* What a delivery knows of its command at each step.
StepInv ==
    \A c \in Commands : op.cmd = c =>
        /\ At("record") => commands[c].phase = "none" /\ op.first
        /\ op.step \in {"decide", "mark"} => commands[c].phase = "recorded"
        /\ At("mark") => Kind[c] = "port"
        /\ At("run") => commands[c].phase = IF Kind[c] = "port" THEN "executing"
                                            ELSE "recorded"
        /\ At("terminal") => /\ commands[c].phase \in {"recorded", "executing"}
                             /\ op.result # "none"
        /\ op.step \in {"reply", "queue", "send"} =>
              commands[c] = Stored("terminal", op.result)

\* What a stored phase, and a delivery, say of the command's effect.
EffectOf(c, result) ==
    /\ result = "succeeded" => executions[c] >= 1
    /\ (result = "expired" /\ Kind[c] = "port") => executions[c] = 0

EffectInv ==
    /\ AtMostOnce
    /\ \A c \in Commands :
          /\ EffectOf(c, commands[c].result)
          /\ EffectOf(c, journal[c].result)
          /\ Kind[c] = "port" /\ Pushable(c)
                /\ commands[c].phase \in {"none", "recorded"} => executions[c] = 0
          /\ op.cmd = c /\ At("run") /\ Kind[c] = "port" => executions[c] = 0
          /\ op.cmd = c /\ At("terminal") => EffectOf(c, op.result)

ReportInv ==
    /\ OneResult
    /\ TruthfulResult
    /\ \A c \in Commands : \A r \in Reported(c) :
          Pushable(c) => commands[c] = Stored("terminal", r)

ReceiptInv ==
    /\ AcceptedOnce
    /\ \A c \in Commands :
          /\ accepted[c] # 0 /\ Pushable(c) => commands[c].phase # "none"
          /\ op.cmd = c /\ op.first /\ op.step \notin {"queue", "send"}
                => accepted[c] = 0

ExecInv ==
    /\ ExecTypeOK
    /\ Busy
    /\ MemoryIsJournal
    /\ RowsSane
    /\ StepInv
    /\ EffectInv
    /\ ReportInv
    /\ ReceiptInv

-----------------------------------------------------------------------------
\* A fresh agent satisfies the invariant.
LEMMA ExecInitInv == ExecInit => ExecInv
<1>1. ExecInit => ExecTypeOK
    BY ExecutorAssumption DEF
           ExecInit, Stored, NoDelivery, Delivery, ExecTypeOK, StoredCommand,
           CommandPhase, Results, DeliverySteps, At
<1>2. ExecInit => Busy
    BY ExecutorAssumption DEF ExecInit, Stored, NoDelivery, Delivery, Busy, Pushable
<1>3. ExecInit => MemoryIsJournal
    BY ExecutorAssumption DEF
           ExecInit, Stored, NoDelivery, Delivery, MemoryIsJournal, Pushable
<1>4. ExecInit => RowsSane
    BY ExecutorAssumption DEF ExecInit, Stored, NoDelivery, Delivery, RowsSane, Sane
<1>5. ExecInit => StepInv
    BY ExecutorAssumption DEF ExecInit, Stored, NoDelivery, Delivery, StepInv, At
<1>6. ExecInit => EffectInv
    BY ExecutorAssumption DEF
           ExecInit, Stored, NoDelivery, Delivery, EffectInv, AtMostOnce, EffectOf,
           Pushable, At
<1>7. ExecInit => ReportInv
    BY ExecutorAssumption DEF ExecInit, Stored, NoDelivery, Delivery, ReportInv, OneResult,
           TruthfulResult, Reported, Pushable
<1>8. ExecInit => ReceiptInv
    BY ExecutorAssumption DEF
           ExecInit, Stored, NoDelivery, Delivery, ReceiptInv, AcceptedOnce,
           Pushable
<1> QED
    BY <1>1, <1>2, <1>3, <1>4, <1>5, <1>6, <1>7, <1>8 DEF ExecInv

\* A step that reports nothing new, and neither executes nor changes the
\* stored phase of a reported command, keeps ReportInv.
LEMMA ReportsKept ==
    ASSUME ReportInv,
           \A c \in Commands : Reported(c)' \subseteq Reported(c),
           \A c \in Commands : Reported(c) # {} => executions'[c] = executions[c],
           \A c \in Commands : Reported(c) # {} /\ Pushable(c)' =>
               Pushable(c) /\ commands'[c] = commands[c]
    PROVE  ReportInv'
<1>1. OneResult'
    BY DEF ReportInv, OneResult
<1>2. TruthfulResult'
    BY DEF ReportInv, TruthfulResult
<1>3. \A c \in Commands : \A r \in Reported(c)' :
          Pushable(c)' => commands'[c] = Stored("terminal", r)
    BY DEF ReportInv, Stored
<1> QED
    BY <1>1, <1>2, <1>3 DEF ReportInv

\* A push finds the stored phase and goes where `deliver' sends it.
LEMMA DeliverInv ==
    ASSUME ExecInv, NEW c \in Commands, Deliver(c)
    PROVE  ExecInv'
<1>1. ExecTypeOK'
    BY ExecutorAssumption DEF
           ExecInv, ExecTypeOK, StoredCommand, CommandPhase, Results, DeliverySteps,
           At, StepInv, Deliver, WhereTo, KnownResult, Delivery, matrixVars,
           boxVars, cloudVars
<1>2. Busy'
    BY DEF ExecInv, Busy, Pushable, Deliver, WhereTo, KnownResult, Delivery
<1>3. MemoryIsJournal'
    BY DEF ExecInv, MemoryIsJournal, Pushable, Deliver
<1>4. RowsSane'
    BY DEF ExecInv, RowsSane, Sane, Deliver
<1>5. StepInv'
    <2>1. /\ op' = Delivery(WhereTo(commands[c].phase), c, commands[c].phase = "none",
                            KnownResult(commands[c]))
          /\ commands' = commands /\ commands[c].phase \in CommandPhase
        BY DEF Deliver, ExecInv, ExecTypeOK, StoredCommand
    <2>2. CASE commands[c].phase = "none"
        BY <2>1, <2>2 DEF Delivery, WhereTo, StepInv, At, Stored
    <2>3. CASE commands[c].phase = "recorded"
        BY <2>1, <2>3 DEF Delivery, WhereTo, StepInv, At, Stored
    <2>4. CASE commands[c].phase = "executing"
        BY <2>1, <2>4 DEF Delivery, WhereTo, KnownResult, StepInv, At, Stored
    <2>5. CASE commands[c].phase = "terminal"
        <3>1. op'.step = "reply" /\ op'.cmd = c /\ op'.result = commands[c].result
            BY <2>1, <2>5 DEF Delivery, WhereTo, KnownResult
        <3>2. commands[c] = Stored("terminal", commands[c].result)
            BY <2>5 DEF ExecInv, ExecTypeOK, StoredCommand, Stored
        <3> QED
            BY <2>1, <3>1, <3>2 DEF StepInv, At
    <2> QED
        BY <2>1, <2>2, <2>3, <2>4, <2>5 DEF CommandPhase
<1>6. EffectInv'
    <2>1. /\ op' = Delivery(WhereTo(commands[c].phase), c, commands[c].phase = "none",
                            KnownResult(commands[c]))
          /\ UNCHANGED <<commands, journal, age, executions>>
          /\ commands[c].phase \in CommandPhase
        BY DEF Deliver, ExecInv, ExecTypeOK, StoredCommand
    <2>2. op'.cmd = c /\ op'.step # "run"
        BY <2>1 DEF Delivery, WhereTo, CommandPhase
    <2>3. op'.step = "terminal" => op'.result = "unknown"
        BY <2>1 DEF Delivery, WhereTo, KnownResult, CommandPhase
    <2> QED
        BY <2>1, <2>2, <2>3 DEF ExecInv, EffectInv, EffectOf, AtMostOnce, Pushable, At
<1>7. ReportInv'
    <2>1. \A d \in Commands : Reported(d)' \subseteq Reported(d)
        BY ExecutorAssumption DEF
               matrixVars, boxVars, cloudVars, Reported, ExecInv, ExecTypeOK,
               Deliver
    <2>2. \A d \in Commands : Reported(d) # {} => executions'[d] = executions[d]
        BY DEF Deliver
    <2>3. \A d \in Commands : Reported(d) # {} /\ Pushable(d)' =>
              Pushable(d) /\ commands'[d] = commands[d]
        BY DEF ExecInv, ReportInv, Busy, StepInv, ExecTypeOK, Pushable, At, Deliver
    <2> QED
        BY <2>1, <2>2, <2>3, ReportsKept DEF ExecInv
<1>8. ReceiptInv'
    <2>1. /\ op'.cmd = c /\ (op'.first <=> commands[c].phase = "none") /\ Pushable(c)
          /\ UNCHANGED <<accepted, commands, age>>
        BY DEF Deliver, Delivery, cloudVars, Pushable
    <2>2. AcceptedOnce /\ \A d \in Commands : accepted[d] # 0 /\ Pushable(d) => commands[d].phase # "none"
        BY DEF ExecInv, ReceiptInv
    <2> QED
        BY <2>1, <2>2 DEF ReceiptInv, AcceptedOnce, Pushable
<1> QED
    BY <1>1, <1>2, <1>3, <1>4, <1>5, <1>6, <1>7, <1>8 DEF ExecInv

\* Writing a phase keeps the types of the journal and of the map in memory.
LEMMA JournalPhaseTypes ==
    ASSUME ExecTypeOK, ~At("idle"), NEW phase \in CommandPhase, JournalPhase(op.cmd, phase, "none")
    PROVE  /\ commands' \in [Commands -> StoredCommand]
           /\ journal' \in [Commands -> StoredCommand]
<1>1. op.cmd \in Commands
    BY DEF ExecTypeOK
<1>2. PICK c \in Commands : c = op.cmd
    BY <1>1
<1>3. Stored(phase, "none") \in StoredCommand /\ Stored(phase, journal[c].result) \in StoredCommand
    BY DEF ExecTypeOK, Stored, StoredCommand
<1>4. /\ commands' = [commands EXCEPT ![c] = Stored(phase, "none")]
      /\ journal' = [journal EXCEPT ![c] = Stored(phase, journal[c].result)]
    BY <1>2 DEF JournalPhase, JournalRow
<1> QED
    BY <1>3, <1>4 DEF ExecTypeOK

\* So does going on to another step.
LEMMA GoToTypes ==
    ASSUME ExecTypeOK, ~At("idle"), NEW step \in DeliverySteps \ {"idle"}, GoTo(step)
    PROVE  /\ op' \in [step : DeliverySteps, cmd : Commands \cup {"none"},
                      first : BOOLEAN, result : Results \cup {"none"}]
           /\ (op.cmd = "none")' <=> At("idle")'
<1>1. op \in [step : DeliverySteps, cmd : Commands \cup {"none"},
             first : BOOLEAN, result : Results \cup {"none"}] /\ op.cmd # "none"
    BY DEF ExecTypeOK
<1>2. op' = [op EXCEPT !.step = step]
    BY DEF GoTo
<1>3. op'.step = step /\ op'.cmd = op.cmd
    BY <1>1, <1>2
<1> QED
    BY <1>1, <1>2, <1>3 DEF At

\* The journal row "recorded" is written before anything runs.
LEMMA RecordInv ==
    ASSUME ExecInv, Record
    PROVE  ExecInv'
<1>1. ExecTypeOK'
    <2>1. ExecTypeOK /\ ~At("idle") /\ JournalPhase(op.cmd, "recorded", "none") /\ GoTo("decide")
          /\ UNCHANGED <<matrixVars, boxVars, cloudVars, age, executions, faults>>
        BY DEF ExecInv, Record, At
    <2>2. "recorded" \in CommandPhase /\ "decide" \in DeliverySteps \ {"idle"}
        BY DEF CommandPhase, DeliverySteps
    <2> QED
        BY <2>1, <2>2, JournalPhaseTypes, GoToTypes DEF ExecTypeOK, matrixVars, boxVars, cloudVars
<1>2. Busy'
    BY DEF ExecInv, Busy, Pushable, Record, JournalPhase, JournalRow, GoTo, Stored
<1>3. MemoryIsJournal'
    BY ExecutorAssumption DEF
           ExecInv, MemoryIsJournal, Pushable, ExecTypeOK, Busy, RowsSane, Sane,
           StepInv, At, Record, JournalPhase, JournalRow, GoTo, Stored, matrixVars,
           boxVars, cloudVars
<1>4. RowsSane'
    BY ExecutorAssumption DEF
           ExecInv, RowsSane, Sane, ExecTypeOK, Busy, MemoryIsJournal, StepInv, At,
           Pushable, Record, JournalPhase, JournalRow, GoTo, Stored, matrixVars,
           boxVars, cloudVars
<1>5. StepInv'
    BY ExecutorAssumption DEF
           ExecInv, StepInv, At, ExecTypeOK, Record, JournalPhase, JournalRow, GoTo,
           Stored
<1>6. EffectInv'
    BY ExecutorAssumption DEF
           ExecInv, EffectInv, AtMostOnce, EffectOf, Pushable, At, ExecTypeOK,
           StepInv, Record, JournalPhase, JournalRow, GoTo, Stored, matrixVars,
           boxVars, cloudVars
<1>7. ReportInv'
    <2>1. \A c \in Commands : Reported(c)' \subseteq Reported(c)
        BY ExecutorAssumption DEF
               matrixVars, boxVars, cloudVars, Reported, ExecInv, ExecTypeOK,
               Record, JournalPhase, Stored
    <2>2. \A c \in Commands : Reported(c) # {} => executions'[c] = executions[c]
        BY DEF Record, JournalPhase, Stored
    <2>3. \A c \in Commands : Reported(c) # {} /\ Pushable(c)' =>
              Pushable(c) /\ commands'[c] = commands[c]
        BY DEF ExecInv, ReportInv, Busy, StepInv, ExecTypeOK, Pushable, At, Record,
               JournalPhase, Stored
    <2> QED
        BY <2>1, <2>2, <2>3, ReportsKept DEF ExecInv
<1>8. ReceiptInv'
    BY ExecutorAssumption DEF
           ExecInv, ReceiptInv, AcceptedOnce, Pushable, ExecTypeOK, At, StepInv,
           Record, JournalPhase, JournalRow, GoTo, Stored, matrixVars, boxVars,
           cloudVars
<1> QED
    BY <1>1, <1>2, <1>3, <1>4, <1>5, <1>6, <1>7, <1>8 DEF ExecInv

\* A command still "recorded" has not run, so "expired" is true of it.
LEMMA DecideInv ==
    ASSUME ExecInv, Decide
    PROVE  ExecInv'
<1>1. ExecTypeOK'
    BY ExecutorAssumption DEF
           ExecInv, ExecTypeOK, StoredCommand, CommandPhase, Results, DeliverySteps,
           At, Busy, MemoryIsJournal, RowsSane, Sane, StepInv, Pushable, Decide,
           Expired, GoTo, Stored, matrixVars, boxVars, cloudVars
<1>2. Busy'
    BY DEF ExecInv, Busy, Pushable, Decide
<1>3. MemoryIsJournal'
    BY DEF ExecInv, MemoryIsJournal, Pushable, Decide
<1>4. RowsSane'
    BY DEF ExecInv, RowsSane, Sane, Decide
<1>5. StepInv'
    BY DEF ExecInv, StepInv, At, Decide
<1>6. EffectInv'
    BY ExecutorAssumption DEF
           ExecInv, EffectInv, AtMostOnce, EffectOf, Pushable, At, ExecTypeOK,
           StepInv, Busy, Decide, Expired, GoTo, Stored, matrixVars, boxVars,
           cloudVars
<1>7. ReportInv'
    BY ExecutorAssumption DEF
           ExecInv, ReportInv, OneResult, TruthfulResult, Reported, Pushable,
           ExecTypeOK, At, StepInv, Decide, Expired, GoTo, Stored, matrixVars,
           boxVars, cloudVars
<1>8. ReceiptInv'
    BY ExecutorAssumption DEF
           ExecInv, ReceiptInv, AcceptedOnce, Pushable, ExecTypeOK, At, StepInv,
           Decide, Expired, GoTo, Stored, matrixVars, boxVars, cloudVars
<1> QED
    BY <1>1, <1>2, <1>3, <1>4, <1>5, <1>6, <1>7, <1>8 DEF ExecInv

\* mark_executing leaves the phase from which nothing runs again.
LEMMA MarkExecutingInv ==
    ASSUME ExecInv, MarkExecuting
    PROVE  ExecInv'
<1>1. ExecTypeOK'
    <2>1. ExecTypeOK /\ ~At("idle") /\ JournalPhase(op.cmd, "executing", "none") /\ GoTo("run")
          /\ UNCHANGED <<matrixVars, boxVars, cloudVars, age, executions, faults>>
        BY DEF ExecInv, MarkExecuting, At
    <2>2. "executing" \in CommandPhase /\ "run" \in DeliverySteps \ {"idle"}
        BY DEF CommandPhase, DeliverySteps
    <2> QED
        BY <2>1, <2>2, JournalPhaseTypes, GoToTypes DEF ExecTypeOK, matrixVars, boxVars, cloudVars
<1>2. Busy'
    BY DEF ExecInv, Busy, Pushable, MarkExecuting, JournalPhase, JournalRow, GoTo,
           Stored
<1>3. MemoryIsJournal'
    BY ExecutorAssumption DEF
           ExecInv, MemoryIsJournal, Pushable, ExecTypeOK, Busy, RowsSane, Sane,
           StepInv, At, MarkExecuting, JournalPhase, JournalRow, GoTo, Stored,
           matrixVars, boxVars, cloudVars
<1>4. RowsSane'
    BY ExecutorAssumption DEF
           ExecInv, RowsSane, Sane, ExecTypeOK, Busy, MemoryIsJournal, StepInv, At,
           Pushable, MarkExecuting, JournalPhase, JournalRow, GoTo, Stored,
           matrixVars, boxVars, cloudVars
<1>5. StepInv'
    BY ExecutorAssumption DEF ExecInv, StepInv, At, ExecTypeOK, MarkExecuting, JournalPhase,
           JournalRow, GoTo, Stored
<1>6. EffectInv'
    BY ExecutorAssumption DEF
           ExecInv, EffectInv, AtMostOnce, EffectOf, Pushable, At, ExecTypeOK,
           StepInv, Busy, MarkExecuting, JournalPhase, JournalRow, GoTo, Stored,
           matrixVars, boxVars, cloudVars
<1>7. ReportInv'
    <2>1. \A c \in Commands : Reported(c)' \subseteq Reported(c)
        BY ExecutorAssumption DEF
               matrixVars, boxVars, cloudVars, Reported, ExecInv, ExecTypeOK,
               MarkExecuting, JournalPhase, Stored
    <2>2. \A c \in Commands : Reported(c) # {} => executions'[c] = executions[c]
        BY DEF MarkExecuting, JournalPhase, Stored
    <2>3. \A c \in Commands : Reported(c) # {} /\ Pushable(c)' =>
              Pushable(c) /\ commands'[c] = commands[c]
        BY DEF ExecInv, ReportInv, Busy, StepInv, ExecTypeOK, Pushable, At,
               MarkExecuting, JournalPhase, Stored
    <2> QED
        BY <2>1, <2>2, <2>3, ReportsKept DEF ExecInv
<1>8. ReceiptInv'
    BY ExecutorAssumption DEF
           ExecInv, ReceiptInv, AcceptedOnce, Pushable, ExecTypeOK, At, StepInv,
           MarkExecuting, JournalPhase, JournalRow, GoTo, Stored, matrixVars,
           boxVars, cloudVars
<1> QED
    BY <1>1, <1>2, <1>3, <1>4, <1>5, <1>6, <1>7, <1>8 DEF ExecInv

\* The one step that takes effect; for the port, out of phase "executing".
LEMMA ExecuteInv ==
    ASSUME ExecInv, Execute
    PROVE  ExecInv'
<1> DEFINE k == op.cmd
<1>1. /\ k \in Commands /\ Pushable(k)
      /\ op.step = "run"
      /\ commands[k].phase = IF Kind[k] = "port" THEN "executing" ELSE "recorded"
      /\ Kind[k] = "port" => executions[k] = 0
      /\ executions[k] \in Nat
    BY DEF ExecInv, ExecTypeOK, Busy, StepInv, EffectInv, At, Execute
<1>2. UNCHANGED <<commands, journal, boxVars, cloudVars, age>>
    BY DEF Execute
<1>3. PICK result \in {"succeeded", "failed"} :
         /\ op' = [op EXCEPT !.step = "terminal", !.result = result]
         /\ \/ executions' = executions /\ result = "failed"
            \/ executions' = [executions EXCEPT ![k] = @ + 1]
    BY DEF Execute, RunPort, RunRefused, RunMatrix, Finish, TakesEffect
<1>4. /\ matrix' \in Commands \cup {"builtin"}
      /\ live_matrix' \in Commands \cup {"builtin"}
      /\ matrix_row' \in Commands \cup {"none"}
      /\ authority' \in {"Stored", "BuiltinNoRow"}
      /\ faults' \in Nat
    BY <1>1 DEF Execute, RunPort, RunRefused, RunMatrix, Fault, matrixVars,
                ExecInv, ExecTypeOK
<1>5. /\ op'.step = "terminal" /\ op'.cmd = k /\ op'.result = result
      /\ op'.first = op.first
    BY <1>3 DEF ExecInv, ExecTypeOK
<1>6. /\ executions' \in [Commands -> Nat]
      /\ \A c \in Commands : c # k => executions'[c] = executions[c]
      /\ executions'[k] \in {executions[k], executions[k] + 1}
      /\ result = "succeeded" => executions'[k] = executions[k] + 1
    BY <1>1, <1>3 DEF ExecInv, ExecTypeOK
<1>7. ExecTypeOK'
    <2>1. op' \in [step : DeliverySteps, cmd : Commands \cup {"none"},
                   first : BOOLEAN, result : Results \cup {"none"}]
        BY <1>3 DEF ExecInv, ExecTypeOK, DeliverySteps, Results
    <2>2. (op'.cmd = "none") <=> (op'.step = "idle")
        BY <1>1, <1>5, ExecutorAssumption
    <2> QED
        BY <1>2, <1>4, <1>6, <2>1, <2>2
           DEF ExecInv, ExecTypeOK, At, boxVars, cloudVars
<1>8. Busy'
    BY <1>1, <1>2, <1>5 DEF Busy, Pushable
<1>9. MemoryIsJournal'
    BY <1>2 DEF ExecInv, MemoryIsJournal, Pushable
<1>10. RowsSane'
    BY <1>2 DEF ExecInv, RowsSane
<1>11. StepInv'
    <2>1. commands'[k].phase \in {"recorded", "executing"}
        BY <1>1, <1>2
    <2> HIDE DEF k
    <2> QED
        BY <1>5, <2>1 DEF StepInv, At
<1>12. EffectInv'
    <2>1. commands[k].result = "none" /\ journal[k].result = "none"
        BY <1>1 DEF ExecInv, RowsSane, Sane, MemoryIsJournal
    <2>2. AtMostOnce'
        BY <1>1, <1>6 DEF ExecInv, EffectInv, AtMostOnce
    <2>3. \A c \in Commands : EffectOf(c, commands[c].result)' /\ EffectOf(c, journal[c].result)'
        BY <1>1, <1>2, <1>6, <2>1 DEF ExecInv, EffectInv, EffectOf
    <2>4. \A c \in Commands :
             Kind[c] = "port" /\ Pushable(c)' /\ commands'[c].phase \in {"none", "recorded"}
                 => executions'[c] = 0
        BY <1>1, <1>2, <1>6 DEF ExecInv, EffectInv, Pushable
    <2>5. result = "succeeded" => executions'[k] >= 1
        BY <1>1, <1>6
    <2> HIDE DEF k
    <2>6. \A c \in Commands :
             /\ ~(op'.cmd = c /\ At("run")')
             /\ op'.cmd = c /\ At("terminal")' => EffectOf(c, op.result)'
        BY <1>3, <1>5, <2>5 DEF At, EffectOf
    <2> QED
        BY <2>2, <2>3, <2>4, <2>6 DEF EffectInv
<1>13. ReportInv'
    <2>1. \A c \in Commands : Reported(c)' \subseteq Reported(c)
        BY <1>2 DEF Reported, boxVars, cloudVars
    <2>2. Reported(k) = {}
        <3>1. \A r \in Reported(k) : commands[k] = Stored("terminal", r)
            BY <1>1 DEF ExecInv, ReportInv
        <3>2. \A r \in Reported(k) : Stored("terminal", r).phase = "terminal"
            BY DEF Stored
        <3> QED
            BY <1>1, <3>1, <3>2
    <2>3. \A c \in Commands : Reported(c) # {} => executions'[c] = executions[c]
        BY <1>6, <2>2
    <2>4. \A c \in Commands : Reported(c) # {} /\ Pushable(c)' =>
              Pushable(c) /\ commands'[c] = commands[c]
        BY <1>2 DEF Pushable
    <2> QED
        BY <2>1, <2>3, <2>4, ReportsKept DEF ExecInv
<1>14. ReceiptInv'
    <2>1. accepted' = accepted
        BY <1>2 DEF cloudVars
    <2>2. op.first => accepted[k] = 0
        BY <1>1 DEF ExecInv, ReceiptInv
    <2> HIDE DEF k
    <2> QED
        BY <1>2, <1>5, <2>1, <2>2 DEF ExecInv, ReceiptInv, AcceptedOnce, Pushable
<1> QED
    BY <1>7, <1>8, <1>9, <1>10, <1>11, <1>12, <1>13, <1>14 DEF ExecInv

\* store_terminal: nothing was reported of the command before.
LEMMA StoreTerminalInv ==
    ASSUME ExecInv, StoreTerminal
    PROVE  ExecInv'
<1>1. ExecTypeOK'
    BY ExecutorAssumption DEF
           ExecInv, ExecTypeOK, StoredCommand, CommandPhase, Results, DeliverySteps,
           At, Busy, MemoryIsJournal, RowsSane, Sane, StepInv, Pushable,
           StoreTerminal, JournalPhase, JournalRow, GoTo, Stored, matrixVars,
           boxVars, cloudVars
<1>2. Busy'
    BY DEF ExecInv, Busy, Pushable, StoreTerminal, JournalPhase, JournalRow, GoTo,
           Stored
<1>3. MemoryIsJournal'
    BY ExecutorAssumption DEF ExecInv, MemoryIsJournal, Pushable, ExecTypeOK, At, StepInv,
           StoreTerminal, JournalPhase, JournalRow, GoTo, Stored, matrixVars,
           boxVars, cloudVars
<1>4. RowsSane'
    BY ExecutorAssumption DEF
           ExecInv, RowsSane, Sane, ExecTypeOK, At, StepInv, StoreTerminal,
           JournalPhase, JournalRow, GoTo, Stored, matrixVars, boxVars, cloudVars
<1>5. StepInv'
    BY ExecutorAssumption DEF ExecInv, StepInv, At, ExecTypeOK, StoreTerminal, JournalPhase,
           JournalRow, GoTo, Stored
<1>6. EffectInv'
    BY DEF ExecInv, EffectInv, AtMostOnce, EffectOf, Pushable, At, StoreTerminal,
           JournalPhase, JournalRow, GoTo, Stored
<1>7. ReportInv'
    <2>1. UNCHANGED <<queued, cloud, age, executions>>
        BY DEF StoreTerminal, boxVars, cloudVars
    <2>2. \A c \in Commands : Reported(c)' = Reported(c)
        BY <2>1 DEF Reported
    <2>3. op.cmd \in Commands /\ commands[op.cmd].phase # "terminal" /\ Pushable(op.cmd)
        BY DEF ExecInv, ExecTypeOK, StepInv, Busy, StoreTerminal, At
    <2>4. Reported(op.cmd) = {}
        <3>1. \A r \in Reported(op.cmd) : commands[op.cmd] = Stored("terminal", r)
            BY <2>3 DEF ExecInv, ReportInv
        <3>2. \A r : Stored("terminal", r).phase = "terminal"
            BY DEF Stored
        <3> QED
            BY <2>3, <3>1, <3>2
    <2>5. \A c \in Commands : c # op.cmd => commands'[c] = commands[c]
        BY DEF ExecInv, ExecTypeOK, StoreTerminal, JournalPhase
    <2> QED
        BY <2>1, <2>2, <2>4, <2>5, ReportsKept DEF ExecInv, Pushable
<1>8. ReceiptInv'
    BY ExecutorAssumption DEF
           ExecInv, ReceiptInv, AcceptedOnce, Pushable, ExecTypeOK, At, StepInv,
           StoreTerminal, JournalPhase, JournalRow, GoTo, Stored, matrixVars,
           boxVars, cloudVars
<1> QED
    BY <1>1, <1>2, <1>3, <1>4, <1>5, <1>6, <1>7, <1>8 DEF ExecInv

\* The receipt: "accepted" only from the delivery that recorded it.
LEMMA ReplyInv ==
    ASSUME ExecInv, Reply
    PROVE  ExecInv'
<1>1. ExecTypeOK'
    <2>1. /\ op' \in [step : DeliverySteps, cmd : Commands \cup {"none"},
                      first : BOOLEAN, result : Results \cup {"none"}]
          /\ (op'.cmd = "none") <=> (op'.step = "idle")
        <3>1. op \in [step : DeliverySteps, cmd : Commands \cup {"none"},
                      first : BOOLEAN, result : Results \cup {"none"}]
              /\ op.cmd # "none"
            BY DEF ExecInv, ExecTypeOK, Reply, At
        <3>2. CASE op' = [op EXCEPT !.step = "queue"]
            BY <3>1, <3>2 DEF DeliverySteps
        <3>3. CASE op' = NoDelivery
            BY <3>3 DEF NoDelivery, Delivery, DeliverySteps
        <3> QED
            BY <3>2, <3>3 DEF Reply, GoTo
    <2>2. accepted' \in [Commands -> Nat] /\ faults' \in Nat
        BY DEF ExecInv, ExecTypeOK, Reply, Fault, FirstSeen
    <2> QED
        BY <2>1, <2>2, ExecutorAssumption
        DEF ExecInv, ExecTypeOK, Reply, PublishedMatrix, At, matrixVars, boxVars, cloudVars
<1>2. Busy'
    BY ExecutorAssumption DEF
           ExecInv, Busy, Pushable, ExecTypeOK, At, Reply, PublishedMatrix,
           FirstSeen, GoTo, Fault, NoDelivery, Delivery, Stored
<1>3. MemoryIsJournal'
    BY DEF ExecInv, MemoryIsJournal, Pushable, Reply
<1>4. RowsSane'
    BY DEF ExecInv, RowsSane, Sane, Reply
<1>5. StepInv'
    BY ExecutorAssumption DEF
           ExecInv, StepInv, At, ExecTypeOK, Reply, PublishedMatrix, FirstSeen,
           GoTo, Fault, NoDelivery, Delivery, Stored
<1>6. EffectInv'
    BY ExecutorAssumption DEF
           ExecInv, EffectInv, AtMostOnce, EffectOf, Pushable, At, ExecTypeOK,
           Reply, PublishedMatrix, FirstSeen, GoTo, Fault, NoDelivery, Delivery,
           Stored
<1>7. ReportInv'
    BY ExecutorAssumption DEF
           ExecInv, ReportInv, OneResult, TruthfulResult, Reported, Pushable,
           ExecTypeOK, At, StepInv, Reply, PublishedMatrix, FirstSeen, GoTo, Fault,
           NoDelivery, Delivery, Stored, matrixVars, boxVars, cloudVars
<1>8. ReceiptInv'
    BY ExecutorAssumption DEF
           ExecInv, ReceiptInv, AcceptedOnce, Pushable, ExecTypeOK, At, StepInv,
           Reply, PublishedMatrix, FirstSeen, GoTo, Fault, NoDelivery, Delivery,
           Stored, matrixVars, boxVars, cloudVars
<1> QED
    BY <1>1, <1>2, <1>3, <1>4, <1>5, <1>6, <1>7, <1>8 DEF ExecInv

\* The outbox gets the stored result and no other.
LEMMA QueueResultInv ==
    ASSUME ExecInv, QueueResult
    PROVE  ExecInv'
<1>1. ExecTypeOK'
    <2>1. op.cmd \in Commands /\ op.result \in Results \cup {"none"}
        BY DEF ExecInv, ExecTypeOK, QueueResult, At
    <2>2. queued' \in [Commands -> Results \cup {"none"}] /\ indexed' \in SUBSET Commands
        BY <2>1 DEF ExecInv, ExecTypeOK, QueueResult, AppendResult
    <2>3. ExecTypeOK /\ ~At("idle") /\ GoTo("send")
        BY DEF ExecInv, QueueResult, At
    <2>4. "send" \in DeliverySteps \ {"idle"}
        BY DEF DeliverySteps
    <2>5. UNCHANGED <<commands, journal, matrixVars, cloudVars, age, executions, faults>>
        BY DEF QueueResult
    <2> QED
        BY <2>2, <2>3, <2>4, <2>5, GoToTypes DEF ExecTypeOK, matrixVars, cloudVars
<1>2. Busy'
    BY DEF ExecInv, Busy, Pushable, QueueResult, AppendResult, GoTo, Stored
<1>3. MemoryIsJournal'
    BY DEF ExecInv, MemoryIsJournal, Pushable, QueueResult
<1>4. RowsSane'
    BY DEF ExecInv, RowsSane, Sane, QueueResult
<1>5. StepInv'
    BY DEF ExecInv, StepInv, At, QueueResult, AppendResult, GoTo, Stored
<1>6. EffectInv'
    BY DEF ExecInv, EffectInv, AtMostOnce, EffectOf, Pushable, At, QueueResult,
           AppendResult, GoTo, Stored
<1>7. ReportInv'
    <2> DEFINE k == op.cmd
    <2>1. /\ k \in Commands /\ Pushable(k)
          /\ commands[k] = Stored("terminal", op.result)
          /\ EffectOf(k, op.result)
        BY DEF ExecInv, ExecTypeOK, Busy, StepInv, EffectInv, Stored, At, QueueResult
    <2>2. UNCHANGED <<commands, age, executions>>
        BY DEF QueueResult
    <2>3. \A c \in Commands : Reported(c)' \subseteq Reported(c) \cup (IF c = k THEN {op.result} ELSE {})
        BY <2>1, ExecutorAssumption
        DEF Reported, ExecInv, ExecTypeOK, QueueResult, AppendResult, matrixVars, boxVars, cloudVars
    <2>4. \A r \in Reported(k) : r = op.result
        <3>1. \A r \in Reported(k) : commands[k] = Stored("terminal", r)
            BY <2>1 DEF ExecInv, ReportInv
        <3>2. \A r \in Reported(k) : Stored("terminal", r).result = r
            BY DEF Stored
        <3>3. Stored("terminal", op.result).result = op.result
            BY DEF Stored
        <3> QED
            BY <2>1, <3>1, <3>2, <3>3
    <2>5. \A c \in Commands : \A r \in Reported(c)' :
             Pushable(c)' => commands'[c] = Stored("terminal", r)
        BY <2>1, <2>2, <2>3 DEF ExecInv, ReportInv, Pushable
    <2>6. OneResult'
        BY <2>3, <2>4 DEF ExecInv, ReportInv, OneResult
    <2>7. TruthfulResult'
        BY <2>1, <2>2, <2>3 DEF ExecInv, ReportInv, TruthfulResult, EffectOf
    <2> QED
        BY <2>5, <2>6, <2>7 DEF ReportInv
<1>8. ReceiptInv'
    BY ExecutorAssumption DEF
           ExecInv, ReceiptInv, AcceptedOnce, Pushable, ExecTypeOK, At, StepInv,
           QueueResult, AppendResult, GoTo, Stored, matrixVars, boxVars, cloudVars
<1> QED
    BY <1>1, <1>2, <1>3, <1>4, <1>5, <1>6, <1>7, <1>8 DEF ExecInv

\* The direct answer is the stored result.
LEMMA SendResultInv ==
    ASSUME ExecInv, SendResult
    PROVE  ExecInv'
<1>1. ExecTypeOK'
    <2>1. op.cmd \in Commands /\ op.result \in Results
        BY DEF ExecInv, ExecTypeOK, Busy, StepInv, RowsSane, Sane, StoredCommand, Stored, SendResult, At
    <2>2. cloud' \in [Commands -> SUBSET Results] /\ faults' \in Nat
        BY <2>1 DEF ExecInv, ExecTypeOK, SendResult, Fault
    <2>3. op' = NoDelivery
        BY DEF SendResult
    <2>4. /\ op' \in [step : DeliverySteps, cmd : Commands \cup {"none"},
                      first : BOOLEAN, result : Results \cup {"none"}]
          /\ op'.cmd = "none" /\ op'.step = "idle"
        BY <2>3 DEF NoDelivery, Delivery, DeliverySteps
    <2> QED
        BY <2>2, <2>4 DEF ExecInv, ExecTypeOK, SendResult, At, matrixVars, boxVars
<1>2. Busy'
    BY ExecutorAssumption DEF
           ExecInv, Busy, Pushable, ExecTypeOK, At, SendResult, Fault, NoDelivery,
           Delivery, Stored
<1>3. MemoryIsJournal'
    BY DEF ExecInv, MemoryIsJournal, Pushable, SendResult
<1>4. RowsSane'
    BY DEF ExecInv, RowsSane, Sane, SendResult
<1>5. StepInv'
    BY DEF ExecInv, StepInv, At, SendResult, Fault, NoDelivery, Delivery, Stored
<1>6. EffectInv'
    BY DEF ExecInv, EffectInv, AtMostOnce, EffectOf, Pushable, At, SendResult,
           Fault, NoDelivery, Delivery, Stored
<1>7. ReportInv'
    <2> DEFINE k == op.cmd
    <2>1. /\ k \in Commands /\ Pushable(k)
          /\ commands[k] = Stored("terminal", op.result)
          /\ EffectOf(k, op.result)
        BY DEF ExecInv, ExecTypeOK, Busy, StepInv, EffectInv, Stored, At, SendResult
    <2>2. UNCHANGED <<commands, age, executions>>
        BY DEF SendResult
    <2>3. \A c \in Commands : Reported(c)' \subseteq Reported(c) \cup (IF c = k THEN {op.result} ELSE {})
        BY <2>1, ExecutorAssumption
        DEF Reported, ExecInv, ExecTypeOK, SendResult, AppendResult, matrixVars, boxVars, cloudVars
    <2>4. \A r \in Reported(k) : r = op.result
        <3>1. \A r \in Reported(k) : commands[k] = Stored("terminal", r)
            BY <2>1 DEF ExecInv, ReportInv
        <3>2. \A r \in Reported(k) : Stored("terminal", r).result = r
            BY DEF Stored
        <3>3. Stored("terminal", op.result).result = op.result
            BY DEF Stored
        <3> QED
            BY <2>1, <3>1, <3>2, <3>3
    <2>5. \A c \in Commands : \A r \in Reported(c)' :
             Pushable(c)' => commands'[c] = Stored("terminal", r)
        BY <2>1, <2>2, <2>3 DEF ExecInv, ReportInv, Pushable
    <2>6. OneResult'
        BY <2>3, <2>4 DEF ExecInv, ReportInv, OneResult
    <2>7. TruthfulResult'
        BY <2>1, <2>2, <2>3 DEF ExecInv, ReportInv, TruthfulResult, EffectOf
    <2> QED
        BY <2>5, <2>6, <2>7 DEF ReportInv
<1>8. ReceiptInv'
    BY DEF ExecInv, ReceiptInv, AcceptedOnce, Pushable, SendResult, Fault,
           NoDelivery, Delivery, Stored
<1> QED
    BY <1>1, <1>2, <1>3, <1>4, <1>5, <1>6, <1>7, <1>8 DEF ExecInv

\* The outbox tells the cloud what was queued.
LEMMA DrainResultInv ==
    ASSUME ExecInv, NEW c \in Commands, DrainResult(c)
    PROVE  ExecInv'
<1>1. ExecTypeOK'
    BY ExecutorAssumption DEF
           ExecInv, ExecTypeOK, StoredCommand, CommandPhase, Results, DeliverySteps,
           At, StepInv, DrainResult, Stored, matrixVars, boxVars, cloudVars
<1>2. Busy'
    BY DEF ExecInv, Busy, Pushable, DrainResult
<1>3. MemoryIsJournal'
    BY DEF ExecInv, MemoryIsJournal, Pushable, DrainResult
<1>4. RowsSane'
    BY DEF ExecInv, RowsSane, Sane, DrainResult
<1>5. StepInv'
    BY DEF ExecInv, StepInv, At, DrainResult
<1>6. EffectInv'
    BY DEF ExecInv, EffectInv, AtMostOnce, EffectOf, Pushable, At, DrainResult
<1>7. ReportInv'
    <2>1. \A d \in Commands : Reported(d)' \subseteq Reported(d)
        BY DEF Reported, ExecInv, ExecTypeOK, DrainResult
    <2>2. \A d \in Commands : Reported(d) # {} => executions'[d] = executions[d]
        BY DEF DrainResult
    <2>3. \A d \in Commands : Reported(d) # {} /\ Pushable(d)' =>
              Pushable(d) /\ commands'[d] = commands[d]
        BY DEF ExecInv, ReportInv, Busy, StepInv, ExecTypeOK, Pushable, At,
               DrainResult
    <2> QED
        BY <2>1, <2>2, <2>3, ReportsKept DEF ExecInv
<1>8. ReceiptInv'
    BY DEF ExecInv, ReceiptInv, AcceptedOnce, Pushable, DrainResult
<1> QED
    BY <1>1, <1>2, <1>3, <1>4, <1>5, <1>6, <1>7, <1>8 DEF ExecInv

\* Expiry changes nothing stored.
LEMMA ExpireInv ==
    ASSUME ExecInv, NEW c \in Commands, Expire(c)
    PROVE  ExecInv'
<1>1. ExecTypeOK'
    BY ExecutorAssumption DEF
           ExecInv, ExecTypeOK, StoredCommand, CommandPhase, Results, DeliverySteps,
           At, StepInv, Expire, Stored, matrixVars, boxVars, cloudVars
<1>2. Busy'
    BY DEF ExecInv, Busy, Pushable, Expire
<1>3. MemoryIsJournal'
    BY DEF ExecInv, MemoryIsJournal, Pushable, Expire
<1>4. RowsSane'
    BY DEF ExecInv, RowsSane, Sane, Expire
<1>5. StepInv'
    BY DEF ExecInv, StepInv, At, Expire
<1>6. EffectInv'
    BY DEF ExecInv, EffectInv, AtMostOnce, EffectOf, Pushable, At, Expire
<1>7. ReportInv'
    <2>1. \A d \in Commands : Reported(d)' \subseteq Reported(d)
        BY ExecutorAssumption DEF
               matrixVars, boxVars, cloudVars, Reported, ExecInv, ExecTypeOK, Expire
    <2>2. \A d \in Commands : Reported(d) # {} => executions'[d] = executions[d]
        BY DEF Expire
    <2>3. \A d \in Commands : Reported(d) # {} /\ Pushable(d)' =>
              Pushable(d) /\ commands'[d] = commands[d]
        BY DEF ExecInv, ReportInv, Busy, StepInv, ExecTypeOK, Pushable, At, Expire
    <2> QED
        BY <2>1, <2>2, <2>3, ReportsKept DEF ExecInv
<1>8. ReceiptInv'
    BY ExecutorAssumption DEF
           ExecInv, ReceiptInv, AcceptedOnce, Pushable, ExecTypeOK, At, StepInv,
           Expire, Stored, matrixVars, boxVars, cloudVars
<1> QED
    BY <1>1, <1>2, <1>3, <1>4, <1>5, <1>6, <1>7, <1>8 DEF ExecInv

\* A row may be forgotten only when its command is pushed no more.
LEMMA GrowOldInv ==
    ASSUME ExecInv, NEW c \in Commands, GrowOld(c)
    PROVE  ExecInv'
<1>1. ExecTypeOK'
    BY ExecutorAssumption DEF
           ExecInv, ExecTypeOK, StoredCommand, CommandPhase, Results, DeliverySteps,
           At, StepInv, GrowOld, Stored, matrixVars, boxVars, cloudVars
<1>2. Busy'
    BY DEF ExecInv, Busy, Pushable, GrowOld
<1>3. MemoryIsJournal'
    BY DEF ExecInv, MemoryIsJournal, Pushable, GrowOld
<1>4. RowsSane'
    BY DEF ExecInv, RowsSane, Sane, GrowOld
<1>5. StepInv'
    BY DEF ExecInv, StepInv, At, GrowOld
<1>6. EffectInv'
    BY DEF ExecInv, EffectInv, AtMostOnce, EffectOf, Pushable, At, GrowOld
<1>7. ReportInv'
    <2>1. \A d \in Commands : Reported(d)' \subseteq Reported(d)
        BY ExecutorAssumption DEF
               matrixVars, boxVars, cloudVars, Reported, ExecInv, ExecTypeOK,
               GrowOld
    <2>2. \A d \in Commands : Reported(d) # {} => executions'[d] = executions[d]
        BY DEF GrowOld
    <2>3. \A d \in Commands : Reported(d) # {} /\ Pushable(d)' =>
              Pushable(d) /\ commands'[d] = commands[d]
        BY DEF ExecInv, ReportInv, Busy, StepInv, ExecTypeOK, Pushable, At, GrowOld
    <2> QED
        BY <2>1, <2>2, <2>3, ReportsKept DEF ExecInv
<1>8. ReceiptInv'
    BY ExecutorAssumption DEF
           ExecInv, ReceiptInv, AcceptedOnce, Pushable, ExecTypeOK, At, StepInv,
           GrowOld, Stored, matrixVars, boxVars, cloudVars
<1> QED
    BY <1>1, <1>2, <1>3, <1>4, <1>5, <1>6, <1>7, <1>8 DEF ExecInv

\* A failed journal write leaves map and journal as they were.
LEMMA JournalErrorInv ==
    ASSUME ExecInv, JournalError
    PROVE  ExecInv'
<1>1. ExecTypeOK'
    BY ExecutorAssumption DEF
           ExecInv, ExecTypeOK, StoredCommand, CommandPhase, Results, DeliverySteps,
           At, StepInv, JournalError, Fault, NoDelivery, Delivery, Stored,
           matrixVars, boxVars, cloudVars
<1>2. Busy'
    BY ExecutorAssumption DEF
           ExecInv, Busy, Pushable, ExecTypeOK, At, JournalError, Fault, NoDelivery,
           Delivery, Stored
<1>3. MemoryIsJournal'
    BY DEF ExecInv, MemoryIsJournal, Pushable, JournalError
<1>4. RowsSane'
    BY DEF ExecInv, RowsSane, Sane, JournalError
<1>5. StepInv'
    BY DEF ExecInv, StepInv, At, JournalError, Fault, NoDelivery, Delivery, Stored
<1>6. EffectInv'
    BY DEF ExecInv, EffectInv, AtMostOnce, EffectOf, Pushable, At, JournalError,
           Fault, NoDelivery, Delivery, Stored
<1>7. ReportInv'
    BY ExecutorAssumption DEF
           ExecInv, ReportInv, OneResult, TruthfulResult, Reported, Pushable,
           ExecTypeOK, At, StepInv, JournalError, Fault, NoDelivery, Delivery,
           Stored, matrixVars, boxVars, cloudVars
<1>8. ReceiptInv'
    BY ExecutorAssumption DEF
           ExecInv, ReceiptInv, AcceptedOnce, Pushable, ExecTypeOK, At, StepInv,
           JournalError, Fault, NoDelivery, Delivery, Stored, matrixVars, boxVars,
           cloudVars
<1> QED
    BY <1>1, <1>2, <1>3, <1>4, <1>5, <1>6, <1>7, <1>8 DEF ExecInv

\* After a restart the map is the journal again, for every pushable command.
LEMMA RestartInv ==
    ASSUME ExecInv, Restart
    PROVE  ExecInv'
<1>1. ExecTypeOK'
    BY ExecutorAssumption DEF
           ExecInv, ExecTypeOK, StoredCommand, CommandPhase, Results, DeliverySteps,
           At, StepInv, Restart, Fault, NoDelivery, Delivery, RestoreCommands,
           RestoredCommand, PruneJournal, Stored, matrixVars, boxVars, cloudVars
<1>2. Busy'
    BY ExecutorAssumption DEF
           ExecInv, Busy, Pushable, ExecTypeOK, At, Restart, Fault, NoDelivery,
           Delivery, RestoreCommands, RestoredCommand, PruneJournal, Stored
<1>3. MemoryIsJournal'
    BY ExecutorAssumption DEF
           ExecInv, MemoryIsJournal, Pushable, ExecTypeOK, Busy, RowsSane, Sane,
           StepInv, At, Restart, Fault, NoDelivery, Delivery, RestoreCommands,
           RestoredCommand, PruneJournal, Stored, matrixVars, boxVars, cloudVars
<1>4. RowsSane'
    BY DEF ExecInv, RowsSane, Sane, Restart, Fault, NoDelivery, Delivery,
           RestoreCommands, RestoredCommand, PruneJournal, Stored
<1>5. StepInv'
    BY DEF ExecInv, StepInv, At, Restart, Fault, NoDelivery, Delivery,
           RestoreCommands, RestoredCommand, PruneJournal, Stored
<1>6. EffectInv'
    BY ExecutorAssumption DEF
           ExecInv, EffectInv, AtMostOnce, EffectOf, Pushable, At, ExecTypeOK, Busy,
           MemoryIsJournal, RowsSane, Sane, StepInv, Restart, Fault, NoDelivery,
           Delivery, RestoreCommands, RestoredCommand, PruneJournal, Stored,
           matrixVars, boxVars, cloudVars
<1>7. ReportInv'
    BY ExecutorAssumption DEF
           ExecInv, ReportInv, OneResult, TruthfulResult, Reported, Pushable,
           ExecTypeOK, Busy, MemoryIsJournal, RowsSane, Sane, StepInv, At, Restart,
           Fault, NoDelivery, Delivery, RestoreCommands, RestoredCommand,
           PruneJournal, Stored, matrixVars, boxVars, cloudVars
<1>8. ReceiptInv'
    BY ExecutorAssumption DEF ExecInv, ReceiptInv, AcceptedOnce, Pushable, ExecTypeOK, Busy,
           MemoryIsJournal, RowsSane, Sane, StepInv, At, Restart, Fault, NoDelivery,
           Delivery, RestoreCommands, RestoredCommand, PruneJournal, Stored,
           matrixVars, boxVars, cloudVars
<1> QED
    BY <1>1, <1>2, <1>3, <1>4, <1>5, <1>6, <1>7, <1>8 DEF ExecInv

-----------------------------------------------------------------------------
\* The invariant holds through any pushes, faults and restarts.
THEOREM ExecInvariant == ExecSpec => []ExecInv
<1>1. ExecInv /\ UNCHANGED execVars => ExecInv'
    BY DEF ExecInv, execVars, matrixVars, boxVars, cloudVars, ExecTypeOK, At, Busy,
           MemoryIsJournal, RowsSane, Sane, StepInv, EffectInv, AtMostOnce, EffectOf,
           ReportInv, OneResult, TruthfulResult, Reported, ReceiptInv, AcceptedOnce,
           Pushable
<1>2. ExecInv /\ [ExecNext]_execVars => ExecInv'
    <2> SUFFICES ASSUME ExecInv, ExecNext PROVE ExecInv'
        BY <1>1
    <2>1. CASE \E c \in Commands :
                  Deliver(c) \/ DrainResult(c) \/ Expire(c) \/ GrowOld(c)
        BY <2>1, DeliverInv, DrainResultInv, ExpireInv, GrowOldInv
    <2>2. CASE DeliveryStep
        BY <2>2, RecordInv, DecideInv, MarkExecutingInv, ExecuteInv,
           StoreTerminalInv, ReplyInv, QueueResultInv, SendResultInv
           DEF DeliveryStep
    <2>3. CASE JournalError \/ Restart
        BY <2>3, JournalErrorInv, RestartInv
    <2> QED
        BY <2>1, <2>2, <2>3 DEF ExecNext
<1> QED
    BY ExecInitInv, <1>2, PTL DEF ExecSpec

\* Type correctness of the executor's state.
THEOREM ExecTypeCorrect == ExecSpec => []ExecTypeOK
<1>1. ExecInv => ExecTypeOK
    BY DEF ExecInv
<1> QED
    BY <1>1, ExecInvariant, PTL

\* No command for the modem takes effect twice.
THEOREM PortCommandsRunOnce == ExecSpec => []AtMostOnce
<1>1. ExecInv => AtMostOnce
    BY DEF ExecInv, EffectInv
<1> QED
    BY <1>1, ExecInvariant, PTL

\* The cloud never gets two different results for one command.
THEOREM ResultsAgree == ExecSpec => []OneResult
<1>1. ExecInv => OneResult
    BY DEF ExecInv, ReportInv
<1> QED
    BY <1>1, ExecInvariant, PTL

\* Results tell the truth about the command's effect.
THEOREM ResultsTruthful == ExecSpec => []TruthfulResult
<1>1. ExecInv => TruthfulResult
    BY DEF ExecInv, ReportInv
<1> QED
    BY <1>1, ExecInvariant, PTL

\* A command is accepted at most once.
THEOREM CommandsAcceptedOnce == ExecSpec => []AcceptedOnce
<1>1. ExecInv => AcceptedOnce
    BY DEF ExecInv, ReceiptInv
<1> QED
    BY <1>1, ExecInvariant, PTL

-----------------------------------------------------------------------------
\* Where the matrices come from, and what keeps one unpublished: its command is
\* recorded and not yet answered, or is being answered right now.
MatrixInv ==
    /\ authority = "Stored" => matrix # "builtin"
    /\ matrix # "builtin" => matrix \in Commands /\ Kind[matrix] = "matrix"
    /\ matrix_row # "none" => matrix_row \in Commands /\ Kind[matrix_row] = "matrix"
    /\ (live_matrix # matrix /\ ~At("reply")) =>
           matrix \in Commands /\ commands[matrix].phase = "recorded"

\* A delivery changes the phase of the matrix's command only from "recorded", to
\* itself or on the way to the answer that publishes the matrix.
LEMMA MatrixStep ==
    ASSUME ExecInv, MatrixInv, [ExecNext]_execVars
    PROVE  MatrixInv'
<1> USE DEF MatrixInv, At
<1>0. /\ op.cmd = "none" <=> op.step = "idle"
      /\ op.cmd \in Commands \cup {"none"}
      /\ op \in [step : DeliverySteps, cmd : Commands \cup {"none"},
                 first : BOOLEAN, result : Results \cup {"none"}]
      /\ commands \in [Commands -> StoredCommand]
      /\ "none" \notin Commands /\ "builtin" \notin Commands
      /\ matrix_row \in Commands \cup {"none"}
    BY ExecutorAssumption DEF ExecInv, ExecTypeOK
<1>1. ASSUME UNCHANGED <<matrixVars, commands>>, op.step # "reply"
      PROVE  MatrixInv'
    BY <1>1 DEF matrixVars
<1>2. ASSUME NEW c \in Commands, Deliver(c) \/ DrainResult(c) \/ Expire(c) \/ GrowOld(c)
      PROVE  MatrixInv'
    <2>1. UNCHANGED <<matrixVars, commands>>
        BY <1>2 DEF Deliver, DrainResult, Expire, GrowOld
    <2>2. op.step = "idle" \/ UNCHANGED op
        BY <1>2 DEF Deliver, DrainResult, Expire, GrowOld, At
    <2> QED
        BY <2>1, <2>2 DEF matrixVars
<1>3. CASE Decide \/ QueueResult \/ SendResult \/ JournalError
    <2>1. UNCHANGED <<matrixVars, commands>> /\ op.step # "reply"
        BY <1>3 DEF Decide, QueueResult, SendResult, JournalError
    <2> QED
        BY <1>1, <2>1
<1>4. CASE Record
    <2>1. /\ op.step = "record" /\ op.cmd \in Commands
          /\ commands' = [commands EXCEPT ![op.cmd] = Stored("recorded", "none")]
          /\ UNCHANGED matrixVars /\ op' = [op EXCEPT !.step = "decide"]
        BY <1>0, <1>4 DEF Record, JournalPhase, GoTo
    <2>2. \A c \in Commands : commands[c].phase = "recorded" => commands'[c].phase = "recorded"
        BY <1>0, <2>1 DEF Stored
    <2> QED
        BY <2>1, <2>2 DEF matrixVars
<1>5. CASE MarkExecuting
    <2>1. /\ op.step = "mark" /\ op.cmd \in Commands
          /\ commands' = [commands EXCEPT ![op.cmd] = Stored("executing", "none")]
          /\ UNCHANGED matrixVars /\ op' = [op EXCEPT !.step = "run"]
        BY <1>0, <1>5 DEF MarkExecuting, JournalPhase, GoTo
    <2>2. Kind[op.cmd] = "port"
        BY <2>1 DEF ExecInv, StepInv
    <2>3. \A c \in Commands : Kind[c] = "matrix" => commands'[c] = commands[c]
        BY <1>0, <2>1, <2>2
    <2> QED
        BY <1>0, <2>1, <2>3 DEF matrixVars
<1>6. CASE Execute
    <2>1. /\ op.step = "run" /\ op.cmd \in Commands /\ UNCHANGED commands
          /\ RunPort \/ RunRefused \/ RunMatrix
        BY <1>0, <1>6 DEF Execute
    <2>2. CASE RunPort \/ RunRefused
        BY <1>1, <2>1, <2>2 DEF RunPort, RunRefused
    <2>3. CASE RunMatrix
        <3>1. /\ Kind[op.cmd] = "matrix" /\ matrix' = op.cmd
              /\ \/ matrix_row' = op.cmd
                 \/ UNCHANGED <<matrix_row, authority>>
            BY <2>3 DEF RunMatrix
        <3>2. commands[op.cmd].phase = "recorded"
            BY <2>1, <3>1 DEF ExecInv, StepInv
        <3> QED
            BY <1>0, <2>1, <3>1, <3>2
    <2> QED
        BY <2>1, <2>2, <2>3
<1>7. CASE StoreTerminal
    <2>1. op'.step = "reply" /\ UNCHANGED matrixVars
        BY <1>0, <1>7 DEF StoreTerminal, GoTo
    <2> QED
        BY <2>1 DEF matrixVars
<1>8. CASE Reply
    <2>1. live_matrix' = matrix /\ UNCHANGED <<matrix, matrix_row, authority>>
        BY <1>8 DEF Reply, PublishedMatrix
    <2> QED
        BY <2>1
<1>9. CASE Restart
    BY <1>0, <1>9 DEF Restart
<1>10. CASE UNCHANGED execVars
    BY <1>10 DEF execVars, matrixVars
<1> QED
    BY <1>2, <1>3, <1>4, <1>5, <1>6, <1>7, <1>8, <1>9, <1>10 DEF ExecNext, DeliveryStep

\* handle_command publishes the executor's matrix before it answers, whatever
\* faults come between: the poll thread and the executor differ only while the
\* matrix's own command is unanswered.
THEOREM MatrixIsPublished == ExecSpec => []MatrixPublished
<1>1. ExecInit => MatrixInv
    BY DEF ExecInit, MatrixInv
<1>2. ExecInv /\ MatrixInv /\ [ExecNext]_execVars => MatrixInv'
    BY MatrixStep
<1>3. MatrixInv => MatrixPublished
    BY DEF MatrixInv, MatrixPublished, At
<1> QED
    BY <1>1, <1>2, <1>3, ExecInvariant, PTL DEF ExecSpec
=============================================================================
