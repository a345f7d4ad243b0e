--------------------------- MODULE RadioControl ---------------------------
(***************************************************************************)
(* The operations that take a module off the air and bring it back         *)
(* (edge-modem/src/session.rs, restart_radio; edge-bin/src/main.rs,        *)
(* rotate_cycle, set_radio, reregister_network, run_ussd_exchange), on one *)
(* module, wanted by the command thread and by the panel.                  *)
(*                                                                         *)
(* The module may refuse a request, take one without acting on it, act on  *)
(* it later, or act on it and lose the answer; it takes the next request   *)
(* before it has acted on the last ("applied asynchronously by the same    *)
(* firmware").  A restart and a rotation hold the arbiter from beginning   *)
(* to end; a re-registration takes it anew for every AT command.           *)
(***************************************************************************)
EXTENDS Naturals, Sequences

CONSTANTS MaxOps,     \* bound: operations started
          MaxPending  \* bound: requests the module has yet to act on

ASSUME RadioAssumption == MaxOps \in Nat /\ MaxPending \in Nat

\* The thread that executes the cloud's commands, and the panel's.
Caller == {"command", "panel"}

VARIABLES
    cfun,       \* +CFUN: 0 minimum, 1 full, 4 radio off, 7 offline
    mode,       \* the operating mode QMI reports
    pending,    \* the +CFUN values it has accepted and not yet acted on
    told,       \* the last mode it took from anybody
    cardState,  \* CardState
    select,     \* network selection: "auto", "manual", "off" (AT+COPS=2), or
                \* "off by hand" when it was typed into the AT console
    camped,     \* the module has an operator
    dialog,     \* USSD session: who has the menu open
    lease,      \* who has the arbiter
    pc,         \* [Caller -> next step of its operation]
    noted,      \* RestartReport, rotate's two results: what was seen so far,
                \* and whether the module had requests open when it was seen
    result,     \* [Caller -> reason code of its last operation]
    ops

moduleVars == <<cfun, mode, pending, told, cardState, select, camped, dialog>>
radioVars == <<cfun, mode, pending, told, cardState, select, camped, dialog,
               lease, pc, noted, result, ops>>

Online == "online"
LowPower == "low_power"
CfunOf(m) == IF m = Online THEN 1 ELSE 4
ModeOf(v) == CASE v = 1 -> Online [] v = 7 -> "offline" [] OTHER -> LowPower
NoLine == 99           \* the module answered without a +CFUN line
NothingSeen == [down |-> TRUE, cfun |-> 0, mode |-> LowPower, unsettled |-> FALSE]

RadioInit ==
    /\ cfun \in {0, 1, 4, 7}
    /\ mode = ModeOf(cfun)
    /\ pending = <<>>
    /\ told = mode
    /\ cardState \in {"ready", "busy", "absent", "locked"}
    /\ select = "auto"
    /\ camped = (cfun = 1)
    /\ dialog = "free"
    /\ lease = "free"
    /\ pc = [c \in Caller |-> "idle"]
    /\ noted = [c \in Caller |-> NothingSeen]
    /\ result = [c \in Caller |-> "none"]
    /\ ops = 0

-----------------------------------------------------------------------------
(* The module *)

\* It acts on what it accepted first, or drops it; QMI's own account follows
\* or does not.
ActsOnIt ==
    /\ pending # <<>>
    /\ \/ cfun' = Head(pending) /\ mode' \in {mode, ModeOf(Head(pending))}
       \/ UNCHANGED <<cfun, mode>>
    /\ pending' = Tail(pending)
    /\ UNCHANGED <<told, cardState, select, camped, dialog, lease, pc, noted, result, ops>>

\* The card is read after the radio has come up, and may never be; the network
\* lets a module in that is up and selecting.
CardAndNetwork ==
    /\ cardState' \in IF cfun = 1 THEN {"ready", "busy", "absent", "locked"} ELSE {cardState}
    /\ camped' \in IF cfun = 1 /\ select \in {"auto", "manual"} THEN BOOLEAN ELSE {FALSE}
    /\ <<cardState', camped'>> # <<cardState, camped>>
    /\ UNCHANGED <<cfun, mode, pending, told, select, dialog, lease, pc, noted, result, ops>>

\* It takes a request and answers before it has acted on it.
Accepts(v) ==
    /\ Len(pending) < MaxPending
    /\ pending' = Append(pending, v)
    /\ told' = ModeOf(v)

\* A QMI mode request: ok, or an error that may stand for a lost answer.  From
\* +CFUN: 7 every one is refused.
SetOperatingMode(m, ok) ==
    /\ \/ cfun # 7 /\ Accepts(CfunOf(m))
       \/ ~ok /\ UNCHANGED <<pending, told>>
    /\ UNCHANGED <<cfun, mode, cardState, select, camped, dialog>>

\* AT+CFUN=v: "ok" before the radio is up, "refused" by a result code that is
\* not OK, or "lost" with the port, before or after the module took it.
WriteFunctionality(v, answer) ==
    /\ \/ answer # "refused" /\ Accepts(v)
       \/ answer # "ok" /\ UNCHANGED <<pending, told>>
    /\ UNCHANGED <<cfun, mode, cardState, select, camped, dialog>>

-----------------------------------------------------------------------------
(* Leases and steps *)

Goes(c, step) == pc' = [pc EXCEPT ![c] = step] /\ UNCHANGED <<result, lease>>
Ends(c, code) ==
    /\ pc' = [pc EXCEPT ![c] = "idle"]
    /\ result' = [result EXCEPT ![c] = code]
    /\ lease' = "free"
AtStep(c, step) == pc[c] = step /\ UNCHANGED ops

Starts(c, step) ==
    /\ pc[c] = "idle"
    /\ ops < MaxOps
    /\ ops' = ops + 1
    /\ pc' = [pc EXCEPT ![c] = step]
    /\ result' = [result EXCEPT ![c] = "none"]
    /\ noted' = [noted EXCEPT ![c] = NothingSeen]
    /\ UNCHANGED moduleVars

\* restart_modem and rotate_ip: the lease is taken for all of it.
StartsHolding(c) ==
    /\ lease = "free"
    /\ lease' = c
    /\ Starts(c, "restart") \/ (c = "command" /\ Starts(c, "rotate"))

\* restart_radio, up to the request to go down.
ReadBefore(c) ==
    /\ AtStep(c, "restart")
    /\ \/ Ends(c, "restart_unverifiable")
       \/ cfun = 7 /\ Ends(c, "modem_already_stranded")
       \/ Goes(c, "down")              \* +CFUN reads another value, or no line
    /\ UNCHANGED <<moduleVars, noted>>

\* LowPower.  A refusal ends the restart, whatever became of the request.
GoDown(c) ==
    /\ AtStep(c, "down")
    /\ \E ok \in BOOLEAN :
          /\ SetOperatingMode(LowPower, ok)
          /\ IF ok THEN Goes(c, "up") ELSE Ends(c, "restart_port_lost")
    /\ UNCHANGED noted

\* Online, and each of the rungs of climb_back that sends something: the step
\* goes to its wait_for_full when it was accepted, else to the next rung.
AskOnline(c, from, waits, next) ==
    /\ AtStep(c, from)
    /\ \E ok \in BOOLEAN :
          SetOperatingMode(Online, ok) /\ Goes(c, IF ok THEN waits ELSE next)
    /\ UNCHANGED noted

AskFull(c, from, waits, next) ==
    /\ AtStep(c, from)
    /\ \/ WriteFunctionality(1, "ok") /\ Goes(c, waits)
       \/ WriteFunctionality(1, "refused") /\ Goes(c, next)
       \/ WriteFunctionality(1, "lost") /\ Goes(c, "read_back")
    /\ UNCHANGED noted

\* wait_for_full: until +CFUN reads 1, the attempts run out, or the port is lost.
WaitForFull(c, from, next) ==
    /\ AtStep(c, from)
    /\ \/ cfun = 1 /\ Goes(c, "read_back")
       \/ Goes(c, next)
    /\ UNCHANGED <<moduleVars, noted>>

\* Rung 3, first half: AT+CFUN=0, reached while the port answers.
AskMinimum(c) ==
    /\ AtStep(c, "rung3")
    /\ \/ WriteFunctionality(0, "ok") /\ Goes(c, "rung3b")
       \/ WriteFunctionality(0, "lost") /\ Goes(c, "read_back")   \* or refused
    /\ UNCHANGED noted

ClimbBack(c) ==
    \/ AskOnline(c, "up", "wait", "rung1")
    \/ WaitForFull(c, "wait", "rung1")
    \/ AskOnline(c, "rung1", "wait1", "rung2")
    \/ WaitForFull(c, "wait1", "rung2")
    \/ AskFull(c, "rung2", "wait2", "rung3")
    \/ WaitForFull(c, "wait2", "rung3")
    \/ AskMinimum(c)
    \/ AskFull(c, "rung3b", "wait3", "read_back")
    \/ WaitForFull(c, "wait3", "read_back")

\* The reading of +CFUN that decides, and the one QMI gives, taken at once:
\* the module may have requests open that the restart put to it on the way.
ReadBack(c) ==
    /\ AtStep(c, "read_back")
    /\ \/ Ends(c, "restart_port_lost") /\ UNCHANGED noted
       \/ /\ \E line \in {cfun, NoLine}, seen \in {mode, "unreadable"} :
                noted' = [noted EXCEPT ![c] = [down |-> @.down, cfun |-> line, mode |-> seen,
                                                   unsettled |-> pending # <<>>]]
          /\ Goes(c, "judge")
    /\ UNCHANGED moduleVars

\* Mutant: QMI is not asked.
JudgeRestartMutant(c) ==
    /\ AtStep(c, "judge")
    /\ CASE noted[c].cfun = 7 -> Ends(c, "modem_stranded_offline")
         [] noted[c].cfun \in {0, 4, NoLine} -> Ends(c, "restart_not_restored")
         [] OTHER -> Goes(c, "card")
    /\ UNCHANGED <<moduleVars, noted>>

JudgeRestart(c) ==
    /\ AtStep(c, "judge")
    /\ CASE noted[c].cfun = 7 -> Ends(c, "modem_stranded_offline")
         [] noted[c].cfun \in {0, 4, NoLine} \/ (noted[c].cfun = 1 /\ noted[c].mode # Online) ->
               Ends(c, "restart_not_restored")
         [] OTHER -> Goes(c, "card")
    /\ UNCHANGED <<moduleVars, noted>>

\* wait_for_card: until it is ready or waits for a code, or the attempts run out.
WaitForCard(c) ==
    /\ AtStep(c, "card")
    /\ \/ Ends(c, "restart_port_lost")
       \/ Ends(c, IF cardState = "ready" THEN "restart_ok" ELSE "restart_card_not_ready")
    /\ UNCHANGED <<moduleVars, noted>>

-----------------------------------------------------------------------------
\* rotate_cycle: down, up whatever that said, and up once more if it failed.
RotateDown(c) ==
    /\ AtStep(c, "rotate")
    /\ \E ok \in BOOLEAN :
          /\ SetOperatingMode(LowPower, ok)
          /\ noted' = [noted EXCEPT ![c].down = ok]
    /\ Goes(c, "rotate_up")

\* rotate_outcome: what could not be brought back is told apart.
RotateOutcome(c, up) ==
    Ends(c, IF ~up THEN "rotate_stranded"
            ELSE IF noted[c].down THEN "rotate_ok" ELSE "rotate_failed")

RotateUp(c) ==
    \/ /\ AtStep(c, "rotate_up")
       /\ \E ok \in BOOLEAN :
             /\ SetOperatingMode(Online, ok)
             /\ IF ok THEN RotateOutcome(c, TRUE) ELSE Goes(c, "rotate_again")
       /\ UNCHANGED noted
    \/ /\ AtStep(c, "rotate_again")
       /\ \E ok \in BOOLEAN : SetOperatingMode(Online, ok) /\ RotateOutcome(c, ok)
       /\ UNCHANGED noted

\* radio_at_command: AT+CFUN=1 or 0, when there is no QMI port
\* (radio_falls_back_to_at).
RadioAtCommand(up) == IF up THEN 1 ELSE 0

\* set_radio: one request, over QMI or over AT, where nobody looks
\* at the result code: a refusal reads as done.
SetRadio(c) ==
    /\ lease = "free"
    /\ pc[c] = "idle" /\ ops < MaxOps /\ ops' = ops + 1
    /\ \E up, ok \in BOOLEAN :
          /\ \/ SetOperatingMode(IF up THEN Online ELSE LowPower, ok)
             \/ \E answer \in IF ok THEN {"ok", "refused"} ELSE {"lost"} :
                   WriteFunctionality(RadioAtCommand(up), answer)
          /\ result' = [result EXCEPT ![c] = IF ok THEN "radio_ok" ELSE "radio_failed"]
    /\ UNCHANGED <<lease, pc, noted>>

-----------------------------------------------------------------------------
(* Each AT command under a lease of its own *)

Cops(s) ==
    /\ select' = s
    /\ camped' = FALSE
    /\ UNCHANGED <<cfun, mode, pending, told, cardState, dialog>>

\* reregister_network: detach, and attach again whatever the detach said.
StartsReregister(c) ==
    /\ c = "command"
    /\ UNCHANGED lease
    /\ Starts(c, "detach")

Detach(c) ==
    /\ lease = "free"
    /\ AtStep(c, "detach")
    /\ Cops("off") \/ UNCHANGED moduleVars
    /\ Goes(c, "attach")
    /\ UNCHANGED noted

Attach(c) ==
    /\ lease = "free"
    /\ AtStep(c, "attach")
    /\ \/ Cops("auto") /\ Goes(c, "camp")
       \/ UNCHANGED moduleVars /\ Ends(c, "at_rejected")
    /\ UNCHANGED noted

\* AT+COPS? until an operator shows, the time is up or the port fails.
AwaitOperator(c) ==
    /\ lease = "free"
    /\ AtStep(c, "camp")
    /\ Ends(c, IF camped THEN "registered" ELSE "not_registered") \/ Ends(c, "at_failed")
    /\ UNCHANGED <<moduleVars, noted>>

\* select_operator: AT+COPS=1 or 0 in one exchange.
SelectOperator(c) ==
    /\ c = "command"
    /\ lease = "free"
    /\ pc[c] = "idle" /\ ops < MaxOps /\ ops' = ops + 1
    /\ \E s \in {"auto", "manual"} : Cops(s)
    /\ UNCHANGED <<lease, pc, noted, result>>

\* at_command: an operator types what the guard holds back, and forces it.
TypedAt(c) ==
    /\ lease = "free"
    /\ pc[c] = "idle" /\ ops < MaxOps /\ ops' = ops + 1
    /\ Cops("off by hand") \/ WriteFunctionality(7, "ok")
    /\ UNCHANGED <<lease, pc, noted, result>>

\* preempt_for_stage: all but a continue start from a released session.
PreemptForStage(stage) == stage # "continue"

\* run_ussd_exchange and ussd_cancel.  The network answers with the end of the
\* session or with a menu.
Ussd(c, stage) ==
    /\ lease = "free"
    /\ pc[c] = "idle" /\ ops < MaxOps /\ ops' = ops + 1
    /\ LET open == IF PreemptForStage(stage) THEN "free" ELSE dialog
       IN  \/ stage = "cancel" /\ dialog' = "free"
           \/ stage # "cancel" /\ dialog' \in {"free", IF open = "free" THEN c ELSE open}
    /\ UNCHANGED <<cfun, mode, pending, told, cardState, select, camped, lease, pc, noted, result>>

\* The agent stops: the leases go with it, the module stays as it is.
RadioStop ==
    /\ \E c \in Caller : pc[c] # "idle"
    /\ pc' = [c \in Caller |-> "idle"]
    /\ result' = [c \in Caller |-> "none"]
    /\ lease' = "free"
    /\ noted' = [c \in Caller |-> NothingSeen]
    /\ UNCHANGED <<moduleVars, ops>>

RadioNext ==
    \/ ActsOnIt \/ CardAndNetwork \/ RadioStop
    \/ \E c \in Caller :
          \/ StartsHolding(c) \/ ReadBefore(c) \/ GoDown(c) \/ ClimbBack(c)
          \/ ReadBack(c) \/ JudgeRestart(c) \/ WaitForCard(c)
          \/ RotateDown(c) \/ RotateUp(c) \/ SetRadio(c)
          \/ StartsReregister(c) \/ Detach(c) \/ Attach(c) \/ AwaitOperator(c)
          \/ SelectOperator(c) \/ TypedAt(c)
          \/ \E s \in {"start", "continue", "cancel"} : Ussd(c, s)

RadioSpec == RadioInit /\ [][RadioNext]_radioVars

-----------------------------------------------------------------------------
(* Properties *)

Reports(c, codes) == result'[c] \in codes /\ pc[c] # "idle" /\ pc'[c] = "idle"

\* A restart that says it worked has a module on the air by both accounts and
\* with a card it can use, and one that blames the card has a radio that is
\* up, unless the module still had requests of the restart to act on when the
\* two readings were taken; a module said to be stranded already is at
\* +CFUN: 7 (restart_radio's contract).  The exception is the code's: it waits
\* for +CFUN: 1, which the module may still report before it has gone down.
RestartTruth ==
    [][\A c \in Caller :
         /\ Reports(c, {"restart_ok", "restart_card_not_ready"})
               => (cfun = 1 /\ mode = Online) \/ noted[c].unsettled
         /\ Reports(c, {"restart_ok"}) => cardState = "ready"
         /\ Reports(c, {"modem_already_stranded"}) => cfun = 7]_radioVars

\* Whatever goes wrong on the way down, a rotation has the module told to come
\* back up before it reports, unless it reports that it could not
\* (rotate_cycle).
RotationComesBack ==
    [][\A c \in Caller : Reports(c, {"rotate_ok", "rotate_failed"}) => told' = Online]_radioVars

\* A re-registration that ends with a verdict on the network has given the
\* selection back to the module first (reregister_network).
ReattachesAlways ==
    [][\A c \in Caller :
         Reports(c, {"registered", "not_registered"}) => select' # "off"]_radioVars

\* Together: what an operation takes off the network it puts back, and what it
\* says of the module is so.
ComesBack == RestartTruth /\ RotationComesBack /\ ReattachesAlways
=============================================================================
