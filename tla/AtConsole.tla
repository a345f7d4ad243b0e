----------------------------- MODULE AtConsole -----------------------------
(***************************************************************************)
(* The raw AT and USSD console: the panel's page (edge-ui/src/console.rs), *)
(* the dialog it asks before some commands (edge-core/src/at_guard.rs) and *)
(* the agent's own reading of a command (edge-core/src/at_policy.rs),      *)
(* which the cloud relay passes too.                                       *)
(*                                                                         *)
(* A command is read up to its segments: name, form and arguments.         *)
(* Letters' case and the blanks around a command do not matter; a blank    *)
(* before the `=' does, and is a form of its own.  Requests are answered   *)
(* in any order, or lost before or after they had effect.                  *)
(***************************************************************************)
EXTENDS Naturals, Sequences, FiniteSets

CONSTANTS
    AtLine,      \* lines an operator types for AT: [at, segs], see Segment
    UssdCode,    \* codes for the network, which are no AT commands
    Quick,       \* the probes of the button row, a set of AT lines
    Changing,    \* commands with a + that change a module's state when they set
    BareChanging, \* and those without one, which change it in any form
    ConsoleModem,
    KeepEntries, \* KEEP
    HistoryKept, \* HISTORY
    MaxKeys,     \* bound: what the operator does besides sending
    MaxSent      \* bound: commands sent

Blank == [at |-> FALSE, segs |-> <<>>]

ASSUME ConsoleAssumption ==
    /\ \A c \in UssdCode : ~c.at
    /\ Blank \notin AtLine \cup UssdCode /\ AtLine \cap UssdCode = {}
    /\ Quick \subseteq AtLine
    /\ KeepEntries \in Nat \ {0} /\ HistoryKept \in Nat \ {0}
    /\ MaxKeys \in Nat /\ MaxSent \in Nat

VARIABLES
    mode, force, input,  \* ConsoleState: the endpoint, the box, the line
    ussdOpen,            \* ConsoleState::ussd_open
    history, cursor,     \* <<mode, line>> sent, and the one shown (0: none)
    draft,               \* the line set aside while the history is looked at
    entries, dropped,    \* the transcript, and how much of it was pushed out
    asked,               \* ConsoleState::seq
    target,              \* the module the page is on
    flying,              \* requests in flight
    reached,             \* what reached a module
    ticked,              \* the operator ticked the box since the last send
    paired,              \* ghost: <<mode, line>> the operator put together
    keys

consoleVars == <<mode, force, input, ussdOpen, history, cursor, draft, entries,
                 dropped, asked, target, flying, reached, ticked, paired, keys>>

ConsoleInit ==
    /\ mode = "at" /\ force = FALSE /\ input = Blank
    /\ ussdOpen = FALSE
    /\ history = <<>> /\ cursor = 0
    /\ draft = <<"at", Blank>>
    /\ entries = <<>> /\ dropped = 0 /\ asked = 0
    /\ target \in ConsoleModem
    /\ flying = {} /\ reached = {}
    /\ ticked = FALSE /\ paired = {}
    /\ keys = 0

-----------------------------------------------------------------------------
(* at_policy.rs *)

Segment(name, form, args) == [name |-> name, form |-> form, args |-> args]

\* WRITE_RISKS: commands held back when something is set.
WriteRisks ==
    [radio |-> {"CFUN", "COPS", "CGATT", "CEREG", "CREG", "CGACT", "QIACT", "QIDEACT"},
     message |-> {"CNMI", "CMGS", "CMGW", "CMSS", "CMGD", "CNMA", "QCMGS"},
     ussd |-> {"CUSD"},
     card |-> {"CPIN", "CLCK", "CPWD", "CSIM", "CRSM", "CCHO", "CCHC", "CGLA", "QCCID"},
     config |-> {"QCFG", "EGMR", "QNVW", "QNVFW", "QFDEL", "QFUPL", "QLINUXCMD", "CGDCONT",
                 "QPRTPARA", "QPOWD", "CRESET", "QFOTADL", "CSCA"}]

\* BARE_RISKS: commands without a +, held back in any form.
BareRisks == [call |-> {"D", "A", "H", "O"}, config |-> {"&F", "&W", "Z"}]

\* What a module makes of a segment (external): it sets, with or without a blank
\* before the `=', and so changes state.  The tables are taken to name every
\* command that does.
Sets(segment) == segment.form \in {"write", "spaced"}
Disrupts(segment) ==
    IF segment.form = "bare" THEN segment.name \in BareChanging
    ELSE Sets(segment) /\ segment.name \in Changing

ASSUME TablesAssumption ==
    /\ Changing \subseteq UNION {WriteRisks[k] : k \in DOMAIN WriteRisks}
    /\ BareChanging \subseteq UNION {BareRisks[k] : k \in DOMAIN BareRisks}

\* is_write: `=' right after the name, and anything but `?' behind it.
IsWrite(segment) == segment.form = "write"

\* segment_risk: the kind of state it reaches, or "none".
SegmentRisk(segment) ==
    LET table == IF segment.form = "bare" THEN BareRisks ELSE WriteRisks
        kinds == {k \in DOMAIN table : segment.name \in table[k]}
    IN  IF kinds = {} \/ (segment.form # "bare" /\ ~IsWrite(segment)) THEN "none"
        ELSE CHOOSE k \in kinds : TRUE

\* Mutant: a chain is judged by its first command.
ClassifyMutant(c) ==
    IF ~c.at THEN "unrecognised" ELSE IF c.segs = <<>> THEN "none" ELSE SegmentRisk(c.segs[1])

\* classify: what is no AT command (A/ too) is not guessed at, and every segment
\* of a chain counts.
Classify(c) ==
    LET risky == {i \in 1..Len(c.segs) : SegmentRisk(c.segs[i]) # "none"}
    IN  CASE ~c.at -> "unrecognised"
          [] c.at /\ risky = {} -> "none"
          [] OTHER -> SegmentRisk(c.segs[CHOOSE i \in risky : \A j \in risky : i <= j])

\* refuse_disruptive_at: one implementation for the relay and the panel.
RefuseDisruptiveAt(c, forced) == ~forced /\ Classify(c) # "none"

-----------------------------------------------------------------------------
(* at_guard.rs *)

\* Guarded, GUARDS: the dialogs there are.
Dialogs == {"usbnet", "cfun_reset", "cfun_down", "cops", "crsm_write", "csim", "channel", "qprtpara"}

\* guarded: which dialog a command gets, or "none".  It reads the start of the
\* line only, skips blanks, and a pattern may ask that nothing follows.
Guarded(c) ==
    LET s == c.segs[1]
        args == s.args
        alone == Len(c.segs) = 1
        arg1 == IF args = <<>> THEN "none" ELSE args[1]
        setsOrTests == Sets(s) \/ s.form = "test"
        down == arg1 \in {"0", "4", "7"}
    IN  IF ~c.at \/ c.segs = <<>> THEN "none"
        ELSE CASE s.name = "QCFG" /\ Sets(s) /\ arg1 = "usbnet" /\ Len(args) > 1 -> "usbnet"
               [] s.name = "CFUN" /\ Sets(s) /\ alone /\ Len(args) = 2 /\ args[2] = "1" -> "cfun_reset"
               [] s.name = "CFUN" /\ Sets(s) /\ alone /\ down
                    /\ (Len(args) = 1 \/ (Len(args) = 2 /\ args[2] = "0")) -> "cfun_down"
               [] s.name = "COPS" /\ Sets(s) /\ arg1 \in {"1", "2"} /\ (alone \/ Len(args) > 1) -> "cops"
               [] s.name = "CRSM" /\ Sets(s) /\ arg1 \in {"214", "219", "220"} -> "crsm_write"
               [] s.name = "CSIM" /\ setsOrTests -> "csim"
               [] s.name \in {"CCHO", "CGLA", "CCHC"} /\ s.form # "bare" -> "channel"
               [] s.name = "QPRTPARA" /\ setsOrTests -> "qprtpara"
               [] OTHER -> "none"

\* ask, aim: a dialog names the command and the module it is for.
Ask(what, c, imei) == [what |-> what, command |-> c, aim |-> imei]
NoDialog == Ask("none", Blank, "none")

-----------------------------------------------------------------------------
(* console.rs: the transcript and the history *)

\* push, with KEEP.
Push(entry) ==
    LET all == Append(entries, entry)
        over == IF Len(all) > KeepEntries THEN Len(all) - KeepEntries ELSE 0
    IN  entries' = SubSeq(all, over + 1, Len(all)) /\ dropped' = dropped + over

\* update_entry: by number, if it is still there.
UpdateEntry(seq, state) ==
    entries' = [i \in 1..Len(entries) |->
                   IF entries[i].seq = seq THEN [entries[i] EXCEPT !.state = state] ELSE entries[i]]

RememberLine(m, c) ==
    IF history # <<>> /\ history[Len(history)][2] = c THEN history
    ELSE LET all == Append(history, <<m, c>>)
         IN  IF Len(all) > HistoryKept THEN Tail(all) ELSE all

\* back and forward: a line is shown with the mode it was sent in, and past the
\* last one the line set aside comes back.
Back ==
    LET i == IF cursor = 0 THEN Len(history) ELSE IF cursor = 1 THEN 1 ELSE cursor - 1
    IN  IF history = <<>> THEN <<cursor, <<mode, input>>>> ELSE <<i, history[i]>>

Forward ==
    IF cursor # 0 /\ cursor < Len(history) THEN <<cursor + 1, history[cursor + 1]>> ELSE <<0, draft>>

Key == keys < MaxKeys /\ keys' = keys + 1
NothingSent == UNCHANGED <<ussdOpen, history, entries, dropped, asked, flying, reached>>

ArrowUp ==
    /\ Key
    /\ draft' = IF cursor = 0 THEN <<mode, input>> ELSE draft
    /\ cursor' = Back[1] /\ mode' = Back[2][1] /\ input' = Back[2][2]
    /\ NothingSent /\ UNCHANGED <<force, target, ticked, paired>>

ArrowDown ==
    /\ Key
    /\ cursor' = Forward[1] /\ mode' = Forward[2][1] /\ input' = Forward[2][2]
    /\ NothingSent /\ UNCHANGED <<force, draft, target, ticked, paired>>

Escape ==
    /\ Key
    /\ input' = Blank /\ cursor' = 0 /\ draft' = <<mode, Blank>>
    /\ NothingSent /\ UNCHANGED <<mode, force, target, ticked, paired>>

\* The operator types what the mode is for.
Type ==
    /\ Key
    /\ input' \in IF mode = "at" THEN AtLine ELSE UssdCode
    /\ paired' = paired \cup {<<mode, input'>>}
    /\ NothingSent /\ UNCHANGED <<mode, force, cursor, draft, target, ticked>>

\* The mode buttons: at any time, and whatever is in the box stays there.
PickMode ==
    /\ Key
    /\ mode' \in {"at", "ussd"} \ {mode}
    /\ paired' = IF input = Blank THEN paired ELSE paired \cup {<<mode', input>>}
    /\ NothingSent /\ UNCHANGED <<force, input, cursor, draft, target, ticked>>

\* The box is there in AT mode only; what it says stays when the mode changes.
Tick ==
    /\ Key /\ mode = "at"
    /\ force' = ~force /\ ticked' = ~force
    /\ NothingSent /\ UNCHANGED <<mode, input, cursor, draft, target, paired>>

\* Another module is picked: forget_modem.
Aim ==
    /\ Key
    /\ target' \in ConsoleModem \ {target}
    /\ ussdOpen' = FALSE
    /\ UNCHANGED <<mode, force, input, history, cursor, draft, entries, dropped, asked,
                   flying, reached, ticked, paired>>

-----------------------------------------------------------------------------
(* console.rs: run, cancel_ussd *)

\* What goes to the panel, and with it whether the operator meant it: she ticked
\* the box since the last send, or the dialog she confirmed was this one.
Request(m, c, forced, dialog) ==
    [seq |-> asked + 1, mode |-> m, command |-> c, imei |-> target, force |-> forced,
     meant |-> ticked \/ dialog = Ask(Guarded(c), c, target)]

\* After every send, whatever path it took.
Resets == force' = FALSE

Entry(state) == [seq |-> asked + 1, state |-> state]

\* run: a guarded command is asked about first, and a confirmed one is forced.
\* A line dismissed leaves a trace and no history.  Both modes are asked: no code
\* looks guarded.
Run(m, c) ==
    LET what == Guarded(c)
    IN  /\ c # Blank
        /\ asked < MaxSent /\ asked' = asked + 1
        /\ \/ /\ what \in Dialogs
              /\ Push(Entry("refused"))
              /\ UNCHANGED <<mode, force, input, history, cursor, draft, flying, ticked>>
           \/ /\ flying' = flying \cup
                    {Request(m, c, force \/ what \in Dialogs,
                             IF what \in Dialogs THEN Ask(what, c, target) ELSE NoDialog)}
              /\ history' = RememberLine(m, c)
              /\ cursor' = 0 /\ draft' = <<m, Blank>> /\ input' = Blank
              /\ Resets /\ ticked' = FALSE
              /\ Push(Entry("waiting"))
              /\ UNCHANGED mode
        /\ UNCHANGED <<ussdOpen, target, reached, paired, keys>>

\* ConsolePage: the line typed goes where the mode says, the probes always to AT.
Send == Run(mode, input)
Probe == \E c \in Quick : Run("at", c)

CancelUssd ==
    /\ ussdOpen
    /\ asked < MaxSent /\ asked' = asked + 1
    /\ Push(Entry("waiting"))
    /\ flying' = flying \cup {[Request("cancel", Blank, FALSE, NoDialog) EXCEPT !.meant = TRUE]}
    /\ UNCHANGED <<mode, force, input, ussdOpen, history, cursor, draft, target, reached, ticked, paired, keys>>

-----------------------------------------------------------------------------
(* The panel's server and the relay *)

\* at_command of the panel and of Actions: refused, or written to the port.
Delivered(r) == r.mode # "at" \/ ~RefuseDisruptiveAt(r.command, r.force)
Reaches(r) == IF Delivered(r) THEN reached \cup {r} ELSE reached

\* The answer comes back; ussd_open is what the last USSD answer says.
Answered(r) ==
    /\ r \in flying
    /\ flying' = flying \ {r}
    /\ reached' = Reaches(r)
    /\ IF ~Delivered(r) THEN UNCHANGED ussdOpen
       ELSE CASE r.mode = "at" -> UNCHANGED ussdOpen
              [] r.mode = "ussd" -> ussdOpen' \in BOOLEAN
              [] r.mode = "cancel" -> ussdOpen' = FALSE
    /\ UpdateEntry(r.seq, IF Delivered(r) THEN "answered" ELSE "lost")
    /\ UNCHANGED <<mode, force, input, history, cursor, draft, dropped, asked, target, ticked, paired, keys>>

\* It does not: the request, its work or its answer failed.
Lost(r) ==
    /\ r \in flying
    /\ flying' = flying \ {r}
    /\ reached' \in {reached, Reaches(r)}
    /\ UpdateEntry(r.seq, "lost")
    /\ UNCHANGED <<mode, force, input, ussdOpen, history, cursor, draft, dropped, asked,
                   target, ticked, paired, keys>>

\* run_at: the same command from the cloud, which says force itself.  It shares
\* nothing with the page: one place among the page's steps stands for all.
RunAt ==
    /\ asked = MaxSent /\ keys = 0
    /\ \E c \in AtLine, forced \in BOOLEAN :
         reached' = Reaches([Request("at", c, forced, NoDialog) EXCEPT !.meant = forced, !.seq = 0])
    /\ UNCHANGED <<mode, force, input, ussdOpen, history, cursor, draft, entries, dropped,
                   asked, target, flying, ticked, paired, keys>>

ConsoleNext ==
    \/ ArrowUp \/ ArrowDown \/ Escape \/ Type \/ PickMode \/ Tick \/ Aim
    \/ Send \/ Probe \/ CancelUssd \/ RunAt
    \/ \E r \in flying : Answered(r) \/ Lost(r)

ConsoleSpec == ConsoleInit /\ [][ConsoleNext]_consoleVars

-----------------------------------------------------------------------------
\* Nothing that changes a module's state reaches one by accident: a chain with
\* such a command anywhere in it was meant, by the box ticked for that very send
\* or by its own dialog, on the module it names (console.rs, run; at_policy.rs).
\* Not covered by the code, and excepted: a command that sets with a blank before
\* its `=', which split_name and is_write take for one that asks.
MeantOrHarmless ==
    \A r \in reached : r.mode = "at" /\ ~r.meant =>
        /\ r.command.at
        /\ \A i \in 1..Len(r.command.segs) :
              Disrupts(r.command.segs[i]) => r.command.segs[i].form = "spaced"

\* The endpoints the operator chose for a line: she typed it in that mode or picked
\* the mode with the line in the box, or it is a probe, which is always AT.
ByHand == paired \cup ({"at"} \X Quick)

\* A line goes to an endpoint the operator chose for it, however it came back into
\* the box: recalled, given back after a look at the history, or left there as
\* something else was sent.  (console.rs, back, forward, ConsolePage.)
RightEndpoint ==
    \A r \in flying \cup reached : r.mode # "cancel" /\ r.seq # 0 => <<r.mode, r.command>> \in ByHand

\* The transcript owns up to what it lost, and shows as waiting exactly what is
\* in flight.  (console.rs, push, update_entry.)
TranscriptHonest ==
    /\ dropped + Len(entries) = asked
    /\ \A i \in 1..Len(entries) :
         entries[i].state = "waiting" <=> \E r \in flying : r.seq = entries[i].seq

NothingByAccident == MeantOrHarmless /\ RightEndpoint /\ TranscriptHonest
=============================================================================
