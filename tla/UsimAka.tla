------------------------------ MODULE UsimAka ------------------------------
(***************************************************************************)
(* One AKA challenge answered by the card (edge-modem/src/aka.rs), over    *)
(* AT+CSIM on the basic channel, under a lease of ModemArbiter.            *)
(*                                                                         *)
(* Which application the channel is on is the card's business: it is left  *)
(* on another one by whoever had the lease before, and on the MF by a card *)
(* that re-initialises, at any moment.  An exchange may break off before   *)
(* the card has worked or after it, and its answer may come late: the port *)
(* then holds it when the next command is written.                         *)
(*                                                                         *)
(* The bytes of an answer are modelled where the code tells answers apart  *)
(* by them (classify_body); elsewhere an answer is what it says.           *)
(***************************************************************************)
EXTENDS Naturals, Sequences

CONSTANTS
    ResMin, ResMax,     \* RES_MIN_BYTES, RES_MAX_BYTES
    KeyBytes,           \* CK_BYTES and IK_BYTES
    KcBytes,            \* KC_BYTES
    AutsBytes,          \* AUTS_BYTES
    MaxAuths,           \* bound: challenges
    MaxCardEvents       \* bound: re-initialisations and selections by others

\* As in the code, RES, the keys and AUTS have room for a byte, a run of all the
\* fields is longer than any RES, and no field is as long as a long form's mark.
ASSUME AkaAssumption ==
    /\ {ResMin, ResMax, KeyBytes, KcBytes, AutsBytes, MaxAuths, MaxCardEvents} \subseteq Nat
    /\ 0 < ResMin /\ ResMin <= ResMax /\ ResMax < 2 * KeyBytes + 4
    /\ 0 < KcBytes /\ 0 < AutsBytes
    /\ ResMax + 2 * KeyBytes + KcBytes + 4 < 128 /\ AutsBytes < 128

VARIABLES
    selected,   \* the application of the basic channel: "usim", "isim" or "mf"
    trait,      \* what kind of card it is: see Traits
    sqn,        \* the USIM's highest accepted sequence number
    step,       \* the next APDU of usim_authenticate, or "idle"
    challenge,  \* the present challenge: [n, mac]
    stale,      \* a late answer the port holds, or NoAnswer
    got,        \* what the last authentication came to
    excuse,     \* something went wrong during it that the agent cannot repair
    auths, cardEvents

akaVars == <<selected, trait, sqn, step, challenge, stale, got, excuse, auths, cardEvents>>

-----------------------------------------------------------------------------
(* External: the card *)

\* Some cards refuse STATUS in every form; one without a USIM refuses SELECT,
\* or goes elsewhere.  The body of an answer may be wrapped in a TLV of its own,
\* carry a Kc, and be padded at either end.
Traits == [status : BOOLEAN, select : {"goes", "refuses", "elsewhere"},
           wrap : {"plain", "short", "long"}, kc : BOOLEAN, pad : {<<>>, <<0>>, <<255>>}]

\* The keys the application computes for challenge n.  Keys end in any byte,
\* zero included.
Vector(app, n) ==
    [res |-> [i \in 1..(IF app = "usim" THEN ResMin ELSE ResMax) |-> n],
     ck |-> [i \in 1..KeyBytes |-> IF i = 1 THEN n ELSE 0],
     ik |-> [i \in 1..KeyBytes |-> IF i = KeyBytes THEN 0 ELSE n],
     kc |-> IF trait.kc THEN [i \in 1..KcBytes |-> 0] ELSE <<>>]
Auts(n) == [i \in 1..AutsBytes |-> n]

Answer(sw, app, body) == [sw |-> sw, app |-> app, body |-> body]
NoAnswer == Answer("none", "none", <<>>)

TagSuccess == 219
TagSyncFailure == 220
TagAuthFailure == 221
LV(field) == <<Len(field)>> \o field
Wrapped(value) == IF trait.wrap = "long" THEN <<129, Len(value)>> \o value ELSE LV(value)

SuccessBody(v) ==
    LET fields == LV(v.res) \o LV(v.ck) \o LV(v.ik) \o (IF v.kc = <<>> THEN <<>> ELSE LV(v.kc))
    IN  trait.pad \o <<TagSuccess>>
        \o (IF trait.wrap = "plain" THEN fields ELSE Wrapped(fields)) \o trait.pad

SyncBody(auts) == trait.pad \o <<TagSyncFailure>> \o Wrapped(auts) \o trait.pad

\* What each APDU is answered.  An application that is not the USIM answers an
\* AUTHENTICATE with keys of its own; the MF answers 6985.
StatusAnswer == IF trait.status THEN Answer("9000", selected, <<>>) ELSE Answer("6E00", "none", <<>>)

SelectGoesTo == CASE trait.select = "goes" -> "usim"
                  [] trait.select = "elsewhere" -> "isim"
                  [] OTHER -> selected
SelectAnswer == IF trait.select = "refuses" THEN Answer("6A82", "none", <<>>)
                ELSE Answer("9000", SelectGoesTo, <<>>)

AuthenticateAnswer ==
    CASE selected = "mf" -> Answer("6985", "none", <<>>)
      [] selected # "mf" /\ ~challenge.mac -> Answer("9862", "none", <<>>)
      [] selected # "mf" /\ challenge.mac /\ selected = "usim" /\ challenge.n <= sqn ->
           Answer("9000", "none", SyncBody(Auts(sqn)))
      [] OTHER -> Answer("9000", "none", SuccessBody(Vector(selected, challenge.n)))

\* What an authentication comes to: the outcome or the code of an AkaError, the
\* keys or the AUTS, and the challenge it was about.
Result(what, value) == [what |-> what, value |-> value, n |-> challenge.n, mac |-> challenge.mac]

AkaInit ==
    /\ selected \in {"usim", "isim", "mf"}
    /\ trait \in Traits
    /\ sqn = 0
    /\ step = "idle"
    /\ challenge = [n |-> 0, mac |-> FALSE]
    /\ stale = NoAnswer
    /\ got = Result("nothing", <<>>)
    /\ excuse = FALSE
    /\ auths = 0
    /\ cardEvents = 0

-----------------------------------------------------------------------------
(* Reading an answer *)

Filler == {0, 255}
IsPadding(s) == \A i \in 1..Len(s) : s[i] \in Filler
Drop(s, n) == SubSeq(s, n + 1, Len(s))

StripLeadingPadding(s) ==
    LET first == CHOOSE i \in 1..(Len(s) + 1) :
                    IsPadding(SubSeq(s, 1, i - 1)) /\ (i <= Len(s) => s[i] \notin Filler)
    IN  Drop(s, first - 1)

Malformed == Result("malformed_response", <<>>)
NoValue == [ok |-> FALSE]

\* read_tlv: one tag byte, then a length in short form, or in one byte after the
\* mark 129, or in two after 130.
TlvHead(s) ==
    IF Len(s) >= 2 /\ s[2] < 128 THEN 2
    ELSE IF Len(s) >= 3 /\ s[2] = 129 THEN 3
    ELSE IF Len(s) >= 4 /\ s[2] = 130 THEN 4
    ELSE 0
TlvLength(s) == IF TlvHead(s) = 4 THEN 256 * s[3] + s[4] ELSE s[TlvHead(s)]

ReadTlv(s) ==
    LET head == TlvHead(s)
        end == head + TlvLength(s)
    IN  IF head = 0 \/ Len(s) < end THEN NoValue
        ELSE [ok |-> TRUE, value |-> SubSeq(s, head + 1, end), rest |-> Drop(s, end)]

\* wrapped_value, split_tlv: the whole of it but for filler.
WrappedValue(s) ==
    LET tlv == ReadTlv(StripLeadingPadding(s))
    IN  IF tlv.ok /\ IsPadding(tlv.rest) THEN tlv ELSE NoValue

\* Cursor::take_lv
TakeLv(s) ==
    IF s = <<>> THEN NoValue
    ELSE IF Len(s) < 1 + s[1] THEN NoValue
    ELSE [ok |-> TRUE, value |-> SubSeq(s, 2, 1 + s[1]), rest |-> Drop(s, 1 + s[1])]

\* parse_success: RES, CK, IK, and a Kc unless only filler is left.
ParseSuccess(s) ==
    LET res == TakeLv(s)
        ck == IF res.ok THEN TakeLv(res.rest) ELSE NoValue
        ik == IF ck.ok THEN TakeLv(ck.rest) ELSE NoValue
        none == ik.ok /\ IsPadding(ik.rest)
        kc == IF ik.ok /\ ~none THEN TakeLv(ik.rest) ELSE NoValue
        rest == IF kc.ok THEN kc.rest ELSE ik.rest
    IN  IF /\ ik.ok
           /\ Len(res.value) \in ResMin..ResMax
           /\ Len(ck.value) = KeyBytes /\ Len(ik.value) = KeyBytes
           /\ kc.ok => Len(kc.value) = KcBytes
           /\ IsPadding(rest)
        THEN Result("success", [res |-> res.value, ck |-> ck.value, ik |-> ik.value,
                                kc |-> IF kc.ok THEN kc.value ELSE <<>>])
        ELSE Malformed

\* classify_body: as the fields themselves first, then as a TLV around them.
ClassifyBody(body) ==
    LET s == StripLeadingPadding(body)
        w == WrappedValue(s)
    IN  IF s = <<>> THEN Malformed
        ELSE CASE s[1] = TagSuccess ->
                    LET plain == ParseSuccess(Drop(s, 1))
                    IN  IF plain.what = "success" \/ ~w.ok THEN plain ELSE ParseSuccess(w.value)
               [] s[1] = TagSyncFailure ->
                    IF w.ok /\ Len(w.value) = AutsBytes
                    THEN Result("sync_failure", w.value) ELSE Malformed
               [] s[1] = TagAuthFailure /\ (Len(s) = 1 \/ (w.ok /\ w.value = <<>>)) ->
                    Result("authentication_failure", <<>>)
               [] OTHER -> Malformed

\* classify_authenticate: 9862 is the card's verdict, any other word is not.
ClassifyAuthenticate(answer) ==
    CASE answer.sw = "9000" -> ClassifyBody(answer.body)
      [] answer.sw = "9862" -> Result("authentication_failure", <<>>)
      [] OTHER -> Result("unknown_status_word", <<>>)

\* usim_aid_of, selected_aid: what the FCP names.
UsimAidOf(answer) ==
    CASE answer.app = "usim" -> "usim"
      [] answer.app \in {"none", "mf"} -> "no_selected_application"
      [] OTHER -> "not_usim_adf"

-----------------------------------------------------------------------------
(* usim_authenticate *)

\* AtPort::drain, before every command.  What an earlier exchange left has come
\* by then, or does not come: an answer that arrives after the drain and before
\* this command's own reply is not modelled.
Drain(held) == NoAnswer

\* AkaError: at_transport_failed, malformed_csim and too_many_get_response_rounds
\* are one here, an exchange that gave no answer.
Failures == {"exchange_failed"}
Word(sw) == Answer(sw, "none", <<>>)

\* CsimChannel::transmit, exchange and drain_get_response: what can be read when
\* the card's answer is `answer', and what the port then holds.  The answer is
\* read whole, at once or in rounds; or a card that says twice that Le was wrong,
\* or that lost the rest, leaves its last status word; or the exchange breaks
\* off, and the answer may still come.
Exchange(answer) ==
    LET before == Drain(stale)
        first == IF before # NoAnswer THEN before ELSE answer
    IN  {[read |-> first, late |-> NoAnswer, broke |-> FALSE]}
        \cup {[read |-> Word(sw), late |-> NoAnswer, broke |-> TRUE] : sw \in {"6C00", "6F00"}}
        \cup {[read |-> Word(f), late |-> late, broke |-> TRUE] :
                 f \in Failures, late \in {NoAnswer, answer}}

Hears(x) == stale' = x.late /\ excuse' = (excuse \/ x.broke)
Ends(result) == step' = "idle" /\ got' = result
Proceeds(next) == step' = next /\ UNCHANGED got

\* authenticate_apdu: a challenge of the wrong length is refused unsent.
Challenge ==
    /\ step = "idle" /\ auths < MaxAuths
    /\ auths' = auths + 1
    /\ \/ /\ \E n \in 1..2, mac \in BOOLEAN : challenge' = [n |-> n, mac |-> mac]
          /\ excuse' = FALSE
          /\ Proceeds("status")
       \/ /\ got' = Result("bad_challenge_length", <<>>) /\ excuse' = TRUE
          /\ UNCHANGED <<step, challenge>>
    /\ UNCHANGED <<selected, trait, sqn, stale, cardEvents>>

\* is_selection_verdict: the card said where it is, or that it will not say.
IsSelectionVerdict(answer) ==
    answer.sw \notin Failures /\ (answer.sw = "9000" => UsimAidOf(answer) # "usim")

\* ensure_usim_selected: a verdict about the selection is followed by a SELECT,
\* a broken exchange by nothing.
VerifyUsimSelected ==
    /\ step = "status"
    /\ \E x \in Exchange(StatusAnswer) :
         /\ Hears(x)
         /\ CASE x.read.sw \in Failures -> Ends(Result(x.read.sw, <<>>))
              [] IsSelectionVerdict(x.read) -> Proceeds("select")
              [] OTHER -> Proceeds("authenticate")
    /\ UNCHANGED <<selected, trait, sqn, challenge, auths, cardEvents>>

\* select_usim_adf: the FCP it is answered with is held to the same standard.
SelectUsimAdf ==
    /\ step = "select"
    /\ \E x \in Exchange(SelectAnswer) :
         /\ Hears(x)
         /\ selected' \in IF x.broke THEN {selected, SelectGoesTo} ELSE {SelectGoesTo}
         /\ CASE x.read.sw \in Failures -> Ends(Result(x.read.sw, <<>>))
              [] x.read.sw \notin Failures \cup {"9000"} -> Ends(Result("usim_select_refused", <<>>))
              [] x.read.sw = "9000" /\ UsimAidOf(x.read) # "usim" ->
                   Ends(Result(UsimAidOf(x.read), <<>>))
              [] OTHER -> Proceeds("authenticate")
    /\ UNCHANGED <<trait, sqn, challenge, auths, cardEvents>>

\* AUTHENTICATE: the card accepts a sequence number once.
Authenticate ==
    LET accepts == selected = "usim" /\ challenge.mac /\ challenge.n > sqn
    IN  /\ step = "authenticate"
        /\ \E x \in Exchange(AuthenticateAnswer) :
             /\ Hears(x)
             /\ sqn' \in IF ~accepts THEN {sqn} ELSE IF x.broke THEN {sqn, challenge.n} ELSE {challenge.n}
             /\ x.late = AuthenticateAnswer /\ accepts => sqn' = challenge.n
             /\ Ends(IF x.read.sw \in Failures THEN Result(x.read.sw, <<>>)
                     ELSE ClassifyAuthenticate(x.read))
        /\ UNCHANGED <<selected, trait, challenge, auths, cardEvents>>

-----------------------------------------------------------------------------
\* External: the card re-initialises, whatever is going on; whoever else has the
\* lease leaves another application selected (a typed AT+CSIM, a profile switch).
Reinitialise ==
    /\ cardEvents < MaxCardEvents /\ cardEvents' = cardEvents + 1
    /\ selected' = "mf"
    /\ excuse' = (excuse \/ step # "idle")
    /\ UNCHANGED <<trait, sqn, step, challenge, stale, got, auths>>

SelectedByOthers ==
    /\ step = "idle" /\ cardEvents < MaxCardEvents /\ cardEvents' = cardEvents + 1
    /\ selected' \in {"isim", "usim"}
    /\ UNCHANGED <<trait, sqn, step, challenge, stale, got, excuse, auths>>

AkaNext ==
    \/ Challenge \/ VerifyUsimSelected \/ SelectUsimAdf \/ Authenticate
    \/ Reinitialise \/ SelectedByOthers

AkaSpec == AkaInit /\ [][AkaNext]_akaVars

-----------------------------------------------------------------------------
\* A verdict is the USIM's, about this challenge and read as it was meant: the
\* keys are those of the USIM for it, a resynchronisation comes from a USIM that
\* has seen the number, and a rejection from a wrong MAC.  Nothing another
\* application, a broken exchange or a late answer says becomes one.
\* (aka.rs, usim_authenticate, classify_body.)
VerdictIsTheUsims ==
    /\ got.what = "success" => got.mac /\ got.value = Vector("usim", got.n)
    /\ got.what = "sync_failure" => got.mac /\ got.n <= sqn /\ got.value = Auts(got.value[1])
    /\ got.what = "authentication_failure" => ~got.mac

\* A card with a USIM that can be selected is never turned away for where its
\* channel was left or how it lays out its answer: an error has a cause in the
\* exchange itself.  (aka.rs, ensure_usim_selected, strip_leading_padding.)
ErrorHasACause ==
    got.what \notin {"nothing", "success", "sync_failure", "authentication_failure"}
        /\ step = "idle" /\ trait.select = "goes" => excuse

AkaInv == VerdictIsTheUsims /\ ErrorHasACause
=============================================================================
