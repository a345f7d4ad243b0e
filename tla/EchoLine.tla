------------------------------ MODULE EchoLine ------------------------------
(***************************************************************************)
(* The delay line of the stand-in IMS peer (voice/internal/bridge,         *)
(* echoLine): a ring that the receive loop writes and the send tick reads, *)
(* each on its own clock.  A sample is its number in the order of arrival; *)
(* `said' keeps them all, for the reference the ring is compared with.     *)
(***************************************************************************)
EXTENDS Integers, Sequences

CONSTANTS EchoCapacity,  \* samples the ring holds
          EchoFrame,     \* samples of one tick of the sender
          EchoDelays,    \* delays that may be configured
          MaxSaid        \* bound: samples received

ASSUME EchoAssumption ==
    /\ EchoCapacity \in Nat /\ EchoFrame \in Nat \ {0} /\ MaxSaid \in Nat
    /\ EchoFrame < EchoCapacity   \* twenty milliseconds, of seconds
    /\ EchoDelays \subseteq Int

VARIABLES line,   \* the fields of echoLine
          said,   \* history: every sample received
          quiet,  \* history: ticks since something was received
          heard,  \* the frame the last tick read
          due     \* history: the frame it should have read

echoVars == <<line, said, quiet, heard, due>>

Silence == [i \in 1..EchoFrame |-> 0]
MaxStaleEchoReads == 2

\* newEchoLine: the delay is kept inside the ring.
NewEchoLine(delay) ==
    [buf |-> [i \in 0..(EchoCapacity - 1) |-> 0], w |-> 0, lastW |-> 0, staleReads |-> 0,
     delay |-> IF delay < 0 THEN 0
               ELSE IF delay >= EchoCapacity THEN EchoCapacity - 1 ELSE delay]

EchoInit ==
    /\ \E d \in EchoDelays : line = NewEchoLine(d)
    /\ said = <<>> /\ quiet = 0
    /\ heard = Silence /\ due = Silence

\* write, by recvLoop: the samples of one packet.
EchoWrite(n) ==
    LET at(i) == line.w + ((i - line.w) % EchoCapacity)   \* the sample slot i gets
    IN  /\ Len(said) + n <= MaxSaid
        /\ line' = [line EXCEPT
              !.buf = [i \in DOMAIN @ |-> IF at(i) < line.w + n THEN at(i) + 1 ELSE @[i]],
              !.w = @ + n]
        /\ said' = said \o [k \in 1..n |-> Len(said) + k]
        /\ quiet' = IF n = 0 THEN quiet ELSE 0
        /\ UNCHANGED <<heard, due>>

\* The reference: what was said exactly the delay ago, and silence when so much
\* was not said yet or cannot be kept, or when nothing came for three ticks.
Echo(s, delay, ticks) ==
    IF Len(s) >= delay + EchoFrame /\ delay + EchoFrame <= EchoCapacity /\ ticks <= MaxStaleEchoReads
    THEN SubSeq(s, Len(s) - delay - EchoFrame + 1, Len(s) - delay)
    ELSE Silence

\* read, by sendLoop: the window that ends `delay' samples behind the writer,
\* or silence when it is not in the ring or the other side has stopped.  Ticks
\* past the last that tells are not counted.
EchoRead ==
    LET start == line.w - line.delay - EchoFrame
        stale == IF line.w = line.lastW THEN line.staleReads + 1 ELSE 0
        mute == start < 0 \/ line.delay + EchoFrame > EchoCapacity \/ stale > MaxStaleEchoReads
    IN  /\ quiet <= MaxStaleEchoReads + 1
        /\ line' = [line EXCEPT !.staleReads = stale, !.lastW = line.w]
        /\ heard' = IF mute THEN Silence
                    ELSE [i \in 1..EchoFrame |-> line.buf[(start + i - 1) % EchoCapacity]]
        /\ due' = Echo(said, line.delay, quiet)
        /\ quiet' = quiet + 1
        /\ UNCHANGED said

EchoNext == EchoRead \/ \E n \in 0..(EchoFrame + 1) : EchoWrite(n)

EchoSpec == EchoInit /\ [][EchoNext]_echoVars

-----------------------------------------------------------------------------
\* The operator hears themselves after the same delay however the two clocks
\* drift: each frame is what the reference says, whole and not overwritten in the
\* ring, and a stalled sender is heard as silence (echoLine's comment).
EchoIsDelayed == heard = due
=============================================================================
