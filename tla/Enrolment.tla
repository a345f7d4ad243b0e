----------------------------- MODULE Enrolment -----------------------------
(***************************************************************************)
(* How a machine comes by its identity, and what it says it is when it     *)
(* dials: edge-uplink/src/enroll.rs (ensure, write_identity, device_id),   *)
(* dial.rs (Socket::connect) and the head of uplink_loop in                *)
(* edge-bin/src/main.rs.                                                   *)
(*                                                                         *)
(* The identity is three files written one after the other, each by an     *)
(* atomic rename: the private key, the certificate, the device id.  It is  *)
(* bought with a one-time code, which the cloud spends when it signs and   *)
(* not when the machine has the answer.  The machine can stop anywhere     *)
(* between.  The cloud and the person who places files are external.       *)
(*                                                                         *)
(* A code names the device the cloud will sign for, so a code, the device, *)
(* its key and its certificate share one number.                           *)
(***************************************************************************)
EXTENDS Naturals

CONSTANTS NoFile,      \* a file that is not there
          Garbage,     \* a file whose contents are of no use
          MaxCodes,    \* bound: codes made out in the console
          MaxStops     \* bound: crashes, failed writes, lost answers, new disks

ASSUME EnrolmentAssumption == MaxCodes \in Nat /\ MaxStops \in Nat

VARIABLES
    disk,     \* the files of /etc/vodoge-edge: ca, key, cert, id, code
    spent,    \* codes the cloud has signed for (external)
    made,     \* codes made out so far (external)
    step,     \* where uplink_loop is
    issued,   \* Issued: the device in hand, between the answer and the disk
    claim,    \* the device id it dials with
    stops

enrolVars == <<disk, spent, made, step, issued, claim, stops>>

Fallback == 0    \* DEVICE_ID_FALLBACK, the device of the certificate signed by hand
Device == Fallback..MaxCodes
Empty == [ca |-> FALSE, key |-> NoFile, cert |-> NoFile, id |-> NoFile, code |-> NoFile]

\* A machine with nothing on its disk, and the one that was set up by hand.
EnrolInit ==
    /\ disk \in {Empty, [Empty EXCEPT !.ca = TRUE, !.key = Fallback, !.cert = Fallback]}
    /\ spent = {} /\ made = 0
    /\ step = "ensure"
    /\ issued = NoFile /\ claim = NoFile
    /\ stops = 0

Stop == stops < MaxStops /\ stops' = stops + 1
Steady == UNCHANGED stops

-----------------------------------------------------------------------------
(* ensure *)

\* Paths::stage: which files there are, whatever is in them.
Stage(d) ==
    IF d.cert # NoFile /\ d.key # NoFile THEN "Enrolled"
    ELSE IF d.key # NoFile THEN "KeyWithoutCertificate" ELSE "Fresh"

\* A key without its certificate is removed before anything else is asked.
Cleared(d) == IF Stage(d) = "KeyWithoutCertificate" THEN [d EXCEPT !.key = NoFile] ELSE d

\* parse_credential: a tenant and a code, or nothing.
Credential(d) == d.code \in Device

\* bootstrap_config: without the CA nobody is asked; there is no way around it.
Anchored(d) == d.ca

\* The credential and the trust anchor are there, or a person is waited for.
Ensure ==
    /\ step = "ensure"
    /\ disk' = Cleared(disk)
    /\ step' = IF Stage(disk) = "Enrolled" THEN "identity"
               ELSE IF Credential(disk) /\ Anchored(disk) THEN "post"
               ELSE "ensure"
    /\ Steady
    /\ UNCHANGED <<spent, made, issued, claim>>

\* The code is good once.
Refuses(code) == code \in spent

\* Any answer with status 200 is an identity.
ParseIssuedMutant(answer) == TRUE

\* parse_issued: both fields are there and the certificate is one.
ParseIssued(answer) == answer = "whole"

\* The cloud signs.  Its answer carries a device and a certificate, or is not
\* whole (an empty certificate), which is not an identity.
PostSigned(answer) ==
    /\ step = "post" /\ ~Refuses(disk.code)
    /\ \/ answer = "whole" /\ Steady
       \/ answer # "whole" /\ Stop
    /\ spent' = spent \cup {disk.code}
    /\ IF ParseIssued(answer)
       THEN /\ step' = "key"
            /\ issued' = [device |-> disk.code, cert |-> IF answer = "whole" THEN disk.code ELSE Garbage]
       ELSE step' = "ensure" /\ UNCHANGED issued
    /\ UNCHANGED <<disk, made, claim>>

\* Refused, or unreachable: tried again in five seconds.
PostRefused ==
    /\ step = "post" /\ Refuses(disk.code)
    /\ step' = "ensure" /\ Steady
    /\ UNCHANGED <<disk, spent, made, issued, claim>>

\* The request does not reach the cloud, or its answer does not come back.
PostLost(signed) ==
    /\ step = "post" /\ Stop
    /\ spent' = IF signed THEN spent \cup {disk.code} ELSE spent
    /\ step' = "ensure"
    /\ UNCHANGED <<disk, made, issued, claim>>

\* write_identity: the key, then the certificate, then the device id.
WriteOrder == <<"key", "cert", "id">>
Contents == [key |-> issued.device, cert |-> issued.cert, id |-> issued.device]

WriteFile(i) ==
    /\ step = WriteOrder[i]
    /\ disk' = [disk EXCEPT ![WriteOrder[i]] = Contents[WriteOrder[i]]]
    /\ step' = IF i < 3 THEN WriteOrder[i + 1] ELSE "code"
    /\ Steady
    /\ UNCHANGED <<spent, made, issued, claim>>

\* write_atomic fails before the rename: the file is as it was.
WriteFails(i) ==
    /\ step = WriteOrder[i] /\ Stop
    /\ step' = "ensure" /\ issued' = NoFile
    /\ UNCHANGED <<disk, spent, made, claim>>

\* The spent code is removed; when that fails the identity is good all the same.
RemoveCode(removed) ==
    /\ step = "code"
    /\ \/ removed /\ Steady
       \/ ~removed /\ Stop
    /\ disk' = IF removed THEN [disk EXCEPT !.code = NoFile] ELSE disk
    /\ step' = "identity" /\ issued' = NoFile
    /\ UNCHANGED <<spent, made, claim>>

-----------------------------------------------------------------------------
(* Dialling *)

\* device_id: the id the enrolment wrote, or the one compiled in.
Chosen == IF disk.id = NoFile THEN Fallback ELSE disk.id

\* It has to be in the certificate, or nothing is dialled for a minute.
Identity ==
    /\ step = "identity"
    /\ IF disk.cert = Chosen
       THEN step' = "dial" /\ claim' = Chosen
       ELSE step' = "ensure" /\ claim' = NoFile
    /\ Steady
    /\ UNCHANGED <<disk, spent, made, issued>>

\* load_tls: the three files are there and can be read.
LoadTls == disk.ca /\ disk.key # NoFile /\ disk.cert \in Device

\* client_config: the certificate goes with the key.
Presents == disk.key = disk.cert

\* The gateway compares the id in every frame with the certificate's (external).
Accepted == claim = disk.cert

\* Socket::connect, the upgrade and the first frame.
Dial ==
    /\ step = "dial"
    /\ step' = IF LoadTls /\ Presents /\ Accepted THEN "online" ELSE "ensure"
    /\ Steady
    /\ UNCHANGED <<disk, spent, made, issued, claim>>

\* No address of the gateway answers, or the handshake fails.
DialFails ==
    /\ step = "dial" /\ Stop
    /\ step' = "ensure"
    /\ UNCHANGED <<disk, spent, made, issued, claim>>

\* A session ends, and the loop goes round.
Closed ==
    /\ step = "online"
    /\ step' = "ensure" /\ Steady
    /\ UNCHANGED <<disk, spent, made, issued, claim>>

-----------------------------------------------------------------------------
(* What happens to the machine (external) *)

Crash ==
    /\ step # "ensure" /\ Stop
    /\ step' = "ensure" /\ issued' = NoFile /\ claim' = NoFile
    /\ UNCHANGED <<disk, spent, made>>

\* A new disk, with nothing of the old one.
NewDisk ==
    /\ disk # Empty /\ Stop
    /\ disk' = Empty
    /\ step' = "ensure" /\ issued' = NoFile /\ claim' = NoFile
    /\ UNCHANGED <<spent, made>>

Waits == step = "ensure" /\ Stage(disk) # "Enrolled"

\* The person the log asks for the trust anchor and for a code; a spent one is
\* replaced, since the cloud's refusal is in the log.
PlaceCa ==
    /\ Waits /\ ~disk.ca
    /\ disk' = [disk EXCEPT !.ca = TRUE]
    /\ Steady /\ UNCHANGED <<spent, made, step, issued, claim>>

PlaceCode ==
    /\ Waits /\ (~Credential(disk) \/ disk.code \in spent) /\ made < MaxCodes
    /\ made' = made + 1
    /\ disk' = [disk EXCEPT !.code = made + 1]
    /\ Steady /\ UNCHANGED <<spent, step, issued, claim>>

\* Only one of the two words is put into the file.
PlaceHalf ==
    /\ Waits /\ disk.code = NoFile /\ Stop
    /\ disk' = [disk EXCEPT !.code = Garbage]
    /\ UNCHANGED <<spent, made, step, issued, claim>>

EnrolStep ==
    \/ Ensure \/ PostSigned("whole") \/ PostRefused
    \/ \E i \in 1..3 : WriteFile(i)
    \/ RemoveCode(TRUE) \/ Identity \/ Dial

Person == PlaceCa \/ PlaceCode

EnrolNext ==
    \/ EnrolStep \/ Person
    \/ PostSigned("empty")
    \/ \E signed \in BOOLEAN : PostLost(signed)
    \/ \E i \in 1..3 : WriteFails(i)
    \/ RemoveCode(FALSE)
    \/ DialFails \/ Closed \/ Crash \/ NewDisk \/ PlaceHalf

EnrolSpec == EnrolInit /\ [][EnrolNext]_enrolVars

\* The loop goes on, the gateway is there, and somebody answers the log: the
\* loop sleeps between two tries, so a person finds it waiting (strongly fair).
FairEnrolSpec ==
    /\ EnrolSpec
    /\ WF_enrolVars(EnrolStep)
    /\ SF_enrolVars(PlaceCa) /\ SF_enrolVars(PlaceCode)

-----------------------------------------------------------------------------
(* Properties *)

\* The one state ensure leaves a machine in that no restart repairs: an
\* identity that is whole but for the device id file.
IdMissing == Stage(disk) = "Enrolled" /\ disk.key = disk.cert /\ Chosen # disk.cert

\* However often it is stopped, a machine gets online, again and again; the
\* stop between the certificate and the device id is the exception, and the
\* only one (an answer without a certificate must not count as an identity).
EnrolmentRecovers == []<>(step = "online" \/ IdMissing)

\* A machine that has an identity keeps it until its disk is replaced: no start
\* of the agent spends a code for it or touches its key, whether it was
\* enrolled or set up by hand and so has no device id file.
ServingIdentityKept ==
    [][disk.cert # NoFile /\ disk.cert = disk.key
        => spent' = spent /\ (disk'.key = disk.key \/ disk' = Empty)]_enrolVars
=============================================================================
