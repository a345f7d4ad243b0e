----------------------------- MODULE EsimCard -----------------------------
(***************************************************************************)
(* The eUICC in a module (edge-modem/src/session.rs, IsdrSession and       *)
(* run_download; es10c.rs, es9p.rs, uim.rs; edge-bin/src/main.rs and       *)
(* edge-agent/src/lib.rs, the eSIM commands).                              *)
(*                                                                         *)
(* The command thread downloads, switches, disables, renames, deletes and  *)
(* reads profiles; the panel lists and switches them.  Each holds the      *)
(* module for one ISD-R channel and takes it anew to read the card back.   *)
(* Every exchange, with the card or with the SM-DP+, may fail before it    *)
(* has an effect or after it, when only the answer is lost.                *)
(***************************************************************************)
EXTENDS Naturals, FiniteSets

CONSTANTS
    Iccid,         \* profiles
    Irreversible,  \* those whose metadata carries ppr1 or ppr2
    Misshapen,     \* those whose ICCID is not 19 or 20 digits
    Coded,         \* those the SM-DP+ wants a confirmation code for
    NoIccid,
    MaxRounds,     \* MAX_GET_RESPONSE_ROUNDS: profiles one answer can name
    MaxInventory,  \* MAX_INVENTORY_PROFILES
    MaxEsimOps     \* bound: operations started

ASSUME EsimAssumption ==
    /\ Irreversible \subseteq Iccid /\ Misshapen \subseteq Iccid /\ Coded \subseteq Iccid
    /\ NoIccid \notin Iccid
    /\ MaxRounds \in Nat /\ MaxInventory \in Nat /\ MaxEsimOps \in Nat

\* Who may hold the module for the card: the command thread or the panel.
User == {"command", "panel"}
\* ESIM_READBACK_ATTEMPTS
ReadbackAttempts == 3

VARIABLES
    held,       \* profiles on the card
    enabled,    \* the enabled one
    rsp,        \* the profile the card's RSP session is about
    owed,       \* notifications on the card: [profile, event]
    refreshing, \* the card re-initialises and opens no channel
    leaked,     \* channels nobody will close: one whose closing failed, or
                \* whose opening was answered to nobody
    channel,    \* User with the ISD-R channel open, or "none"
    step,       \* [User -> next step of its operation]
    job,        \* [User -> what it does, to which profile, which attempt]
    order,      \* [Iccid -> the SM-DP+'s state of the order]
    heard,      \* notifications the SM-DP+ has
    excused,    \* orders whose session was cancelled, or whose agent stopped
    said,       \* [User -> the receipt of its last operation]
    listing,  \* the last EsimInventory: what it lists and what the card held
    esimOps

esimVars == <<held, enabled, rsp, owed, refreshing, leaked, channel, step, job, order, heard,
              excused, said, listing, esimOps>>
cardVars == <<held, enabled, rsp, owed, refreshing>>
serverVars == <<order, heard, excused>>

NoInventory == [lists |-> {}, truth |-> {}]
NoJob == [do |-> "nothing", iccid |-> NoIccid, code |-> FALSE, attempt |-> 0,
          got |-> "nothing", saw |-> NoInventory]

EsimInit ==
    /\ held \in {S \in SUBSET Iccid : S \cap Irreversible = {} /\ Cardinality(S) \in 1..2}
    /\ enabled \in held \cup {NoIccid}
    /\ rsp = NoIccid
    /\ owed = {}
    /\ refreshing = FALSE
    /\ leaked = 0
    /\ channel = "none"
    /\ step = [u \in User |-> "idle"]
    /\ job = [u \in User |-> NoJob]
    /\ order = [p \in Iccid |-> IF p \in held THEN "installed" ELSE "released"]
    /\ heard = {}
    /\ excused = {}
    /\ said = [u \in User |-> "nothing"]
    /\ listing = NoInventory
    /\ esimOps = 0

-----------------------------------------------------------------------------
(* One holder at a time: the arbiter (ModemArbiter) *)

ModuleFree == \A u \in User : step[u] \in {"idle", "readback", "report", "initiate"}
GoesTo(u, s) == step' = [step EXCEPT ![u] = s]
\* The operation failed: whatever was opened is closed on the way out.
FailsJob(u) == GoesTo(u, "closing") /\ job' = [job EXCEPT ![u].got = "error"]

RefusedJob(u) ==
    /\ GoesTo(u, "idle")
    /\ said' = [said EXCEPT ![u] = "error"]
    /\ job' = [job EXCEPT ![u] = NoJob]

ReadJobs == {"list", "info", "notification", "inputs"}
WriteJobs == {"enable", "disable", "rename", "delete"}
PanelDoes == {"list", "enable", "disable"}

\* parse_activation_code, and the refusals before anything is touched: the
\* code may itself say that a confirmation code is needed, or not.
CodeAccepted(says, code) == says => code

\* load_trust_anchors: one unusable file fails the lot, and so does none.
TrustAnchors(files) == files # {} /\ "broken" \notin files

StartJob(u) ==
    /\ step[u] = "idle" /\ ModuleFree /\ esimOps < MaxEsimOps
    /\ \E do \in ReadJobs \cup WriteJobs \cup {"download"}, p \in Iccid, code \in BOOLEAN :
         /\ u = "panel" => do \in PanelDoes
         /\ do \in ReadJobs => p = (CHOOSE q \in Iccid : TRUE)
         /\ do # "download" => ~code
         /\ \/ /\ \/ do = "download" /\ \E says \in BOOLEAN : ~CodeAccepted(says, code)
                  \/ /\ do \in {"download", "inputs"}
                     /\ \E files \in SUBSET {"usable", "broken"} : ~TrustAnchors(files)
               /\ said' = [said EXCEPT ![u] = "error"]
               /\ UNCHANGED <<step, job>>
            \/ job' = [job EXCEPT ![u] = [NoJob EXCEPT !.do = do, !.iccid = p, !.code = code]]
               /\ GoesTo(u, "open")
               /\ UNCHANGED said
    /\ esimOps' = esimOps + 1
    /\ UNCHANGED <<cardVars, leaked, channel, serverVars, listing>>

\* isdr_session: a card that is coming back opens nothing, and the answer to
\* an opening may be lost.
OpenChannel(u) ==
    /\ step[u] = "open"
    /\ \/ /\ ~refreshing
          /\ channel' = u
          /\ GoesTo(u, IF job[u].do = "download" THEN "before" ELSE "execute")
          /\ UNCHANGED <<leaked, job, said>>
       \/ /\ leaked' \in IF refreshing THEN {leaked} ELSE {leaked, leaked + 1}
          /\ IF job[u].attempt = 0 THEN RefusedJob(u)
             ELSE GoesTo(u, "readback") /\ UNCHANGED <<job, said>>
          /\ UNCHANGED channel
    /\ UNCHANGED <<cardVars, serverVars, listing, esimOps>>

-----------------------------------------------------------------------------
(* The card's side of a command *)

\* transmit and drain_get_response: an answer is read to its end or not at all.
Drain(profiles) == IF Cardinality(profiles) <= MaxRounds THEN profiles ELSE {NoIccid}

\* inventory_json and inventory_fits_contract: all of the card or nothing.
InventoryFits(list) == /\ NoIccid \notin list
              /\ list \cap Misshapen = {}
              /\ Cardinality(list) <= MaxInventory

\* The card refuses to enable what is enabled, to disable what is not, to
\* delete the profile it runs on, and anything about a profile it lacks.
CardTakes(do, p) ==
    /\ p \in held
    /\ do \in {"enable", "delete"} => enabled # p
    /\ do = "disable" => enabled = p

CardEffect(do, p) ==
    /\ held' = IF do = "delete" THEN held \ {p} ELSE held
    /\ enabled' = CASE do = "enable" -> p [] do = "disable" -> NoIccid [] OTHER -> enabled
    /\ owed' = IF do = "rename" THEN owed ELSE owed \cup {[profile |-> p, event |-> do]}
    /\ refreshing' = (do \in {"enable", "disable"} \/ refreshing)
    /\ UNCHANGED rsp

\* set_profile, set_profile_nickname, delete_profile: one STORE DATA chain.
\* The outcome is read before the channel is closed and returned after it.
Execute(u) ==
    /\ step[u] = "execute" /\ job[u].do \in WriteJobs /\ job[u].attempt = 0
    /\ \/ /\ CardTakes(job[u].do, job[u].iccid)
          /\ CardEffect(job[u].do, job[u].iccid)
          /\ \/ GoesTo(u, "closing") /\ job' = [job EXCEPT ![u].got = "done"]
             \/ FailsJob(u)
       \/ FailsJob(u) /\ UNCHANGED cardVars
    /\ UNCHANGED <<leaked, channel, serverVars, said, listing, esimOps>>

\* list_profiles, read_esim_local_info and the other reads.  A list the card
\* refused is kept apart from an empty one, and does not fail the read.
ReadCard(u) ==
    /\ step[u] = "execute" /\ (job[u].do \in ReadJobs \/ job[u].attempt > 0)
    /\ \/ FailsJob(u)
       \/ \E list \in {Drain(held), {NoIccid}} :
             job' = [job EXCEPT ![u].got = "done", ![u].saw = [lists |-> list, truth |-> held]]
          /\ GoesTo(u, "closing")
    /\ UNCHANGED <<cardVars, leaked, channel, serverVars, said, listing, esimOps>>

\* close, or Drop on the way out: the close itself may fail, and an explicit
\* close that fails is the operation's error whatever the card did.
CloseChannel(u) ==
    /\ step[u] = "closing"
    /\ channel' = "none"
    /\ rsp' \in {rsp, NoIccid}
    /\ \E ok \in BOOLEAN :
         LET failed == job[u].got = "error" \/ ~ok
         IN /\ leaked' = IF ok THEN leaked ELSE leaked + 1
            /\ CASE failed /\ job[u].attempt = 0 -> RefusedJob(u)
                 [] failed /\ job[u].attempt > 0 -> GoesTo(u, "readback") /\ UNCHANGED <<job, said>>
                 [] ~failed /\ job[u].do \in WriteJobs /\ u = "command" /\ job[u].attempt = 0 ->
                      GoesTo(u, "readback") /\ UNCHANGED <<job, said>>
                 [] ~failed /\ (job[u].do = "info" \/ job[u].attempt > 0) ->
                      GoesTo(u, "report") /\ UNCHANGED <<job, said>>
                 [] ~failed /\ job[u].do = "inputs" ->
                      GoesTo(u, "initiate") /\ UNCHANGED <<job, said>>
                 [] OTHER ->
                      /\ GoesTo(u, "idle")
                      /\ said' = [said EXCEPT ![u] = job[u].got]
                      /\ job' = [job EXCEPT ![u] = NoJob]
    /\ UNCHANGED <<held, enabled, owed, refreshing, serverVars, listing, esimOps>>

\* esim_inventory_after_switch: up to three readings, each with the module
\* taken anew, and never an error to the caller.
ReadCardBack(u) ==
    /\ step[u] = "readback" /\ ModuleFree
    /\ IF job[u].attempt < ReadbackAttempts
       THEN /\ job' = [job EXCEPT ![u].attempt = @ + 1, ![u].got = "nothing"]
            /\ GoesTo(u, "open")
            /\ UNCHANGED said
       ELSE /\ GoesTo(u, "idle")
            /\ said' = [said EXCEPT ![u] = "done"]
            /\ job' = [job EXCEPT ![u] = NoJob]
    /\ UNCHANGED <<cardVars, leaked, channel, serverVars, listing, esimOps>>

\* Only a reading of the card and a switch send the inventory: the executor
\* takes it from those two commands' details and no others.
ReportInventory(u) ==
    /\ step[u] = "report"
    /\ listing' = IF InventoryFits(job[u].saw.lists) /\ job[u].do \in {"info", "enable"}
                    THEN job[u].saw ELSE listing
    /\ said' = [said EXCEPT ![u] = "done"]
    /\ GoesTo(u, "idle")
    /\ job' = [job EXCEPT ![u] = NoJob]
    /\ UNCHANGED <<cardVars, leaked, channel, serverVars, esimOps>>

\* initiate_esim_authentication, after the card was read: the server is asked
\* with nothing held, and nothing is written at either end.
InitiateOnly(u) ==
    /\ step[u] = "initiate"
    /\ \/ RefusedJob(u)
       \/ GoesTo(u, "idle") /\ said' = [said EXCEPT ![u] = "done"]
          /\ job' = [job EXCEPT ![u] = NoJob]
    /\ UNCHANGED <<cardVars, leaked, channel, serverVars, listing, esimOps>>

-----------------------------------------------------------------------------
(* download_esim_profile, on one channel *)

\* The EID, the card's state, a fresh challenge and its keys.
BeforeDownload(u) ==
    /\ step[u] = "before"
    /\ \/ GoesTo(u, "authenticate server") /\ UNCHANGED job
       \/ FailsJob(u)
    /\ UNCHANGED <<cardVars, leaked, channel, serverVars, said, listing, esimOps>>

\* verify_server_credentials: authority, certificate, signature, challenge and
\* address, each refusing by itself.
Credential == {"authority", "certificate", "signature", "challenge", "address"}
Verified(wrong) == wrong = {}

\* InitiateAuthentication, then the card judges the server and opens an RSP
\* session.
AuthenticateServer(u) ==
    /\ step[u] = "authenticate server"
    /\ \E wrong \in {{}} \cup {{c} : c \in Credential} :
         \/ /\ Verified(wrong)
            /\ rsp' = job[u].iccid
            /\ \/ GoesTo(u, "authenticate client") /\ UNCHANGED job
               \/ FailsJob(u)
         \/ FailsJob(u) /\ UNCHANGED rsp
    /\ UNCHANGED <<held, enabled, owed, refreshing, leaked, channel, serverVars, said,
                   listing, esimOps>>

\* authenticate_client: the server links the order, or refuses it, or links it
\* and the answer is lost.
AuthenticateClient(u) ==
    LET p == job[u].iccid
    IN /\ step[u] = "authenticate client"
       /\ \/ /\ order[p] \in {"released", "linked"}
             /\ order' = [order EXCEPT ![p] = "linked"]
             /\ GoesTo(u, "metadata")
          \/ /\ order' \in {order, [order EXCEPT ![p] = IF @ = "released" THEN "linked" ELSE @]}
             /\ GoesTo(u, "cancel card")
       /\ excused' = IF step'[u] = "metadata" THEN excused \ {p} ELSE excused
       /\ UNCHANGED <<cardVars, leaked, channel, job, heard, said, listing, esimOps>>

\* Best effort: the card's session is cancelled, the server's is not.
CancelCard(u) ==
    /\ step[u] = "cancel card"
    /\ rsp' \in {rsp, NoIccid}
    /\ excused' = excused \cup {job[u].iccid}
    /\ FailsJob(u)
    /\ UNCHANGED <<held, enabled, owed, refreshing, leaked, channel, order, heard, said,
                   listing, esimOps>>

\* irreversible_policy_rules of the metadata, or metadata that cannot be read.
JudgeMetadata(u) ==
    /\ step[u] = "metadata"
    /\ \/ /\ GoesTo(u, IF job[u].iccid \in Irreversible THEN "give back" ELSE "prepare")
          /\ UNCHANGED job
       \/ FailsJob(u)
    /\ UNCHANGED <<cardVars, leaked, channel, serverVars, said, listing, esimOps>>

\* give_back_session: the card's cancel, and with its answer the server's.
GiveBack(u) ==
    /\ step[u] = "give back"
    /\ excused' = excused \cup {job[u].iccid}
    /\ \/ rsp' = NoIccid /\ order' \in {order, [order EXCEPT ![job[u].iccid] = "released"]}
       \/ rsp' \in {rsp, NoIccid} /\ UNCHANGED order
    /\ job' = [job EXCEPT ![u].got = "stopped"]
    /\ GoesTo(u, "after")
    /\ UNCHANGED <<held, enabled, owed, refreshing, leaked, channel, heard, said, listing,
                   esimOps>>

\* prepare_download: refused without the confirmation code the server wants.
PrepareDownload(u) ==
    /\ step[u] = "prepare"
    /\ \/ (job[u].iccid \in Coded => job[u].code) /\ rsp = job[u].iccid
          /\ GoesTo(u, "bind") /\ UNCHANGED job
       \/ FailsJob(u)
    /\ UNCHANGED <<cardVars, leaked, channel, serverVars, said, listing, esimOps>>

\* get_bound_profile_package: the profile is bound to this card for good.
BindPackage(u) ==
    /\ step[u] = "bind"
    /\ \/ /\ order' = [order EXCEPT ![job[u].iccid] = "bound"]
          /\ \/ GoesTo(u, "load") /\ UNCHANGED job
             \/ FailsJob(u)
       \/ FailsJob(u) /\ UNCHANGED order
    /\ UNCHANGED <<cardVars, leaked, channel, heard, excused, said, listing, esimOps>>

InstallNote(p) == [profile |-> p, event |-> "install"]

\* load_bound_profile_package: the card installs the profile or refuses the
\* package, and owes the server a notification of either; a package whose
\* segments cannot be split is never sent.
LoadPackage(u) ==
    LET p == job[u].iccid
    IN /\ step[u] = "load"
       /\ \/ /\ \E installs \in BOOLEAN :
                  /\ held' = IF installs THEN held \cup {p} ELSE held
                  /\ owed' = owed \cup {InstallNote(p)}
                  /\ rsp' = NoIccid
                  /\ \/ GoesTo(u, "notify")
                        /\ job' = [job EXCEPT ![u].got = IF installs THEN "installed" ELSE "stopped"]
                     \/ FailsJob(u)
          \/ FailsJob(u) /\ UNCHANGED <<held, owed, rsp>>
       /\ UNCHANGED <<enabled, refreshing, leaked, channel, serverVars, said, listing, esimOps>>

\* post_json: any 2xx is an answer, and nothing else is.  No status at all is
\* an exchange that broke off, on either side of the server's work.
Status == {0, 200, 204, 503}
PostJsonMutant(status) == status # 0
PostJson(status) == status \div 100 = 2

\* handle_notification: this download's and no other.  The server that
\* answers 2xx has it; one that breaks off may have it or not.
NotifyServer(u) ==
    LET p == job[u].iccid
        outcome == IF job[u].got = "installed" THEN "installed" ELSE "refused"
    IN /\ step[u] = "notify"
       /\ \E status \in Status :
            /\ GoesTo(u, IF PostJson(status) THEN "remove" ELSE "after")
            /\ \/ /\ status # 503
                  /\ heard' = heard \cup {InstallNote(p)}
                  /\ order' = [order EXCEPT ![p] = outcome]
               \/ /\ status \in {0, 503}
                  /\ UNCHANGED <<heard, order>>
       /\ UNCHANGED <<cardVars, leaked, channel, job, excused, said, listing, esimOps>>

\* remove_notification, by the sequence number the installation reported.
RemoveNote(u) ==
    /\ step[u] = "remove"
    /\ owed' \in {owed, owed \ {InstallNote(job[u].iccid)}}
    /\ GoesTo(u, "after")
    /\ UNCHANGED <<held, enabled, rsp, refreshing, leaked, channel, job, serverVars, said,
                   listing, esimOps>>

\* The card's state again; a card that cannot be read turns it all into an
\* error.
AfterDownload(u) ==
    /\ step[u] = "after"
    /\ \/ GoesTo(u, "closing") /\ UNCHANGED job
       \/ FailsJob(u)
    /\ UNCHANGED <<cardVars, leaked, channel, serverVars, said, listing, esimOps>>

-----------------------------------------------------------------------------

Refreshed ==
    /\ refreshing /\ refreshing' = FALSE
    /\ UNCHANGED <<held, enabled, rsp, owed, leaked, channel, step, job, serverVars, said,
                   listing, esimOps>>

\* The agent stops, whatever it was doing.
EsimStop ==
    /\ \E u \in User : step[u] # "idle"
    /\ leaked' = IF channel = "none" THEN leaked ELSE leaked + 1
    /\ channel' = "none"
    /\ step' = [u \in User |-> "idle"]
    /\ job' = [u \in User |-> NoJob]
    /\ said' = [u \in User |-> "nothing"]
    /\ excused' = excused \cup ({job[u].iccid : u \in User} \ {NoIccid})
    /\ UNCHANGED <<cardVars, order, heard, listing, esimOps>>

EsimNext ==
    \/ \E u \in User :
         \/ StartJob(u) \/ OpenChannel(u) \/ Execute(u) \/ ReadCard(u) \/ CloseChannel(u)
         \/ ReadCardBack(u) \/ ReportInventory(u) \/ InitiateOnly(u)
         \/ BeforeDownload(u) \/ AuthenticateServer(u) \/ AuthenticateClient(u) \/ CancelCard(u)
         \/ JudgeMetadata(u) \/ GiveBack(u) \/ PrepareDownload(u) \/ BindPackage(u) \/ LoadPackage(u)
         \/ NotifyServer(u) \/ RemoveNote(u) \/ AfterDownload(u)
    \/ Refreshed \/ EsimStop

EsimSpec == EsimInit /\ [][EsimNext]_esimVars

-----------------------------------------------------------------------------
(* Properties *)

\* A notification the card owes leaves it only after the SM-DP+ has it,
\* whatever exchange fails and wherever the agent stops.  (session.rs,
\* run_download: removed only once the server has it.)
NotificationKept == [][\A n \in owed : n \notin owed' => n \in heard']_esimVars

\* An inventory names every profile the card held when it was read: the cloud
\* marks the others deleted.  (session.rs, inventory_json; uim.rs,
\* drain_get_response.)
InventoryWhole == listing.lists = listing.truth

\* Both: neither server nor cloud is left with a wrong idea of the card.
CardToldWhole == NotificationKept /\ []InventoryWhole
=============================================================================
