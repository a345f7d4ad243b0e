------------------------------ MODULE MCModems ------------------------------
(***************************************************************************)
(* What is done to a module under one lease: finding it again, the radio,  *)
(* the data path and the eUICC.  The operations share no state but the     *)
(* module, so each is run by itself: `part' says which one a behaviour is  *)
(* of, and the others stay as they begin.  Two modules of one product for  *)
(* the search.                                                             *)
(***************************************************************************)
EXTENDS ModemPorts, RadioControl, DataPlane, EsimCard

VARIABLE part

MCProduct == [m \in Modem |-> "2c7c:0125"]

modemsVars == <<part, portsVars, radioVars, dataVars, esimVars>>

ModemsInit ==
    /\ part \in {"ports", "radio", "data", "esim"}
    /\ PortsInit /\ RadioInit /\ DataInit /\ EsimInit
    /\ part # "radio" => (cfun = 1 /\ cardState = "ready")
    /\ part # "data" => known = [m \in DataModule |-> UnknownCard]
    /\ part # "esim" => enabled = NoIccid /\ held = {CHOOSE p \in Iccid : p \notin Irreversible}

ModemsNext ==
    /\ UNCHANGED part
    /\ \/ part = "ports" /\ PortsNext /\ UNCHANGED <<radioVars, dataVars, esimVars>>
       \/ part = "radio" /\ RadioNext /\ UNCHANGED <<portsVars, dataVars, esimVars>>
       \/ part = "data" /\ DataNext /\ UNCHANGED <<portsVars, radioVars, esimVars>>
       \/ part = "esim" /\ EsimNext /\ UNCHANGED <<portsVars, radioVars, dataVars>>

ModemsSpec == ModemsInit /\ [][ModemsNext]_modemsVars
=============================================================================
