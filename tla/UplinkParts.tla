---------------------------- MODULE UplinkParts ----------------------------
(***************************************************************************)
(* cloud_tx with its MQTT session, and the radio that Wi-Fi and BLE share. *)
(* The scan executor decides when BLE is off and cloud_tx what is sent;    *)
(* neither waits for the other, they share no state but the facts that     *)
(* both leave open (whether Wi-Fi and the setup page are up), and so a     *)
(* behaviour is of one of them and the other stands still.                 *)
(***************************************************************************)
EXTENDS CloudTx, RadioPolicy

VARIABLE side     \* whose behaviour this is

uplinkVars == <<vars, radioVars, side>>

UplinkInit ==
    /\ Init /\ RadioInit
    /\ side \in {"cloud", "radio"}
    /\ side = "radio" => ~synced

CloudSteps == side = "cloud" /\ Next /\ UNCHANGED <<radioVars, side>>
RadioSteps == side = "radio" /\ RadioNext /\ UNCHANGED <<vars, side>>

UplinkNext == CloudSteps \/ RadioSteps

UplinkSpec == UplinkInit /\ [][UplinkNext]_uplinkVars
============================================================================
