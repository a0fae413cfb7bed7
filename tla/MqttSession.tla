---------------------------- MODULE MqttSession -----------------------------
(***************************************************************************)
(* The MQTT client's life (main/iothub/app_iothub.c, "MQTT stop / resume", *)
(* the cloud's admission, the SAS token, the client's events).  Four tasks *)
(* share it: iothub_task asks for a stop and starts the client; wifi_task  *)
(* runs the stop; esp-mqtt's own task, modelled from how it is used,       *)
(* connects and handles CONNECTED; cloud_tx publishes, under the gate.     *)
(***************************************************************************)
EXTENDS Naturals

CONSTANTS
    Kinds,       \* which outside events may happen
    MaxFaults    \* bound: outside events in a behaviour

ASSUME SessionAssumption == MaxFaults \in Nat

VARIABLES
    wifi,        \* the station has an IP; a loss not yet acted on; the SoftAP is up
    admitted,    \* s_admit_state = ADMIT_DONE; its negation is s_mqtt_suspended
    synced,      \* the clock is valid
    sas,         \* the token: "none", "good", or "due" for renewal
    client,      \* esp-mqtt's task: "stopped", or running "offline" or "online"
    handler,     \* where it is in the handler of CONNECTED
    gen,         \* s_sess_gen, the session's number
    connected,   \* s_connected, the mark everyone reads
    running,     \* g_mqtt_running
    stop,        \* a stop: "none" (req = done), "asked", or "taken" by wifi_task
    gate,        \* s_pub_gate: "free", or held by "tx" or "wifi"
    hub,         \* iothub_task: "loop", "mark" inside a stop request, or a decommission
    faults       \* outside events so far

sessVars == <<wifi, admitted, synced, sas, client, handler, gen, connected,
              running, stop, gate, hub, faults>>

Stopping == stop # "none"

(* Bound: what has the client stopped opens the most interleavings, and    *)
(* counts twice; a start without the clock counts as one.                  *)
Weight(k) == IF k \in {"wifi", "ap", "renew"} THEN 2 ELSE 1
Fault(k) == k \in Kinds /\ faults' = faults + Weight(k) /\ faults' <= MaxFaults

NoWifi == [up |-> FALSE, lost |-> FALSE, ap |-> FALSE]

SessionInit ==
    /\ wifi = NoWifi /\ admitted = FALSE /\ synced \in BOOLEAN /\ sas = "none"
    /\ client = "stopped" /\ handler = "idle" /\ gen = 0 /\ connected = FALSE
    /\ running = FALSE /\ stop = "none" /\ gate = "free" /\ hub = "loop"
    /\ faults = IF synced THEN 0 ELSE 1

(* A restart; the clock survives a software reset.                         *)
SessionRestart ==
    /\ wifi' = NoWifi /\ admitted' = FALSE /\ synced' \in {FALSE, synced} /\ sas' = "none"
    /\ client' = "stopped" /\ handler' = "idle" /\ gen' = 0 /\ connected' = FALSE
    /\ running' = FALSE /\ stop' = "none" /\ gate' = "free" /\ hub' = "loop"

-----------------------------------------------------------------------------
(* The outside: Wi-Fi, the setup access point, time.                       *)

WifiLost ==
    /\ wifi.up
    /\ Fault("wifi")
    /\ wifi' = [wifi EXCEPT !.up = FALSE, !.lost = TRUE]
    /\ UNCHANGED <<admitted, synced, sas, client, handler, gen, connected, running, stop, gate, hub>>

WifiUp ==
    /\ ~wifi.up
    /\ wifi' = [wifi EXCEPT !.up = TRUE]
    /\ UNCHANGED <<admitted, synced, sas, client, handler, gen, connected, running, stop, gate, hub, faults>>

SoftApUp ==
    /\ ~wifi.ap
    /\ Fault("ap")
    /\ wifi' = [wifi EXCEPT !.ap = TRUE]
    /\ UNCHANGED <<admitted, synced, sas, client, handler, gen, connected, running, stop, gate, hub>>

SoftApDown ==
    /\ wifi.ap
    /\ wifi' = [wifi EXCEPT !.ap = FALSE]
    /\ UNCHANGED <<admitted, synced, sas, client, handler, gen, connected, running, stop, gate, hub, faults>>

ClockSync ==
    /\ ~synced
    /\ wifi.up
    /\ synced' = TRUE
    /\ UNCHANGED <<wifi, admitted, sas, client, handler, gen, connected, running, stop, gate, hub, faults>>

TokenAges ==
    /\ sas = "good"
    /\ Fault("renew")
    /\ sas' = "due"
    /\ UNCHANGED <<wifi, admitted, synced, client, handler, gen, connected, running, stop, gate, hub>>

-----------------------------------------------------------------------------
(* iothub_task: admission, token, and the stops it asks for.               *)

(* mqtt_stop_request(): counted first, marked by HubMarks.                 *)
StopRequest ==
    /\ running' = FALSE
    /\ stop' = "asked"
    /\ hub' = "mark"
    /\ UNCHANGED <<client, connected>>

HubMarks ==
    /\ hub = "mark"
    /\ connected' = FALSE
    /\ hub' = "loop"
    /\ UNCHANGED <<wifi, admitted, synced, sas, client, handler, gen, running, stop, gate, faults>>

StartClient ==
    /\ client' = "offline"
    /\ running' = TRUE
    /\ UNCHANGED <<connected, stop, hub>>

(* admit_withdraw(): a link loss, even one the link is back from, or the   *)
(* SoftAP.                                                                 *)
Withdraw ==
    /\ hub = "loop"
    /\ wifi.lost \/ (~wifi.up /\ admitted) \/ (wifi.up /\ wifi.ap /\ admitted)
    /\ wifi' = [wifi EXCEPT !.lost = FALSE]
    /\ admitted' = FALSE
    /\ IF running THEN StopRequest ELSE UNCHANGED <<client, connected, running, stop, hub>>
    /\ UNCHANGED <<synced, sas, handler, gen, gate, faults>>

AdmissionOpenAlways == wifi.up /\ ~wifi.lost /\ ~wifi.ap     \* mutant: stop not awaited
AdmissionOpen == wifi.up /\ ~wifi.lost /\ ~wifi.ap /\ ~Stopping

(* admit_now() and mqtt_resume(), which leaves a stale token to            *)
(* SasMaintain.                                                            *)
Admit ==
    /\ hub = "loop"
    /\ ~admitted
    /\ AdmissionOpen
    /\ admitted' = TRUE
    /\ IF ~running /\ sas = "good" THEN StartClient
       ELSE UNCHANGED <<client, connected, running, stop, hub>>
    /\ UNCHANGED <<wifi, synced, sas, handler, gen, gate, faults>>

(* A started client is stopped first; the mint, set_config and start       *)
(* follow on a pass after the stop has ended.                              *)
SasMaintain ==
    /\ hub = "loop"
    /\ admitted /\ ~Stopping /\ synced
    /\ sas # "good"
    /\ IF running THEN StopRequest /\ UNCHANGED sas
       ELSE StartClient /\ sas' = "good"
    /\ UNCHANGED <<wifi, admitted, synced, handler, gen, gate, faults>>

-----------------------------------------------------------------------------
(* esp-mqtt's task.  Its handler runs with the API lock, so no publish of  *)
(* another task falls between its steps.                                   *)

Connect ==
    /\ client = "offline" /\ handler = "idle" /\ wifi.up
    /\ client' = "online"
    /\ handler' = IF Stopping THEN "idle" ELSE "gen"
    /\ UNCHANGED <<wifi, admitted, synced, sas, gen, connected, running, stop, gate, hub, faults>>

(* telemetry_v2_set_connected(TRUE): the generation first, then the mark.  *)
MarkConnected ==
    \/ handler = "gen" /\ gen' = gen + 1 /\ handler' = "mark" /\ UNCHANGED connected
    \/ handler = "mark" /\ connected' = TRUE /\ handler' = "check" /\ UNCHANGED gen

Marks ==
    /\ MarkConnected
    /\ UNCHANGED <<wifi, admitted, synced, sas, client, running, stop, gate, hub, faults>>

(* A stop asked while the handler ran undoes the mark.                     *)
StillWanted == connected /\ ~Stopping

HandlerEnds ==
    /\ handler = "check"
    /\ connected' = StillWanted
    /\ handler' = "idle"
    /\ UNCHANGED <<wifi, admitted, synced, sas, client, gen, running, stop, gate, hub, faults>>

(* The session ends: DISCONNECTED, on esp-mqtt's task or, for a write that *)
(* failed, inside the publish.                                             *)
SessionEnds == client' = "offline" /\ connected' = FALSE

LinkLost ==
    /\ client = "online" /\ handler = "idle"
    /\ IF wifi.up THEN Fault("drop") ELSE UNCHANGED faults
    /\ SessionEnds
    /\ UNCHANGED <<wifi, admitted, synced, sas, handler, gen, running, stop, gate, hub>>

-----------------------------------------------------------------------------
(* wifi_task: iothub_mqtt_stop_service().                                  *)

StopTake ==
    /\ stop = "asked"
    /\ gate = "free"
    /\ gate' = "wifi"
    /\ stop' = "taken"
    /\ UNCHANGED <<wifi, admitted, synced, sas, client, handler, gen, connected, running, hub, faults>>

(* esp_mqtt_client_stop() returns with the client's task ended; a connect  *)
(* that raced in is unmarked, the gate given and the stop counted as done. *)
StopEnds ==
    /\ stop = "taken" /\ handler = "idle"
    /\ client' = "stopped"
    /\ connected' = FALSE
    /\ gate' = "free"
    /\ stop' = "none"
    /\ UNCHANGED <<wifi, admitted, synced, sas, handler, gen, running, hub, faults>>

-----------------------------------------------------------------------------
(* cloud_tx: iothub_pub_begin(), a try of the gate and of the session.     *)

PubOpenNoStop == gate # "tx" /\ connected         \* mutant: a stop is not looked at
PubOpen == gate = "free" /\ connected /\ ~Stopping

PubBegin == gate' = "tx"
PubEnd == gate' = "free"

HubSessionNext == HubMarks \/ Withdraw \/ Admit \/ SasMaintain
MqttNext == Connect \/ Marks \/ HandlerEnds
StopNext == StopTake \/ StopEnds
OutsideNext == WifiLost \/ WifiUp \/ SoftApUp \/ SoftApDown \/ ClockSync \/ TokenAges \/ LinkLost

SessionNext == HubSessionNext \/ MqttNext \/ StopNext \/ OutsideNext
=============================================================================
