---------------------------- MODULE HealthEngine ----------------------------
(***************************************************************************)
(* The health engine (main/health_engine/health_engine.c): who is there,   *)
(* who is not, and the alerts that say so.  Its task takes one event at a  *)
(* time from a queue the BLE host and the sensors' tasks post to without   *)
(* waiting, and holds s_mutex meanwhile; iothub_task changes the table     *)
(* under the same mutex and takes the alerts without it.                   *)
(***************************************************************************)
EXTENDS Naturals, Sequences

CONSTANTS
    BleValves, HealthSensors,     \* what may be provisioned
    NoBleValve,
    HealthDepth, AlertDepth,      \* the depths of s_health_queue and s_alert_queue
    MaxHealthEvents               \* bound: links lost, new values, device sets

ASSUME HealthAssumption ==
    /\ BleValves \cap HealthSensors = {} /\ NoBleValve \notin BleValves
    /\ HealthDepth \in Nat \ {0} /\ AlertDepth \in Nat \ {0} /\ MaxHealthEvents \in Nat

VARIABLES
    healthq, alertq,      \* s_health_queue, s_alert_queue
    discPending,          \* g_health_valve_disc_pending
    table,                \* s_devices, by device
    holder,               \* what the engine's task does next under s_mutex
    members,              \* provisioning's set: the valve, and the sensors
    reconcile,            \* iothub_task: "no", or what it is to do next
    link,                 \* the valve's link, and what it has read
    missed,               \* for the properties: valves whose loss the table was robbed of
    healthEvents

healthVars == <<healthq, alertq, discPending, table, holder, members, reconcile, link,
                missed, healthEvents>>

Tracked == BleValves \cup HealthSensors

(* A slot of s_devices: ever_seen, leaking, a battery at 10 % or less; away *)
(* for some time, or for longer than the device's timeout; the rating and  *)
(* its cause; offline_alerted, alert_retry, and last_alert_ms within the   *)
(* debounce.                                                               *)
Unheard ==
    [in |-> TRUE, seen |-> FALSE, wet |-> FALSE, low |-> FALSE, away |-> "no",
     status |-> "offline", alerted |-> FALSE, retry |-> FALSE, recent |-> FALSE]
NoSlot == [Unheard EXCEPT !.in = FALSE]

NoLink == [valve |-> NoBleValve, stage |-> "none", reads |-> "good"]
Target == members.valve
LinkIsReady == link.stage = "ready" /\ link.valve = Target

Idle == [at |-> "idle", left |-> {}]

HealthInit ==
    /\ healthq = <<>> /\ alertq = <<>> /\ discPending = FALSE
    /\ table = [x \in Tracked |-> NoSlot]
    /\ holder = Idle /\ missed = {} /\ healthEvents = 0
    /\ members = [valve |-> NoBleValve, sensors |-> {}] /\ reconcile = "no" /\ link = NoLink

-----------------------------------------------------------------------------
(* Ratings and alerts.                                                     *)

(* compute_valve_rating(), compute_sensor_rating(): CRITICAL for a leak,   *)
(* CRITICAL for the link ("offline"), CRITICAL for the valve's battery, the*)
(* valve's WARNING grace, and the rest, of which no alert speaks.          *)
StatusOf(d) ==
    CASE d.wet -> "leak"
      [] ~d.wet /\ d.away = "long" -> "offline"
      [] ~d.wet /\ d.away # "long" /\ d.low -> "battery"
      [] ~d.wet /\ d.away = "grace" /\ ~d.low -> "grace"
      [] ~d.wet /\ d.away = "no" /\ ~d.low -> IF d.seen THEN "fine" ELSE "offline"

WantsOffline(d, s) == s = "offline" /\ d.status # "offline" /\ d.seen /\ ~d.alerted
WantsRecovered(d, s) == s # "offline" /\ d.status = "offline" /\ d.alerted

Sent(x, d) ==
    /\ alertq' = Append(alertq, [dev |-> x, offline |-> d.alerted])
    /\ table' = [table EXCEPT ![x] = d]
Committed(x, d) == table' = [table EXCEPT ![x] = d] /\ UNCHANGED alertq

OwedNever(d) == d                       \* mutant: a debounced alert is dropped

Owed(d) == [d EXCEPT !.retry = TRUE]

(* apply_rating() of a slot whose new facts are in d: the change is        *)
(* committed, owed to the tick while the debounce runs, held back by a full*)
(* queue, or told.                                                         *)
ApplyRating(x, d) ==
    LET s == StatusOf(d)
        wanted == WantsOffline(d, s) \/ WantsRecovered(d, s)
    IN  \/ ~wanted /\ Committed(x, [d EXCEPT !.status = s])
        \/ wanted /\ d.recent /\ Committed(x, Owed([d EXCEPT !.status = s]))
        \/ wanted /\ ~d.recent /\ Len(alertq) = AlertDepth /\ Committed(x, d)
        \/ /\ wanted /\ ~d.recent /\ Len(alertq) < AlertDepth
           /\ Sent(x, [d EXCEPT !.status = s, !.alerted = (s = "offline"),
                                !.retry = FALSE, !.recent = TRUE])

(* The trailing edge of a debounced alert.                                 *)
TrailingEdge(x, d) ==
    LET offline == d.status = "offline"
        owed == offline # d.alerted /\ (offline => d.seen)
    IN  \/ (~d.retry \/ d.recent \/ (owed /\ Len(alertq) = AlertDepth)) /\ UNCHANGED <<table, alertq>>
        \/ d.retry /\ ~d.recent /\ ~owed /\ Committed(x, [d EXCEPT !.retry = FALSE])
        \/ /\ d.retry /\ ~d.recent /\ owed /\ Len(alertq) < AlertDepth
           /\ Sent(x, [d EXCEPT !.alerted = offline, !.retry = FALSE, !.recent = TRUE])

-----------------------------------------------------------------------------
(* The engine's task.                                                      *)

(* What an event says of its device: handle_lora_checkin(),                *)
(* handle_ble_leak_checkin(), handle_valve_event(), _battery(), _leak().   *)
Facts(e, d) ==
    CASE e.kind = "checkin" -> [d EXCEPT !.seen = TRUE, !.away = "no", !.wet = e.value]
      [] e.kind = "connected" -> [d EXCEPT !.seen = TRUE, !.away = "no"]
      [] e.kind = "disconnected" -> [d EXCEPT !.away = IF @ = "no" THEN "grace" ELSE @]
      [] e.kind = "battery" -> [d EXCEPT !.low = e.value]
      [] e.kind = "leak" -> [d EXCEPT !.wet = e.value]

(* handle_valve_resync(): the live link, and its readings; the leak is only*)
(* raised.  Three ratings in a row, of which only the first can alert.     *)
Resynced(d) == [d EXCEPT !.seen = TRUE, !.away = "no", !.wet = @ \/ link.reads = "wet", !.low = (link.reads = "low")]

InTable == {x \in Tracked : table[x].in}

OnTheWay(v) ==
    \/ discPending
    \/ \E i \in DOMAIN healthq : healthq[i].kind = "disconnected" /\ healthq[i].dev = v

(* For the properties: a CONNECTED from before a loss the table already    *)
(* has, or was never told of, is taken after it.                           *)
Outdated(e) ==
    /\ e.kind = "connected" /\ link.valve # e.dev /\ ~discPending
    /\ \A i \in 2..Len(healthq) : healthq[i].kind # "disconnected" \/ healthq[i].dev # e.dev

TakeEvent ==
    /\ holder = Idle /\ healthq # <<>> /\ healthq' = Tail(healthq)
    /\ LET e == Head(healthq) IN
       /\ missed' = IF Outdated(e) THEN missed \cup {e.dev} ELSE missed
       /\ \/ e.kind = "tick" /\ holder' = [at |-> "rate", left |-> InTable]
             /\ UNCHANGED <<table, alertq>>
          \/ /\ e.kind = "resync" /\ holder' = [Idle EXCEPT !.at = "after"]
             /\ IF LinkIsReady /\ table[link.valve].in
                THEN ApplyRating(link.valve, Resynced(table[link.valve]))
                ELSE UNCHANGED <<table, alertq>>
          \/ /\ e.kind \notin {"tick", "resync"} /\ holder' = [Idle EXCEPT !.at = "after"]
             /\ IF table[e.dev].in THEN ApplyRating(e.dev, Facts(e, table[e.dev]))
                ELSE UNCHANGED <<table, alertq>>
    /\ UNCHANGED <<discPending, members, reconcile, link, healthEvents>>

(* evaluate_timeouts(): each slot is rated again, then the trailing edges. *)
Rate(x) ==
    /\ holder.at = "rate" /\ x \in holder.left /\ holder' = [holder EXCEPT !.left = @ \ {x}]
    /\ IF x \in HealthSensors /\ ~table[x].seen THEN UNCHANGED <<table, alertq>>
       ELSE ApplyRating(x, table[x])
    /\ UNCHANGED <<healthq, discPending, members, reconcile, link, missed, healthEvents>>

Retry(x) ==
    /\ holder.at = "retry" /\ x \in holder.left /\ holder' = [holder EXCEPT !.left = @ \ {x}]
    /\ TrailingEdge(x, table[x])
    /\ UNCHANGED <<healthq, discPending, members, reconcile, link, missed, healthEvents>>

TickGoesOn ==
    /\ holder.at \in {"rate", "retry"} /\ holder.left = {}
    /\ holder' = IF holder.at = "rate" THEN [at |-> "retry", left |-> InTable]
                 ELSE [Idle EXCEPT !.at = "after"]
    /\ UNCHANGED <<healthq, alertq, discPending, table, members, reconcile, link, missed,
                   healthEvents>>

(* The DISCONNECTED the queue had no room for, after the event.            *)
Fallback ==
    /\ holder.at = "after" /\ holder' = Idle /\ discPending' = FALSE
    /\ \/ /\ discPending
          /\ \E v \in BleValves \cap InTable :
                ApplyRating(v, Facts([kind |-> "disconnected", dev |-> v], table[v]))
       \/ /\ ~discPending \/ BleValves \cap InTable = {}
          /\ UNCHANGED <<table, alertq>>
    /\ UNCHANGED <<healthq, members, reconcile, link, missed, healthEvents>>

-----------------------------------------------------------------------------
(* iothub_task: a change of the device set, and the alerts.                *)

SetDevices ==
    /\ healthEvents < MaxHealthEvents /\ healthEvents' = healthEvents + 1
    /\ \E v \in BleValves \cup {NoBleValve}, S \in SUBSET HealthSensors :
          members' = [valve |-> v, sensors |-> S] /\ members' # members
    /\ reconcile' = "table"
    /\ UNCHANGED <<healthq, alertq, discPending, table, holder, link, missed>>

ProvisionedDevices == members.sensors \cup ({Target} \ {NoBleValve})

(* health_engine_reconcile_devices(): survivors keep every field.          *)
Reconcile ==
    /\ reconcile = "table" /\ holder = Idle
    /\ table' = [x \in Tracked |-> IF x \notin ProvisionedDevices THEN NoSlot
                                   ELSE IF table[x].in THEN table[x] ELSE Unheard]
    /\ discPending' = (discPending /\ BleValves \cap InTable \subseteq ProvisionedDevices)
    /\ reconcile' = IF ProvisionedDevices \subseteq InTable THEN "no" ELSE "resync"
    /\ missed' = missed \cap ProvisionedDevices
    /\ UNCHANGED <<healthq, alertq, holder, members, link, healthEvents>>

Queued(e) == IF Len(healthq) < HealthDepth THEN Append(healthq, e) ELSE healthq

(* health_request_valve_resync(), which a full queue refuses for good.     *)
Resync ==
    /\ reconcile = "resync" /\ reconcile' = "no"
    /\ healthq' = Queued([kind |-> "resync"])
    /\ UNCHANGED <<alertq, discPending, table, holder, members, link, missed, healthEvents>>

PopAlert ==
    /\ alertq # <<>> /\ alertq' = Tail(alertq)
    /\ UNCHANGED <<healthq, discPending, table, holder, members, reconcile, link, missed,
                   healthEvents>>

-----------------------------------------------------------------------------
(* Those who post: the timer, the sensors, the valve's link.               *)

TickTimer ==
    /\ \A i \in DOMAIN healthq : healthq[i].kind # "tick"
    /\ healthq' = Queued([kind |-> "tick"]) /\ healthq' # healthq
    /\ UNCHANGED <<alertq, discPending, table, holder, members, reconcile, link, missed,
                   healthEvents>>

CheckIn(s) ==
    /\ healthEvents < MaxHealthEvents /\ healthEvents' = healthEvents + 1
    /\ \E wet \in BOOLEAN : healthq' = Queued([kind |-> "checkin", dev |-> s, value |-> wet])
    /\ UNCHANGED <<alertq, discPending, table, holder, members, reconcile, link, missed>>

(* The valve's link: each callback posts what it has to say at once, unless*)
(* the link is another valve's than the provisioned one; what the queue has*)
(* no room for is dropped, but for the flag.                               *)
Says(kinds) ==
    LET es == [i \in DOMAIN kinds |->
                  [kind |-> kinds[i], dev |-> link.valve,
                   value |-> link'.reads = (IF kinds[i] = "leak" THEN "wet" ELSE "low")]]
        room == HealthDepth - Len(healthq)
    IN  healthq' = IF link.valve # Target THEN healthq
                   ELSE healthq \o SubSeq(es, 1, IF Len(kinds) < room THEN Len(kinds) ELSE room)

LinkUp ==
    /\ link = NoLink /\ Target # NoBleValve
    /\ link' = [NoLink EXCEPT !.valve = Target, !.stage = "up"]
    /\ missed' = missed \ {Target}
    /\ UNCHANGED <<healthq, alertq, discPending, table, holder, members, reconcile, healthEvents>>

SetupReads ==
    /\ link.stage = "up"
    /\ \E r \in {"good", "wet", "low"} : link' = [link EXCEPT !.stage = "read", !.reads = r]
    /\ Says(<<"leak", "battery">>)
    /\ UNCHANGED <<alertq, discPending, table, holder, members, reconcile, missed, healthEvents>>

(* A CONNECTED that lands, behind n other posts, supersedes a pending      *)
(* DISCONNECTED; the flag has no MAC, so another valve's as well.          *)
Lands(n) == link.valve = Target /\ Len(healthq) + n < HealthDepth
Supersedes(n) ==
    /\ discPending' = (discPending /\ ~Lands(n))
    /\ missed' = IF discPending /\ Lands(n) THEN missed \cup ((BleValves \cap InTable) \ {link.valve})
                 ELSE missed

(* CONNECTED with a battery resync, and the LEAK update's CONNECTED.       *)
SetupDone ==
    /\ link.stage = "read" /\ link' = [link EXCEPT !.stage = "ready"]
    /\ Says(<<"connected", "battery", "connected">>) /\ Supersedes(0)
    /\ UNCHANGED <<alertq, table, holder, members, reconcile, healthEvents>>

(* One changed value: its own post, and a CONNECTED.                       *)
Notify ==
    /\ healthEvents < MaxHealthEvents /\ healthEvents' = healthEvents + 1
    /\ link.stage = "ready"
    /\ \E r \in {"good", "wet", "low"} \ {link.reads} :
          "good" \in {link.reads, r} /\ link' = [link EXCEPT !.reads = r]
    /\ Says(<<IF "wet" \in {link.reads, link'.reads} THEN "leak" ELSE "battery", "connected">>)
    /\ Supersedes(1)
    /\ UNCHANGED <<alertq, table, holder, members, reconcile>>

FlaggedNever == discPending                \* mutant: a refused DISCONNECTED is forgotten

(* health_post_valve_event(): a DISCONNECTED that is refused sets the flag.*)
Flagged == discPending \/ (link.valve = Target /\ Len(healthq) = HealthDepth)

LinkLost ==
    /\ healthEvents < MaxHealthEvents /\ healthEvents' = healthEvents + 1
    /\ link # NoLink /\ link' = NoLink
    /\ Says(<<"disconnected">>) /\ discPending' = Flagged
    /\ missed' = IF link.valve # Target THEN missed \cup {link.valve} ELSE missed
    /\ UNCHANGED <<alertq, table, holder, members, reconcile>>

(* Time: a device's timeout, the valve's grace, the debounce of an alert.  *)
TimesOut(x) ==
    /\ table[x].in /\ table[x].away = (IF x \in BleValves THEN "grace" ELSE "no")
    /\ x \in BleValves \/ table[x].seen
    /\ table' = [table EXCEPT ![x].away = "long"]
    /\ UNCHANGED <<healthq, alertq, discPending, holder, members, reconcile, link, missed,
                   healthEvents>>

DebounceEnds(x) ==
    /\ table[x].recent /\ table' = [table EXCEPT ![x].recent = FALSE]
    /\ UNCHANGED <<healthq, alertq, discPending, holder, members, reconcile, link, missed,
                   healthEvents>>

HealthNext ==
    \/ TakeEvent \/ TickGoesOn \/ Fallback
    \/ \E x \in Tracked : Rate(x) \/ Retry(x) \/ TimesOut(x) \/ DebounceEnds(x)
    \/ SetDevices \/ Reconcile \/ Resync \/ PopAlert
    \/ TickTimer \/ \E s \in HealthSensors : CheckIn(s)
    \/ LinkUp \/ SetupReads \/ SetupDone \/ Notify \/ LinkLost

HealthSpec == HealthInit /\ [][HealthNext]_healthVars

-----------------------------------------------------------------------------
(* Properties.                                                             *)

(* What the alerts said last of a device is what it is, or the trailing    *)
(* edge is owed: no debounce, full queue or change from one CRITICAL into  *)
(* another loses an offline or a recovery, or tells one twice.             *)
ToldIsTrue ==
    \A x \in Tracked :
        table[x].in /\ ~table[x].retry
            => table[x].alerted = (table[x].seen /\ table[x].status = "offline")

(* A valve that is not there does not stay green: the loss of its link has *)
(* reached the table or is on its way to it, whatever the queue dropped and*)
(* whatever was provisioned meanwhile.  Three holes are named in `missed`: *)
(* a CONNECTED posted before the loss and taken after its fallback, a link *)
(* lost while another valve was the target, and the flag of a refused      *)
(* DISCONNECTED taken down by the CONNECTED of another valve, before the   *)
(* table is reconciled.                                                    *)
DropIsKnown ==
    \A v \in BleValves :
        table[v].in /\ table[v].seen /\ v = Target /\ link.valve # v /\ ~OnTheWay(v)
            => table[v].away # "no" \/ v \in missed
=============================================================================
