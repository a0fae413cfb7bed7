----------------------------- MODULE RulesEngine -----------------------------
(***************************************************************************)
(* The rules engine (main/rules_engine/rules_engine.c) between its leak    *)
(* sources and the valve channel: a wet report latches an incident, sets   *)
(* the valve's RMLEAK lock and closes it; drying releases it; a button     *)
(* press or a cloud command opens a 24 h override window.                  *)
(*                                                                         *)
(* Three tasks run it: the hub loop (iothub_task: reports, valve updates,  *)
(* ticks, device-set changes), the MQTT task (cloud commands) and the      *)
(* valve task of ValveChannel.  A hold of g_mutex is one step; commands    *)
(* posted after the mutex is given are steps of their own (hubTodo,       *)
(* mqTodo), one each.                                                     *)
(*                                                                         *)
(* Left to other modules: the reports kept while g_mutex was busy, the     *)
(* clock of the window, telemetry.  g_leak_incident_active and the window  *)
(* are saved to NVS in the hold that changes them, so eng.incident and     *)
(* eng.window stand for both copies and survive a reboot.                  *)
(***************************************************************************)
EXTENDS ValveChannel, FiniteSets, Functions

CONSTANTS
    Sensors,      \* leak sensors (BLE and LoRa)
    Probe,        \* VALVE_SOURCE_ID, the valve's own flood probe
    MaxActive,    \* MAX_ACTIVE_LEAK_SOURCES
    Prompt,       \* TRUE: the engine's timers outlast commands on their way
    Kinds,        \* the kinds of outside event this instance allows
    MaxEvents     \* bound: outside events in a behaviour

Sources == Sensors \cup {Probe}

ASSUME EngineAssumption ==
    /\ Probe \notin Sensors
    /\ MaxActive \in Nat \ {0}
    /\ Prompt \in BOOLEAN
    /\ MaxEvents \in Nat

VARIABLES
    eng,       \* the engine's globals
    rules,     \* rules_config_t
    members,   \* provisioned sensors
    hubTodo,  \* commands the hub loop has still to post
    mqTodo,   \* commands the MQTT task has still to post
    mq,        \* where the MQTT task is in an override_enable
    devset,    \* g_devset_changed
    detValve,  \* s_det_valve_mac: the valve the hub loop last acted for
    wet,       \* the sensors that stand in water
    events,    \* outside events so far
    hist,      \* history, read by the properties only
    unsure     \* history: whether the hub may have lost hold of a close it owes

engVars == <<eng, rules, members, hubTodo, mqTodo, mq, devset, detValve, wet, events, hist,
             unsure>>
vars    == <<chanVars, engVars>>

Engine == [ incident  : BOOLEAN,                    \* g_leak_incident_active
            triggered : BOOLEAN,                    \* g_auto_close_triggered
            cooling   : BOOLEAN,                    \* within 10 s of g_last_auto_close_tick
            grace     : BOOLEAN,                    \* within 5 s of g_rmleak_assert_tick
            allclear  : {"off", "running", "due"},  \* g_all_clear_since and its 10 s
            owed      : BOOLEAN,                    \* g_rmleak_clear_owed
            confirmed : BOOLEAN,                    \* g_interlock_confirmed
            window    : {"off", "on", "due"},       \* g_override_state; due: its 24 h are over
            wasReady  : BOOLEAN,                    \* g_valve_was_ready
            purge     : BOOLEAN,                    \* g_valve_purge_owed
            active    : SUBSET Sources ]            \* g_active_leak_ids

TypeOK ==
    /\ ChanTypeOK
    /\ eng \in Engine
    /\ rules \in [auto : BOOLEAN, mask : SUBSET Sources]
    /\ members \subseteq Sensors
    /\ hubTodo \in Seq({"set", "close", "connect", "sync", "event"}) /\ Len(hubTodo) <= 4
    /\ mqTodo \in Seq(Writes \cup {"connect", "disconnect"}) /\ Len(mqTodo) <= 3
    /\ mq \in {"idle", "waiting", "enabling"}
    /\ devset \in BOOLEAN
    /\ detValve \in Valves \cup {NoValve}
    /\ wet \subseteq Sensors
    /\ events \in 0..MaxEvents
    /\ hist \in [rml    : [Valves -> {"none", "set", "hub", "press", "power"}],
                misled : SUBSET {"early", "seen", "inferred", "unseen", "unheard"}]
    /\ unsure \in BOOLEAN

Fresh(e) == [e EXCEPT !.triggered = FALSE, !.cooling = FALSE, !.grace = FALSE, !.allclear = "off",
                      !.owed = FALSE, !.confirmed = FALSE, !.wasReady = FALSE, !.purge = FALSE,
                      !.active = {}]

Init ==
    /\ ChanInit
    /\ eng = [incident |-> FALSE, triggered |-> FALSE, cooling |-> FALSE, grace |-> FALSE,
              allclear |-> "off", owed |-> FALSE, confirmed |-> FALSE, window |-> "off",
              wasReady |-> FALSE, purge |-> FALSE, active |-> {}]
    /\ rules = [auto |-> TRUE, mask |-> Sources]
    /\ members = Sensors
    /\ hubTodo = <<>> /\ mqTodo = <<>> /\ mq = "idle"
    /\ devset = FALSE
    /\ detValve = target
    /\ wet = {}
    /\ events = 0
    /\ hist = [rml |-> [v \in Valves |-> "none"], misled |-> {}]
    /\ unsure = FALSE

-----------------------------------------------------------------------------
(* What a hold of g_mutex does: transformers of [e |-> engine, p |-> slots].*)

Active(e) == e.active # {}
Window(e) == e.window # "off"

(* track_leak_source(id, true): a source that finds the table full still    *)
(* stops the all-clear timer, and is not remembered.                        *)
TrackWet(e, s) ==
    IF s \in e.active THEN e
    ELSE [e EXCEPT !.allclear = "off",
                   !.active = IF Cardinality(@) < MaxActive THEN @ \cup {s} ELSE @]

(* track_leak_source(id, false): the last source to dry starts the timer.   *)
TrackDryRestarts(st, s) ==     \* mutant: every dry report starts it anew
    LET e == [st.e EXCEPT !.active = @ \ {s}]
    IN [st EXCEPT !.e = IF Active(e) \/ ~e.incident THEN e ELSE [e EXCEPT !.allclear = "running"]]
TrackDry(st, s) ==
    LET e == [st.e EXCEPT !.active = @ \ {s}]
    IN IF Active(e) THEN [st EXCEPT !.e = e]
       ELSE [e |-> [e EXCEPT !.triggered = FALSE,
                             !.allclear = IF e.incident /\ @ = "off" THEN "running" ELSE @],
             p |-> IF e.triggered THEN CancelPendingClose(st.p) ELSE st.p]

Latched(e)  == [e EXCEPT !.incident = TRUE, !.confirmed = @ /\ e.incident]
Released(e) == [e EXCEPT !.incident = FALSE, !.triggered = FALSE, !.allclear = "off",
                         !.confirmed = FALSE]

(* A decision to set RMLEAK: any clear of the hub's own is overtaken.       *)
AssertingSeen(e) == [e EXCEPT !.grace = TRUE, !.owed = FALSE, !.confirmed = TRUE]     \* mutant
Asserting(e) == [e EXCEPT !.grace = TRUE, !.owed = FALSE, !.confirmed = FALSE]

(* A decision to close for the sources that are wet now.                    *)
Closing(e) == [Asserting(Latched(e)) EXCEPT !.triggered = TRUE, !.allclear = "off"]

(* note_interlock_seen()                                                    *)
Seen(e) == [e EXCEPT !.confirmed = @ \/ ~e.owed]

ReplacedKeeps(st) == LET d == TrackDry(st, Probe) IN [d EXCEPT !.e.purge = FALSE]     \* mutant

(* valve_replaced_locked()                                                  *)
Replaced(st) ==
    LET d == TrackDry(st, Probe)
        e == [d.e EXCEPT !.owed = FALSE, !.confirmed = FALSE, !.purge = FALSE]
    IN [d EXCEPT !.e = IF e.incident /\ ~Active(e) THEN [Released(e) EXCEPT !.grace = FALSE]
                                                   ELSE e]

(* The state a hold starts from: valve_purge_if_owed() has run.             *)
Held == LET st == [e |-> eng, p |-> pend] IN IF eng.purge THEN Replaced(st) ELSE st

Commit(e, p) == eng' = e /\ pend' = p

(* The commands of a close, after the mutex is given: the CONNECT only when *)
(* the valve is not linked.                                                 *)
CloseNoLock == IF HasTarget THEN <<"close", "connect">> ELSE <<>>     \* mutant
CloseCmds == IF ~HasTarget THEN <<>>
             ELSE IF Linked THEN <<"set", "close">> ELSE <<"set", "close", "connect">>

-----------------------------------------------------------------------------
(* The hub loop.                                                            *)

(* An outside event of kind k.                                              *)
Event(k) == k \in Kinds /\ events < MaxEvents /\ events' = events + 1

(* A pass of the loop applies a device-set change, ticks, and takes at most *)
(* one event.  In a "busy" event a lock is held for longer than the loop    *)
(* waits: the change is then left to a later pass, or the tick skipped.     *)
AtPass == hubTodo \in {<<>>, <<"event">>}
Skipping(something) == IF something THEN Event("busy") ELSE UNCHANGED events

(* History: a SET that finds ble_cmd_queue full is lost.                    *)
SetDropped(c) == c = "set" /\ ~CanPost(cmdq)

HubPost ==
    /\ hubTodo # <<>> /\ Head(hubTodo) \notin {"sync", "event"}
    /\ cmdq' = Posted(cmdq, Head(hubTodo))
    /\ hubTodo' = Tail(hubTodo)
    /\ unsure' = (unsure \/ SetDropped(Head(hubTodo)))
    /\ UNCHANGED <<target, wanted, pend, link, air, cache, updq, dev, eng, rules, members,
                   mqTodo, mq, devset, detValve, wet, events, hist>>

hubFrame == UNCHANGED <<target, wanted, link, air, cache, dev, rules, members, mqTodo, mq, wet>>

(* History: what the engine concluded from the cache while a command that   *)
(* will make the cache wrong was on its way, or of a lock never delivered.  *)
(* It trusts wrongly a lock that is not there, or that is about to go.      *)
OnItsWay(c) ==
    c \in {pend.rml, pend.valve} \cup UNION {Range(q) : q \in {hubTodo, mqTodo, cmdq, air}}
TrustsWrongly == ~dev[target].rml \/ OnItsWay("clear")
Pressed == hist.rml[target] \in {"press", "power"}
Trusted ==
    hist' = [hist EXCEPT !.misled = @ \cup
      (IF eng.owed /\ ~eng'.owed /\ ~eng'.incident /\ OnItsWay("set") THEN {"early"} ELSE {})
      \cup (IF ~eng.confirmed /\ eng'.confirmed /\ OnItsWay("clear") THEN {"seen"} ELSE {})
      \cup (IF ~Window(eng) /\ Window(eng') /\ updq' # updq /\ ~Pressed
              THEN {"inferred"} ELSE {})]

(* rules_engine_evaluate_leak() of a dry report.                            *)
EvaluateDry(s) ==
    LET st == TrackDry(Held, s)
    IN Commit(st.e, st.p) /\ hubTodo' = <<>> /\ UNCHANGED unsure

EvaluateWetOnce(s) ==     \* mutant: one close for an incident, however it ends
    LET st == Held
        e  == TrackWet(st.e, s)
    IN \/ (Window(e) \/ e.triggered) /\ Commit(Latched(e), st.p) /\ hubTodo' = <<>>
          /\ UNCHANGED unsure
       \/ /\ ~(Window(e) \/ e.triggered)
          /\ Commit([Asserting(Latched(e)) EXCEPT !.triggered = TRUE, !.cooling = TRUE], st.p)
          /\ hubTodo' = CloseCmds /\ unsure' = FALSE

(* ... and of a wet one, from a member: every outcome tracks the source.    *)
EvaluateWet(s) ==
    LET st       == Held
        e        == TrackWet(st.e, s)
        eligible == rules.auto /\ s \in rules.mask
        locked   == /\ e.incident /\ ~e.owed
                    /\ HasTarget /\ cache.pos = "closed" /\ cache.rml
        quiet    == e.triggered /\ e.cooling
    IN \/ /\ ~eligible
          /\ Commit(e, st.p) /\ hubTodo' = <<>> /\ UNCHANGED unsure
       \/ /\ eligible /\ (Window(e) \/ locked \/ quiet)
          /\ Commit(Latched(e), st.p) /\ hubTodo' = <<>>
          /\ unsure' = IF locked THEN TrustsWrongly ELSE unsure
       \/ /\ eligible /\ ~(Window(e) \/ locked \/ quiet)
          /\ Commit([Asserting(Latched(e)) EXCEPT !.triggered = TRUE, !.cooling = TRUE], st.p)
          /\ hubTodo' = CloseCmds /\ unsure' = FALSE

(* A sensor's report, a heartbeat as well as a change.                      *)
Report(s) ==
    /\ AtPass
    /\ Skipping(hubTodo = <<>>)
    /\ s \in members
    /\ IF s \in wet THEN EvaluateWet(s) ELSE EvaluateDry(s)
    /\ UNCHANGED <<cmdq, updq, devset, detValve>>
    /\ hubFrame /\ UNCHANGED hist

(* rules_engine_on_valve_connected()                                        *)
Reconcile ==
    LET st  == Held
        e   == [st.e EXCEPT !.grace = @ \/ st.e.incident \/ st.e.triggered]
        act == Active(e) /\ rules.auto
        Ends(f) == Commit(f, st.p) /\ hubTodo' = <<>> /\ UNCHANGED cmdq
    IN \/ /\ Window(e)
          /\ Ends(IF cache.rml THEN Latched(e) ELSE e) /\ UNCHANGED unsure
       \/ /\ ~Window(e) /\ act
          /\ cache.pos = "closed" /\ cache.rml /\ ~e.owed
          /\ Ends(Seen([e EXCEPT !.incident = TRUE, !.triggered = TRUE, !.grace = TRUE,
                                 !.allclear = "off"]))
          /\ unsure' = TrustsWrongly
       \/ /\ ~Window(e) /\ act
          /\ ~(cache.pos = "closed" /\ cache.rml /\ ~e.owed)
          /\ Commit(Closing(e), st.p)
          /\ hubTodo' = <<"set", "close">>
          /\ UNCHANGED cmdq
          /\ unsure' = FALSE
       \/ /\ ~Window(e) /\ ~act /\ e.incident /\ ~cache.rml /\ cache.pos = "open"
          /\ Ends([e EXCEPT !.incident = FALSE, !.triggered = FALSE, !.allclear = "off",
                            !.window = "on"])
          /\ UNCHANGED unsure
       \/ /\ ~Window(e) /\ ~act /\ e.incident /\ ~cache.rml /\ cache.pos # "open"
          /\ Commit(Asserting(e), st.p)
          /\ hubTodo' = <<"set">>
          /\ UNCHANGED <<cmdq, unsure>>
       \/ /\ ~Window(e) /\ ~act /\ ~e.incident /\ cache.rml /\ e.owed
          /\ Commit(e, st.p)
          /\ cmdq' = Posted(cmdq, "clear")
          /\ hubTodo' = <<>> /\ UNCHANGED unsure
       \/ /\ ~Window(e) /\ ~act /\ ~e.incident /\ cache.rml /\ ~e.owed
          /\ Ends(Latched(e)) /\ UNCHANGED unsure
       \/ /\ ~Window(e) /\ ~act /\ e.incident /\ cache.rml
          /\ Ends(Seen(e)) /\ UNCHANGED unsure
       \/ /\ ~Window(e) /\ ~act /\ ~e.incident /\ ~cache.rml
          /\ Ends(e) /\ UNCHANGED unsure

(* An update of the valve, acted on only while the live link is the         *)
(* provisioned valve's.  "busy": g_mutex not taken in 1 s, CONNECTED lost.  *)
ValveUpdate ==
    /\ AtPass
    /\ updq # <<>>
    /\ updq' = Tail(updq)
    /\ \/ /\ Head(updq) = "leak" /\ LinkIsTarget
          /\ Skipping(hubTodo = <<>>)
          /\ IF cache.leak THEN EvaluateWet(Probe) ELSE EvaluateDry(Probe)
          /\ UNCHANGED cmdq
       \/ /\ Head(updq) = "connected" /\ LinkIsTarget
          /\ Skipping(hubTodo = <<>>)
          /\ Reconcile
       \/ /\ \/ ~LinkIsTarget /\ Skipping(hubTodo = <<>>) /\ UNCHANGED unsure
             \/ LinkIsTarget /\ Head(updq) = "connected" /\ Event("busy") /\ unsure' = TRUE
          /\ hubTodo' = <<>> /\ UNCHANGED <<eng, pend, cmdq>>
    /\ UNCHANGED <<devset, detValve>>
    /\ hubFrame /\ Trusted

(* rules_engine_tick(), in the order of its checks.                         *)
Tick ==
    /\ AtPass
    /\ Skipping(devset)
    /\ LET st   == Held
           over == st.e.window = "due"
           e    == IF over THEN [st.e EXCEPT !.window = "off"] ELSE st.e
           \* the window ended over a leak that is still wet
           rearm == over /\ Active(e) /\ rules.auto
           s    == IF Ready /\ cache.rml THEN Seen(e) ELSE e
           look == ~Window(e) /\ Ready
           Ends(f) == Commit(f, st.p) /\ hubTodo' = <<"event">> /\ UNCHANGED <<cmdq, unsure>>
       IN \/ /\ rearm
             /\ Commit(Closing(e), st.p)
             /\ hubTodo' = Append(CloseCmds, "event") /\ unsure' = FALSE
             /\ UNCHANGED cmdq
          \/ /\ ~rearm /\ ~e.incident
             /\ Ends([e EXCEPT !.owed = @ /\ ~(Ready /\ ~cache.rml)])
          \/ /\ ~rearm /\ e.incident /\ e.allclear = "due"
             /\ Commit([Released(s) EXCEPT !.owed = @ \/ CanPost(cmdq)], st.p)
             /\ cmdq' = Posted(cmdq, "clear")
             /\ hubTodo' = <<"event">> /\ UNCHANGED unsure
          \/ /\ ~rearm /\ e.incident /\ e.allclear # "due"
             /\ \/ /\ ~look
                   /\ Ends([s EXCEPT !.wasReady = @ /\ Ready])
                \/ /\ look /\ s.grace
                   /\ Ends(s)
                \/ /\ look /\ ~s.grace /\ ~s.wasReady
                   /\ Ends([s EXCEPT !.wasReady = TRUE, !.grace = TRUE])
                \/ /\ look /\ ~s.grace /\ s.wasReady /\ (cache.rml \/ (~s.owed /\ ~s.confirmed))
                   /\ Ends(s)
                \/ /\ look /\ ~s.grace /\ s.wasReady /\ ~cache.rml /\ s.owed
                   /\ Ends([s EXCEPT !.owed = FALSE, !.confirmed = FALSE])
                \/ /\ look /\ ~s.grace /\ s.wasReady /\ ~cache.rml /\ ~s.owed /\ s.confirmed
                   /\ Ends([Released(s) EXCEPT !.window = "on"])
    /\ UNCHANGED <<updq, devset, detValve>>
    /\ Trusted
    /\ hubFrame

(* apply_device_set_change(): rules_engine_forget_unprovisioned() dries the *)
(* sources that are no longer provisioned, then sync_valve_detectors().     *)
ForgetUnprovisioned ==
    /\ AtPass
    /\ devset
    /\ devset' = FALSE
    /\ hubTodo' = <<"sync">>
    /\ LET st   == Held
           keep == members \cup (IF HasTarget THEN {Probe} ELSE {})
           gone == st.e.active \ keep
           left == IF gone = {} THEN st
                   ELSE LET s == CHOOSE s \in gone : TRUE
                        IN TrackDry([st EXCEPT !.e.active = (@ \cap keep) \cup {s}], s)
       IN Commit(left.e, left.p)
    /\ UNCHANGED <<cmdq, updq, detValve, events>>
    /\ hubFrame /\ UNCHANGED <<hist, unsure>>

SyncNotOwed ==     \* mutant: a busy g_mutex loses the purge
    /\ hubTodo = <<"sync">> /\ hubTodo' = <<>>
    /\ detValve' = target
    /\ UNCHANGED <<eng, pend, cmdq, updq, devset, events>>
    /\ hubFrame /\ UNCHANGED <<hist, unsure>>

(* A valve the loop has acted for and that is provisioned no more:          *)
(* rules_engine_on_valve_replaced(), owed to the next hold if g_mutex stays *)
(* busy.                                                                    *)
SyncValveDetectors ==
    /\ hubTodo = <<"sync">>
    /\ hubTodo' = <<>>
    /\ detValve' = target
    /\ \/ /\ target = detValve \/ detValve = NoValve
          /\ UNCHANGED <<eng, pend, events>>
       \/ /\ target # detValve /\ detValve # NoValve
          /\ \/ /\ LET st == Replaced([e |-> eng, p |-> pend]) IN Commit(st.e, st.p)
                /\ UNCHANGED events
             \/ Event("busy") /\ eng' = [eng EXCEPT !.purge = TRUE] /\ UNCHANGED pend
    /\ UNCHANGED <<cmdq, updq, devset>>
    /\ hubFrame /\ UNCHANGED <<hist, unsure>>

-----------------------------------------------------------------------------
(* Cloud commands, on the MQTT task.  Each is an outside event.             *)

MqFree == mq = "idle" /\ mqTodo = <<>>

MqPost ==
    /\ mqTodo # <<>>
    /\ LET c == Head(mqTodo) IN
       cmdq' = IF c = "disconnect" /\ Len(cmdq) < CmdDepth THEN Append(cmdq, c) ELSE Posted(cmdq, c)
    /\ mqTodo' = Tail(mqTodo)
    /\ unsure' = (unsure \/ SetDropped(Head(mqTodo)))
    /\ UNCHANGED <<target, wanted, pend, link, air, cache, updq, dev, eng, rules, members,
                   hubTodo, mq, devset, detValve, wet, events, hist>>

mqStays == UNCHANGED <<link, air, cache, updq, dev, hubTodo, detValve, wet>>
mqFrame == mqStays /\ UNCHANGED <<hist, unsure>>
mqKeeps == UNCHANGED <<target, wanted, rules, members, devset>>

(* rules_engine_reset_leak_incident(): the CLEAR is posted under the mutex. *)
LeakReset ==
    /\ MqFree /\ Event("reset")
    /\ LET st    == Held
           clear == st.e.incident \/ cache.rml
           e     == [Released(st.e) EXCEPT !.grace = FALSE, !.window = "off",
                                           !.owed = @ \/ (clear /\ CanPost(cmdq))]
       IN \/ Active(st.e) /\ Commit(st.e, st.p) /\ UNCHANGED cmdq
          \/ /\ ~Active(st.e)
             /\ Commit(e, st.p)
             /\ cmdq' = IF clear THEN Posted(cmdq, "clear") ELSE cmdq
    /\ UNCHANGED <<mqTodo, mq>>
    /\ mqKeeps /\ mqFrame

(* rules_engine_cancel_override()                                           *)
CancelOverride ==
    /\ MqFree /\ Event("cancel")
    /\ LET st == Held
           e  == [st.e EXCEPT !.window = "off"]
       IN \/ ~Window(st.e) /\ Commit(st.e, st.p) /\ UNCHANGED <<mqTodo, unsure>>
          \/ /\ Window(st.e) /\ Active(e) /\ rules.auto
             /\ Commit(Closing(e), st.p)
             /\ mqTodo' = CloseCmds /\ unsure' = FALSE
          \/ /\ Window(st.e) /\ ~(Active(e) /\ rules.auto)
             /\ Commit([Released(e) EXCEPT !.grace = FALSE], st.p)
             /\ UNCHANGED <<mqTodo, unsure>>
    /\ UNCHANGED <<cmdq, mq>>
    /\ mqKeeps /\ mqStays /\ UNCHANGED hist

(* rules_engine_enable_override_remote(): waits up to 10 s for the link,    *)
(* checks without the mutex, then decides again under it.                   *)
EnableRequest ==
    /\ MqFree /\ Event("enable")
    /\ HasTarget
    /\ mq' = "waiting"
    /\ mqTodo' = IF Ready THEN <<>> ELSE <<"connect">>
    /\ UNCHANGED <<eng, pend, cmdq>>
    /\ mqKeeps /\ mqFrame

EnableCheck ==
    /\ mq = "waiting" /\ mqTodo = <<>>
    /\ \/ Ready /\ (Window(eng) \/ eng.incident \/ cache.rml) /\ ~cache.leak /\ mq' = "enabling"
       \/ Ready /\ ((~Window(eng) /\ ~eng.incident /\ ~cache.rml) \/ cache.leak) /\ mq' = "idle"
       \/ ~Ready /\ mq' = "idle"
    /\ UNCHANGED <<eng, pend, cmdq, mqTodo, events>>
    /\ mqKeeps /\ mqFrame

EnableOverride ==
    /\ mq = "enabling"
    /\ mq' = "idle"
    /\ LET st == Held
           ok == Window(st.e) \/ st.e.incident \/ (cache.rml /\ ~st.e.owed)
       IN \/ ~ok /\ Commit(st.e, st.p) /\ UNCHANGED mqTodo
          \/ /\ ok
             /\ Commit([Released(st.e) EXCEPT !.grace = FALSE, !.owed = TRUE, !.window = "on"],
                       st.p)
             /\ mqTodo' = <<"clear", "open">>
    /\ UNCHANGED <<cmdq, events>>
    /\ mqKeeps /\ mqFrame

(* c2d_valve_command(): an OPEN is refused behind the interlock.            *)
ValveCommand(c) ==
    /\ MqFree /\ Event(c)
    /\ HasTarget
    /\ c = "open" => ~cache.rml /\ (eng.incident => Window(eng))
    /\ mqTodo' = <<"connect", c>>
    /\ UNCHANGED <<eng, pend, cmdq, mq>>
    /\ mqKeeps /\ mqFrame

(* RULES_CONFIG                                                             *)
RulesConfig ==
    /\ MqFree /\ Event("rules")
    /\ \E auto \in BOOLEAN, mask \in SUBSET Sources :
          /\ rules' = [auto |-> auto, mask |-> mask]
          /\ rules' # rules
    \* history: the sources that are wet are not looked at again before their next reports
    /\ unsure' = (unsure \/ Active(eng))
    /\ UNCHANGED <<eng, pend, cmdq, mqTodo, mq, target, wanted, members, devset>>
    /\ mqStays /\ UNCHANGED hist

(* rules_engine_reset_all(), when a removal leaves the hub without devices. *)
ResetAll(p) ==
    /\ eng' = [Fresh(eng) EXCEPT !.incident = FALSE, !.window = "off"]
    /\ pend' = CancelPendingClose(p)

(* A sensor is provisioned or decommissioned.                               *)
SensorChange(s) ==
    /\ MqFree /\ Event("sensor")
    /\ members' = IF s \in members THEN members \ {s} ELSE members \cup {s}
    /\ IF members' = {} /\ ~HasTarget THEN ResetAll(pend) ELSE UNCHANGED <<eng, pend>>
    /\ devset' = TRUE
    /\ UNCHANGED <<cmdq, mqTodo, mq, target, wanted, rules>>
    /\ mqFrame

(* A provision naming another valve (iothub_apply_provisioned_mac()), or a  *)
(* decommission of the valve.                                               *)
ValveChange(v) ==
    /\ MqFree /\ Event("swap")
    /\ v # target
    /\ target' = v
    /\ wanted' = (wanted /\ v # NoValve)
    /\ cmdq' = QueueFor(v)
    /\ IF v = NoValve /\ members = {} THEN ResetAll(NoPend) ELSE pend' = NoPend /\ UNCHANGED eng
    /\ mqTodo' = IF v = NoValve THEN <<"disconnect">> ELSE <<"connect">>
    /\ devset' = TRUE
    /\ UNCHANGED <<mq, rules, members>>
    \* history: the loop will not see that another valve was provisioned: this one
    \* is the one it knows, or it never knew the one that goes
    /\ hist' = [hist EXCEPT !.misled = @ \cup
          (IF v = detValve \/ (detValve = NoValve /\ HasTarget) THEN {"unseen"} ELSE {})]
    \* ... and its link, should it still be up, is not reconciled again
    /\ unsure' = (unsure \/ v = link.peer)
    /\ mqStays

-----------------------------------------------------------------------------
(* The channel's steps, and what time and the outside do.                   *)

engHolds == UNCHANGED <<eng, rules, members, hubTodo, mqTodo, mq, devset, detValve, wet>>
engKeeps == engHolds /\ UNCHANGED unsure

Quiet == UNCHANGED <<events, hist>>

BleTakeCmd   == TakeCmd /\ engKeeps /\ Quiet
BleLinkUp    == LinkUp /\ engKeeps /\ Quiet
BleSetupDone ==
    /\ SetupDone /\ engHolds /\ Quiet
    /\ unsure' = (unsure \/ (LinkIsTarget /\ Len(updq) >= UpdDepth))   \* CONNECTED is lost

(* History: a change of the linked valve's lock that the hub does not learn *)
(* of: it is not the target's (on_notify()), or its read-back was lost.     *)
Unheard(v) ==
    IF link.peer = v /\ dev'[v].rml # dev[v].rml /\ dev'[v].rml # cache'.rml
      THEN {"unheard"} ELSE {}
LockIs(v, by) == hist' = [hist EXCEPT !.rml[v] = by, !.misled = @ \cup Unheard(v)]

BleDeliver ==
    /\ Deliver
    /\ LET c == Head(air) IN
       LockIs(link.peer, IF c = "set" THEN c
                         ELSE IF c = "clear" /\ dev[link.peer].rml THEN "hub"
                         ELSE hist.rml[link.peer])
    /\ engKeeps /\ UNCHANGED events

(* A link the hub asked to close, and one that is lost.                     *)
BleTerminated == link.term /\ LinkDrop /\ engKeeps /\ Quiet
BleLinkLost   == Event("drop") /\ LinkDrop /\ engKeeps /\ UNCHANGED hist

RmlCleared(v, by) == LockIs(v, IF dev[v].rml /\ ~dev'[v].rml THEN by ELSE hist.rml[v])

ButtonPress(v) == Event("press") /\ Press(v) /\ RmlCleared(v, "press") /\ engKeeps
ProbeChange(v) == Event("flood") /\ FloodChange(v) /\ UNCHANGED hist /\ engKeeps
ValvePower(v)  == Event("power") /\ PowerLoss(v) /\ RmlCleared(v, "power") /\ engKeeps

WaterChange(s) ==
    /\ Event("water")
    /\ wet' = IF s \in wet THEN wet \ {s} ELSE wet \cup {s}
    /\ UNCHANGED <<chanVars, eng, rules, members, hubTodo, mqTodo, mq, devset, detValve, hist,
                   unsure>>

(* Timers.  With Prompt, a command on its way is written to the valve or    *)
(* pended before the engine's timers (5 s and 10 s) run out.                *)
UnderWay ==
    \/ air # <<>>
    \/ \E q \in {hubTodo, mqTodo, cmdq} : Range(q) \cap (Writes \cup {"replay"}) # {}

Elapse(e) ==
    /\ eng' = e
    /\ UNCHANGED <<chanVars, rules, members, hubTodo, mqTodo, mq, devset, detValve, wet, hist,
                   unsure>>

TimerRuns == Prompt => ~UnderWay

GraceEnds    == eng.grace /\ TimerRuns /\ Elapse([eng EXCEPT !.grace = FALSE]) /\ UNCHANGED events
CooldownEnds == eng.cooling /\ TimerRuns /\ Elapse([eng EXCEPT !.cooling = FALSE])
                /\ UNCHANGED events
ClearDue     == eng.allclear = "running" /\ TimerRuns /\ Elapse([eng EXCEPT !.allclear = "due"])
                /\ UNCHANGED events
WindowLapses == eng.window = "on" /\ TimerRuns /\ Event("expire")     \* mutant: no re-arm
                /\ Elapse([eng EXCEPT !.window = "off"])
WindowDue    == eng.window = "on" /\ TimerRuns /\ Event("expire") /\ Elapse([eng EXCEPT !.window = "due"])

(* A restart: RAM goes, NVS and the valves stay; boot applies the target    *)
(* and asks for the link.                                                   *)
Reboot ==
    /\ Event("reboot")
    /\ eng' = Fresh(eng)
    /\ cmdq' = IF HasTarget THEN <<"connect">> ELSE <<>>
    /\ pend' = NoPend
    /\ wanted' = FALSE
    /\ Unlink
    /\ updq' = <<>>
    /\ hubTodo' = <<>> /\ mqTodo' = <<>> /\ mq' = "idle"
    /\ devset' = FALSE
    /\ detValve' = target
    /\ UNCHANGED <<target, dev, rules, members, wet, hist, unsure>>

Hub == HubPost \/ ValveUpdate \/ Tick \/ ForgetUnprovisioned \/ SyncValveDetectors
       \/ \E s \in Sensors : Report(s)
Mqtt == MqPost \/ LeakReset \/ CancelOverride \/ EnableRequest \/ EnableCheck \/ EnableOverride
        \/ ValveCommand("open") \/ ValveCommand("close") \/ RulesConfig
        \/ (\E s \in Sensors : SensorChange(s))
        \/ (\E v \in Valves \cup {NoValve} : ValveChange(v))
Ble == BleTakeCmd \/ BleLinkUp \/ BleSetupDone \/ BleDeliver \/ BleTerminated
Timers == GraceEnds \/ CooldownEnds \/ ClearDue
Outside == BleLinkLost \/ WindowDue \/ Reboot \/ (\E s \in Sensors : WaterChange(s))
           \/ \E v \in Valves : ButtonPress(v) \/ ProbeChange(v) \/ ValvePower(v)

Next == Hub \/ Mqtt \/ Ble \/ Timers \/ Outside

Spec == Init /\ [][Next]_vars

(* Every task keeps running, sensors report at least at each heartbeat, a   *)
(* valve in range answers its link.  Outside events are not fair, and       *)
(* finite: from some point on, the link is no longer lost.                  *)
Fairness ==
    /\ WF_vars(HubPost) /\ SF_vars(ValveUpdate) /\ WF_vars(Tick)
    /\ WF_vars(ForgetUnprovisioned) /\ WF_vars(SyncValveDetectors)
    /\ \A s \in Sensors : SF_vars(Report(s))
    /\ WF_vars(MqPost) /\ WF_vars(EnableCheck) /\ WF_vars(EnableOverride)
    /\ WF_vars(BleTakeCmd) /\ WF_vars(BleLinkUp) /\ WF_vars(BleSetupDone)
    /\ WF_vars(BleDeliver) /\ WF_vars(BleTerminated)
    /\ WF_vars(GraceEnds) /\ WF_vars(CooldownEnds) /\ WF_vars(ClearDue)

FairSpec == Spec /\ Fairness

-----------------------------------------------------------------------------
(* Properties.                                                              *)

WindowStarts == eng.window = "off" /\ eng'.window = "on"

WindowByTick == WindowStarts /\ updq' = updq /\ mq' = mq

(* B3: a tick takes a clear RMLEAK for a press of the valve's button only   *)
(* if the valve cleared it itself: never the hub's own clear landing, never *)
(* a lock that did not reach the valve (lines 2123-2163).                   *)
NoFalsePress == [][WindowByTick => Pressed]_vars

(* The only ways to a false press: the lock was noted as seen (lines 1771,  *)
(* 1934, 2075) while the CLEAR that would lift it was on its way, or the    *)
(* hub missed a change of the lock on its link, or a busy g_mutex has kept  *)
(* the loop from applying an exchange of the valve, or from seeing it:      *)
(* exchanged and back, or exchanged again before the loop knew of the first *)
(* (app_iothub.c, lines 998 and 1008).                                      *)
PressIsReal ==
    [][WindowByTick => Pressed \/ hist.misled \cap {"seen", "unheard", "unseen"} # {}
                               \/ devset]_vars

Threat == /\ eng.incident /\ eng.active \cap rules.mask # {} /\ rules.auto
          /\ ~Window(eng) /\ HasTarget

(* A latched leak is never left to a valve that is not locked and that      *)
(* nothing is going to lock: RMLEAK is set and the valve closed, or a SET   *)
(* is on its way, or the link is still to be reconciled, unless the valve's *)
(* own button or power lifted the lock, or the hub lost hold of it: trusted *)
(* a lock that is not there or that a CLEAR is about to lift (lines 974 and *)
(* 1762), lost a SET or a CONNECTED to a full queue or a busy g_mutex, had  *)
(* its rules changed over a wet source, or was given back the valve of a    *)
(* link it was closing.                                                     *)
LeakGuarded ==
    Threat => \/ dev[target].rml /\ dev[target].pos = "closed"
              \/ OnItsWay("set")
              \/ ~Ready \/ "connected" \in Range(updq)
              \/ Pressed \/ unsure

(* With nothing on its way and the link reconciled, the hub and the valve   *)
(* agree on the lock: over a wet source it is set unless the valve lifted   *)
(* it itself, and with no incident latched it is lifted or owed a clear.    *)
Settled == /\ Ready /\ pend = NoPend /\ ~UnderWay
           /\ "connected" \notin Range(updq) /\ mq # "enabling"
LockAgrees ==
    Settled /\ ~Window(eng) /\ hist.misled = {} =>
      /\ Threat => dev[target].rml \/ Pressed
      /\ ~eng.incident => ~dev[target].rml \/ eng.owed

(* A device-set change leaves nothing behind once the loop has applied it:  *)
(* only provisioned sources count, and a lock noted as seen was one of the  *)
(* valve that is provisioned now.  An exchange the loop cannot see is no    *)
(* change to it.                                                            *)
Applied == ~devset /\ hubTodo # <<"sync">> /\ ~eng.purge /\ "unseen" \notin hist.misled
NothingOfThePast ==
    Applied => /\ eng.active \subseteq members \cup (IF HasTarget THEN {Probe} ELSE {})
               /\ eng.confirmed => HasTarget /\ hist.rml[target] # "none"

Wet == \/ \E s \in wet \cap members : s \in rules.mask

(* A leak that stays is closed on, whatever was lost on the way.            *)
LeakCloses ==
    <>[](Wet /\ rules.auto /\ ~Window(eng) /\ HasTarget)
      => <>[](HasTarget /\ dev[target].pos = "closed")

(* E1: once everything stays dry, the 10 s auto-clear lifts the lock, on    *)
(* the hub and on the valve, whatever was lost on the way.                  *)
Dry == HasTarget /\ wet \cap members = {} /\ ~dev[target].flood /\ ~Window(eng)
DryReleases == <>[]Dry => <>[](HasTarget /\ ~eng.incident /\ ~dev[target].rml)

(* E3: a LEAK_RESET with everything dry lifts the lock on the valve too.    *)
ResetLifts == <>[]Dry => <>[](HasTarget /\ ~dev[target].rml)
=============================================================================
