# A TLA+ model of the eFloStop Wi-Fi hub

The hub (`src/main`, ESP-IDF, C) listens to leak sensors over BLE and LoRa, closes a
motorised water valve over BLE when one gets wet, keeps the valve locked (RMLEAK) until
everything is dry or a person overrides it, and reports to Azure IoT Hub over MQTT.
This directory holds TLA+ modules of it, the TLC configurations that check them on small
instances, and proofs checked by TLAPS. Source lines are given as `file.c:line`, relative
to `src/main` unless they start with `src/`.

Contents: [inventory](#inventory) - [plan](#plan) - [modules](#modules-and-the-code) -
[runs](#runs) - [bounds](#bounds) - [fairness](#fairness) - [proofs](#proofs) -
[findings](#findings) - [not modelled](#not-modelled).

## Inventory

### Tasks

| task | where | runs |
| --- | --- | --- |
| hub loop | `iothub/app_iothub.c` `iothub_task` | device-set changes, the rules engine's tick, one event a pass (sensor report or valve update), kept reports |
| MQTT | esp-mqtt's task, `iothub/app_iothub.c`, `commands/c2d_commands.c` | cloud commands (C2D), twin, session events |
| valve | `ble_valve/app_ble_valve.c` `ble_valve_task` | commands to the valve, one at a time |
| BLE host | NimBLE's task | link events, GATT setup, notifications, read results; scanner callbacks |
| cloud_tx | `iothub/app_iothub.c`, `telemetry/telemetry_v2.c` | everything published; the offline buffer |
| wifi_task, wifi_manager | `app_wifi`, `src/components/wifi_portal` | stations, portal, start and stop of the MQTT client |

They share the rules engine's `g_mutex`, provisioning's mutex, the valve's
`pending_mutex`, FreeRTOS queues with fixed depths, and flags.

### Components

| component | state | operations | what makes it correct |
| --- | --- | --- | --- |
| **Rules engine** `rules_engine/` | incident latch and 24 h override window (NVS too), active sources, auto-close/cooldown/grace timers, all-clear timer, owed clear, seen-lock flag, owed purge, kept reports | evaluate a report, reconcile on reconnect, tick, LEAK_RESET, override enable/cancel, rules config, forget unprovisioned, valve replaced, reset all | a latched leak is closed on; the lock is lifted only when dry, by a person or by command; the hub's own clear is not read as a button press; nothing of a removed device counts |
| **Valve channel** `ble_valve/` | command queue (10), update queue, two pending slots, link and setup state, cache of the valve, target | post, write with retries, pend, replay token, setup, read back, notify, change of target, cancel pended close | the last decision wins: no command lost on a lost link, none overtakes the one it depends on; the cache never shows another valve |
| **Hub loop** `iothub/` | last device set, `s_det_valve_mac`, telemetry event taken per pass, lifecycle and session flags | one pass; heartbeats; admission, stop and resume of the cloud; provision and decommission | order of the pass; no event stranded; a decommission ends the deployment |
| **C2D commands** `commands/` | fragments being assembled | parse, dispatch, acknowledge | a command is done once; its effect reaches the engine in the engine's order |
| **Offline buffer** `offline_buffer/` | ring of blobs in NVS, head/tail/count in RAM and NVS, presync mask | store, drain, stamp, clear | nothing stored is lost but to a full ring; oldest first; the date of an unsynced event is that of its own boot |
| **Telemetry sender** `telemetry/`, `cloud_tx` | FIFO, session generation, publish gate | enqueue, publish, replay, stop | at least once; no event overtakes its cause; no publish into a client being stopped |
| **Provisioning manager** | device set, rules, in RAM and NVS | provision, decommission, update, resave | RAM and NVS agree after a restart; no half-applied change |
| **BLE leak scanner** | per-sensor last state, deltas, heartbeats, queue; the scan executor's row, slot, blind time and recovery | advert in, event out; next slot, pass, cancel, lost scan | a change is never swallowed by the deduplication or a full queue; BLE is blind for 2.8 s at most |
| **LoRa receiver** | last counter and CRC per sensor, queue | packet in, event out | the same |
| **Radio policy** | requests for Wi-Fi pulses, the pulse that runs, spacing and pacing, the mode's facts | ask, end, grant, begin, retract, claim, pulse end | its invariants I1 to I8: the bound on blind time, a Connect not forgotten, the valve's claim not held off by Wi-Fi |
| **Health engine** | per-device last-seen, rating, alert flags | post, check | an offline device is reported, once; a full queue loses no transition |
| **Wi-Fi application** | AP tail, router retry, reset button stage | events, timers | the portal closes; a lost router is retried; a press has the stage it was held for |
| **DPS client, identity** | registration in progress, assigned hub | register, wait, time out | a late answer is not taken for the next attempt's |
| **Sensor metadata** | labels and locations by sensor | set, remove | follows the device set |
| **Wi-Fi portal** `src/components/wifi_portal` | a library's event loop | orders and callbacks | its AP/STA state machine |
| LEDs, monitor, UART, boot | output and start-up | - | - |

### What is hard here

* **Two decisions, one queue.** The engine decides under `g_mutex` and most commands are
  posted after it is given. Another task's decision can be posted in between.
* **A cache read as the truth.** What the hub knows of the valve are its last reports. A
  command on its way makes them wrong, and the engine infers a *button press* from them.
* **Three ways for a command to travel.** The queue, the two pending slots, and a replay
  token that goes to the front of the queue. A link may be lost at each point.
* **Restarts.** The incident and the window are in NVS; sources, owed clear, pended
  commands and all timers are not.
* **Change of the device set.** The old valve's link, cache, queued updates and probe are
  still there when the new one is provisioned; the hub loop learns of it later.
* **Busy locks.** The loop waits a bounded time and then skips; what it skipped is owed.
* **NVS in several keys** without a transaction (offline buffer, provisioning).

`PROJECT.json` lists every hazard with its line and the properties that cover it.

## Plan

Ordered by what a wrong behaviour costs: water first, then evidence, then convenience.

1. `ValveChannel`, `RulesEngine`, `RulesEngineProofs`: the leak path end to end. **Done;
   types, the change of the device set, the button's press and the guarded leak proved.**
2. `KeptReports`, `KeptReportsProofs`: reports that found the lock busy. **Done, proved.**
3. `EventLog` (abstract: a bounded log), `OfflineBuffer` (the NVS ring),
   `OfflineBufferProofs`: the ring implements the log, across restarts. **Done, proved.**
4. `MqttSession` (admission, SAS token, client stop and resume) and `CloudTx` over it
   (FIFO, sessions, publish gate, replay, twin, decommission), `CloudTxProofs`.
   **Done, all its safety proved.**
5. `OverrideWindow`, proved in `HubPartsProofs`: the 24 h window by uptime, by an unsynced
   epoch and by wall time, re-based at clock sync and restart. **Done, proved.**
6. `Provisioning`, `ProvisioningProofs`: the device set and the rules in RAM and NVS with
   failing and cut writes. **Done, proved.**
7. `HealthEngine`, `HealthEngineProofs`: the bounded queues, the alerts, the lost link.
   **Done, proved.**
8. `DpsClient`, proved in `HubPartsProofs`: the registration and its cache. **Done, proved.**
9. `RadioPolicy`, `RadioPolicyProofs`: the scan executor and the pulses of Wi-Fi and of the
   valve's claim; side by side with `CloudTx` in `UplinkParts`. **Done, proved.**
10. Left: the scanner's and LoRa's deduplication in front of their queues; I2b's rolling
   window and the stations' table; the Wi-Fi application's tail, retries and button; the
   claim's liveness; sensor metadata; acknowledgements of cloud commands.
11. Left to prove: `LockAgrees`. As it stands it does not hold for every value of the
    constants (see [proofs](#proofs)); it needs a second history, of the CLEARs that are
    lost, as `unsure` is of the SETs.

Abstract specifications: `EventLog` for the buffer (done). `CloudTx` builds on what
`EventLog` promises, with the buffer as a bounded sequence. Still worth stating: a lock
that is set from the first wet report until dry or overridden, for the engine and the
channel.

## Modules and the code

### ValveChannel

Models `ble_valve/app_ble_valve.c` at the grain the engine sees. One step of the valve
task is a whole command, its write attempts included; an accepted write travels in `air`
and its read-back follows it.

| TLA+ | code |
| --- | --- |
| `cmdq`, `Posted`, `CanPost` | `ble_cmd_queue`, `enqueue_cmd`, `refuse_without_target` |
| `pend`, `CancelPendingClose` | the two pending slots, `ble_valve_cancel_pending_close` |
| `link` (peer, stage, term), `LinkIsTarget`, `Ready` | connection handle, setup state, a close asked for; `link_is_target`, `ble_valve_is_ready` |
| `cache`, `updq`, `Notified` | `g_val_*`, `ble_update_queue`, `notify_hub_update` |
| `dev` | the valve (external): position, RMLEAK, its own flood probe |
| `WriteOutcomes`, `ValveOutcomes`, `ReplayOutcomes`, `SetupOutcomes` | `write_cmd_with_retry`, `write_valve_command`, `replay_pending_cmds`, `apply_pending_cmd` |
| `TakeCmd` | one item of `ble_valve_task` |
| `LinkUp`, `SetupDone`, `LinkDrop`, `Deliver` | GAP connect, the last step of setup, `link_closed`, write and read results |
| `Press`, `FloodChange`, `PowerLoss` | the valve on its own |

The forced-relink counter is a choice (the link is closed after failed writes, or left
up); queue generations are not needed at this grain, as emptying the queue and changing
the target are one hold of the lock.

### RulesEngine

EXTENDS ValveChannel: the composition of the engine with its channel. A hold of `g_mutex`
is one step. Commands the code posts after the give are left in `hubTodo` or `mqTodo`,
and posted one a step, so every interleaving of the two tasks is there. The loop's pass
goes on in `hubTodo` too ("sync", "event" are what it does next), as it takes no event
before what the tick closed with is posted. `eng` is the
record of the engine's globals; `Held` applies a purge that is owed, as every hold of the
code does first; helpers (`TrackWet`, `TrackDry`, `Latched`, `Asserting`, `Closing`,
`Seen`, `Replaced`) transform it as the code's helpers do.

| TLA+ | code |
| --- | --- |
| `Report`, `EvaluateWet`, `EvaluateDry` | `rules_engine_evaluate_leak` and `evaluate_leak_locked` |
| `ValveUpdate`, `Reconcile` | CONNECTED and LEAK of the update queue; `rules_engine_on_valve_connected` |
| `Tick` | `rules_engine_tick`, in the order of its checks |
| `ForgetUnprovisioned`, `SyncValveDetectors` | `apply_device_set_change`, `sync_valve_detectors`, `rules_engine_on_valve_replaced` |
| `LeakReset`, `CancelOverride`, `EnableRequest/Check/Override`, `RulesConfig`, `ValveCommand` | the cloud commands; `enable` is three steps, as it waits and checks without the mutex |
| `SensorChange`, `ValveChange`, `ResetAll` | provision and decommission as the engine and the channel meet them |
| `GraceEnds`, `CooldownEnds`, `ClearDue`, `WindowDue` | the 5 s, 10 s, 10 s and 24 h timers |
| `Reboot` | `rules_engine_init` with what NVS holds |

`hist` is history, read by properties only: what last changed each valve's RMLEAK, and how
the engine has been `misled`: the owed clear dropped over a SET on its way ("early"), a
lock noted over a CLEAR on its way ("seen"), a window inferred at a reconnect
("inferred"), a change of the linked valve's lock that the hub never learned of
("unheard"), an exchange that was no change to the loop ("unseen"). `unsure` is history
too: the hub may have lost hold of a close it owes. It trusted a lock that is not there or
that a CLEAR is about to lift; lost a SET to a full queue, or a CONNECTED to a full queue
or a busy mutex; had its rules changed over a wet source; or was given back the valve of a
link it was closing. It is FALSE again when a close is posted. "Outside" events
(`Kinds`) are counted by `events`; a busy mutex is one of them.

### KeptReports, KeptReportsProofs

The list of reports that found `g_mutex` busy (`rules_engine.c:1065-1254`), the hub
loop's pass around it (`phase`), and a lock other tasks hold for longer than the loop
waits (`held`). `Overtakes` marks a source removed and added again within a pass, whose new
report is judged before its kept ones. `Keep` is `keep_report()`: a repeat is dropped, a third report of a source
replaces one of its two, a full list gives way to a wet report. `DeviceSet`, `Tick`,
`Retry`/`EndRetry`, `EvaluateLeak` are the pass in its order. The proofs are in a module
of their own.

### EventLog, OfflineBuffer, OfflineBufferProofs

`OfflineBuffer` is `offline_buffer/offline_buffer.c`, one NVS write a step. `s_lock` lets
one job in at a time, so `job` says where its holder is; the restart and
`offline_buffer_erase_for_restart()`, which takes no lock, fall between any two steps.
The callers (`cloud_tx`, and esp-mqtt's `try_store`) call in any order.

| TLA+ | code |
| --- | --- |
| `slot`, `meta` | NVS: the blobs `ob_00`.., and head, tail and count |
| `ring`, `mask` | RAM: `s_head`, `s_tail`, `s_count`; `s_presync_mask` |
| `job` | the holder of `s_lock`: a store not begun to write, the metadata write that comes next, a drain, a drain that has published and not erased |
| `StoreBegin`, `StoreBlob`, `StoreFails`, `WriteMeta` | `store_common`, `store_locked`: blob, mask, RAM, then three keys |
| `DrainBegin`, `DrainSkip`, `DrainHold`, `DrainPublish`, `DrainErase`, `DrainDone` | `drain_locked`, `ob_prepare_replay_locked`; the outcomes of `replay_publish` in `telemetry_v2.c` |
| `Stamp`, `ClockSync` | `offline_buffer_stamp_presync`; the sync seen by `net_maintain` |
| `Clear`, `EraseForRestart`, `Restart` | the two erasures; a restart and `offline_buffer_init` |

An event is its number and what its `ts` is worth. An unsynced one is "owed" while this
boot's timer can date it and "gone" after a restart; both are the same bytes to the code,
which has only the mask to tell them apart. `Stamped` gives a "gone" event a "wrong" time.

`EventLog` is what `offline_buffer.h` promises: a set of at most `Max` numbered events;
an event leaves it sent (`LogTakeOut` after `LogSend`), for a newer one when the log is
full, because its time is gone, or with its deployment. `ImplementsLog` is `LogSpec` with
`kept` the entries present in NVS; metadata and jobs are the ring's own business.

### MqttSession, CloudTx

`MqttSession` is the life of the MQTT client across four tasks. What several tasks write
without a lock is written a field a step (a stop's count and mark, CONNECTED's generation
and mark). A task's reads of mark and generation are one step, except in
`cloud_tx_session_work`, whose two reads are apart (`Proceed`, `ServiceOne`; finding 4).

| TLA+ | code |
| --- | --- |
| `wifi`, `admitted`, `Withdraw`, `Admit`, `AdmissionOpen` | the cloud's admission: `admit_withdraw`, `admit_now`, `cloud_admission_holds` (the heap's measures are left out) |
| `sas`, `SasMaintain`, `TokenAges` | the SAS token's mint and renewal |
| `stop`, `StopRequest`, `HubMarks`, `StopTake`, `StopEnds` | `mqtt_stop_request` (counted first, mark second), `iothub_mqtt_stop_service` on wifi_task |
| `client`, `handler`, `Connect`, `Marks`, `HandlerEnds`, `LinkLost` | esp-mqtt's task (external) and the hub's handler of CONNECTED and DISCONNECTED; `telemetry_v2_set_connected` writes generation, then mark |
| `gate`, `PubOpen`, `PubBegin`, `PubEnd` | `s_pub_gate`, `iothub_pub_begin`, `iothub_pub_end` |

`CloudTx` EXTENDS it with the two queues, the buffer and cloud_tx.

| TLA+ | code |
| --- | --- |
| `PostEvent`, `TwinRequest`, `PostTwin`, `SessionBlock` | iothub_task's posts, with a wait of 0; what each new session is owed |
| `CheckSession`, `TakeSession`, `HandleSession`, `Proceed`, `HoldLapses` | `cloud_tx_session_work`, `cloud_tx_session_check`: replay, then lifecycle, then live |
| `ServiceOne`, `SendEvent`, `TwinSeen` | `cloud_tx_service_one`, `send_str`, `cloud_tx_twin` |
| `Gate`, `Write` | the gate and the session read again; `esp_mqtt_client_publish` (external): taken, refused, failed with the session |
| `ReplayGate`, `ReplayWrite`, `ReplayDrop`, `DrainFails`, `DrainEnds` | the drain, an entry at a time: offered to `replay_publish`, held for the clock, or dropped (stored before the clock was valid and not stamped before a reset; not readable); a drain that gets neither the lock nor NVS |
| `StoreCheck`, `Store`, `StoreFails`, `CmdAck` | `tx_store` and `offline_buffer_store_presync`, which may refuse (text over the limit, lock, NVS), and the cmd_ack that esp-mqtt's task keeps |
| `times`, `Stamp` | what `s_presync_mask` says of each event in the buffer, and `offline_buffer_stamp_presync` at the clock's sync |
| `Decommission`, `PostClear`, `ClearTimesOut`, `DecomRestart` | the clear in the FIFO, the freeze and the first erase, the second erase 3 s later |

`hist` is history for the properties: which events esp-mqtt took, took into a session
still up afterwards, or the hub gave up.

### RadioPolicy, UplinkParts

`RadioPolicy` is `radio_policy/radio_policy.c` with the scan executor of
`ble_leak_scanner/app_ble_leak.c` that asks it. Time goes in ticks of 300 ms, the shortest
slot (`N_HUNT`'s 450 ms are two ticks); `Elapse(d)` goes to the end of the slot or the
pulse at the most, since the executor wakes at each edge of its own.

| TLA+ | code |
| --- | --- |
| `Rows`, `ModeRows`, `RowGap`, `HoldsI8` | the profile table, the modes and the rows each may run |
| `row`, `nth`, `ran`, `own`, `blind`, `recovery` | the executor: its row, slot and time in it, `own_end`, the last Coded window, the recovery row |
| `NextSlot`, `Starts`, `Elapse` | `exec_next_slot`, `row_begin`, the end of a scan |
| `req`, `Ask`, `AskedEnd`, `StartConnect`, `EndConnect`, `AskPulse`, `EndPulseAsked` | `s_req` under `s_req_lock`; `radio_policy_note_submit` and the requesters' calls |
| `Budget`, `Young`, `Lens`, `Grant`, `Settle` | `coded_budget`, `radio_policy_exec_wifi_grant` |
| `Begun`, `BeginWifi`, `Retract` | `radio_policy_exec_pulse_begin`; `..._pulse_retract` when the controller refuses the cancel |
| `ConnectLen`, `CanClaim`, `Claim` | `radio_policy_exec_connect_len`, `exec_claim` |
| `WifiOver`, `EndPulse` | `radio_policy_exec_pulse_over`, `..._pulse_end` and the recovery after it |
| `LostScan`, `Desync`, `HostResync`, `RadioFacts`, `Spaced`, `Unpaced` | the controller (external), the facts other tasks note, the spacing's and pacing's time |

Grant and begin are two steps, the cancel of the scan between them, so that an end, a
re-ask or a change of facts falls in the gap; a grant's own reads are taken as one. Left
open, hence any value at any time: which row of a mode runs, when the spacing, I2b's room
and `RP_REPEAT_MS` let the next pulse go. FREE and REFUSED count as idle; PAUSED is
NimBLE without sync, as is BLE idle. A scan that fails to start, ends early or is lost is
one fault. `SERVE_B` is another build's row and left out. `radioHist` is history: whether
a Connect had its answer, whether a fault excuses the blind time, and the Wi-Fi pulses
begun while a claim waits.

cloud_tx and the executor share only what both leave open (whether Wi-Fi and the setup
page are up): `UplinkParts` puts them side by side in one run, as `HubParts` does below.

### OverrideWindow

The window's arithmetic (`rules_engine.c`, `start_override_window` to
`override_load_from_nvs`). `RulesEngine` has the window as on or off; this module has
what times it. `real` is the yardstick the code cannot read: `Clock` (time()) counts from
the last power-on until SNTP, `Uptime` from the last reset.

| TLA+ | code |
| --- | --- |
| `window`, `stored` | the globals; `ovr_state` and `ovr_expiry` in NVS. `start` is history |
| `Expired`, `UptimeRemaining`, `UnsyncedEpochRemaining` | the three bases |
| `RebaseDue`, `Rebased` | the first valid clock of a window of this boot |
| `WindowStart`, `WindowCancel`, `WindowTick`, `Load` | start or refresh, cancel, the tick, the boot |
| `SoftwareReset`, `PowerCycle`, `Synchronise` | what time() and esp_timer keep across each |

### Provisioning

`provisioning_manager.c`. Its mutex is held from an update's reads to its writes, so an
update is a step whose outcome is: all keys written; a write failed after some key, RAM
kept and the previous set written again, which may fail too (`torn`); the power cut
between two keys, and the next boot loads that (`mixed`). `Loaded` is
`provisioning_load_from_nvs`, `Written` the save, key by key; an empty list's blob is not
written and so stays. `Provision` is the cloud's payload, `Remove*`, `Add*`, `EraseAll`
(decommission), `SetRules` the other operations.

### HealthEngine

`health_engine.c`, and what posts to it. The engine's task takes one event, or rates
every slot and then sends the owed alerts (`TakeEvent`, `Rate`, `Retry`, `TickGoesOn`),
and applies a DISCONNECTED that found no room afterwards (`Fallback`); `holder` is where
it is under `s_mutex`. `ApplyRating` is `apply_rating` with its debounce, its full queue
and its commit; `TrailingEdge` the retry in `evaluate_timeouts`. `SetDevices`,
`Reconcile`, `Resync`, `PopAlert` are iothub_task's; `LinkUp` to `LinkLost` the valve's
callbacks, each of whose posts are one step. Time is three stages of `away` and the end of
a debounce. A resync's three ratings are merged, of which only the first can alert.

### DpsClient

`dps_client.c` as `dps_maintain` and `cloud_bringup` call it. `register` is where
`dps_register` is on iothub_task; `ctx` is `s_ctx`, written by the client's own task
(`Connected`, `Subscribed`, `Answer`, `DpsSessionEnds`) with no lock; `SaveKey` is
`nvs_save_cache`, which does not look at what a write returns; a value in the cache is the
enrollment (`AZURE_DPS_PROV_EPOCH`) it is of. `DpsRestart` may be into a newer firmware.

### HubParts

Buffer, window, provisioning, health and DPS share no variable: each has its own lock,
queues and NVS keys, and none calls another within a step. `HubParts` puts them side by
side, a behaviour being one part's, so that one run checks all of them; each module's
specification and theorems stand on their own. What joins them in the hub is modelled
where it matters: `CloudTx` has the buffer in it, `HealthEngine` the device set it is
reconciled with, `RulesEngine` the window and the changes of the device set.

## Runs

Violation runs check one property each; see [findings](#findings).

| run | question | properties |
| --- | --- | --- |
| `RulesLeak` | leak, button, lost link, reset, cancel, cloud close, rules change in any order | `TypeOK`, `LeakGuarded`, `PressIsReal` |
| `RulesRestart` | hub restarts and the valve's probe around a leak and an override window, cloud opens | `LeakGuarded`, `LockAgrees` |
| `RulesFailingWrites` | failing writes and read-backs, a one-slot host, a three-slot queue, lost links | `LeakGuarded` |
| `RulesDeviceSet` | exchange and removal during a leak, mutex busy | `NothingOfThePast`, `PressIsReal` |
| `RulesLive` | is every leak closed on and every dryness released, whatever was lost: hub and valve restarts, lost links, presses | `LockAgrees`, `LeakCloses`, `DryReleases` |
| `Kept` | the kept list under busy locks and device changes | six, below |
| `Buffer` | the parts of `HubParts`: any order of stores, drains, clears, ended sessions and restarts; of starts, ticks, resets, power cuts and syncs; of updates whose writes fail or are cut; of links, readings, device sets and ticks over short queues; of registrations, late answers, lost admissions, cut saves and new firmware | `DatesTrue`, `RingWhole`, `ImplementsLog`; `StampsTrue`, `NeverLonger`, `NeverShorter`; `BootMatches`, `NoDuplicates`, `StateAgrees`; `ToldIsTrue`, `DropIsKnown`; `OwnAnswer`, `CacheOfEpoch` |
| `BufferTorn` | violation: `OldestFirst`, with restarts inside an update | |
| `CloudTx` | the parts of `UplinkParts`: what the cloud is told, over lost Wi-Fi, SoftAP, renewals, refused and failed publishes, decommission, restart; who has the radio, over Connects, joins, claims, leak responses, lost scans and syncs, refused cancels | seven of the cloud, below; `BlindBounded`, `ConnectAsked`, `ClaimDelayedOnce` |
| `CloudTxRace` | violation: `ReplayFirst` | |
| `RulesFalsePress` | violation: `NoFalsePress` | |
| `RulesResetRace` | violation: `ResetLifts` | |

What the properties say:

* `LeakGuarded`: over a latched leak of a source the rules act on, with no window open,
  RMLEAK is set and the valve closed, or a SET is on its way (queue, slot, air, or still
  to be posted), or the link is still to be reconciled; unless the valve's own button or
  power lifted the lock, or the hub is `unsure`. It relates the engine, both posting
  tasks, the channel and the valve.
* `PressIsReal`: a tick that infers a button press is right, except after a lock noted as
  seen over the CLEAR on its way ("seen"), after a change of the lock the hub never
  learned of ("unheard"), or around an exchange not yet applied, or not seen by the loop.
  `NoFalsePress` (finding 1) needs the first of these.
* `LockAgrees`: with nothing on its way, hub and valve agree on the lock.
* `NothingOfThePast`: once a change of the device set is applied no removed source
  counts, and a lock "seen" is the present valve's.
* `LeakCloses`, `DryReleases`: the liveness of closing and of releasing.
* `KeptShape`, `WetIsKept`: one wet and one dry report per source at most; a wet report
  that was kept stays until it is judged.
* `EndsFailSafe`: what the engine ends with for a source is its newest report, or wet.
* `WetLostOnlyWhenFull`: when a wet report may be lost at all: to a list full of other wet
  reports, to a full table of active sources, or for a source the loop has not read yet,
  whose new report is judged before what was kept of it.
* `ClearIsDry`: the auto-clear does not release over a wet report that waits.
* `WetIsJudged`: retries that stop each pass at the first event still get through.

* `DatesTrue`: no event is dated by another boot's uptime, and none of this boot's is
  dropped as another's: mask bits in RAM agree with slots in NVS that outlive them.
* `RingWhole`: head, tail, count and slots agree, entries lie in the order stored, and
  what a restart would load is the same ring but for slots a drain has erased; after the
  second erase of a decommission nothing of the old deployment is left.
* `ImplementsLog`: the refinement; in it, that only a full ring loses an event, and only
  its oldest; that the drain sends oldest first and takes out only what was sent.
* `OldestFirst`: the drain's order alone, checked with torn updates.

`CloudTx`:

* `NeverBesideStop`: cloud_tx is never inside `esp_mqtt_client_publish` while wifi_task is
  inside `esp_mqtt_client_stop`, nor after it; `StartsStopped`: a client is started only
  when the stop last asked for has ended, so no stop ends the client after it.
* `NoSilentLoss`: every event built is queued, in cloud_tx's hands, in the buffer, or was
  taken into a session still up; or the code gave it up. It does so where a queue or the
  buffer is full, where the store fails (`telemetry_v2.c:373`, `:392`), where a reset comes
  before the store, or after the store and before the event had its time
  (`offline_buffer.c:319`), where the drain cannot read an entry, and in a decommission.
* `CausesFirst`: an event is sent only after every earlier one was sent or given up.
* `TwinNewestWins`: no twin report goes out after one built later, by whichever queue.
* `EndedStaysEnded`: after a decommission's restart nothing of the old deployment is
  left to be replayed, also when the clear timed out and the erase ran beside cloud_tx.
* `SettledTold`: with nothing queued, cloud_tx idle and iothub_task owing the session
  nothing (`AtRest`), every event is out and the last report told is of the last change.
  This is the progress the run states: with deadlock checked and no outside event left,
  the tasks come to such a rest or go on.

`CloudTx`, the radio:

* `BlindBounded` (I2): BLE is never longer than 2.8 s without a Coded scan that covers an
  advert interval, whatever pulses cut scans, end early, are retracted and follow each
  other, but for scans the controller loses. It relates the budget a pulse was granted
  by, the slot it cut, the row that resumes and the recovery.
* `ConnectAsked`: while a setup page's Connect is in flight its pulse is asked for, until
  that pulse begins or there is no scan to stop: a second Connect asked while the first
  one's pulse is ending, or one whose pulse is retracted, is not forgotten.
* `ClaimDelayedOnce`: a valve's claim that is due in a leak response waits for one pulse
  of Wi-Fi at most, the one granted as the claim fell due included.

`Buffer`, the other parts:

* `NeverLonger`, `NeverShorter`: 24 h are never exceeded, counted from the press, or from
  the power-on that lost the clock, and the tick ends no window early but one restored
  from an earlier boot and stamped without a clock. `StampsTrue` is the relation of every
  stamp, in RAM and NVS, to its start.
* `BootMatches`: the next boot loads what RAM holds, wherever a write failed, unless the
  rewrite of the previous set failed too. `NoDuplicates`: no sensor is listed twice.
  `StateAgrees`: a hub with a device is PROVISIONED, and a list padded with zeroes (twice
  zero as a LoRa sensor, or zero as a leak sensor) is only of a half-written set. One zero
  LoRa id may come from a payload or an addition, which `parse_hex_id` does not refuse.
* `ToldIsTrue`: what the alerts said last of a device is what it is, or the trailing edge
  is owed; no debounce, full alert queue or change from one CRITICAL to another loses an
  offline or a recovery or tells it twice.
* `DropIsKnown`: a lost link reaches the table or is on its way to it, though the event
  queue drops; the three holes are the `missed` of [findings](#findings).
* `OwnAnswer`: what `dps_register` takes for its answer is its own attempt's.
  `CacheOfEpoch`: what a boot loads from the cache is one assignment of its firmware's
  enrollment, wherever a save, an erase or a migration was cut, but after a failed write.

The type invariants of `KeptReports`, `OfflineBuffer`, `CloudTx`, `RadioPolicy`,
`HealthEngine` and `DpsClient` are proved rather than run (`TypeCorrect`,
`BufTypeCorrect`, `RadioTypeCorrect`, and within the invariants of the others).

Each property has a mutant: a one-definition change of the model, the way a plausible bug
in the code would look, under which the run must find it violated.

## Bounds

* `Valves`: one, or two to exchange (interchangeable, hence `ValveSymmetry`; the safety
  run only). `Sensors`: one plus the valve's probe; two plus the probe in `Kept`. Sources
  interact only through sets and the list, where two of one kind and the probe already
  give every arm of `keep_report()`.
* `MaxEvents` (2 or 3; 4 in a violation run): outside events in a behaviour. Everything
  inside (loop passes, posts, writes, timers) is unbounded. Each misbehaviour met while
  modelling needed at most four.
* `Kinds`: which outside events a run has. The runs divide the kinds; a lost link is also
  what the valve's power loss looks like with RMLEAK kept.
* `CmdDepth` 10 is the code's; 6 where more is never reached in the run's events; 3, with
  `AirDepth` 1 and `UpdDepth` 1, where the limits themselves are in question.
  `RulesDeviceSet` has `UpdDepth` 1 as well, for its size: what it checks is proved for
  every depth, and `RulesLeak` checks `PressIsReal` with 3.
* `KeptMax` 2, `MaxActive` 2 against three sources: both tables get full. `MaxNoise` 3.
* `Max` 3 and `MaxEvents` 8 in `Buffer`: the ring wraps twice and overwrites at every
  position, and holds a first, a middle and a last entry. 2 and 3 in `BufferTorn` suffice.
* `TornWrites` FALSE leaves out a restart between the writes of one update of the ring
  (a few ms each; a drain's slots and its publishes are between updates, so restarts are
  anywhere in it but in its last three writes), and one between the fallback's two
  erases, 3 s apart. TRUE has all of them: types and dates are proved with it, the ring's
  shape and the order do not hold (finding 3).
* `Prompt`: commands on their way are written or pended before the engine's 5 s and 10 s
  timers end. The code spends up to a few hundred ms on a command.
* The window in `Buffer`: `Duration` 3 for 24 h, `MaxTime` 8: a window, a second one over
  it, and resets between them; `Valid` 20 only has to be beyond what is unsynced.
* Provisioning in `Buffer`: a LoRa id and zero, what malformed text is parsed to, fill the
  list and repeat in a payload, one id elsewhere; one fault (`MaxNvsFaults`), after any key of any save, and
  the rewrite that follows may stop after any key as well.
* Health in `Buffer`: two valves (interchangeable) to exchange, one sensor; queues of 2
  and 1 for the code's, so that both get full; three outside events, which a full alert
  queue at a lost link takes (a device set, a check-in, the loss). One tick waits at most.
* DPS in `Buffer`: attempts are told apart by two numbers used in turn, a third attempt
  only meeting the second's leftovers; two enrollments, three faults.
* `CloudTx`: queues and buffer of 2 (full, and overtaken in), one deferrable slot; two
  events and one change to report; outside events weigh 2 altogether, those that stop the
  client 2 each (`Weight`): with one stop every interleaving of the four tasks with it. A
  failing store, read or drain (`nvs`) is one of them, and a start without the clock counts
  as one: its events are held and stamped, with one more fault, or dropped after a restart.
  Its theorems hold for any bound.
* Radio in `CloudTx`: every row of the table; `WifiKinds` has the two pulses that may be
  clipped to the budget and wait again when retracted. RETRY and LIST are granted as a paced
  JOIN is, at a Coded slot's end and with a fixed length, at a lower rank; the theorems hold
  for any set of the four; `MaxRadioFaults` 1: one
  lost scan, lost sync or refused cancel at any point. Requests, claims, leak responses,
  stations and time are unbounded; `blind` saturates one tick past its limit (`Unknown`).
* No run needs a constraint, and deadlock is checked in all of them.

## Fairness

`RulesEngine.Fairness`: every task's steps are weakly fair (FreeRTOS runs them; each waits
with a timeout). `Report(s)` and `ValveUpdate` are strongly fair: the loop takes an event
only in the middle of a pass, so their guard is on and off, and the queue set serves both
(`xQueueSelectFromSet`); sensors repeat their state at each heartbeat. Link-up and setup
are fair: a valve in range answers. Outside events are not fair and finitely many, so the
link is lost finitely often; "whatever was lost on the way" means before that.
`KeptReports.FairSpec`: the loop keeps passing, and whoever holds the mutex gives it back.

`CloudTx`, `UplinkParts` and `HubParts` assume no fairness: their properties are safety,
and cloud_tx's progress is stated as what is true at rest (`SettledTold`). That a claim
is served at last is not checked: a setup page's use may hold claims off for as long as
a person keeps at it, and outside a leak response nothing in the code ends that.

## Proofs

`KeptReportsProofs`, for every set of sensors, `KEPT_MAX >= 1`, table size and noise bound
(`KeptAssumption`):

* `Invariance`: `Spec => []IInv` with `IInv == TypeOK /\ KeptShape /\ WetIsKept`;
* `TypeCorrect`, `KeptShapeHolds`, `WetReportIsKept` from it.

Why the conjunction: `keep_report()` may append to a list of `KEPT_MAX - 1` only, and its
"replace the older of two" and "a full list gives way" arms keep the list bounded and
every owed wet report in it only if no report occurs twice (`KeptShape`), which needs the
list's type. The argument is by position: `NewestIn` (the newest of a non-empty set of
positions exists, from the least-number principle), `DropEntries`/`DropUnique`,
`AppendUnique`, `ChangeUnique`, `TailUnique` say what each change does to a duplicate-free
list, `KeepShape` joins them into the five arms, and each action of the loop has a lemma.

* `EndsFailSafeHolds`, `WetLostOnlyWhenFullHolds`, `ClearIsDryHolds`, from `FSInv` on top of
  `IInv`. A source whose newest report is wet, and was not lost, has a wet last report in
  the list, or none there and a place in the table (`Safe`); a source not yet in the
  loop's copy of the set has nothing kept; an owed purge is behind what the probe has
  kept; the 10 s of the auto-clear run only over an empty table
  (`Ledger`). Most steps are `Calm` (they
  leave a source at least as wet), and `CalmSafe` is proved once. The attempt found
  that a report of a source removed and added again goes in front of its kept ones; its
  wet report may then be undone by an older dry one, and `lost` now says so (`Overtakes`).

`OfflineBufferProofs`, for every ring size `Max >= 1` and event bound
(`BufferAssumption`):

* `BufTypeCorrect`, `DatesAreTrue`: for any restart, torn updates included. `DatesTrue`
  is inductive with the type invariant: a present slot has its bit exactly if its time is
  owed in this boot, which is what makes the stamps right.
* `RingStaysWhole`: `ASSUME ~TornWrites`. A drain erases slots in NVS and leaves the
  metadata for its end, so the inductive `RingInv` must say what the stale metadata still
  points at: `Whole` of the slots under the ring in RAM, and, by job, how far `meta` is
  `Behind` it or which of its three keys are already written. Positions are distances
  from the tail (`Dist`, `Plus`), so that the wrap is met in two lemmas only
  (`AdvanceIs`, `DistPlus`) and the rest is linear. `StoreWhole`, `TakeWhole`,
  `BehindWhole`, `EmptyWhole` say what a store, a taken-out tail, a restart and a clear
  do to a whole ring.
* `BufferImplementsLog`: the same assumption. `ImplementsStep` has a step per action;
  `TailOldest` gives the log's "oldest", and `KeptFull` that a full log has a full ring
  of present slots (a bijection), so that the overwritten slot was the oldest entry.

`CloudTxProofs`, for all queue lengths, buffers, events and faults:

* `GateInv` relates the gate, the stop's stage and cloud_tx's place (the gate is "tx"
  exactly while it is in a publish, a stop is "taken" exactly while wifi_task has the
  gate, a client that is not running is stopped or has a stop on it), and gives
  `NeverBesideStopHolds` and `StartsStoppedHolds`.
* `FlowInv` says where an event can be. Buffer, then what cloud_tx has in its hands, then
  the queue are in the order built; every number built is in one of them or in `hist`; at
  the gate with an event the buffer holds none, which is why a new event overtakes no
  stored one. From it `NoSilentLossHolds` and `CausesFirstHolds`. Lemmas say what a store
  into a full buffer, a taken head and a clear do to "in order"; each action that moves
  no event has one shared lemma. Where the code gives an event up (`StoreFailsKeeps`,
  `ReplayDropKeeps`) the order of the rest is kept.
* `EndedInv`, for `EndedStaysEndedHolds`: the clear of a decommission is behind every event
  of its deployment (`ClearLast`), none is built while it is on, and after the second
  erase nothing is held; so an event held is of the deployment that is on (`PastGone`).
* `TwinInv`, for `TwinNewestWinsHolds`: what was told is never ahead of cloud_tx's own mark
  `twinSeq`, and a report at the gate has that mark.
* `ToldInv`, for `SettledToldHolds`. The last report built tells of the last change
  (`BuiltTrue`), and a session that is up, and that iothub_task has seen, still owes the
  report, or has it on its way to a gate that is open to it, or esp-mqtt took it
  (`StillOwed`, `OnItsWay`, `Arrived`). "Seen" is by generation (`HubTrue`): the mark of a
  session is newer than what iothub_task has seen until it looks, so a session that ended
  and came back in between is one it owes everything to. At rest only `Arrived` is left;
  that every event is out follows from `FlowInv`.

`RadioPolicyProofs`, for any set of Wi-Fi pulses and any number of faults
(`RadioAssumption`): `RadioInv` (types; one of scan, grant and pulse at a time), and

* `BlindInv`, for `BlindBoundedHolds`: the time since the last covering Coded slot is bounded
  slot by slot (`Since`, checked row by row of the table); a grant keeps `blind + left`
  within the limit, a pulse keeps their sum, and a row cut by a pulse begins again at its
  Coded slot. The limit of 2.8 s is met because a budget is granted from the last window
  that covered, and never from one that was cut.
* `ConnectInv`, for `ConnectAskedHolds`: the request is "on" exactly while its pulse is
  granted or runs, and a pulse that was ended with a Connect in flight has its re-ask.
* `ClaimsTurn`, for `ClaimDelayedOnceHolds`: once a Wi-Fi pulse began, the claim goes first.

`HubPartsProofs` has the two smaller parts. The window, for every duration and time bound
below the clock's threshold: `StampsTrue` is inductive (`StampsTrueHolds`): a stamp tells
its window's start on the clock it was made with, through failed writes, resets and the
re-base. `NeverLongerHolds` needs it with the fact that a tick ran at this time;
`NeverShorterHolds` follows from it for the step. DPS: `OwnAnswerHolds` from `OneClient` (a
client lives only in its own attempt's wait, as it is destroyed before the state is read);
`CacheOfEpochHolds` from `EpochLast` (the epoch's key is written after the data, so where
it is this firmware's and no write failed, the data is).

`ProvisioningProofs`, for every set of ids and array limits: the lemma `SavedLoads` (a full
save of a well-formed set loads as that set, whatever NVS held before, stale blobs
included), a rewrite and a rules-only write likewise, and the inductive `ProvInv`, which
adds what must be said of the lists' stale blobs and of a missing valve key;
`BootMatchesHolds`. `ListsInv` adds that every blob in NVS, the stale ones included, is a
list without repeats, since a cut save may bring any of them back: `NoDuplicatesHolds`,
`StateAgreesHolds`.

`HealthEngineProofs`, for any queues and devices: `ToldIsTrueHolds`, inductive with the
types of slots and events and "alerted only if seen". `DropInv`, for `DropIsKnownHolds`,
says it of every valve in the table, not of the target alone (one that is not the target
may be so again), and that the table has one valve at most, or the fallback would reach
another. The attempt found the third hole of `missed`: an exchange between a refused
DISCONNECTED and the reconciliation, where the new valve's CONNECTED takes the flag down.

`RulesEngineProofs`, for any valves, sensors, queue depths, kinds and number of events
(`ChannelAssumption`, `EngineAssumption`):

* `RulesTypeCorrect`. The transformers of a hold of `g_mutex` have one lemma each (`From`,
  `Hold`: the record stays typed, a clear is pended only where one was); an action's lemma
  puts them together in the order of the code.
* `NothingOfThePastHolds`, from `PastInv`: a lock the cache shows, or a valve has, has a
  history (`CacheKnown`, `LockKnown`); with nothing left to apply the loop knows the
  provisioned valve (`LoopKnows`); the active sources are members (`OnlyMembers`); a lock
  noted as seen is the target's if the loop knows of no other (`NotedHere`). The last is
  the hard one: it must speak of the times when a purge is owed or an exchange is not yet
  applied, and it says of them that the loop will be told. Planning it showed a second
  exchange that is no change to the loop, with `s_det_valve_mac` still empty
  (`app_iothub.c:1008`), which the model now marks as "unseen".
* `PressIsRealHolds`, from `PressInv` on top of it: a lock is not noted over an owed clear
  (`NotBoth`), nor, unless the history says "seen", over a clear on its way in any queue,
  slot or write (`ClearTold`); the cache shows only locks that are set, unless a change
  was "unheard" (`CacheTrue`); so a noted lock was not lifted by the hub, and while it is
  set the cache shows it (`NotedTrue`). The attempt showed that "early" was not needed as
  an exception, and that "unheard" was: a valve exchanged away and back while its link
  stays up leaves a cache of before, because the second change flushes the update that
  the first one queued.

* `LeakGuardedHolds`: `ASSUME Prompt = TRUE`, as in every run: a command on its way is
  written or pended before the 5 s and 10 s in which the engine takes it as under way.
  `GuardInv` adds four facts to the types. `Latching`: a close is
  "triggered" only while a source is active, the incident latched and no window open.
  `RmlCloses`: a valve whose lock is set is closed. `OpenWindow`: the MQTT task has a CLEAR
  to post only inside a window. `Guarded`, the hard one: a close that the engine owes
  (`Owes`), on a link that is ready and reconciled, and not `unsure`, is `Sure`: decided on
  and still to be posted, on its way with no CLEAR behind it (`Backed`), done, or lifted
  by the valve itself.
  The proof goes through every place a SET can stop: refused by a full queue, cancelled in
  its slot by a dry report, failed in a write, overtaken by a CLEAR. The attempt found the
  holes listed under [findings](#findings).

What the runs check and no theorem states:

* the liveness of `LeakCloses`, `DryReleases` and `WetIsJudged`, which the provers do not
  reach;
* `LockAgrees`. It holds in its runs, whose queues have room for what few events post. It
  does not hold for every value of the constants: a CLEAR that finds `ble_cmd_queue` full
  is dropped and nothing repeats it; a valve exchanged away and back keeps its lock while
  the loop sees no change; a SET that is still pended when a press is inferred at a
  reconnect is written afterwards. Its first half, without these, follows from
  `LeakGuarded`: with nothing on its way, what is left of it is the lock, the valve's own
  doing, or `unsure`.

## Findings

1. **A false press from a stale cache** (`RulesFalsePress`, `NoFalsePress`). The tick
   drops `g_rmleak_clear_owed` when the cache reads RMLEAK 0 (`rules_engine.c:2062-2066`),
   also when the 0 is from before a SET that has not been written yet. SET and CLEAR then
   land in turn, and if an incident latches in between the CLEAR is read as a press of the
   button and opens a 24 h window. `docs/app_team_qa/LEAK_OVERRIDE_VALVE_FLOW.md:56` says
   the hub's own clear is never read as a press.
2. **A reset that is overtaken** (`RulesResetRace`, `ResetLifts`). The re-assert of a
   reconnect is posted after `g_mutex` is given (`rules_engine.c:1901-1909`); a LEAK_RESET
   in between puts its CLEAR before it. The valve ends locked with no incident on the hub,
   and nothing lifts it. The comment at `rules_engine.c:1466-1472` says the FIFO follows
   the order of the mutex.

3. **A newest event sent first** (`BufferTorn`, `OldestFirst`). A store into a full ring
   overwrites the oldest slot and moves head and tail in NVS afterwards, in separate
   writes (`offline_buffer.c:143`, `:168-170`). A power cut in between leaves the newest
   event in the slot still called the oldest, and the next boot's drain sends it before
   the others; `offline_buffer_init` checks ranges only. `offline_buffer.h:77` says
   "Publishes FIFO (oldest first)".

4. **A live event before its session's replay** (`CloudTxRace`, `ReplayFirst`).
   `cloud_tx_session_work` reads the mark and then the generation
   (`app_iothub.c:3605-3606`); a CONNECTED writes them the other way round
   (`telemetry_v2.c:1597-1599`). The old mark with the new generation lets
   `cloud_tx_service_one` (`:3689`) find its number unchanged, and once the mark lands the
   event goes into a session that has had neither replay nor lifecycle.
   `telemetry_v2.c:259` calls the generation "the only one an event may go into";
   `app_iothub.c:3497` has "replay, then lifecycle, then live (R1-5)". The replay that
   `send_str` itself does first keeps the order of events (`CausesFirst` holds).

Met on the way and kept as hazards rather than findings of a run:

* a leak that latches again while the CLEAR of the last is on its way takes the stale
  RMLEAK 1 for a lock it has seen (`rules_engine.c:2075`; the "seen" excuse of
  `PressIsReal`), against `LEAK_OVERRIDE_VALVE_FLOW.md:99`;
* the active table holds 16 sources, and 33 may be provisioned (`rules_engine.c:671`): a
  wet source beyond it is not counted by the auto-clear (`MaxActive` in `Kept`);
* CONNECTED taken while `g_mutex` is busy for 1 s is not reconciled again
  (`app_iothub.c:4264`);
* ways to a latched leak over a valve that is not locked, all of them in `unsure`. The
  last source dries and the SET in its slot is cancelled (`rules_engine.c:692`) while a
  CLEAR is in the air; a wet report right after it takes the cached lock for true and posts
  nothing (`:974`; `:1762` is the same at a reconnect). New rules over sources that are
  already wet evaluate nothing until their next reports (`:1340`). A SET that finds the
  queue full is dropped (`app_ble_valve.c:3379`). A valve exchanged away and back while its
  link closes is not reconciled again;
* a source outside the trigger mask keeps an incident latched, whose SET the last dry
  report cancelled. The rules do not act on that source, so `LeakGuarded` asks nothing of
  it;
* a valve exchanged and exchanged back before the loop looks is no change to the loop, nor
  is one exchanged again before the loop acted on the first (`app_iothub.c:1008`, with
  `s_det_valve_mac` empty). What the engine noted of the old valve is then taken for the
  new one's ("unseen"). Away and back also leaves the cache of before, if the old link
  stays up: notifications in between are dropped (`app_ble_valve.c:865`), and the change
  back flushes the DISCONNECT that the change away queued ("unheard");
* a source removed and added again while its reports are kept: its new report is judged at
  once and the kept ones after it, though the comment at `rules_engine.c:1233` says kept
  reports go first, in arrival order; an older dry report then undoes a wet one
  (`Overtakes`);
* the health engine's fallback (`health_engine.c:998-1010`): the comment says that applying
  it last makes the newest truth win over a backlog of older events, stale CONNECTEDs
  included, but it is applied after one event; a second CONNECTED from before the loss,
  still queued, clears it again, and the absent valve stays green until its next
  DISCONNECTED. A link lost while another valve was the target is never told either, and a
  flag may be taken down by another valve's CONNECTED after an exchange. The three are the
  `missed` of `DropIsKnown`; without that exception TLC finds them;
* a comment on the DPS cache (`dps_client.c:84-88`, in `nvs_load_cache`) says a failed
  migration cannot destroy the previous assignment: a save overwrites the old keys in
  place, and one that is cut leaves new data under the old epoch. A newer firmware does
  not load it (`CacheOfEpoch`); one rolled back to the older epoch would. A write that
  fails is not looked at, and the epoch behind it makes the mixture load (`refused`);
* the first save of a device set, cut between `state` and `valve`, boots a PROVISIONED hub
  with no device, whose later rules are not loaded; one cut at a list may leave zero ids
  (`mixed`). A LoRa id of "0x0", or of no hex digits ("0xZZ"), is listed as zero
  (`provisioning_manager.c:374-389`). Rules set on an UNPROVISIONED hub are not loaded at the next boot, and a
  payload of rules alone makes an empty hub PROVISIONED;
* a window stamped unsynced, restored after a power-on and kept over software resets, may
  last until the clock reaches what its stamp says, later than 24 h from that power-on by
  what the old clock had counted (`Limit`).

The documented limitations (G2, the inference at a reconnect, `:124`; E1 after a restart,
`:101`) are modelled as the code has them; the properties' wording leaves them out.

## Not modelled

Parsing and formatting (JSON, twin documents, HTTP, DNS), the LoRa driver's registers and
cryptography, LEDs, logging, memory monitoring, UART. Vendored and managed components.
Within modelled parts:

* **Valve channel**: GATT discovery below one setup step, advertisement scanning and
  filters, queue generations.
* **Offline buffer**: a lock timeout (the call does nothing), the NVS namespace failing to
  open, reads of present slots that fail, metadata writes and erasures that fail without
  the code looking (their effect is a torn update's, without the restart), and entries of
  this boot that cannot be dated (no `uptime_s`, too long with the margin), which the
  drain drops. The erasures of a clear and the slots of one stamping are one step. `init`'s
  reset of metadata out of range is never reached: what is written is in range
  (`BufTypeCorrect`).
* **Telemetry**: snapshots and their flight, the admission of health alerts, the retry of
  the twin's GET, the ring's slots and metadata (`OfflineBuffer` has them, and here a restart
  finds in the buffer what RAM had), QoS 1 below esp-mqtt's acceptance (outbox expiry, PUBACK), a refused SUBSCRIBE,
  a stop that esp-mqtt refuses, the text of messages. That a store under way at a
  decommission's freeze ends within its 3 s is assumed; the stamping of several events is
  one step.
* **Window**: its two keys in NVS are written as one; the clock's drift and SNTP's steps.
* **Health**: the roll-up over devices, the excuses at boot, the snapshot's gate and
  sequence numbers, link quality and RSSI; iothub_task's bounded waits, after which it
  tries again on its next pass, are waits here.
* **DPS**: the back-off and the poll's delay (any time may pass), the derivation of the
  key, the bring-up that follows an assignment (`MqttSession` starts where it ends).
* **Provisioning**: the mutex's timeout (the call is refused), a namespace that does not
  open, parsing.

* **Radio policy and scanner**: adverts, their deduplication and queue; I2b's rolling
  window and the stations' leases and pages (their outcome is left open); the cadence of
  discovery rows, the starvation guard's back-off, the self-test's pinned row, the lab
  build, dither and the settle delays after a cancel.

The scanner's adverts, the LoRa receiver's packet path, the Wi-Fi application, sensor
metadata and the portal are not modelled yet (plan 10). Most of the
repository's lines are managed components, vendored drivers and radio firmware images,
which the hub's own code uses and no module translates. `PROJECT.json` has the status of
each component.
