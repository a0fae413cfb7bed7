------------------------------ MODULE DpsClient -----------------------------
(***************************************************************************)
(* The registration with Azure DPS (main/dps_client/dps_client.c), as      *)
(* dps_maintain() and cloud_bringup() of app_iothub.c call it: an MQTT     *)
(* client of its own, whose task writes s_ctx while iothub_task waits for  *)
(* it a second at a time; then the assignment, kept in NVS key by key.     *)
(***************************************************************************)
EXTENDS Naturals, Sequences

CONSTANTS
    MaxAttempts,     \* bound: attempts told apart; the numbers are used in turn
    MaxEpoch,        \* bound: AZURE_DPS_PROV_EPOCH, of successive firmwares
    MaxDpsFaults     \* bound: links lost, resets, writes that fail

ASSUME DpsAssumption == MaxAttempts \in Nat \ {0} /\ MaxEpoch \in Nat \ {0} /\ MaxDpsFaults \in Nat

VARIABLES
    ctx,          \* s_ctx: the state, and whose the result is
    clients,      \* attempts whose MQTT client lives, and how far each has come
    register,     \* where dps_register() is
    attempt,      \* the number of the attempt
    admitted,     \* cloud_admission_holds(), and a clock that is set
    epoch,        \* the enrollment the firmware is built for
    cache,        \* the namespace dps_cache: a key's enrollment, 0 if absent
    assignment,   \* the enrollment of the assignment in use, 0 if none
    refused,      \* for the properties: a write of the cache has failed
    dpsFaults

dpsVars == <<ctx, clients, register, attempt, admitted, epoch, cache, assignment, refused,
             dpsFaults>>

CacheKeys == {"hub_host", "dev_id", "dev_key", "prov_epoch", "cached"}

IdleCtx == [state |-> "idle", by |-> 0]
NoClient == [n \in 1..MaxAttempts |-> "none"]

DpsInit ==
    /\ ctx = IdleCtx /\ clients = NoClient /\ register = "out"
    /\ attempt = 0 /\ admitted = TRUE /\ epoch = 1
    /\ cache = [key \in CacheKeys |-> 0] /\ assignment = 0 /\ refused = FALSE /\ dpsFaults = 0

DpsFault == dpsFaults < MaxDpsFaults /\ dpsFaults' = dpsFaults + 1

CacheLoadsOfAny == \A key \in CacheKeys : cache[key] # 0     \* mutant: of whichever enrollment

(* nvs_load_cache(): every key, and of this enrollment's epoch.            *)
CacheLoads == (\A key \in CacheKeys : cache[key] # 0) /\ cache["prov_epoch"] = epoch

-----------------------------------------------------------------------------
(* iothub_task.                                                            *)

(* dps_maintain(): until the cloud path is built, and as admitted.         *)
MayRegister == register = "out" /\ assignment = 0 /\ admitted

FromCache ==
    /\ MayRegister /\ CacheLoads /\ assignment' = cache["dev_key"]
    /\ UNCHANGED <<ctx, clients, register, attempt, admitted, epoch, cache, refused, dpsFaults>>

Register ==
    /\ MayRegister /\ ~CacheLoads
    /\ attempt' = (attempt % MaxAttempts) + 1
    /\ ctx' = [IdleCtx EXCEPT !.state = "connecting"]
    /\ clients' = [clients EXCEPT ![attempt'] = "started"] /\ register' = "waiting"
    /\ UNCHANGED <<admitted, epoch, cache, assignment, refused, dpsFaults>>

(* The semaphore is taken, or a slice ends and the caller's hook says stop,*)
(* or the 60 s are over: which of them, only the back-off looks at.        *)
WaitEnds ==
    /\ register = "waiting" /\ register' = "ended"
    /\ UNCHANGED <<ctx, clients, attempt, admitted, epoch, cache, assignment, refused, dpsFaults>>

StopClientLate ==                      \* mutant: the timed-out client is left to end by itself
    /\ register = "ended" /\ register' = "stopped"
    /\ UNCHANGED <<ctx, clients, attempt, admitted, epoch, cache, assignment, refused, dpsFaults>>

(* The client is stopped and destroyed before the state is read.           *)
StopClient ==
    /\ register = "ended" /\ register' = "stopped"
    /\ clients' = [clients EXCEPT ![attempt] = "none"]
    /\ UNCHANGED <<ctx, attempt, admitted, epoch, cache, assignment, refused, dpsFaults>>

(* An assignment that came as the wait ended is kept.                      *)
Conclude ==
    /\ register = "stopped"
    /\ register' = IF ctx.state = "done" THEN "saving" ELSE "out"
    /\ UNCHANGED <<ctx, clients, attempt, admitted, epoch, cache, assignment, refused, dpsFaults>>

(* nvs_save_cache(), which does not look at what a write returns.          *)
SaveOrder == <<"hub_host", "dev_id", "dev_key", "prov_epoch", "cached">>

SaveKey(i) ==
    /\ register = (IF i = 1 THEN "saving" ELSE SaveOrder[i - 1])
    /\ \/ cache' = [cache EXCEPT ![SaveOrder[i]] = epoch] /\ UNCHANGED <<refused, dpsFaults>>
       \/ DpsFault /\ refused' = TRUE /\ UNCHANGED cache
    /\ IF i < 5 THEN register' = SaveOrder[i] /\ UNCHANGED assignment
       ELSE register' = "out" /\ assignment' = epoch
    /\ UNCHANGED <<ctx, clients, attempt, admitted, epoch>>

-----------------------------------------------------------------------------
(* The MQTT client's task: dps_mqtt_event_handler().  Every client's       *)
(* events write the one s_ctx.                                             *)

Connected(n) ==
    /\ clients[n] = "started" /\ clients' = [clients EXCEPT ![n] = "connected"]
    /\ ctx' = [ctx EXCEPT !.state = "subscribing"]
    /\ UNCHANGED <<register, attempt, admitted, epoch, cache, assignment, refused, dpsFaults>>

Subscribed(n) ==
    /\ clients[n] = "connected" /\ ctx.state = "subscribing"
    /\ clients' = [clients EXCEPT ![n] = "asked"]
    /\ ctx' = [ctx EXCEPT !.state = "registering"]
    /\ UNCHANGED <<register, attempt, admitted, epoch, cache, assignment, refused, dpsFaults>>

(* parse_dps_response(): the assignment, "not yet", an error.              *)
Answer(n) ==
    /\ clients[n] = "asked"
    /\ \/ ctx' = [state |-> "done", by |-> n]
       \/ ctx.state \in {"registering", "polling"} /\ ctx' = [ctx EXCEPT !.state = "polling"]
       \/ ctx' = [ctx EXCEPT !.state = "failed"]
    /\ UNCHANGED <<clients, register, attempt, admitted, epoch, cache, assignment, refused, dpsFaults>>

(* DISCONNECTED, after which the client connects again, or ERROR.          *)
DpsSessionEnds(n) ==
    /\ clients[n] # "none" /\ \E stage \in {clients[n], "started"} : clients' = [clients EXCEPT ![n] = stage]
    /\ ctx' = IF ctx.state = "done" THEN ctx ELSE [ctx EXCEPT !.state = "failed"]
    /\ UNCHANGED <<register, attempt, admitted, epoch, cache, assignment, refused, dpsFaults>>

-----------------------------------------------------------------------------
(* The rest of the hub.                                                    *)

AdmissionDrops ==
    /\ DpsFault /\ admitted /\ admitted' = FALSE
    /\ UNCHANGED <<ctx, clients, register, attempt, epoch, cache, assignment, refused>>

AdmittedAgain ==
    /\ ~admitted /\ register = "out" /\ admitted' = TRUE
    /\ UNCHANGED <<ctx, clients, register, attempt, epoch, cache, assignment, refused, dpsFaults>>

Reset(firmware) ==
    /\ epoch' = firmware /\ ctx' = IdleCtx /\ clients' = NoClient /\ register' = "out"
    /\ assignment' = 0

(* A reset, into the same firmware or into one for a new enrollment.       *)
DpsRestart ==
    /\ DpsFault /\ \E firmware \in epoch..MaxEpoch : Reset(firmware)
    /\ UNCHANGED <<attempt, admitted, cache, refused>>

(* dps_clear_cache() at a decommission, which a power cut may leave half   *)
(* done; the hub restarts.                                                 *)
ClearCache ==
    /\ register = "out" /\ assignment # 0
    /\ \/ cache' = [key \in CacheKeys |-> 0] /\ UNCHANGED dpsFaults
       \/ DpsFault /\ \E S \in SUBSET CacheKeys :
                         cache' = [key \in CacheKeys |-> IF key \in S THEN 0 ELSE cache[key]]
    /\ Reset(epoch) /\ UNCHANGED <<attempt, admitted, refused>>

DpsNext ==
    \/ FromCache \/ Register \/ WaitEnds \/ StopClient \/ Conclude
    \/ \E i \in 1..5 : SaveKey(i)
    \/ \E n \in 1..MaxAttempts : Connected(n) \/ Subscribed(n) \/ Answer(n) \/ DpsSessionEnds(n)
    \/ AdmissionDrops \/ AdmittedAgain \/ DpsRestart \/ ClearCache

DpsSpec == DpsInit /\ [][DpsNext]_dpsVars

-----------------------------------------------------------------------------
(* Properties.                                                             *)

(* What dps_register() takes for its answer is the answer to this attempt: *)
(* no client of an attempt that timed out writes the s_ctx of the next.    *)
OwnAnswer ==
    register # "out" /\ ctx.state = "done" => ctx.by = attempt

(* What the next boot loads is one assignment, of the enrollment its       *)
(* firmware is for, wherever a save, an erase or a migration was cut; but  *)
(* for a write that failed, which the save does not look at.               *)
CacheOfEpoch ==
    CacheLoads /\ ~refused => \A key \in {"hub_host", "dev_id", "dev_key"} : cache[key] = epoch
=============================================================================
