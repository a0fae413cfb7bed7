---------------------------- MODULE Provisioning ----------------------------
(***************************************************************************)
(* The provisioning manager                                                *)
(* (main/provisioning_manager/provisioning_manager.c): the hub's device    *)
(* set and rules, in RAM and, one key at a time, in NVS.  Its mutex holds  *)
(* each update from its reads to its writes of NVS, so one is a step; but  *)
(* a write can fail, or the power go, after any of its keys.               *)
(***************************************************************************)
EXTENDS Naturals, Sequences, FiniteSets

CONSTANTS
    Valves, LoraIds, LeakMacs,    \* what the cloud may name, but for zero
    NoId,                         \* an id of zero, an empty MAC
    MaxLora, MaxLeak,             \* MAX_LORA_SENSORS, MAX_BLE_LEAK_SENSORS
    MaxNvsFaults                  \* bound: writes that fail, power cuts in a write

ASSUME ProvisioningAssumption ==
    /\ NoId \notin Valves \cup LoraIds \cup LeakMacs
    /\ MaxLora \in Nat /\ MaxLeak \in Nat /\ MaxNvsFaults \in Nat

VARIABLES
    config,      \* g_config
    nvs,         \* the namespace: a key's value in a sequence, none if absent
    torn,        \* for the properties: a rewrite of the previous config failed too
    mixed,       \* for the properties: the hub has booted from a half-written set
    nvsFaults    \* writes failed or cut so far

provVars == <<config, nvs, torn, mixed, nvsFaults>>

(* The keys, in the order provisioning_save_to_nvs() writes them.          *)
KeyOrder == <<"ver", "state", "valve", "loraCount", "loraIds", "leakCount", "leakMacs", "en", "trig">>
Keys == {KeyOrder[i] : i \in 1..9}
FirstKeys(n) == {KeyOrder[i] : i \in 1..n}

Provisioned(c) == c.state = "provisioned"

(* The rules: auto_close_enabled and the trigger mask; the default is on,  *)
(* with every trigger.                                                     *)
Fresh == [state |-> "unprovisioned", valve |-> NoId, lora |-> <<>>, leak |-> <<>>,
          en |-> "on", trig |-> "all"]
NoKeys == [key \in Keys |-> <<>>]

ProvInit == config = Fresh /\ nvs = NoKeys /\ torn = FALSE /\ mixed = FALSE /\ nvsFaults = 0

-----------------------------------------------------------------------------
(* NVS: what a save writes, and what the next boot loads.                  *)

Value(c) == [ver |-> <<1>>, state |-> <<c.state>>, valve |-> <<c.valve>>,
             loraCount |-> <<Len(c.lora)>>, loraIds |-> <<c.lora>>,
             leakCount |-> <<Len(c.leak)>>, leakMacs |-> <<c.leak>>,
             en |-> <<c.en>>, trig |-> <<c.trig>>]

(* A list's blob is written only when the list is not empty.               *)
Skipped(c) ==
    (IF c.lora = <<>> THEN {"loraIds"} ELSE {}) \cup (IF c.leak = <<>> THEN {"leakMacs"} ELSE {})

(* n after the keys in S of a save of c.                                   *)
Written(n, c, S) ==
    LET values == Value(c)
        written == S \ Skipped(c)
    IN  [key \in Keys |-> IF key \in written THEN values[key] ELSE n[key]]

(* The count decides; a blob too short for it leaves zeroes, a missing one *)
(* an empty list.                                                          *)
LoadedList(count, blob) ==
    IF count = <<>> \/ blob = <<>> THEN <<>>
    ELSE [i \in 1..count[1] |-> IF i <= Len(blob[1]) THEN blob[1][i] ELSE NoId]

Or(value, default) == IF value = <<>> THEN default ELSE value[1]

(* provisioning_load_from_nvs(): a load that fails keeps what it has read. *)
Loaded(n) ==
    IF n.ver = <<>> \/ n.state = <<>> \/ n.state # <<"provisioned">> THEN Fresh
    ELSE IF n.valve = <<>> THEN [Fresh EXCEPT !.state = "provisioned"]
    ELSE [state |-> "provisioned", valve |-> n.valve[1],
          lora |-> LoadedList(n.loraCount, n.loraIds), leak |-> LoadedList(n.leakCount, n.leakMacs),
          en |-> Or(n.en, "on"), trig |-> Or(n.trig, "all")]

Fault == nvsFaults < MaxNvsFaults /\ nvsFaults' = nvsFaults + 1

(* resave_after_failed_write(), which may fail too.                        *)
ResavedNot(n) == nvs' = n /\ torn' = FALSE        \* mutant: the previous config not written again
Resaved(n) ==
    \E k \in 0..9 : nvs' = Written(n, config, FirstKeys(k)) /\ torn' = (k < 9)

(* The power goes with n in NVS: the next boot loads it.                   *)
Reboots(n) == nvs' = n /\ config' = Loaded(n) /\ torn' = FALSE

(* A save of c: it ends well, and RAM takes c; or it stops after a key,    *)
(* RAM keeps what it held, and that is saved again; or the power goes.     *)
Save(c) ==
    \/ config' = c /\ nvs' = Written(nvs, c, Keys) /\ torn' = FALSE /\ UNCHANGED <<mixed, nvsFaults>>
    \/ Fault /\ UNCHANGED <<config, mixed>>
       /\ \E n \in {Written(nvs, c, FirstKeys(k)) : k \in 0..9} : Resaved(n)
    \/ Fault /\ mixed' = TRUE
       /\ \E k \in 0..8 : Reboots(Written(nvs, c, FirstKeys(k)))

-----------------------------------------------------------------------------
(* The operations: a provision, the removals, the additions, the rules.    *)

(* should_remain_provisioned(), mark_unprovisioned_if_empty().             *)
HasDevice(c) == c.valve # NoId \/ c.lora # <<>> \/ c.leak # <<>>
DefaultRules(c) == [c EXCEPT !.en = "on", !.trig = "all"]
UnprovisionedLeakForgotten(c) ==          \* mutant: the BLE leak sensors not looked at
    IF c.valve # NoId \/ c.lora # <<>> THEN c ELSE [DefaultRules(c) EXCEPT !.state = "unprovisioned"]
UnprovisionedIfEmpty(c) ==
    IF HasDevice(c) THEN c ELSE [DefaultRules(c) EXCEPT !.state = "unprovisioned"]

(* The first of each of a payload's ids, up to the limit of the array.     *)
DeduplicatedNot(s) == s                           \* mutant: a repeated id is listed twice
Firsts(s) == {i \in DOMAIN s : \A j \in 1..(i - 1) : s[j] # s[i]}
Deduplicated(s) ==
    [k \in 1..Cardinality(Firsts(s)) |->
        s[CHOOSE i \in Firsts(s) : Cardinality({j \in Firsts(s) : j <= i}) = k]]

(* parse_hex_id(): zero is what it makes of "0x0", and of digits that are   *)
(* none; a MAC's text is validated.                                        *)
ParsedIds == LoraIds \cup {NoId}

(* A payload's devices, each part present or not.                          *)
DeviceParts ==
    [valve : {NoId} \cup Valves,
     lora : {<<>>} \cup {<<s>> : s \in UNION {[1..n -> ParsedIds] : n \in 0..MaxLora}},
     leak : {<<>>} \cup {<<s>> : s \in UNION {[1..n -> LeakMacs] : n \in 0..MaxLeak}}]

Devices(p) ==
    [config EXCEPT !.valve = IF p.valve = NoId THEN @ ELSE p.valve,
                   !.lora = IF p.lora = <<>> THEN @ ELSE Deduplicated(p.lora[1]),
                   !.leak = IF p.leak = <<>> THEN @ ELSE Deduplicated(p.leak[1]),
                   !.state = "provisioned"]

(* Arrays that leave no device reset the rules; the state stays.           *)
EmptiesHub(c) == Provisioned(config) /\ HasDevice(config) /\ ~HasDevice(c)
ResetIfEmptied(c) == IF EmptiesHub(c) THEN DefaultRules(c) ELSE c

(* Its rules: `auto` answers the setup question, and yes arms every        *)
(* trigger; `trig` is of the rules object, which wins.                     *)
RulesParts == [auto : {<<>>, <<"on">>, <<"off">>}, trig : {<<>>, <<"some">>}]
WithRules(c, r) ==
    [c EXCEPT !.en = Or(r.auto, @), !.trig = Or(r.trig, IF r.auto = <<"on">> THEN "all" ELSE @)]

(* provisioning_handle_azure_payload_json(): a payload with no part of     *)
(* either kind is refused.                                                 *)
NoDevices == [valve |-> NoId, lora |-> <<>>, leak |-> <<>>]
NoRules == [auto |-> <<>>, trig |-> <<>>]

Provision ==
    \/ \E c \in {ResetIfEmptied(Devices(p)) : p \in DeviceParts \ {NoDevices}} :
          \E d \in {WithRules(c, r) : r \in RulesParts} : Save(d)
    \/ \E d \in {WithRules(Devices(NoDevices), r) : r \in RulesParts \ {NoRules}} : Save(d)

RemoveValve ==
    /\ Provisioned(config) /\ config.valve # NoId
    /\ Save(UnprovisionedIfEmpty([config EXCEPT !.valve = NoId]))

Without(s, i) == [j \in 1..(Len(s) - 1) |-> IF j < i THEN s[j] ELSE s[j + 1]]
FirstAt(s, id, i) == i \in DOMAIN s /\ s[i] = id /\ \A j \in 1..(i - 1) : s[j] # id

RemoveLora(id) ==
    \E i \in DOMAIN config.lora :
        /\ FirstAt(config.lora, id, i)
        /\ Save(UnprovisionedIfEmpty([config EXCEPT !.lora = Without(@, i)]))

RemoveLeak(mac) ==
    \E i \in DOMAIN config.leak :
        /\ FirstAt(config.leak, mac, i)
        /\ Save(UnprovisionedIfEmpty([config EXCEPT !.leak = Without(@, i)]))

ListedNever(s, id) == FALSE                       \* mutant: added without a look
Listed(s, id) == \E i \in DOMAIN s : s[i] = id

AddLora(id) ==
    /\ ~Listed(config.lora, id) /\ Len(config.lora) < MaxLora
    /\ Save([config EXCEPT !.lora = Append(@, id), !.state = "provisioned"])

AddLeak(mac) ==
    /\ ~Listed(config.leak, mac) /\ Len(config.leak) < MaxLeak
    /\ Save([config EXCEPT !.leak = Append(@, mac), !.state = "provisioned"])

(* provisioning_decommission(): the erase of all keys, which may fail, with*)
(* some of them gone, or be cut.                                           *)
Erased(S) == [key \in Keys |-> IF key \in S THEN <<>> ELSE nvs[key]]

EraseAll ==
    \/ config' = Fresh /\ nvs' = NoKeys /\ torn' = FALSE /\ UNCHANGED <<mixed, nvsFaults>>
    \/ Fault /\ UNCHANGED <<config, mixed>>
       /\ \E n \in {Erased(S) : S \in SUBSET Keys} : Resaved(n)
    \/ Fault /\ mixed' = TRUE /\ \E n \in {Erased(S) : S \in SUBSET Keys} : Reboots(n)

(* provisioning_set_rules_config() writes its two keys alone, the second   *)
(* even if the first failed, and on a failure writes the old ones back.    *)
RulesKeys == {"en", "trig"}
SetRules(en, trig) ==
    LET c == [config EXCEPT !.en = en, !.trig = trig] IN
    \/ config' = c /\ nvs' = Written(nvs, c, RulesKeys) /\ UNCHANGED <<torn, mixed, nvsFaults>>
    \/ Fault /\ UNCHANGED <<config, mixed>>
       /\ \E S, T \in SUBSET RulesKeys :
             /\ nvs' = Written(Written(nvs, c, S), config, T)
             /\ torn' = (torn \/ T # RulesKeys)
    \/ Fault /\ mixed' = TRUE /\ Reboots(Written(nvs, c, {"en"}))

Reboot == Reboots(nvs) /\ mixed' = (mixed \/ torn) /\ UNCHANGED nvsFaults

ProvNext ==
    \/ Provision \/ RemoveValve \/ EraseAll \/ Reboot
    \/ \E id \in ParsedIds : RemoveLora(id) \/ AddLora(id)
    \/ \E mac \in LeakMacs : RemoveLeak(mac) \/ AddLeak(mac)
    \/ \E en \in {"on", "off"}, trig \in {"all", "some"} : SetRules(en, trig)

ProvSpec == ProvInit /\ [][ProvNext]_provVars

-----------------------------------------------------------------------------
(* Properties.                                                             *)

Lists(ids, max) == UNION {[1..n -> ids \cup {NoId}] : n \in 0..max}
Configs ==
    [state : {"unprovisioned", "provisioned"}, valve : Valves \cup {NoId},
     lora : Lists(LoraIds, MaxLora), leak : Lists(LeakMacs, MaxLeak),
     en : {"on", "off"}, trig : {"all", "some"}]

ProvTypeOK ==
    /\ config \in Configs
    /\ torn \in BOOLEAN /\ mixed \in BOOLEAN
    /\ nvsFaults \in 0..MaxNvsFaults

SameDevices(a, b) == a.state = b.state /\ a.valve = b.valve /\ a.lora = b.lora /\ a.leak = b.leak
SameRules(a, b) == a.en = b.en /\ a.trig = b.trig

(* The next boot loads the devices and the rules RAM holds, whatever write *)
(* failed and wherever (L13), unless the rewrite of the previous config    *)
(* failed as well.  It does not load rules set on an UNPROVISIONED hub, nor *)
(* on one whose first save was cut before the valve's key.                 *)
BootMatches ==
    ~torn => /\ SameDevices(Loaded(nvs), config)
             /\ Provisioned(config) /\ nvs.valve # <<>> => SameRules(Loaded(nvs), config)

(* No sensor is listed twice (N13: its second health slot would never hear *)
(* a packet); the zeroes a cut save may leave are no sensor.               *)
NoDuplicates ==
    /\ \A i, j \in DOMAIN config.lora : config.lora[i] = config.lora[j] => i = j \/ config.lora[i] = NoId
    /\ \A i, j \in DOMAIN config.leak : config.leak[i] = config.leak[j] => i = j \/ config.leak[i] = NoId

(* A hub with a device is PROVISIONED.  The zeroes a load pads a list with  *)
(* are only of a half-written set: another hub lists zero once at most as a*)
(* LoRa sensor, where a payload named it, and never as a leak sensor.      *)
ZeroTwice(s) == \E i, j \in DOMAIN s : i # j /\ s[i] = NoId /\ s[j] = NoId
StateAgrees ==
    /\ HasDevice(config) => Provisioned(config)
    /\ ~mixed => ~ZeroTwice(config.lora) /\ ~Listed(config.leak, NoId)
=============================================================================
