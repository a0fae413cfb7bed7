------------------------- MODULE ProvisioningProofs -------------------------
(***************************************************************************)
(* For any device set, any lists and any failing write: the next boot loads*)
(* what RAM holds (BootMatches), no sensor is listed twice (NoDuplicates), *)
(* and the state agrees with the devices (StateAgrees).  The heart of the  *)
(* first is SavedLoads: loading what a whole save wrote gives the set      *)
(* saved, whatever the keys held before, the blobs of a longer list        *)
(* included; of the second that every list and every blob in NVS is        *)
(* distinct, so that whatever a boot mixes of two saves is.                *)
(***************************************************************************)
EXTENDS Provisioning, FiniteSetTheorems, SequenceTheorems, TLAPS

(* A list of any ids, a set of devices and rules, and one RAM can hold: an *)
(* UNPROVISIONED hub has no device.                                        *)
IsList(s) == \E n \in Nat : s = [i \in 1..n |-> s[i]]

IsSet(c) ==
    /\ DOMAIN c = {"state", "valve", "lora", "leak", "en", "trig"}
    /\ c.state \in {"unprovisioned", "provisioned"}
    /\ IsList(c.lora) /\ IsList(c.leak)
    /\ c.en \in {"on", "off"} /\ c.trig \in {"all", "some"}
Consistent(c) == IsSet(c) /\ (~Provisioned(c) => ~HasDevice(c))

-----------------------------------------------------------------------------
(* Lists.                                                                  *)

LEMMA ListIsSeq ==
    ASSUME NEW s, IsList(s)
    PROVE  s \in Seq({s[i] : i \in DOMAIN s}) /\ Len(s) \in Nat
<1>1. PICK n \in Nat : s = [i \in 1..n |-> s[i]]
  BY DEF IsList
<1>2. s \in [1..n -> {s[i] : i \in DOMAIN s}]
  BY <1>1
<1>3. s \in Seq({s[i] : i \in DOMAIN s})
  BY <1>2
<1>4. QED
  BY <1>3

LEMMA SeqIsList ==
    ASSUME NEW S, NEW s \in Seq(S)
    PROVE  IsList(s)
<1>1. s = [i \in 1..Len(s) |-> s[i]] /\ Len(s) \in Nat
  OBVIOUS
<1>2. QED
  BY <1>1 DEF IsList

LEMMA EmptyIsList == IsList(<<>>)
<1>1. <<>> \in Seq({})
  OBVIOUS
<1>2. QED
  BY <1>1, SeqIsList

LEMMA DeduplicatedList ==
    ASSUME NEW s, IsList(s)
    PROVE  IsList(Deduplicated(s))
<1> DEFINE m == Cardinality(Firsts(s))
<1>1. PICK n \in Nat : s = [i \in 1..n |-> s[i]]
  BY DEF IsList
<1>2. Firsts(s) \subseteq 1..n
  BY <1>1 DEF Firsts
<1>3. m \in Nat
  <2>1. IsFiniteSet(1..n)
    BY FS_Interval
  <2>2. IsFiniteSet(Firsts(s))
    BY <1>2, <2>1, FS_Subset
  <2>3. QED
    BY <2>2, FS_CardinalityType
<1>4. Deduplicated(s) =
          [k \in 1..m |-> s[CHOOSE i \in Firsts(s) : Cardinality({j \in Firsts(s) : j <= i}) = k]]
  BY DEF Deduplicated
<1> HIDE DEF m
<1>5. Deduplicated(s) = [k \in 1..m |-> Deduplicated(s)[k]]
  BY <1>3, <1>4
<1>6. QED
  BY <1>3, <1>5 DEF IsList

LEMMA WithoutList ==
    ASSUME NEW s, IsList(s), NEW i \in DOMAIN s
    PROVE  IsList(Without(s, i))
<1>1. PICK n \in Nat : s = [j \in 1..n |-> s[j]]
  BY DEF IsList
<1>2. Len(s) = n /\ n - 1 \in Nat
  BY <1>1
<1>3. Without(s, i) = [j \in 1..(n - 1) |-> Without(s, i)[j]]
  BY <1>2 DEF Without
<1>4. QED
  BY <1>2, <1>3 DEF IsList

LEMMA AppendList ==
    ASSUME NEW s, IsList(s), NEW x
    PROVE  IsList(Append(s, x))
<1>1. s \in Seq({s[i] : i \in DOMAIN s} \cup {x})
  <2>1. PICK n \in Nat : s = [i \in 1..n |-> s[i]]
    BY DEF IsList
  <2>2. s \in [1..n -> {s[i] : i \in DOMAIN s} \cup {x}]
    BY <2>1
  <2>3. QED
    BY <2>2
<1>2. Append(s, x) \in Seq({s[i] : i \in DOMAIN s} \cup {x})
  BY <1>1
<1>3. QED
  BY <1>2, SeqIsList

-----------------------------------------------------------------------------
(* What a save writes and a load reads.                                    *)

LEMMA KeysAre ==
    Keys = {"ver", "state", "valve", "loraCount", "loraIds", "leakCount", "leakMacs", "en", "trig"}
<1>1. 1..9 = {1, 2, 3, 4, 5, 6, 7, 8, 9}
  OBVIOUS
<1>2. /\ KeyOrder[1] = "ver" /\ KeyOrder[2] = "state" /\ KeyOrder[3] = "valve"
      /\ KeyOrder[4] = "loraCount" /\ KeyOrder[5] = "loraIds" /\ KeyOrder[6] = "leakCount"
      /\ KeyOrder[7] = "leakMacs" /\ KeyOrder[8] = "en" /\ KeyOrder[9] = "trig"
  BY DEF KeyOrder
<1>3. QED
  BY <1>1, <1>2 DEF Keys

(* A list is loaded as it was saved; an empty one whatever blob is left.   *)
LEMMA ListLoads ==
    ASSUME NEW s, IsList(s), NEW blob, s # <<>> => blob = <<s>>
    PROVE  LoadedList(<<Len(s)>>, blob) = s
<1>s. s \in Seq({s[i] : i \in DOMAIN s})
  BY ListIsSeq
<1>0. <<Len(s)>> # <<>> /\ <<Len(s)>>[1] = Len(s) /\ Len(s) \in Nat /\ <<s>> # <<>> /\ <<s>>[1] = s
  BY <1>s
<1>1. CASE s = <<>>
  <2>1. Len(s) = 0
    BY <1>1
  <2>2. [i \in 1..0 |-> IF i <= Len(blob[1]) THEN blob[1][i] ELSE NoId] = <<>>
    OBVIOUS
  <2>3. QED
    BY <1>0, <1>1, <2>1, <2>2 DEF LoadedList
<1>2. CASE s # <<>>
  <2>1. LoadedList(<<Len(s)>>, blob) = [i \in 1..Len(s) |-> IF i <= Len(s) THEN s[i] ELSE NoId]
    BY <1>0, <1>2 DEF LoadedList
  <2>2. [i \in 1..Len(s) |-> IF i <= Len(s) THEN s[i] ELSE NoId] = [i \in 1..Len(s) |-> s[i]]
    BY <1>0
  <2>3. s = [i \in 1..Len(s) |-> s[i]]
    BY <1>s
  <2>4. QED
    BY <2>1, <2>2, <2>3
<1>3. QED
  BY <1>1, <1>2

(* The keys a whole save of c leaves in NVS, over any keys n.              *)
LEMMA SavedKeys ==
    ASSUME NEW c, IsSet(c), NEW n
    PROVE  LET w == Written(n, c, Keys) IN
           /\ w.ver = <<1>> /\ w.state = <<c.state>> /\ w.valve = <<c.valve>>
           /\ w.loraCount = <<Len(c.lora)>> /\ (c.lora # <<>> => w.loraIds = <<c.lora>>)
           /\ w.leakCount = <<Len(c.leak)>> /\ (c.leak # <<>> => w.leakMacs = <<c.leak>>)
           /\ w.en = <<c.en>> /\ w.trig = <<c.trig>>
<1> DEFINE w == Written(n, c, Keys)
<1>1. \A key \in Keys : w[key] = IF key \in Skipped(c) THEN n[key] ELSE Value(c)[key]
  BY Zenon DEF Written
<1>2. /\ Skipped(c) \subseteq {"loraIds", "leakMacs"}
      /\ c.lora # <<>> => "loraIds" \notin Skipped(c)
      /\ c.leak # <<>> => "leakMacs" \notin Skipped(c)
  BY DEF Skipped
<1>3. /\ Value(c)["ver"] = <<1>> /\ Value(c)["state"] = <<c.state>> /\ Value(c)["valve"] = <<c.valve>>
      /\ Value(c)["loraCount"] = <<Len(c.lora)>> /\ Value(c)["loraIds"] = <<c.lora>>
      /\ Value(c)["leakCount"] = <<Len(c.leak)>> /\ Value(c)["leakMacs"] = <<c.leak>>
      /\ Value(c)["en"] = <<c.en>> /\ Value(c)["trig"] = <<c.trig>>
  BY DEF Value
<1>4. QED
  BY <1>1, <1>2, <1>3, KeysAre

(* Loading a whole save gives the set saved.                               *)
LEMMA SavedLoads ==
    ASSUME NEW c, Consistent(c), NEW n
    PROVE  /\ SameDevices(Loaded(Written(n, c, Keys)), c)
           /\ Provisioned(c) => SameRules(Loaded(Written(n, c, Keys)), c)
<1> DEFINE w == Written(n, c, Keys)
<1>0. IsSet(c) /\ (~Provisioned(c) => ~HasDevice(c))
  BY DEF Consistent
<1>1. /\ w.ver = <<1>> /\ w.state = <<c.state>> /\ w.valve = <<c.valve>>
      /\ w.loraCount = <<Len(c.lora)>> /\ (c.lora # <<>> => w.loraIds = <<c.lora>>)
      /\ w.leakCount = <<Len(c.leak)>> /\ (c.leak # <<>> => w.leakMacs = <<c.leak>>)
      /\ w.en = <<c.en>> /\ w.trig = <<c.trig>>
  BY <1>0, SavedKeys
<1> HIDE DEF w
<1>2. ASSUME Provisioned(c) PROVE SameDevices(Loaded(w), c) /\ SameRules(Loaded(w), c)
  <2>1. w.ver # <<>> /\ w.state # <<>> /\ w.state = <<"provisioned">> /\ w.valve # <<>>
    BY <1>1, <1>2 DEF Provisioned
  <2>2. /\ LoadedList(w.loraCount, w.loraIds) = c.lora
        /\ LoadedList(w.leakCount, w.leakMacs) = c.leak
    BY <1>0, <1>1, ListLoads DEF IsSet
  <2>3. Or(w.en, "on") = c.en /\ Or(w.trig, "all") = c.trig
    BY <1>1 DEF Or
  <2>4. Loaded(w) = [state |-> "provisioned", valve |-> c.valve, lora |-> c.lora, leak |-> c.leak,
                     en |-> c.en, trig |-> c.trig]
    BY <1>1, <2>1, <2>2, <2>3 DEF Loaded
  <2>5. SameDevices(Loaded(w), c)
    BY <1>2, <2>4 DEF Provisioned, SameDevices
  <2>6. SameRules(Loaded(w), c)
    BY <2>4 DEF SameRules
  <2>7. QED
    BY <2>5, <2>6
<1>3. ASSUME ~Provisioned(c) PROVE SameDevices(Loaded(w), c)
  <2>1. Loaded(w) = Fresh
    BY <1>0, <1>1, <1>3 DEF Loaded, Provisioned, IsSet
  <2>2. c.state = "unprovisioned" /\ c.valve = NoId /\ c.lora = <<>> /\ c.leak = <<>>
    BY <1>0, <1>3 DEF Provisioned, HasDevice, IsSet
  <2>3. QED
    BY <1>3, <2>1, <2>2 DEF Fresh, SameDevices
<1>4. QED
  BY <1>2, <1>3 DEF w
-----------------------------------------------------------------------------
(* Consistent sets stay consistent.                                        *)

LEMMA FreshConsistent == Consistent(Fresh)
BY EmptyIsList DEF Consistent, Fresh, IsSet, Provisioned, HasDevice

(* What any NVS of the right types loads is consistent.                    *)
NvsTyped(n) ==
    /\ DOMAIN n = Keys
    /\ n.state \in {<<>>, <<"unprovisioned">>, <<"provisioned">>}
    /\ n.loraCount \in {<<>>} \cup {<<k>> : k \in Nat}
    /\ n.leakCount \in {<<>>} \cup {<<k>> : k \in Nat}
    /\ n.en \in {<<>>, <<"on">>, <<"off">>}
    /\ n.trig \in {<<>>, <<"all">>, <<"some">>}

LEMMA LoadedListType ==
    ASSUME NEW count \in {<<>>} \cup {<<k>> : k \in Nat}, NEW blob
    PROVE  IsList(LoadedList(count, blob))
<1>1. CASE count = <<>> \/ blob = <<>>
  BY <1>1, EmptyIsList DEF LoadedList
<1>2. CASE count # <<>> /\ blob # <<>>
  <2>1. PICK k \in Nat : count = <<k>>
    BY <1>2
  <2>2. LoadedList(count, blob) =
            [i \in 1..k |-> IF i <= Len(blob[1]) THEN blob[1][i] ELSE NoId]
    BY <1>2, <2>1 DEF LoadedList
  <2>3. LoadedList(count, blob) = [i \in 1..k |-> LoadedList(count, blob)[i]]
    BY <2>2
  <2>4. QED
    BY <2>3 DEF IsList
<1>3. QED
  BY <1>1, <1>2

LEMMA LoadedConsistent ==
    ASSUME NEW n, NvsTyped(n)
    PROVE  Consistent(Loaded(n))
<1>1. CASE n.ver = <<>> \/ n.state = <<>> \/ n.state # <<"provisioned">>
  BY <1>1, FreshConsistent DEF Loaded
<1>2. CASE ~(n.ver = <<>> \/ n.state = <<>> \/ n.state # <<"provisioned">>) /\ n.valve = <<>>
  <2>1. Loaded(n) = [Fresh EXCEPT !.state = "provisioned"]
    BY <1>2 DEF Loaded
  <2>2. QED
    BY <2>1, FreshConsistent DEF Fresh, Consistent, IsSet, Provisioned
<1>3. CASE ~(n.ver = <<>> \/ n.state = <<>> \/ n.state # <<"provisioned">>) /\ n.valve # <<>>
  <2>1. Loaded(n) =
          [state |-> "provisioned", valve |-> n.valve[1],
           lora |-> LoadedList(n.loraCount, n.loraIds), leak |-> LoadedList(n.leakCount, n.leakMacs),
           en |-> Or(n.en, "on"), trig |-> Or(n.trig, "all")]
    BY <1>3 DEF Loaded
  <2>3. IsList(LoadedList(n.loraCount, n.loraIds)) /\ IsList(LoadedList(n.leakCount, n.leakMacs))
    BY LoadedListType DEF NvsTyped
  <2>4. Or(n.en, "on") \in {"on", "off"}
    BY DEF NvsTyped, Or
  <2>5. Or(n.trig, "all") \in {"all", "some"}
    BY DEF NvsTyped, Or
  <2>6. QED
    BY <2>1, <2>3, <2>4, <2>5 DEF Consistent, IsSet, Provisioned
<1>4. QED
  BY <1>1, <1>2, <1>3

(* Any part of a save leaves the keys of the right types.                  *)
LEMMA WrittenTyped ==
    ASSUME NEW n, NvsTyped(n), NEW c, IsSet(c), NEW S
    PROVE  NvsTyped(Written(n, c, S))
<1> DEFINE w == Written(n, c, S)
<1>1. DOMAIN w = Keys
  BY DEF Written
<1>2. \A key \in Keys : w[key] = n[key] \/ w[key] = Value(c)[key]
  BY Zenon DEF Written
<1>3. /\ Value(c)["state"] = <<c.state>>
      /\ Value(c)["loraCount"] = <<Len(c.lora)>> /\ Value(c)["leakCount"] = <<Len(c.leak)>>
      /\ Value(c)["en"] = <<c.en>> /\ Value(c)["trig"] = <<c.trig>>
  BY DEF Value
<1>4. /\ c.state \in {"unprovisioned", "provisioned"}
      /\ Len(c.lora) \in Nat /\ Len(c.leak) \in Nat
      /\ c.en \in {"on", "off"} /\ c.trig \in {"all", "some"}
  BY ListIsSeq DEF IsSet
<1>5. /\ w.state = n.state \/ w.state = <<c.state>>
      /\ w.loraCount = n.loraCount \/ w.loraCount = <<Len(c.lora)>>
      /\ w.leakCount = n.leakCount \/ w.leakCount = <<Len(c.leak)>>
      /\ w.en = n.en \/ w.en = <<c.en>>
      /\ w.trig = n.trig \/ w.trig = <<c.trig>>
  BY <1>2, <1>3, KeysAre
<1>11. DOMAIN w = Keys
  BY <1>1
<1> HIDE DEF w
<1>6. NvsTyped(w)
  BY <1>11, <1>4, <1>5 DEF NvsTyped
<1>7. QED
  BY <1>6 DEF w

LEMMA ErasedTyped ==
    ASSUME NvsTyped(nvs), NEW S
    PROVE  NvsTyped(Erased(S))
<1>1. DOMAIN Erased(S) = Keys
  BY DEF Erased
<1>2. \A key \in Keys : Erased(S)[key] = nvs[key] \/ Erased(S)[key] = <<>>
  BY Zenon DEF Erased
<1>3. QED
  BY <1>1, <1>2, KeysAre DEF NvsTyped

LEMMA NoKeysTyped == NvsTyped(NoKeys) /\ NoKeys.ver = <<>>
<1>1. DOMAIN NoKeys = Keys /\ \A key \in Keys : NoKeys[key] = <<>>
  BY DEF NoKeys
<1>2. QED
  BY <1>1, KeysAre DEF NvsTyped
-----------------------------------------------------------------------------
(* The inductive invariant.                                                *)

ProvInv == Consistent(config) /\ NvsTyped(nvs) /\ torn \in BOOLEAN /\ BootMatches

(* What the next boot loads, after n: the promise of BootMatches.          *)
Matches(n, c) ==
    /\ SameDevices(Loaded(n), c)
    /\ Provisioned(c) /\ n.valve # <<>> => SameRules(Loaded(n), c)

LEMMA MatchesSaved ==
    ASSUME NEW c, Consistent(c), NEW n
    PROVE  Matches(Written(n, c, Keys), c)
BY SavedLoads DEF Matches

LEMMA MatchesItself ==
    ASSUME NEW n
    PROVE  Matches(n, Loaded(n))
BY DEF Matches, SameDevices, SameRules

(* A boot, from whatever keys.                                             *)
LEMMA RebootKeeps ==
    ASSUME NEW n, NvsTyped(n), Reboots(n)
    PROVE  ProvInv'
<1>1. nvs' = n /\ config' = Loaded(n) /\ torn' = FALSE
  BY DEF Reboots
<1>2. Consistent(config') /\ NvsTyped(nvs') /\ Matches(nvs', config')
  BY <1>1, LoadedConsistent, MatchesItself
<1>3. torn' \in BOOLEAN
  BY <1>1, Zenon
<1>4. QED
  BY <1>2, <1>3 DEF ProvInv, BootMatches, Matches, Consistent, NvsTyped

(* The previous config written again, from whatever keys.                  *)
LEMMA ResaveKeeps ==
    ASSUME ProvInv, NEW n, NvsTyped(n), Resaved(n), UNCHANGED config
    PROVE  ProvInv'
<1>1. PICK k \in 0..9 : nvs' = Written(n, config, FirstKeys(k)) /\ torn' = (k < 9)
  BY DEF Resaved
<1>2. Consistent(config') /\ NvsTyped(nvs')
  BY <1>1, WrittenTyped DEF ProvInv, Consistent
<1>3. ~torn' => Matches(nvs', config')
  <2>1. ~torn' => k = 9
    <3>1. k = 9 \/ k < 9
      OBVIOUS
    <3>2. torn' = (k < 9)
      BY <1>1
    <3>3. QED
      BY <3>1, <3>2, Zenon
  <2>2. FirstKeys(9) = Keys
    BY DEF FirstKeys, Keys
  <2>3. QED
    BY <1>1, <2>1, <2>2, MatchesSaved DEF ProvInv
<1>4. torn' \in BOOLEAN
  BY <1>1
<1>5. QED
  BY <1>2, <1>3, <1>4 DEF ProvInv, BootMatches, Matches, Consistent, NvsTyped

(* A save of any consistent set, however it ends.                          *)
LEMMA SaveKeeps ==
    ASSUME ProvInv, NEW c, Consistent(c), Save(c)
    PROVE  ProvInv'
<1>0. IsSet(c) /\ NvsTyped(nvs)
  BY DEF Consistent, ProvInv
<1>1. CASE config' = c /\ nvs' = Written(nvs, c, Keys) /\ torn' = FALSE
  <2>1. Consistent(config') /\ NvsTyped(nvs') /\ Matches(nvs', config')
    BY <1>0, <1>1, WrittenTyped, MatchesSaved
  <2>2. torn' \in BOOLEAN
    BY <1>1, Zenon
  <2>3. QED
    BY <2>1, <2>2 DEF ProvInv, BootMatches, Matches, Consistent, NvsTyped
<1>2. CASE UNCHANGED config /\ \E n \in {Written(nvs, c, FirstKeys(k)) : k \in 0..9} : Resaved(n)
  <2>1. PICK k \in 0..9 : Resaved(Written(nvs, c, FirstKeys(k)))
    BY <1>2
  <2>2. QED
    BY <1>0, <1>2, <2>1, WrittenTyped, ResaveKeeps
<1>3. CASE \E k \in 0..8 : Reboots(Written(nvs, c, FirstKeys(k)))
  BY <1>0, <1>3, WrittenTyped, RebootKeeps
<1>4. QED
  BY <1>1, <1>2, <1>3 DEF Save
-----------------------------------------------------------------------------
(* Every set an operation saves is consistent.                             *)

LEMMA DefaultRulesSet ==
    ASSUME NEW c, IsSet(c)
    PROVE  /\ IsSet(DefaultRules(c)) /\ DefaultRules(c).state = c.state
           /\ DefaultRules(c).valve = c.valve
           /\ DefaultRules(c).lora = c.lora /\ DefaultRules(c).leak = c.leak
BY DEF DefaultRules, IsSet

LEMMA ProvisionConsistent ==
    ASSUME IsSet(config), NEW p \in DeviceParts, NEW r \in RulesParts
    PROVE  /\ Consistent(WithRules(ResetIfEmptied(Devices(p)), r))
           /\ Consistent(WithRules(Devices(p), r))
<1>1. IsSet(Devices(p)) /\ Devices(p).state = "provisioned"
  <2>1. IsList(IF p.lora = <<>> THEN config.lora ELSE Deduplicated(p.lora[1]))
    <3>1. p.lora # <<>> => \E s, n : n \in 0..MaxLora /\ s \in [1..n -> ParsedIds] /\ p.lora = <<s>>
      BY DEF DeviceParts
    <3>2. p.lora # <<>> => IsList(p.lora[1])
      <4> SUFFICES ASSUME p.lora # <<>> PROVE IsList(p.lora[1])
        OBVIOUS
      <4>1. PICK s, n : n \in 0..MaxLora /\ s \in [1..n -> ParsedIds] /\ p.lora = <<s>>
        BY <3>1
      <4>2. n \in Nat /\ s = [i \in 1..n |-> s[i]] /\ p.lora[1] = s
        BY <4>1, ProvisioningAssumption
      <4>3. QED
        BY <4>2 DEF IsList
    <3>3. QED
      BY <3>2, DeduplicatedList DEF IsSet
  <2>2. IsList(IF p.leak = <<>> THEN config.leak ELSE Deduplicated(p.leak[1]))
    <3>1. p.leak # <<>> => \E s, n : n \in 0..MaxLeak /\ s \in [1..n -> LeakMacs] /\ p.leak = <<s>>
      BY DEF DeviceParts
    <3>2. p.leak # <<>> => IsList(p.leak[1])
      <4> SUFFICES ASSUME p.leak # <<>> PROVE IsList(p.leak[1])
        OBVIOUS
      <4>1. PICK s, n : n \in 0..MaxLeak /\ s \in [1..n -> LeakMacs] /\ p.leak = <<s>>
        BY <3>1
      <4>2. n \in Nat /\ s = [i \in 1..n |-> s[i]] /\ p.leak[1] = s
        BY <4>1, ProvisioningAssumption
      <4>3. QED
        BY <4>2 DEF IsList
    <3>3. QED
      BY <3>2, DeduplicatedList DEF IsSet
  <2>3. /\ DOMAIN Devices(p) = DOMAIN config /\ Devices(p).state = "provisioned"
        /\ Devices(p).lora = IF p.lora = <<>> THEN config.lora ELSE Deduplicated(p.lora[1])
        /\ Devices(p).leak = IF p.leak = <<>> THEN config.leak ELSE Deduplicated(p.leak[1])
        /\ Devices(p).en = config.en /\ Devices(p).trig = config.trig
    BY DEF Devices, IsSet
  <2>4. QED
    BY <2>1, <2>2, <2>3 DEF IsSet
<1>2. ASSUME NEW c, IsSet(c), c.state = "provisioned"
      PROVE  Consistent(WithRules(c, r))
  <2>1. Or(r.auto, c.en) \in {"on", "off"}
    BY <1>2 DEF Or, RulesParts, IsSet
  <2>2. Or(r.trig, IF r.auto = <<"on">> THEN "all" ELSE c.trig) \in {"all", "some"}
    BY <1>2 DEF Or, RulesParts, IsSet
  <2>3. /\ DOMAIN WithRules(c, r) = DOMAIN c
        /\ WithRules(c, r).state = c.state
        /\ WithRules(c, r).lora = c.lora /\ WithRules(c, r).leak = c.leak
        /\ WithRules(c, r).en = Or(r.auto, c.en)
        /\ WithRules(c, r).trig = Or(r.trig, IF r.auto = <<"on">> THEN "all" ELSE c.trig)
    BY <1>2 DEF WithRules, IsSet
  <2>4. QED
    BY <1>2, <2>1, <2>2, <2>3 DEF IsSet, Consistent, Provisioned
<1>3. IsSet(DefaultRules(Devices(p))) /\ DefaultRules(Devices(p)).state = "provisioned"
  BY <1>1, DefaultRulesSet
<1>4. QED
  BY <1>1, <1>2, <1>3 DEF ResetIfEmptied

(* A removal from a PROVISIONED set.                                       *)
LEMMA RemovalConsistent ==
    ASSUME NEW c, IsSet(c), Provisioned(c)
    PROVE  Consistent(UnprovisionedIfEmpty(c))
<1>1. CASE HasDevice(c)
  BY <1>1 DEF UnprovisionedIfEmpty, Consistent
<1>2. CASE ~HasDevice(c)
  <2> DEFINE d == DefaultRules(c)
  <2>1. IsSet(d) /\ d.valve = NoId /\ d.lora = <<>> /\ d.leak = <<>>
    BY <1>2, DefaultRulesSet DEF HasDevice
  <2>2. UnprovisionedIfEmpty(c) = [d EXCEPT !.state = "unprovisioned"]
    BY <1>2 DEF UnprovisionedIfEmpty
  <2> HIDE DEF d
  <2>3. QED
    BY <2>1, <2>2 DEF HasDevice, Consistent, IsSet, Provisioned
<1>3. QED
  BY <1>1, <1>2

(* What the removals and the additions change of a set.                    *)
LEMMA ChangedIsSet ==
    ASSUME NEW c, IsSet(c), NEW x, NEW s, IsList(s)
    PROVE  /\ IsSet([c EXCEPT !.valve = x]) /\ [c EXCEPT !.valve = x].state = c.state
           /\ IsSet([c EXCEPT !.lora = s]) /\ [c EXCEPT !.lora = s].state = c.state
           /\ IsSet([c EXCEPT !.leak = s]) /\ [c EXCEPT !.leak = s].state = c.state
           /\ Consistent([c EXCEPT !.lora = s, !.state = "provisioned"])
           /\ Consistent([c EXCEPT !.leak = s, !.state = "provisioned"])
BY DEF IsSet, Consistent, Provisioned

-----------------------------------------------------------------------------
(* The steps that save no whole set: the erase and the rules' two keys.    *)

LEMMA EraseKeeps ==
    ASSUME ProvInv, EraseAll
    PROVE  ProvInv'
<1>1. CASE config' = Fresh /\ nvs' = NoKeys /\ torn' = FALSE
  <2>1. Consistent(config') /\ NvsTyped(nvs')
    BY <1>1, FreshConsistent, NoKeysTyped
  <2>2. Loaded(nvs') = config'
    BY <1>1, NoKeysTyped DEF Loaded
  <2>3. torn' \in BOOLEAN
    BY <1>1, Zenon
  <2>4. Matches(nvs', config')
    BY <2>2, MatchesItself, Zenon
  <2>5. QED
    BY <2>1, <2>3, <2>4 DEF ProvInv, BootMatches, Matches, Consistent, NvsTyped
<1>2. CASE UNCHANGED config /\ \E n \in {Erased(S) : S \in SUBSET Keys} : Resaved(n)
  <2>1. PICK S \in SUBSET Keys : Resaved(Erased(S))
    BY <1>2
  <2>2. NvsTyped(Erased(S))
    BY ErasedTyped DEF ProvInv
  <2>3. QED
    BY <1>2, <2>1, <2>2, ResaveKeeps
<1>3. CASE \E n \in {Erased(S) : S \in SUBSET Keys} : Reboots(n)
  <2>1. PICK S \in SUBSET Keys : Reboots(Erased(S))
    BY <1>3
  <2>2. NvsTyped(Erased(S))
    BY ErasedTyped DEF ProvInv
  <2>3. QED
    BY <2>1, <2>2, RebootKeeps
<1>4. QED
  BY <1>1, <1>2, <1>3 DEF EraseAll

(* Keys that differ from n in the rules alone load the same devices, and   *)
(* the rules they hold.                                                    *)
LEMMA RulesKeysLoad ==
    ASSUME NEW n, NEW w, \A key \in Keys \ RulesKeys : w[key] = n[key]
    PROVE  /\ SameDevices(Loaded(w), Loaded(n)) /\ w.valve = n.valve
           /\ Provisioned(Loaded(w)) /\ w.valve # <<>> =>
                  Loaded(w).en = Or(w.en, "on") /\ Loaded(w).trig = Or(w.trig, "all")
<1>1. /\ w.ver = n.ver /\ w.state = n.state /\ w.valve = n.valve
      /\ w.loraCount = n.loraCount /\ w.loraIds = n.loraIds
      /\ w.leakCount = n.leakCount /\ w.leakMacs = n.leakMacs
  BY KeysAre DEF RulesKeys
<1>2. CASE n.ver = <<>> \/ n.state = <<>> \/ n.state # <<"provisioned">>
  <2>1. Loaded(w) = Fresh /\ Loaded(n) = Fresh
    BY <1>1, <1>2 DEF Loaded
  <2>2. QED
    BY <1>1, <2>1 DEF SameDevices, Provisioned, Fresh
<1>3. CASE ~(n.ver = <<>> \/ n.state = <<>> \/ n.state # <<"provisioned">>) /\ n.valve = <<>>
  <2>1. Loaded(w) = Loaded(n)
    BY <1>1, <1>3 DEF Loaded
  <2>2. QED
    BY <1>1, <1>3, <2>1 DEF SameDevices
<1>4. CASE ~(n.ver = <<>> \/ n.state = <<>> \/ n.state # <<"provisioned">>) /\ n.valve # <<>>
  <2>1. Loaded(n) =
          [state |-> "provisioned", valve |-> n.valve[1],
           lora |-> LoadedList(n.loraCount, n.loraIds), leak |-> LoadedList(n.leakCount, n.leakMacs),
           en |-> Or(n.en, "on"), trig |-> Or(n.trig, "all")]
    BY <1>4 DEF Loaded
  <2>2. Loaded(w) =
          [state |-> "provisioned", valve |-> n.valve[1],
           lora |-> LoadedList(n.loraCount, n.loraIds), leak |-> LoadedList(n.leakCount, n.leakMacs),
           en |-> Or(w.en, "on"), trig |-> Or(w.trig, "all")]
    BY <1>1, <1>4 DEF Loaded
  <2>3. QED
    BY <1>1, <2>1, <2>2 DEF SameDevices
<1>5. QED
  BY <1>2, <1>3, <1>4

LEMMA RulesWritten ==
    ASSUME NEW n, NEW c, IsSet(c), NEW S \in SUBSET RulesKeys
    PROVE  /\ \A key \in Keys \ RulesKeys : Written(n, c, S)[key] = n[key]
           /\ S = RulesKeys => Written(n, c, S).en = <<c.en>> /\ Written(n, c, S).trig = <<c.trig>>
<1>1. \A key \in Keys : Written(n, c, S)[key] = IF key \in S \ Skipped(c) THEN Value(c)[key] ELSE n[key]
  BY Zenon DEF Written
<1>2. Skipped(c) \subseteq {"loraIds", "leakMacs"}
  BY DEF Skipped
<1>3. Value(c)["en"] = <<c.en>> /\ Value(c)["trig"] = <<c.trig>>
  BY DEF Value
<1>4. \A key \in Keys \ RulesKeys : Written(n, c, S)[key] = n[key]
  BY <1>1
<1>5. QED
  BY <1>1, <1>2, <1>3, <1>4, KeysAre DEF RulesKeys

LEMMA BothRulesWritten ==
    ASSUME NEW n, NEW c, IsSet(c)
    PROVE  /\ Written(n, c, RulesKeys).en = <<c.en>>
           /\ Written(n, c, RulesKeys).trig = <<c.trig>>
<1>1. RulesKeys \in SUBSET RulesKeys
  OBVIOUS
<1>2. QED
  BY <1>1, RulesWritten

(* Where the boot loaded the devices of c, it does after the rules' keys,  *)
(* and with both of them written, the rules too.                           *)
LEMMA RulesMatch ==
    ASSUME NEW n, NEW w, NEW c, NEW d, IsSet(d), SameDevices(Loaded(n), c), SameDevices(c, d),
           \A key \in Keys \ RulesKeys : w[key] = n[key],
           w.en = <<d.en>>, w.trig = <<d.trig>>
    PROVE  Matches(w, d)
<1>1. SameDevices(Loaded(w), d)
  BY RulesKeysLoad DEF SameDevices
<1>2. ASSUME Provisioned(d), w.valve # <<>> PROVE SameRules(Loaded(w), d)
  <2>1. Provisioned(Loaded(w))
    BY <1>1, <1>2 DEF SameDevices, Provisioned
  <2>2. Loaded(w).en = Or(w.en, "on") /\ Loaded(w).trig = Or(w.trig, "all")
    BY <1>2, <2>1, RulesKeysLoad
  <2>3. QED
    BY <2>2 DEF Or, SameRules
<1>3. QED
  BY <1>1, <1>2 DEF Matches

LEMMA SetRulesKeeps ==
    ASSUME ProvInv, NEW en \in {"on", "off"}, NEW trig \in {"all", "some"}, SetRules(en, trig)
    PROVE  ProvInv'
<1> DEFINE c == [config EXCEPT !.en = en, !.trig = trig]
<1>1. Consistent(config) /\ IsSet(config) /\ NvsTyped(nvs) /\ torn \in BOOLEAN
  BY DEF ProvInv, Consistent
<1>2. Consistent(c) /\ IsSet(c) /\ SameDevices(config, c) /\ c.en = en /\ c.trig = trig
  BY <1>1 DEF Consistent, IsSet, SameDevices, Provisioned, HasDevice
<1>3. ~torn => SameDevices(Loaded(nvs), config)
  BY DEF ProvInv, BootMatches
<1>s. \/ config' = c /\ nvs' = Written(nvs, c, RulesKeys) /\ UNCHANGED torn
      \/ UNCHANGED config
         /\ \E S, T \in SUBSET RulesKeys :
               nvs' = Written(Written(nvs, c, S), config, T) /\ torn' = (torn \/ T # RulesKeys)
      \/ Reboots(Written(nvs, c, {"en"}))
  BY DEF SetRules
<1> HIDE DEF c
<1>4. CASE config' = c /\ nvs' = Written(nvs, c, RulesKeys) /\ UNCHANGED torn
  <2>1. Consistent(config') /\ NvsTyped(nvs')
    BY <1>1, <1>2, <1>4, WrittenTyped
  <2> DEFINE w == Written(nvs, c, RulesKeys)
  <2>2. nvs' = w /\ RulesKeys \in SUBSET RulesKeys
    BY <1>4
  <2>3. \A key \in Keys \ RulesKeys : w[key] = nvs[key]
    BY <1>2, <2>2, RulesWritten
  <2>4. w.en = <<c.en>> /\ w.trig = <<c.trig>>
    BY <1>2, BothRulesWritten
  <2> HIDE DEF w
  <2>5. ~torn => Matches(w, c)
    BY <1>2, <1>3, <2>3, <2>4, RulesMatch
  <2>6. QED
    BY <1>1, <1>4, <2>1, <2>2, <2>5 DEF ProvInv, BootMatches, Matches, Consistent, NvsTyped
<1>5. CASE UNCHANGED config
           /\ \E S, T \in SUBSET RulesKeys :
                 nvs' = Written(Written(nvs, c, S), config, T) /\ torn' = (torn \/ T # RulesKeys)
  <2>1. PICK S \in SUBSET RulesKeys, T \in SUBSET RulesKeys :
            nvs' = Written(Written(nvs, c, S), config, T) /\ torn' = (torn \/ T # RulesKeys)
    BY <1>5
  <2> DEFINE v == Written(nvs, c, S)
             w == Written(v, config, T)
  <2>2. NvsTyped(v) /\ NvsTyped(w)
    BY <1>1, <1>2, WrittenTyped
  <2>3. \A key \in Keys \ RulesKeys : v[key] = nvs[key]
    BY <1>2, RulesWritten
  <2>4. /\ \A key \in Keys \ RulesKeys : w[key] = v[key]
        /\ T = RulesKeys => w.en = <<config.en>> /\ w.trig = <<config.trig>>
    BY <1>1, RulesWritten
  <2>5. SameDevices(config, config)
    BY DEF SameDevices
  <2>6. nvs' = w
    BY <2>1
  <2> HIDE DEF v, w
  <2>7. \A key \in Keys \ RulesKeys : w[key] = nvs[key]
    BY <2>3, <2>4
  <2>8. ~torn' => ~torn /\ T = RulesKeys
    BY <2>1, Zenon
  <2>9. ~torn' => Matches(w, config)
    BY <1>1, <1>3, <2>4, <2>5, <2>7, <2>8, RulesMatch
  <2>10. torn' \in BOOLEAN
    BY <2>1, Zenon
  <2>11. QED
    BY <1>1, <1>5, <2>2, <2>6, <2>9, <2>10 DEF ProvInv, BootMatches, Matches, Consistent, NvsTyped
<1>6. CASE Reboots(Written(nvs, c, {"en"}))
  BY <1>1, <1>2, <1>6, WrittenTyped, RebootKeeps
<1>7. QED
  BY <1>s, <1>4, <1>5, <1>6

-----------------------------------------------------------------------------
(* The theorem.                                                            *)

LEMMA ProvisionKeeps ==
    ASSUME ProvInv, Provision
    PROVE  ProvInv'
<1>0. IsSet(config)
  BY DEF ProvInv, Consistent
<1>1. CASE \E c \in {ResetIfEmptied(Devices(p)) : p \in DeviceParts \ {NoDevices}} :
              \E d \in {WithRules(c, r) : r \in RulesParts} : Save(d)
  <2>1. PICK p \in DeviceParts, r \in RulesParts : Save(WithRules(ResetIfEmptied(Devices(p)), r))
    BY <1>1
  <2>2. QED
    BY <1>0, <2>1, ProvisionConsistent, SaveKeeps
<1>2. CASE \E d \in {WithRules(Devices(NoDevices), r) : r \in RulesParts \ {NoRules}} : Save(d)
  <2>1. PICK r \in RulesParts : Save(WithRules(Devices(NoDevices), r))
    BY <1>2
  <2>2. NoDevices \in DeviceParts
    BY DEF NoDevices, DeviceParts
  <2>3. QED
    BY <1>0, <2>1, <2>2, ProvisionConsistent, SaveKeeps
<1>3. QED
  BY <1>1, <1>2 DEF Provision

LEMMA RemovalKeeps ==
    ASSUME ProvInv,
           RemoveValve \/ (\E id : RemoveLora(id)) \/ (\E mac : RemoveLeak(mac))
    PROVE  ProvInv'
<1>0. Consistent(config) /\ IsSet(config)
  BY DEF ProvInv, Consistent
<1>1. CASE RemoveValve
  <2>1. Provisioned(config) /\ Save(UnprovisionedIfEmpty([config EXCEPT !.valve = NoId]))
    BY <1>1 DEF RemoveValve
  <2>2. IsSet([config EXCEPT !.valve = NoId]) /\ Provisioned([config EXCEPT !.valve = NoId])
    BY <1>0, <2>1, EmptyIsList, ChangedIsSet DEF Provisioned
  <2>3. QED
    BY <2>1, <2>2, RemovalConsistent, SaveKeeps
<1>2. ASSUME NEW id, RemoveLora(id) PROVE ProvInv'
  <2>1. PICK i \in DOMAIN config.lora :
            Save(UnprovisionedIfEmpty([config EXCEPT !.lora = Without(@, i)]))
    BY <1>2 DEF RemoveLora
  <2>2. IsList(Without(config.lora, i))
    BY <1>0, <2>1, WithoutList DEF IsSet
  <2>3. Provisioned(config)
    BY <1>0, <2>1 DEF Consistent, HasDevice
  <2> DEFINE d == [config EXCEPT !.lora = Without(config.lora, i)]
  <2>4. IsSet(d) /\ Provisioned(d)
    BY <1>0, <2>2, <2>3, ChangedIsSet DEF Provisioned
  <2>5. [config EXCEPT !.lora = Without(@, i)] = d
    OBVIOUS
  <2> HIDE DEF d
  <2>6. QED
    BY <2>1, <2>4, <2>5, RemovalConsistent, SaveKeeps
<1>3. ASSUME NEW mac, RemoveLeak(mac) PROVE ProvInv'
  <2>1. PICK i \in DOMAIN config.leak :
            Save(UnprovisionedIfEmpty([config EXCEPT !.leak = Without(@, i)]))
    BY <1>3 DEF RemoveLeak
  <2>2. IsList(Without(config.leak, i))
    BY <1>0, <2>1, WithoutList DEF IsSet
  <2>3. Provisioned(config)
    BY <1>0, <2>1 DEF Consistent, HasDevice
  <2> DEFINE d == [config EXCEPT !.leak = Without(config.leak, i)]
  <2>4. IsSet(d) /\ Provisioned(d)
    BY <1>0, <2>2, <2>3, ChangedIsSet DEF Provisioned
  <2>5. [config EXCEPT !.leak = Without(@, i)] = d
    OBVIOUS
  <2> HIDE DEF d
  <2>6. QED
    BY <2>1, <2>4, <2>5, RemovalConsistent, SaveKeeps
<1>4. QED
  BY <1>1, <1>2, <1>3

LEMMA AdditionKeeps ==
    ASSUME ProvInv, (\E id : AddLora(id)) \/ (\E mac : AddLeak(mac))
    PROVE  ProvInv'
<1>0. IsSet(config)
  BY DEF ProvInv, Consistent
<1>1. ASSUME NEW id, AddLora(id) PROVE ProvInv'
  <2> DEFINE d == [config EXCEPT !.lora = Append(config.lora, id), !.state = "provisioned"]
  <2>1. Save(d)
    BY <1>1 DEF AddLora
  <2>2. IsList(Append(config.lora, id))
    BY <1>0, AppendList DEF IsSet
  <2>3. Consistent(d)
    BY <1>0, <2>2, ChangedIsSet
  <2> HIDE DEF d
  <2>4. QED
    BY <2>1, <2>3, SaveKeeps
<1>2. ASSUME NEW mac, AddLeak(mac) PROVE ProvInv'
  <2> DEFINE d == [config EXCEPT !.leak = Append(config.leak, mac), !.state = "provisioned"]
  <2>1. Save(d)
    BY <1>2 DEF AddLeak
  <2>2. IsList(Append(config.leak, mac))
    BY <1>0, AppendList DEF IsSet
  <2>3. Consistent(d)
    BY <1>0, <2>2, ChangedIsSet
  <2> HIDE DEF d
  <2>4. QED
    BY <2>1, <2>3, SaveKeeps
<1>3. QED
  BY <1>1, <1>2

LEMMA ProvStarts == ProvInit => ProvInv
<1> SUFFICES ASSUME ProvInit PROVE ProvInv
  OBVIOUS
<1>1. Consistent(config) /\ NvsTyped(nvs)
  BY FreshConsistent, NoKeysTyped DEF ProvInit
<1>2. Loaded(nvs) = config
  BY NoKeysTyped DEF ProvInit, Loaded
<1>3. torn \in BOOLEAN
  BY Zenon DEF ProvInit
<1>4. Matches(nvs, config)
  BY <1>2, MatchesItself, Zenon
<1>5. QED
  BY <1>1, <1>3, <1>4 DEF ProvInv, BootMatches, Matches

LEMMA ProvKept == ProvInv /\ [ProvNext]_provVars => ProvInv'
<1> SUFFICES ASSUME ProvInv, [ProvNext]_provVars PROVE ProvInv'
  OBVIOUS
<1>1. CASE Provision
  BY <1>1, ProvisionKeeps
<1>2. CASE RemoveValve \/ (\E id : RemoveLora(id)) \/ (\E mac : RemoveLeak(mac))
  BY <1>2, RemovalKeeps
<1>3. CASE (\E id : AddLora(id)) \/ (\E mac : AddLeak(mac))
  BY <1>3, AdditionKeeps
<1>4. CASE EraseAll
  BY <1>4, EraseKeeps
<1>5. CASE Reboot
  BY <1>5, RebootKeeps DEF Reboot, ProvInv
<1>6. CASE \E en \in {"on", "off"}, trig \in {"all", "some"} : SetRules(en, trig)
  BY <1>6, SetRulesKeeps
<1>7. CASE UNCHANGED provVars
  BY <1>7 DEF provVars, ProvInv, BootMatches, Consistent, NvsTyped
<1>8. QED
  BY <1>1, <1>2, <1>3, <1>4, <1>5, <1>6, <1>7 DEF ProvNext

(* The next boot loads the devices and the rules that RAM holds, however   *)
(* many devices the cloud names and however many writes fail, as long as   *)
(* the rewrite of the previous set did not fail too: load_from_nvs() is the *)
(* inverse of save_to_nvs(), and the resave repairs each half-written set. *)
THEOREM BootMatchesHolds == ProvSpec => []BootMatches
<1>1. ProvInv => BootMatches
  BY DEF ProvInv
<1>2. QED
  BY <1>1, ProvStarts, ProvKept, PTL DEF ProvSpec

-----------------------------------------------------------------------------
(* No sensor twice.  A load pads a list with zeroes when the blob is       *)
(* shorter than the count, and cuts it when it is longer: both keep what   *)
(* is listed once so.  The invariant is about the two blobs in NVS too.    *)
Distinct(s) == \A i, j \in DOMAIN s : s[i] = s[j] => i = j \/ s[i] = NoId

(* The k-th of the first occurrences exists: their ranks are an injection  *)
(* into as many numbers as they are.                                       *)
LEMMA RankExists ==
    ASSUME NEW n \in Nat, NEW F \in SUBSET (1..n), NEW k \in 1..Cardinality(F)
    PROVE  \E i \in F : Cardinality({j \in F : j <= i}) = k
<1> DEFINE m == Cardinality(F)
           upTo(i) == {j \in F : j <= i}
           rank == [i \in F |-> Cardinality(upTo(i))]
<1>1. IsFiniteSet(F) /\ m \in Nat
  <2>1. IsFiniteSet(1..n)
    BY FS_Interval
  <2>2. IsFiniteSet(F)
    BY <2>1, FS_Subset
  <2>3. QED
    BY <2>2, FS_CardinalityType
<1>2. ASSUME NEW i \in F
      PROVE  IsFiniteSet(upTo(i)) /\ Cardinality(upTo(i)) \in 1..m
  <2>1. upTo(i) \in SUBSET F /\ i \in upTo(i)
    OBVIOUS
  <2> HIDE DEF upTo
  <2>2. IsFiniteSet(upTo(i)) /\ Cardinality(upTo(i)) <= m
    BY <1>1, <2>1, FS_Subset
  <2>3. Cardinality(upTo(i)) \in Nat /\ Cardinality(upTo(i)) # 0
    BY <2>1, <2>2, FS_CardinalityType, FS_EmptySet
  <2> HIDE DEF m
  <2>4. QED
    BY <1>1, <2>2, <2>3
<1>3. ASSUME NEW i \in F, NEW j \in F, i < j
      PROVE  Cardinality(upTo(i)) # Cardinality(upTo(j))
  <2>1. upTo(i) \in SUBSET upTo(j) /\ j \in upTo(j) /\ j \notin upTo(i)
    <3>1. i \in Int /\ j \in Int /\ \A x \in F : x \in Int
      OBVIOUS
    <3>2. \A x \in F : x <= i => x <= j
      BY <1>3, <3>1
    <3>3. j <= j /\ ~(j <= i)
      BY <1>3, <3>1
    <3>4. QED
      BY <3>2, <3>3
  <2> HIDE DEF upTo
  <2>2. QED
    BY <1>2, <2>1, FS_Subset
<1>4. rank \in [F -> 1..m]
  BY <1>2
<1>5. ASSUME NEW i \in F, NEW j \in F, rank[i] = rank[j]
      PROVE  i = j
  <2>1. Cardinality(upTo(i)) = Cardinality(upTo(j))
    BY <1>5
  <2>2. i < j \/ j < i \/ i = j
    OBVIOUS
  <2> HIDE DEF upTo, rank
  <2>3. QED
    BY <1>3, <2>1, <2>2
<1> HIDE DEF rank, m
<1>6. rank \in Injection(F, 1..m)
  <2>1. \A i, j \in F : rank[i] = rank[j] => i = j
    BY <1>5
  <2>2. QED
    BY <1>4, <2>1 DEF Injection, IsInjective
<1>7. IsFiniteSet(1..m) /\ Cardinality(1..m) = m
  BY <1>1, FS_Interval
<1>8. rank \in Surjection(F, 1..m)
  BY <1>6, <1>7, FS_Injection DEF m
<1>9. \E i \in F : rank[i] = k
  BY <1>8 DEF Surjection, m
<1>10. QED
  BY <1>9 DEF rank

(* What deduplication lists is of the payload, and listed once.            *)
LEMMA DeduplicatedDistinct ==
    ASSUME NEW ids, NEW n \in Nat, NEW s \in [1..n -> ids]
    PROVE  /\ Distinct(Deduplicated(s))
           /\ ~ZeroTwice(Deduplicated(s))
           /\ \A k \in DOMAIN Deduplicated(s) : Deduplicated(s)[k] \in ids
<1> DEFINE F == Firsts(s)
           m == Cardinality(F)
           at(k) == CHOOSE i \in F : Cardinality({j \in F : j <= i}) = k
           d == Deduplicated(s)
<1>1. F \in SUBSET (1..n) /\ \A i, j \in F : s[i] = s[j] => i = j
  BY DEF Firsts
<1>2. d = [k \in 1..m |-> s[at(k)]]
  BY DEF Deduplicated
<1>3. ASSUME NEW k \in 1..m
      PROVE  at(k) \in F /\ Cardinality({j \in F : j <= at(k)}) = k
  <2> HIDE DEF F
  <2>1. \E i \in F : Cardinality({j \in F : j <= i}) = k
    BY <1>1, RankExists
  <2>2. QED
    BY <2>1
<1> HIDE DEF F, at
<1>4. ASSUME NEW k \in 1..m, NEW l \in 1..m, s[at(k)] = s[at(l)]
      PROVE  k = l
  <2>1. at(k) = at(l)
    BY <1>1, <1>3, <1>4
  <2>2. QED
    BY <1>3, <2>1
<1> HIDE DEF m, d
<1>5. Distinct(d) /\ ~ZeroTwice(d) /\ \A k \in DOMAIN d : d[k] \in ids
  BY <1>1, <1>2, <1>3, <1>4 DEF Distinct, ZeroTwice
<1>6. QED
  BY <1>5 DEF d

LEMMA WithoutDistinct ==
    ASSUME NEW s, IsList(s), Distinct(s), NEW i \in DOMAIN s
    PROVE  /\ Distinct(Without(s, i))
           /\ ~Listed(s, NoId) => ~Listed(Without(s, i), NoId)
           /\ ~ZeroTwice(s) => ~ZeroTwice(Without(s, i))
<1> DEFINE w == Without(s, i)
           at(j) == IF j < i THEN j ELSE j + 1
<1>1. PICK n \in Nat : s = [j \in 1..n |-> s[j]]
  BY DEF IsList
<1>2. Len(s) = n /\ DOMAIN s = 1..n /\ i \in 1..n
  BY <1>1
<1>3. w = [j \in 1..(n - 1) |-> s[at(j)]]
  BY <1>2 DEF Without
<1>4. /\ \A j \in 1..(n - 1) : at(j) \in 1..n
      /\ \A j, k \in 1..(n - 1) : at(j) = at(k) => j = k
  BY <1>2
<1>5. \A j \in 1..(n - 1) : w[j] = s[at(j)]
  BY <1>3
<1>6. DOMAIN w = 1..(n - 1)
  BY <1>3
<1> HIDE DEF w, at
<1>7. Distinct(w)
  BY <1>2, <1>4, <1>5, <1>6 DEF Distinct
<1>8. ~Listed(s, NoId) => ~Listed(w, NoId)
  BY <1>2, <1>4, <1>5, <1>6 DEF Listed
<1>9. ~ZeroTwice(s) => ~ZeroTwice(w)
  BY <1>2, <1>4, <1>5, <1>6 DEF ZeroTwice
<1>10. QED
  BY <1>7, <1>8, <1>9 DEF w

LEMMA AppendDistinct ==
    ASSUME NEW s, IsList(s), Distinct(s), NEW id, ~Listed(s, id)
    PROVE  /\ Distinct(Append(s, id))
           /\ id # NoId /\ ~Listed(s, NoId) => ~Listed(Append(s, id), NoId)
           /\ ~ZeroTwice(s) => ~ZeroTwice(Append(s, id))
<1>1. PICK n \in Nat : s = [i \in 1..n |-> s[i]]
  BY DEF IsList
<1>2. /\ DOMAIN s = 1..n /\ DOMAIN Append(s, id) = 1..(n + 1)
      /\ Append(s, id)[n + 1] = id /\ \A i \in 1..n : Append(s, id)[i] = s[i]
  <2>1. s \in Seq({s[i] : i \in DOMAIN s} \cup {id}) /\ Len(s) = n
    <3>1. s \in [1..n -> {s[i] : i \in DOMAIN s} \cup {id}]
      BY <1>1
    <3>2. QED
      BY <1>1, <3>1
  <2>2. QED
    BY <2>1
<1>3. \A i \in 1..(n + 1) : i \in 1..n \/ i = n + 1
  OBVIOUS
<1>4. QED
  BY <1>2, <1>3 DEF Distinct, Listed, ZeroTwice

LEMMA LoadedDistinct ==
    ASSUME NEW count \in {<<>>} \cup {<<k>> : k \in Nat}, NEW blob,
           blob = <<>> \/ \E s : IsList(s) /\ Distinct(s) /\ blob = <<s>>
    PROVE  Distinct(LoadedList(count, blob))
<1>1. CASE count = <<>> \/ blob = <<>>
  BY <1>1 DEF LoadedList, Distinct
<1>2. CASE count # <<>> /\ blob # <<>>
  <2>1. PICK k : k \in Nat /\ count = <<k>>
    BY <1>2
  <2>2. PICK s : IsList(s) /\ Distinct(s) /\ blob = <<s>>
    BY <1>2
  <2>3. PICK n \in Nat : s = [i \in 1..n |-> s[i]]
    BY <2>2 DEF IsList
  <2>4. Len(s) = n /\ DOMAIN s = 1..n
    BY <2>3
  <2>5. LoadedList(count, blob) = [i \in 1..k |-> IF i <= n THEN s[i] ELSE NoId]
    BY <1>2, <2>1, <2>2, <2>4 DEF LoadedList
  <2>6. QED
    BY <2>1, <2>2, <2>4, <2>5 DEF Distinct
<1>3. QED
  BY <1>1, <1>2

(* A set whose lists name no sensor twice, and one whose lists no load has *)
(* padded.                                                                 *)
DistinctLists(c) == Distinct(c.lora) /\ Distinct(c.leak)
Unpadded(c) == ~ZeroTwice(c.lora) /\ ~Listed(c.leak, NoId)

Blob(b) == b = <<>> \/ \E s : IsList(s) /\ Distinct(s) /\ b = <<s>>
BlobsDistinct(n) == Blob(n.loraIds) /\ Blob(n.leakMacs)

ListsInv ==
    /\ ProvInv
    /\ DistinctLists(config) /\ BlobsDistinct(nvs)
    /\ ~mixed => Unpadded(config)

LEMMA NothingDistinct ==
    /\ Distinct(<<>>) /\ ~Listed(<<>>, NoId) /\ ~ZeroTwice(<<>>)
    /\ DistinctLists(Fresh) /\ Unpadded(Fresh)
BY DEF Distinct, Listed, ZeroTwice, DistinctLists, Unpadded, Fresh

LEMMA WrittenDistinct ==
    ASSUME NEW n, BlobsDistinct(n), NEW c, IsSet(c), DistinctLists(c), NEW S
    PROVE  BlobsDistinct(Written(n, c, S))
<1> DEFINE w == Written(n, c, S)
<1>1. \A key \in Keys : w[key] = n[key] \/ w[key] = Value(c)[key]
  BY Zenon DEF Written
<1>2. Value(c)["loraIds"] = <<c.lora>> /\ Value(c)["leakMacs"] = <<c.leak>>
  BY DEF Value
<1> HIDE DEF w
<1>3. /\ w.loraIds = n.loraIds \/ w.loraIds = <<c.lora>>
      /\ w.leakMacs = n.leakMacs \/ w.leakMacs = <<c.leak>>
  BY <1>1, <1>2, KeysAre
<1>4. Blob(<<c.lora>>) /\ Blob(<<c.leak>>)
  BY DEF IsSet, DistinctLists, Blob
<1>5. BlobsDistinct(w)
  BY <1>3, <1>4 DEF BlobsDistinct
<1>6. QED
  BY <1>5 DEF w

LEMMA ErasedDistinct ==
    ASSUME BlobsDistinct(nvs), NEW S
    PROVE  BlobsDistinct(Erased(S))
<1>1. \A key \in Keys : Erased(S)[key] = nvs[key] \/ Erased(S)[key] = <<>>
  BY Zenon DEF Erased
<1>2. QED
  BY <1>1, KeysAre DEF BlobsDistinct, Blob

(* Any boot loads lists that name no sensor twice.                         *)
LEMMA LoadedListsDistinct ==
    ASSUME NEW n, NvsTyped(n), BlobsDistinct(n)
    PROVE  DistinctLists(Loaded(n))
<1>1. CASE n.ver = <<>> \/ n.state = <<>> \/ n.state # <<"provisioned">>
  BY <1>1, NothingDistinct DEF Loaded
<1>2. CASE ~(n.ver = <<>> \/ n.state = <<>> \/ n.state # <<"provisioned">>) /\ n.valve = <<>>
  <2>1. Loaded(n) = [Fresh EXCEPT !.state = "provisioned"]
    BY <1>2 DEF Loaded
  <2>2. QED
    BY <2>1, NothingDistinct DEF DistinctLists, Fresh
<1>3. CASE ~(n.ver = <<>> \/ n.state = <<>> \/ n.state # <<"provisioned">>) /\ n.valve # <<>>
  <2>1. /\ Loaded(n).lora = LoadedList(n.loraCount, n.loraIds)
        /\ Loaded(n).leak = LoadedList(n.leakCount, n.leakMacs)
    BY <1>3 DEF Loaded
  <2>2. Distinct(LoadedList(n.loraCount, n.loraIds)) /\ Distinct(LoadedList(n.leakCount, n.leakMacs))
    BY LoadedDistinct DEF NvsTyped, BlobsDistinct, Blob
  <2>3. QED
    BY <2>1, <2>2 DEF DistinctLists
<1>4. QED
  BY <1>1, <1>2, <1>3

(* Keys from which a boot finds its lists distinct, whatever it mixes.     *)
Sound(n) == NvsTyped(n) /\ BlobsDistinct(n)

LEMMA MixedBootKeeps ==
    ASSUME NEW n, Sound(n), Reboots(n), mixed' = TRUE
    PROVE  ListsInv'
<1>1. nvs' = n /\ config' = Loaded(n)
  BY DEF Reboots
<1>2. ProvInv'
  BY RebootKeeps DEF Sound
<1>3. DistinctLists(config') /\ BlobsDistinct(nvs')
  BY <1>1, LoadedListsDistinct DEF Sound
<1>4. mixed'
  BY Zenon
<1>5. QED
  BY <1>2, <1>3, <1>4, Zenon DEF ListsInv, DistinctLists, BlobsDistinct, Blob

LEMMA ResavedKeeps ==
    ASSUME ListsInv, NEW n, Sound(n), Resaved(n), UNCHANGED <<config, mixed>>
    PROVE  ListsInv'
<1>1. ProvInv'
  BY ResaveKeeps DEF ListsInv, Sound
<1>2. PICK k \in 0..9 : nvs' = Written(n, config, FirstKeys(k))
  BY DEF Resaved
<1>3. BlobsDistinct(nvs')
  BY <1>2, WrittenDistinct DEF ListsInv, ProvInv, Consistent, Sound
<1>4. QED
  BY <1>1, <1>3, Zenon DEF ListsInv, DistinctLists, Unpadded, BlobsDistinct, Blob

(* A save of a set whose lists are distinct, however it ends.              *)
Savable(c) == Consistent(c) /\ DistinctLists(c) /\ (~mixed => Unpadded(c))

LEMMA SavedKeeps ==
    ASSUME ListsInv, NEW c, Savable(c), Save(c)
    PROVE  ListsInv'
<1>1. Consistent(c) /\ IsSet(c) /\ DistinctLists(c) /\ Sound(nvs) /\ ProvInv
  BY DEF Savable, Consistent, Sound, ListsInv, ProvInv
<1>2. ASSUME NEW S
      PROVE  Sound(Written(nvs, c, S))
  BY <1>1, WrittenTyped, WrittenDistinct DEF Sound
<1>3. CASE config' = c /\ nvs' = Written(nvs, c, Keys) /\ UNCHANGED mixed
  <2>1. ProvInv'
    BY <1>1, SaveKeeps
  <2>2. DistinctLists(config') /\ BlobsDistinct(nvs') /\ (~mixed' => Unpadded(config'))
    BY <1>1, <1>2, <1>3 DEF Sound, Savable
  <2>3. QED
    BY <2>1, <2>2, Zenon DEF ListsInv, DistinctLists, Unpadded, BlobsDistinct, Blob
<1>4. CASE /\ UNCHANGED <<config, mixed>>
           /\ \E n \in {Written(nvs, c, FirstKeys(k)) : k \in 0..9} : Resaved(n)
  BY <1>2, <1>4, ResavedKeeps
<1>5. CASE mixed' = TRUE /\ \E k \in 0..8 : Reboots(Written(nvs, c, FirstKeys(k)))
  BY <1>2, <1>5, MixedBootKeeps
<1>6. QED
  BY <1>3, <1>4, <1>5 DEF Save

LEMMA ErasureKeeps ==
    ASSUME ListsInv, EraseAll
    PROVE  ListsInv'
<1>1. ProvInv'
  BY EraseKeeps DEF ListsInv
<1>2. ASSUME NEW S
      PROVE  Sound(Erased(S))
  BY ErasedTyped, ErasedDistinct DEF Sound, ListsInv, ProvInv
<1>3. CASE config' = Fresh /\ nvs' = NoKeys
  <2>1. nvs'.loraIds = <<>> /\ nvs'.leakMacs = <<>>
    BY <1>3, KeysAre DEF NoKeys
  <2>2. DistinctLists(config') /\ BlobsDistinct(nvs') /\ Unpadded(config')
    BY <1>3, <2>1, NothingDistinct DEF BlobsDistinct, Blob
  <2>3. QED
    BY <1>1, <2>2, Zenon DEF ListsInv, DistinctLists, Unpadded, BlobsDistinct, Blob
<1>4. CASE UNCHANGED <<config, mixed>> /\ \E n \in {Erased(S) : S \in SUBSET Keys} : Resaved(n)
  BY <1>2, <1>4, ResavedKeeps
<1>5. CASE mixed' = TRUE /\ \E n \in {Erased(S) : S \in SUBSET Keys} : Reboots(n)
  BY <1>2, <1>5, MixedBootKeeps
<1>6. QED
  BY <1>3, <1>4, <1>5 DEF EraseAll

(* A restart loads RAM's own lists, unless a rewrite had failed (torn).    *)
LEMMA RebootListsKeep ==
    ASSUME ListsInv, Reboot
    PROVE  ListsInv'
<1>1. nvs' = nvs /\ config' = Loaded(nvs) /\ mixed' = (mixed \/ torn) /\ ProvInv
  BY DEF Reboot, Reboots, ListsInv
<1>2. ProvInv'
  BY <1>1, RebootKeeps DEF Reboot, ProvInv
<1>3. DistinctLists(config') /\ BlobsDistinct(nvs')
  BY <1>1, LoadedListsDistinct DEF ListsInv, ProvInv
<1>4. ASSUME ~mixed'
      PROVE  Unpadded(config')
  <2>1. ~mixed /\ ~torn
    BY <1>1, <1>4, Zenon
  <2>2. SameDevices(config', config) /\ Unpadded(config)
    BY <1>1, <2>1 DEF ListsInv, ProvInv, BootMatches
  <2>3. QED
    BY <2>2 DEF SameDevices, Unpadded
<1>5. QED
  BY <1>2, <1>3, <1>4, Zenon DEF ListsInv, DistinctLists, Unpadded, BlobsDistinct, Blob

LEMMA SetRulesListsKeep ==
    ASSUME ListsInv, NEW en \in {"on", "off"}, NEW trig \in {"all", "some"}, SetRules(en, trig)
    PROVE  ListsInv'
<1> DEFINE c == [config EXCEPT !.en = en, !.trig = trig]
<1>1. ProvInv /\ IsSet(config) /\ DistinctLists(config) /\ Sound(nvs)
  BY DEF ListsInv, ProvInv, Consistent, Sound
<1>2. IsSet(c) /\ c.lora = config.lora /\ c.leak = config.leak
  BY <1>1 DEF IsSet
<1>3. ProvInv'
  BY <1>1, SetRulesKeeps
<1>s. \/ config' = c /\ nvs' = Written(nvs, c, RulesKeys) /\ UNCHANGED mixed
      \/ UNCHANGED <<config, mixed>>
         /\ \E S, T \in SUBSET RulesKeys : nvs' = Written(Written(nvs, c, S), config, T)
      \/ mixed' = TRUE /\ Reboots(Written(nvs, c, {"en"}))
  BY DEF SetRules
<1> HIDE DEF c
<1>4. ASSUME NEW S
      PROVE  Sound(Written(nvs, c, S))
  BY <1>1, <1>2, WrittenTyped, WrittenDistinct DEF Sound, DistinctLists
<1>5. CASE config' = c /\ nvs' = Written(nvs, c, RulesKeys) /\ UNCHANGED mixed
  <2>1. DistinctLists(config') /\ BlobsDistinct(nvs') /\ (~mixed' => Unpadded(config'))
    BY <1>1, <1>2, <1>4, <1>5 DEF Sound, DistinctLists, Unpadded, ListsInv
  <2>2. QED
    BY <1>3, <2>1, Zenon DEF ListsInv, DistinctLists, Unpadded, BlobsDistinct, Blob
<1>6. CASE UNCHANGED <<config, mixed>>
           /\ \E S, T \in SUBSET RulesKeys : nvs' = Written(Written(nvs, c, S), config, T)
  <2>1. PICK S, T : nvs' = Written(Written(nvs, c, S), config, T)
    BY <1>6
  <2>2. BlobsDistinct(nvs')
    BY <1>1, <1>4, <2>1, WrittenDistinct DEF Sound
  <2>3. QED
    BY <1>3, <1>6, <2>2, Zenon DEF ListsInv, DistinctLists, Unpadded, BlobsDistinct, Blob
<1>7. CASE mixed' = TRUE /\ Reboots(Written(nvs, c, {"en"}))
  BY <1>4, <1>7, MixedBootKeeps
<1>8. QED
  BY <1>s, <1>5, <1>6, <1>7

-----------------------------------------------------------------------------
(* Every set an operation saves has distinct lists.                        *)

(* The lists of a provision: the payload's, each id once, or the old ones. *)
LEMMA PayloadList ==
    ASSUME NEW ids, NEW max \in Nat, NEW old, Distinct(old),
           NEW part \in {<<>>} \cup {<<s>> : s \in UNION {[1..n -> ids] : n \in 0..max}}
    PROVE  LET new == IF part = <<>> THEN old ELSE Deduplicated(part[1]) IN
           /\ Distinct(new)
           /\ NoId \notin ids /\ ~Listed(old, NoId) => ~Listed(new, NoId)
           /\ ~ZeroTwice(old) => ~ZeroTwice(new)
<1>1. CASE part = <<>>
  BY <1>1
<1>2. CASE part # <<>>
  <2>1. PICK s, n : n \in Nat /\ s \in [1..n -> ids] /\ part = <<s>>
    BY <1>2
  <2>2. /\ Distinct(Deduplicated(s)) /\ ~ZeroTwice(Deduplicated(s))
        /\ NoId \notin ids => ~Listed(Deduplicated(s), NoId)
    BY <2>1, DeduplicatedDistinct DEF Listed
  <2>3. QED
    BY <1>2, <2>1, <2>2
<1>3. QED
  BY <1>1, <1>2

LEMMA ProvisionSavable ==
    ASSUME ListsInv, NEW p \in DeviceParts, NEW r \in RulesParts
    PROVE  /\ Savable(WithRules(ResetIfEmptied(Devices(p)), r))
           /\ Savable(WithRules(Devices(p), r))
<1> DEFINE d == Devices(p)
<1>1. IsSet(config) /\ DistinctLists(config) /\ (~mixed => Unpadded(config))
  BY DEF ListsInv, ProvInv, Consistent
<1>2. /\ d.lora = IF p.lora = <<>> THEN config.lora ELSE Deduplicated(p.lora[1])
      /\ d.leak = IF p.leak = <<>> THEN config.leak ELSE Deduplicated(p.leak[1])
      /\ DOMAIN d = DOMAIN config
  BY <1>1 DEF Devices, IsSet
<1>3. Distinct(d.lora) /\ (~ZeroTwice(config.lora) => ~ZeroTwice(d.lora))
  <2>1. p.lora \in {<<>>} \cup {<<s>> : s \in UNION {[1..n -> ParsedIds] : n \in 0..MaxLora}}
    BY DEF DeviceParts
  <2>2. MaxLora \in Nat /\ Distinct(config.lora)
    BY <1>1, ProvisioningAssumption DEF DistinctLists
  <2>3. QED
    BY <1>2, <2>1, <2>2, PayloadList
<1>4. Distinct(d.leak) /\ (~Listed(config.leak, NoId) => ~Listed(d.leak, NoId))
  <2>1. p.leak \in {<<>>} \cup {<<s>> : s \in UNION {[1..n -> LeakMacs] : n \in 0..MaxLeak}}
    BY DEF DeviceParts
  <2>2. NoId \notin LeakMacs /\ MaxLeak \in Nat /\ Distinct(config.leak)
    BY <1>1, ProvisioningAssumption DEF DistinctLists
  <2>3. QED
    BY <1>2, <2>1, <2>2, PayloadList
<1> HIDE DEF d
<1>5. DistinctLists(d) /\ (~mixed => Unpadded(d))
  BY <1>1, <1>3, <1>4 DEF DistinctLists, Unpadded
<1>6. ASSUME NEW c, c.lora = d.lora, c.leak = d.leak, DOMAIN c = DOMAIN config
      PROVE  /\ WithRules(c, r).lora = d.lora /\ WithRules(c, r).leak = d.leak
  BY <1>1, <1>6 DEF WithRules, IsSet
<1>7. /\ DefaultRules(d).lora = d.lora /\ DefaultRules(d).leak = d.leak
      /\ DOMAIN DefaultRules(d) = DOMAIN config
  BY <1>1, <1>2 DEF DefaultRules, IsSet
<1>8. ASSUME NEW c \in {d, DefaultRules(d)}, Consistent(WithRules(c, r))
      PROVE  Savable(WithRules(c, r))
  BY <1>2, <1>5, <1>6, <1>7, <1>8 DEF Savable, DistinctLists, Unpadded
<1>9. ResetIfEmptied(d) \in {d, DefaultRules(d)} /\ d \in {d, DefaultRules(d)}
  BY DEF ResetIfEmptied
<1>10. Consistent(WithRules(ResetIfEmptied(d), r)) /\ Consistent(WithRules(d, r))
  BY <1>1, ProvisionConsistent DEF d
<1>11. Savable(WithRules(ResetIfEmptied(d), r)) /\ Savable(WithRules(d, r))
  BY <1>8, <1>9, <1>10
<1>12. QED
  BY <1>11 DEF d

LEMMA ProvisionListsKeep ==
    ASSUME ListsInv, Provision
    PROVE  ListsInv'
<1>1. CASE \E c \in {ResetIfEmptied(Devices(p)) : p \in DeviceParts \ {NoDevices}} :
              \E d \in {WithRules(c, r) : r \in RulesParts} : Save(d)
  <2>1. PICK p \in DeviceParts, r \in RulesParts : Save(WithRules(ResetIfEmptied(Devices(p)), r))
    BY <1>1
  <2>2. QED
    BY <2>1, ProvisionSavable, SavedKeeps
<1>2. CASE \E d \in {WithRules(Devices(NoDevices), r) : r \in RulesParts \ {NoRules}} : Save(d)
  <2>1. PICK r \in RulesParts : Save(WithRules(Devices(NoDevices), r))
    BY <1>2
  <2>2. NoDevices \in DeviceParts
    BY DEF NoDevices, DeviceParts
  <2>3. QED
    BY <2>1, <2>2, ProvisionSavable, SavedKeeps
<1>3. QED
  BY <1>1, <1>2 DEF Provision

(* A removal keeps the other ids as they are.                              *)
LEMMA RemovalSavable ==
    ASSUME NEW c, IsSet(c), Provisioned(c), DistinctLists(c), ~mixed => Unpadded(c)
    PROVE  Savable(UnprovisionedIfEmpty(c))
<1>1. UnprovisionedIfEmpty(c).lora = c.lora /\ UnprovisionedIfEmpty(c).leak = c.leak
  BY DEF UnprovisionedIfEmpty, DefaultRules, IsSet
<1>2. Consistent(UnprovisionedIfEmpty(c))
  BY RemovalConsistent
<1>3. QED
  BY <1>1, <1>2 DEF Savable, DistinctLists, Unpadded

LEMMA RemovalListsKeep ==
    ASSUME ListsInv,
           RemoveValve \/ (\E id : RemoveLora(id)) \/ (\E mac : RemoveLeak(mac))
    PROVE  ListsInv'
<1>0. /\ Consistent(config) /\ IsSet(config) /\ IsList(config.lora) /\ IsList(config.leak)
      /\ DistinctLists(config) /\ (~mixed => Unpadded(config))
  BY DEF ListsInv, ProvInv, Consistent, IsSet
<1>1. CASE RemoveValve
  <2> DEFINE d == [config EXCEPT !.valve = NoId]
  <2>1. Provisioned(config) /\ Save(UnprovisionedIfEmpty(d))
    BY <1>1 DEF RemoveValve
  <2>2. IsSet(d) /\ Provisioned(d) /\ d.lora = config.lora /\ d.leak = config.leak
    BY <1>0, <2>1 DEF Provisioned, IsSet
  <2> HIDE DEF d
  <2>3. QED
    BY <1>0, <2>1, <2>2, RemovalSavable, SavedKeeps DEF DistinctLists, Unpadded
<1>2. ASSUME NEW id, RemoveLora(id) PROVE ListsInv'
  <2>1. PICK i \in DOMAIN config.lora :
            Save(UnprovisionedIfEmpty([config EXCEPT !.lora = Without(@, i)]))
    BY <1>2 DEF RemoveLora
  <2>2. IsList(Without(config.lora, i))
    BY <1>0, <2>1, WithoutList
  <2>3. Distinct(Without(config.lora, i)) /\ (~ZeroTwice(config.lora) => ~ZeroTwice(Without(config.lora, i)))
    BY <1>0, <2>1, WithoutDistinct DEF DistinctLists
  <2>4. Provisioned(config)
    BY <1>0, <2>1 DEF Consistent, HasDevice
  <2> DEFINE s == Without(config.lora, i)
             d == [config EXCEPT !.lora = s]
  <2>5. Save(UnprovisionedIfEmpty(d))
    BY <2>1
  <2> HIDE DEF s
  <2>6. IsList(s) /\ Distinct(s) /\ (~ZeroTwice(config.lora) => ~ZeroTwice(s))
    BY <2>2, <2>3 DEF s
  <2>7. IsSet(d) /\ Provisioned(d) /\ d.lora = s /\ d.leak = config.leak
    BY <1>0, <2>4, <2>6 DEF Provisioned, IsSet
  <2> HIDE DEF d
  <2>8. QED
    BY <1>0, <2>5, <2>6, <2>7, RemovalSavable, SavedKeeps DEF DistinctLists, Unpadded
<1>3. ASSUME NEW mac, RemoveLeak(mac) PROVE ListsInv'
  <2>1. PICK i \in DOMAIN config.leak :
            Save(UnprovisionedIfEmpty([config EXCEPT !.leak = Without(@, i)]))
    BY <1>3 DEF RemoveLeak
  <2>2. IsList(Without(config.leak, i))
    BY <1>0, <2>1, WithoutList
  <2>3. Distinct(Without(config.leak, i)) /\ (~Listed(config.leak, NoId) => ~Listed(Without(config.leak, i), NoId))
    BY <1>0, <2>1, WithoutDistinct DEF DistinctLists
  <2>4. Provisioned(config)
    BY <1>0, <2>1 DEF Consistent, HasDevice
  <2> DEFINE s == Without(config.leak, i)
             d == [config EXCEPT !.leak = s]
  <2>5. Save(UnprovisionedIfEmpty(d))
    BY <2>1
  <2> HIDE DEF s
  <2>6. IsList(s) /\ Distinct(s) /\ (~Listed(config.leak, NoId) => ~Listed(s, NoId))
    BY <2>2, <2>3 DEF s
  <2>7. IsSet(d) /\ Provisioned(d) /\ d.leak = s /\ d.lora = config.lora
    BY <1>0, <2>4, <2>6 DEF Provisioned, IsSet
  <2> HIDE DEF d
  <2>8. QED
    BY <1>0, <2>5, <2>6, <2>7, RemovalSavable, SavedKeeps DEF DistinctLists, Unpadded
<1>4. QED
  BY <1>1, <1>2, <1>3

LEMMA AdditionListsKeep ==
    ASSUME ListsInv, (\E id : AddLora(id)) \/ (\E mac \in LeakMacs : AddLeak(mac))
    PROVE  ListsInv'
<1>0. /\ IsSet(config) /\ IsList(config.lora) /\ IsList(config.leak)
      /\ DistinctLists(config) /\ (~mixed => Unpadded(config))
  BY DEF ListsInv, ProvInv, Consistent, IsSet
<1>1. ASSUME NEW id, AddLora(id) PROVE ListsInv'
  <2> DEFINE s == Append(config.lora, id)
             d == [config EXCEPT !.lora = s, !.state = "provisioned"]
  <2>1. Save(d) /\ ~Listed(config.lora, id)
    BY <1>1 DEF AddLora
  <2>2. IsList(s) /\ Distinct(s) /\ (~ZeroTwice(config.lora) => ~ZeroTwice(s))
    BY <1>0, <2>1, AppendList, AppendDistinct DEF DistinctLists
  <2> HIDE DEF s
  <2>3. Consistent(d) /\ d.lora = s /\ d.leak = config.leak
    BY <1>0, <2>2 DEF Consistent, IsSet, Provisioned
  <2> HIDE DEF d
  <2>4. Savable(d)
    BY <1>0, <2>2, <2>3 DEF Savable, DistinctLists, Unpadded
  <2>5. QED
    BY <2>1, <2>4, SavedKeeps
<1>2. ASSUME NEW mac \in LeakMacs, AddLeak(mac) PROVE ListsInv'
  <2> DEFINE s == Append(config.leak, mac)
             d == [config EXCEPT !.leak = s, !.state = "provisioned"]
  <2>1. Save(d) /\ ~Listed(config.leak, mac) /\ mac # NoId
    BY <1>2, ProvisioningAssumption DEF AddLeak
  <2>2. IsList(s) /\ Distinct(s) /\ (~Listed(config.leak, NoId) => ~Listed(s, NoId))
    BY <1>0, <2>1, AppendList, AppendDistinct DEF DistinctLists
  <2> HIDE DEF s
  <2>3. Consistent(d) /\ d.leak = s /\ d.lora = config.lora
    BY <1>0, <2>2 DEF Consistent, IsSet, Provisioned
  <2> HIDE DEF d
  <2>4. Savable(d)
    BY <1>0, <2>2, <2>3 DEF Savable, DistinctLists, Unpadded
  <2>5. QED
    BY <2>1, <2>4, SavedKeeps
<1>3. QED
  BY <1>1, <1>2

LEMMA ListsStart == ProvInit => ListsInv
<1> SUFFICES ASSUME ProvInit PROVE ListsInv
  OBVIOUS
<1>1. nvs.loraIds = <<>> /\ nvs.leakMacs = <<>>
  BY KeysAre DEF ProvInit, NoKeys
<1>2. DistinctLists(config) /\ Unpadded(config)
  BY NothingDistinct DEF ProvInit
<1>3. QED
  BY <1>1, <1>2, ProvStarts DEF ListsInv, BlobsDistinct, Blob

LEMMA ListsKept == ListsInv /\ [ProvNext]_provVars => ListsInv'
<1> SUFFICES ASSUME ListsInv, [ProvNext]_provVars PROVE ListsInv'
  OBVIOUS
<1>1. CASE Provision
  BY <1>1, ProvisionListsKeep
<1>2. CASE RemoveValve \/ (\E id : RemoveLora(id)) \/ (\E mac : RemoveLeak(mac))
  BY <1>2, RemovalListsKeep
<1>3. CASE (\E id : AddLora(id)) \/ (\E mac \in LeakMacs : AddLeak(mac))
  BY <1>3, AdditionListsKeep
<1>4. CASE EraseAll
  BY <1>4, ErasureKeeps
<1>5. CASE Reboot
  BY <1>5, RebootListsKeep
<1>6. CASE \E en \in {"on", "off"}, trig \in {"all", "some"} : SetRules(en, trig)
  BY <1>6, SetRulesListsKeep
<1>7. CASE UNCHANGED provVars
  <2>1. ProvInv'
    BY ProvKept DEF ListsInv
  <2>2. config' = config /\ nvs' = nvs /\ mixed' = mixed
    BY <1>7 DEF provVars
  <2>3. QED
    BY <2>1, <2>2, Zenon DEF ListsInv, DistinctLists, Unpadded, BlobsDistinct, Blob
<1>8. QED
  BY <1>1, <1>2, <1>3, <1>4, <1>5, <1>6, <1>7, Zenon DEF ProvNext

(* No sensor is listed twice, whatever payloads repeat it, whatever write  *)
(* fails and from whatever half-written set the hub boots.                 *)
THEOREM NoDuplicatesHolds == ProvSpec => []NoDuplicates
<1>1. ListsInv => NoDuplicates
  BY DEF ListsInv, DistinctLists, Distinct, NoDuplicates
<1>2. QED
  BY <1>1, ListsStart, ListsKept, PTL DEF ProvSpec

(* A hub with a device is PROVISIONED, and one that never booted from a    *)
(* half-written set lists no zero but one a payload named.                 *)
THEOREM StateAgreesHolds == ProvSpec => []StateAgrees
<1>1. ListsInv => StateAgrees
  BY DEF ListsInv, ProvInv, Consistent, Unpadded, StateAgrees
<1>2. QED
  BY <1>1, ListsStart, ListsKept, PTL DEF ProvSpec

=============================================================================
