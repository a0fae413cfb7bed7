------------------------- MODULE HealthEngineProofs -------------------------
(***************************************************************************)
(* For every set of devices and every depth of the two queues: what the    *)
(* alerts said last of a device is what it is, or the trailing edge is     *)
(* owed; and the loss of a valve's link is known, or on its way.  The first*)
(* is inductive with the slots' types: a slot is only ever replaced by one *)
(* of which it holds again.  The second is inductive once it speaks of any *)
(* valve that is in the table, of which there is one at most.              *)
(***************************************************************************)
EXTENDS HealthEngine, SequenceTheorems, TLAPS

Statuses == {"leak", "offline", "battery", "grace", "fine"}
Slots ==
    [in : BOOLEAN, seen : BOOLEAN, wet : BOOLEAN, low : BOOLEAN, away : {"no", "grace", "long"},
     status : Statuses, alerted : BOOLEAN, retry : BOOLEAN, recent : BOOLEAN]

ValveKinds == {"connected", "disconnected", "battery", "leak"}
Kinds == {"checkin"} \cup ValveKinds
Events ==
    [kind : {"tick", "resync"}] \cup [kind : {"checkin"}, dev : HealthSensors, value : BOOLEAN]
        \cup [kind : ValveKinds, dev : BleValves, value : BOOLEAN]

Links ==
    [valve : BleValves \cup {NoBleValve}, stage : {"none", "up", "read", "ready"},
     reads : {"good", "wet", "low"}]
Holders == [at : {"idle", "after", "rate", "retry"}, left : SUBSET Tracked]

HealthTyped ==
    /\ table \in [Tracked -> Slots]
    /\ healthq \in Seq(Events)
    /\ members.valve \in BleValves \cup {NoBleValve} /\ members.sensors \subseteq HealthSensors
    /\ link \in Links
    /\ link = NoLink \/ link.valve \in BleValves
    /\ holder \in Holders

(* An alert is of a device that was seen, so what is owed is known by it.  *)
Told(d) ==
    d.in => /\ d.alerted => d.seen
            /\ ~d.retry => (d.alerted <=> d.seen /\ d.status = "offline")

HealthInv == HealthTyped /\ \A x \in Tracked : Told(table[x])

(* f is d with new facts: no fact takes back that the device was seen, and *)
(* one that says so says that it is there.                                 *)
Refreshed(d, f) ==
    /\ f \in Slots
    /\ f.in = d.in /\ f.status = d.status /\ f.alerted = d.alerted /\ f.retry = d.retry
    /\ d.seen => f.seen
    /\ f.seen => d.seen \/ f.away = "no"
-----------------------------------------------------------------------------
LEMMA OfflineStatus ==
    ASSUME NEW d \in Slots
    PROVE  /\ StatusOf(d) \in Statuses
           /\ StatusOf(d) = "offline" => d.away = "long" \/ ~d.seen
<1>1. d.wet \in BOOLEAN /\ d.low \in BOOLEAN /\ d.seen \in BOOLEAN /\ d.away \in {"no", "grace", "long"}
  BY DEF Slots
<1>2. CASE d.wet
  BY <1>1, <1>2 DEF StatusOf, Statuses
<1>3. CASE ~d.wet /\ d.away = "long"
  BY <1>1, <1>3 DEF StatusOf, Statuses
<1>4. CASE ~d.wet /\ d.away # "long" /\ d.low
  BY <1>1, <1>4 DEF StatusOf, Statuses
<1>5. CASE ~d.wet /\ d.away = "grace" /\ ~d.low
  BY <1>1, <1>5 DEF StatusOf, Statuses
<1>6. CASE ~d.wet /\ d.away = "no" /\ ~d.low
  BY <1>1, <1>6 DEF StatusOf, Statuses
<1>7. QED
  BY <1>1, <1>2, <1>3, <1>4, <1>5, <1>6

(* apply_rating(), whichever way it goes.                                  *)
LEMMA RatingTold ==
    ASSUME table \in [Tracked -> Slots], NEW x \in Tracked, NEW f, Refreshed(table[x], f),
           Told(table[x]), ApplyRating(x, f)
    PROVE  \E g \in Slots : table' = [table EXCEPT ![x] = g] /\ Told(g)
<1> DEFINE d == table[x]
           s == StatusOf(f)
<1>1. d \in Slots /\ f \in Slots /\ s \in Statuses /\ (s = "offline" => f.away = "long" \/ ~f.seen)
  BY OfflineStatus DEF Refreshed
<1>2. CASE ~(WantsOffline(f, s) \/ WantsRecovered(f, s)) /\ Committed(x, [f EXCEPT !.status = s])
  <2>1. [f EXCEPT !.status = s] \in Slots
    BY <1>1 DEF Slots
  <2>2. Told([f EXCEPT !.status = s])
    BY <1>1, <1>2 DEF Told, Refreshed, WantsOffline, WantsRecovered, Slots
  <2>3. QED
    BY <1>2, <2>1, <2>2 DEF Committed
<1>3. CASE Committed(x, Owed([f EXCEPT !.status = s]))
  <2>1. Owed([f EXCEPT !.status = s]) \in Slots /\ Told(Owed([f EXCEPT !.status = s]))
    BY <1>1 DEF Slots, Owed, Told, Refreshed
  <2>2. QED
    BY <1>3, <2>1 DEF Committed
<1>4. CASE (WantsOffline(f, s) \/ WantsRecovered(f, s)) /\ Committed(x, f)
  <2>1. Told(f)
    BY <1>1, <1>4 DEF Told, Refreshed, WantsOffline, WantsRecovered, Slots
  <2>2. QED
    BY <1>1, <1>4, <2>1 DEF Committed
<1>5. CASE /\ WantsOffline(f, s) \/ WantsRecovered(f, s)
           /\ Sent(x, [f EXCEPT !.status = s, !.alerted = (s = "offline"), !.retry = FALSE, !.recent = TRUE])
  <2> DEFINE g == [f EXCEPT !.status = s, !.alerted = (s = "offline"), !.retry = FALSE, !.recent = TRUE]
  <2>1. g \in Slots
    BY <1>1 DEF Slots
  <2>2. Told(g)
    BY <1>1, <1>5 DEF Told, WantsOffline, WantsRecovered, Slots
  <2>3. table' = [table EXCEPT ![x] = g]
    BY <1>5, Zenon DEF Sent
  <2>4. QED
    BY <2>1, <2>2, <2>3
<1>6. QED
  BY <1>2, <1>3, <1>4, <1>5, Zenon DEF ApplyRating

(* The trailing edge, sent, dropped or kept for the next tick.             *)
LEMMA EdgeTold ==
    ASSUME table \in [Tracked -> Slots], NEW x \in Tracked, Told(table[x]), TrailingEdge(x, table[x])
    PROVE  \E g \in Slots : table' = [table EXCEPT ![x] = g] /\ Told(g)
<1> DEFINE d == table[x]
           offline == d.status = "offline"
           owed == offline # d.alerted /\ (offline => d.seen)
<1>1. d \in Slots
  OBVIOUS
<1>2. CASE UNCHANGED table
  <2>1. table' = [table EXCEPT ![x] = d]
    BY <1>2
  <2>2. QED
    BY <1>1, <2>1
<1>3. CASE ~owed /\ Committed(x, [d EXCEPT !.retry = FALSE])
  <2>1. [d EXCEPT !.retry = FALSE] \in Slots
    BY <1>1 DEF Slots
  <2>2. Told([d EXCEPT !.retry = FALSE])
    BY <1>1, <1>3 DEF Told, Slots
  <2>3. QED
    BY <1>3, <2>1, <2>2 DEF Committed
<1>4. CASE owed /\ Sent(x, [d EXCEPT !.alerted = offline, !.retry = FALSE, !.recent = TRUE])
  <2> DEFINE g == [d EXCEPT !.alerted = offline, !.retry = FALSE, !.recent = TRUE]
  <2>1. g \in Slots
    BY <1>1 DEF Slots
  <2>2. Told(g)
    BY <1>1, <1>4 DEF Told, Slots
  <2>3. table' = [table EXCEPT ![x] = g]
    BY <1>4, Zenon DEF Sent
  <2>4. QED
    BY <2>1, <2>2, <2>3
<1>5. QED
  BY <1>2, <1>3, <1>4, Zenon DEF TrailingEdge

(* What an event and a resync say of a slot refreshes it.                  *)
LEMMA FactsRefresh ==
    ASSUME NEW d \in Slots, NEW e, e.kind \in Kinds, e.kind # "disconnected" => e.value \in BOOLEAN
    PROVE  Refreshed(d, Facts(e, d))
<1>1. CASE e.kind = "checkin"
  BY <1>1 DEF Facts, Refreshed, Slots
<1>2. CASE e.kind = "connected"
  BY <1>2 DEF Facts, Refreshed, Slots
<1>3. CASE e.kind = "disconnected"
  BY <1>3 DEF Facts, Refreshed, Slots
<1>4. CASE e.kind = "battery"
  BY <1>4 DEF Facts, Refreshed, Slots
<1>5. CASE e.kind = "leak"
  BY <1>5 DEF Facts, Refreshed, Slots
<1>6. QED
  BY <1>1, <1>2, <1>3, <1>4, <1>5 DEF Kinds, ValveKinds

LEMMA ResyncRefreshes ==
    ASSUME NEW d \in Slots
    PROVE  Refreshed(d, Resynced(d))
<1>1. (d.wet \/ link.reads = "wet") \in BOOLEAN /\ (link.reads = "low") \in BOOLEAN
  OBVIOUS
<1>2. QED
  BY <1>1 DEF Resynced, Refreshed, Slots

LEMMA SameRefreshes ==
    ASSUME NEW d \in Slots
    PROVE  Refreshed(d, d)
BY DEF Refreshed

(* A step that replaces at most one slot.                                  *)
AllTold(t) == t \in [Tracked -> Slots] /\ \A x \in Tracked : Told(t[x])

LEMMA OneSlot ==
    ASSUME AllTold(table), NEW x \in Tracked,
           \E g \in Slots : table' = [table EXCEPT ![x] = g] /\ Told(g)
    PROVE  AllTold(table')
BY DEF AllTold

LEMMA RatingKeeps ==
    ASSUME AllTold(table), NEW x \in Tracked, NEW f, Refreshed(table[x], f), ApplyRating(x, f)
    PROVE  AllTold(table')
BY RatingTold, OneSlot DEF AllTold

-----------------------------------------------------------------------------
(* The engine's task, and the table's other changes.                       *)

LEMMA TaskKeeps ==
    ASSUME AllTold(table), HealthTyped,
           \/ TakeEvent \/ Fallback \/ TickGoesOn
           \/ \E x \in Tracked : Rate(x) \/ Retry(x)
    PROVE  AllTold(table')
<1>1. CASE TakeEvent
  <2> DEFINE e == Head(healthq)
  <2>1. e \in Events
    BY <1>1 DEF TakeEvent, HealthTyped
  <2>2. CASE UNCHANGED table
    BY <2>2 DEF AllTold
  <2>3. CASE table[link.valve].in /\ LinkIsReady /\ ApplyRating(link.valve, Resynced(table[link.valve]))
    <3>1. link.valve \in Tracked
      BY <2>3 DEF HealthTyped, LinkIsReady, NoLink, Tracked
    <3>2. Refreshed(table[link.valve], Resynced(table[link.valve]))
      BY <3>1, ResyncRefreshes DEF AllTold
    <3>3. QED
      BY <2>3, <3>1, <3>2, RatingKeeps
  <2>4. CASE e.kind \notin {"tick", "resync"} /\ ApplyRating(e.dev, Facts(e, table[e.dev]))
    <3>1. e.kind \in Kinds /\ e.dev \in Tracked /\ e.value \in BOOLEAN
      BY <2>1, <2>4 DEF Events, Kinds, Tracked
    <3>2. Refreshed(table[e.dev], Facts(e, table[e.dev]))
      BY <3>1, FactsRefresh DEF AllTold
    <3>3. QED
      BY <2>4, <3>1, <3>2, RatingKeeps
  <2>5. QED
    BY <1>1, <2>2, <2>3, <2>4, Zenon DEF TakeEvent
<1>2. CASE Fallback
  <2>1. CASE UNCHANGED table
    BY <2>1 DEF AllTold
  <2>2. ASSUME NEW v \in BleValves \cap InTable,
               ApplyRating(v, Facts([kind |-> "disconnected", dev |-> v], table[v]))
        PROVE  AllTold(table')
    <3>1. v \in Tracked
      BY DEF Tracked
    <3> DEFINE e == [kind |-> "disconnected", dev |-> v]
    <3>2. e.kind = "disconnected" /\ e.kind \in Kinds
      BY DEF Kinds, ValveKinds
    <3>3. Refreshed(table[v], Facts(e, table[v]))
      BY <3>1, <3>2, FactsRefresh DEF AllTold
    <3>4. QED
      BY <2>2, <3>1, <3>3, RatingKeeps
  <2>3. QED
    BY <1>2, <2>1, <2>2, Zenon DEF Fallback
<1>3. CASE TickGoesOn
  BY <1>3 DEF TickGoesOn, AllTold
<1>4. ASSUME NEW x \in Tracked, Rate(x)
      PROVE  AllTold(table')
  <2>1. CASE UNCHANGED table
    BY <2>1 DEF AllTold
  <2>2. CASE ApplyRating(x, table[x])
    BY <2>2, SameRefreshes, RatingKeeps DEF AllTold
  <2>3. QED
    BY <1>4, <2>1, <2>2 DEF Rate
<1>5. ASSUME NEW x \in Tracked, Retry(x)
      PROVE  AllTold(table')
  BY <1>5, EdgeTold, OneSlot DEF Retry, AllTold
<1>6. QED
  BY <1>1, <1>2, <1>3, <1>4, <1>5

LEMMA TableKept ==
    ASSUME AllTold(table), HealthTyped, [HealthNext]_healthVars
    PROVE  AllTold(table')
<1>1. CASE TakeEvent \/ Fallback \/ TickGoesOn \/ \E x \in Tracked : Rate(x) \/ Retry(x)
  BY <1>1, TaskKeeps
<1>2. ASSUME NEW x \in Tracked, TimesOut(x)
      PROVE  AllTold(table')
  <2> DEFINE g == [table[x] EXCEPT !.away = "long"]
  <2>1. table[x] \in Slots /\ Told(table[x])
    BY DEF AllTold
  <2>2. g \in Slots /\ Told(g)
    BY <2>1 DEF Slots, Told
  <2>3. table' = [table EXCEPT ![x] = g]
    BY <1>2, Zenon DEF TimesOut
  <2>4. QED
    BY <2>2, <2>3, OneSlot
<1>3. ASSUME NEW x \in Tracked, DebounceEnds(x)
      PROVE  AllTold(table')
  <2> DEFINE g == [table[x] EXCEPT !.recent = FALSE]
  <2>1. table[x] \in Slots /\ Told(table[x])
    BY DEF AllTold
  <2>2. g \in Slots /\ Told(g)
    BY <2>1 DEF Slots, Told
  <2>3. table' = [table EXCEPT ![x] = g]
    BY <1>3, Zenon DEF DebounceEnds
  <2>4. QED
    BY <2>2, <2>3, OneSlot
<1>4. CASE Reconcile
  <2>1. NoSlot \in Slots /\ Unheard \in Slots /\ Told(NoSlot) /\ Told(Unheard)
    BY DEF NoSlot, Unheard, Slots, Statuses, Told
  <2>2. QED
    BY <1>4, <2>1 DEF Reconcile, AllTold
<1>5. CASE UNCHANGED table
  BY <1>5 DEF AllTold
<1>6. QED
  BY <1>1, <1>2, <1>3, <1>4, <1>5 DEF HealthNext, healthVars, SetDevices, Resync, PopAlert, TickTimer,
     CheckIn, LinkUp, SetupReads, SetupDone, Notify, LinkLost

-----------------------------------------------------------------------------
(* The queue's types, and the link's.                                      *)

LEMMA QueuedTyped ==
    ASSUME healthq \in Seq(Events), NEW e \in Events
    PROVE  Queued(e) \in Seq(Events)
BY DEF Queued

(* What a callback of the link posts is appended, as far as there is room. *)
LEMMA SaysTo ==
    ASSUME healthq \in Seq(Events), NEW kinds \in Seq(ValveKinds), Says(kinds),
           link.valve \in BleValves
    PROVE  \E q \in Seq(Events) :
               /\ healthq' = healthq \o q
               /\ Len(healthq) <= HealthDepth => Len(healthq) + Len(q) <= HealthDepth
               /\ link.valve = Target /\ Len(healthq) < HealthDepth /\ kinds # <<>> =>
                     q # <<>> /\ q[1].kind = kinds[1] /\ q[1].dev = link.valve
<1> DEFINE es == [i \in DOMAIN kinds |->
                     [kind |-> kinds[i], dev |-> link.valve,
                      value |-> link'.reads = (IF kinds[i] = "leak" THEN "wet" ELSE "low")]]
           room == HealthDepth - Len(healthq)
           n == IF Len(kinds) < room THEN Len(kinds) ELSE room
           q == SubSeq(es, 1, n)
<1>1. \A i \in 1..Len(kinds) : es[i] \in Events /\ es[i].kind = kinds[i] /\ es[i].dev = link.valve
  <2>1. SUFFICES ASSUME NEW i \in 1..Len(kinds)
                 PROVE  es[i] \in Events /\ es[i].kind = kinds[i] /\ es[i].dev = link.valve
    OBVIOUS
  <2>2. kinds[i] \in ValveKinds
    OBVIOUS
  <2> DEFINE value == link'.reads = (IF kinds[i] = "leak" THEN "wet" ELSE "low")
  <2>3. value \in BOOLEAN
    BY Zenon
  <2>4. es[i] = [kind |-> kinds[i], dev |-> link.valve, value |-> value]
    OBVIOUS
  <2> HIDE DEF value, es
  <2>5. QED
    BY <2>2, <2>3, <2>4 DEF Events
<1>2. /\ room \in Int /\ n \in Int /\ n <= Len(kinds) /\ n <= room
      /\ Len(healthq) < HealthDepth /\ kinds # <<>> => 1 <= n
  <2>1. Len(kinds) \in Nat /\ Len(healthq) \in Nat /\ (kinds # <<>> => Len(kinds) > 0)
    OBVIOUS
  <2>2. QED
    BY <2>1, HealthAssumption
<1>3. healthq' = healthq \/ (link.valve = Target /\ healthq' = healthq \o q)
  BY Zenon DEF Says
<1>4. link.valve = Target => healthq' = healthq \o q
  BY Zenon DEF Says
<1> HIDE DEF es, room, n
<1>5. \A i \in 1..n : es[i] \in Events
  BY <1>1, <1>2
<1>6. /\ q \in Seq(Events) /\ Len(q) = (IF 1 <= n THEN n ELSE 0)
      /\ \A i \in 1..n : q[i] = es[i]
  BY <1>2, <1>5, SubSeqProperties
<1> HIDE DEF q
<1>7. CASE link.valve = Target
  <2>1. Len(healthq) <= HealthDepth => Len(healthq) + Len(q) <= HealthDepth
    BY <1>2, <1>6, HealthAssumption DEF room
  <2>2. ASSUME Len(healthq) < HealthDepth, kinds # <<>>
        PROVE  q # <<>> /\ q[1].kind = kinds[1] /\ q[1].dev = link.valve
    <3>1. 1 <= n /\ 1 \in 1..Len(kinds) /\ 1 \in 1..n
      BY <1>2, <2>2
    <3>2. q[1] = es[1] /\ Len(q) # 0
      BY <1>2, <1>6, <3>1
    <3>3. QED
      BY <1>1, <3>1, <3>2
  <2>3. QED
    BY <1>4, <1>6, <1>7, <2>1, <2>2
<1>8. CASE link.valve # Target
  <2>1. <<>> \in Seq(Events) /\ healthq \o <<>> = healthq /\ Len(<<>>) = 0
    BY ConcatProperties
  <2>2. healthq' = healthq
    BY <1>3, <1>8
  <2>3. Len(healthq) <= HealthDepth => Len(healthq) + Len(<<>>) <= HealthDepth
    BY <2>1, HealthAssumption
  <2>4. QED
    BY <1>8, <2>1, <2>2, <2>3
<1>9. QED
  BY <1>7, <1>8

LEMMA SaysTyped ==
    ASSUME healthq \in Seq(Events), NEW kinds \in Seq(ValveKinds), Says(kinds),
           link.valve \in BleValves
    PROVE  healthq' \in Seq(Events)
<1>1. PICK q \in Seq(Events) : healthq' = healthq \o q
  BY SaysTo
<1>2. QED
  BY <1>1, ConcatProperties

LEMMA TypesKept == HealthTyped /\ [HealthNext]_healthVars => healthq' \in Seq(Events)
<1> SUFFICES ASSUME HealthTyped, [HealthNext]_healthVars PROVE healthq' \in Seq(Events)
  OBVIOUS
<1> USE DEF HealthTyped
<1>1. CASE TakeEvent
  BY <1>1 DEF TakeEvent
<1>2. CASE Resync \/ TickTimer
  <2>1. [kind |-> "resync"] \in Events /\ [kind |-> "tick"] \in Events
    BY DEF Events
  <2>2. QED
    BY <1>2, <2>1, QueuedTyped DEF Resync, TickTimer
<1>3. ASSUME NEW s \in HealthSensors, CheckIn(s)
      PROVE  healthq' \in Seq(Events)
  <2>1. PICK wet \in BOOLEAN : healthq' = Queued([kind |-> "checkin", dev |-> s, value |-> wet])
    BY <1>3 DEF CheckIn
  <2>2. [kind |-> "checkin", dev |-> s, value |-> wet] \in Events
    BY DEF Events
  <2>3. QED
    BY <2>1, <2>2, QueuedTyped
<1>4. CASE SetupReads \/ SetupDone \/ Notify \/ LinkLost
  <2>1. link.valve \in BleValves
    BY <1>4 DEF SetupReads, SetupDone, Notify, LinkLost, NoLink
  <2>2. ASSUME NEW kinds \in Seq(ValveKinds), Says(kinds)
        PROVE  healthq' \in Seq(Events)
    BY <2>1, <2>2, SaysTyped
  <2>3. /\ <<"leak", "battery">> \in Seq(ValveKinds)
        /\ <<"connected", "battery", "connected">> \in Seq(ValveKinds)
        /\ <<"disconnected">> \in Seq(ValveKinds)
        /\ <<"leak", "connected">> \in Seq(ValveKinds) /\ <<"battery", "connected">> \in Seq(ValveKinds)
    BY DEF ValveKinds
  <2>4. CASE SetupReads
    BY <2>2, <2>3, <2>4 DEF SetupReads
  <2>5. CASE SetupDone
    BY <2>2, <2>3, <2>5 DEF SetupDone
  <2>6. CASE Notify
    <3>1. Says(<<"leak", "connected">>) \/ Says(<<"battery", "connected">>)
      BY <2>6, Zenon DEF Notify
    <3>2. QED
      BY <2>2, <2>3, <3>1
  <2>7. CASE LinkLost
    BY <2>2, <2>3, <2>7 DEF LinkLost
  <2>8. QED
    BY <1>4, <2>4, <2>5, <2>6, <2>7
<1>5. CASE UNCHANGED healthq
  BY <1>5
<1>6. QED
  BY <1>1, <1>2, <1>3, <1>4, <1>5 DEF HealthNext, healthVars, TickGoesOn, Fallback, Rate, Retry, TimesOut,
     DebounceEnds, SetDevices, Reconcile, PopAlert, LinkUp

LEMMA RestTyped ==
    ASSUME HealthTyped, [HealthNext]_healthVars
    PROVE  /\ members'.valve \in BleValves \cup {NoBleValve} /\ members'.sensors \subseteq HealthSensors
           /\ link' \in Links
           /\ link' = NoLink \/ link'.valve \in BleValves
           /\ holder' \in Holders
<1> USE DEF HealthTyped, Links, Holders
<1>1. CASE UNCHANGED <<members, link>> /\ holder' \in Holders
  BY <1>1
<1>2. CASE SetDevices
  BY <1>2 DEF SetDevices
<1>3. CASE LinkUp
  BY <1>3 DEF LinkUp, NoLink, Target
<1>4. CASE SetupReads \/ SetupDone \/ Notify
  <2>1. link # NoLink /\ link.valve \in BleValves
    BY <1>4 DEF SetupReads, SetupDone, Notify, NoLink
  <2>2. /\ link' \in Links /\ link'.valve = link.valve
        /\ members' = members /\ holder' = holder
    <3>1. CASE SetupReads
      BY <3>1 DEF SetupReads
    <3>2. CASE SetupDone
      BY <3>2 DEF SetupDone
    <3>3. CASE Notify
      BY <3>3 DEF Notify
    <3>4. QED
      BY <1>4, <3>1, <3>2, <3>3
  <2>3. QED
    BY <2>1, <2>2
<1>5. CASE LinkLost
  BY <1>5 DEF LinkLost, NoLink
<1>6. CASE TakeEvent
  BY <1>1, <1>6 DEF TakeEvent, InTable, Idle
<1>7. CASE TickGoesOn
  BY <1>1, <1>7 DEF TickGoesOn, InTable, Idle
<1>8. CASE Fallback
  BY <1>1, <1>8 DEF Fallback, Idle
<1>9. CASE \E x \in Tracked : Rate(x) \/ Retry(x)
  BY <1>1, <1>9 DEF Rate, Retry
<1>10. QED
  BY <1>1, <1>2, <1>3, <1>4, <1>5, <1>6, <1>7, <1>8, <1>9 DEF HealthNext, healthVars, TimesOut,
     DebounceEnds, Reconcile, Resync, PopAlert, TickTimer, CheckIn
-----------------------------------------------------------------------------
LEMMA HealthStarts == HealthInit => HealthInv
<1>1. NoSlot \in Slots /\ Told(NoSlot)
  BY DEF NoSlot, Unheard, Slots, Statuses, Told
<1>2. QED
  BY <1>1 DEF HealthInit, HealthInv, HealthTyped, Links, Holders, NoLink, Idle

LEMMA HealthKept == HealthInv /\ [HealthNext]_healthVars => HealthInv'
BY TableKept, TypesKept, RestTyped DEF HealthInv, HealthTyped, AllTold

(* No debounce, no full alert queue and no change from one CRITICAL into   *)
(* another loses an offline or a recovery, or tells one twice.             *)
THEOREM ToldIsTrueHolds == HealthSpec => []ToldIsTrue
<1>1. HealthInv => ToldIsTrue
  <2>1. SUFFICES ASSUME HealthInv, NEW x \in Tracked, table[x].in, ~table[x].retry
                 PROVE  table[x].alerted = (table[x].seen /\ table[x].status = "offline")
    BY DEF ToldIsTrue
  <2>2. table[x] \in Slots /\ Told(table[x])
    BY <2>1 DEF HealthInv, HealthTyped
  <2>3. table[x].alerted \in BOOLEAN /\ table[x].seen \in BOOLEAN
    BY <2>2 DEF Slots
  <2>4. QED
    BY <2>1, <2>2, <2>3 DEF Told
<1>2. QED
  BY <1>1, HealthStarts, HealthKept, PTL DEF HealthSpec

-----------------------------------------------------------------------------
(* The loss of a valve's link.  Nothing in the invariant is about the      *)
(* provisioned valve: a valve that is no longer, or not yet, the target is *)
(* known to be gone as well, or it could be the target again.  And the     *)
(* table has one valve at most, or the fallback would reach another one.   *)
LossKnown(v) ==
    table[v].in /\ table[v].seen /\ link.valve # v /\ ~OnTheWay(v)
        => table[v].away # "no" \/ v \in missed

OneValve == \A v, w \in BleValves : table[v].in /\ table[w].in => v = w

DropInv ==
    /\ HealthInv
    /\ Len(healthq) <= HealthDepth
    /\ OneValve
    /\ \A v \in BleValves : LossKnown(v)

(* Two slots that tell the same of the device's absence.                   *)
Alike(g, f) == g.in = f.in /\ g.seen = f.seen /\ g.away = f.away

LEMMA RatingAlike ==
    ASSUME table \in [Tracked -> Slots], NEW x \in Tracked, NEW f \in Slots, ApplyRating(x, f)
    PROVE  \E g : table' = [table EXCEPT ![x] = g] /\ Alike(g, f)
<1> DEFINE s == StatusOf(f)
<1>1. \A r : Alike([f EXCEPT !.status = r], f) /\ Alike(Owed([f EXCEPT !.status = r]), f)
  BY DEF Alike, Owed, Slots
<1>2. ASSUME NEW r, NEW b
      PROVE  Alike([f EXCEPT !.status = r, !.alerted = b, !.retry = FALSE, !.recent = TRUE], f)
  BY DEF Alike, Slots
<1>3. Alike(f, f)
  BY DEF Alike
<1>4. \/ table' = [table EXCEPT ![x] = [f EXCEPT !.status = s]]
      \/ table' = [table EXCEPT ![x] = Owed([f EXCEPT !.status = s])]
      \/ table' = [table EXCEPT ![x] = f]
      \/ table' = [table EXCEPT ![x] = [f EXCEPT !.status = s, !.alerted = (s = "offline"),
                                               !.retry = FALSE, !.recent = TRUE]]
  BY Zenon DEF ApplyRating, Committed, Sent
<1> HIDE DEF s
<1>5. CASE table' = [table EXCEPT ![x] = [f EXCEPT !.status = s, !.alerted = (s = "offline"),
                                               !.retry = FALSE, !.recent = TRUE]]
  <2> DEFINE b == s = "offline"
  <2>1. table' = [table EXCEPT ![x] = [f EXCEPT !.status = s, !.alerted = b,
                                               !.retry = FALSE, !.recent = TRUE]]
    BY <1>5
  <2> HIDE DEF b
  <2>2. QED
    BY <2>1, <1>2, Zenon
<1>6. QED
  BY <1>1, <1>3, <1>4, <1>5, Zenon

LEMMA EdgeAlike ==
    ASSUME table \in [Tracked -> Slots], NEW x \in Tracked, TrailingEdge(x, table[x])
    PROVE  \E g : table' = [table EXCEPT ![x] = g] /\ Alike(g, table[x])
<1> DEFINE d == table[x]
<1>1. d \in Slots
  OBVIOUS
<1>2. CASE UNCHANGED table
  <2>1. table' = [table EXCEPT ![x] = d] /\ Alike(d, d)
    BY <1>2 DEF Alike
  <2>2. QED
    BY <2>1
<1>3. CASE Committed(x, [d EXCEPT !.retry = FALSE])
  <2>1. Alike([d EXCEPT !.retry = FALSE], d)
    BY <1>1 DEF Slots, Alike
  <2>2. QED
    BY <1>3, <2>1 DEF Committed
<1>4. ASSUME NEW b, Sent(x, [d EXCEPT !.alerted = b, !.retry = FALSE, !.recent = TRUE])
      PROVE  \E g : table' = [table EXCEPT ![x] = g] /\ Alike(g, d)
  <2> DEFINE g == [d EXCEPT !.alerted = b, !.retry = FALSE, !.recent = TRUE]
  <2>1. Alike(g, d)
    BY <1>1 DEF Slots, Alike
  <2>2. table' = [table EXCEPT ![x] = g]
    BY <1>4, Zenon DEF Sent
  <2>3. QED
    BY <2>1, <2>2
<1>5. QED
  BY <1>2, <1>3, <1>4, Zenon DEF TrailingEdge

(* A loss on its way stays so when the queue grows, and when what is taken *)
(* from it is something else.                                              *)
LEMMA GrownOnTheWay ==
    ASSUME NEW v, NEW q \in Seq(Events), healthq \in Seq(Events), healthq' = healthq \o q,
           discPending => discPending', OnTheWay(v)
    PROVE  OnTheWay(v)'
<1>1. CASE discPending
  BY <1>1 DEF OnTheWay
<1>2. CASE \E i \in DOMAIN healthq : healthq[i].kind = "disconnected" /\ healthq[i].dev = v
  <2>1. PICK i \in DOMAIN healthq : healthq[i].kind = "disconnected" /\ healthq[i].dev = v
    BY <1>2
  <2>2. i \in DOMAIN healthq' /\ healthq'[i] = healthq[i]
    BY <2>1, ConcatProperties
  <2>3. QED
    BY <2>1, <2>2 DEF OnTheWay
<1>3. QED
  BY <1>1, <1>2 DEF OnTheWay

LEMMA TailOnTheWay ==
    ASSUME NEW v, healthq \in Seq(Events), healthq # <<>>, healthq' = Tail(healthq),
           discPending' = discPending,
           \/ OnTheWay(v) /\ (Head(healthq).kind # "disconnected" \/ Head(healthq).dev # v)
           \/ \E i \in 2..Len(healthq) : healthq[i].kind = "disconnected" /\ healthq[i].dev = v
    PROVE  OnTheWay(v)'
<1>1. CASE discPending
  BY <1>1 DEF OnTheWay
<1>2. CASE ~discPending
  <2>1. PICK i \in 2..Len(healthq) : healthq[i].kind = "disconnected" /\ healthq[i].dev = v
    <3>1. Head(healthq) = healthq[1] /\ DOMAIN healthq = 1..Len(healthq) /\ Len(healthq) \in Nat
      OBVIOUS
    <3>2. QED
      BY <1>2, <3>1 DEF OnTheWay
  <2>2. i - 1 \in DOMAIN healthq' /\ healthq'[i - 1] = healthq[i]
    BY <2>1
  <2>3. QED
    BY <2>1, <2>2 DEF OnTheWay
<1>3. QED
  BY <1>1, <1>2

(* A step after which a loss known before is known.                        *)
Kept(v) ==
    /\ Alike(table'[v], table[v])
    /\ link'.valve # v => link.valve # v
    /\ OnTheWay(v) => OnTheWay(v)'
    /\ v \in missed => v \in missed'

LEMMA KeptKnown ==
    ASSUME NEW v, LossKnown(v), Kept(v)
    PROVE  LossKnown(v)'
BY DEF LossKnown, Kept, Alike

(* A step that replaces one slot by one alike, and moves nothing else that *)
(* the loss depends on.                                                    *)
LEMMA SlotKept ==
    ASSUME table \in [Tracked -> Slots], NEW x, NEW v \in BleValves,
           UNCHANGED <<healthq, discPending, link, missed>>,
           UNCHANGED table \/ \E g : table' = [table EXCEPT ![x] = g] /\ Alike(g, table[x])
    PROVE  Kept(v)
<1>1. Alike(table'[v], table[v])
  BY DEF Alike, Tracked
<1>2. OnTheWay(v) => OnTheWay(v)'
  BY DEF OnTheWay
<1>3. QED
  BY <1>1, <1>2 DEF Kept

LEMMA TakeKnows ==
    ASSUME DropInv, TakeEvent, NEW v \in BleValves
    PROVE  LossKnown(v)' /\ (table'[v].in <=> table[v].in)
<1> DEFINE e == Head(healthq)
<1>1. /\ table \in [Tracked -> Slots] /\ healthq \in Seq(Events) /\ LossKnown(v) /\ v \in Tracked
      /\ healthq # <<>> /\ healthq' = Tail(healthq) /\ e \in Events
      /\ UNCHANGED <<discPending, link>> /\ (v \in missed => v \in missed')
      /\ (Outdated(e) => e.dev \in missed')
  <2>1. /\ healthq # <<>> /\ healthq' = Tail(healthq) /\ discPending' = discPending /\ link' = link
        /\ missed' = IF Outdated(e) THEN missed \cup {e.dev} ELSE missed
    BY Zenon DEF TakeEvent
  <2>2. e \in Events /\ table \in [Tracked -> Slots] /\ healthq \in Seq(Events)
    BY <2>1 DEF DropInv, HealthInv, HealthTyped
  <2> HIDE DEF e
  <2>3. QED
    BY <2>1, <2>2 DEF DropInv, Tracked
<1>2. ASSUME Alike(table'[v], table[v]), e.kind # "disconnected" \/ e.dev # v
      PROVE  LossKnown(v)' /\ (table'[v].in <=> table[v].in)
  <2>1. Kept(v)
    BY <1>1, <1>2, TailOnTheWay DEF Kept
  <2>2. QED
    BY <1>1, <1>2, <2>1, KeptKnown DEF Alike
<1>3. CASE e.kind = "tick" /\ UNCHANGED table
  BY <1>2, <1>3 DEF Alike
<1>4. CASE e.kind = "resync"
  <2>1. CASE UNCHANGED table
    BY <1>2, <1>4, <2>1 DEF Alike
  <2>2. CASE LinkIsReady /\ ApplyRating(link.valve, Resynced(table[link.valve])) /\ table[link.valve].in
    <3>1. link.valve \in BleValves /\ link.valve \in Tracked
      BY <2>2 DEF DropInv, HealthInv, HealthTyped, LinkIsReady, NoLink, Tracked
    <3>2. table[link.valve] \in Slots
      BY <1>1, <3>1
    <3>3. Resynced(table[link.valve]) \in Slots /\ Resynced(table[link.valve]).in = table[link.valve].in
      BY <3>2, ResyncRefreshes DEF Refreshed
    <3>4. PICK g : table' = [table EXCEPT ![link.valve] = g] /\ Alike(g, Resynced(table[link.valve]))
      BY <1>1, <2>2, <3>1, <3>3, RatingAlike
    <3>5. CASE link.valve = v
      BY <1>1, <3>1, <3>3, <3>4, <3>5 DEF LossKnown, Alike
    <3>6. CASE link.valve # v
      BY <1>1, <1>2, <1>4, <3>4, <3>6 DEF Alike
    <3>7. QED
      BY <3>5, <3>6
  <2>3. QED
    BY <1>4, <2>1, <2>2, Zenon DEF TakeEvent
<1>5. CASE e.kind \notin {"tick", "resync"}
  <2>1. e.kind \in Kinds /\ e.dev \in Tracked /\ e.value \in BOOLEAN /\ (e.kind = "checkin" => e.dev \in HealthSensors)
    BY <1>1, <1>5 DEF Events, Kinds, ValveKinds, Tracked
  <2>2. CASE UNCHANGED table /\ e.dev # v
    BY <1>2, <2>2 DEF Alike
  <2>3. CASE UNCHANGED table /\ ~table[v].in
    BY <2>3 DEF LossKnown
  <2>4. CASE ApplyRating(e.dev, Facts(e, table[e.dev]))
    <3>1. table[e.dev] \in Slots
      BY <1>1, <2>1
    <3>2. Facts(e, table[e.dev]) \in Slots /\ Facts(e, table[e.dev]).in = table[e.dev].in
      BY <2>1, <3>1, FactsRefresh DEF Refreshed
    <3>3. PICK g : table' = [table EXCEPT ![e.dev] = g] /\ Alike(g, Facts(e, table[e.dev]))
      BY <1>1, <2>1, <2>4, <3>2, RatingAlike
    <3>4. CASE e.dev # v
      BY <1>1, <1>2, <3>3, <3>4 DEF Alike
    <3>5. CASE e.dev = v
      <4>1. table[v] \in Slots /\ Alike(table'[v], Facts(e, table[v])) /\ (table'[v].in <=> table[v].in)
        BY <1>1, <3>1, <3>2, <3>3, <3>5 DEF Alike
      <4>2. e.kind # "checkin"
        BY <2>1, <3>5, HealthAssumption
      <4>3. CASE e.kind = "battery" \/ e.kind = "leak"
        <5>1. Alike(Facts(e, table[v]), table[v])
          BY <4>1, <4>3 DEF Facts, Alike, Slots
        <5>2. QED
          BY <1>2, <4>1, <4>3, <5>1 DEF Alike
      <4>4. CASE e.kind = "disconnected"
        <5>1. Facts(e, table[v]).away # "no"
          BY <4>1, <4>4 DEF Facts, Slots
        <5>2. QED
          BY <4>1, <5>1 DEF LossKnown, Alike
      <4>5. CASE e.kind = "connected"
        <5>1. CASE link.valve = v
          BY <1>1, <4>1, <5>1 DEF LossKnown
        <5>2. CASE discPending
          BY <1>1, <4>1, <5>2 DEF LossKnown, OnTheWay
        <5>3. CASE Outdated(e)
          BY <1>1, <3>5, <4>1, <5>3 DEF LossKnown
        <5>4. CASE \E i \in 2..Len(healthq) : healthq[i].kind = "disconnected" /\ healthq[i].dev = v
          <6>1. OnTheWay(v)'
            BY <1>1, <5>4, TailOnTheWay
          <6>2. QED
            BY <4>1, <6>1 DEF LossKnown
        <5>5. QED
          BY <3>5, <4>5, <5>1, <5>2, <5>3, <5>4 DEF Outdated
      <4>6. QED
        BY <2>1, <4>2, <4>3, <4>4, <4>5 DEF Kinds, ValveKinds
    <3>6. QED
      BY <3>4, <3>5
  <2>5. QED
    <3>1. \/ ApplyRating(e.dev, Facts(e, table[e.dev]))
          \/ ~table[e.dev].in /\ UNCHANGED table
      BY <1>5, Zenon DEF TakeEvent
    <3>2. QED
      BY <2>2, <2>3, <2>4, <3>1
<1>6. QED
  BY <1>3, <1>4, <1>5, Zenon DEF TakeEvent

(* The fallback has no MAC: it takes the one valve that is in the table.   *)
LEMMA FallbackKnows ==
    ASSUME DropInv, Fallback, NEW v \in BleValves
    PROVE  LossKnown(v)' /\ (table'[v].in <=> table[v].in)
<1>1. /\ table \in [Tracked -> Slots] /\ LossKnown(v) /\ v \in Tracked
      /\ UNCHANGED <<healthq, link, missed>> /\ OneValve
  BY DEF DropInv, HealthInv, HealthTyped, Fallback, Tracked
<1>2. CASE UNCHANGED table /\ ~discPending
  BY <1>1, <1>2 DEF LossKnown, OnTheWay
<1>3. CASE UNCHANGED table /\ BleValves \cap InTable = {}
  <2>1. ~table[v].in
    BY <1>1, <1>3 DEF InTable
  <2>2. QED
    BY <1>3, <2>1 DEF LossKnown
<1>4. ASSUME NEW w \in BleValves \cap InTable,
             ApplyRating(w, Facts([kind |-> "disconnected", dev |-> w], table[w]))
      PROVE  LossKnown(v)' /\ (table'[v].in <=> table[v].in)
  <2> DEFINE f == Facts([kind |-> "disconnected", dev |-> w], table[w])
  <2>1. w \in Tracked /\ table[w] \in Slots /\ table[w].in
    BY <1>1 DEF Tracked, InTable
  <2>2. f \in Slots /\ f.in = table[w].in /\ f.away # "no"
    BY <2>1 DEF Facts, Slots
  <2>3. PICK g : table' = [table EXCEPT ![w] = g] /\ Alike(g, f)
    BY <1>1, <1>4, <2>1, <2>2, RatingAlike
  <2> HIDE DEF f
  <2>4. CASE w = v
    BY <1>1, <2>2, <2>3, <2>4 DEF LossKnown, Alike
  <2>5. CASE w # v
    <3>1. table'[v] = table[v] /\ ~table[v].in
      BY <1>1, <2>1, <2>3, <2>5 DEF OneValve
    <3>2. QED
      BY <3>1 DEF LossKnown
  <2>6. QED
    BY <2>4, <2>5
<1>5. QED
  BY <1>2, <1>3, <1>4, Zenon DEF Fallback

(* Reconciling keeps the flag as long as its valve stays, and a valve it   *)
(* brings in has not been heard yet.                                       *)
LEMMA ReconcileKnows ==
    ASSUME DropInv, Reconcile, NEW v \in BleValves
    PROVE  LossKnown(v)' /\ (table'[v].in => v = Target)
<1>1. /\ table \in [Tracked -> Slots] /\ LossKnown(v) /\ v \in Tracked /\ OneValve
      /\ UNCHANGED <<healthq, link>> /\ members.sensors \subseteq HealthSensors
      /\ table' = [x \in Tracked |-> IF x \notin ProvisionedDevices THEN NoSlot
                                     ELSE IF table[x].in THEN table[x] ELSE Unheard]
      /\ discPending' = (discPending /\ BleValves \cap InTable \subseteq ProvisionedDevices)
      /\ missed' = missed \cap ProvisionedDevices
  BY DEF DropInv, HealthInv, HealthTyped, Reconcile, Tracked
<1>2. CASE v \notin ProvisionedDevices
  <2>1. ~table'[v].in
    BY <1>1, <1>2 DEF NoSlot, Unheard
  <2>2. QED
    BY <2>1 DEF LossKnown
<1>3. CASE v \in ProvisionedDevices
  <2>1. v = Target
    BY <1>1, <1>3, HealthAssumption DEF ProvisionedDevices
  <2>2. CASE ~table[v].in
    <3>1. ~table'[v].seen
      BY <1>1, <1>3, <2>2 DEF Unheard
    <3>2. QED
      BY <2>1, <3>1 DEF LossKnown
  <2>3. CASE table[v].in
    <3>1. BleValves \cap InTable \subseteq ProvisionedDevices
      BY <1>1, <1>3, <2>3 DEF OneValve, InTable
    <3>2. (discPending => discPending') /\ table'[v] = table[v] /\ (v \in missed => v \in missed')
      BY <1>1, <1>3, <2>3, <3>1
    <3>3. OnTheWay(v) => OnTheWay(v)'
      BY <1>1, <3>2 DEF OnTheWay
    <3>4. Kept(v)
      BY <1>1, <3>2, <3>3 DEF Kept, Alike
    <3>5. QED
      BY <1>1, <2>1, <3>4, KeptKnown
  <2>4. QED
    BY <2>2, <2>3
<1>4. QED
  BY <1>2, <1>3

(* What is posted keeps a loss that is on its way on its way.              *)
LEMMA QueuedKnows ==
    ASSUME DropInv, NEW v \in BleValves, NEW e \in Events, healthq' = Queued(e),
           UNCHANGED <<table, discPending, link, missed>>
    PROVE  Kept(v) /\ Len(healthq') <= HealthDepth
<1>1. healthq \in Seq(Events) /\ Len(healthq) <= HealthDepth /\ HealthDepth \in Nat
  BY HealthAssumption DEF DropInv, HealthInv, HealthTyped
<1>2. CASE healthq' = healthq
  BY <1>1, <1>2 DEF Kept, Alike, OnTheWay
<1>3. CASE Len(healthq) < HealthDepth /\ healthq' = Append(healthq, e)
  <2>1. <<e>> \in Seq(Events) /\ healthq' = healthq \o <<e>> /\ Len(healthq') = Len(healthq) + 1
    BY <1>1, <1>3
  <2>2. OnTheWay(v) => OnTheWay(v)'
    BY <1>1, <2>1, GrownOnTheWay
  <2>3. QED
    BY <1>1, <1>3, <2>1, <2>2 DEF Kept, Alike
<1>4. QED
  BY <1>2, <1>3 DEF Queued

(* A callback's posts grow the queue to its depth at most.                 *)
LEMMA SaysKnows ==
    ASSUME DropInv, NEW kinds \in Seq(ValveKinds), kinds # <<>>, Says(kinds), link # NoLink
    PROVE  /\ Len(healthq') <= HealthDepth
           /\ \A v \in BleValves :
                 /\ (discPending => discPending') /\ OnTheWay(v) => OnTheWay(v)'
                 /\ link.valve = v /\ v = Target /\ Len(healthq) < HealthDepth /\ kinds[1] = "disconnected"
                       => OnTheWay(v)'
<1>1. /\ healthq \in Seq(Events) /\ Len(healthq) <= HealthDepth /\ HealthDepth \in Nat
      /\ link.valve \in BleValves
  BY HealthAssumption DEF DropInv, HealthInv, HealthTyped
<1>2. PICK q \in Seq(Events) :
          /\ healthq' = healthq \o q
          /\ Len(healthq) <= HealthDepth => Len(healthq) + Len(q) <= HealthDepth
          /\ link.valve = Target /\ Len(healthq) < HealthDepth /\ kinds # <<>> =>
                q # <<>> /\ q[1].kind = kinds[1] /\ q[1].dev = link.valve
  BY <1>1, SaysTo
<1>3. /\ Len(healthq') = Len(healthq) + Len(q) /\ healthq' \in Seq(Events)
      /\ \A i \in 1..Len(q) : healthq'[Len(healthq) + i] = q[i]
  BY <1>1, <1>2, ConcatProperties
<1>4. ASSUME NEW v \in BleValves, discPending => discPending', OnTheWay(v)
      PROVE  OnTheWay(v)'
  BY <1>1, <1>2, <1>4, GrownOnTheWay
<1>5. ASSUME NEW v \in BleValves, link.valve = v, v = Target, Len(healthq) < HealthDepth,
             kinds[1] = "disconnected"
      PROVE  OnTheWay(v)'
  <2> DEFINE i == Len(healthq) + 1
  <2>1. 1 \in 1..Len(q) /\ q[1].kind = "disconnected" /\ q[1].dev = v
    BY <1>2, <1>5
  <2>2. i \in 1..Len(healthq') /\ healthq'[i] = q[1]
    BY <1>1, <1>3, <2>1
  <2>3. QED
    BY <1>3, <2>1, <2>2 DEF OnTheWay
<1>6. QED
  BY <1>1, <1>2, <1>3, <1>4, <1>5

(* The CONNECTEDs of a link, and the flag they take down.                  *)
LEMMA SupersedesKnows ==
    ASSUME DropInv, NEW kinds \in Seq(ValveKinds), kinds # <<>>, Says(kinds), link # NoLink,
           NEW n, Supersedes(n), link'.valve = link.valve, table' = table, NEW v \in BleValves
    PROVE  LossKnown(v)'
<1>1. /\ table \in [Tracked -> Slots] /\ v \in Tracked /\ LossKnown(v)
      /\ (discPending => discPending') /\ OnTheWay(v) => OnTheWay(v)'
  BY SaysKnows DEF DropInv, HealthInv, HealthTyped, Tracked
<1>2. v \in missed => v \in missed'
  BY DEF Supersedes
<1>3. CASE discPending /\ Lands(n)
  <2>1. table[v].in /\ link.valve # v => v \in missed'
    BY <1>1, <1>3 DEF Supersedes, InTable
  <2>2. QED
    BY <2>1 DEF LossKnown
<1>4. CASE ~(discPending /\ Lands(n))
  <2>1. discPending => discPending'
    BY <1>4 DEF Supersedes
  <2>2. Kept(v)
    BY <1>1, <1>2, <2>1 DEF Kept, Alike
  <2>3. QED
    BY <1>1, <2>2, KeptKnown
<1>5. QED
  BY <1>3, <1>4

LEMMA LinkLostKnows ==
    ASSUME DropInv, LinkLost, NEW v \in BleValves
    PROVE  LossKnown(v)' /\ Len(healthq') <= HealthDepth
<1>1. /\ LossKnown(v) /\ link # NoLink /\ link' = NoLink /\ table' = table /\ members' = members
      /\ Says(<<"disconnected">>) /\ discPending' = Flagged
      /\ missed' = IF link.valve # Target THEN missed \cup {link.valve} ELSE missed
      /\ <<"disconnected">> \in Seq(ValveKinds) /\ <<"disconnected">> # <<>>
      /\ <<"disconnected">>[1] = "disconnected"
      /\ Len(healthq) <= HealthDepth /\ HealthDepth \in Nat /\ Len(healthq) \in Nat
  BY HealthAssumption DEF DropInv, LinkLost, ValveKinds, HealthInv, HealthTyped
<1>2. discPending => discPending'
  BY <1>1 DEF Flagged
<1>3. Len(healthq') <= HealthDepth /\ (OnTheWay(v) => OnTheWay(v)')
  BY <1>1, <1>2, SaysKnows
<1>4. CASE link.valve # v
  <2>1. Kept(v)
    BY <1>1, <1>3, <1>4 DEF Kept, Alike
  <2>2. QED
    BY <1>1, <1>3, <2>1, KeptKnown
<1>5. CASE link.valve = v /\ v # Target
  BY <1>1, <1>3, <1>5 DEF LossKnown
<1>6. CASE link.valve = v /\ v = Target
  <2>1. CASE Len(healthq) = HealthDepth
    BY <1>1, <1>3, <1>6, <2>1 DEF Flagged, LossKnown, OnTheWay
  <2>2. CASE Len(healthq) < HealthDepth
    <3>1. OnTheWay(v)'
      BY <1>1, <1>6, <2>2, SaysKnows
    <3>2. QED
      BY <1>3, <3>1 DEF LossKnown
  <2>3. QED
    BY <1>1, <2>1, <2>2
<1>7. QED
  BY <1>4, <1>5, <1>6

(* The engine's task, the table and the timers.                            *)
LEMMA TableKnows ==
    ASSUME DropInv, NEW v \in BleValves,
           \/ TakeEvent \/ TickGoesOn \/ Fallback \/ Reconcile
           \/ \E x \in Tracked : Rate(x) \/ Retry(x) \/ TimesOut(x) \/ DebounceEnds(x)
    PROVE  LossKnown(v)' /\ ((table'[v].in <=> table[v].in) \/ (table'[v].in => v = Target /\ Reconcile))
<1>1. table \in [Tracked -> Slots] /\ LossKnown(v) /\ v \in Tracked
  BY DEF DropInv, HealthInv, HealthTyped, Tracked
<1>2. ASSUME Kept(v)
      PROVE  LossKnown(v)' /\ (table'[v].in <=> table[v].in)
  BY <1>1, <1>2, KeptKnown DEF Kept, Alike
<1>3. CASE TickGoesOn
  BY <1>1, <1>2, <1>3, SlotKept DEF TickGoesOn
<1>4. ASSUME NEW x \in Tracked, Rate(x)
      PROVE  Kept(v)
  <2>1. UNCHANGED <<healthq, discPending, link, missed>> /\ (UNCHANGED table \/ ApplyRating(x, table[x]))
    BY <1>4 DEF Rate
  <2>2. table[x] \in Slots
    BY <1>1
  <2>3. UNCHANGED table \/ \E g : table' = [table EXCEPT ![x] = g] /\ Alike(g, table[x])
    BY <1>1, <2>1, <2>2, RatingAlike
  <2>4. QED
    BY <1>1, <2>1, <2>3, SlotKept
<1>5. ASSUME NEW x \in Tracked, Retry(x)
      PROVE  Kept(v)
  <2>1. UNCHANGED <<healthq, discPending, link, missed>> /\ TrailingEdge(x, table[x])
    BY <1>5 DEF Retry
  <2>2. QED
    BY <1>1, <2>1, EdgeAlike, SlotKept
<1>6. ASSUME NEW x \in Tracked, DebounceEnds(x)
      PROVE  Kept(v)
  <2> DEFINE g == [table[x] EXCEPT !.recent = FALSE]
  <2>1. table[x] \in Slots
    BY <1>1
  <2>2. Alike(g, table[x])
    BY <2>1 DEF Slots, Alike
  <2>3. table' = [table EXCEPT ![x] = g] /\ UNCHANGED <<healthq, discPending, link, missed>>
    BY <1>6, Zenon DEF DebounceEnds
  <2>4. QED
    BY <1>1, <2>2, <2>3, SlotKept
<1>7. ASSUME NEW x \in Tracked, TimesOut(x)
      PROVE  LossKnown(v)' /\ (table'[v].in <=> table[v].in)
  <2> DEFINE g == [table[x] EXCEPT !.away = "long"]
  <2>1. table[x] \in Slots
    BY <1>1
  <2>2. g.away = "long" /\ g.in = table[x].in
    BY <2>1 DEF Slots
  <2>3. table' = [table EXCEPT ![x] = g] /\ UNCHANGED <<healthq, discPending, link, missed>>
    BY <1>7, Zenon DEF TimesOut
  <2> HIDE DEF g
  <2>4. CASE x = v
    BY <1>1, <2>2, <2>3, <2>4 DEF LossKnown
  <2>5. CASE x # v
    <3>1. Kept(v)
      BY <1>1, <2>3, <2>5 DEF Kept, Alike, OnTheWay
    <3>2. QED
      BY <1>2, <3>1
  <2>6. QED
    BY <2>4, <2>5
<1>8. QED
  BY <1>2, <1>3, <1>4, <1>5, <1>6, <1>7, TakeKnows, FallbackKnows, ReconcileKnows

(* Those who post, the device set and the link.                            *)
LEMMA PostsKnow ==
    ASSUME DropInv, NEW v \in BleValves,
           \/ SetDevices \/ Resync \/ PopAlert \/ TickTimer \/ \E s \in HealthSensors : CheckIn(s)
           \/ LinkUp \/ SetupReads \/ SetupDone \/ Notify \/ LinkLost \/ UNCHANGED healthVars
    PROVE  LossKnown(v)' /\ table' = table /\ Len(healthq') <= HealthDepth
<1>1. table \in [Tracked -> Slots] /\ LossKnown(v) /\ v \in Tracked /\ Len(healthq) <= HealthDepth
  BY DEF DropInv, HealthInv, HealthTyped, Tracked
<1>2. CASE SetDevices \/ PopAlert \/ UNCHANGED healthVars
  BY <1>1, <1>2 DEF SetDevices, PopAlert, healthVars, LossKnown, OnTheWay
<1>3. ASSUME NEW e \in Events, healthq' = Queued(e), UNCHANGED <<table, discPending, link, missed>>
      PROVE  LossKnown(v)' /\ table' = table /\ Len(healthq') <= HealthDepth
  BY <1>1, <1>3, QueuedKnows, KeptKnown
<1>4. CASE Resync \/ TickTimer
  <2>1. [kind |-> "resync"] \in Events /\ [kind |-> "tick"] \in Events
    BY DEF Events
  <2>2. QED
    BY <1>3, <1>4, <2>1 DEF Resync, TickTimer
<1>5. ASSUME NEW s \in HealthSensors, CheckIn(s)
      PROVE  LossKnown(v)' /\ table' = table /\ Len(healthq') <= HealthDepth
  <2>1. PICK wet \in BOOLEAN : healthq' = Queued([kind |-> "checkin", dev |-> s, value |-> wet])
    BY <1>5 DEF CheckIn
  <2>2. [kind |-> "checkin", dev |-> s, value |-> wet] \in Events
    BY DEF Events
  <2>3. QED
    BY <1>3, <1>5, <2>1, <2>2 DEF CheckIn
<1>6. CASE LinkUp
  <2>1. UNCHANGED <<table, healthq, discPending>> /\ link'.valve = Target /\ missed' = missed \ {Target}
        /\ link.valve = NoBleValve
    BY <1>6 DEF LinkUp, NoLink
  <2>2. CASE v = Target
    BY <1>1, <2>1, <2>2 DEF LossKnown
  <2>3. CASE v # Target
    BY <1>1, <2>1, <2>3, HealthAssumption DEF LossKnown, OnTheWay
  <2>4. QED
    BY <2>2, <2>3
<1>7. CASE SetupReads
  <2>1. /\ link # NoLink /\ link'.valve = link.valve /\ UNCHANGED <<table, discPending, missed>>
        /\ Says(<<"leak", "battery">>)
        /\ <<"leak", "battery">> \in Seq(ValveKinds) /\ <<"leak", "battery">> # <<>>
    BY <1>7 DEF SetupReads, NoLink, DropInv, HealthInv, HealthTyped, Links, ValveKinds
  <2>2. Len(healthq') <= HealthDepth /\ (OnTheWay(v) => OnTheWay(v)')
    BY <2>1, SaysKnows
  <2>3. Kept(v)
    BY <2>1, <2>2 DEF Kept, Alike
  <2>4. QED
    BY <1>1, <2>1, <2>2, <2>3, KeptKnown
<1>8. ASSUME NEW kinds \in Seq(ValveKinds), kinds # <<>>, Says(kinds), link # NoLink,
             NEW n, Supersedes(n), link'.valve = link.valve, table' = table
      PROVE  LossKnown(v)' /\ table' = table /\ Len(healthq') <= HealthDepth
  BY <1>8, SupersedesKnows, SaysKnows
<1>9. CASE SetupDone
  <2>1. /\ link # NoLink /\ link'.valve = link.valve /\ table' = table /\ Supersedes(0)
        /\ Says(<<"connected", "battery", "connected">>)
        /\ <<"connected", "battery", "connected">> \in Seq(ValveKinds)
        /\ <<"connected", "battery", "connected">> # <<>>
    BY <1>9 DEF SetupDone, NoLink, DropInv, HealthInv, HealthTyped, Links, ValveKinds
  <2>2. QED
    BY <1>8, <2>1
<1>10. CASE Notify
  <2> DEFINE kind == IF "wet" \in {link.reads, link'.reads} THEN "leak" ELSE "battery"
             kinds == <<kind, "connected">>
  <2>1. /\ link # NoLink /\ link'.valve = link.valve /\ table' = table
    BY <1>10 DEF Notify, NoLink, DropInv, HealthInv, HealthTyped, Links
  <2>2. Says(kinds) /\ Supersedes(1)
    BY <1>10, Zenon DEF Notify
  <2>3. kind \in ValveKinds
    BY DEF ValveKinds
  <2> HIDE DEF kind
  <2>4. kinds \in Seq(ValveKinds) /\ kinds # <<>>
    BY <2>3 DEF ValveKinds
  <2>5. QED
    BY <1>8, <2>1, <2>2, <2>4
<1>11. CASE LinkLost
  BY <1>11, LinkLostKnows DEF LinkLost
<1>12. QED
  BY <1>2, <1>4, <1>5, <1>6, <1>7, <1>9, <1>10, <1>11

LEMMA PostsBounded ==
    ASSUME DropInv,
           \/ SetDevices \/ Resync \/ PopAlert \/ TickTimer \/ \E s \in HealthSensors : CheckIn(s)
           \/ LinkUp \/ SetupReads \/ SetupDone \/ Notify \/ LinkLost \/ UNCHANGED healthVars
    PROVE  table' = table /\ Len(healthq') <= HealthDepth
<1>1. /\ healthq \in Seq(Events) /\ Len(healthq) <= HealthDepth /\ HealthDepth \in Nat
      /\ link # NoLink => link.valve \in BleValves
  BY HealthAssumption DEF DropInv, HealthInv, HealthTyped
<1>2. CASE SetupReads \/ SetupDone \/ Notify \/ LinkLost
  <2>1. link # NoLink
    BY <1>2 DEF SetupReads, SetupDone, Notify, LinkLost, NoLink
  <2>2. QED
    BY <1>1, <1>2, <2>1, PostsKnow
<1>3. CASE SetDevices \/ PopAlert \/ LinkUp \/ UNCHANGED healthVars
  BY <1>1, <1>3 DEF SetDevices, PopAlert, LinkUp, healthVars
<1>4. ASSUME NEW e, healthq' = Queued(e)
      PROVE  Len(healthq') <= HealthDepth
  BY <1>1, <1>4 DEF Queued
<1>5. CASE Resync \/ TickTimer \/ \E s \in HealthSensors : CheckIn(s)
  BY <1>4, <1>5 DEF Resync, TickTimer, CheckIn
<1>6. QED
  BY <1>2, <1>3, <1>5

LEMMA DropKept == DropInv /\ [HealthNext]_healthVars => DropInv'
<1> SUFFICES ASSUME DropInv, [HealthNext]_healthVars PROVE DropInv'
  OBVIOUS
<1>1. HealthInv'
  BY HealthKept DEF DropInv
<1>2. CASE \/ TakeEvent \/ TickGoesOn \/ Fallback \/ Reconcile
           \/ \E x \in Tracked : Rate(x) \/ Retry(x) \/ TimesOut(x) \/ DebounceEnds(x)
  <2>1. \A v \in BleValves : LossKnown(v)'
    BY <1>2, TableKnows
  <2>2. OneValve'
    <3>1. CASE Reconcile
      BY <3>1, ReconcileKnows DEF OneValve
    <3>2. CASE ~Reconcile
      BY <1>2, <3>2, TableKnows DEF DropInv, OneValve
    <3>3. QED
      BY <3>1, <3>2
  <2>3. Len(healthq') <= HealthDepth
    <3>1. CASE TakeEvent
      BY <3>1, HealthAssumption DEF TakeEvent, DropInv, HealthInv, HealthTyped
    <3>2. CASE healthq' = healthq
      BY <3>2 DEF DropInv
    <3>3. QED
      BY <1>2, <3>1, <3>2 DEF TickGoesOn, Fallback, Reconcile, Rate, Retry, TimesOut, DebounceEnds
  <2>4. QED
    BY <1>1, <2>1, <2>2, <2>3 DEF DropInv
<1>3. CASE \/ SetDevices \/ Resync \/ PopAlert \/ TickTimer \/ \E s \in HealthSensors : CheckIn(s)
           \/ LinkUp \/ SetupReads \/ SetupDone \/ Notify \/ LinkLost \/ UNCHANGED healthVars
  <2>1. \A v \in BleValves : LossKnown(v)'
    BY <1>3, PostsKnow
  <2>2. table' = table /\ Len(healthq') <= HealthDepth
    BY <1>3, PostsBounded
  <2>3. QED
    BY <1>1, <2>1, <2>2 DEF DropInv, OneValve
<1>4. QED
  BY <1>2, <1>3, Zenon DEF HealthNext

(* A valve that is not there does not stay green: the loss of its link has *)
(* reached the table or is on its way to it, but for the three holes.      *)
THEOREM DropIsKnownHolds == HealthSpec => []DropIsKnown
<1>1. HealthInit => DropInv
  <2>1. SUFFICES ASSUME HealthInit PROVE DropInv
    OBVIOUS
  <2>2. healthq = <<>> /\ \A v \in BleValves : ~table[v].in
    BY <2>1 DEF HealthInit, NoSlot, Unheard, Tracked
  <2>3. Len(healthq) <= HealthDepth
    BY <2>2, HealthAssumption
  <2>4. QED
    BY <2>1, <2>2, <2>3, HealthStarts DEF DropInv, OneValve, LossKnown
<1>2. DropInv => DropIsKnown
  BY DEF DropInv, LossKnown, DropIsKnown
<1>3. QED
  BY <1>1, <1>2, DropKept, PTL DEF HealthSpec

=============================================================================
