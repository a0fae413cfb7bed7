--------------------------- MODULE HubPartsProofs ----------------------------
(***************************************************************************)
(* Two parts of the hub proved by themselves, whose states share nothing   *)
(* (HubParts runs them together).                                          *)
(*                                                                         *)
(* The override window is never longer than its limit nor ended too early, *)
(* for every duration and every behaviour.  StampsTrue, the inductive      *)
(* invariant, says that each stamp, in RAM and in NVS, tells the window's  *)
(* real start by the clock it was made with; what the tick then decides    *)
(* from the stamp follows by arithmetic.                                   *)
(*                                                                         *)
(* dps_register() takes only the answer to its own attempt, and the cache  *)
(* is of one enrollment, for every number of attempts, of enrollments and  *)
(* of faults.                                                              *)
(***************************************************************************)
EXTENDS OverrideWindow, DpsClient, TLAPS

RamWindow == [active : BOOLEAN, expiry : Nat, here : BOOLEAN, since : Nat, start : Nat]
NvsWindow == [active : BOOLEAN, expiry : Nat, start : Nat]

(* What a failing or a succeeding write leaves in NVS is a true stamp.     *)
LEMMA AsStoredTrue ==
    ASSUME NEW w \in RamWindow, StampTrue(w)
    PROVE  AsStored(w) \in NvsWindow /\ StampTrue(AsStored(w))
BY DEF AsStored, StampTrue, RamWindow, NvsWindow

LEMMA NothingTrue ==
    /\ NoWindow \in RamWindow /\ StampTrue(NoWindow)
    /\ NotStored \in NvsWindow /\ StampTrue(NotStored)
BY DEF NoWindow, NotStored, StampTrue, RamWindow, NvsWindow

(* The re-base keeps a true stamp true, and gives an uptime-basis window of*)
(* this boot its epoch.                                                    *)
LEMMA RebasedTrue ==
    ASSUME StampsTrue
    PROVE  /\ Rebased(window) \in RamWindow
           /\ StampTrue(Rebased(window))
           /\ Rebased(window).active = window.active
           /\ Rebased(window).start = window.start
           /\ Rebased(window).active /\ Rebased(window).here => Rebased(window) = window
           /\ OnUptimeBasis(Rebased(window)) => Rebased(window) = window
           /\ synced => ~(OnUptimeBasis(Rebased(window)) /\ Rebased(window).here)
<1>1. CASE ~RebaseDue(window)
  BY <1>1 DEF Rebased, RebaseDue, StampsTrue, WindowTypeOK, RamWindow
<1>2. CASE RebaseDue(window)
  <2>1. /\ window \in RamWindow /\ window.active /\ window.here /\ synced
        /\ booted \in Nat /\ real \in Nat /\ booted <= window.start /\ window.start <= real
        /\ window.since = window.start - booted
    BY <1>2 DEF RebaseDue, OnUptimeBasis, StampsTrue, StampTrue, WindowTypeOK, RamWindow
  <2>2. (Clock - (Uptime - window.since)) + Duration = Valid + window.start + Duration
    BY <2>1, WindowAssumption DEF Clock, Uptime, RamWindow
  <2>3. Rebased(window) = [window EXCEPT !.expiry = Valid + window.start + Duration, !.here = FALSE]
    BY <1>2, <2>2 DEF Rebased
  <2>4. /\ Rebased(window) \in RamWindow /\ Rebased(window).active /\ ~Rebased(window).here
        /\ Rebased(window).start = window.start
        /\ Rebased(window).expiry = Valid + window.start + Duration
    <3>1. Valid + window.start + Duration \in Nat
      BY <2>1, WindowAssumption DEF RamWindow
    <3>2. QED
      BY <2>1, <2>3, <3>1 DEF RamWindow
  <2>5. Rebased(window).expiry >= Valid /\ ~(Rebased(window).expiry < Valid)
    BY <2>1, <2>4, WindowAssumption DEF RamWindow
  <2>6. QED
    BY <2>1, <2>4, <2>5 DEF StampTrue, OnUptimeBasis
<1>3. QED
  BY <1>1, <1>2

-----------------------------------------------------------------------------

THEOREM StampsTrueHolds == WindowSpec => []StampsTrue
<1>1. WindowInit => StampsTrue
  <2> SUFFICES ASSUME WindowInit PROVE StampsTrue
    OBVIOUS
  <2>1. WindowTypeOK
    <3>1. real \in 0..MaxTime /\ powered \in 0..booted /\ booted \in 0..real
      BY WindowAssumption DEF WindowInit
    <3>2. window \in RamWindow /\ stored \in NvsWindow /\ synced \in BOOLEAN /\ tickDue \in BOOLEAN
      BY NothingTrue, Zenon DEF WindowInit
    <3>3. QED
      BY <3>1, <3>2 DEF WindowTypeOK, RamWindow, NvsWindow
  <2>2. StampTrue(window) /\ StampTrue(stored)
    BY NothingTrue DEF WindowInit, StampTrue
  <2>3. QED
    BY <2>1, <2>2 DEF WindowInit, StampsTrue, NoWindow, OnUptimeBasis
<1>2. StampsTrue /\ [WindowNext]_windowVars => StampsTrue'
  <2> SUFFICES ASSUME StampsTrue, [WindowNext]_windowVars
               PROVE  StampsTrue'
    OBVIOUS
  <2> USE WindowAssumption
  <2>0. /\ window \in RamWindow /\ stored \in NvsWindow
        /\ StampTrue(window) /\ StampTrue(stored)
        /\ real \in Nat /\ powered \in Nat /\ booted \in Nat
        /\ powered <= booted /\ booted <= real /\ real <= MaxTime
        /\ synced \in BOOLEAN /\ tickDue \in BOOLEAN
    BY DEF StampsTrue, WindowTypeOK, RamWindow, NvsWindow
  <2>1. CASE WindowStart
    <3>1. /\ window' \in RamWindow /\ window'.start = real /\ window'.active
          /\ window'.expiry = Clock + Duration /\ window'.here = ~synced
          /\ window'.since = (IF synced THEN 0 ELSE Uptime)
      BY <2>0, <2>1 DEF WindowStart, RamWindow, Clock, Uptime
    <3>2. StampTrue(window)'
      BY <2>0, <2>1, <3>1 DEF WindowStart, StampTrue, Clock, RamWindow
    <3>3. AsStored(window)' \in NvsWindow /\ StampTrue(AsStored(window))'
      BY <3>1, <3>2, <2>0, <2>1 DEF AsStored, StampTrue, RamWindow, NvsWindow, WindowStart
    <3>4. stored' \in NvsWindow /\ StampTrue(stored)'
      BY <2>0, <2>1, <3>3 DEF WindowStart, Saves, AsStored, StampTrue
    <3>5. /\ window'.here => window'.expiry < Valid /\ booted <= real /\ window'.since = real - booted
          /\ OnUptimeBasis(window)' => window'.here
      BY <2>0, <3>1 DEF Clock, Uptime, OnUptimeBasis, RamWindow
    <3>6. QED
      BY <2>0, <2>1, <3>1, <3>2, <3>4, <3>5
      DEF WindowStart, StampsTrue, WindowTypeOK, RamWindow, NvsWindow
  <2>2. CASE WindowCancel
    BY <2>0, <2>2, NothingTrue
    DEF WindowCancel, Clears, StampsTrue, WindowTypeOK, StampTrue, NoWindow, NotStored,
        RamWindow, NvsWindow, OnUptimeBasis
  <2>3. CASE WindowTick
    <3>1. UNCHANGED <<real, powered, booted, synced>> /\ tickDue' = FALSE
      BY <2>3 DEF WindowTick
    <3>2. CASE UNCHANGED <<window, stored>>
      BY <2>0, <3>1, <3>2 DEF StampsTrue, WindowTypeOK, StampTrue, OnUptimeBasis
    <3>3. CASE window' = NoWindow /\ Clears
      BY <2>0, <3>1, <3>3, NothingTrue
      DEF Clears, StampsTrue, WindowTypeOK, StampTrue, NoWindow, NotStored, RamWindow, NvsWindow,
          OnUptimeBasis
    <3>4. CASE window' = Rebased(window) /\ Saves(Rebased(window))
      <4> DEFINE w == Rebased(window)
      <4>1. w \in RamWindow /\ StampTrue(w)
        BY RebasedTrue
      <4>2. AsStored(w) \in NvsWindow /\ StampTrue(AsStored(w))
        BY <4>1, AsStoredTrue
      <4>3. window' \in RamWindow /\ StampTrue(window)'
        BY <3>1, <3>4, <4>1 DEF StampTrue
      <4>4. stored' \in NvsWindow /\ StampTrue(stored)'
        BY <2>0, <3>1, <3>4, <4>2 DEF Saves, StampTrue
      <4>5. /\ window'.active /\ window'.here => window' = window
            /\ OnUptimeBasis(window)' => window' = window
            /\ ~window'.active => window' = window
        BY <3>4, RebasedTrue, <2>0
        DEF OnUptimeBasis, Rebased, RebaseDue, RamWindow
      <4>6. QED
        BY <2>0, <3>1, <4>3, <4>4, <4>5
        DEF StampsTrue, WindowTypeOK, RamWindow, NvsWindow, OnUptimeBasis
    <3>5. QED
      BY <2>3, <3>2, <3>3, <3>4, RebasedTrue DEF WindowTick
  <2>4. ASSUME NEW valid \in BOOLEAN, NEW now \in Nat, Load(valid, now),
               real' \in Nat, powered' \in Nat, booted' = real', powered' <= real',
               real <= real', real' <= MaxTime, synced' \in BOOLEAN, tickDue' \in BOOLEAN,
               \/ powered' = powered /\ synced' = synced
               \/ powered' > real
        PROVE  StampsTrue'
    <3>1. StampTrue(stored)' \/ stored' # stored
      BY <2>0, <2>4 DEF StampTrue, NvsWindow
    <3>2. stored' \in NvsWindow /\ StampTrue(stored)'
      BY <2>0, <2>4, <3>1, NothingTrue DEF Load, Clears, StampTrue, NotStored, NvsWindow
    <3>3. /\ window' \in RamWindow /\ StampTrue(window)' /\ window'.here = FALSE
          /\ window'.since = 0 /\ (window'.active => window'.start <= real')
      <4>1. CASE window' = NoWindow
        BY <4>1 DEF NoWindow, StampTrue, RamWindow
      <4>2. CASE /\ window' = [active |-> TRUE, expiry |-> stored.expiry, here |-> FALSE,
                               since |-> 0, start |-> stored.start]
                 /\ UNCHANGED stored /\ stored.active
        BY <2>0, <3>2, <4>2 DEF StampTrue, RamWindow, NvsWindow
      <4>3. QED
        BY <2>4, <4>1, <4>2 DEF Load
    <3>4. real' \in 0..MaxTime /\ powered' \in 0..booted' /\ booted' \in 0..real'
      BY <2>4
    <3>5. QED
      BY <2>4, <3>2, <3>3, <3>4 DEF StampsTrue, WindowTypeOK, RamWindow, NvsWindow, OnUptimeBasis
  <2>5. CASE SoftwareReset
    BY <2>0, <2>4, <2>5 DEF SoftwareReset, Clock
  <2>6. CASE PowerCycle
    <3>1. PICK t \in (real + 1)..MaxTime : real' = t /\ powered' = t /\ booted' = t
      BY <2>6 DEF PowerCycle
    <3>2. synced' = FALSE /\ tickDue' = TRUE /\ Load(FALSE, 0)
      BY <2>6 DEF PowerCycle
    <3>3. t \in Nat /\ real < t /\ t <= MaxTime
      BY <2>0, <3>1
    <3>4. synced' \in BOOLEAN /\ tickDue' \in BOOLEAN
      BY <3>2, Zenon
    <3>5. /\ real' \in Nat /\ powered' \in Nat /\ booted' = real' /\ powered' <= real'
          /\ real <= real' /\ real' <= MaxTime /\ powered' > real
      BY <2>0, <3>1, <3>3
    <3>6. QED
      BY <2>4, <3>2, <3>4, <3>5
  <2>7. CASE Synchronise
    BY <2>0, <2>7 DEF Synchronise, StampsTrue, WindowTypeOK, StampTrue, OnUptimeBasis
  <2>8. CASE Pass
    BY <2>0, <2>8 DEF Pass, StampsTrue, WindowTypeOK, StampTrue, OnUptimeBasis, RamWindow, NvsWindow
  <2>9. CASE UNCHANGED windowVars
    BY <2>9 DEF windowVars, StampsTrue, WindowTypeOK, StampTrue, OnUptimeBasis
  <2>10. QED
    BY <2>1, <2>2, <2>3, <2>5, <2>6, <2>7, <2>8, <2>9 DEF WindowNext
<1>3. QED
  BY <1>1, <1>2, PTL DEF WindowSpec
-----------------------------------------------------------------------------
(* What the tick decides.                                                  *)

(* A window the tick keeps is within its limit.                            *)
LEMMA KeptWithinLimit ==
    ASSUME StampsTrue, Rebased(window).active, ~Expired(Rebased(window))
    PROVE  /\ real < Limit(Rebased(window))
           /\ synced => ~OnUptimeBasis(Rebased(window))
<1> DEFINE w == Rebased(window)
<1> USE WindowAssumption
<1>1. /\ w \in RamWindow /\ StampTrue(w) /\ w.active
      /\ synced => ~(OnUptimeBasis(w) /\ w.here)
  BY RebasedTrue
<1>2. /\ real \in Nat /\ powered \in Nat /\ booted \in Nat /\ real <= MaxTime
      /\ powered <= booted /\ booted <= real /\ synced \in BOOLEAN
  BY DEF StampsTrue, WindowTypeOK
<1>3. OnUptimeBasis(w) => /\ w.here => booted <= w.start /\ w.since = w.start - booted
                          /\ ~w.here => w.since = 0 /\ w.start <= booted
  BY RebasedTrue DEF StampsTrue
<1>4. CASE synced
  <2>1. Valid + real < w.expiry
    BY <1>1, <1>2, <1>4 DEF Expired, Clock, RamWindow
  <2>2. w.expiry >= Valid /\ ~(w.expiry < Valid)
    BY <1>1, <1>2, <2>1 DEF RamWindow
  <2>3. QED
    BY <1>1, <1>2, <1>4, <2>1, <2>2 DEF StampTrue, OnUptimeBasis, Limit, RamWindow
<1>5. CASE ~synced /\ OnUptimeBasis(w)
  <2>1. UptimeRemaining(w) # 0 /\ w.expiry < Valid /\ ~(w.expiry >= Valid)
    BY <1>1, <1>5 DEF Expired, OnUptimeBasis, RamWindow
  <2>2. CASE w.here
    <3>1. real < w.start + Duration /\ powered <= w.start
      BY <1>1, <1>2, <1>3, <1>5, <2>1, <2>2 DEF UptimeRemaining, Monus, Uptime, RamWindow
    <3>2. QED
      BY <1>1, <1>5, <2>1, <3>1 DEF Limit
  <2>3. CASE ~w.here
    <3>1. real - powered < w.expiry
      BY <1>1, <1>2, <1>3, <1>5, <2>1, <2>3
      DEF UptimeRemaining, Monus, Least, Uptime, Clock, RamWindow
    <3>2. powered <= w.start => w.expiry = (w.start - powered) + Duration
      BY <1>1, <2>1 DEF StampTrue
    <3>3. QED
      BY <1>1, <1>2, <1>5, <2>1, <3>1, <3>2 DEF Limit, RamWindow
  <2>4. QED
    BY <1>1, <2>2, <2>3 DEF RamWindow
<1>6. CASE ~synced /\ ~OnUptimeBasis(w)
  <2>1. UnsyncedEpochRemaining # 0 /\ w.expiry >= Valid
    BY <1>1, <1>6 DEF Expired, OnUptimeBasis, RamWindow
  <2>2. real < powered + Duration
    BY <1>2, <1>6, <2>1 DEF UnsyncedEpochRemaining, Monus, Greatest, Uptime, Clock
  <2>3. QED
    BY <1>6, <2>1, <2>2 DEF Limit
<1>7. QED
  BY <1>2, <1>4, <1>5, <1>6

(* After a tick no window is past its limit, in every behaviour: the       *)
(* auto-close is never blocked for longer than it was asked for.           *)
THEOREM NeverLongerHolds == WindowSpec => []NeverLonger
<1> USE WindowAssumption
<1>1. WindowInit => NeverLonger
  BY DEF WindowInit, NeverLonger
<1>2. StampsTrue /\ StampsTrue' /\ NeverLonger /\ [WindowNext]_windowVars => NeverLonger'
  <2> SUFFICES ASSUME StampsTrue, NeverLonger, [WindowNext]_windowVars, ~tickDue', window'.active
               PROVE  real' < Limit(window)' /\ (synced' => ~OnUptimeBasis(window)')
    BY DEF NeverLonger
  <2>1. CASE WindowStart
    <3>1. /\ window'.start = real /\ window'.expiry = Clock + Duration
          /\ UNCHANGED <<real, powered, synced, booted>>
          /\ real \in Nat /\ powered \in Nat /\ booted \in Nat
          /\ powered <= booted /\ booted <= real /\ real <= MaxTime
      BY <2>1 DEF WindowStart, StampsTrue, WindowTypeOK
    <3>2. QED
      BY <3>1 DEF Limit, OnUptimeBasis, Clock
  <2>2. CASE WindowCancel
    BY <2>2 DEF WindowCancel, NoWindow
  <2>3. CASE WindowTick
    <3>1. UNCHANGED <<real, powered, booted, synced>>
      BY <2>3 DEF WindowTick
    <3>2. Rebased(window).active /\ ~Expired(Rebased(window)) /\ window' = Rebased(window)
      <4>1. Rebased(window).active = window.active
        BY RebasedTrue
      <4>2. QED
        BY <2>3, <4>1 DEF WindowTick, NoWindow
    <3>3. QED
      BY <3>1, <3>2, KeptWithinLimit DEF Limit, OnUptimeBasis
  <2>4. CASE UNCHANGED windowVars
    BY <2>4 DEF windowVars, NeverLonger, Limit, OnUptimeBasis
  <2>5. ~SoftwareReset /\ ~PowerCycle /\ ~Synchronise /\ ~Pass
    BY DEF SoftwareReset, PowerCycle, Synchronise, Pass
  <2>6. QED
    BY <2>1, <2>2, <2>3, <2>4, <2>5 DEF WindowNext
<1>3. QED
  BY <1>1, <1>2, StampsTrueHolds, PTL DEF WindowSpec

(* A window the tick ends has run its 24 h, or was restored from an earlier*)
(* boot that stamped it without a clock.                                   *)
LEMMA EndedHasRun ==
    ASSUME StampsTrue, window.active, Expired(Rebased(window))
    PROVE  \/ real >= window.start + Duration
           \/ synced /\ OnUptimeBasis(window) /\ ~window.here
<1> DEFINE w == Rebased(window)
<1> USE WindowAssumption
<1>1. /\ w \in RamWindow /\ StampTrue(w) /\ w.active /\ w.start = window.start
      /\ synced => ~(OnUptimeBasis(w) /\ w.here)
      /\ OnUptimeBasis(w) => w = window
  BY RebasedTrue
<1>2. /\ real \in Nat /\ powered \in Nat /\ booted \in Nat /\ real <= MaxTime
      /\ powered <= booted /\ booted <= real /\ synced \in BOOLEAN
  BY DEF StampsTrue, WindowTypeOK
<1>3. OnUptimeBasis(w) => /\ w.here => booted <= w.start /\ w.since = w.start - booted
                          /\ ~w.here => w.since = 0 /\ w.start <= booted
  BY RebasedTrue DEF StampsTrue
<1>4. CASE synced
  <2>1. Valid + real >= w.expiry
    BY <1>1, <1>2, <1>4 DEF Expired, Clock, RamWindow
  <2>2. CASE OnUptimeBasis(w)
    BY <1>1, <1>4, <2>2
  <2>3. CASE ~OnUptimeBasis(w)
    <3>1. w.expiry = Valid + w.start + Duration
      BY <1>1, <2>3 DEF OnUptimeBasis, StampTrue, RamWindow
    <3>2. QED
      BY <1>1, <1>2, <2>1, <3>1 DEF RamWindow
  <2>4. QED
    BY <2>2, <2>3
<1>5. CASE ~synced /\ OnUptimeBasis(w)
  <2>1. UptimeRemaining(w) = 0 /\ w.expiry < Valid
    BY <1>1, <1>5 DEF Expired, OnUptimeBasis, RamWindow
  <2>2. CASE w.here
    <3>1. real - w.start >= Duration
      BY <1>1, <1>2, <1>3, <1>5, <2>1, <2>2 DEF UptimeRemaining, Monus, Uptime, RamWindow
    <3>2. QED
      BY <1>1, <1>2, <3>1 DEF RamWindow
  <2>3. CASE ~w.here
    <3>1. real - booted >= Duration \/ real - powered >= w.expiry
      BY <1>1, <1>2, <1>3, <1>5, <2>1, <2>3
      DEF UptimeRemaining, Monus, Least, Uptime, Clock, RamWindow
    <3>2. CASE powered <= w.start
      <4>1. w.expiry = (w.start - powered) + Duration
        BY <1>1, <2>1, <3>2 DEF StampTrue
      <4>2. QED
        BY <1>1, <1>2, <1>3, <1>5, <2>3, <3>1, <3>2, <4>1 DEF RamWindow
    <3>3. CASE ~(powered <= w.start)
      <4>1. w.expiry >= Duration
        BY <1>1, <2>1 DEF StampTrue
      <4>2. QED
        BY <1>1, <1>2, <3>1, <3>3, <4>1 DEF RamWindow
    <3>4. QED
      BY <3>2, <3>3
  <2>4. QED
    BY <1>1, <2>2, <2>3 DEF RamWindow
<1>6. CASE ~synced /\ ~OnUptimeBasis(w)
  <2>1. UnsyncedEpochRemaining = 0 /\ w.expiry >= Valid
    BY <1>1, <1>6 DEF Expired, OnUptimeBasis, RamWindow
  <2>2. real >= powered + Duration
    BY <1>2, <1>6, <2>1 DEF UnsyncedEpochRemaining, Monus, Greatest, Uptime, Clock
  <2>3. w.start <= powered
    BY <1>1, <1>6, <2>1 DEF StampTrue
  <2>4. QED
    BY <1>1, <1>2, <2>2, <2>3 DEF RamWindow
<1>7. QED
  BY <1>2, <1>4, <1>5, <1>6

(* The tick ends no window early, in every behaviour.                      *)
THEOREM NeverShorterHolds == WindowSpec => NeverShorter
<1>1. StampsTrue /\ WindowTick /\ window.active /\ ~window'.active =>
          Expired(Rebased(window))
  BY RebasedTrue DEF WindowTick
<1>2. StampsTrue /\ [WindowNext]_windowVars =>
          [WindowTick /\ window.active /\ ~window'.active =>
               \/ real >= window.start + Duration
               \/ synced /\ OnUptimeBasis(window) /\ ~window.here]_windowVars
  BY <1>1, EndedHasRun
<1>3. QED
  BY <1>2, StampsTrueHolds, PTL DEF WindowSpec, NeverShorter

-----------------------------------------------------------------------------
(* The DPS client.                                                        *)

Attempts == 1..MaxAttempts
Waiting == {"waiting", "ended"}
Saving == {"saving", "hub_host", "dev_id", "dev_key", "prov_epoch"}
Stages == {"none", "started", "connected", "asked"}
DpsStates == {"idle", "connecting", "subscribing", "registering", "polling", "done", "failed"}

DpsTypeOK ==
    /\ ctx \in [state : DpsStates, by : Nat]
    /\ clients \in [Attempts -> Stages]
    /\ register \in {"out", "stopped"} \cup Waiting \cup Saving
    /\ attempt \in Nat
    /\ epoch \in 1..MaxEpoch
    /\ cache \in [CacheKeys -> 0..MaxEpoch]
    /\ refused \in BOOLEAN

(* Only the attempt that is waited for has a client; what it wrote is of   *)
(* that attempt.                                                           *)
OneClient ==
    /\ \A n \in Attempts : clients[n] # "none" => n = attempt /\ register \in Waiting
    /\ register \in Waiting => attempt \in Attempts

DpsInv1 == DpsTypeOK /\ OneClient /\ OwnAnswer

(* prov_epoch is written when the data are of its enrollment, and no       *)
(* enrollment is older than what the namespace holds.                      *)
DataKeys == {"hub_host", "dev_id", "dev_key"}
WrittenAt(stage) ==
    CASE stage = "hub_host" -> {"hub_host"}
      [] stage = "dev_id" -> {"hub_host", "dev_id"}
      [] stage \in {"dev_key", "prov_epoch"} -> DataKeys
      [] OTHER -> {}
EpochLast ==
    ~refused => /\ \A key \in WrittenAt(register) : cache[key] = epoch
                /\ cache["prov_epoch"] <= epoch
                /\ cache["prov_epoch"] = epoch => \A key \in DataKeys : cache[key] \in {0, epoch}

DpsInv2 == DpsTypeOK /\ EpochLast
-----------------------------------------------------------------------------
LEMMA InitInv == DpsInit => DpsInv1 /\ DpsInv2
<1> SUFFICES ASSUME DpsInit PROVE DpsInv1 /\ DpsInv2
  OBVIOUS
<1> USE DpsAssumption DEF DpsInit
<1>1. DpsTypeOK
  <2>1. cache \in [CacheKeys -> 0..MaxEpoch] /\ clients \in [Attempts -> Stages]
    BY DEF NoClient, Attempts, Stages
  <2>2. ctx \in [state : DpsStates, by : Nat]
    BY DEF IdleCtx, DpsStates
  <2>3. register \in {"out", "stopped"} \cup Waiting \cup Saving /\ attempt \in Nat
    BY DEF Waiting, Saving
  <2>4. epoch \in 1..MaxEpoch
    OBVIOUS
  <2>5. refused \in BOOLEAN
    BY Zenon
  <2>6. QED
    BY <2>1, <2>2, <2>3, <2>4, <2>5, Zenon DEF DpsTypeOK
<1>2. OneClient /\ OwnAnswer
  BY DEF OneClient, OwnAnswer, NoClient, Attempts, Waiting
<1>3. EpochLast
  BY DEF EpochLast, WrittenAt, CacheKeys, DataKeys
<1>4. QED
  BY <1>1, <1>2, <1>3 DEF DpsInv1, DpsInv2

(* Each action keeps the types.                                            *)
LEMMA TypesKept == DpsTypeOK /\ [DpsNext]_dpsVars => DpsTypeOK'
<1> SUFFICES ASSUME DpsTypeOK, [DpsNext]_dpsVars PROVE DpsTypeOK'
  OBVIOUS
<1> USE DpsAssumption DEF DpsTypeOK, Attempts, Waiting, Saving, Stages, DpsStates, CacheKeys
<1>1. CASE FromCache \/ WaitEnds \/ StopClient \/ Conclude
  BY <1>1 DEF FromCache, WaitEnds, StopClient, Conclude
<1>2. CASE Register
  <2>1. attempt' \in Nat
    BY <1>2 DEF Register
  <2>2. QED
    BY <1>2, <2>1 DEF Register, IdleCtx
<1>3. ASSUME NEW i \in 1..5, SaveKey(i) PROVE DpsTypeOK'
  <2>1. SaveOrder[i] \in CacheKeys
    BY DEF SaveOrder
  <2>2. i < 5 => SaveOrder[i] \in Saving
    BY DEF SaveOrder
  <2>3. cache' \in [CacheKeys -> 0..MaxEpoch] /\ refused' \in BOOLEAN
    <3>1. cache' = cache \/ cache' = [cache EXCEPT ![SaveOrder[i]] = epoch]
      BY <1>3 DEF SaveKey
    <3>2. epoch \in 0..MaxEpoch
      OBVIOUS
    <3>3. cache' \in [CacheKeys -> 0..MaxEpoch]
      BY <2>1, <3>1, <3>2
    <3>4. refused' = TRUE \/ refused' = refused
      BY <1>3 DEF SaveKey
    <3>5. QED
      BY <3>3, <3>4
  <2>4. register' \in Saving \cup {"out"}
    BY <1>3, <2>2 DEF SaveKey
  <2>5. QED
    BY <1>3, <2>3, <2>4 DEF SaveKey
<1>4. ASSUME NEW n \in Attempts, Connected(n) \/ Subscribed(n) \/ Answer(n) \/ DpsSessionEnds(n)
      PROVE  DpsTypeOK'
  <2>1. CASE Connected(n) \/ Subscribed(n)
    BY <2>1 DEF Connected, Subscribed
  <2>2. CASE Answer(n)
    BY <2>2 DEF Answer
  <2>3. CASE DpsSessionEnds(n)
    BY <2>3 DEF DpsSessionEnds
  <2>4. QED
    BY <1>4, <2>1, <2>2, <2>3
<1>5. CASE AdmissionDrops \/ AdmittedAgain
  BY <1>5 DEF AdmissionDrops, AdmittedAgain
<1>6. CASE DpsRestart
  BY <1>6 DEF DpsRestart, Reset, IdleCtx, NoClient
<1>7. CASE ClearCache
  <2>1. cache' \in [CacheKeys -> 0..MaxEpoch]
    BY <1>7 DEF ClearCache
  <2>2. QED
    BY <1>7, <2>1 DEF ClearCache, Reset, IdleCtx, NoClient
<1>8. CASE UNCHANGED dpsVars
  BY <1>8 DEF dpsVars
<1>9. QED
  BY <1>1, <1>2, <1>3, <1>4, <1>5, <1>6, <1>7, <1>8 DEF DpsNext

(* A client is started when no other lives, and is gone before the wait's  *)
(* end is looked at.                                                       *)
LEMMA ClientKept == DpsInv1 /\ [DpsNext]_dpsVars => OneClient' /\ OwnAnswer'
<1> SUFFICES ASSUME DpsInv1, [DpsNext]_dpsVars PROVE OneClient' /\ OwnAnswer'
  OBVIOUS
<1> USE DpsAssumption DEF DpsInv1, DpsTypeOK, OneClient, OwnAnswer, Attempts, Waiting, Stages
<1>1. CASE FromCache \/ WaitEnds \/ Conclude
  BY <1>1 DEF FromCache, WaitEnds, Conclude, MayRegister
<1>2. CASE Register
  <2>1. attempt' \in Attempts /\ ctx'.state = "connecting"
    BY <1>2 DEF Register, IdleCtx
  <2>2. \A n \in Attempts : clients[n] = "none"
    BY <1>2 DEF Register, MayRegister
  <2>3. QED
    BY <1>2, <2>1, <2>2 DEF Register
<1>3. CASE StopClient
  BY <1>3 DEF StopClient
<1>4. ASSUME NEW i \in 1..5, SaveKey(i) PROVE OneClient' /\ OwnAnswer'
  <2>1. register \notin {"out", "waiting", "ended"} /\ register' \notin Waiting
    BY <1>4 DEF SaveKey, SaveOrder
  <2>2. QED
    BY <1>4, <2>1 DEF SaveKey
<1>5. ASSUME NEW n \in Attempts, Connected(n) \/ Subscribed(n) \/ Answer(n) \/ DpsSessionEnds(n)
      PROVE  OneClient' /\ OwnAnswer'
  <2>1. n = attempt /\ register \in Waiting
    BY <1>5 DEF Connected, Subscribed, Answer, DpsSessionEnds
  <2>2. CASE Connected(n) \/ Subscribed(n)
    BY <2>1, <2>2 DEF Connected, Subscribed
  <2>3. CASE Answer(n)
    BY <2>1, <2>3 DEF Answer
  <2>4. CASE DpsSessionEnds(n)
    BY <2>1, <2>4 DEF DpsSessionEnds
  <2>5. QED
    BY <1>5, <2>2, <2>3, <2>4
<1>6. CASE AdmissionDrops \/ AdmittedAgain
  BY <1>6 DEF AdmissionDrops, AdmittedAgain
<1>7. CASE DpsRestart \/ ClearCache
  BY <1>7 DEF DpsRestart, ClearCache, Reset, NoClient
<1>8. CASE UNCHANGED dpsVars
  BY <1>8 DEF dpsVars
<1>9. QED
  BY <1>1, <1>2, <1>3, <1>4, <1>5, <1>6, <1>7, <1>8 DEF DpsNext

(* The epoch's key follows the data it vouches for.                        *)
LEMMA EpochKept == DpsInv2 /\ [DpsNext]_dpsVars => EpochLast'
<1> SUFFICES ASSUME DpsInv2, [DpsNext]_dpsVars, ~refused' PROVE EpochLast'
  BY DEF EpochLast
<1> USE DEF DpsInv2, DpsTypeOK, CacheKeys, DataKeys
<1>0. ~refused
  <2>1. ASSUME NEW i \in 1..5, SaveKey(i) PROVE ~refused
    BY <2>1 DEF SaveKey
  <2>2. ASSUME NEW n \in 1..MaxAttempts, Connected(n) \/ Subscribed(n) \/ Answer(n) \/ DpsSessionEnds(n)
        PROVE  ~refused
    BY <2>2 DEF Connected, Subscribed, Answer, DpsSessionEnds
  <2>3. QED
    BY <2>1, <2>2 DEF DpsNext, dpsVars, FromCache, Register, WaitEnds, StopClient, Conclude,
       AdmissionDrops, AdmittedAgain, DpsRestart, ClearCache
<1>1. CASE register' \in {"out", "waiting", "ended", "stopped", "saving"} /\ UNCHANGED <<cache, epoch>>
  BY <1>0, <1>1 DEF EpochLast, WrittenAt
<1>2. ASSUME NEW i \in 1..5, SaveKey(i) PROVE EpochLast'
  <2>1. cache' = [cache EXCEPT ![SaveOrder[i]] = epoch] /\ epoch' = epoch
    BY <1>2 DEF SaveKey
  <2>2. CASE i = 1
    BY <1>0, <1>2, <2>1, <2>2 DEF EpochLast, WrittenAt, SaveKey, SaveOrder
  <2>3. CASE i = 2
    BY <1>0, <1>2, <2>1, <2>3 DEF EpochLast, WrittenAt, SaveKey, SaveOrder
  <2>4. CASE i = 3
    BY <1>0, <1>2, <2>1, <2>4 DEF EpochLast, WrittenAt, SaveKey, SaveOrder
  <2>5. CASE i = 4
    BY <1>0, <1>2, <2>1, <2>5 DEF EpochLast, WrittenAt, SaveKey, SaveOrder
  <2>6. CASE i = 5
    BY <1>0, <1>2, <2>1, <2>6 DEF EpochLast, WrittenAt, SaveKey, SaveOrder
  <2>7. QED
    BY <2>2, <2>3, <2>4, <2>5, <2>6
<1>3. ASSUME NEW n \in 1..MaxAttempts, Connected(n) \/ Subscribed(n) \/ Answer(n) \/ DpsSessionEnds(n)
      PROVE  EpochLast'
  <2>1. UNCHANGED <<register, cache, epoch>>
    BY <1>3 DEF Connected, Subscribed, Answer, DpsSessionEnds
  <2>2. QED
    BY <1>0, <2>1 DEF EpochLast
<1>4. CASE DpsRestart
  <2>1. register' = "out" /\ cache' = cache /\ epoch' \in epoch..MaxEpoch
    BY <1>4 DEF DpsRestart, Reset
  <2>2. QED
    BY <1>0, <2>1 DEF EpochLast, WrittenAt
<1>5. CASE ClearCache
  <2>1. register' = "out" /\ epoch' = epoch /\ \A key \in CacheKeys : cache'[key] \in {0, cache[key]}
    BY <1>5 DEF ClearCache, Reset
  <2>2. QED
    BY <1>0, <2>1 DEF EpochLast, WrittenAt
<1>6. CASE UNCHANGED <<register, cache, epoch>>
  BY <1>0, <1>6 DEF EpochLast
<1>7. QED
  BY <1>1, <1>2, <1>3, <1>4, <1>5, <1>6 DEF DpsNext, dpsVars, FromCache, Register, WaitEnds,
     StopClient, Conclude, AdmissionDrops, AdmittedAgain
-----------------------------------------------------------------------------
(* No client of an attempt that timed out, failed or was given up writes   *)
(* what the next attempt takes for its answer.                             *)
THEOREM OwnAnswerHolds == DpsSpec => []OwnAnswer
<1>1. DpsInv1 /\ [DpsNext]_dpsVars => DpsInv1'
  BY TypesKept, ClientKept DEF DpsInv1
<1>2. DpsInv1 => OwnAnswer
  BY DEF DpsInv1
<1>3. QED
  BY InitInv, <1>1, <1>2, PTL DEF DpsSpec

(* The next boot loads one assignment, of its firmware's enrollment,       *)
(* wherever a save, an erase or a migration was cut.                       *)
THEOREM CacheOfEpochHolds == DpsSpec => []CacheOfEpoch
<1>1. DpsInv2 /\ [DpsNext]_dpsVars => DpsInv2'
  BY TypesKept, EpochKept DEF DpsInv2
<1>2. DpsInv2 => CacheOfEpoch
  BY DEF DpsInv2, EpochLast, CacheOfEpoch, CacheLoads, CacheKeys, DataKeys
<1>3. QED
  BY InitInv, <1>1, <1>2, PTL DEF DpsSpec

=============================================================================
