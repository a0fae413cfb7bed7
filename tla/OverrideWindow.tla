--------------------------- MODULE OverrideWindow ---------------------------
(***************************************************************************)
(* The 24 h override window's time (main/rules_engine/rules_engine.c): a   *)
(* press or a command starts it, and it blocks the auto-close until it is  *)
(* over.  The hub has no battery for its clock: time() counts from the     *)
(* last power-on until SNTP synchronises it; a software reset keeps it, a  *)
(* power-on loses it; esp_timer, the uptime, starts anew at either.  So a  *)
(* window is timed on whichever of the three is worth something.           *)
(*                                                                         *)
(* Real time is the yardstick of the properties; the code never reads it.  *)
(***************************************************************************)
EXTENDS Naturals

CONSTANTS
    Duration,    \* OVERRIDE_WINDOW_DURATION_S
    Valid,       \* EPOCH_VALID_THRESHOLD, below which time() is unsynced
    MaxTime      \* bound: the seconds of a behaviour

(* The threshold is in 2024; no hub runs unsynced for half a century.      *)
ASSUME WindowAssumption ==
    /\ Duration \in Nat \ {0} /\ Valid \in Nat /\ MaxTime \in Nat
    /\ MaxTime + Duration < Valid

VARIABLES
    real,        \* real time
    powered,     \* the last power-on, by real time
    booted,      \* the last reset of any kind, by real time
    synced,      \* time() is the synced clock
    window,      \* RAM: the window (expiry = 0: none) and, for the properties, its start
    stored,      \* NVS: ovr_state and ovr_expiry, and the same
    tickDue      \* rules_engine_tick() has not run at this time

windowVars == <<real, powered, booted, synced, window, stored, tickDue>>

Monus(a, b) == IF a > b THEN a - b ELSE 0
Least(a, b) == IF a < b THEN a ELSE b
Greatest(a, b) == IF a > b THEN a ELSE b

(* time() and uptime_s().                                                  *)
Clock == IF synced THEN Valid + real ELSE real - powered
Uptime == real - booted

(* `here` is g_override_unsynced_this_boot, `since` the start's uptime.    *)
NoWindow == [active |-> FALSE, expiry |-> 0, here |-> FALSE, since |-> 0, start |-> 0]
NotStored == [active |-> FALSE, expiry |-> 0, start |-> 0]

WindowInit ==
    /\ real = 0 /\ powered = 0 /\ booted = 0
    /\ synced = FALSE
    /\ window = NoWindow /\ stored = NotStored
    /\ tickDue = TRUE

-----------------------------------------------------------------------------
(* What the window has left, by each of the three.                         *)

OnUptimeBasis(w) == w.active /\ w.expiry < Valid

(* A window of an earlier boot is also capped by the unsynced clock, and   *)
(* worth nothing at a synced one.                                          *)
UptimeRemaining(w) ==
    LET left == Monus(Duration, Uptime - w.since) IN
    IF w.here THEN left
    ELSE IF synced THEN 0
    ELSE Least(left, Monus(w.expiry, Clock))

UnsyncedEpochRemainingByUptime == Monus(Duration, Uptime)     \* mutant: the clock not looked at
UnsyncedEpochRemaining == Monus(Duration, Greatest(Uptime, Clock))

Expired(w) ==
    \/ synced /\ Clock >= w.expiry
    \/ ~synced /\ OnUptimeBasis(w) /\ UptimeRemaining(w) = 0
    \/ ~synced /\ ~OnUptimeBasis(w) /\ UnsyncedEpochRemaining = 0

(* The first valid clock for a window of this boot stamped without one.    *)
RebaseDue(w) == synced /\ OnUptimeBasis(w) /\ w.here
RebasedNot(w) == w               \* mutant: it ends the moment SNTP lands
RebasedAnew(w) ==                \* mutant: its elapsed time not counted
    IF RebaseDue(w) THEN [w EXCEPT !.expiry = Clock + Duration, !.here = FALSE] ELSE w
Rebased(w) ==
    IF RebaseDue(w)
    THEN [w EXCEPT !.expiry = (Clock - (Uptime - w.since)) + Duration, !.here = FALSE]
    ELSE w

-----------------------------------------------------------------------------
(* The window's operations, each with a write of NVS that may fail.        *)

AsStored(w) == [active |-> w.active, expiry |-> w.expiry, start |-> w.start]
Saves(w) == stored' \in {stored, AsStored(w)}
Clears == stored' \in {stored, NotStored}

(* start_override_window(): a start, or a refresh of a window under way.   *)
WindowStart ==
    /\ window' = [active |-> TRUE, expiry |-> Clock + Duration, here |-> ~synced,
                  since |-> IF synced THEN 0 ELSE Uptime, start |-> real]
    /\ Saves(window')
    /\ UNCHANGED <<real, powered, booted, synced, tickDue>>

(* cancel_override_window(), and a full reset's clear.                     *)
WindowCancel ==
    /\ window.active
    /\ window' = NoWindow
    /\ Clears
    /\ UNCHANGED <<real, powered, booted, synced, tickDue>>

(* The tick's re-base and expiry.                                          *)
WindowTick ==
    /\ tickDue /\ tickDue' = FALSE
    /\ LET w == Rebased(window) IN
       \/ ~w.active /\ UNCHANGED <<window, stored>>
       \/ w.active /\ Expired(w) /\ window' = NoWindow /\ Clears
       \/ w.active /\ ~Expired(w) /\ window' = w
          /\ IF w = window THEN UNCHANGED stored ELSE Saves(w)
    /\ UNCHANGED <<real, powered, booted, synced>>

(* override_load_from_nvs(), at time t with the clock kept or not.         *)
Load(valid, now) ==
    IF ~stored.active \/ (valid /\ stored.expiry <= now)
    THEN /\ window' = NoWindow
         /\ IF stored.active THEN Clears ELSE UNCHANGED stored
    ELSE /\ window' = [active |-> TRUE, expiry |-> stored.expiry, here |-> FALSE,
                       since |-> 0, start |-> stored.start]
         /\ UNCHANGED stored

SoftwareReset ==
    /\ booted' = real /\ tickDue' = TRUE
    /\ Load(synced, Clock)
    /\ UNCHANGED <<real, powered, synced>>

(* A power cut of any length, but some.                                    *)
PowerCycle ==
    /\ \E t \in (real + 1)..MaxTime : real' = t /\ powered' = t /\ booted' = t
    /\ synced' = FALSE /\ tickDue' = TRUE
    /\ Load(FALSE, 0)

(* time() first gives a synced time.                                       *)
Synchronise ==
    /\ ~synced /\ synced' = TRUE
    /\ tickDue' = TRUE
    /\ UNCHANGED <<real, powered, booted, window, stored>>

Pass ==
    /\ real < MaxTime /\ real' = real + 1
    /\ tickDue' = TRUE
    /\ UNCHANGED <<powered, booted, synced, window, stored>>

WindowNext ==
    WindowStart \/ WindowCancel \/ WindowTick \/ SoftwareReset \/ PowerCycle \/ Synchronise \/ Pass

WindowSpec == WindowInit /\ [][WindowNext]_windowVars

-----------------------------------------------------------------------------
(* Properties.                                                             *)

(* A window that outlived a power-on, seen before a sync, counts from that *)
(* power-on: its elapsed time is unknown.  One that was itself stamped     *)
(* unsynced is held to what it says on the new clock, which may be later.  *)
Limit(w) ==
    IF w.expiry >= Valid
    THEN (IF synced THEN w.start ELSE powered) + Duration
    ELSE IF powered <= w.start THEN w.start + Duration ELSE powered + w.expiry

(* The auto-close is never blocked for longer than 24 h from the press, or *)
(* from the power-on that lost the clock, however often the hub restarts   *)
(* and whatever writes of NVS fail: after a tick, no window is past its    *)
(* limit, nor on the uptime basis at a synced clock.                       *)
NeverLonger ==
    ~tickDue /\ window.active =>
        /\ real < Limit(window)
        /\ synced => ~OnUptimeBasis(window)

(* The tick ends no window before its 24 h are over in real time, but one  *)
(* restored from an earlier boot that was stamped without a clock.         *)
NeverShorter ==
    [][WindowTick /\ window.active /\ ~window'.active =>
           \/ real >= window.start + Duration
           \/ synced /\ OnUptimeBasis(window) /\ ~window.here]_windowVars

WindowTypeOK ==
    /\ real \in 0..MaxTime /\ powered \in 0..booted /\ booted \in 0..real
    /\ synced \in BOOLEAN /\ tickDue \in BOOLEAN
    /\ window \in [active : BOOLEAN, expiry : Nat, here : BOOLEAN, since : Nat, start : Nat]
    /\ stored \in [active : BOOLEAN, expiry : Nat, start : Nat]

(* Each window's stamp tells its start, by the clock it was made with: the *)
(* inductive invariant the two properties above rest on.                   *)
StampTrue(w) ==
    w.active =>
        /\ w.start <= real
        /\ w.expiry >= Valid => w.expiry = Valid + w.start + Duration
        /\ w.expiry < Valid => w.expiry >= Duration
        /\ w.expiry < Valid /\ powered <= w.start => w.expiry = (w.start - powered) + Duration
        /\ w.expiry >= Valid /\ ~synced => w.start <= powered

StampsTrue ==
    /\ WindowTypeOK
    /\ StampTrue(window) /\ StampTrue(stored)
    /\ window.active /\ window.here =>
           window.expiry < Valid /\ booted <= window.start /\ window.since = window.start - booted
    /\ OnUptimeBasis(window) /\ ~window.here => window.since = 0 /\ window.start <= booted
    /\ ~window.active => window.here = FALSE
=============================================================================
