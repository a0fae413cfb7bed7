---------------------------- MODULE KeptReports ----------------------------
(***************************************************************************)
(* Leak reports that found g_mutex busy (main/rules_engine/rules_engine.c, *)
(* 1065-1254): the hub loop keeps up to KEPT_MAX of them, oldest first,    *)
(* and judges them on a later pass, after its tick.                        *)
(*                                                                         *)
(* The lock is held, for longer than the loop waits, by other tasks        *)
(* ("held").  A report that is judged tracks its source and latches; what  *)
(* a latch does to the valve is RulesEngine's.                             *)
(***************************************************************************)
EXTENDS Naturals, Sequences, FiniteSets

CONSTANTS
    Sensors,    \* the leak sensors
    Probe,      \* VALVE_SOURCE_ID, the valve's flood probe
    KeptMax,    \* KEPT_MAX
    MaxActive,  \* MAX_ACTIVE_LEAK_SOURCES
    MaxNoise    \* bound: lock holds and cloud events in a behaviour

Sources == Sensors \cup {Probe}

ASSUME KeptAssumption ==
    /\ Probe \notin Sensors
    /\ KeptMax \in Nat \ {0}
    /\ MaxActive \in Nat \ {0}
    /\ MaxNoise \in Nat

VARIABLES
    kept,      \* g_kept
    lastSet,   \* g_last_set, the hub loop's copy of the device set
    phase,     \* where the hub loop is in its pass
    tickRan,   \* g_tick_ran, and whether the retry has judged a report
    active,    \* g_active_leak_ids
    latched,   \* g_leak_incident_active
    clearing,  \* g_all_clear_since and its 10 s
    purge,     \* g_valve_purge_owed
    slot,      \* g_pending_telemetry holds an event
    members,   \* the device set
    change,    \* g_devset_changed
    swapped,   \* s_det_valve_mac names a valve that is provisioned no more
    held,      \* another task holds g_mutex
    noise,     \* outside events so far
    hist       \* history, read by the properties only

loopVars == <<kept, lastSet, phase, tickRan>>
lockVars == <<active, latched, clearing, purge, slot>>
outVars  == <<members, change, swapped, held, noise>>
vars     == <<loopVars, lockVars, outVars, hist>>

Reports == [src : Sources, wet : BOOLEAN]

TypeOK ==
    /\ kept \in Seq(Reports) /\ Len(kept) <= KeptMax
    /\ lastSet \subseteq Sources
    /\ phase \in {"top", "tick", "retry", "event"}
    /\ tickRan \in {"no", "ran", "judged"}
    /\ active \subseteq Sources
    /\ latched \in BOOLEAN
    /\ clearing \in {"off", "running", "due"}
    /\ purge \in BOOLEAN
    /\ slot \in BOOLEAN
    /\ members \subseteq Sources
    /\ change \in BOOLEAN
    /\ swapped \in BOOLEAN
    /\ held \in BOOLEAN
    /\ noise \in 0..MaxNoise
    /\ hist \in [wet : SUBSET Sources, lost : SUBSET Sources, owed : SUBSET Sources]

Init ==
    /\ kept = <<>>
    /\ lastSet = Sources
    /\ phase = "top"
    /\ tickRan = "no"
    /\ active = {}
    /\ latched = FALSE
    /\ clearing = "off"
    /\ purge = FALSE
    /\ slot = FALSE
    /\ members = Sources
    /\ change = FALSE
    /\ swapped = FALSE
    /\ held = FALSE
    /\ noise = 0
    /\ hist = [wet |-> {}, lost |-> {}, owed |-> {}]

-----------------------------------------------------------------------------
(* The list of kept reports.                                                *)

Newest(S)    == CHOOSE i \in S : \A j \in S : j <= i
Own(k, s)    == {i \in 1..Len(k) : k[i].src = s}
Drop(k, i)   == [j \in 1..(Len(k) - 1) |-> IF j < i THEN k[j] ELSE k[j + 1]]
Rep(s, w)    == [src |-> s, wet |-> w]
Same(k, s, w) == Own(k, s) # {} /\ k[Newest(Own(k, s))].wet = w
Pair(k, s)   == \E i, j \in Own(k, s) : i # j

(* The kept dry report that a wet one replaces in a full list: a sensor's   *)
(* newest, else the valve's.                                                *)
DryOnesAny(k, S) == {i \in 1..Len(k) : k[i].src \in S}     \* mutant: gives way though wet
DryOnes(k, S) == {i \in 1..Len(k) : ~k[i].wet /\ k[i].src \in S}
GivesWay(k)   == Newest(IF DryOnes(k, Sensors) # {} THEN DryOnes(k, Sensors)
                                                    ELSE DryOnes(k, {Probe}))

(* Mutants: the repeat of a report kept again; a full list that is not      *)
(* searched for a dry report.                                               *)
KeepRepeat(k, s, w)  == IF Len(k) < KeptMax THEN Append(k, Rep(s, w)) ELSE k
KeepNoRoom(k, s, w)  ==
    IF Same(k, s, w) \/ Pair(k, s) \/ Len(k) >= KeptMax THEN k ELSE Append(k, Rep(s, w))

(* keep_report(), for a source in g_last_set.                               *)
Keep(k, s, w) ==
    LET last == Newest(Own(k, s))
        prev == Newest(Own(k, s) \ {last})
    IN IF Same(k, s, w) THEN k
       ELSE IF Pair(k, s) THEN IF w THEN Drop(k, last) ELSE Append(Drop(k, prev), Rep(s, w))
       ELSE IF Len(k) < KeptMax THEN Append(k, Rep(s, w))
       ELSE IF w /\ Own(k, s) # {} THEN [k EXCEPT ![last] = Rep(s, w)]
       ELSE IF w /\ DryOnes(k, Sources) # {} THEN Append(Drop(k, GivesWay(k)), Rep(s, w))
       ELSE k

(* rules_engine_on_valve_replaced() takes the old valve's reports out: by   *)
(* keep_report() there are at most two.                                     *)
WithoutOne(k, s) == IF Own(k, s) = {} THEN k ELSE Drop(k, Newest(Own(k, s)))
WithoutProbe(k)  == WithoutOne(WithoutOne(k, Probe), Probe)

WetIn(k) == {s \in Sources : \E i \in 1..Len(k) : k[i].src = s /\ k[i].wet}

-----------------------------------------------------------------------------
(* A hold of the lock, as a record of what it guards.                       *)

Now == [active |-> active, latched |-> latched, clearing |-> clearing]

(* track_leak_source()                                                      *)
Tracked(e, s)   == [e EXCEPT !.active = IF Cardinality(@ \cup {s}) <= MaxActive THEN @ \cup {s}
                                                                             ELSE @,
                             !.clearing = IF s \in e.active THEN @ ELSE "off"]
Untracked(e, S) == [e EXCEPT !.active = @ \ S,
                             !.clearing = IF e.active \subseteq S /\ e.latched /\ @ = "off"
                                            THEN "running" ELSE @]
Released(e)     == [e EXCEPT !.latched = FALSE, !.clearing = "off"]

(* valve_replaced_locked(), run late when it is owed.                       *)
Replaced(e) == LET d == Untracked(e, {Probe})
               IN IF d.active = {} /\ d.latched THEN Released(d) ELSE d
Held == IF purge THEN Replaced(Now) ELSE Now

Commit(e) ==
    /\ active' = e.active /\ latched' = e.latched /\ clearing' = e.clearing
    /\ purge' = FALSE

(* evaluate_leak_locked(): a wet report counts only from a member, by the   *)
(* live set or, while provisioning is busy, by the copy.                    *)
Evaluate(s, w) ==
    \E set \in {members, lastSet} :
       \/ ~w /\ Commit(Untracked(Held, {s})) /\ UNCHANGED slot
       \/ w /\ s \notin set /\ Commit(Held) /\ UNCHANGED slot
       \/ /\ w /\ s \in set
          /\ Commit([Tracked(Held, s) EXCEPT !.latched = TRUE])
          /\ slot' \in {slot, TRUE}

-----------------------------------------------------------------------------
(* The hub loop.                                                            *)

Heard(s, w, k) == [hist EXCEPT
    !.wet  = IF w THEN @ \cup {s} ELSE @ \ {s},
    !.lost = IF w /\ s \notin WetIn(k) THEN @ \cup {s} ELSE @ \ {s},
    !.owed = IF w /\ s \in WetIn(k) THEN @ \cup {s} ELSE @]

(* A device-set change, at the top of the loop: the copy of the set and the *)
(* tracked sources follow it, unless the lock stays busy, which leaves them *)
(* to the next pass; then what an old valve has kept is dropped.            *)
DeviceSet ==
    /\ phase = "top"
    /\ phase' = "tick"
    /\ LET e == IF change /\ ~held THEN Untracked(Held, active \ members) ELSE Now
           replaced == change /\ swapped
       IN /\ lastSet' = IF change /\ ~held THEN members ELSE lastSet
          /\ change' = (change /\ held)
          /\ swapped' = FALSE
          /\ kept' = IF replaced THEN WithoutProbe(kept) ELSE kept
          /\ hist' = IF replaced THEN [hist EXCEPT !.owed = @ \ {Probe}] ELSE hist
          /\ IF held THEN /\ purge' = (purge \/ replaced)
                          /\ UNCHANGED <<active, latched, clearing>>
             ELSE IF replaced THEN Commit(Replaced(e))
             ELSE IF change THEN Commit(e)
             ELSE UNCHANGED <<active, latched, clearing, purge>>
    /\ UNCHANGED <<tickRan, slot, members, held, noise>>

(* Mutants: the auto-clear does not wait; the tick's event is left waiting. *)
TickHasty ==
    /\ phase = "tick" /\ ~held
    /\ phase' = "retry" /\ tickRan' = "ran" /\ slot' = FALSE
    /\ Commit(IF Held.latched /\ Held.clearing = "due" THEN Released(Held) ELSE Held)
    /\ UNCHANGED <<kept, lastSet, outVars, hist>>
TickNoTake ==
    /\ phase = "tick" /\ ~held
    /\ phase' = "retry" /\ tickRan' = "ran"
    /\ Commit(Held)
    /\ UNCHANGED <<slot, kept, lastSet, outVars, hist>>

(* rules_engine_tick() and the take of its event: an auto-clear that is due *)
(* waits for the kept reports.                                              *)
Tick ==
    /\ phase = "tick"
    /\ phase' = "retry"
    /\ \/ held /\ tickRan' = "no" /\ UNCHANGED lockVars
       \/ /\ ~held
          /\ tickRan' = "ran"
          /\ slot' = FALSE
          /\ Commit(IF Held.latched /\ Held.clearing = "due" /\ kept = <<>> THEN Released(Held)
                                                                            ELSE Held)
    /\ UNCHANGED <<kept, lastSet, outVars, hist>>

(* rules_engine_retry_kept_reports(), one report a step: only after a tick  *)
(* that took the lock, and only while no event waits to be published.       *)
Retry ==
    /\ phase = "retry" /\ tickRan # "no" /\ kept # <<>>
    /\ LET r == Head(kept) IN
       \/ /\ r.src \notin lastSet
          /\ UNCHANGED <<tickRan, lockVars>>
       \/ /\ r.src \in lastSet /\ ~held /\ ~slot
          /\ tickRan' = "judged"
          /\ Evaluate(r.src, r.wet)
    /\ kept' = Tail(kept)
    /\ hist' = IF Head(kept).wet
                 THEN [hist EXCEPT !.owed = @ \ {Head(kept).src},
                                   !.lost = IF Head(kept).src \in active' THEN @
                                            ELSE @ \cup {Head(kept).src}]
                 ELSE hist
    /\ UNCHANGED <<lastSet, phase, outVars>>

EndRetry ==
    /\ phase = "retry"
    /\ \/ tickRan = "no" \/ kept = <<>>
       \/ kept # <<>> /\ Head(kept).src \in lastSet /\ (held \/ slot)
    /\ phase' = "event"
    /\ tickRan' = "no"
    /\ slot' = (slot /\ (tickRan # "judged" \/ held))
    /\ UNCHANGED <<kept, lastSet, active, latched, clearing, purge, outVars, hist>>

(* A report from a source the loop does not know yet does not wait behind   *)
(* what is kept of the source, from before it was removed and added again:  *)
(* that is judged after it.                                                 *)
Overtakes(s) == s \notin lastSet /\ Own(kept, s) # {}

(* rules_engine_evaluate_leak(), on this pass's event.  The valve's probe   *)
(* is heard only over a link to the provisioned valve, which a new one has  *)
(* not had before the loop has applied its swap.                            *)
KeepAlways(s, w) == w \/ s = Probe
KeepFirstNever(s, w) == FALSE     \* mutant: a new report overtakes the kept ones
KeepFirst(s, w)  == /\ kept # <<>> /\ s \in lastSet
                    /\ Own(kept, s) # {} \/ (KeepAlways(s, w) /\ Len(kept) < KeptMax)

EvaluateLeak(s, w) ==
    /\ phase = "event"
    /\ phase' = "top"
    /\ s = Probe => Probe \in members /\ ~swapped
    /\ \/ /\ KeepFirst(s, w)
          /\ kept' = Keep(kept, s, w)
          /\ hist' = Heard(s, w, Keep(kept, s, w))
          /\ UNCHANGED lockVars
       \/ /\ ~KeepFirst(s, w) /\ ~held
          /\ Evaluate(s, w)
          /\ hist' = [Heard(s, w, <<>>) EXCEPT !.lost = IF w /\ (s \notin active' \/ Overtakes(s)) THEN @
                                                       ELSE @ \ {s}]
          /\ UNCHANGED kept
       \/ /\ ~KeepFirst(s, w) /\ held
          /\ kept' = IF s \in lastSet /\ (KeepAlways(s, w) \/ Own(kept, s) # {})
                       THEN Keep(kept, s, w) ELSE kept
          /\ hist' = Heard(s, w, IF s \in lastSet THEN kept' ELSE <<>>)
          /\ UNCHANGED lockVars
    /\ UNCHANGED <<lastSet, tickRan, outVars>>

NoEvent ==
    /\ phase = "event"
    /\ phase' = "top"
    /\ UNCHANGED <<kept, lastSet, tickRan, lockVars, outVars, hist>>

-----------------------------------------------------------------------------
(* Other tasks and time.                                                    *)

Noise == noise < MaxNoise /\ noise' = noise + 1

(* Another task takes g_mutex and keeps it; it always gives it back.        *)
Hold ==
    /\ ~held /\ held' = TRUE
    /\ Noise
    /\ UNCHANGED <<loopVars, lockVars, members, change, swapped, hist>>
Give ==
    /\ held /\ held' = FALSE
    /\ UNCHANGED <<loopVars, lockVars, members, change, swapped, noise, hist>>

(* A cloud command: LEAK_RESET, which is refused while a source is tracked, *)
(* or another that raises an event.                                         *)
CloudCommand ==
    /\ ~held
    /\ Noise
    /\ \/ Commit(IF Held.active = {} THEN Released(Held) ELSE Held) /\ slot' \in {slot, TRUE}
       \/ UNCHANGED <<active, latched, clearing, purge>> /\ slot' = TRUE
    /\ UNCHANGED <<loopVars, members, change, swapped, held, hist>>

ClearDue ==
    /\ clearing = "running" /\ clearing' = "due"
    /\ UNCHANGED <<loopVars, active, latched, purge, slot, outVars, hist>>

(* A device joins or leaves the set, or another valve takes the valve's     *)
(* place.  What it reports from then on is new.                             *)
DeviceChange(s) ==
    /\ Noise
    /\ change' = TRUE
    /\ \/ members' = IF s \in members THEN members \ {s} ELSE members \cup {s}
       \/ s = Probe /\ Probe \in members /\ UNCHANGED members
    /\ swapped' = (swapped \/ (s = Probe /\ Probe \in members))
    /\ hist' = [hist EXCEPT !.wet = @ \ {s}, !.lost = @ \ {s}]
    /\ UNCHANGED <<loopVars, lockVars, held>>

HubLoop ==
    \/ DeviceSet \/ Tick \/ Retry \/ EndRetry \/ NoEvent
    \/ \E s \in Sources, w \in BOOLEAN : EvaluateLeak(s, w)

Next ==
    \/ HubLoop
    \/ Hold \/ Give \/ CloudCommand \/ ClearDue
    \/ \E s \in Sources : DeviceChange(s)

Spec == Init /\ [][Next]_vars

(* The loop keeps passing, and whoever holds the lock gives it back.        *)
FairSpec == Spec /\ WF_vars(HubLoop) /\ WF_vars(Give)

-----------------------------------------------------------------------------
(* Properties.                                                              *)

(* A source has at most one wet and one dry report kept, in whatever order  *)
(* reports and retries come, so a flapping source cannot fill the list.     *)
KeptShape == \A i, j \in 1..Len(kept) : kept[i] = kept[j] => i = j

(* The state the engine will reach for a source once the list is replayed.  *)
EndsWet(s) == IF Own(kept, s) # {} THEN kept[Newest(Own(kept, s))].wet ELSE s \in active

(* A source whose newest report is wet ends wet in the engine, unless the   *)
(* report was lost; errors go this way only (a dry report may be lost).     *)
EndsFailSafe == \A s \in members \cap lastSet : s \in hist.wet \ hist.lost => EndsWet(s)

(* A wet report that was kept is still kept until it is judged, whatever    *)
(* its source or another has reported since: it latches.                    *)
WetIsKept == hist.owed \subseteq WetIn(kept)

(* A wet report of a provisioned source is lost only to a list full of wet  *)
(* reports of KEPT_MAX other sources, when MAX_ACTIVE_LEAK_SOURCES others   *)
(* are tracked, or before the loop knows the source.                        *)
WetLostOnlyWhenFull ==
    [][\A s \in hist'.lost \ hist.lost :
         \/ s \notin lastSet \cap members
         \/ s \notin WetIn(kept) /\ Cardinality(WetIn(kept)) = KeptMax
         \/ s \notin active /\ Cardinality(active') = MaxActive]_vars

AutoClear == phase = "tick" /\ phase' = "retry" /\ latched /\ ~latched' /\ ~purge

(* E1: the auto-clear releases the latch only when no source it was told is *)
(* wet still is.                                                            *)
ClearIsDry ==
    [][AutoClear =>
         \A s \in members \cap lastSet : s \in hist.wet => s \in hist.lost]_vars

(* Every kept wet report is judged in the end, although each pass may keep  *)
(* new ones behind it and stops at the first that raises an event.          *)
WetIsJudged == \A s \in Sources : s \in hist.owed ~> s \notin hist.owed
=============================================================================
