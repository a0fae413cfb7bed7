--------------------------- MODULE OfflineBuffer ----------------------------
(***************************************************************************)
(* The offline buffer (main/offline_buffer/offline_buffer.c): a ring of    *)
(* slots in NVS, its head, tail and count in RAM and, behind them, in NVS. *)
(*                                                                         *)
(* The buffer's lock serialises store, drain, stamp and clear, so one job  *)
(* is under way at a time; a restart, and the erase of a decommission's    *)
(* fallback, which takes no lock, fall between any two of its writes.      *)
(*                                                                         *)
(* An event is its number, in the order stored, and what its "ts" is worth:*)
(* "real" is a synced epoch; "owed" an unsynced one whose uptime_s is on   *)
(* this boot's timer; "gone" the same bytes after a restart.  The code     *)
(* cannot tell the last two apart but by the slot's bit in the mask.       *)
(* "wrong" is what stamping a "gone" event would give.                     *)
(***************************************************************************)
EXTENDS Naturals, FiniteSets

CONSTANTS
    Max,         \* slots in the ring (OFFLINE_BUF_MAX_ENTRIES)
    MaxEvents,   \* bound: events stored in a behaviour
    TornWrites   \* a restart may fall between the writes of one update

ASSUME BufferAssumption ==
    /\ Max \in Nat \ {0}
    /\ MaxEvents \in Nat
    /\ TornWrites \in BOOLEAN

VARIABLES
    slot,     \* NVS: the entry of each slot
    meta,     \* NVS: head, tail and count
    ring,     \* RAM: s_head, s_tail, s_count
    mask,     \* RAM: s_presync_mask, the slots stored unsynced this boot
    job,      \* what the holder of s_lock does next
    clock,    \* time() is synced
    ending,   \* a decommission's fallback: "no", "erased" (once), "again"
    next,     \* the number of the next event
    sent      \* the entry last handed to the session, as sent

vars == <<slot, meta, ring, mask, job, clock, ending, next, sent>>

Slots == 0..(Max - 1)
Times == {"real", "owed", "gone", "wrong"}
Entry == [id : 1..MaxEvents, time : Times]
Ring == [head : Slots, tail : Slots, count : 0..Max]
Missing == [id |-> 0, time |-> "none"]
Empty == [head |-> 0, tail |-> 0, count |-> 0]

(* "store" holds the lock with nothing written yet; "head", "tail" and     *)
(* "count" name the metadata write that comes next; "gone" has published   *)
(* the tail's entry and not erased it.                                     *)
Jobs == {"none", "store", "head", "tail", "count", "drain", "gone"}

Advance(i) == (i + 1) % Max

Unsynced(e) == e.time \in {"owed", "gone"}

(* ob_stamp(): now - (uptime now - the event's uptime_s).                  *)
Stamped(e) ==
    [e EXCEPT !.time = CASE e.time = "owed" -> "real" [] e.time = "gone" -> "wrong" [] OTHER -> @]

(* s_lock can be taken.  On cloud_tx a call may be past its check of the   *)
(* freeze, and a cmd_ack's store (offline_buffer_try_store()) checks none; *)
(* the second erase is followed by the restart at once.                    *)
Free == job = "none" /\ ending # "again"

Init ==
    /\ slot = [s \in Slots |-> Missing]
    /\ meta = Empty
    /\ ring = Empty
    /\ mask = {}
    /\ job = "none"
    /\ clock \in BOOLEAN
    /\ ending = "no"
    /\ next = 1
    /\ sent = [id |-> 0, time |-> "real"]

-----------------------------------------------------------------------------
(* Storing.  The blob goes in first, then RAM moves on, then the metadata. *)

StoreBegin ==
    /\ Free /\ next <= MaxEvents
    /\ job' = "store"
    /\ UNCHANGED <<slot, meta, ring, mask, clock, ending, next, sent>>

(* RAM after a store: a full ring's tail moves on too.                     *)
StoredOver(r) ==     \* mutant: a full ring's tail stays
    [r EXCEPT !.head = Advance(@), !.count = IF @ = Max THEN @ ELSE @ + 1]
Stored(r) ==
    IF r.count = Max THEN [r EXCEPT !.head = Advance(@), !.tail = Advance(@)]
                     ELSE [r EXCEPT !.head = Advance(@), !.count = @ + 1]

(* An event built before the sync may be stored after it.                  *)
StoreBlob(time) ==
    /\ job = "store"
    /\ time = "real" => clock
    /\ slot' = [slot EXCEPT ![ring.head] = [id |-> next, time |-> time]]
    /\ mask' = IF time = "owed" THEN mask \cup {ring.head} ELSE mask \ {ring.head}
    /\ ring' = Stored(ring)
    /\ next' = next + 1
    /\ job' = "head"
    /\ UNCHANGED <<meta, clock, ending, sent>>

StoreFails ==
    /\ job = "store"
    /\ job' = "none"
    /\ UNCHANGED <<slot, meta, ring, mask, clock, ending, next, sent>>

(* nvs_set_u8() of one of the three, each durable by itself.               *)
WriteMeta(key, after) ==
    /\ job = key
    /\ meta' = [meta EXCEPT ![key] = ring[key]]
    /\ job' = after
    /\ UNCHANGED <<slot, ring, mask, clock, ending, next, sent>>

-----------------------------------------------------------------------------
(* Draining.  Slots are erased as they go; the metadata follows at the end.*)

AtTail == slot[ring.tail]

DrainBegin ==
    /\ Free /\ ring.count > 0
    /\ job' = "drain"
    /\ UNCHANGED <<slot, meta, ring, mask, clock, ending, next, sent>>

DrainEnds ==
    /\ job' = "head"
    /\ UNCHANGED <<slot, meta, ring, mask, clock, ending, next>>

TailTakenOut ==
    /\ slot' = [slot EXCEPT ![ring.tail] = Missing]
    /\ mask' = mask \ {ring.tail}
    /\ ring' = [ring EXCEPT !.tail = Advance(ring.tail), !.count = ring.count - 1]
    /\ job' = "drain"
    /\ UNCHANGED <<meta, clock, ending, next, sent>>

(* An unsynced entry without its bit is an earlier boot's: its time can    *)
(* never be known.                                                         *)
NeverUndated == FALSE     \* mutant: the bit not looked at
Undated == Unsynced(AtTail) /\ ring.tail \notin mask

DrainSkip ==
    /\ job = "drain" /\ ring.count > 0
    /\ AtTail = Missing \/ Undated
    /\ TailTakenOut

DrainHold ==
    /\ job = "drain" /\ ring.count > 0
    /\ Unsynced(AtTail) /\ ~Undated /\ ~clock
    /\ DrainEnds /\ UNCHANGED sent

(* The publish callback: taken, by a session still up after it; or not, and*)
(* perhaps delivered all the same.  After the freeze nothing is published. *)
OutcomesTaken ==     \* mutant: erased though the session had ended before it
    {<<Stamped(AtTail), "gone">>, <<sent, "gone">>, <<sent, "head">>}
Outcomes ==
    IF ending = "no" THEN {<<Stamped(AtTail), "gone">>, <<Stamped(AtTail), "head">>, <<sent, "head">>}
                     ELSE {<<sent, "head">>}

DrainPublish ==
    /\ job = "drain" /\ ring.count > 0
    /\ AtTail # Missing /\ ~Undated
    /\ Unsynced(AtTail) => clock
    /\ \E o \in Outcomes : sent' = o[1] /\ job' = o[2]
    /\ UNCHANGED <<slot, meta, ring, mask, clock, ending, next>>

DrainErase == job = "gone" /\ TailTakenOut

DrainDone == job = "drain" /\ ring.count = 0 /\ DrainEnds /\ UNCHANGED sent

-----------------------------------------------------------------------------
(* The clock, the clears and the restart.                                  *)

ClockSync ==
    /\ ~clock /\ clock' = TRUE
    /\ UNCHANGED <<slot, meta, ring, mask, job, ending, next, sent>>

(* Entries of this boot get their time in NVS, all but those too long for  *)
(* it: these wait for the drain.                                           *)
Stamp ==
    /\ Free /\ clock
    /\ \E S \in SUBSET {s \in mask : slot[s] # Missing} :
          /\ slot' = [s \in Slots |-> IF s \in S THEN Stamped(slot[s]) ELSE slot[s]]
          /\ mask' = mask \ S
    /\ UNCHANGED <<meta, ring, job, clock, ending, next, sent>>

(* The slots' erasures are one step, the metadata's three as in a store.   *)
Clear ==
    /\ Free
    /\ slot' = [s \in Slots |-> Missing]
    /\ ring' = Empty
    /\ mask' = {}
    /\ job' = "head"
    /\ UNCHANGED <<meta, clock, ending, next, sent>>

(* Between two updates of the NVS, or anywhere if they may be torn.        *)
Settled == job \in {"none", "drain", "gone"} \/ TornWrites

(* The fallback erases the namespace, waits 3 s - a store under way ends - *)
(* and erases it again; the restart follows.                               *)
EraseForRestart ==
    /\ \/ ending = "no" /\ ending' = "erased"
       \/ ending = "erased" /\ Settled /\ ending' = "again"
    /\ slot' = [s \in Slots |-> Missing]
    /\ meta' = Empty
    /\ UNCHANGED <<ring, mask, job, clock, next, sent>>

(* esp_restart(), a crash or a power cut, then offline_buffer_init().  What*)
(* it loads is in range, so its check resets nothing.                      *)
Restart ==
    /\ Settled
    /\ ending # "erased" \/ TornWrites
    /\ ring' = meta
    /\ mask' = {}
    /\ job' = "none"
    /\ ending' = "no"
    /\ clock' \in BOOLEAN
    /\ slot' = [s \in Slots |->
                  IF slot[s].time = "owed" THEN [slot[s] EXCEPT !.time = "gone"] ELSE slot[s]]
    /\ UNCHANGED <<meta, next, sent>>

Next ==
    \/ StoreBegin \/ StoreFails
    \/ \E time \in {"real", "owed"} : StoreBlob(time)
    \/ WriteMeta("head", "tail") \/ WriteMeta("tail", "count") \/ WriteMeta("count", "none")
    \/ DrainBegin \/ DrainSkip \/ DrainHold \/ DrainPublish \/ DrainErase \/ DrainDone
    \/ ClockSync \/ Stamp \/ Clear \/ EraseForRestart \/ Restart

BufSpec == Init /\ [][Next]_vars

-----------------------------------------------------------------------------
(* Properties.                                                             *)

(* Type correctness: the indices stay in the ring.                         *)
BufTypeOK ==
    /\ slot \in [Slots -> Entry \cup {Missing}]
    /\ meta \in Ring
    /\ ring \in Ring
    /\ mask \in SUBSET Slots
    /\ job \in Jobs
    /\ clock \in BOOLEAN
    /\ ending \in {"no", "erased", "again"}
    /\ next \in 1..(MaxEvents + 1)
    /\ sent \in [id : 0..MaxEvents, time : {"real", "wrong"}]

(* No event is given, or sent with, a time worked out from another boot's  *)
(* uptime, and none of this boot's is taken for another's: the bits kept in*)
(* RAM are right for every slot.                                           *)
DatesTrue ==
    /\ \A s \in Slots : slot[s].time # "wrong"
    /\ \A s \in Slots : slot[s].time = "owed" => s \in mask
    /\ \A s \in mask : slot[s] # Missing => slot[s].time = "owed"
    /\ sent.time # "wrong"

(* Where a slot is, counted from the tail.                                 *)
Dist(t, s) == IF t <= s THEN s - t ELSE s + Max - t
Plus(t, n) == IF t + n < Max THEN t + n ELSE t + n - Max

InRing(r, s) == Dist(r.tail, s) < r.count

(* Head, tail and count agree; every entry is between them, in the order   *)
(* stored; a missing slot has only missing ones before it.                 *)
Whole(sl, r, n) ==
    /\ r.head = Plus(r.tail, r.count)
    /\ \A s \in Slots : sl[s] # Missing => InRing(r, s) /\ sl[s].id < n
    /\ \A s, u \in Slots :
          sl[s] # Missing /\ InRing(r, u) /\ Dist(r.tail, s) < Dist(r.tail, u)
              => sl[u] # Missing /\ sl[s].id < sl[u].id

(* m is r before a drain took slots out at the tail.                       *)
Behind(m, r) ==
    /\ m.head = r.head
    /\ r.count <= m.count
    /\ r.tail = Plus(m.tail, m.count - r.count)

(* The ring is whole in RAM, and what NVS would load after a restart is    *)
(* the same ring, but for slots a drain has erased; once the fallback has  *)
(* erased the buffer a second time, nothing is left of it.                 *)
RingWhole ==
    /\ Whole(slot, ring, next)
    /\ ending = "no" /\ job \in {"none", "store"} => meta = ring
    /\ ending = "no" /\ job \in {"drain", "gone"} => Behind(meta, ring)
    /\ ending = "again" => \A s \in Slots : slot[s] = Missing

(* The buffer implements the log: every step of the ring is one of the     *)
(* log's or changes nothing of it.                                         *)
Kept == {slot[s] : s \in {s \in Slots : slot[s] # Missing}}

Log == INSTANCE EventLog WITH kept <- Kept, ending <- ending # "no"

ImplementsLog == Log!LogSpec

(* Oldest first (offline_buffer.h, "Publishes FIFO (oldest first)"): what  *)
(* the drain hands over is older than all it still holds.                  *)
OldestFirst ==
    [][sent' # sent => \A s \in Slots : slot[s] # Missing => sent'.id <= slot[s].id]_vars
=============================================================================
