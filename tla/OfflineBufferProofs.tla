------------------------ MODULE OfflineBufferProofs -------------------------
(***************************************************************************)
(* What holds of the offline buffer for every size of the ring and every   *)
(* number of events.                                                       *)
(*                                                                         *)
(* The types and the dates hold wherever a restart falls.  The ring stays  *)
(* whole, and so implements the log, if none falls inside an update.       *)
(***************************************************************************)
EXTENDS OfflineBuffer, Integers, FiniteSetTheorems, TLAPS

USE BufferAssumption

-----------------------------------------------------------------------------
(* Positions in the ring.                                                   *)

(* The next index is the one after, or the first after the last.            *)
LEMMA AdvanceIs ==
    ASSUME NEW i \in Slots
    PROVE  /\ Advance(i) \in Slots
           /\ Advance(i) = IF i + 1 < Max THEN i + 1 ELSE 0
<1>1. CASE i + 1 < Max
  BY <1>1 DEF Advance, Slots
<1>2. CASE i + 1 = Max
  BY <1>2 DEF Advance, Slots
<1> QED
  BY <1>1, <1>2 DEF Slots

(* n places on from t is at distance n, but for the whole way round.        *)
LEMMA DistPlus ==
    ASSUME NEW t \in Slots, NEW n \in 0..Max, n # Max
    PROVE  Dist(t, Plus(t, n)) = n
<1>1. CASE t + n < Max
  BY <1>1 DEF Dist, Plus, Slots
<1>2. CASE ~(t + n < Max)
  <2>1. Plus(t, n) = t + n - Max /\ ~(t <= t + n - Max)
    BY <1>2 DEF Plus, Slots
  <2> QED
    BY <2>1 DEF Dist, Slots
<1> QED
  BY <1>1, <1>2

(* RAM after a store.                                                       *)
LEMMA StoredIs ==
    ASSUME NEW r \in Ring
    PROVE  /\ Stored(r) \in Ring
           /\ Stored(r).head = Advance(r.head)
           /\ Stored(r).tail = IF r.count = Max THEN Advance(r.tail) ELSE r.tail
           /\ Stored(r).count = IF r.count = Max THEN Max ELSE r.count + 1
<1>1. r.head \in Slots /\ r.tail \in Slots /\ r.count \in 0..Max
  BY DEF Ring
<1>2. Advance(r.head) \in Slots /\ Advance(r.tail) \in Slots
  BY <1>1, AdvanceIs
<1>3. CASE r.count = Max
  BY <1>1, <1>2, <1>3 DEF Stored, Ring
<1>4. CASE r.count # Max
  <2>1. r.count + 1 \in 0..Max
    BY <1>1, <1>4
  <2> QED
    BY <1>1, <1>2, <1>4, <2>1 DEF Stored, Ring
<1> QED
  BY <1>3, <1>4

(* RAM after an entry is taken out at the tail.                             *)
TakenOut(r) == [r EXCEPT !.tail = Advance(r.tail), !.count = r.count - 1]

LEMMA TakenOutIs ==
    ASSUME NEW r \in Ring, r.count > 0
    PROVE  /\ TakenOut(r) \in Ring
           /\ TakenOut(r).head = r.head
           /\ TakenOut(r).tail = Advance(r.tail)
           /\ TakenOut(r).count = r.count - 1
<1>1. r.head \in Slots /\ r.tail \in Slots /\ r.count - 1 \in 0..Max
  BY DEF Ring
<1>2. Advance(r.tail) \in Slots
  BY <1>1, AdvanceIs
<1> QED
  BY <1>1, <1>2 DEF TakenOut, Ring

-----------------------------------------------------------------------------
(* Types.                                                                   *)

(* The type invariant, with what each job has found.                        *)
TypeInv ==
    /\ BufTypeOK
    /\ job = "store" => next <= MaxEvents
    /\ job = "gone" => ring.count > 0

LEMMA StampedIs ==
    ASSUME NEW e \in Entry
    PROVE  /\ Stamped(e) \in Entry
           /\ Stamped(e).id = e.id
           /\ Stamped(e).time = IF e.time = "owed" THEN "real"
                                ELSE IF e.time = "gone" THEN "wrong" ELSE e.time
           /\ Stamped(e).time \in {"real", "wrong"}
BY DEF Stamped, Entry, Times

LEMMA TypeInit == Init => TypeInv
BY DEF Init, TypeInv, BufTypeOK, Slots, Ring, Empty, Jobs, Missing

LEMMA TypeStep == TypeInv /\ [Next]_vars => TypeInv'
<1> SUFFICES ASSUME TypeInv, [Next]_vars
             PROVE  TypeInv'
  OBVIOUS
<1> USE DEF TypeInv
<1>r. ring.tail \in Slots /\ ring.head \in Slots /\ ring.count \in 0..Max /\ 0 \in Slots
  BY DEF BufTypeOK, Ring, Slots
<1>a. Advance(ring.tail) \in Slots /\ Advance(ring.head) \in Slots
  BY <1>r, AdvanceIs
<1>1. CASE StoreBegin
  BY <1>1 DEF StoreBegin, Free, BufTypeOK, Jobs
<1>2. CASE StoreFails
  BY <1>2 DEF StoreFails, BufTypeOK, Jobs
<1>3. ASSUME NEW time \in {"real", "owed"}, StoreBlob(time) PROVE TypeInv'
  <2>1. ring' \in Ring
    BY <1>3, StoredIs DEF StoreBlob, BufTypeOK
  <2>2. slot' \in [Slots -> Entry \cup {Missing}]
    <3>1. [id |-> next, time |-> time] \in Entry
      BY <1>3 DEF StoreBlob, BufTypeOK, Entry, Times
    <3> QED
      BY <1>3, <3>1, <1>r DEF StoreBlob, BufTypeOK
  <2>3. mask' \in SUBSET Slots
    BY <1>3, <1>r DEF StoreBlob, BufTypeOK
  <2> QED
    BY <1>3, <2>1, <2>2, <2>3 DEF StoreBlob, BufTypeOK, Jobs
<1>4. CASE WriteMeta("head", "tail") \/ WriteMeta("tail", "count") \/ WriteMeta("count", "none")
  <2>1. meta' \in Ring
    BY <1>4, <1>r DEF WriteMeta, BufTypeOK, Ring
  <2> QED
    BY <1>4, <2>1 DEF WriteMeta, BufTypeOK, Jobs
<1>5. CASE DrainBegin
  BY <1>5 DEF DrainBegin, Free, BufTypeOK, Jobs
<1>6. CASE DrainSkip \/ DrainErase
  <2>1. TailTakenOut /\ ring.count > 0
    BY <1>6 DEF DrainSkip, DrainErase
  <2>2. ring' \in Ring
    BY <2>1, TakenOutIs DEF TailTakenOut, TakenOut, BufTypeOK
  <2>3. slot' \in [Slots -> Entry \cup {Missing}]
    BY <2>1, <1>r DEF TailTakenOut, BufTypeOK
  <2> QED
    BY <2>1, <2>2, <2>3 DEF TailTakenOut, BufTypeOK, Jobs
<1>7. CASE DrainHold \/ DrainDone
  <2>1. DrainEnds /\ UNCHANGED sent
    BY <1>7 DEF DrainHold, DrainDone
  <2> QED
    BY <2>1 DEF DrainEnds, BufTypeOK, Jobs
<1>8. CASE DrainPublish
  <2>1. AtTail \in Entry
    BY <1>8, <1>r DEF DrainPublish, AtTail, BufTypeOK
  <2>2. Stamped(AtTail) \in [id : 0..MaxEvents, time : {"real", "wrong"}]
    BY <2>1, StampedIs DEF Entry
  <2> QED
    BY <1>8, <2>2 DEF DrainPublish, Outcomes, BufTypeOK, Jobs
<1>9. CASE ClockSync
  BY <1>9 DEF ClockSync, BufTypeOK
<1>10. CASE Stamp
  <2>1. PICK S \in SUBSET {s \in mask : slot[s] # Missing} :
          /\ slot' = [s \in Slots |-> IF s \in S THEN Stamped(slot[s]) ELSE slot[s]]
          /\ mask' = mask \ S
    BY <1>10 DEF Stamp
  <2>2. \A s \in S : slot[s] \in Entry
    BY DEF BufTypeOK
  <2>3. slot' \in [Slots -> Entry \cup {Missing}]
    BY <2>1, <2>2, StampedIs DEF BufTypeOK
  <2> QED
    BY <1>10, <2>1, <2>3 DEF Stamp, BufTypeOK
<1>11. CASE Clear
  BY <1>11, <1>r DEF Clear, BufTypeOK, Ring, Empty, Jobs
<1>12. CASE EraseForRestart
  BY <1>12, <1>r DEF EraseForRestart, BufTypeOK, Ring, Empty
<1>13. CASE Restart
  <2>1. ASSUME NEW s \in Slots
        PROVE  (IF slot[s].time = "owed" THEN [slot[s] EXCEPT !.time = "gone"] ELSE slot[s])
                  \in Entry \cup {Missing}
    <3>1. slot[s] \in Entry \cup {Missing}
      BY DEF BufTypeOK
    <3> QED
      BY <3>1 DEF Entry, Times, Missing
  <2> QED
    BY <1>13, <2>1 DEF Restart, BufTypeOK, Jobs
<1>14. CASE UNCHANGED vars
  BY <1>14 DEF vars, BufTypeOK
<1> QED
  BY <1>1, <1>2, <1>3, <1>4, <1>5, <1>6, <1>7, <1>8, <1>9, <1>10, <1>11, <1>12, <1>13, <1>14 DEF Next

(* Type correctness of the offline buffer: the indices stay in the ring.    *)
THEOREM BufTypeCorrect == BufSpec => []BufTypeOK
<1>1. TypeInv => BufTypeOK
  BY DEF TypeInv
<1> QED
  BY TypeInit, TypeStep, <1>1, PTL DEF BufSpec

-----------------------------------------------------------------------------
(* Dates.                                                                   *)

DatesInv == TypeInv /\ DatesTrue

LEMMA DatesStep == DatesInv /\ [Next]_vars => DatesInv'
<1> SUFFICES ASSUME DatesInv, [Next]_vars
             PROVE  DatesTrue'
  BY TypeStep DEF DatesInv
<1> USE DEF DatesInv
<1>t. BufTypeOK
  BY DEF TypeInv
<1>r. ring.tail \in Slots /\ ring.head \in Slots
  BY <1>t DEF BufTypeOK, Ring
<1>1. ASSUME NEW time \in {"real", "owed"}, StoreBlob(time) PROVE DatesTrue'
  BY <1>1, <1>t, <1>r DEF StoreBlob, DatesTrue, BufTypeOK
<1>2. CASE DrainSkip \/ DrainErase
  <2>1. TailTakenOut
    BY <1>2 DEF DrainSkip, DrainErase
  <2> QED
    BY <2>1, <1>t, <1>r DEF TailTakenOut, DatesTrue, BufTypeOK, Missing
<1>3. CASE DrainPublish
  <2>1. AtTail \in Entry
    BY <1>3, <1>t, <1>r DEF DrainPublish, AtTail, BufTypeOK
  <2>2. AtTail.time # "gone" /\ AtTail.time # "wrong"
    BY <1>3, <1>r DEF DrainPublish, Undated, Unsynced, AtTail, DatesTrue
  <2>3. Stamped(AtTail).time # "wrong"
    BY <2>1, <2>2, StampedIs
  <2> QED
    BY <1>3, <2>3 DEF DrainPublish, Outcomes, DatesTrue
<1>4. CASE Stamp
  <2>1. PICK S \in SUBSET {s \in mask : slot[s] # Missing} :
          /\ slot' = [s \in Slots |-> IF s \in S THEN Stamped(slot[s]) ELSE slot[s]]
          /\ mask' = mask \ S
    BY <1>4 DEF Stamp
  <2>2. ASSUME NEW s \in S PROVE Stamped(slot[s]).time = "real"
    BY <1>t, StampedIs DEF BufTypeOK, DatesTrue
  <2> QED
    BY <1>4, <1>t, <2>1, <2>2 DEF Stamp, DatesTrue, BufTypeOK
<1>5. CASE Clear \/ EraseForRestart
  BY <1>5, <1>t DEF Clear, EraseForRestart, DatesTrue, Missing, BufTypeOK
<1>6. CASE Restart
  <2>1. ASSUME NEW s \in Slots PROVE slot'[s].time # "wrong"
    <3>1. slot[s] \in Entry \cup {Missing} /\ slot[s].time # "wrong"
      BY <1>t DEF BufTypeOK, DatesTrue
    <3> QED
      BY <1>6, <3>1 DEF Restart, Entry, Missing
  <2> QED
    BY <1>6, <2>1 DEF Restart, DatesTrue
<1>7. ASSUME UNCHANGED <<slot, mask, sent>> PROVE DatesTrue'
  BY <1>7 DEF DatesTrue
<1> QED
  <2>1. CASE \/ StoreBegin \/ StoreFails \/ ClockSync \/ DrainBegin \/ DrainHold \/ DrainDone
             \/ WriteMeta("head", "tail") \/ WriteMeta("tail", "count")
             \/ WriteMeta("count", "none") \/ UNCHANGED vars
    BY <2>1, <1>7 DEF StoreBegin, StoreFails, ClockSync, DrainBegin, DrainHold, DrainDone,
                      DrainEnds, WriteMeta, vars
  <2> QED
    BY <1>1, <1>2, <1>3, <1>4, <1>5, <1>6, <2>1 DEF Next

(* No event is given, or sent with, a time worked out from another boot's   *)
(* uptime, wherever a restart falls: the bits in s_presync_mask prove this  *)
(* boot stored them.                                                        *)
THEOREM DatesAreTrue == BufSpec => []DatesTrue
<1>1. Init => DatesInv
  BY TypeInit DEF DatesInv, Init, DatesTrue, Missing
<1>2. DatesInv => DatesTrue
  BY DEF DatesInv
<1> QED
  BY <1>1, <1>2, DatesStep, PTL DEF BufSpec

-----------------------------------------------------------------------------
(* The ring.  Positions are told by their distance from the tail; each      *)
(* update moves the distances by one or not at all.                         *)

Slotted == [Slots -> Entry \cup {Missing}]

(* A store goes in behind all that is there, over the tail of a full ring.  *)
LEMMA StoreWhole ==
    ASSUME NEW r \in Ring, NEW sl \in Slotted, NEW n \in Nat, NEW e \in Entry,
           e.id = n, Whole(sl, r, n)
    PROVE  Whole([sl EXCEPT ![r.head] = e], Stored(r), n + 1)
<1> DEFINE q == Stored(r)
           sm == [sl EXCEPT ![r.head] = e]
<1>r. r.head \in Slots /\ r.tail \in Slots /\ r.count \in 0..Max
  BY DEF Ring
<1>q. /\ q.head = IF r.head + 1 < Max THEN r.head + 1 ELSE 0
      /\ q.tail = IF r.count = Max THEN (IF r.tail + 1 < Max THEN r.tail + 1 ELSE 0) ELSE r.tail
      /\ q.count = IF r.count = Max THEN Max ELSE r.count + 1
  BY <1>r, StoredIs, AdvanceIs
<1>h. r.head = Plus(r.tail, r.count)
  BY DEF Whole
<1>s. /\ sm[r.head] = e
      /\ \A s \in Slots : s # r.head => sm[s] = sl[s]
  BY <1>r DEF Slotted
<1>n. ASSUME NEW s \in Slots, sl[s] # Missing PROVE sl[s].id \in Nat
  <2>1. sl[s] \in Entry
    BY <1>n DEF Slotted
  <2> QED
    BY <2>1 DEF Entry
<1> HIDE DEF q, sm
<1>1. q.head = Plus(q.tail, q.count)
  BY <1>r, <1>q, <1>h DEF Plus, Slots
<1>2. Dist(q.tail, r.head) = q.count - 1
  <2>1. CASE r.count = Max
    <3>1. r.head = r.tail
      BY <1>r, <1>h, <2>1 DEF Plus, Slots
    <3> QED
      BY <1>r, <1>q, <2>1, <3>1 DEF Dist, Slots
  <2>2. CASE r.count # Max
    <3>1. q.tail = r.tail /\ q.count - 1 = r.count
      BY <1>r, <1>q, <2>2
    <3>2. Dist(r.tail, r.head) = r.count
      BY <1>r, <1>h, <2>2, DistPlus
    <3> QED
      BY <3>1, <3>2
  <2> QED
    BY <2>1, <2>2
<1>3. ASSUME NEW s \in Slots, s # r.head
      PROVE  /\ Dist(q.tail, s) = IF r.count = Max THEN Dist(r.tail, s) - 1 ELSE Dist(r.tail, s)
             /\ Dist(r.tail, s) \in Nat
             /\ InRing(q, s) => Dist(q.tail, s) < q.count - 1 /\ InRing(r, s)
             /\ InRing(r, s) => InRing(q, s)
  <2>1. CASE r.count = Max
    BY <1>r, <1>q, <1>h, <1>3, <2>1 DEF Plus, Dist, Slots, InRing
  <2>2. CASE r.count # Max
    BY <1>r, <1>q, <1>h, <1>3, <2>2 DEF Plus, Dist, Slots, InRing
  <2> QED
    BY <2>1, <2>2
<1>4. ASSUME NEW s \in Slots, sm[s] # Missing
      PROVE  InRing(q, s) /\ sm[s].id < n + 1
  <2>1. CASE s = r.head
    BY <1>s, <1>2, <1>q, <1>r, <2>1 DEF InRing
  <2>2. CASE s # r.head
    BY <1>s, <1>3, <1>4, <1>n, <2>2 DEF Whole
  <2> QED
    BY <2>1, <2>2
<1>5. ASSUME NEW s \in Slots, NEW u \in Slots, sm[s] # Missing, InRing(q, u),
             Dist(q.tail, s) < Dist(q.tail, u)
      PROVE  sm[u] # Missing /\ sm[s].id < sm[u].id
  <2>1. CASE s = r.head
    <3>1. u # r.head
      BY <1>5, <1>2, <2>1, <1>q, <1>r
    <3> QED
      BY <1>5, <1>2, <1>3, <2>1, <3>1, <1>q, <1>r DEF Dist, Slots
  <2>2. CASE s # r.head /\ u = r.head
    <3>1. sl[s] # Missing /\ sl[s].id < n
      BY <1>5, <1>s, <2>2 DEF Whole
    <3> QED
      BY <3>1, <1>s, <2>2 DEF Entry, Missing
  <2>3. CASE s # r.head /\ u # r.head
    <3>1. sl[s] # Missing /\ InRing(r, u)
      BY <1>5, <1>s, <1>3, <2>3
    <3>2. Dist(r.tail, s) < Dist(r.tail, u)
      BY <1>5, <1>3, <2>3
    <3> QED
      BY <3>1, <3>2, <1>s, <2>3 DEF Whole
  <2> QED
    BY <2>1, <2>2, <2>3
<1> QED
  BY <1>1, <1>4, <1>5 DEF Whole, q, sm

(* Taking out the tail's entry leaves the others where they were.           *)
LEMMA TakeWhole ==
    ASSUME NEW r \in Ring, r.count > 0, NEW sl \in Slotted, NEW n, Whole(sl, r, n)
    PROVE  Whole([sl EXCEPT ![r.tail] = Missing], TakenOut(r), n)
<1> DEFINE q == TakenOut(r)
           sm == [sl EXCEPT ![r.tail] = Missing]
<1>r. r.head \in Slots /\ r.tail \in Slots /\ r.count \in 0..Max
  BY DEF Ring
<1>q. /\ q.head = r.head
      /\ q.tail = IF r.tail + 1 < Max THEN r.tail + 1 ELSE 0
      /\ q.count = r.count - 1
  BY <1>r, TakenOutIs, AdvanceIs
<1>h. r.head = Plus(r.tail, r.count)
  BY DEF Whole
<1>s. /\ sm[r.tail] = Missing
      /\ \A s \in Slots : s # r.tail => sm[s] = sl[s]
  BY <1>r DEF Slotted
<1> HIDE DEF q, sm
<1>1. q.head = Plus(q.tail, q.count)
  BY <1>r, <1>q, <1>h DEF Plus, Slots
<1>2. ASSUME NEW s \in Slots, s # r.tail
      PROVE  Dist(q.tail, s) = Dist(r.tail, s) - 1 /\ Dist(r.tail, s) \in Nat
  BY <1>r, <1>q, <1>2 DEF Dist, Slots
<1>3. ASSUME NEW s \in Slots, sm[s] # Missing
      PROVE  InRing(q, s) /\ sm[s].id < n
  BY <1>3, <1>s, <1>2, <1>q, <1>r DEF Whole, InRing
<1>4. ASSUME NEW s \in Slots, NEW u \in Slots, sm[s] # Missing, InRing(q, u),
             Dist(q.tail, s) < Dist(q.tail, u)
      PROVE  sm[u] # Missing /\ sm[s].id < sm[u].id
  <2>1. s # r.tail /\ sl[s] # Missing
    BY <1>4, <1>s
  <2>2. u # r.tail
    BY <1>4, <1>q, <1>r DEF InRing, Dist, Slots
  <2>3. InRing(r, u) /\ Dist(r.tail, s) < Dist(r.tail, u)
    BY <1>4, <1>2, <1>q, <1>r, <2>1, <2>2 DEF InRing
  <2> QED
    BY <2>1, <2>2, <2>3, <1>s DEF Whole
<1> QED
  BY <1>1, <1>3, <1>4 DEF Whole, q, sm

(* The ring NVS knows is whole too: the slots it has more are erased.       *)
LEMMA BehindWhole ==
    ASSUME NEW r \in Ring, NEW m \in Ring, NEW sl \in Slotted, NEW n,
           Whole(sl, r, n), Behind(m, r)
    PROVE  Whole(sl, m, n)
<1>r. /\ r.head \in Slots /\ r.tail \in Slots /\ r.count \in 0..Max
      /\ m.head \in Slots /\ m.tail \in Slots /\ m.count \in 0..Max
  BY DEF Ring
<1>h. r.head = Plus(r.tail, r.count)
  BY DEF Whole
<1>1. m.head = Plus(m.tail, m.count)
  BY <1>r, <1>h DEF Behind, Plus, Slots
<1>2. ASSUME NEW s \in Slots, InRing(r, s)
      PROVE  InRing(m, s) /\ Dist(m.tail, s) = Dist(r.tail, s) + (m.count - r.count)
  BY <1>r, <1>2 DEF Behind, Plus, Dist, Slots, InRing
<1>3. ASSUME NEW s \in Slots, NEW u \in Slots, InRing(r, s), InRing(m, u),
             Dist(m.tail, s) < Dist(m.tail, u)
      PROVE  InRing(r, u) /\ Dist(r.tail, s) < Dist(r.tail, u)
  BY <1>r, <1>3 DEF Behind, Plus, Dist, Slots, InRing
<1>4. \A s \in Slots : sl[s] # Missing => InRing(r, s) /\ sl[s].id < n
  BY DEF Whole
<1> QED
  BY <1>1, <1>2, <1>3, <1>4 DEF Whole

(* Times do not matter to it.                                               *)
LEMMA SameWhole ==
    ASSUME NEW r, NEW n, NEW sl, NEW sm,
           \A s \in Slots : (sm[s] = Missing <=> sl[s] = Missing) /\ sm[s].id = sl[s].id,
           Whole(sl, r, n)
    PROVE  Whole(sm, r, n)
BY DEF Whole

LEMMA EmptyWhole ==
    ASSUME NEW r, NEW n, NEW sl, \A s \in Slots : sl[s] = Missing,
           r.head = Plus(r.tail, r.count)
    PROVE  Whole(sl, r, n)
BY DEF Whole

-----------------------------------------------------------------------------
(* The ring stays whole.                                                    *)

(* How far the metadata's three writes have come.                           *)
MetaInv ==
    /\ ending # "erased" /\ job = "tail" => meta.head = ring.head
    /\ ending # "erased" /\ job = "count" => meta.head = ring.head /\ meta.tail = ring.tail
    /\ ending = "again" /\ job \in {"none", "drain", "gone"}
          => meta.head = Plus(meta.tail, meta.count)

(* The inductive invariant: the ring, the metadata, and that only a slot's  *)
(* own entry, published, is erased after a publish.                         *)
RingInv ==
    /\ DatesInv
    /\ RingWhole
    /\ MetaInv
    /\ ending = "again" => job # "store"
    /\ job = "gone" => slot[ring.tail] = Missing \/ sent.id = slot[ring.tail].id

LEMMA RingInit == Init => RingInv
<1> SUFFICES ASSUME Init PROVE RingInv
  OBVIOUS
<1>1. DatesInv
  BY TypeInit DEF DatesInv, Init, DatesTrue, Missing
<1>2. Whole(slot, ring, next)
  <2>1. ring.head = Plus(ring.tail, ring.count)
    BY DEF Init, Empty, Plus
  <2>2. \A s \in Slots : slot[s] = Missing
    BY DEF Init
  <2> QED
    BY <2>1, <2>2, EmptyWhole
<1> QED
  BY <1>1, <1>2 DEF RingInv, RingWhole, MetaInv, Init

(* Records are equal when their fields are.                                 *)
LEMMA SameRing ==
    ASSUME NEW r \in Ring, NEW m \in Ring,
           r.head = m.head, r.tail = m.tail, r.count = m.count
    PROVE  m = r
BY DEF Ring

LEMMA RingStep == ~TornWrites /\ RingInv /\ [Next]_vars => RingInv'
<1> SUFFICES ASSUME ~TornWrites, RingInv, [Next]_vars
             PROVE  RingInv'
  OBVIOUS
<1>d. DatesInv' /\ TypeInv'
  BY DatesStep, TypeStep DEF RingInv, DatesInv
<1>t. /\ BufTypeOK /\ ring \in Ring /\ meta \in Ring /\ slot \in Slotted
      /\ ring' \in Ring /\ meta' \in Ring /\ slot' \in Slotted
      /\ next \in Nat
  BY <1>d DEF RingInv, DatesInv, TypeInv, BufTypeOK, Slotted
<1>r. ring.tail \in Slots /\ ring.head \in Slots /\ ring.count \in 0..Max
  BY <1>t DEF Ring
<1>w. Whole(slot, ring, next)
  BY DEF RingInv, RingWhole
<1> USE DEF RingInv, RingWhole, MetaInv
<1>1. CASE StoreBegin
  BY <1>1, <1>d DEF StoreBegin, Free
<1>2. CASE StoreFails
  BY <1>2, <1>d DEF StoreFails
<1>3. ASSUME NEW time \in {"real", "owed"}, StoreBlob(time) PROVE RingInv'
  <2>1. [id |-> next, time |-> time] \in Entry
    BY <1>3 DEF StoreBlob, DatesInv, TypeInv, BufTypeOK, Entry, Times
  <2>2. Whole(slot', ring', next')
    BY <1>3, <1>t, <1>w, <2>1, StoreWhole DEF StoreBlob
  <2> QED
    BY <1>3, <1>d, <2>2 DEF StoreBlob
<1>4. CASE WriteMeta("head", "tail") \/ WriteMeta("tail", "count") \/ WriteMeta("count", "none")
  <2>1. CASE WriteMeta("head", "tail")
    BY <2>1, <1>t, <1>d DEF WriteMeta, Ring
  <2>2. CASE WriteMeta("tail", "count")
    BY <2>2, <1>t, <1>d DEF WriteMeta, Ring
  <2>3. CASE WriteMeta("count", "none")
    <3>1. ending # "erased" => meta'.head = ring.head /\ meta'.tail = ring.tail
                                 /\ meta'.count = ring.count
      BY <2>3, <1>t DEF WriteMeta, Ring
    <3>2. ending # "erased" => meta' = ring
      BY <3>1, <1>t, SameRing
    <3> QED
      BY <2>3, <3>1, <3>2, <1>w, <1>d DEF WriteMeta, Whole
  <2> QED
    BY <1>4, <2>1, <2>2, <2>3
<1>5. CASE DrainBegin
  <2>1. meta = ring => Behind(meta, ring)
    BY <1>r DEF Behind, Plus, Slots
  <2> QED
    BY <1>5, <1>d, <2>1 DEF DrainBegin, Free
<1>6. CASE DrainSkip \/ DrainErase
  <2>1. TailTakenOut /\ ring.count > 0 /\ job \in {"drain", "gone"}
    BY <1>6 DEF DrainSkip, DrainErase, DatesInv, TypeInv
  <2>2. ring' = TakenOut(ring)
    BY <2>1 DEF TailTakenOut, TakenOut
  <2>3. Whole(slot', ring', next')
    BY <2>1, <2>2, <1>t, <1>w, TakeWhole DEF TailTakenOut
  <2>4. Behind(meta, ring) => Behind(meta', ring')
    <3>1. /\ ring'.head = ring.head /\ ring'.count = ring.count - 1
          /\ ring'.tail = IF ring.tail + 1 < Max THEN ring.tail + 1 ELSE 0
      BY <2>1, <2>2, <1>t, <1>r, TakenOutIs, AdvanceIs
    <3>2. meta' = meta /\ meta.tail \in Slots /\ meta.count \in 0..Max
      BY <2>1, <1>t DEF TailTakenOut, Ring
    <3> QED
      BY <3>1, <3>2, <1>r, <2>1 DEF Behind, Plus, Slots
  <2>5. ending = "again" => \A s \in Slots : slot'[s] = Missing
    BY <2>1, <1>t DEF TailTakenOut, Slotted
  <2> QED
    BY <2>1, <2>3, <2>4, <2>5, <1>d DEF TailTakenOut
<1>7. CASE DrainHold \/ DrainDone
  <2>1. DrainEnds /\ job = "drain"
    BY <1>7 DEF DrainHold, DrainDone
  <2> QED
    BY <2>1, <1>d DEF DrainEnds
<1>8. CASE DrainPublish
  <2>1. AtTail \in Entry
    BY <1>8, <1>t, <1>r DEF DrainPublish, AtTail, Slotted
  <2>2. job' = "gone" => sent' = Stamped(AtTail)
    <3>1. PICK o \in Outcomes : sent' = o[1] /\ job' = o[2]
      BY <1>8 DEF DrainPublish
    <3>2. o \in {<<Stamped(AtTail), "gone">>, <<Stamped(AtTail), "head">>, <<sent, "head">>}
      BY <3>1 DEF Outcomes
    <3>3. CASE o = <<Stamped(AtTail), "gone">>
      BY <3>1, <3>3
    <3>4. CASE o = <<Stamped(AtTail), "head">> \/ o = <<sent, "head">>
      <4>1. o[2] = "head"
        BY <3>4
      <4> QED
        BY <3>1, <4>1
    <3> QED
      BY <3>2, <3>3, <3>4
  <2>3. job' = "gone" => sent'.id = slot'[ring'.tail].id
    BY <1>8, <2>1, <2>2, StampedIs DEF DrainPublish, AtTail
  <2>4. job = "drain" /\ job' \in {"gone", "head"}
    BY <1>8 DEF DrainPublish, Outcomes
  <2> QED
    BY <1>8, <2>3, <2>4, <1>d DEF DrainPublish
<1>9. CASE ClockSync
  BY <1>9, <1>d DEF ClockSync
<1>10. CASE Stamp
  <2>1. PICK S \in SUBSET {s \in mask : slot[s] # Missing} :
          slot' = [s \in Slots |-> IF s \in S THEN Stamped(slot[s]) ELSE slot[s]]
    BY <1>10 DEF Stamp
  <2>2. ASSUME NEW s \in Slots
        PROVE  (slot'[s] = Missing <=> slot[s] = Missing) /\ slot'[s].id = slot[s].id
    <3>1. CASE s \in S
      <4>1. slot[s] \in Entry
        BY <1>t, <3>1 DEF Slotted
      <4>2. Stamped(slot[s]) \in Entry /\ Stamped(slot[s]).id = slot[s].id
        BY <4>1, StampedIs
      <4>3. \A e \in Entry : e # Missing
        BY DEF Entry, Missing
      <4> QED
        BY <2>1, <3>1, <4>1, <4>2, <4>3
    <3>2. CASE s \notin S
      BY <2>1, <3>2
    <3> QED
      BY <3>1, <3>2
  <2>3. Whole(slot', ring, next)
    BY <2>2, <1>w, SameWhole
  <2>4. ring' = ring /\ next' = next /\ job' = job /\ job = "none" /\ ending' = ending
           /\ meta' = meta /\ ending # "again"
    BY <1>10 DEF Stamp, Free
  <2> QED
    BY <2>3, <2>4, <1>d
<1>11. CASE Clear
  <2>1. \A s \in Slots : slot'[s] = Missing
    BY <1>11 DEF Clear
  <2>2. ring'.head = Plus(ring'.tail, ring'.count)
    BY <1>11 DEF Clear, Empty, Plus
  <2>3. Whole(slot', ring', next')
    BY <2>1, <2>2, EmptyWhole
  <2> QED
    BY <1>11, <2>1, <2>3, <1>d DEF Clear, Free
<1>12. CASE EraseForRestart
  <2>1. \A s \in Slots : slot'[s] = Missing
    BY <1>12 DEF EraseForRestart
  <2>2. Whole(slot', ring', next')
    <3>1. ring'.head = Plus(ring'.tail, ring'.count)
      BY <1>12, <1>w DEF EraseForRestart, Whole
    <3> QED
      BY <2>1, <3>1, EmptyWhole
  <2>3. meta'.head = Plus(meta'.tail, meta'.count)
    BY <1>12 DEF EraseForRestart, Empty, Plus
  <2>4. slot'[ring'.tail] = Missing
    BY <1>12, <1>r, <2>1 DEF EraseForRestart
  <2>5. CASE ending = "no"
    BY <1>12, <2>2, <2>4, <2>5, <1>d DEF EraseForRestart
  <2>6. CASE ending # "no"
    <3>1. ending' = "again" /\ job' = job /\ job \in {"none", "drain", "gone"}
      BY <1>12, <2>6 DEF EraseForRestart, Settled
    <3> QED
      BY <3>1, <2>1, <2>2, <2>3, <2>4, <1>d
  <2> QED
    BY <2>5, <2>6
<1>13. CASE Restart
  <2>1. job \in {"none", "drain", "gone"} /\ ending \in {"no", "again"}
    BY <1>13, <1>t DEF Restart, Settled, BufTypeOK
  <2>2. Whole(slot, meta, next)
    <3>1. CASE ending = "again"
      BY <2>1, <3>1, EmptyWhole
    <3>2. CASE ending = "no" /\ job = "none"
      BY <3>2, <1>w
    <3>3. CASE ending = "no" /\ job # "none"
      BY <2>1, <3>3, <1>w, <1>t, BehindWhole
    <3> QED
      BY <2>1, <3>1, <3>2, <3>3
  <2>3. ASSUME NEW s \in Slots
        PROVE  (slot'[s] = Missing <=> slot[s] = Missing) /\ slot'[s].id = slot[s].id
    <3>1. slot[s] \in Entry \cup {Missing}
      BY <1>t DEF Slotted
    <3>2. slot'[s] = IF slot[s].time = "owed" THEN [slot[s] EXCEPT !.time = "gone"] ELSE slot[s]
      BY <1>13 DEF Restart
    <3> QED
      BY <3>1, <3>2 DEF Entry, Missing
  <2>4. Whole(slot', meta, next)
    BY <2>2, <2>3, SameWhole
  <2> QED
    BY <1>13, <2>4, <1>d DEF Restart
<1>14. CASE UNCHANGED vars
  BY <1>14, <1>d DEF vars
<1> QED
  BY <1>1, <1>2, <1>3, <1>4, <1>5, <1>6, <1>7, <1>8, <1>9, <1>10, <1>11, <1>12, <1>13, <1>14 DEF Next

(* The ring stays whole, in RAM and for the next boot, as long as no        *)
(* restart falls between the writes of one update.                          *)
THEOREM RingStaysWhole == ASSUME ~TornWrites PROVE BufSpec => []RingWhole
<1>1. RingInv => RingWhole
  BY DEF RingInv
<1>2. RingInv /\ [Next]_vars => RingInv'
  BY RingStep
<1> QED
  BY RingInit, <1>1, <1>2, PTL DEF BufSpec

-----------------------------------------------------------------------------
(* The ring implements the log.                                             *)

(* An event is in one slot.                                                 *)
LEMMA OneSlot ==
    ASSUME RingInv, NEW s \in Slots, NEW u \in Slots,
           slot[s] # Missing, slot[u] # Missing, slot[s].id = slot[u].id
    PROVE  s = u
<1>t. ring.tail \in Slots /\ slot[s].id \in Nat /\ slot[u].id \in Nat
  BY DEF RingInv, DatesInv, TypeInv, BufTypeOK, Ring, Entry
<1>w. InRing(ring, s) /\ InRing(ring, u)
  BY DEF RingInv, RingWhole, Whole
<1>1. ~(Dist(ring.tail, s) < Dist(ring.tail, u))
  BY <1>t, <1>w DEF RingInv, RingWhole, Whole
<1>2. ~(Dist(ring.tail, u) < Dist(ring.tail, s))
  BY <1>t, <1>w DEF RingInv, RingWhole, Whole
<1> QED
  BY <1>t, <1>1, <1>2 DEF Dist, Slots

(* The tail's event is the oldest.                                          *)
LEMMA TailOldest ==
    ASSUME RingInv, slot[ring.tail] # Missing
    PROVE  Log!IsOldest(slot[ring.tail])
<1>t. ring.tail \in Slots
  BY DEF RingInv, DatesInv, TypeInv, BufTypeOK, Ring
<1>1. ASSUME NEW u \in Slots, slot[u] # Missing
      PROVE  slot[ring.tail].id <= slot[u].id
  <2>1. slot[ring.tail].id \in Nat /\ slot[u].id \in Nat
    BY <1>t, <1>1 DEF RingInv, DatesInv, TypeInv, BufTypeOK, Entry
  <2>2. InRing(ring, u)
    BY <1>1 DEF RingInv, RingWhole, Whole
  <2>3. CASE u = ring.tail
    BY <2>1, <2>3
  <2>4. CASE u # ring.tail
    <3>1. Dist(ring.tail, ring.tail) < Dist(ring.tail, u)
      BY <1>t, <2>4 DEF Dist, Slots
    <3> QED
      BY <1>t, <2>1, <2>2, <3>1 DEF RingInv, RingWhole, Whole
  <2> QED
    BY <2>3, <2>4
<1> QED
  BY <1>t, <1>1 DEF Log!IsOldest, Kept

(* The log's cardinality is the library's.                                  *)
LEMMA SameCardinality ==
    ASSUME NEW S
    PROVE  Log!Cardinality(S) = Cardinality(S)
BY DEF Log!Cardinality, Cardinality

(* The log is full when every slot has its event.                           *)
LEMMA KeptFull ==
    ASSUME RingInv
    PROVE  Cardinality(Kept) = Max <=> \A s \in Slots : slot[s] # Missing
<1> DEFINE P == {s \in Slots : slot[s] # Missing}
           f == [s \in P |-> slot[s]]
<1>1. IsFiniteSet(Slots) /\ Cardinality(Slots) = Max
  BY FS_Interval DEF Slots
<1>2. IsFiniteSet(P)
  BY <1>1, FS_Subset
<1>3. f \in Bijection(P, Kept)
  <2>1. f \in [P -> Kept]
    BY DEF Kept
  <2>2. IsInjective(f)
    BY OneSlot DEF IsInjective
  <2>3. \A e \in Kept : \E s \in P : f[s] = e
    BY DEF Kept
  <2> QED
    BY <2>1, <2>2, <2>3 DEF Bijection, Injection, Surjection
<1>4. Cardinality(Kept) = Cardinality(P)
  BY <1>2, <1>3, FS_Bijection DEF ExistsBijection
<1>5. Cardinality(P) = Max <=> P = Slots
  BY <1>1, FS_Subset
<1> QED
  BY <1>4, <1>5

LEMMA StoreIsLogStore ==
    ASSUME RingInv, NEW time \in {"real", "owed"}, StoreBlob(time)
    PROVE  Log!LogStore
<1> DEFINE e == [id |-> next, time |-> time]
           h == ring.head
           lost == IF slot[h] = Missing THEN {} ELSE {slot[h]}
<1>t. /\ h \in Slots /\ ring.tail \in Slots /\ ring.count \in 0..Max
      /\ slot \in [Slots -> Entry \cup {Missing}] /\ next \in Nat /\ e \in Entry
  BY DEF RingInv, DatesInv, TypeInv, BufTypeOK, Ring, StoreBlob, Entry, Times
<1>w. Whole(slot, ring, next)
  BY DEF RingInv, RingWhole
<1>1. ASSUME slot[h] # Missing
      PROVE  h = ring.tail /\ ring.count = Max
  <2>1. InRing(ring, h) /\ h = Plus(ring.tail, ring.count)
    BY <1>1, <1>t, <1>w DEF Whole
  <2>2. ring.count = Max
    BY <2>1, <1>t, DistPlus DEF InRing
  <2> QED
    BY <2>1, <2>2, <1>t DEF Plus, Slots
<1>2. (\A s \in Slots : slot[s] # Missing) <=> slot[h] # Missing
  <2>1. ASSUME slot[h] # Missing, NEW u \in Slots PROVE slot[u] # Missing
    <3>1. CASE u = h
      BY <2>1, <3>1
    <3>2. CASE u # h
      <4>1. InRing(ring, u) /\ Dist(ring.tail, h) < Dist(ring.tail, u)
        BY <1>t, <1>1, <2>1, <3>2 DEF InRing, Dist, Slots
      <4> QED
        BY <1>t, <1>w, <2>1, <4>1 DEF Whole
    <3> QED
      BY <3>1, <3>2
  <2> QED
    BY <1>t, <2>1
<1>3. Cardinality(lost) = IF Cardinality(Kept) = Max THEN 1 ELSE 0
  <2>1. CASE slot[h] = Missing
    BY <1>2, <2>1, KeptFull, FS_EmptySet
  <2>2. CASE slot[h] # Missing
    BY <1>2, <2>2, KeptFull, FS_Singleton
  <2> QED
    BY <2>1, <2>2
<1>4. lost \in SUBSET Kept /\ \A g \in lost : Log!IsOldest(g)
  BY <1>t, <1>1, TailOldest DEF Kept
<1>5. \A g \in Kept : g.id < e.id
  BY <1>w DEF Whole, Kept
<1>6. /\ slot'[h] = e
      /\ \A s \in Slots : s # h => slot'[s] = slot[s]
  BY <1>t DEF StoreBlob
<1>7. e # Missing
  BY <1>t DEF Entry, Missing
<1>8. Kept' = (Kept \ lost) \cup {e}
  <2>1. ASSUME NEW g \in Kept' PROVE g \in (Kept \ lost) \cup {e}
    <3>1. PICK s \in Slots : slot'[s] # Missing /\ g = slot'[s]
      BY <2>1 DEF Kept
    <3>2. CASE s = h
      BY <1>6, <3>1, <3>2
    <3>3. CASE s # h
      <4>1. slot[s] # Missing /\ g = slot[s]
        BY <1>6, <3>1, <3>3
      <4>2. g \notin lost
        BY <1>t, <3>3, <4>1, OneSlot
      <4> QED
        BY <4>1, <4>2 DEF Kept
    <3> QED
      BY <3>2, <3>3
  <2>2. ASSUME NEW g \in Kept, g \notin lost PROVE g \in Kept'
    <3>1. PICK s \in Slots : slot[s] # Missing /\ g = slot[s]
      BY <2>2 DEF Kept
    <3>2. s # h
      BY <2>2, <3>1
    <3> QED
      BY <1>6, <3>1, <3>2 DEF Kept
  <2>3. e \in Kept'
    BY <1>t, <1>6, <1>7 DEF Kept
  <2> QED
    BY <2>1, <2>2, <2>3
<1>9. e \in Log!Event /\ e.time # "gone"
  BY <1>t DEF Log!Event
<1>10. UNCHANGED <<sent, ending # "no">>
  BY DEF StoreBlob
<1>11. e \in Kept'
  BY <1>8
<1> HIDE DEF e, lost
<1> QED
  BY <1>3, <1>4, <1>5, <1>8, <1>9, <1>10, <1>11, SameCardinality DEF Log!LogStore

(* The tail's event, taken out, is taken out of the log.                    *)
LEMMA TakenOutOfKept ==
    ASSUME RingInv, TailTakenOut
    PROVE  Kept' = IF slot[ring.tail] = Missing THEN Kept ELSE Kept \ {slot[ring.tail]}
<1>t. ring.tail \in Slots /\ slot \in [Slots -> Entry \cup {Missing}]
  BY DEF RingInv, DatesInv, TypeInv, BufTypeOK, Ring
<1>1. /\ slot'[ring.tail] = Missing
      /\ \A s \in Slots : s # ring.tail => slot'[s] = slot[s]
  BY <1>t DEF TailTakenOut
<1>2. CASE slot[ring.tail] = Missing
  BY <1>t, <1>1, <1>2 DEF Kept
<1>3. CASE slot[ring.tail] # Missing
  <2>1. ASSUME NEW e \in Kept' PROVE e \in Kept \ {slot[ring.tail]}
    <3>1. PICK s \in Slots : slot'[s] # Missing /\ e = slot'[s]
      BY <2>1 DEF Kept
    <3>2. s # ring.tail /\ e = slot[s] /\ slot[s] # Missing
      BY <1>1, <3>1
    <3>3. e # slot[ring.tail]
      BY <1>t, <1>3, <3>2, OneSlot
    <3> QED
      BY <3>2, <3>3 DEF Kept
  <2>2. ASSUME NEW e \in Kept \ {slot[ring.tail]} PROVE e \in Kept'
    <3>1. PICK s \in Slots : slot[s] # Missing /\ e = slot[s]
      BY <2>2 DEF Kept
    <3>2. s # ring.tail
      BY <2>2, <3>1
    <3> QED
      BY <1>1, <3>1, <3>2 DEF Kept
  <2> QED
    BY <1>3, <2>1, <2>2
<1> QED
  BY <1>2, <1>3

(* Every step of the buffer is a step of the log, or changes nothing of it. *)
LEMMA ImplementsStep ==
    ASSUME ~TornWrites, RingInv, [Next]_vars
    PROVE  [Log!LogNext]_(Log!logVars)
<1> USE DEF Log!LogNext, Log!logVars
<1>t. /\ ring.tail \in Slots
      /\ slot \in [Slots -> Entry \cup {Missing}]
      /\ ending \in {"no", "erased", "again"}
      /\ mask \in SUBSET Slots
  BY DEF RingInv, DatesInv, TypeInv, BufTypeOK, Ring
<1>1. ASSUME UNCHANGED <<slot, sent, ending>> PROVE UNCHANGED Log!logVars
  BY <1>1 DEF Kept
<1>2. ASSUME NEW time \in {"real", "owed"}, StoreBlob(time) PROVE Log!LogStore
  BY <1>2, StoreIsLogStore
<1>3. CASE DrainSkip \/ DrainErase
  <2>1. TailTakenOut
    BY <1>3 DEF DrainSkip, DrainErase
  <2>2. UNCHANGED <<sent, ending # "no">>
    BY <2>1 DEF TailTakenOut
  <2>3. CASE slot[ring.tail] = Missing
    BY <2>1, <2>2, <2>3, TakenOutOfKept
  <2>4. CASE slot[ring.tail] # Missing
    <3> DEFINE e == slot[ring.tail]
    <3>1. e \in Kept /\ Kept' = Kept \ {e} /\ Log!IsOldest(e)
      BY <1>t, <2>1, <2>4, TakenOutOfKept, TailOldest DEF Kept
    <3>2. CASE DrainSkip
      <4>1. e.time = "gone"
        BY <1>t, <2>4, <3>2 DEF DrainSkip, Undated, Unsynced, AtTail, RingInv, DatesInv, DatesTrue
      <4> QED
        BY <2>2, <3>1, <4>1 DEF Log!LogTakeOut
    <3>3. CASE DrainErase
      <4>1. sent.id = e.id
        BY <2>4, <3>3 DEF DrainErase, RingInv
      <4> QED
        BY <2>2, <3>1, <4>1 DEF Log!LogTakeOut
    <3> QED
      BY <1>3, <3>2, <3>3
  <2> QED
    BY <2>3, <2>4
<1>4. CASE DrainPublish
  <2>1. AtTail = slot[ring.tail] /\ AtTail \in Entry /\ AtTail \in Kept /\ Log!IsOldest(AtTail)
    BY <1>4, <1>t, TailOldest DEF DrainPublish, AtTail, Kept
  <2>2. AtTail.time \in {"real", "owed"}
    BY <1>4, <1>t, <2>1 DEF DrainPublish, Undated, Unsynced, Entry, Times, RingInv, DatesInv, DatesTrue
  <2>3. Stamped(AtTail) = Log!Dated(AtTail)
    BY <2>1, <2>2 DEF Stamped, Log!Dated, Entry
  <2>4. sent' \in {sent, Stamped(AtTail)}
    <3>1. PICK o \in Outcomes : sent' = o[1]
      BY <1>4 DEF DrainPublish
    <3>2. o[1] \in {sent, Stamped(AtTail)}
      BY DEF Outcomes
    <3> QED
      BY <3>1, <3>2
  <2>5. UNCHANGED <<Kept, ending # "no">>
    BY <1>4 DEF DrainPublish, Kept
  <2>6. CASE sent' = sent
    BY <2>5, <2>6
  <2>7. CASE sent' = Stamped(AtTail)
    BY <2>1, <2>2, <2>3, <2>5, <2>7 DEF Log!LogSend
  <2> QED
    BY <2>4, <2>6, <2>7
<1>5. CASE Stamp
  <2>1. PICK S \in SUBSET {s \in mask : slot[s] # Missing} :
          slot' = [s \in Slots |-> IF s \in S THEN Stamped(slot[s]) ELSE slot[s]]
    BY <1>5 DEF Stamp
  <2> DEFINE D == {slot[s] : s \in S}
  <2>2. ASSUME NEW s \in S
        PROVE  /\ s \in Slots /\ slot[s] \in Entry /\ slot[s].time = "owed"
               /\ slot'[s] = Log!Dated(slot[s]) /\ slot'[s] # Missing
    <3>1. s \in Slots /\ slot[s] \in Entry /\ slot[s].time = "owed"
      BY <1>t DEF RingInv, DatesInv, DatesTrue
    <3> QED
      BY <2>1, <3>1 DEF Stamped, Log!Dated, Entry, Missing
  <2>3. ASSUME NEW s \in Slots, s \notin S PROVE slot'[s] = slot[s]
    BY <2>1, <2>3
  <2>4. D \in SUBSET {e \in Kept : e.time = "owed"}
    BY <2>2 DEF Kept
  <2>5. Kept' = (Kept \ D) \cup {Log!Dated(e) : e \in D}
    <3>1. ASSUME NEW e \in Kept' PROVE e \in (Kept \ D) \cup {Log!Dated(g) : g \in D}
      <4>1. PICK s \in Slots : slot'[s] # Missing /\ e = slot'[s]
        BY <3>1 DEF Kept
      <4>2. CASE s \in S
        BY <2>2, <4>1, <4>2
      <4>3. CASE s \notin S
        <5>1. e = slot[s] /\ slot[s] # Missing
          BY <2>3, <4>1, <4>3
        <5>2. e \notin D
          BY <2>2, <4>3, <5>1, OneSlot
        <5> QED
          BY <5>1, <5>2 DEF Kept
      <4> QED
        BY <4>2, <4>3
    <3>2. ASSUME NEW e \in Kept \ D PROVE e \in Kept'
      <4>1. PICK s \in Slots : slot[s] # Missing /\ e = slot[s]
        BY <3>2 DEF Kept
      <4>2. s \notin S
        BY <3>2, <4>1
      <4> QED
        BY <2>3, <4>1, <4>2 DEF Kept
    <3>3. ASSUME NEW e \in D PROVE Log!Dated(e) \in Kept'
      <4>1. PICK s \in S : e = slot[s]
        BY <3>3
      <4> QED
        BY <2>2, <4>1 DEF Kept
    <3> QED
      BY <3>1, <3>2, <3>3
  <2>6. UNCHANGED <<sent, ending # "no">>
    BY <1>5 DEF Stamp
  <2> HIDE DEF D
  <2> QED
    BY <2>4, <2>5, <2>6 DEF Log!LogDate
<1>6. CASE Clear
  BY <1>6 DEF Clear, Kept, Log!LogClear
<1>7. CASE EraseForRestart
  BY <1>7 DEF EraseForRestart, Kept, Log!LogEnd
<1>8. CASE Restart
  <2>1. ending # "no" => Kept = {}
    BY <1>8, <1>t DEF Restart, Kept, RingInv, RingWhole
  <2>2. ASSUME NEW s \in Slots
        PROVE  slot'[s] = Missing <=> slot[s] = Missing
    <3>1. slot[s] \in Entry \cup {Missing}
      BY <1>t
    <3>2. slot'[s] = IF slot[s].time = "owed" THEN [slot[s] EXCEPT !.time = "gone"] ELSE slot[s]
      BY <1>8 DEF Restart
    <3> QED
      BY <3>1, <3>2 DEF Entry, Missing
  <2>3. Kept' = {IF e.time = "owed" THEN [e EXCEPT !.time = "gone"] ELSE e : e \in Kept}
    <3>1. \A s \in Slots : slot'[s] = IF slot[s].time = "owed"
                                        THEN [slot[s] EXCEPT !.time = "gone"] ELSE slot[s]
      BY <1>8 DEF Restart
    <3> QED
      BY <2>2, <3>1 DEF Kept
  <2> QED
    BY <1>8, <2>1, <2>3 DEF Restart, Log!LogRestart
<1>9. CASE \/ StoreBegin \/ StoreFails \/ ClockSync \/ DrainBegin \/ DrainHold \/ DrainDone
           \/ WriteMeta("head", "tail") \/ WriteMeta("tail", "count")
           \/ WriteMeta("count", "none") \/ UNCHANGED vars
  BY <1>1, <1>9 DEF StoreBegin, StoreFails, ClockSync, DrainBegin, DrainHold, DrainDone,
                    DrainEnds, WriteMeta, vars
<1> QED
  BY <1>2, <1>3, <1>4, <1>5, <1>6, <1>7, <1>8, <1>9 DEF Next

(* The buffer implements the log, as long as no restart falls between the   *)
(* writes of one update: events leave it oldest first, and only sent, for   *)
(* as many newer ones as the ring holds, undatable, or with the deployment. *)
THEOREM BufferImplementsLog == ASSUME ~TornWrites PROVE BufSpec => ImplementsLog
<1>1. Init => Log!LogInit
  BY DEF Init, Log!LogInit, Kept
<1>2. RingInv /\ [Next]_vars => RingInv'
  BY RingStep
<1>3. RingInv /\ [Next]_vars => [Log!LogNext]_(Log!logVars)
  BY ImplementsStep
<1> QED
  BY RingInit, <1>1, <1>2, <1>3, PTL DEF BufSpec, ImplementsLog, Log!LogSpec
=============================================================================
