------------------------- MODULE RulesEngineProofs -------------------------
(***************************************************************************)
(* What holds of the rules engine and the valve channel for every number   *)
(* of valves and sensors, every depth of the queues and every kind of      *)
(* outside event.                                                          *)
(*                                                                         *)
(* A step of the engine is a hold of g_mutex: it starts from Held and ends *)
(* in a Commit.  The first lemmas say what the transformers of a hold give *)
(* back; the write outcomes of the valve task are treated alike.           *)
(***************************************************************************)
EXTENDS RulesEngine, TLAPS, SequenceTheorems, FiniteSetTheorems

USE ChannelAssumption, EngineAssumption

-----------------------------------------------------------------------------
(* The valve task's writes.                                                 *)

Slots == [rml : RmlCmds \cup {"none"}, valve : ValveCmds \cup {"none"}]
Airs  == {a \in Seq(Writes) : Len(a) <= AirDepth}
Queue == {q \in Seq(Cmds) : Len(q) <= CmdDepth}
Ends  == {"sent", "held", "retry", "failed"}

Outcome == [p : Slots, a : Airs, end : Ends]

(* A command and the slot it is pended in.                                  *)
Fits(slot, c) == \/ slot = "rml" /\ c \in RmlCmds
                 \/ slot = "valve" /\ c \in ValveCmds

LEMMA WriteTyped ==
    ASSUME NEW ready \in BOOLEAN, NEW p \in Slots, NEW a \in Airs, NEW slot, NEW c,
           Fits(slot, c), NEW o \in WriteOutcomes(ready, p, a, slot, c)
    PROVE  o \in Outcome /\ (o.end = "failed" => ready)
<1>1. [p EXCEPT ![slot] = "none"] \in Slots /\ [p EXCEPT ![slot] = c] \in Slots
  BY DEF Slots, Fits
<1>2. c \in Writes
  BY DEF Fits, Writes
<1>3. Len(a) < AirDepth => Append(a, c) \in Airs
  BY <1>2, AppendProperties DEF Airs
<1>4. CASE o = Pended(p, a, slot, c, "held")
  BY <1>4, <1>1 DEF Pended, Outcome, Ends
<1>5. CASE ready /\ Len(a) < AirDepth /\ o = Accepted(p, a, slot, c)
  BY <1>5, <1>1, <1>3 DEF Accepted, Outcome, Ends
<1>6. CASE ready /\ o = Pended(p, a, slot, c, "retry")
  BY <1>6, <1>1 DEF Pended, Outcome, Ends
<1>7. CASE ready /\ o = Pended(p, a, slot, c, "failed")
  BY <1>7, <1>1 DEF Pended, Outcome, Ends
<1> QED
  BY <1>4, <1>5, <1>6, <1>7, Zenon DEF WriteOutcomes

LEMMA RmlFirstTyped ==
    ASSUME NEW ready \in BOOLEAN, NEW p \in Slots, NEW a \in Airs,
           NEW o \in RmlFirst(ready, p, a)
    PROVE  o \in Outcome /\ (o.end = "failed" => ready)
<1>1. CASE ready /\ p.rml # "none"
  <2>1. Fits("rml", p.rml)
    BY <1>1 DEF Slots, Fits
  <2>2. o \in WriteOutcomes(ready, p, a, "rml", p.rml)
    BY <1>1 DEF RmlFirst
  <2> QED
    BY <2>1, <2>2, WriteTyped
<1>2. CASE ~(ready /\ p.rml # "none")
  <2>1. o = Idle(p, a)
    BY <1>2 DEF RmlFirst
  <2> QED
    BY <2>1 DEF Idle, Outcome, Ends
<1> QED
  BY <1>1, <1>2

LEMMA ValveTyped ==
    ASSUME NEW p \in Slots, NEW a \in Airs, NEW c \in ValveCmds,
           NEW o \in ValveOutcomes(p, a, c)
    PROVE  o \in Outcome /\ (o.end = "failed" => Ready)
<1>1. Fits("valve", c) /\ Ready \in BOOLEAN
  BY DEF Fits, Ready, LinkIsTarget, HasTarget
<1>2. PICK f \in RmlFirst(Ready, p, a) :
         o \in IF f.end = "sent" THEN WriteOutcomes(Ready, f.p, f.a, "valve", c)
               ELSE {Pended(f.p, f.a, "valve", c, end) :
                       end \in {f.end} \cup (IF c = "close" THEN {"retry"} ELSE {})}
  BY Zenon DEF ValveOutcomes
<1>3. f \in Outcome /\ (f.end = "failed" => Ready)
  BY <1>1, RmlFirstTyped
<1>4. f.p \in Slots /\ f.a \in Airs /\ f.end \in Ends
  BY <1>3 DEF Outcome
<1>5. CASE f.end = "sent"
  BY <1>1, <1>2, <1>4, <1>5, WriteTyped
<1>6. CASE f.end # "sent"
  <2>1. PICK end \in {f.end} \cup (IF c = "close" THEN {"retry"} ELSE {}) :
           o = Pended(f.p, f.a, "valve", c, end)
    BY <1>2, <1>6
  <2>2. end \in Ends /\ (end = "failed" => Ready)
    BY <2>1, <1>3, <1>4 DEF Ends
  <2>3. [f.p EXCEPT !["valve"] = c] \in Slots
    BY <1>4 DEF Slots
  <2> QED
    BY <2>1, <2>2, <2>3, <1>4 DEF Pended, Outcome
<1> QED
  BY <1>5, <1>6

LEMMA ReplayTyped ==
    ASSUME NEW p \in Slots, NEW a \in Airs, NEW o \in ReplayOutcomes(p, a)
    PROVE  o \in Outcome /\ (o.end = "failed" => Ready)
<1>1. Ready \in BOOLEAN
  BY DEF Ready, LinkIsTarget, HasTarget
<1>2. PICK f \in RmlFirst(Ready, p, a) :
         o \in IF f.p.valve = "none" \/ f.end = "retry" \/ (f.end # "sent" /\ f.p.valve = "open")
                 THEN {f}
               ELSE WriteOutcomes(Ready, f.p, f.a, "valve", f.p.valve)
  BY Zenon DEF ReplayOutcomes
<1>3. f \in Outcome /\ (f.end = "failed" => Ready)
  BY <1>1, RmlFirstTyped
<1>4. f.p \in Slots /\ f.a \in Airs
  BY <1>3 DEF Outcome
<1>5. CASE o = f
  BY <1>3, <1>5
<1>6. CASE f.p.valve # "none" /\ o \in WriteOutcomes(Ready, f.p, f.a, "valve", f.p.valve)
  <2>1. Fits("valve", f.p.valve)
    BY <1>4, <1>6 DEF Slots, Fits
  <2> QED
    BY <2>1, <1>1, <1>4, <1>6, WriteTyped
<1> QED
  BY <1>2, <1>5, <1>6

LEMMA SetupTyped ==
    ASSUME NEW p \in Slots, NEW a \in Airs, NEW o \in SetupOutcomes(p, a)
    PROVE  o \in Outcome
<1>1. PICK f \in RmlFirst(TRUE, p, a) :
         o \in IF f.end = "sent" /\ f.p.valve # "none"
                 THEN WriteOutcomes(TRUE, f.p, f.a, "valve", f.p.valve) ELSE {f}
  BY Zenon DEF SetupOutcomes
<1>2. f \in Outcome
  BY RmlFirstTyped
<1>3. f.p \in Slots /\ f.a \in Airs
  BY <1>2 DEF Outcome
<1>4. CASE o = f
  BY <1>2, <1>4
<1>5. CASE f.p.valve # "none" /\ o \in WriteOutcomes(TRUE, f.p, f.a, "valve", f.p.valve)
  <2>1. Fits("valve", f.p.valve)
    BY <1>3, <1>5 DEF Slots, Fits
  <2> QED
    BY <2>1, <1>3, <1>5, WriteTyped
<1> QED
  BY <1>1, <1>4, <1>5

-----------------------------------------------------------------------------
(* The queues.                                                              *)

LEMMA FirstAndRest ==
    ASSUME NEW S, NEW q \in Seq(S), q # <<>>
    PROVE  Head(q) \in S /\ Tail(q) \in Seq(S) /\ Len(Tail(q)) = Len(q) - 1 /\ Len(q) \in Nat \ {0}
<1>1. Head(q) \in S /\ Tail(q) \in Seq(S) /\ Len(Tail(q)) = Len(q) - 1
  BY HeadTailProperties
<1>2. Len(q) \in Nat /\ Len(q) # 0
  BY EmptySeq
<1> QED
  BY <1>1, <1>2

LEMMA QueueTyped ==
    ASSUME NEW q \in Queue
    PROVE  /\ \A c \in Cmds : Posted(q, c) \in Queue
           /\ TokenPosted(q) \in Queue
           /\ q # <<>> => Head(q) \in Cmds /\ Tail(q) \in Queue
<1>1. q \in Seq(Cmds) /\ Len(q) \in Nat /\ Len(q) <= CmdDepth
  BY DEF Queue
<1>2. ASSUME NEW c \in Cmds PROVE Posted(q, c) \in Queue
  <2>1. Append(q, c) \in Seq(Cmds) /\ Len(Append(q, c)) = Len(q) + 1
    BY <1>1, AppendProperties
  <2> QED
    BY <2>1, <1>1 DEF Posted, CanPost, Queue
<1>3. TokenPosted(q) \in Queue
  <2>1. <<"replay">> \in Seq(Cmds) /\ Len(<<"replay">>) = 1
    BY DEF Cmds
  <2>2. <<"replay">> \o q \in Seq(Cmds) /\ Len(<<"replay">> \o q) = 1 + Len(q)
    BY <2>1, <1>1, ConcatProperties
  <2> QED
    BY <2>2, <1>1 DEF TokenPosted, Queue
<1>4. ASSUME q # <<>> PROVE Head(q) \in Cmds /\ Tail(q) \in Queue
  <2>1. Head(q) \in Cmds /\ Tail(q) \in Seq(Cmds) /\ Len(Tail(q)) = Len(q) - 1
    BY <1>1, <1>4, FirstAndRest
  <2> QED
    BY <2>1, <1>1 DEF Queue
<1> QED
  BY <1>2, <1>3, <1>4

LEMMA ShortQueues ==
    /\ <<>> \in Queue
    /\ <<"connect">> \in Queue
    /\ \A v : QueueFor(v) \in Queue
<1>1. <<>> \in Seq(Cmds) /\ Len(<<>>) = 0
  OBVIOUS
<1>2. <<"connect">> \in Seq(Cmds) /\ Len(<<"connect">>) = 1
  BY DEF Cmds
<1>3. <<"disconnect">> \in Seq(Cmds) /\ Len(<<"disconnect">>) = 1
  BY DEF Cmds
<1> QED
  BY <1>1, <1>2, <1>3 DEF Queue, QueueFor

Notices == {u \in Seq(Updates) : Len(u) <= UpdDepth}

LEMMA NoticeTyped ==
    ASSUME NEW u \in Notices, NEW n \in Updates
    PROVE  Notified(u, n) \in Notices
<1>1. Append(u, n) \in Seq(Updates) /\ Len(Append(u, n)) = Len(u) + 1 /\ Len(u) \in Nat
  BY AppendProperties DEF Notices
<1> QED
  BY <1>1 DEF Notified, Notices

-----------------------------------------------------------------------------
(* Type correctness of the channel.                                         *)

Links  == [peer : Valves, stage : {"setup", "ready"}, term : BOOLEAN] \cup {NoLink}
Caches == [pos : {"open", "closed", "unknown"}, rml : BOOLEAN, leak : BOOLEAN]
Device == [pos : {"open", "closed"}, rml : BOOLEAN, flood : BOOLEAN]

ChanTyped ==
    /\ target \in Valves \cup {NoValve}
    /\ wanted \in BOOLEAN
    /\ cmdq \in Queue
    /\ pend \in Slots
    /\ link \in Links
    /\ air \in Airs
    /\ cache \in Caches
    /\ updq \in Notices
    /\ dev \in [Valves -> Device]

LEMMA ChanTypes == ChanTypeOK <=> ChanTyped
BY DEF ChanTypeOK, ChanTyped, Queue, Slots, Links, Airs, Caches, Notices, Device

LEMMA LinkTypes ==
    ASSUME ChanTyped
    PROVE  /\ Linked => /\ link.peer \in Valves
                        /\ \A b \in BOOLEAN : [link EXCEPT !.term = b] \in Links
                        /\ [link EXCEPT !.stage = "ready"] \in Links
           /\ link.stage \in {"setup", "ready"} => Linked
           /\ LinkIsTarget => Linked
           /\ Ready \in BOOLEAN
BY DEF ChanTyped, Links, Linked, NoLink, LinkIsTarget, HasTarget, Ready

LEMMA EmptyTyped == NoLink \in Links /\ EmptyCache \in Caches /\ NoPend \in Slots /\ <<>> \in Airs
<1>1. <<>> \in Airs
  <2>1. <<>> \in Seq(Writes) /\ Len(<<>>) = 0
    OBVIOUS
  <2> QED
    BY <2>1 DEF Airs
<1> QED
  BY <1>1 DEF Links, EmptyCache, Caches, NoPend, Slots

LEMMA ChanInitTyped == ChanInit => ChanTyped
<1>1. <<>> \in Notices
  <2>1. <<>> \in Seq(Updates) /\ Len(<<>>) = 0
    OBVIOUS
  <2> QED
    BY <2>1 DEF Notices
<1> QED
  BY <1>1, EmptyTyped, ShortQueues DEF ChanInit, ChanTyped, Device

LEMMA TakeWriteTyped ==
    ASSUME ChanTyped, cmdq # <<>>, NEW outcomes,
           \A o \in outcomes : o \in Outcome /\ (o.end = "failed" => Ready),
           TakeWrite(outcomes)
    PROVE  ChanTyped'
<1>1. PICK o \in outcomes :
         /\ pend' = o.p
         /\ air' = o.a
         /\ cmdq' = IF o.end = "retry" THEN TokenPosted(Tail(cmdq)) ELSE Tail(cmdq)
         /\ wanted' = (wanted \/ o.end \in {"held", "failed"})
         /\ \/ link' = link
            \/ o.end = "failed" /\ link' = [link EXCEPT !.term = TRUE]
  BY Zenon DEF TakeWrite
<1>2. o \in Outcome /\ (o.end = "failed" => Ready)
  BY <1>1
<1>3. o.p \in Slots /\ o.a \in Airs
  BY <1>2 DEF Outcome
<1>4. Tail(cmdq) \in Queue
  BY QueueTyped DEF ChanTyped
<1>5. TokenPosted(Tail(cmdq)) \in Queue
  BY <1>4, QueueTyped
<1>6. link' \in Links
  BY <1>1, <1>2, LinkTypes DEF ChanTyped, Ready
<1>7. wanted' \in BOOLEAN
  BY <1>1
<1> QED
  BY <1>1, <1>3, <1>4, <1>5, <1>6, <1>7 DEF TakeWrite, ChanTyped

LEMMA TakeCmdTyped ==
    ASSUME ChanTyped, TakeCmd
    PROVE  ChanTyped'
<1> DEFINE c == Head(cmdq)
<1>1. cmdq # <<>> /\ c \in Cmds /\ Tail(cmdq) \in Queue
  BY QueueTyped DEF ChanTyped, TakeCmd
<1>2. Ready \in BOOLEAN /\ pend \in Slots /\ air \in Airs
  BY LinkTypes DEF ChanTyped
<1>3. \/ c \in RmlCmds /\ TakeWrite(WriteOutcomes(Ready, pend, air, "rml", c))
      \/ c \in ValveCmds /\ TakeWrite(ValveOutcomes(pend, air, c))
      \/ TakeWrite(ReplayOutcomes(pend, air))
      \/ /\ cmdq' = Tail(cmdq)
         /\ UNCHANGED <<target, wanted, pend, link, air, cache, updq, dev>>
      \/ /\ cmdq' = Tail(cmdq)
         /\ wanted' = HasTarget
         /\ UNCHANGED <<target, pend, link, air, cache, updq, dev>>
      \/ /\ cmdq' = Tail(cmdq)
         /\ wanted' = FALSE
         /\ link' = IF Linked THEN [link EXCEPT !.term = TRUE] ELSE link
         /\ UNCHANGED <<target, pend, air, cache, updq, dev>>
  BY Zenon DEF TakeCmd
<1> HIDE DEF c
<1>4. CASE c \in RmlCmds /\ TakeWrite(WriteOutcomes(Ready, pend, air, "rml", c))
  <2>1. \A o \in WriteOutcomes(Ready, pend, air, "rml", c) :
           o \in Outcome /\ (o.end = "failed" => Ready)
    BY <1>2, <1>4, WriteTyped DEF Fits
  <2> QED
    BY <2>1, <1>1, <1>4, TakeWriteTyped
<1>5. CASE c \in ValveCmds /\ TakeWrite(ValveOutcomes(pend, air, c))
  <2>1. \A o \in ValveOutcomes(pend, air, c) : o \in Outcome /\ (o.end = "failed" => Ready)
    BY <1>2, <1>5, ValveTyped
  <2> QED
    BY <2>1, <1>1, <1>5, TakeWriteTyped
<1>6. CASE TakeWrite(ReplayOutcomes(pend, air))
  <2>1. \A o \in ReplayOutcomes(pend, air) : o \in Outcome /\ (o.end = "failed" => Ready)
    BY <1>2, ReplayTyped
  <2> QED
    BY <2>1, <1>1, <1>6, TakeWriteTyped
<1>7. CASE /\ cmdq' = Tail(cmdq)
           /\ UNCHANGED <<target, wanted, pend, link, air, cache, updq, dev>>
  BY <1>1, <1>7 DEF ChanTyped
<1>8. CASE /\ cmdq' = Tail(cmdq)
           /\ wanted' = HasTarget
           /\ UNCHANGED <<target, pend, link, air, cache, updq, dev>>
  BY <1>1, <1>8 DEF ChanTyped, HasTarget
<1>9. CASE /\ cmdq' = Tail(cmdq)
           /\ wanted' = FALSE
           /\ link' = IF Linked THEN [link EXCEPT !.term = TRUE] ELSE link
           /\ UNCHANGED <<target, pend, air, cache, updq, dev>>
  BY <1>1, <1>9, LinkTypes DEF ChanTyped
<1> QED
  BY <1>3, <1>4, <1>5, <1>6, <1>7, <1>8, <1>9

LEMMA LinkUpTyped ==
    ASSUME ChanTyped, LinkUp
    PROVE  ChanTyped'
BY EmptyTyped DEF LinkUp, ChanTyped, Links, HasTarget

LEMMA SetupDoneTyped ==
    ASSUME ChanTyped, SetupDone
    PROVE  ChanTyped'
<1>1. link' \in Links
  BY LinkTypes DEF SetupDone
<1>2. CASE LinkIsTarget
  <2>1. cache' = [pos |-> dev[target].pos, rml |-> dev[target].rml, leak |-> dev[target].flood]
    BY <1>2, Zenon DEF SetupDone
  <2>2. dev[target] \in Device
    BY <1>2 DEF LinkIsTarget, HasTarget, ChanTyped
  <2>3. cache' \in Caches
    BY <2>1, <2>2 DEF Caches, Device
  <2>4. updq' \in Notices
    <3>1. Notified(updq, "connected") \in Notices
      BY NoticeTyped DEF ChanTyped, Updates
    <3>2. Notified(Notified(updq, "connected"), "leak") \in Notices
      BY <3>1, NoticeTyped DEF Updates
    <3> QED
      BY <3>2, <1>2 DEF SetupDone
  <2>5. PICK o \in SetupOutcomes(pend, air) :
           /\ pend' = o.p
           /\ air' = o.a
           /\ cmdq' = IF o.end = "sent" THEN cmdq ELSE TokenPosted(cmdq)
    BY <1>2, Zenon DEF SetupDone
  <2>6. o.p \in Slots /\ o.a \in Airs
    BY SetupTyped DEF ChanTyped, Outcome
  <2>7. cmdq' \in Queue
    BY <2>5, QueueTyped DEF ChanTyped
  <2> QED
    BY <1>1, <2>3, <2>4, <2>5, <2>6, <2>7 DEF SetupDone, ChanTyped
<1>3. CASE ~LinkIsTarget
  BY <1>1, <1>3 DEF SetupDone, ChanTyped
<1> QED
  BY <1>2, <1>3

LEMMA LinkDropTyped ==
    ASSUME ChanTyped, LinkDrop
    PROVE  ChanTyped'
BY EmptyTyped DEF LinkDrop, Unlink, ChanTyped

(* What a write makes of the valve it reaches.                              *)
Obeyed(d, c) ==
    CASE c = "set"   -> [d EXCEPT !.rml = TRUE, !.pos = "closed"]
      [] c = "clear" -> [d EXCEPT !.rml = FALSE]
      [] c = "close" -> [d EXCEPT !.pos = "closed"]
      [] c = "open"  -> IF d.rml \/ d.flood THEN d ELSE [d EXCEPT !.pos = "open"]

LEMMA ObeyedTyped ==
    ASSUME NEW d \in Device, NEW c \in Writes
    PROVE  /\ Obeyed(d, c) \in Device
           /\ Obeyed(d, c).rml => c = "set" \/ (c # "clear" /\ d.rml)
BY DEF Device, Writes, RmlCmds, ValveCmds, Obeyed

LEMMA DeliverShape ==
    ASSUME Deliver
    PROVE  /\ dev' = [dev EXCEPT ![link.peer] = Obeyed(dev[link.peer], Head(air))]
           /\ \E read \in BOOLEAN :
                cache' = IF ~Heard(link.peer) THEN cache
                         ELSE [cache EXCEPT
                                 !.pos = Obeyed(dev[link.peer], Head(air)).pos,
                                 !.rml = IF read /\ Head(air) \in RmlCmds
                                           THEN Obeyed(dev[link.peer], Head(air)).rml ELSE @]
           /\ air # <<>> /\ air' = Tail(air)
           /\ UNCHANGED <<target, wanted, cmdq, pend, link, updq>>
BY DEF Deliver, Obeyed

LEMMA DeliverTyped ==
    ASSUME ChanTyped, Deliver
    PROVE  ChanTyped'
<1> DEFINE n == Obeyed(dev[link.peer], Head(air))
<1>1. Head(air) \in Writes /\ Tail(air) \in Airs
  <2>1. air # <<>> /\ air \in Seq(Writes)
    BY DEF Deliver, ChanTyped, Airs
  <2>2. Head(air) \in Writes /\ Tail(air) \in Seq(Writes) /\ Len(Tail(air)) = Len(air) - 1
        /\ Len(air) \in Nat \ {0}
    BY <2>1, FirstAndRest
  <2> QED
    BY <2>2 DEF ChanTyped, Airs
<1>2. link.peer \in Valves => n \in Device
  BY <1>1, ObeyedTyped DEF ChanTyped
<1>3. dev' = [dev EXCEPT ![link.peer] = n]
  BY DeliverShape
<1>4. PICK read \in BOOLEAN :
         cache' = IF ~Heard(link.peer) THEN cache
                  ELSE [cache EXCEPT !.pos = n.pos,
                                     !.rml = IF read /\ Head(air) \in RmlCmds THEN n.rml ELSE @]
  BY DeliverShape
<1> HIDE DEF n
<1>5. dev' \in [Valves -> Device]
  BY <1>2, <1>3 DEF ChanTyped
<1>6. cache' \in Caches
  <2>1. CASE Heard(link.peer)
    <3>1. n \in Device
      BY <2>1, <1>2, LinkTypes DEF Heard
    <3> QED
      BY <3>1, <2>1, <1>4 DEF ChanTyped, Caches, Device
  <2> QED
    BY <2>1, <1>4 DEF ChanTyped
<1> QED
  BY <1>1, <1>5, <1>6, DeliverShape DEF ChanTyped

LEMMA PressTyped ==
    ASSUME ChanTyped, NEW v \in Valves, Press(v)
    PROVE  ChanTyped'
<1> DEFINE n == IF dev[v].pos = "closed" THEN [dev[v] EXCEPT !.pos = "open", !.rml = FALSE]
                                         ELSE [dev[v] EXCEPT !.pos = "closed"]
<1>1. /\ dev' = [dev EXCEPT ![v] = n]
      /\ cache' = IF Heard(v) THEN [cache EXCEPT !.pos = n.pos, !.rml = n.rml] ELSE cache
      /\ UNCHANGED <<target, wanted, cmdq, pend, link, air, updq>>
  BY DEF Press
<1>2. n \in Device
  BY DEF ChanTyped, Device
<1> HIDE DEF n
<1>3. dev' \in [Valves -> Device]
  BY <1>1, <1>2 DEF ChanTyped
<1>4. cache' \in Caches
  BY <1>1, <1>2 DEF ChanTyped, Caches, Device
<1> QED
  BY <1>1, <1>3, <1>4 DEF ChanTyped

LEMMA FloodTyped ==
    ASSUME ChanTyped, NEW v \in Valves, FloodChange(v)
    PROVE  ChanTyped'
<1> DEFINE n == [dev[v] EXCEPT !.flood = ~@, !.pos = IF dev[v].flood THEN @ ELSE "closed"]
<1>1. /\ dev' = [dev EXCEPT ![v] = n]
      /\ cache' = IF Heard(v) THEN [cache EXCEPT !.pos = n.pos, !.leak = n.flood] ELSE cache
      /\ updq' = IF Heard(v) THEN Notified(updq, "leak") ELSE updq
      /\ UNCHANGED <<target, wanted, cmdq, pend, link, air>>
  BY DEF FloodChange
<1>2. n \in Device
  BY DEF ChanTyped, Device
<1> HIDE DEF n
<1>3. dev' \in [Valves -> Device]
  BY <1>1, <1>2 DEF ChanTyped
<1>4. cache' \in Caches
  BY <1>1, <1>2 DEF ChanTyped, Caches, Device
<1>5. updq' \in Notices
  BY <1>1, NoticeTyped DEF ChanTyped, Updates
<1> QED
  BY <1>1, <1>3, <1>4, <1>5 DEF ChanTyped

LEMMA PowerTyped ==
    ASSUME ChanTyped, NEW v \in Valves, PowerLoss(v)
    PROVE  ChanTyped'
<1>1. PICK kept \in BOOLEAN :
         dev' = [dev EXCEPT ![v].rml = @ /\ kept,
                            ![v].pos = IF dev[v].rml /\ kept THEN "closed" ELSE @]
  BY DEF PowerLoss
<1>2. dev' \in [Valves -> Device]
  BY <1>1 DEF ChanTyped, Device
<1>3. link' \in Links /\ cache' \in Caches /\ air' \in Airs
  BY EmptyTyped DEF PowerLoss, Unlink, ChanTyped
<1> QED
  BY <1>2, <1>3 DEF PowerLoss, ChanTyped

-----------------------------------------------------------------------------
(* The holds of g_mutex.  What a hold makes of the engine: it owes no       *)
(* purge; a lock is noted as seen only if it was, and not of a valve since  *)
(* replaced, or the hold looks at the cache and finds it there; only the    *)
(* sources in gained are wet that were not; no lock is noted over a clear   *)
(* still owed; and only a hold that looks opens a window.                   *)

SeenBefore == eng.confirmed /\ ~eng.purge
SeenNow    == cache.rml /\ LinkIsTarget

From(f, gained, looks) ==
    /\ f \in Engine
    /\ ~f.purge
    /\ f.confirmed => SeenBefore \/ (looks /\ SeenNow)
    /\ f.active \subseteq eng.active \cup gained
    /\ f.owed /\ f.confirmed => eng.owed /\ eng.confirmed
    /\ f.window \in {eng.window, "off"} \/ looks

(* What a change of the engine's fields must keep to, not to matter here.   *)
Alike(h, f, looks) ==
    /\ h \in Engine
    /\ h.purge = f.purge
    /\ h.confirmed => f.confirmed /\ (h.owed => f.owed)
    /\ h.active \subseteq f.active
    /\ h.window \in {f.window, "off"} \/ looks

Unpended == pend'.rml = "clear" => pend.rml = "clear"
Hold(gained, looks) == From(eng', gained, looks) /\ pend' \in Slots /\ Unpended

LEMMA FromLike ==
    ASSUME NEW f, NEW h, NEW g, NEW b \in BOOLEAN, From(f, g, b), Alike(h, f, b)
    PROVE  From(h, g, b)
BY DEF From, Alike

LEMMA FromMore ==
    ASSUME NEW f, NEW g, NEW h, g \subseteq h, NEW b \in BOOLEAN, From(f, g, FALSE)
    PROVE  From(f, h, b)
BY DEF From

LEMMA FromMarks ==
    ASSUME NEW f, NEW g, NEW b \in BOOLEAN, From(f, g, b)
    PROVE  /\ From(Latched(f), g, b)
           /\ From(Released(f), g, b) /\ ~Released(f).confirmed
           /\ From(Asserting(f), g, b)
           /\ From(Closing(f), g, b)
           /\ b /\ SeenNow => From(Seen(f), g, b)
<1>1. f \in Engine
  BY DEF From
<1>2. From(Latched(f), g, b)
  <2>1. Alike(Latched(f), f, b)
    BY <1>1 DEF Alike, Engine, Latched
  <2> QED
    BY <2>1, FromLike
<1>3. From(Released(f), g, b) /\ ~Released(f).confirmed
  <2>1. Alike(Released(f), f, b) /\ ~Released(f).confirmed
    BY <1>1 DEF Alike, Engine, Released
  <2> QED
    BY <2>1, FromLike
<1>4. ASSUME NEW h, From(h, g, b) PROVE From(Asserting(h), g, b)
  <2>1. Alike(Asserting(h), h, b)
    BY <1>4 DEF From, Alike, Engine, Asserting
  <2> QED
    BY <2>1, <1>4, FromLike
<1>5. From(Closing(f), g, b)
  <2> DEFINE h == Asserting(Latched(f))
  <2>1. From(h, g, b)
    BY <1>2, <1>4
  <2> HIDE DEF h
  <2> DEFINE c == [h EXCEPT !.triggered = TRUE, !.allclear = "off"]
  <2>2. Alike(c, h, b)
    BY <2>1 DEF From, Alike, Engine
  <2> HIDE DEF c
  <2>3. From(c, g, b)
    BY <2>1, <2>2, FromLike
  <2> QED
    BY <2>3 DEF Closing, c, h
<1>6. ASSUME b, SeenNow PROVE From(Seen(f), g, b)
  <2>1. /\ Seen(f) \in Engine
        /\ Seen(f).purge = f.purge
        /\ Seen(f).active = f.active
        /\ Seen(f).owed = f.owed
        /\ Seen(f).confirmed = (f.confirmed \/ ~f.owed)
    BY <1>1 DEF Engine, Seen
  <2> QED
    BY <2>1, <1>6 DEF From
<1> QED
  BY <1>1, <1>2, <1>3, <1>4, <1>5, <1>6

LEMMA FromWet ==
    ASSUME NEW f, NEW g, NEW b \in BOOLEAN, From(f, g, b), NEW s \in Sources
    PROVE  From(TrackWet(f, s), g \cup {s}, b)
<1>1. CASE s \in f.active
  BY <1>1 DEF TrackWet, From
<1>2. CASE s \notin f.active
  <2> DEFINE a == IF Cardinality(f.active) < MaxActive THEN f.active \cup {s} ELSE f.active
  <2>1. a \subseteq f.active \cup {s}
    OBVIOUS
  <2> HIDE DEF a
  <2> DEFINE h == [f EXCEPT !.allclear = "off", !.active = a]
  <2>2. /\ h \in Engine /\ h.purge = f.purge /\ h.confirmed = f.confirmed /\ h.active = a
        /\ h.owed = f.owed /\ h.window = f.window
    BY <2>1 DEF From, Engine, Sources
  <2> HIDE DEF h
  <2>3. From(h, g \cup {s}, b)
    BY <2>1, <2>2 DEF From
  <2> QED
    BY <2>3, <1>2 DEF TrackWet, h, a
<1> QED
  BY <1>1, <1>2

(* A hold in progress: the engine and the slots.                            *)
Holds == {st \in [e : Engine, p : Slots] : st.p.rml = "clear" => pend.rml = "clear"}

LEMMA CancelTyped ==
    ASSUME NEW p \in Slots
    PROVE  /\ CancelPendingClose(p) \in Slots
           /\ CancelPendingClose(p).rml = "clear" => p.rml = "clear"
BY DEF Slots, CancelPendingClose

LEMMA DryTyped ==
    ASSUME NEW st \in Holds, NEW s
    PROVE  /\ TrackDry(st, s) \in Holds
           /\ Alike(TrackDry(st, s).e, st.e, FALSE)
           /\ TrackDry(st, s).e.active = st.e.active \ {s}
<1> DEFINE e == [st.e EXCEPT !.active = @ \ {s}]
<1>0. st.e \in Engine
  BY DEF Holds
<1>1. Alike(e, st.e, FALSE) /\ e \in Engine /\ e.active = st.e.active \ {s}
  BY <1>0 DEF Engine, Alike
<1>2. /\ st.p \in Slots /\ CancelPendingClose(st.p) \in Slots
      /\ st.p.rml = "clear" => pend.rml = "clear"
      /\ CancelPendingClose(st.p).rml = "clear" => pend.rml = "clear"
  BY CancelTyped DEF Holds
<1> HIDE DEF e
<1>3. CASE Active(e)
  <2>1. TrackDry(st, s) = [st EXCEPT !.e = e]
    BY <1>3 DEF TrackDry, e
  <2> QED
    BY <2>1, <1>1, <1>2 DEF Holds
<1>4. CASE ~Active(e)
  <2> DEFINE h == [e EXCEPT !.triggered = FALSE,
                            !.allclear = IF e.incident /\ @ = "off" THEN "running" ELSE @]
             p == IF e.triggered THEN CancelPendingClose(st.p) ELSE st.p
  <2>1. TrackDry(st, s) = [e |-> h, p |-> p]
    BY <1>4 DEF TrackDry, e
  <2>2. Alike(h, e, FALSE) /\ h \in Engine /\ h.active = e.active
    BY <1>1 DEF Engine, Alike
  <2>3. p \in Slots /\ (p.rml = "clear" => pend.rml = "clear")
    BY <1>2
  <2> HIDE DEF h, p
  <2>4. Alike(h, st.e, FALSE)
    BY <2>2, <1>1 DEF Alike
  <2>5. /\ [e |-> h, p |-> p] \in Holds
        /\ [e |-> h, p |-> p].e = h
    BY <2>2, <2>3 DEF Holds
  <2> QED
    BY <2>1, <2>2, <2>4, <2>5, <1>1
<1> QED
  BY <1>3, <1>4

LEMMA FromDry ==
    ASSUME NEW st \in Holds, NEW s, NEW g, From(st.e, g, FALSE)
    PROVE  TrackDry(st, s) \in Holds /\ From(TrackDry(st, s).e, g, FALSE)
BY DryTyped, FromLike

(* valve_replaced_locked() forgets the lock, whatever came before it.       *)
LEMMA FromReplaced ==
    ASSUME NEW st \in Holds, st.e.active \subseteq eng.active, st.e.window = eng.window
    PROVE  /\ Replaced(st) \in Holds
           /\ From(Replaced(st).e, {}, FALSE)
           /\ ~Replaced(st).e.confirmed
<1> DEFINE d == TrackDry(st, Probe)
           e == [d.e EXCEPT !.owed = FALSE, !.confirmed = FALSE, !.purge = FALSE]
           f == [Released(e) EXCEPT !.grace = FALSE]
<1>1. d \in Holds /\ d.e.active \subseteq eng.active /\ d.e.window \in {eng.window, "off"}
  BY DryTyped DEF Alike
<1>2. d.e \in Engine
  BY <1>1 DEF Holds
<1>3. Replaced(st) = [d EXCEPT !.e = IF e.incident /\ ~Active(e) THEN f ELSE e]
  BY DEF Replaced
<1> HIDE DEF d
<1>4. /\ e \in Engine /\ ~e.purge /\ ~e.confirmed /\ e.active = d.e.active
      /\ e.window = d.e.window
  BY <1>2 DEF Engine
<1> HIDE DEF e
<1>5. f \in Engine /\ ~f.purge /\ ~f.confirmed /\ f.active = e.active /\ f.window = e.window
  BY <1>4 DEF Engine, Released
<1> HIDE DEF f
<1>6. ASSUME NEW h \in {e, f}
      PROVE  [d EXCEPT !.e = h] \in Holds /\ [d EXCEPT !.e = h].e = h
  BY <1>1, <1>4, <1>5, <1>6 DEF Holds
<1>7. From(e, {}, FALSE) /\ From(f, {}, FALSE)
  BY <1>1, <1>4, <1>5 DEF From
<1> QED
  BY <1>3, <1>4, <1>5, <1>6, <1>7

LEMMA HeldFrom ==
    ASSUME eng \in Engine, pend \in Slots
    PROVE  /\ Held \in Holds /\ Held.e \in Engine /\ From(Held.e, {}, FALSE)
           /\ Held.p \in Slots /\ (Held.p.rml = "clear" => pend.rml = "clear")
<1> DEFINE st == [e |-> eng, p |-> pend]
<1>1. st \in Holds /\ st.e = eng /\ st.p = pend
  BY DEF Holds
<1>2. CASE eng.purge
  <2>1. Held = Replaced(st)
    BY <1>2 DEF Held
  <2> HIDE DEF st
  <2>2. Held \in Holds /\ From(Held.e, {}, FALSE)
    BY <2>1, <1>1, FromReplaced
  <2> HIDE DEF Held
  <2> QED
    BY <2>2 DEF Holds
<1>3. CASE ~eng.purge
  <2>1. Held = st
    BY <1>3 DEF Held
  <2> QED
    BY <2>1, <1>1, <1>3 DEF From, SeenBefore
<1> QED
  BY <1>2, <1>3

-----------------------------------------------------------------------------
(* The types of the engine's side.                                          *)

HubQueue == {q \in Seq({"set", "close", "connect", "sync", "event"}) : Len(q) <= 4}
MqQueue  == {q \in Seq(Writes \cup {"connect", "disconnect"}) : Len(q) <= 3}
Hist     == [rml    : [Valves -> {"none", "set", "hub", "press", "power"}],
             misled : SUBSET {"early", "seen", "inferred", "unseen", "unheard"}]

EngTyped ==
    /\ eng \in Engine
    /\ rules \in [auto : BOOLEAN, mask : SUBSET Sources]
    /\ members \subseteq Sensors
    /\ hubTodo \in HubQueue
    /\ mqTodo \in MqQueue
    /\ mq \in {"idle", "waiting", "enabling"}
    /\ devset \in BOOLEAN
    /\ detValve \in Valves \cup {NoValve}
    /\ wet \subseteq Sensors
    /\ events \in 0..MaxEvents
    /\ hist \in Hist

Typed == ChanTyped /\ EngTyped

LEMMA AllTypes == TypeOK <=> Typed /\ unsure \in BOOLEAN
BY ChanTypes DEF TypeOK, Typed, EngTyped, HubQueue, MqQueue, Hist

LEMMA HubLists ==
    /\ {<<>>, <<"event">>, <<"sync">>, <<"set">>, <<"set", "close">>, CloseCmds,
        Append(CloseCmds, "event")} \subseteq HubQueue
    /\ <<"sync">> \notin {<<>>, <<"event">>, <<"set">>, <<"set", "close">>, CloseCmds,
                          Append(CloseCmds, "event")}
<1> DEFINE C == {"set", "close", "connect", "sync", "event"}
<1>1. /\ <<>> \in Seq(C) /\ Len(<<>>) = 0
      /\ <<"event">> \in Seq(C) /\ Len(<<"event">>) = 1
      /\ <<"sync">> \in Seq(C) /\ Len(<<"sync">>) = 1
      /\ <<"set">> \in Seq(C) /\ Len(<<"set">>) = 1
      /\ <<"set", "close">> \in Seq(C) /\ Len(<<"set", "close">>) = 2
      /\ <<"set", "close", "connect">> \in Seq(C) /\ Len(<<"set", "close", "connect">>) = 3
  OBVIOUS
<1>2. CloseCmds \in {<<>>, <<"set", "close">>, <<"set", "close", "connect">>}
  BY DEF CloseCmds
<1>3. CloseCmds \in Seq(C) /\ Len(CloseCmds) \in Nat /\ Len(CloseCmds) <= 3
  <2>1. CloseCmds \in Seq(C) /\ Len(CloseCmds) \in {0, 2, 3}
    BY <1>1, <1>2
  <2>2. \A n \in {0, 2, 3} : n \in Nat /\ n <= 3
    OBVIOUS
  <2> QED
    BY <2>1, <2>2, Zenon
<1> DEFINE q == Append(CloseCmds, "event")
<1>4. /\ q \in Seq(C) /\ Len(q) = Len(CloseCmds) + 1
      /\ q[Len(CloseCmds) + 1] = "event"
  BY <1>3, AppendProperties
<1> HIDE DEF q
<1>5. q \in HubQueue /\ q # <<"sync">>
  <2>1. Len(<<"sync">>) = 1 /\ <<"sync">>[1] = "sync"
    OBVIOUS
  <2>2. q \in HubQueue
    BY <1>3, <1>4 DEF HubQueue
  <2> QED
    BY <2>1, <2>2, <1>3, <1>4
<1>6. CloseCmds # <<"sync">>
  BY <1>2
<1>7. <<"sync">> \notin {<<>>, <<"event">>, <<"set">>, <<"set", "close">>}
  OBVIOUS
<1> QED
  BY <1>1, <1>3, <1>5, <1>6, <1>7 DEF HubQueue, q

LEMMA MqLists ==
    /\ {<<>>, <<"connect">>, <<"disconnect">>, <<"clear", "open">>, CloseCmds} \subseteq MqQueue
    /\ \A c \in Writes : <<"connect", c>> \in MqQueue
<1> DEFINE C == Writes \cup {"connect", "disconnect"}
<1>1. /\ <<>> \in Seq(C) /\ Len(<<>>) = 0
      /\ <<"connect">> \in Seq(C) /\ Len(<<"connect">>) = 1
      /\ <<"disconnect">> \in Seq(C) /\ Len(<<"disconnect">>) = 1
      /\ <<"clear", "open">> \in Seq(C) /\ Len(<<"clear", "open">>) = 2
      /\ <<"set", "close">> \in Seq(C) /\ Len(<<"set", "close">>) = 2
      /\ <<"set", "close", "connect">> \in Seq(C) /\ Len(<<"set", "close", "connect">>) = 3
  BY DEF Writes, RmlCmds, ValveCmds
<1>2. CloseCmds \in {<<>>, <<"set", "close">>, <<"set", "close", "connect">>}
  BY DEF CloseCmds
<1>3. ASSUME NEW c \in Writes PROVE <<"connect", c>> \in MqQueue
  <2>1. <<"connect", c>> \in Seq(C) /\ Len(<<"connect", c>>) = 2
    OBVIOUS
  <2> QED
    BY <2>1 DEF MqQueue
<1>4. <<>> \in MqQueue
  BY <1>1 DEF MqQueue
<1>5. {<<"connect">>, <<"disconnect">>, <<"clear", "open">>} \subseteq MqQueue
  BY <1>1 DEF MqQueue
<1>6. CloseCmds \in MqQueue
  <2>1. CloseCmds \in Seq(C) /\ Len(CloseCmds) \in {0, 2, 3}
    BY <1>1, <1>2
  <2>2. \A n \in {0, 2, 3} : n <= 3
    OBVIOUS
  <2> QED
    BY <2>1, <2>2, Zenon DEF MqQueue
<1> QED
  BY <1>3, <1>4, <1>5, <1>6

LEMMA EventTyped ==
    ASSUME EngTyped, NEW k, Event(k) \/ UNCHANGED events
    PROVE  events' \in 0..MaxEvents
BY DEF EngTyped, Event

LEMMA TrustedTyped ==
    ASSUME hist \in Hist, Trusted
    PROVE  hist' \in Hist /\ hist'.rml = hist.rml /\ hist.misled \subseteq hist'.misled
<1> DEFINE new == (IF eng.owed /\ ~eng'.owed /\ ~eng'.incident /\ OnItsWay("set")
                     THEN {"early"} ELSE {})
                  \cup (IF ~eng.confirmed /\ eng'.confirmed /\ OnItsWay("clear")
                          THEN {"seen"} ELSE {})
                  \cup (IF ~Window(eng) /\ Window(eng') /\ updq' # updq /\ ~Pressed
                          THEN {"inferred"} ELSE {})
<1>1. hist' = [hist EXCEPT !.misled = @ \cup new]
  BY DEF Trusted
<1>2. new \subseteq {"early", "seen", "inferred", "unseen", "unheard"}
  OBVIOUS
<1> HIDE DEF new
<1> QED
  BY <1>1, <1>2 DEF Hist

LEMMA UnheardTyped == \A v : Unheard(v) \in {{}, {"unheard"}}
BY DEF Unheard

(* The steps of the hub loop leave to the other tasks what is theirs.       *)
LEMMA HubTyped ==
    ASSUME Typed, hubFrame, eng' \in Engine, pend' \in Slots, cmdq' \in Queue,
           updq' \in Notices, hubTodo' \in HubQueue, devset' \in BOOLEAN,
           detValve' \in Valves \cup {NoValve}, events' \in 0..MaxEvents, hist' \in Hist
    PROVE  Typed'
BY DEF Typed, ChanTyped, EngTyped, hubFrame

(* ... and so do the steps of the MQTT task.                                *)
LEMMA MqTyped ==
    ASSUME Typed, mqStays, eng' \in Engine, pend' \in Slots, cmdq' \in Queue,
           target' \in Valves \cup {NoValve}, wanted' \in BOOLEAN,
           rules' \in [auto : BOOLEAN, mask : SUBSET Sources], members' \subseteq Sensors,
           mqTodo' \in MqQueue, mq' \in {"idle", "waiting", "enabling"}, devset' \in BOOLEAN,
           events' \in 0..MaxEvents, hist' \in Hist
    PROVE  Typed'
BY DEF Typed, ChanTyped, EngTyped, mqStays

(* ... and those of the valve task, the host and the valve.                 *)
LEMMA ChanStepTyped ==
    ASSUME Typed, ChanTyped', engHolds, events' \in 0..MaxEvents, hist' \in Hist
    PROVE  Typed'
BY DEF Typed, EngTyped, engHolds

-----------------------------------------------------------------------------
(* Action by action: the hold of an action, and what it leaves to be        *)
(* posted.  An action that posts a CLEAR leaves no lock noted as seen.      *)

NotSync == HubQueue \ {<<"sync">>}

SomeClear == (eng.owed /\ eng.confirmed) \/ ~eng'.confirmed
CmdqOrClear == cmdq' = cmdq \/ (cmdq' = Posted(cmdq, "clear") /\ SomeClear)

LEMMA CmdqTyped ==
    ASSUME Typed, CmdqOrClear
    PROVE  cmdq' \in Queue
BY QueueTyped DEF CmdqOrClear, Typed, ChanTyped, Cmds, Writes, RmlCmds

LEMMA DryShape ==
    ASSUME Typed, NEW s, EvaluateDry(s)
    PROVE  Hold({}, FALSE) /\ hubTodo' = <<>>
<1>1. Held \in Holds /\ From(Held.e, {}, FALSE)
  BY HeldFrom DEF Typed, ChanTyped, EngTyped
<1>2. TrackDry(Held, s) \in Holds /\ From(TrackDry(Held, s).e, {}, FALSE)
  BY <1>1, FromDry
<1>3. /\ TrackDry(Held, s).p \in Slots
      /\ TrackDry(Held, s).p.rml = "clear" => pend.rml = "clear"
  BY <1>2 DEF Holds
<1>4. eng' = TrackDry(Held, s).e /\ pend' = TrackDry(Held, s).p /\ hubTodo' = <<>>
  BY Zenon DEF EvaluateDry, Commit
<1> QED
  BY <1>2, <1>3, <1>4, Zenon DEF Hold, Unpended

LEMMA WetShape ==
    ASSUME Typed, NEW s \in Sources, EvaluateWet(s)
    PROVE  Hold({s}, FALSE) /\ hubTodo' \in NotSync
<1> DEFINE e == TrackWet(Held.e, s)
           a == Asserting(Latched(e))
           c == [a EXCEPT !.triggered = TRUE, !.cooling = TRUE]
<1>1. /\ From(Held.e, {}, FALSE)
      /\ Held.p \in Slots /\ (Held.p.rml = "clear" => pend.rml = "clear")
  BY HeldFrom DEF Typed, ChanTyped, EngTyped
<1>2. From(e, {} \cup {s}, FALSE)
  BY <1>1, FromWet
<1>3. From(e, {s}, FALSE)
  BY <1>2
<1>4. pend' = Held.p /\ \/ eng' = e /\ hubTodo' = <<>>
                        \/ eng' = Latched(e) /\ hubTodo' = <<>>
                        \/ eng' = c /\ hubTodo' = CloseCmds
  BY Zenon DEF EvaluateWet, Commit
<1> HIDE DEF e
<1>5. From(Latched(e), {s}, FALSE)
  BY <1>3, FromMarks
<1>6. From(a, {s}, FALSE)
  BY <1>5, FromMarks
<1> HIDE DEF a
<1>7. Alike(c, a, FALSE)
  BY <1>6 DEF From, Alike, Engine
<1> HIDE DEF c
<1>8. From(c, {s}, FALSE)
  BY <1>6, <1>7, FromLike
<1>9. hubTodo' \in NotSync
  BY <1>4, HubLists DEF NotSync
<1> QED
  BY <1>1, <1>3, <1>4, <1>5, <1>8, <1>9, Zenon DEF Hold, Unpended

LEMMA ReconcileShape ==
    ASSUME Typed, LinkIsTarget, Reconcile
    PROVE  Hold({}, TRUE) /\ hubTodo' \in NotSync /\ CmdqOrClear
<1> DEFINE st == Held
           e  == [st.e EXCEPT !.grace = @ \/ st.e.incident \/ st.e.triggered]
           r  == [e EXCEPT !.incident = TRUE, !.triggered = TRUE, !.grace = TRUE, !.allclear = "off"]
           w  == [e EXCEPT !.incident = FALSE, !.triggered = FALSE, !.allclear = "off",
                           !.window = "on"]
<1>1. /\ From(st.e, {}, TRUE)
      /\ st.p \in Slots /\ (st.p.rml = "clear" => pend.rml = "clear")
  BY HeldFrom, FromMore DEF Typed, ChanTyped, EngTyped
<1>2. /\ pend' = st.p
      /\ \/ eng' \in {e, Latched(e), Closing(e), w, Asserting(e)}
         \/ eng' \in {Seen(r), Seen(e)} /\ cache.rml
      /\ hubTodo' \in {<<>>, <<"set">>, <<"set", "close">>}
      /\ cmdq' = cmdq \/ (cmdq' = Posted(cmdq, "clear") /\ eng' = e /\ e.owed)
  BY Zenon DEF Reconcile, Commit
<1> HIDE DEF st
<1>3. e \in Engine /\ Alike(e, st.e, TRUE)
  BY <1>1 DEF From, Alike, Engine
<1> HIDE DEF e
<1>4. From(e, {}, TRUE)
  BY <1>1, <1>3, FromLike
<1>5. Alike(r, e, TRUE) /\ Alike(w, e, TRUE)
  BY <1>3 DEF Engine, Alike
<1> HIDE DEF r, w
<1>6. From(r, {}, TRUE) /\ From(w, {}, TRUE)
  BY <1>4, <1>5, FromLike
<1>7. From(Latched(e), {}, TRUE) /\ From(Closing(e), {}, TRUE) /\ From(Asserting(e), {}, TRUE)
  BY <1>4, FromMarks
<1>8. cache.rml => From(Seen(r), {}, TRUE) /\ From(Seen(e), {}, TRUE)
  BY <1>4, <1>6, FromMarks DEF SeenNow
<1>9. From(eng', {}, TRUE)
  BY <1>2, <1>4, <1>6, <1>7, <1>8, Zenon
<1>10. CmdqOrClear
  BY <1>2, <1>4 DEF From, CmdqOrClear, SomeClear
<1> QED
  BY <1>1, <1>2, <1>9, <1>10, HubLists DEF Hold, Unpended, NotSync

LEMMA TickShape ==
    ASSUME Typed, Tick
    PROVE  /\ Hold({}, TRUE) /\ hubTodo' \in NotSync /\ CmdqOrClear
           \* a window is opened for a lock that was noted and is gone
           /\ WindowStarts => SeenBefore /\ Ready /\ ~cache.rml
<1> DEFINE st == Held
           e  == IF st.e.window = "due" THEN [st.e EXCEPT !.window = "off"] ELSE st.e
           s  == IF Ready /\ cache.rml THEN Seen(e) ELSE e
           o  == [e EXCEPT !.owed = @ /\ ~(Ready /\ ~cache.rml)]
           c  == [Released(s) EXCEPT !.owed = @ \/ CanPost(cmdq)]
           k  == [s EXCEPT !.wasReady = @ /\ Ready]
           g  == [s EXCEPT !.wasReady = TRUE, !.grace = TRUE]
           f  == [s EXCEPT !.owed = FALSE, !.confirmed = FALSE]
           w  == [Released(s) EXCEPT !.window = "on"]
<1>1. /\ From(st.e, {}, FALSE)
      /\ st.p \in Slots /\ (st.p.rml = "clear" => pend.rml = "clear")
  BY HeldFrom DEF Typed, ChanTyped, EngTyped
<1>2. /\ pend' = st.p
      /\ \/ eng' \in {Closing(e), o, c, k, s, g, f}
         \/ eng' = w /\ s.confirmed /\ Ready /\ ~cache.rml
      /\ hubTodo' \in {Append(CloseCmds, "event"), <<"event">>}
      /\ cmdq' = cmdq \/ (cmdq' = Posted(cmdq, "clear") /\ eng' = c)
  BY Zenon DEF Tick, Commit
<1> HIDE DEF st
<1>3. e \in Engine /\ Alike(e, st.e, FALSE)
  BY <1>1 DEF From, Alike, Engine
<1> HIDE DEF e
<1>4. From(e, {}, FALSE) /\ From(e, {}, TRUE)
  BY <1>1, <1>3, FromLike, FromMore
<1>5. From(s, {}, TRUE) /\ s.window = e.window
  BY <1>3, <1>4, FromMarks DEF SeenNow, Ready, Seen, Engine
<1>6. s.confirmed /\ ~cache.rml => SeenBefore
  BY <1>4 DEF From
<1> HIDE DEF s
<1> DEFINE z == Released(s)
           y == Closing(e)
<1>7. From(y, {}, FALSE) /\ From(y, {}, TRUE) /\ From(z, {}, TRUE) /\ ~z.confirmed
  BY <1>4, <1>5, FromMarks, FromMore
<1>8. z.window = s.window
  BY <1>5 DEF From, Engine, Released
<1>9. s \in Engine /\ z \in Engine /\ CanPost(cmdq) \in BOOLEAN /\ Ready \in BOOLEAN
  BY <1>5, <1>7 DEF From, CanPost, HasTarget, Ready, LinkIsTarget
<1> HIDE DEF z, y
<1>10. /\ Alike(o, e, TRUE) /\ o.window = e.window
       /\ Alike(k, s, TRUE) /\ k.window = s.window
       /\ Alike(g, s, TRUE) /\ g.window = s.window
       /\ Alike(f, s, TRUE) /\ f.window = s.window
  BY <1>3, <1>9 DEF Engine, Alike
<1>11. /\ Alike([z EXCEPT !.owed = @ \/ CanPost(cmdq)], z, TRUE)
       /\ [z EXCEPT !.owed = @ \/ CanPost(cmdq)].window = z.window
       /\ ~[z EXCEPT !.owed = @ \/ CanPost(cmdq)].confirmed
       /\ Alike([z EXCEPT !.window = "on"], z, TRUE)
  BY <1>7, <1>9 DEF Engine, Alike
<1>12. c = [z EXCEPT !.owed = @ \/ CanPost(cmdq)] /\ w = [z EXCEPT !.window = "on"]
  BY DEF z
<1> HIDE DEF o, c, k, g, f, w
<1>13. From(o, {}, TRUE) /\ From(k, {}, TRUE) /\ From(g, {}, TRUE) /\ From(f, {}, TRUE)
  BY <1>4, <1>5, <1>10, FromLike
<1>14. From(c, {}, TRUE) /\ From(w, {}, TRUE) /\ ~c.confirmed
  BY <1>7, <1>11, <1>12, FromLike
<1>15. From(eng', {}, TRUE)
  BY <1>2, <1>5, <1>7, <1>13, <1>14, Zenon DEF y
<1>16. CmdqOrClear
  BY <1>2, <1>14 DEF CmdqOrClear, SomeClear
<1>17. ASSUME WindowStarts PROVE SeenBefore /\ Ready /\ ~cache.rml
  <2>1. e.window \in {eng.window, "off"} /\ y.window \in {eng.window, "off"}
    BY <1>4, <1>7 DEF From
  <2>2. eng' \notin {y, o, c, k, s, g, f}
    BY <2>1, <1>5, <1>8, <1>10, <1>11, <1>12, <1>17 DEF WindowStarts
  <2> QED
    BY <2>2, <1>2, <1>6 DEF y
<1> QED
  BY <1>1, <1>2, <1>15, <1>16, <1>17, HubLists DEF Hold, Unpended, NotSync

Members == members \cup (IF HasTarget THEN {Probe} ELSE {})

(* A device-set change leaves only the sources that are still provisioned.  *)
LEMMA ForgetShape ==
    ASSUME Typed, ForgetUnprovisioned
    PROVE  /\ Hold({}, FALSE) /\ hubTodo' = <<"sync">> /\ devset' = FALSE
           /\ eng'.active \subseteq Members
<1> DEFINE st   == Held
           keep == members \cup (IF HasTarget THEN {Probe} ELSE {})
           gone == st.e.active \ keep
           s    == CHOOSE x \in gone : TRUE
           cut  == [st EXCEPT !.e.active = (@ \cap keep) \cup {s}]
           left == IF gone = {} THEN st ELSE TrackDry(cut, s)
<1>1. st \in Holds /\ From(st.e, {}, FALSE)
  BY HeldFrom DEF Typed, ChanTyped, EngTyped
<1>2. eng' = left.e /\ pend' = left.p /\ hubTodo' = <<"sync">> /\ devset' = FALSE
  BY Zenon DEF ForgetUnprovisioned, Commit
<1> HIDE DEF st, keep
<1>3. CASE gone = {}
  <2>1. left = st /\ st.e.active \subseteq keep
    BY <1>3
  <2> HIDE DEF left, gone
  <2> QED
    BY <2>1, <1>1, <1>2 DEF Hold, Unpended, Holds, keep, Members
<1>4. CASE gone # {}
  <2>1. s \in st.e.active /\ s \notin keep
    <3>1. s \in gone
      BY <1>4
    <3> HIDE DEF s
    <3> QED
      BY <3>1
  <2>2. left = TrackDry(cut, s)
    BY <1>4
  <2> HIDE DEF s, gone, left
  <2>3. /\ cut \in Holds /\ Alike(cut.e, st.e, FALSE)
        /\ cut.e.active = (st.e.active \cap keep) \cup {s}
    BY <2>1, <1>1 DEF Holds, Engine, Alike
  <2> HIDE DEF cut
  <2>4. From(cut.e, {}, FALSE)
    BY <2>3, <1>1, FromLike
  <2>5. left \in Holds /\ From(left.e, {}, FALSE) /\ left.e.active = cut.e.active \ {s}
    BY <2>2, <2>3, <2>4, FromDry, DryTyped
  <2>6. left.e.active \subseteq keep
    BY <2>1, <2>3, <2>5
  <2> QED
    BY <2>5, <2>6, <1>2 DEF Hold, Unpended, Holds, keep, Members
<1> QED
  BY <1>3, <1>4

LEMMA ResetShape ==
    ASSUME Typed, LeakReset
    PROVE  Hold({}, FALSE) /\ CmdqOrClear
<1> DEFINE st    == Held
           clear == st.e.incident \/ cache.rml
           z     == Released(st.e)
           e     == [z EXCEPT !.grace = FALSE, !.window = "off",
                              !.owed = @ \/ (clear /\ CanPost(cmdq))]
<1>1. /\ From(st.e, {}, FALSE)
      /\ st.p \in Slots /\ (st.p.rml = "clear" => pend.rml = "clear")
  BY HeldFrom DEF Typed, ChanTyped, EngTyped
<1>2. /\ pend' = st.p /\ eng' \in {st.e, e}
      /\ cmdq' = cmdq \/ (cmdq' = Posted(cmdq, "clear") /\ eng' = e)
  BY Zenon DEF LeakReset, Commit
<1> HIDE DEF st
<1>3. From(z, {}, FALSE) /\ ~z.confirmed
  BY <1>1, FromMarks
<1>4. clear \in BOOLEAN /\ CanPost(cmdq) \in BOOLEAN
  BY <1>1 DEF From, Engine, Typed, ChanTyped, Caches, CanPost, HasTarget
<1> HIDE DEF z, clear
<1>5. Alike(e, z, FALSE) /\ ~e.confirmed
  BY <1>3, <1>4 DEF From, Alike, Engine
<1> HIDE DEF e
<1>6. From(e, {}, FALSE)
  BY <1>3, <1>5, FromLike
<1>7. CmdqOrClear
  BY <1>2, <1>5 DEF CmdqOrClear, SomeClear
<1> QED
  BY <1>1, <1>2, <1>6, <1>7, Zenon DEF Hold, Unpended

LEMMA CancelShape ==
    ASSUME Typed, CancelOverride
    PROVE  Hold({}, FALSE) /\ mqTodo' \in {mqTodo, CloseCmds}
<1> DEFINE st == Held
           e  == [st.e EXCEPT !.window = "off"]
           z  == Released(e)
           c  == [z EXCEPT !.grace = FALSE]
<1>1. /\ From(st.e, {}, FALSE)
      /\ st.p \in Slots /\ (st.p.rml = "clear" => pend.rml = "clear")
  BY HeldFrom DEF Typed, ChanTyped, EngTyped
<1>2. pend' = st.p /\ eng' \in {st.e, Closing(e), c} /\ mqTodo' \in {mqTodo, CloseCmds}
  BY Zenon DEF CancelOverride, Commit
<1> HIDE DEF st
<1>3. Alike(e, st.e, FALSE)
  BY <1>1 DEF From, Alike, Engine
<1> HIDE DEF e
<1>4. From(e, {}, FALSE)
  BY <1>1, <1>3, FromLike
<1>5. From(Closing(e), {}, FALSE) /\ From(z, {}, FALSE)
  BY <1>4, FromMarks
<1> HIDE DEF z
<1>6. Alike(c, z, FALSE)
  BY <1>5 DEF From, Alike, Engine
<1> HIDE DEF c
<1>7. From(c, {}, FALSE)
  BY <1>5, <1>6, FromLike
<1>8. From(eng', {}, FALSE)
  BY <1>1, <1>2, <1>5, <1>7, Zenon
<1> QED
  BY <1>1, <1>2, <1>8, Zenon DEF Hold, Unpended

LEMMA EnableShape ==
    ASSUME Typed, EnableOverride
    PROVE  /\ Hold({}, TRUE)
           /\ eng'.confirmed => eng.confirmed
           /\ mqTodo' = mqTodo \/ (mqTodo' = <<"clear", "open">> /\ ~eng'.confirmed)
<1> DEFINE st == Held
           z  == Released(st.e)
           e  == [z EXCEPT !.grace = FALSE, !.owed = TRUE, !.window = "on"]
<1>1. /\ From(st.e, {}, FALSE) /\ From(st.e, {}, TRUE)
      /\ st.p \in Slots /\ (st.p.rml = "clear" => pend.rml = "clear")
  BY HeldFrom, FromMore DEF Typed, ChanTyped, EngTyped
<1>2. /\ pend' = st.p
      /\ \/ eng' = st.e /\ mqTodo' = mqTodo
         \/ eng' = e /\ mqTodo' = <<"clear", "open">>
  BY Zenon DEF EnableOverride, Commit
<1> HIDE DEF st
<1>3. From(z, {}, TRUE) /\ ~z.confirmed
  BY <1>1, FromMarks
<1> HIDE DEF z
<1>4. Alike(e, z, TRUE) /\ ~e.confirmed
  BY <1>3 DEF From, Alike, Engine
<1> HIDE DEF e
<1>5. From(e, {}, TRUE)
  BY <1>3, <1>4, FromLike
<1>6. st.e.confirmed => eng.confirmed
  BY <1>1 DEF From, SeenBefore
<1> QED
  BY <1>1, <1>2, <1>4, <1>5, <1>6, Zenon DEF Hold, Unpended

LEMMA ResetAllShape ==
    ASSUME Typed, NEW p \in Slots, p.rml = "clear" => pend.rml = "clear", ResetAll(p)
    PROVE  Hold({}, FALSE) /\ ~eng'.confirmed
<1>1. /\ eng' \in Engine /\ ~eng'.purge /\ ~eng'.confirmed /\ eng'.active = {}
      /\ eng'.window = "off"
  BY DEF ResetAll, Fresh, Typed, EngTyped, Engine
<1>2. pend' \in Slots /\ Unpended
  BY CancelTyped DEF ResetAll, Unpended
<1> QED
  BY <1>1, <1>2 DEF Hold, From

-----------------------------------------------------------------------------
(* Nothing of the past: the inductive invariant.                           *)

(* "none" is where the history of a lock starts, and it never returns.      *)
LockKnown == \A v \in Valves : dev[v].rml => hist.rml[v] # "none"
CacheKnown == cache.rml => Linked /\ hist.rml[link.peer] # "none"

(* With nothing left to apply, the loop knows the valve that is             *)
(* provisioned.                                                             *)
LoopKnows == ~devset /\ hubTodo # <<"sync">> => detValve = target

OnlyMembers == ~devset => eng.active \subseteq Members

(* A lock noted as seen, and no exchange missed since: were the valve       *)
(* provisioned now another than the one the loop knows, it would be told.   *)
Noted == eng.confirmed /\ ~eng.purge /\ "unseen" \notin hist.misled
NotedHere == Noted => IF HasTarget
                        THEN detValve \in {target, NoValve} => hist.rml[target] # "none"
                        ELSE detValve # NoValve

PastInv == LockKnown /\ CacheKnown /\ LoopKnows /\ OnlyMembers /\ NotedHere

LEMMA PastGives == ASSUME Typed, PastInv PROVE NothingOfThePast
<1> SUFFICES ASSUME Applied
             PROVE  /\ eng.active \subseteq Members
                    /\ eng.confirmed => HasTarget /\ hist.rml[target] # "none"
  BY DEF NothingOfThePast, Members
<1>1. eng.active \subseteq Members
  BY DEF PastInv, OnlyMembers, Applied
<1>2. ASSUME eng.confirmed PROVE HasTarget /\ hist.rml[target] # "none"
  <2>1. detValve = target /\ Noted
    BY <1>2 DEF PastInv, LoopKnows, Applied, Noted
  <2> QED
    BY <2>1 DEF PastInv, NotedHere, HasTarget
<1> QED
  BY <1>1, <1>2

(* A hold that finds and leaves the loop's valve as it was.                 *)
LEMMA HoldPast ==
    ASSUME Typed, PastInv, NEW g, NEW b \in BOOLEAN, Hold(g, b), UNCHANGED <<target, link, cache, dev, detValve>>,
           hist'.rml = hist.rml, hist.misled \subseteq hist'.misled
    PROVE  LockKnown' /\ CacheKnown' /\ NotedHere'
<1>1. LockKnown' /\ CacheKnown'
  BY DEF PastInv, LockKnown, CacheKnown, Linked
<1>2. ASSUME Noted' PROVE (SeenBefore /\ Noted) \/ SeenNow
  BY <1>2 DEF Hold, From, Noted, SeenBefore
<1>3. SeenNow => HasTarget /\ hist.rml[target] # "none"
  BY DEF SeenNow, LinkIsTarget, PastInv, CacheKnown
<1>4. NotedHere'
  BY <1>2, <1>3 DEF PastInv, NotedHere, HasTarget
<1> QED
  BY <1>1, <1>4

(* ... in a pass of the hub loop ...                                        *)
LEMMA PassPast ==
    ASSUME Typed, PastInv, AtPass, NEW g, NEW b \in BOOLEAN, Hold(g, b), g \subseteq Members,
           UNCHANGED <<target, link, cache, dev, detValve, members, devset>>,
           hubTodo' # <<"sync">>,
           hist'.rml = hist.rml, hist.misled \subseteq hist'.misled
    PROVE  PastInv'
<1>1. LockKnown' /\ CacheKnown' /\ NotedHere'
  BY HoldPast
<1>2. hubTodo # <<"sync">>
  <2>1. <<"sync">> \notin {<<>>, <<"event">>}
    OBVIOUS
  <2> QED
    BY <2>1 DEF AtPass
<1>3. LoopKnows'
  BY <1>2 DEF PastInv, LoopKnows
<1>4. Members' = Members
  BY DEF Members, HasTarget
<1>5. OnlyMembers'
  BY <1>4 DEF PastInv, OnlyMembers, Hold, From
<1> QED
  BY <1>1, <1>3, <1>5 DEF PastInv

(* ... and in one of the MQTT task.                                         *)
LEMMA MqPast ==
    ASSUME Typed, PastInv, NEW b \in BOOLEAN, Hold({}, b), mqStays,
           UNCHANGED <<hist, target, members, devset>>
    PROVE  PastInv'
<1>1. LockKnown' /\ CacheKnown' /\ NotedHere'
  BY HoldPast DEF mqStays
<1>2. LoopKnows'
  BY DEF PastInv, LoopKnows, mqStays
<1>3. Members' = Members
  BY DEF Members, HasTarget
<1>4. OnlyMembers'
  BY <1>3 DEF PastInv, OnlyMembers, Hold, From
<1> QED
  BY <1>1, <1>2, <1>4 DEF PastInv

(* A step that changes nothing the invariant speaks of.                     *)
LEMMA IdlePast ==
    ASSUME PastInv,
           UNCHANGED <<target, link, cache, dev, members, devset, detValve, hist>>,
           eng'.confirmed = eng.confirmed, eng'.purge = eng.purge, eng'.active = eng.active,
           hubTodo' # <<"sync">> => hubTodo # <<"sync">>
    PROVE  PastInv'
BY DEF PastInv, LockKnown, CacheKnown, LoopKnows, OnlyMembers, NotedHere, Noted, Members,
       HasTarget, Linked

(* A step of the channel: no lock is forgotten.                             *)
LEMMA ChanPast ==
    ASSUME Typed, PastInv, engHolds, target' = target, hist.misled \subseteq hist'.misled,
           \A v \in Valves : hist.rml[v] # "none" => hist'.rml[v] # "none",
           LockKnown', CacheKnown'
    PROVE  PastInv'
<1>1. LoopKnows' /\ OnlyMembers'
  BY DEF PastInv, LoopKnows, OnlyMembers, Members, HasTarget, engHolds
<1>2. HasTarget => target \in Valves
  BY DEF Typed, ChanTyped, HasTarget
<1>3. NotedHere'
  BY <1>2 DEF PastInv, NotedHere, Noted, HasTarget, engHolds
<1> QED
  BY <1>1, <1>3 DEF PastInv

Good == Typed' /\ (PastInv => PastInv')

-----------------------------------------------------------------------------
(* The hub loop's steps.                                                    *)

LEMMA HubPostGood == ASSUME Typed, HubPost PROVE Good
<1> DEFINE C == {"set", "close", "connect", "sync", "event"}
<1>1. hubTodo # <<>> /\ hubTodo \in Seq(C)
  BY DEF Typed, EngTyped, HubQueue, HubPost
<1>2. /\ Head(hubTodo) \in C /\ Tail(hubTodo) \in Seq(C)
      /\ Len(Tail(hubTodo)) = Len(hubTodo) - 1 /\ Len(hubTodo) \in Nat \ {0}
  <2> HIDE DEF C
  <2> QED
    BY <1>1, FirstAndRest
<1>3. hubTodo' \in HubQueue
  BY <1>2 DEF Typed, EngTyped, HubQueue, HubPost
<1>4. cmdq' \in Queue
  BY <1>2, QueueTyped DEF HubPost, Typed, ChanTyped, Cmds, Writes, RmlCmds, ValveCmds
<1>5. Typed'
  BY <1>3, <1>4 DEF HubPost, Typed, ChanTyped, EngTyped
<1>6. hubTodo # <<"sync">>
  <2>1. Head(<<"sync">>) = "sync"
    OBVIOUS
  <2> QED
    BY <2>1 DEF HubPost
<1>7. PastInv => PastInv'
  BY <1>6, IdlePast DEF HubPost
<1> QED
  BY <1>5, <1>7 DEF Good

LEMMA ReportGood == ASSUME Typed, NEW s \in Sensors, Report(s) PROVE Good
<1>1. /\ AtPass /\ s \in members
      /\ UNCHANGED <<cmdq, updq, devset, detValve>> /\ hubFrame /\ UNCHANGED hist
  BY DEF Report
<1>2. s \in Sources /\ {s} \subseteq Members /\ {} \subseteq Members
  BY <1>1 DEF Sources, Members
<1>3. PICK g \in {{}, {s}} : Hold(g, FALSE) /\ hubTodo' \in NotSync
  <2>1. CASE EvaluateWet(s)
    BY <2>1, <1>2, WetShape
  <2>2. CASE EvaluateDry(s)
    BY <2>2, DryShape, HubLists DEF NotSync
  <2> QED
    BY <2>1, <2>2, Zenon DEF Report
<1>4. events' \in 0..MaxEvents
  BY EventTyped DEF Typed, Report, Skipping
<1>5. Typed'
  BY <1>1, <1>3, <1>4, HubTyped DEF Hold, From, NotSync, Typed, ChanTyped, EngTyped
<1>6. PastInv => PastInv'
  BY <1>1, <1>2, <1>3, PassPast DEF hubFrame, NotSync
<1> QED
  BY <1>5, <1>6 DEF Good

LEMMA ValveUpdateGood == ASSUME Typed, ValveUpdate PROVE Good
<1>1. /\ AtPass /\ updq # <<>> /\ updq' = Tail(updq)
      /\ UNCHANGED <<devset, detValve>> /\ hubFrame /\ Trusted
  BY DEF ValveUpdate
<1>2. updq' \in Notices
  <2>1. updq \in Seq(Updates) /\ Len(updq) <= UpdDepth
    BY DEF Typed, ChanTyped, Notices
  <2>2. /\ Tail(updq) \in Seq(Updates)
        /\ Len(Tail(updq)) = Len(updq) - 1 /\ Len(updq) \in Nat \ {0}
    BY <1>1, <2>1, FirstAndRest
  <2> QED
    BY <1>1, <2>1, <2>2 DEF Notices
<1>3. Probe \in Sources
  BY DEF Sources
<1>4. hist' \in Hist /\ hist'.rml = hist.rml /\ hist.misled \subseteq hist'.misled
  BY <1>1, TrustedTyped DEF Typed, EngTyped
<1>5. events' \in 0..MaxEvents
  BY EventTyped DEF Typed, ValveUpdate, Skipping
<1>6. \/ LinkIsTarget /\ (EvaluateWet(Probe) \/ EvaluateDry(Probe)) /\ UNCHANGED cmdq
      \/ LinkIsTarget /\ Reconcile
      \/ hubTodo' = <<>> /\ UNCHANGED <<eng, pend, cmdq>>
  BY Zenon DEF ValveUpdate
<1>7. cmdq \in Queue /\ pend \in Slots /\ eng \in Engine
  BY DEF Typed, ChanTyped, EngTyped
<1>8. CASE hubTodo' = <<>> /\ UNCHANGED <<eng, pend, cmdq>>
  <2>1. hubTodo' \in HubQueue /\ hubTodo' # <<"sync">>
    BY <1>8, HubLists
  <2>2. Typed'
    BY <1>1, <1>2, <1>4, <1>5, <1>7, <1>8, <2>1, HubTyped DEF Typed, EngTyped
  <2>3. ASSUME PastInv PROVE PastInv'
    <3>1. hubTodo # <<"sync">>
      <4>1. <<"sync">> \notin {<<>>, <<"event">>}
        OBVIOUS
      <4> QED
        BY <4>1, <1>1 DEF AtPass
    <3>2. LockKnown' /\ CacheKnown' /\ LoopKnows' /\ OnlyMembers'
      BY <1>1, <1>4, <1>8, <2>3, <3>1
         DEF PastInv, LockKnown, CacheKnown, LoopKnows, OnlyMembers, Members, Linked, HasTarget,
             hubFrame
    <3>3. NotedHere'
      BY <1>1, <1>4, <1>8, <2>3 DEF PastInv, NotedHere, Noted, HasTarget, hubFrame
    <3> QED
      BY <3>2, <3>3 DEF PastInv
  <2> QED
    BY <2>2, <2>3 DEF Good
<1>9. CASE LinkIsTarget /\ (\/ (EvaluateWet(Probe) \/ EvaluateDry(Probe)) /\ UNCHANGED cmdq
                            \/ Reconcile)
  <2>1. {Probe} \subseteq Members /\ {} \subseteq Members
    BY <1>9 DEF LinkIsTarget, Members
  <2>2. PICK g \in {{}, {Probe}}, b \in BOOLEAN : Hold(g, b) /\ hubTodo' \in NotSync /\ cmdq' \in Queue
    <3>1. CASE EvaluateWet(Probe) /\ UNCHANGED cmdq
      BY <3>1, <1>3, <1>7, WetShape
    <3>2. CASE EvaluateDry(Probe) /\ UNCHANGED cmdq
      BY <3>2, <1>7, DryShape, HubLists DEF NotSync
    <3>3. CASE Reconcile
      BY <3>3, <1>9, ReconcileShape, CmdqTyped
    <3> QED
      BY <3>1, <3>2, <3>3, <1>9
  <2>3. Typed'
    BY <1>1, <1>2, <1>4, <1>5, <2>2, HubTyped DEF Hold, From, NotSync, Typed, EngTyped
  <2>4. PastInv => PastInv'
    BY <1>1, <1>4, <2>1, <2>2, PassPast DEF hubFrame, NotSync
  <2> QED
    BY <2>3, <2>4 DEF Good
<1> QED
  BY <1>6, <1>8, <1>9

LEMMA TickGood == ASSUME Typed, Tick PROVE Good
<1>1. AtPass /\ UNCHANGED <<updq, devset, detValve>> /\ Trusted /\ hubFrame
  BY DEF Tick
<1>2. Hold({}, TRUE) /\ hubTodo' \in NotSync /\ cmdq' \in Queue
  BY TickShape, CmdqTyped
<1>3. hist' \in Hist /\ hist'.rml = hist.rml /\ hist.misled \subseteq hist'.misled
  BY <1>1, TrustedTyped DEF Typed, EngTyped
<1>4. events' \in 0..MaxEvents
  BY EventTyped DEF Typed, Tick, Skipping
<1>5. Typed'
  BY <1>1, <1>2, <1>3, <1>4, HubTyped DEF Hold, From, NotSync, Typed, ChanTyped, EngTyped
<1>6. PastInv => PastInv'
  <2>1. /\ {} \subseteq Members /\ hubTodo' # <<"sync">>
        /\ UNCHANGED <<target, link, cache, dev, detValve, members, devset>>
    BY <1>1, <1>2 DEF hubFrame, NotSync
  <2>2. PICK b \in BOOLEAN : Hold({}, b)
    BY <1>2
  <2> QED
    BY <1>1, <1>3, <2>1, <2>2, PassPast
<1> QED
  BY <1>5, <1>6 DEF Good

LEMMA ForgetGood == ASSUME Typed, ForgetUnprovisioned PROVE Good
<1>1. UNCHANGED <<cmdq, updq, detValve, events>> /\ hubFrame /\ UNCHANGED hist
  BY DEF ForgetUnprovisioned
<1>2. Hold({}, FALSE) /\ hubTodo' = <<"sync">> /\ devset' = FALSE /\ eng'.active \subseteq Members
  BY ForgetShape
<1>3. Typed'
  BY <1>1, <1>2, HubLists, HubTyped DEF Hold, From, Typed, ChanTyped, EngTyped
<1>4. ASSUME PastInv PROVE PastInv'
  <2>1. LockKnown' /\ CacheKnown' /\ NotedHere'
    BY <1>1, <1>2, <1>4, HoldPast DEF hubFrame
  <2>2. LoopKnows'
    BY <1>2 DEF LoopKnows
  <2>3. OnlyMembers'
    BY <1>1, <1>2 DEF OnlyMembers, Members, HasTarget, hubFrame
  <2> QED
    BY <2>1, <2>2, <2>3 DEF PastInv
<1> QED
  BY <1>3, <1>4 DEF Good

LEMMA SyncGood == ASSUME Typed, SyncValveDetectors PROVE Good
<1>1. /\ hubTodo = <<"sync">> /\ hubTodo' = <<>> /\ detValve' = target
      /\ UNCHANGED <<cmdq, updq, devset>> /\ hubFrame /\ UNCHANGED hist
  BY DEF SyncValveDetectors
<1> DEFINE st == [e |-> eng, p |-> pend]
<1>2. \/ /\ target = detValve \/ detValve = NoValve
         /\ UNCHANGED <<eng, pend, events>>
      \/ eng' = Replaced(st).e /\ pend' = Replaced(st).p /\ UNCHANGED events
      \/ Event("busy") /\ eng' = [eng EXCEPT !.purge = TRUE] /\ UNCHANGED pend
  BY Zenon DEF SyncValveDetectors, Commit
<1>3. st \in Holds /\ st.e = eng
  BY DEF Holds, Typed, ChanTyped, EngTyped
<1>4. /\ Replaced(st).e \in Engine /\ Replaced(st).p \in Slots
      /\ ~Replaced(st).e.confirmed /\ Replaced(st).e.active \subseteq eng.active
  <2> HIDE DEF st
  <2>1. Replaced(st) \in Holds /\ From(Replaced(st).e, {}, FALSE) /\ ~Replaced(st).e.confirmed
    BY <1>3, FromReplaced
  <2> HIDE DEF Replaced
  <2> QED
    BY <2>1 DEF Holds, From
<1> HIDE DEF st
<1>5. /\ [eng EXCEPT !.purge = TRUE] \in Engine
      /\ [eng EXCEPT !.purge = TRUE].purge
      /\ [eng EXCEPT !.purge = TRUE].active = eng.active
  BY DEF Typed, EngTyped, Engine
<1>6. eng' \in Engine /\ pend' \in Slots /\ eng'.active \subseteq eng.active
  BY <1>2, <1>4, <1>5 DEF Typed, ChanTyped, EngTyped
<1>7. events' \in 0..MaxEvents
  BY <1>2, EventTyped DEF Typed
<1>8. target \in Valves \cup {NoValve} /\ <<>> \in HubQueue
  BY HubLists DEF Typed, ChanTyped
<1>9. Typed'
  BY <1>1, <1>6, <1>7, <1>8, HubTyped DEF Typed, ChanTyped, EngTyped
<1>10. ASSUME PastInv PROVE PastInv'
  <2>1. LockKnown' /\ CacheKnown'
    BY <1>1, <1>10 DEF PastInv, LockKnown, CacheKnown, Linked, hubFrame
  <2>2. LoopKnows'
    BY <1>1 DEF LoopKnows, hubFrame
  <2>3. OnlyMembers'
    BY <1>1, <1>6, <1>10 DEF PastInv, OnlyMembers, Members, HasTarget, hubFrame
  <2>4. ASSUME Noted'
        PROVE  eng' = eng /\ (target = detValve \/ detValve = NoValve)
    BY <1>2, <1>4, <1>5, <2>4 DEF Noted
  <2>5. NotedHere'
    BY <2>4, <1>1, <1>10 DEF PastInv, NotedHere, Noted, HasTarget, hubFrame
  <2> QED
    BY <2>1, <2>2, <2>3, <2>5 DEF PastInv
<1> QED
  BY <1>9, <1>10 DEF Good

LEMMA HubGood == ASSUME Typed, Hub PROVE Good
BY HubPostGood, ReportGood, ValveUpdateGood, TickGood, ForgetGood, SyncGood, Zenon DEF Hub

-----------------------------------------------------------------------------
(* The MQTT task's steps.                                                   *)

LEMMA MqPostGood == ASSUME Typed, MqPost PROVE Good
<1> DEFINE C == Writes \cup {"connect", "disconnect"}
<1>1. mqTodo # <<>> /\ mqTodo \in Seq(C)
  BY DEF Typed, EngTyped, MqQueue, MqPost
<1>2. /\ Head(mqTodo) \in C /\ Tail(mqTodo) \in Seq(C)
      /\ Len(Tail(mqTodo)) = Len(mqTodo) - 1 /\ Len(mqTodo) \in Nat \ {0}
  <2> HIDE DEF C
  <2> QED
    BY <1>1, FirstAndRest
<1>3. mqTodo' \in MqQueue
  BY <1>2 DEF Typed, EngTyped, MqQueue, MqPost
<1>4. cmdq' \in Queue
  <2>1. Head(mqTodo) \in Cmds
    BY <1>2 DEF Cmds
  <2>2. Posted(cmdq, Head(mqTodo)) \in Queue
    BY <2>1, QueueTyped DEF Typed, ChanTyped
  <2>3. Len(cmdq) < CmdDepth => Append(cmdq, Head(mqTodo)) \in Queue
    <3>1. cmdq \in Seq(Cmds) /\ Len(cmdq) \in Nat
      BY DEF Typed, ChanTyped, Queue
    <3>2. /\ Append(cmdq, Head(mqTodo)) \in Seq(Cmds)
          /\ Len(Append(cmdq, Head(mqTodo))) = Len(cmdq) + 1
      BY <2>1, <3>1, AppendProperties
    <3> QED
      BY <3>1, <3>2 DEF Queue
  <2>4. cmdq' \in {Posted(cmdq, Head(mqTodo)), Append(cmdq, Head(mqTodo))}
        /\ (Len(cmdq) < CmdDepth \/ cmdq' = Posted(cmdq, Head(mqTodo)))
    BY DEF MqPost
  <2> QED
    BY <2>2, <2>3, <2>4, Zenon
<1>5. Typed'
  BY <1>3, <1>4 DEF MqPost, Typed, ChanTyped, EngTyped
<1>6. PastInv => PastInv'
  BY IdlePast DEF MqPost
<1> QED
  BY <1>5, <1>6 DEF Good

LEMMA LeakResetGood == ASSUME Typed, LeakReset PROVE Good
<1>1. UNCHANGED <<mqTodo, mq>> /\ mqKeeps /\ mqStays /\ UNCHANGED hist /\ events' \in 0..MaxEvents
  BY EventTyped DEF Typed, LeakReset, mqFrame
<1>2. Hold({}, FALSE) /\ cmdq' \in Queue
  BY ResetShape, CmdqTyped
<1>3. Typed'
  BY <1>1, <1>2, MqTyped DEF Hold, From, mqKeeps, Typed, ChanTyped, EngTyped
<1>4. PastInv => PastInv'
  BY <1>1, <1>2, MqPast DEF mqKeeps
<1> QED
  BY <1>3, <1>4 DEF Good

LEMMA CancelGood == ASSUME Typed, CancelOverride PROVE Good
<1>1. UNCHANGED <<cmdq, mq>> /\ mqKeeps /\ mqStays /\ UNCHANGED hist /\ events' \in 0..MaxEvents
  BY EventTyped DEF Typed, CancelOverride
<1>2. Hold({}, FALSE) /\ mqTodo' \in MqQueue
  BY CancelShape, MqLists DEF Typed, EngTyped
<1>3. Typed'
  BY <1>1, <1>2, MqTyped DEF Hold, From, mqKeeps, Typed, ChanTyped, EngTyped
<1>4. PastInv => PastInv'
  BY <1>1, <1>2, MqPast DEF mqKeeps
<1> QED
  BY <1>3, <1>4 DEF Good

LEMMA EnableGood == ASSUME Typed, EnableOverride PROVE Good
<1>1. mq' = "idle" /\ UNCHANGED <<cmdq, events>> /\ mqKeeps /\ mqStays /\ UNCHANGED hist
  BY DEF EnableOverride, mqFrame
<1>2. Hold({}, TRUE) /\ mqTodo' \in MqQueue
  BY EnableShape, MqLists DEF Typed, EngTyped
<1>3. Typed'
  BY <1>1, <1>2, MqTyped DEF Hold, From, mqKeeps, Typed, ChanTyped, EngTyped
<1>4. PastInv => PastInv'
  BY <1>1, <1>2, MqPast DEF mqKeeps
<1> QED
  BY <1>3, <1>4 DEF Good

(* The steps of the task that leave the engine alone.                       *)
LEMMA MqQuietGood ==
    ASSUME Typed, UNCHANGED <<eng, pend, cmdq, target, wanted, members, devset>>, mqStays, UNCHANGED hist,
           rules' \in [auto : BOOLEAN, mask : SUBSET Sources],
           mqTodo' \in MqQueue, mq' \in {"idle", "waiting", "enabling"},
           events' \in 0..MaxEvents
    PROVE  Good
<1>1. Typed'
  BY MqTyped DEF Typed, ChanTyped, EngTyped
<1>2. PastInv => PastInv'
  BY IdlePast DEF mqStays
<1> QED
  BY <1>1, <1>2 DEF Good

LEMMA EnableRequestGood == ASSUME Typed, EnableRequest PROVE Good
<1>1. mqTodo' \in MqQueue
  BY MqLists DEF EnableRequest
<1>2. events' \in 0..MaxEvents
  BY EventTyped DEF Typed, EnableRequest
<1> QED
  BY <1>1, <1>2, MqQuietGood DEF EnableRequest, mqKeeps, mqFrame, Typed, EngTyped

LEMMA EnableCheckGood == ASSUME Typed, EnableCheck PROVE Good
<1>1. mq' \in {"idle", "waiting", "enabling"}
  BY DEF EnableCheck
<1> QED
  BY <1>1, MqQuietGood DEF EnableCheck, mqKeeps, mqFrame, Typed, EngTyped

LEMMA ValveCommandGood ==
    ASSUME Typed, NEW c \in {"open", "close"}, ValveCommand(c)
    PROVE  Good
<1>1. mqTodo' \in MqQueue
  <2>1. c \in Writes
    BY DEF Writes, ValveCmds
  <2> QED
    BY <2>1, MqLists DEF ValveCommand
<1>2. events' \in 0..MaxEvents
  BY EventTyped DEF Typed, ValveCommand
<1> QED
  BY <1>1, <1>2, MqQuietGood DEF ValveCommand, mqKeeps, mqFrame, Typed, EngTyped

LEMMA RulesConfigGood == ASSUME Typed, RulesConfig PROVE Good
<1>1. rules' \in [auto : BOOLEAN, mask : SUBSET Sources]
  BY DEF RulesConfig
<1>2. events' \in 0..MaxEvents
  BY EventTyped DEF Typed, RulesConfig
<1> QED
  BY <1>1, <1>2, MqQuietGood DEF RulesConfig, Typed, EngTyped

LEMMA SensorChangeGood ==
    ASSUME Typed, NEW s \in Sensors, SensorChange(s)
    PROVE  Good
<1>1. /\ devset' = TRUE /\ UNCHANGED <<cmdq, mqTodo, mq, target, wanted, rules>>
      /\ mqFrame /\ members' \subseteq Sensors
  BY DEF SensorChange, Typed, EngTyped
<1>2. events' \in 0..MaxEvents
  BY EventTyped DEF Typed, SensorChange
<1>3. pend \in Slots
  BY DEF Typed, ChanTyped
<1>4. Hold({}, FALSE) \/ UNCHANGED <<eng, pend>>
  BY <1>3, ResetAllShape DEF SensorChange
<1>5. eng' \in Engine /\ pend' \in Slots
  BY <1>4 DEF Hold, From, Typed, ChanTyped, EngTyped
<1>6. Typed'
  BY <1>1, <1>2, <1>5, MqTyped DEF mqFrame, Typed, ChanTyped, EngTyped
<1>7. ASSUME PastInv PROVE PastInv'
  <2>1. LoopKnows' /\ OnlyMembers'
    BY <1>1 DEF LoopKnows, OnlyMembers
  <2>2. CASE Hold({}, FALSE)
    BY <1>1, <1>7, <2>1, <2>2, HoldPast DEF PastInv, mqFrame, mqStays
  <2>3. CASE UNCHANGED <<eng, pend>>
    BY <1>1, <1>7, <2>1, <2>3
       DEF PastInv, LockKnown, CacheKnown, Linked, NotedHere, Noted, HasTarget, mqFrame, mqStays
  <2> QED
    BY <1>4, <2>2, <2>3
<1> QED
  BY <1>6, <1>7 DEF Good

(* An exchange of the valve is either one the loop will see, or the history *)
(* says it will not.                                                        *)
LEMMA ValveChangeGood ==
    ASSUME Typed, NEW v \in Valves \cup {NoValve}, ValveChange(v)
    PROVE  Good
<1> DEFINE unseen == IF v = detValve \/ (detValve = NoValve /\ HasTarget)
                       THEN {"unseen"} ELSE {}
<1>1. /\ v # target /\ target' = v /\ wanted' = (wanted /\ v # NoValve) /\ cmdq' = QueueFor(v)
      /\ mqTodo' = (IF v = NoValve THEN <<"disconnect">> ELSE <<"connect">>)
      /\ devset' = TRUE /\ UNCHANGED <<mq, rules, members>> /\ mqStays
      /\ hist' = [hist EXCEPT !.misled = @ \cup unseen]
  BY DEF ValveChange
<1>2. events' \in 0..MaxEvents
  BY EventTyped DEF Typed, ValveChange
<1>3. /\ hist' \in Hist /\ hist'.rml = hist.rml
      /\ hist.misled \subseteq hist'.misled
      /\ "unseen" \notin hist'.misled => v # detValve /\ ~(detValve = NoValve /\ HasTarget)
  BY <1>1 DEF Typed, EngTyped, Hist
<1> HIDE DEF unseen
<1>4. \/ Hold({}, FALSE) /\ ~eng'.confirmed
      \/ UNCHANGED eng /\ pend' = NoPend
  <2>1. ResetAll(NoPend) \/ (UNCHANGED eng /\ pend' = NoPend)
    BY DEF ValveChange
  <2>2. NoPend \in Slots /\ NoPend.rml # "clear"
    BY EmptyTyped DEF NoPend
  <2> QED
    BY <2>1, <2>2, ResetAllShape
<1>5. eng' \in Engine /\ pend' \in Slots
  BY <1>4, EmptyTyped DEF Hold, From, Typed, EngTyped
<1>6. cmdq' \in Queue /\ mqTodo' \in MqQueue /\ wanted' \in BOOLEAN
  BY <1>1, ShortQueues, MqLists
<1>7. Typed'
  BY <1>1, <1>2, <1>3, <1>5, <1>6, MqTyped DEF Typed, EngTyped
<1>8. ASSUME PastInv PROVE PastInv'
  <2>1. LoopKnows' /\ OnlyMembers'
    BY <1>1 DEF LoopKnows, OnlyMembers
  <2>2. LockKnown' /\ CacheKnown'
    BY <1>1, <1>3, <1>8 DEF PastInv, LockKnown, CacheKnown, Linked, mqStays
  <2>3. ASSUME Noted'
        PROVE  Noted /\ v # detValve /\ ~(detValve = NoValve /\ HasTarget)
    BY <2>3, <1>3, <1>4 DEF Noted
  <2>4. ASSUME Noted', v # NoValve PROVE detValve \notin {v, NoValve}
    BY <2>3, <2>4, <1>8 DEF PastInv, NotedHere
  <2>5. NotedHere'
    BY <2>3, <2>4, <1>1 DEF NotedHere, HasTarget, mqStays
  <2> QED
    BY <2>1, <2>2, <2>5 DEF PastInv
<1> QED
  BY <1>7, <1>8 DEF Good

LEMMA MqttGood == ASSUME Typed, Mqtt PROVE Good
<1>1. ASSUME NEW c \in {"open", "close"}, ValveCommand(c) PROVE Good
  BY <1>1, ValveCommandGood
<1>2. CASE ValveCommand("open") \/ ValveCommand("close")
  BY <1>1, <1>2
<1>3. CASE ~(ValveCommand("open") \/ ValveCommand("close"))
  BY <1>3, MqPostGood, LeakResetGood, CancelGood, EnableRequestGood, EnableCheckGood, EnableGood,
     RulesConfigGood, SensorChangeGood, ValveChangeGood, Zenon DEF Mqtt
<1> QED
  BY <1>2, <1>3

-----------------------------------------------------------------------------
(* The valve task's, the host's and the valves' steps.                      *)

LEMMA TakeCmdGood == ASSUME Typed, BleTakeCmd PROVE Good
<1>1. TakeCmd /\ engHolds /\ UNCHANGED <<events, hist>>
  BY DEF BleTakeCmd, Quiet, engKeeps
<1>2. ChanTyped'
  BY <1>1, TakeCmdTyped DEF Typed
<1>3. Typed'
  BY <1>1, <1>2, ChanStepTyped DEF Typed, EngTyped
<1>4. UNCHANGED <<target, cache, dev>>
  BY <1>1, Zenon DEF TakeCmd, TakeWrite
<1>5. \/ link' = link
      \/ link' = [link EXCEPT !.term = TRUE]
  BY <1>1, Zenon DEF TakeCmd, TakeWrite
<1>6. Linked => link' # NoLink /\ link'.peer = link.peer
  <2>1. Linked => link \in [peer : Valves, stage : {"setup", "ready"}, term : BOOLEAN]
    BY DEF Typed, ChanTyped, Links, Linked
  <2>2. Linked => link'.peer = link.peer /\ link'.peer \in Valves
    BY <1>5, <2>1
  <2> QED
    BY <2>2, <1>5 DEF NoLink, Linked
<1>7. ASSUME PastInv PROVE PastInv'
  <2>1. LockKnown' /\ CacheKnown'
    BY <1>1, <1>4, <1>6, <1>7 DEF PastInv, LockKnown, CacheKnown, Linked
  <2> QED
    BY <2>1, <1>1, <1>4, <1>7, ChanPast
<1> QED
  BY <1>3, <1>7 DEF Good

LEMMA LinkUpGood == ASSUME Typed, BleLinkUp PROVE Good
<1>1. LinkUp /\ engHolds /\ UNCHANGED <<events, hist>>
  BY DEF BleLinkUp, Quiet, engKeeps
<1>2. ChanTyped'
  BY <1>1, LinkUpTyped DEF Typed
<1>3. Typed'
  BY <1>1, <1>2, ChanStepTyped DEF Typed, EngTyped
<1>4. ASSUME PastInv PROVE PastInv'
  <2>1. LockKnown' /\ CacheKnown'
    BY <1>1, <1>4 DEF PastInv, LockKnown, CacheKnown, LinkUp, EmptyCache
  <2> QED
    BY <2>1, <1>1, <1>4, ChanPast DEF LinkUp
<1> QED
  BY <1>3, <1>4 DEF Good

LEMMA SetupDoneGood == ASSUME Typed, BleSetupDone PROVE Good
<1>1. SetupDone /\ engHolds /\ UNCHANGED <<events, hist>>
  BY DEF BleSetupDone, Quiet, engKeeps
<1>2. ChanTyped'
  BY <1>1, SetupDoneTyped DEF Typed
<1>3. Typed'
  BY <1>1, <1>2, ChanStepTyped DEF Typed, EngTyped
<1>4. Linked /\ Linked' /\ link'.peer = link.peer /\ UNCHANGED <<target, dev>>
  <2>1. Linked
    BY <1>1, LinkTypes DEF SetupDone, Typed
  <2>2. link \in [peer : Valves, stage : {"setup", "ready"}, term : BOOLEAN]
    BY <2>1 DEF Typed, ChanTyped, Links, Linked
  <2>3. link'.peer = link.peer /\ link'.stage = "ready" /\ UNCHANGED <<target, dev>>
    BY <1>1, <2>2 DEF SetupDone
  <2>4. link' # NoLink
    BY <2>3 DEF NoLink
  <2> QED
    BY <2>1, <2>3, <2>4 DEF Linked
<1>5. cache'.rml => cache.rml \/ (LinkIsTarget /\ dev[target].rml)
  BY <1>1 DEF SetupDone
<1>6. ASSUME PastInv PROVE PastInv'
  <2>1. LockKnown'
    BY <1>1, <1>4, <1>6 DEF PastInv, LockKnown
  <2>2. LinkIsTarget => target \in Valves /\ link.peer = target
    BY DEF LinkIsTarget, HasTarget, Typed, ChanTyped
  <2>3. CacheKnown'
    BY <1>1, <1>4, <1>5, <1>6, <2>2 DEF PastInv, LockKnown, CacheKnown
  <2> QED
    BY <2>1, <2>3, <1>1, <1>4, <1>6, ChanPast
<1> QED
  BY <1>3, <1>6 DEF Good

LEMMA DropGood ==
    ASSUME Typed, LinkDrop, engHolds, UNCHANGED hist, events' \in 0..MaxEvents
    PROVE  Good
<1>1. ChanTyped'
  BY LinkDropTyped DEF Typed
<1>2. Typed'
  BY <1>1, ChanStepTyped DEF Typed, EngTyped
<1>3. ASSUME PastInv PROVE PastInv'
  <2>1. LockKnown' /\ CacheKnown'
    BY <1>3 DEF PastInv, LockKnown, CacheKnown, LinkDrop, Unlink, EmptyCache
  <2> QED
    BY <2>1, <1>3, ChanPast DEF LinkDrop
<1> QED
  BY <1>2, <1>3 DEF Good

LEMMA TerminatedGood == ASSUME Typed, BleTerminated PROVE Good
BY DropGood DEF BleTerminated, Quiet, Typed, EngTyped, engKeeps

LEMMA LinkLostGood == ASSUME Typed, BleLinkLost PROVE Good
<1>1. events' \in 0..MaxEvents
  BY EventTyped DEF Typed, BleLinkLost, engKeeps
<1> QED
  BY <1>1, DropGood DEF BleLinkLost, engKeeps

(* The history of a lock, when a valve's RMLEAK may change.                 *)
LEMMA DeliverGood == ASSUME Typed, BleDeliver PROVE Good
<1> DEFINE v == link.peer
           c == Head(air)
           n == Obeyed(dev[v], c)
           b == IF c = "set" THEN c
                ELSE IF c = "clear" /\ dev[v].rml THEN "hub" ELSE hist.rml[v]
           h == [hist EXCEPT !.rml[v] = b, !.misled = @ \cup Unheard(v)]
<1>1. Deliver /\ engHolds /\ UNCHANGED events /\ hist' = h
  BY Zenon DEF BleDeliver, LockIs, engKeeps
<1>2. ChanTyped'
  BY <1>1, DeliverTyped DEF Typed
<1>3. c \in Writes
  <2>1. air # <<>> /\ air \in Seq(Writes)
    BY <1>1, DeliverShape DEF Typed, ChanTyped, Airs
  <2> QED
    BY <2>1, FirstAndRest
<1>4. /\ dev' = [dev EXCEPT ![v] = n] /\ UNCHANGED <<target, link>>
      /\ cache'.rml => cache.rml \/ (Heard(v) /\ n.rml)
  <2>1. PICK read \in BOOLEAN :
           cache' = IF ~Heard(v) THEN cache
                    ELSE [cache EXCEPT !.pos = n.pos,
                                       !.rml = IF read /\ c \in RmlCmds THEN n.rml ELSE @]
    BY <1>1, DeliverShape
  <2>2. dev' = [dev EXCEPT ![v] = n] /\ UNCHANGED <<target, link>>
    BY <1>1, DeliverShape
  <2> HIDE DEF n, c
  <2> QED
    BY <2>1, <2>2 DEF Typed, ChanTyped, Caches
<1>5. hist \in Hist
  BY DEF Typed, EngTyped
<1>6. /\ h \in Hist /\ hist.misled \subseteq h.misled
      /\ \A w \in Valves : hist.rml[w] # "none" => h.rml[w] # "none"
      /\ v \in Valves /\ c = "set" => h.rml[v] = "set"
  <2>1. v \in Valves => b \in {"none", "set", "hub", "press", "power"}
    BY <1>5 DEF Hist
  <2>2. /\ v \in Valves /\ hist.rml[v] # "none" => b # "none"
        /\ c = "set" => b = "set"
    OBVIOUS
  <2>3. Unheard(v) \subseteq {"early", "seen", "inferred", "unseen", "unheard"}
    BY UnheardTyped
  <2> HIDE DEF b, c, v
  <2> QED
    BY <1>5, <2>1, <2>2, <2>3 DEF Hist
<1>7. v \in Valves => (n.rml => c = "set" \/ dev[v].rml)
  <2>1. v \in Valves => dev[v] \in Device
    BY DEF Typed, ChanTyped
  <2> QED
    BY <1>3, <2>1, ObeyedTyped
<1> HIDE DEF h, n, c
<1>8. Typed'
  BY <1>1, <1>2, <1>6, ChanStepTyped DEF Typed, EngTyped
<1>9. ASSUME PastInv PROVE PastInv'
  <2>1. v \in Valves => (n.rml => h.rml[v] # "none")
    BY <1>6, <1>7, <1>9 DEF PastInv, LockKnown
  <2>2. LockKnown'
    <3>1. ASSUME NEW w \in Valves, dev'[w].rml PROVE h.rml[w] # "none"
      <4>1. CASE w = v
        BY <3>1, <4>1, <1>4, <2>1 DEF Typed, ChanTyped
      <4>2. CASE w # v
        BY <3>1, <4>2, <1>4, <1>6, <1>9 DEF Typed, ChanTyped, PastInv, LockKnown
      <4> QED
        BY <4>1, <4>2
    <3> QED
      BY <3>1, <1>1 DEF LockKnown
  <2>3. CacheKnown'
    <3>1. Heard(v) => Linked /\ v \in Valves
      BY LinkTypes DEF Heard, Typed
    <3>2. Linked => v \in Valves
      BY LinkTypes DEF Typed
    <3>3. cache'.rml => Linked /\ h.rml[v] # "none"
      BY <1>4, <1>6, <1>9, <2>1, <3>1, <3>2 DEF PastInv, CacheKnown
    <3> QED
      BY <3>3, <1>1, <1>4 DEF CacheKnown, Linked
  <2> QED
    BY <2>2, <2>3, <1>1, <1>4, <1>6, <1>9, ChanPast
<1> QED
  BY <1>8, <1>9 DEF Good

LEMMA ClearedBy ==
    ASSUME Typed, NEW v \in Valves, NEW by \in {"press", "power"}, RmlCleared(v, by)
    PROVE  /\ hist' \in Hist /\ hist.misled \subseteq hist'.misled
           /\ hist'.rml = [hist.rml EXCEPT ![v] = IF dev[v].rml /\ ~dev'[v].rml THEN by ELSE @]
           /\ hist'.misled = hist.misled \cup Unheard(v)
           /\ \A w \in Valves : hist.rml[w] # "none" => hist'.rml[w] # "none"
<1> DEFINE b == IF dev[v].rml /\ ~dev'[v].rml THEN by ELSE hist.rml[v]
<1>1. hist \in Hist
  BY DEF Typed, EngTyped
<1>2. hist' = [hist EXCEPT !.rml[v] = b, !.misled = @ \cup Unheard(v)]
  BY DEF RmlCleared, LockIs
<1>3. b \in {"none", "set", "hub", "press", "power"}
  BY <1>1 DEF Hist
<1>4. hist.rml[v] # "none" => b # "none"
  OBVIOUS
<1>5. [hist.rml EXCEPT ![v] = IF dev[v].rml /\ ~dev'[v].rml THEN by ELSE @]
         = [hist.rml EXCEPT ![v] = b]
  OBVIOUS
<1> HIDE DEF b
<1>6. hist' \in Hist /\ hist'.rml = [hist.rml EXCEPT ![v] = b]
      /\ hist'.misled = hist.misled \cup Unheard(v)
  <2> DEFINE u == Unheard(v)
  <2>1. u \subseteq {"early", "seen", "inferred", "unseen", "unheard"}
    BY UnheardTyped
  <2> HIDE DEF u
  <2>2. hist' = [hist EXCEPT !.rml[v] = b, !.misled = @ \cup u]
    BY <1>2 DEF u
  <2>3. hist' \in Hist /\ hist'.rml = [hist.rml EXCEPT ![v] = b]
        /\ hist'.misled = hist.misled \cup u
    BY <1>1, <1>3, <2>1, <2>2 DEF Hist
  <2> QED
    BY <2>3 DEF u
<1> QED
  BY <1>1, <1>4, <1>5, <1>6 DEF Hist, b

(* A valve that changes on its own sets no lock.                            *)
LEMMA ValveGood ==
    ASSUME Typed, ChanTyped', engHolds, UNCHANGED target, events' \in 0..MaxEvents,
           hist' \in Hist, hist.misled \subseteq hist'.misled,
           \A w \in Valves : hist.rml[w] # "none" => hist'.rml[w] # "none",
           \A w \in Valves : dev'[w].rml => dev[w].rml,
           cache'.rml => cache.rml \/ (Linked /\ dev[link.peer].rml),
           cache'.rml => link' = link
    PROVE  Good
<1>1. Typed'
  BY ChanStepTyped
<1>2. ASSUME PastInv PROVE PastInv'
  <2>1. LockKnown'
    BY <1>2 DEF PastInv, LockKnown
  <2>2. Linked => link.peer \in Valves
    BY LinkTypes DEF Typed
  <2>3. CacheKnown'
    BY <1>2, <2>2 DEF PastInv, LockKnown, CacheKnown, Linked
  <2> QED
    BY <2>1, <2>3, <1>2, ChanPast
<1> QED
  BY <1>1, <1>2 DEF Good

LEMMA PressGood == ASSUME Typed, NEW v \in Valves, ButtonPress(v) PROVE Good
<1>1. Press(v) /\ RmlCleared(v, "press") /\ engHolds /\ events' \in 0..MaxEvents
  BY EventTyped DEF Typed, ButtonPress, engKeeps
<1>2. ChanTyped'
  BY <1>1, PressTyped DEF Typed
<1> DEFINE n == IF dev[v].pos = "closed" THEN [dev[v] EXCEPT !.pos = "open", !.rml = FALSE]
                                         ELSE [dev[v] EXCEPT !.pos = "closed"]
<1>3. /\ dev' = [dev EXCEPT ![v] = n]
      /\ cache' = IF Heard(v) THEN [cache EXCEPT !.pos = n.pos, !.rml = n.rml] ELSE cache
      /\ UNCHANGED <<target, link>>
  BY <1>1 DEF Press
<1>4. n.rml => dev[v].rml
  BY DEF Typed, ChanTyped, Device
<1> HIDE DEF n
<1>5. \A w \in Valves : dev'[w].rml => dev[w].rml
  BY <1>3, <1>4 DEF Typed, ChanTyped
<1>6. Heard(v) => Linked /\ link.peer = v
  BY LinkTypes DEF Heard, LinkIsTarget, Typed
<1>7. cache'.rml => cache.rml \/ (Linked /\ dev[link.peer].rml)
  BY <1>3, <1>4, <1>6 DEF Typed, ChanTyped, Caches
<1>8. /\ hist' \in Hist /\ hist.misled \subseteq hist'.misled
      /\ \A w \in Valves : hist.rml[w] # "none" => hist'.rml[w] # "none"
  BY <1>1, ClearedBy
<1> QED
  BY <1>1, <1>2, <1>3, <1>5, <1>7, <1>8, ValveGood

LEMMA ProbeGood == ASSUME Typed, NEW v \in Valves, ProbeChange(v) PROVE Good
<1>1. FloodChange(v) /\ UNCHANGED hist /\ engHolds /\ events' \in 0..MaxEvents
  BY EventTyped DEF Typed, ProbeChange, engKeeps
<1>2. ChanTyped'
  BY <1>1, FloodTyped DEF Typed
<1>3. /\ \A w \in Valves : dev'[w].rml => dev[w].rml
      /\ cache'.rml => cache.rml
      /\ UNCHANGED <<target, link>>
  BY <1>1 DEF FloodChange, Typed, ChanTyped, Device, Caches
<1>4. hist \in Hist
  BY DEF Typed, EngTyped
<1> QED
  BY <1>1, <1>2, <1>3, <1>4, ValveGood

LEMMA PowerGood == ASSUME Typed, NEW v \in Valves, ValvePower(v) PROVE Good
<1>1. PowerLoss(v) /\ RmlCleared(v, "power") /\ engHolds /\ events' \in 0..MaxEvents
  BY EventTyped DEF Typed, ValvePower, engKeeps
<1>2. ChanTyped'
  BY <1>1, PowerTyped DEF Typed
<1>3. PICK kept \in BOOLEAN :
         dev' = [dev EXCEPT ![v].rml = @ /\ kept,
                            ![v].pos = IF dev[v].rml /\ kept THEN "closed" ELSE @]
  BY <1>1 DEF PowerLoss
<1>4. \A w \in Valves : dev'[w].rml => dev[w].rml
  BY <1>3 DEF Typed, ChanTyped, Device
<1>5. UNCHANGED target /\ (cache'.rml => cache.rml /\ link' = link)
  BY <1>1 DEF PowerLoss, Unlink, EmptyCache
<1>6. /\ hist' \in Hist /\ hist.misled \subseteq hist'.misled
      /\ \A w \in Valves : hist.rml[w] # "none" => hist'.rml[w] # "none"
  BY <1>1, ClearedBy
<1> QED
  BY <1>1, <1>2, <1>4, <1>5, <1>6, ValveGood

-----------------------------------------------------------------------------
(* Timers and restarts.                                                     *)

LEMMA ElapseGood ==
    ASSUME Typed, NEW e \in Engine, Elapse(e), events' \in 0..MaxEvents,
           e.confirmed = eng.confirmed, e.purge = eng.purge, e.active = eng.active
    PROVE  Good
<1>1. Typed'
  BY DEF Elapse, chanVars, Typed, ChanTyped, EngTyped
<1>2. PastInv => PastInv'
  BY IdlePast DEF Elapse, chanVars
<1> QED
  BY <1>1, <1>2 DEF Good

LEMMA TimersGood == ASSUME Typed, Timers \/ WindowDue PROVE Good
<1>1. PICK e \in {[eng EXCEPT !.grace = FALSE], [eng EXCEPT !.cooling = FALSE],
                  [eng EXCEPT !.allclear = "due"], [eng EXCEPT !.window = "due"]} : Elapse(e)
  BY Zenon DEF Timers, GraceEnds, CooldownEnds, ClearDue, WindowDue
<1>2. e \in Engine /\ e.confirmed = eng.confirmed /\ e.purge = eng.purge /\ e.active = eng.active
  <2>1. eng \in Engine
    BY DEF Typed, EngTyped
  <2>2. CASE e = [eng EXCEPT !.grace = FALSE]
    BY <2>1, <2>2 DEF Engine
  <2>3. CASE e = [eng EXCEPT !.cooling = FALSE]
    BY <2>1, <2>3 DEF Engine
  <2>4. CASE e = [eng EXCEPT !.allclear = "due"]
    BY <2>1, <2>4 DEF Engine
  <2>5. CASE e = [eng EXCEPT !.window = "due"]
    BY <2>1, <2>5 DEF Engine
  <2> QED
    BY <2>2, <2>3, <2>4, <2>5, <1>1
<1>3. events' \in 0..MaxEvents
  BY EventTyped DEF Typed, Timers, GraceEnds, CooldownEnds, ClearDue, WindowDue
<1> QED
  BY <1>1, <1>2, <1>3, ElapseGood

LEMMA WaterGood == ASSUME Typed, NEW s \in Sensors, WaterChange(s) PROVE Good
<1>1. events' \in 0..MaxEvents
  BY EventTyped DEF Typed, WaterChange
<1>2. Typed'
  BY <1>1 DEF WaterChange, chanVars, Typed, ChanTyped, EngTyped
<1>3. PastInv => PastInv'
  BY IdlePast DEF WaterChange, chanVars
<1> QED
  BY <1>2, <1>3 DEF Good

LEMMA RebootGood == ASSUME Typed, Reboot PROVE Good
<1>1. eng' \in Engine /\ ~eng'.confirmed /\ eng'.active = {}
  BY DEF Reboot, Fresh, Typed, EngTyped, Engine
<1>2. <<>> \in HubQueue /\ <<>> \in MqQueue /\ <<>> # <<"sync">>
  BY HubLists, MqLists
<1>3. <<>> \in Notices
  <2>1. <<>> \in Seq(Updates) /\ Len(<<>>) = 0
    OBVIOUS
  <2> QED
    BY <2>1 DEF Notices
<1>4. events' \in 0..MaxEvents
  BY EventTyped DEF Typed, Reboot
<1>5. Typed'
  BY <1>1, <1>2, <1>3, <1>4, EmptyTyped, ShortQueues
     DEF Reboot, Unlink, Typed, ChanTyped, EngTyped
<1>6. ASSUME PastInv PROVE PastInv'
  <2>1. LockKnown' /\ CacheKnown'
    BY <1>6 DEF Reboot, Unlink, EmptyCache, PastInv, LockKnown, CacheKnown
  <2>2. LoopKnows' /\ OnlyMembers' /\ NotedHere'
    BY <1>1 DEF Reboot, LoopKnows, OnlyMembers, NotedHere, Noted
  <2> QED
    BY <2>1, <2>2 DEF PastInv
<1> QED
  BY <1>5, <1>6 DEF Good

-----------------------------------------------------------------------------
(* A CLEAR on its way.                                                      *)

HasClear(q) == \E i \in 1..Len(q) : q[i] = "clear"

LEMMA ClearInRange ==
    ASSUME NEW S, NEW q \in Seq(S)
    PROVE  "clear" \in Range(q) <=> HasClear(q)
BY DEF Range, HasClear

LEMMA ClearInRest ==
    ASSUME NEW S, NEW q \in Seq(S), q # <<>>
    PROVE  /\ HasClear(Tail(q)) => HasClear(q)
           /\ Head(q) = "clear" => HasClear(q)
<1>1. Len(q) \in Nat \ {0} /\ Len(Tail(q)) = Len(q) - 1
  BY FirstAndRest
<1>2. \A i \in 1..Len(Tail(q)) : Tail(q)[i] = q[i + 1]
  BY HeadTailProperties
<1>3. Head(q) = q[1]
  BY HeadTailProperties
<1>4. ASSUME HasClear(Tail(q)) PROVE HasClear(q)
  <2>1. PICK i \in 1..Len(Tail(q)) : Tail(q)[i] = "clear"
    BY <1>4 DEF HasClear
  <2>2. i + 1 \in 1..Len(q) /\ q[i + 1] = "clear"
    BY <2>1, <1>1, <1>2
  <2> QED
    BY <2>2 DEF HasClear
<1>5. ASSUME Head(q) = "clear" PROVE HasClear(q)
  <2>1. 1 \in 1..Len(q) /\ q[1] = "clear"
    BY <1>1, <1>3, <1>5
  <2> QED
    BY <2>1 DEF HasClear
<1> QED
  BY <1>4, <1>5

LEMMA ClearInAppend ==
    ASSUME NEW S, NEW q \in Seq(S), NEW c \in S, HasClear(Append(q, c))
    PROVE  HasClear(q) \/ c = "clear"
<1>1. /\ Len(q) \in Nat /\ Len(Append(q, c)) = Len(q) + 1
      /\ \A i \in 1..Len(q) : Append(q, c)[i] = q[i]
      /\ Append(q, c)[Len(q) + 1] = c
  BY AppendProperties
<1>2. PICK i \in 1..Len(Append(q, c)) : Append(q, c)[i] = "clear"
  BY DEF HasClear
<1>3. i \in 1..Len(q) \/ i = Len(q) + 1
  BY <1>1, <1>2
<1> QED
  BY <1>1, <1>2, <1>3 DEF HasClear

LEMMA ClearInPosted ==
    ASSUME NEW q \in Queue
    PROVE  /\ \A c \in Cmds : HasClear(Posted(q, c)) => HasClear(q) \/ c = "clear"
           /\ HasClear(TokenPosted(q)) => HasClear(q)
<1>1. q \in Seq(Cmds)
  BY DEF Queue
<1>2. \A c \in Cmds : HasClear(Posted(q, c)) => HasClear(q) \/ c = "clear"
  BY <1>1, ClearInAppend DEF Posted
<1>3. ASSUME HasClear(<<"replay">> \o q) PROVE HasClear(q)
  <2> DEFINE t == <<"replay">>
  <2>1. t \in Seq(Cmds) /\ Len(t) = 1 /\ t[1] = "replay"
    BY DEF Cmds
  <2> HIDE DEF t
  <2>2. /\ Len(t \o q) = Len(t) + Len(q)
        /\ \A i \in 1..(Len(t) + Len(q)) :
              (t \o q)[i] = IF i <= Len(t) THEN t[i] ELSE q[i - Len(t)]
    <3>1. t \in Seq(Cmds) /\ q \in Seq(Cmds)
      BY <1>1, <2>1
    <3> QED
      BY <3>1, ConcatProperties, Zenon
  <2>3. PICK i \in 1..Len(t \o q) : (t \o q)[i] = "clear"
    BY <1>3 DEF HasClear, t
  <2>4. i - 1 \in 1..Len(q) /\ q[i - 1] = "clear"
    <3>1. Len(q) \in Nat /\ i \in 1..(1 + Len(q)) /\ i # 1
      BY <1>1, <2>1, <2>2, <2>3
    <3> QED
      BY <3>1, <2>1, <2>2, <2>3
  <2> QED
    BY <2>4 DEF HasClear
<1> QED
  BY <1>2, <1>3 DEF TokenPosted

LEMMA NoClearIn ==
    /\ ~HasClear(<<>>) /\ ~HasClear(<<"connect">>) /\ ~HasClear(<<"disconnect">>)
    /\ ~HasClear(CloseCmds)
    /\ \A c : c # "clear" => ~HasClear(<<"connect", c>>)
    /\ \A v : ~HasClear(QueueFor(v))
BY DEF HasClear, CloseCmds, QueueFor

(* In the slots and in the air.                                             *)
Coming(p, a) == p.rml = "clear" \/ HasClear(a)

LEMMA WriteClear ==
    ASSUME NEW ready \in BOOLEAN, NEW p \in Slots, NEW a \in Airs, NEW slot, NEW c,
           Fits(slot, c), NEW o \in WriteOutcomes(ready, p, a, slot, c), Coming(o.p, o.a)
    PROVE  Coming(p, a) \/ c = "clear"
<1>1. /\ [p EXCEPT ![slot] = "none"].rml = "clear" => p.rml = "clear"
      /\ [p EXCEPT ![slot] = c].rml = "clear" => p.rml = "clear" \/ c = "clear"
  BY DEF Slots, Fits
<1>2. HasClear(Append(a, c)) => HasClear(a) \/ c = "clear"
  <2>1. c \in Writes /\ a \in Seq(Writes)
    BY DEF Fits, Writes, Airs
  <2> QED
    BY <2>1, ClearInAppend
<1>3. \/ o.p = [p EXCEPT ![slot] = c] /\ o.a = a
      \/ o.p = [p EXCEPT ![slot] = "none"] /\ o.a = Append(a, c)
  <2>1. PICK end \in Ends : o \in {Pended(p, a, slot, c, end), Accepted(p, a, slot, c)}
    BY Zenon DEF WriteOutcomes, Ends
  <2>2. CASE o = Pended(p, a, slot, c, end)
    BY <2>2 DEF Pended
  <2>3. CASE o = Accepted(p, a, slot, c)
    BY <2>3 DEF Accepted
  <2> QED
    BY <2>1, <2>2, <2>3
<1> QED
  BY <1>1, <1>2, <1>3, Zenon DEF Coming

LEMMA RmlFirstClear ==
    ASSUME NEW ready \in BOOLEAN, NEW p \in Slots, NEW a \in Airs,
           NEW o \in RmlFirst(ready, p, a), Coming(o.p, o.a)
    PROVE  Coming(p, a)
<1>1. CASE ready /\ p.rml # "none"
  <2>1. Fits("rml", p.rml)
    BY <1>1 DEF Slots, Fits
  <2>2. o \in WriteOutcomes(ready, p, a, "rml", p.rml)
    BY <1>1 DEF RmlFirst
  <2>3. Coming(p, a) \/ p.rml = "clear"
    BY <2>1, <2>2, WriteClear
  <2> QED
    BY <2>3 DEF Coming
<1>2. CASE ~(ready /\ p.rml # "none")
  <2>1. o.p = p /\ o.a = a
    BY <1>2 DEF RmlFirst, Idle
  <2> QED
    BY <2>1
<1> QED
  BY <1>1, <1>2

LEMMA ValveClear ==
    ASSUME NEW p \in Slots, NEW a \in Airs, NEW c \in ValveCmds,
           NEW o \in ValveOutcomes(p, a, c), Coming(o.p, o.a)
    PROVE  Coming(p, a)
<1>1. Fits("valve", c) /\ c # "clear" /\ Ready \in BOOLEAN
  BY DEF Fits, ValveCmds, Ready, LinkIsTarget, HasTarget
<1>2. PICK f \in RmlFirst(Ready, p, a) :
         o \in IF f.end = "sent" THEN WriteOutcomes(Ready, f.p, f.a, "valve", c)
               ELSE {Pended(f.p, f.a, "valve", c, end) :
                       end \in {f.end} \cup (IF c = "close" THEN {"retry"} ELSE {})}
  BY Zenon DEF ValveOutcomes
<1>3. f.p \in Slots /\ f.a \in Airs
  BY <1>1, RmlFirstTyped DEF Outcome
<1>4. Coming(f.p, f.a)
  <2>1. CASE f.end = "sent"
    BY <1>1, <1>2, <1>3, <2>1, WriteClear
  <2>2. CASE f.end # "sent"
    <3>1. o.p = [f.p EXCEPT !["valve"] = c] /\ o.a = f.a
      BY <1>2, <2>2 DEF Pended
    <3>2. o.p.rml = f.p.rml
      BY <3>1, <1>3 DEF Slots
    <3> QED
      BY <3>1, <3>2 DEF Coming
  <2> QED
    BY <2>1, <2>2
<1> QED
  BY <1>1, <1>4, RmlFirstClear

LEMMA ReplayClear ==
    ASSUME NEW p \in Slots, NEW a \in Airs, NEW o \in ReplayOutcomes(p, a), Coming(o.p, o.a)
    PROVE  Coming(p, a)
<1>1. Ready \in BOOLEAN
  BY DEF Ready, LinkIsTarget, HasTarget
<1>2. PICK f \in RmlFirst(Ready, p, a) :
         o \in IF f.p.valve = "none" \/ f.end = "retry" \/ (f.end # "sent" /\ f.p.valve = "open")
                 THEN {f}
               ELSE WriteOutcomes(Ready, f.p, f.a, "valve", f.p.valve)
  BY Zenon DEF ReplayOutcomes
<1>3. f.p \in Slots /\ f.a \in Airs
  BY <1>1, RmlFirstTyped DEF Outcome
<1>4. Coming(f.p, f.a)
  <2>1. CASE o = f
    BY <2>1
  <2>2. CASE f.p.valve # "none" /\ o \in WriteOutcomes(Ready, f.p, f.a, "valve", f.p.valve)
    <3>1. Fits("valve", f.p.valve) /\ f.p.valve # "clear"
      BY <1>3, <2>2 DEF Slots, Fits, ValveCmds
    <3> QED
      BY <3>1, <1>1, <1>3, <2>2, WriteClear
  <2> QED
    BY <1>2, <2>1, <2>2
<1> QED
  BY <1>1, <1>4, RmlFirstClear

LEMMA SetupClear ==
    ASSUME NEW p \in Slots, NEW a \in Airs, NEW o \in SetupOutcomes(p, a), Coming(o.p, o.a)
    PROVE  Coming(p, a)
<1>1. PICK f \in RmlFirst(TRUE, p, a) :
         o \in IF f.end = "sent" /\ f.p.valve # "none"
                 THEN WriteOutcomes(TRUE, f.p, f.a, "valve", f.p.valve) ELSE {f}
  BY Zenon DEF SetupOutcomes
<1>2. f.p \in Slots /\ f.a \in Airs
  BY RmlFirstTyped DEF Outcome
<1>3. Coming(f.p, f.a)
  <2>1. CASE o = f
    BY <2>1
  <2>2. CASE f.p.valve # "none" /\ o \in WriteOutcomes(TRUE, f.p, f.a, "valve", f.p.valve)
    <3>1. Fits("valve", f.p.valve) /\ f.p.valve # "clear"
      BY <1>2, <2>2 DEF Slots, Fits, ValveCmds
    <3> QED
      BY <3>1, <1>2, <2>2, WriteClear
  <2> QED
    BY <1>1, <2>1, <2>2
<1> QED
  BY <1>3, RmlFirstClear

(* ... and in the queues of the tasks.                                      *)
ClearComing == Coming(pend, air) \/ HasClear(mqTodo) \/ HasClear(cmdq)

LEMMA ClearOnItsWay ==
    ASSUME Typed
    PROVE  ClearComing => OnItsWay("clear")
BY ClearInRange DEF Typed, ChanTyped, EngTyped, MqQueue, Queue, Airs, ClearComing, Coming,
                    OnItsWay

LEMMA TakeWriteClear ==
    ASSUME ChanTyped, cmdq # <<>>, NEW outcomes,
           \A o \in outcomes : Coming(o.p, o.a) => Coming(pend, air) \/ Head(cmdq) = "clear",
           TakeWrite(outcomes), mqTodo' = mqTodo
    PROVE  ClearComing' => ClearComing
<1>1. PICK o \in outcomes :
         /\ pend' = o.p
         /\ air' = o.a
         /\ cmdq' = IF o.end = "retry" THEN TokenPosted(Tail(cmdq)) ELSE Tail(cmdq)
  BY Zenon DEF TakeWrite
<1>2. cmdq \in Seq(Cmds) /\ Tail(cmdq) \in Queue
  BY QueueTyped DEF ChanTyped, Queue
<1>3. /\ HasClear(Tail(cmdq)) => HasClear(cmdq)
      /\ Head(cmdq) = "clear" => HasClear(cmdq)
  BY <1>2, ClearInRest
<1>4. HasClear(cmdq') => HasClear(cmdq)
  BY <1>1, <1>2, <1>3, ClearInPosted
<1>5. Coming(pend', air') => Coming(pend, air) \/ HasClear(cmdq)
  BY <1>1, <1>3
<1> QED
  BY <1>4, <1>5 DEF ClearComing

LEMMA TakeCmdClear ==
    ASSUME ChanTyped, TakeCmd, mqTodo' = mqTodo
    PROVE  ClearComing' => ClearComing
<1> DEFINE c == Head(cmdq)
<1>1. cmdq # <<>> /\ cmdq \in Seq(Cmds)
  BY DEF ChanTyped, TakeCmd, Queue
<1>2. Ready \in BOOLEAN /\ pend \in Slots /\ air \in Airs
  BY LinkTypes DEF ChanTyped
<1>3. \/ c \in RmlCmds /\ TakeWrite(WriteOutcomes(Ready, pend, air, "rml", c))
      \/ c \in ValveCmds /\ TakeWrite(ValveOutcomes(pend, air, c))
      \/ TakeWrite(ReplayOutcomes(pend, air))
      \/ cmdq' = Tail(cmdq) /\ UNCHANGED <<pend, air>>
  BY Zenon DEF TakeCmd
<1>4. CASE c \in RmlCmds /\ TakeWrite(WriteOutcomes(Ready, pend, air, "rml", c))
  <2>1. \A o \in WriteOutcomes(Ready, pend, air, "rml", c) :
           Coming(o.p, o.a) => Coming(pend, air) \/ c = "clear"
    BY <1>2, <1>4, WriteClear DEF Fits
  <2> QED
    BY <2>1, <1>1, <1>4, TakeWriteClear
<1>5. CASE c \in ValveCmds /\ TakeWrite(ValveOutcomes(pend, air, c))
  <2>1. \A o \in ValveOutcomes(pend, air, c) : Coming(o.p, o.a) => Coming(pend, air)
    BY <1>2, <1>5, ValveClear
  <2> QED
    BY <2>1, <1>1, <1>5, TakeWriteClear
<1>6. CASE TakeWrite(ReplayOutcomes(pend, air))
  <2>1. \A o \in ReplayOutcomes(pend, air) : Coming(o.p, o.a) => Coming(pend, air)
    BY <1>2, ReplayClear
  <2> QED
    BY <2>1, <1>1, <1>6, TakeWriteClear
<1>7. CASE cmdq' = Tail(cmdq) /\ UNCHANGED <<pend, air>>
  BY <1>1, <1>7, ClearInRest DEF ClearComing, Coming
<1> QED
  BY <1>3, <1>4, <1>5, <1>6, <1>7

-----------------------------------------------------------------------------
(* A press is real: the inductive invariant, on top of the one above.       *)

(* A lock is never noted as seen over a clear that is still owed ...        *)
NotBoth == ~(eng.owed /\ eng.confirmed)

(* ... nor, but where the history says so, over one that is on its way.     *)
ClearTold == eng.confirmed /\ "seen" \notin hist.misled => ~ClearComing

(* "set" is in the history of the locks that are set, and of no other.      *)
HistLock == \A v \in Valves : hist.rml[v] = "set" <=> dev[v].rml

(* The cache shows a lock that is set, unless the hub missed a change.      *)
CacheTrue == cache.rml /\ "unheard" \notin hist.misled => dev[link.peer].rml

(* A lock noted as seen was not lifted by the hub's own clear, and, while   *)
(* it is set, a link to its valve shows it.                                 *)
NotHub   == {"seen", "unheard"} \cap hist.misled # {} \/ hist.rml[target] # "hub"
Shown    == "unheard" \in hist.misled \/ (Ready /\ dev[target].rml => cache.rml)
NotedTrue == Noted /\ HasTarget /\ detValve \in {target, NoValve} => NotHub /\ Shown

PressInv == NotBoth /\ ClearTold /\ HistLock /\ CacheTrue /\ NotedTrue
Known    == Typed /\ PastInv /\ PressInv

(* A hold that leaves the channel as it was.                                *)
LEMMA HoldPress ==
    ASSUME Known, NEW g, NEW b \in BOOLEAN, Hold(g, b),
           UNCHANGED <<target, link, cache, dev, detValve>>,
           hist'.rml = hist.rml, hist.misled \subseteq hist'.misled
    PROVE  NotBoth' /\ HistLock' /\ CacheTrue' /\ NotedTrue'
<1>1. NotBoth'
  BY DEF Hold, From, Known, PressInv, NotBoth
<1>2. HistLock' /\ CacheTrue'
  BY DEF Known, PressInv, HistLock, CacheTrue
<1>3. ASSUME Noted' PROVE (SeenBefore /\ Noted) \/ SeenNow
  BY <1>3 DEF Hold, From, Noted, SeenBefore
<1>4. NotedTrue'
  <2>1. CASE SeenBefore /\ Noted
    BY <2>1 DEF Known, PressInv, NotedTrue, NotHub, Shown, HasTarget, Ready, LinkIsTarget
  <2>2. CASE SeenNow
    <3>1. target \in Valves /\ link.peer = target /\ cache.rml
      BY <2>2 DEF SeenNow, LinkIsTarget, HasTarget, Known, Typed, ChanTyped
    <3>2. "unheard" \notin hist.misled => hist.rml[target] = "set"
      BY <3>1 DEF Known, PressInv, CacheTrue, HistLock
    <3>3. NotHub' /\ Shown'
      BY <3>1, <3>2 DEF NotHub, Shown
    <3> QED
      BY <3>3 DEF NotedTrue
  <2>3. CASE ~Noted'
    BY <2>3 DEF NotedTrue
  <2> QED
    BY <1>3, <2>1, <2>2, <2>3
<1> QED
  BY <1>1, <1>2, <1>4

(* What such a hold must keep to, for no clear to be overlooked.            *)
MqKept  == UNCHANGED mqTodo \/ ~HasClear(mqTodo') \/ ~eng'.confirmed
Told    == eng'.confirmed /\ "seen" \notin hist'.misled => ~ClearComing

LEMMA HoldTold ==
    ASSUME Known, Unpended, UNCHANGED air, CmdqOrClear, MqKept, Told
    PROVE  ClearTold'
<1> SUFFICES ASSUME eng'.confirmed, "seen" \notin hist'.misled PROVE ~ClearComing'
  BY DEF ClearTold
<1>1. ~ClearComing
  BY DEF Told
<1>2. cmdq' = cmdq
  BY DEF CmdqOrClear, SomeClear, Known, PressInv, NotBoth
<1>3. ~HasClear(mqTodo')
  BY <1>1 DEF MqKept, ClearComing
<1> QED
  BY <1>1, <1>2, <1>3 DEF ClearComing, Coming, Unpended

LEMMA KeptTold ==
    ASSUME Known, eng'.confirmed => eng.confirmed, hist.misled \subseteq hist'.misled
    PROVE  Told
BY DEF Told, Known, PressInv, ClearTold

(* A hold that looks at the cache says what was on its way.                 *)
LEMMA TrustedTold ==
    ASSUME Known, Trusted
    PROVE  Told
<1> SUFFICES ASSUME eng'.confirmed, "seen" \notin hist'.misled PROVE ~ClearComing
  BY DEF Told
<1>1. hist.misled \subseteq hist'.misled /\ hist \in Hist
  BY TrustedTyped DEF Known, Typed, EngTyped
<1>2. CASE eng.confirmed
  BY <1>1, <1>2 DEF Known, PressInv, ClearTold
<1>3. CASE ~eng.confirmed
  <2> DEFINE early == IF eng.owed /\ ~eng'.owed /\ ~eng'.incident /\ OnItsWay("set")
                        THEN {"early"} ELSE {}
             seen  == IF ~eng.confirmed /\ eng'.confirmed /\ OnItsWay("clear")
                        THEN {"seen"} ELSE {}
             infer == IF ~Window(eng) /\ Window(eng') /\ updq' # updq /\ ~Pressed
                        THEN {"inferred"} ELSE {}
  <2>1. hist' = [hist EXCEPT !.misled = @ \cup (early \cup seen \cup infer)]
    BY DEF Trusted
  <2>2. OnItsWay("clear") => "seen" \in seen
    BY <1>3
  <2> HIDE DEF early, seen, infer
  <2>3. hist'.misled = hist.misled \cup (early \cup seen \cup infer)
    BY <2>1, <1>1 DEF Hist
  <2>4. ~OnItsWay("clear")
    BY <2>2, <2>3
  <2> QED
    BY <2>4, ClearOnItsWay DEF Known
<1> QED
  BY <1>2, <1>3

(* A step that changes nothing the invariant speaks of.                     *)
LEMMA IdlePress ==
    ASSUME Known, UNCHANGED <<target, link, cache, dev, detValve, hist>>,
           eng'.confirmed = eng.confirmed, eng'.purge = eng.purge, eng'.owed = eng.owed,
           ClearComing' => ClearComing
    PROVE  PressInv'
<1>1. NotBoth' /\ ClearTold' /\ HistLock' /\ CacheTrue'
  BY DEF Known, PressInv, NotBoth, ClearTold, HistLock, CacheTrue
<1>2. NotedTrue'
  BY DEF Known, PressInv, NotedTrue, Noted, NotHub, Shown, HasTarget, Ready, LinkIsTarget
<1> QED
  BY <1>1, <1>2 DEF PressInv

(* The hub loop's steps.                                                    *)
LEMMA HubPostPress == ASSUME Known, HubPost PROVE PressInv'
<1> DEFINE C == {"set", "close", "connect", "sync", "event"}
<1>1. hubTodo # <<>> /\ hubTodo \in Seq(C)
  BY DEF Known, Typed, EngTyped, HubQueue, HubPost
<1>2. Head(hubTodo) \in C /\ Head(hubTodo) # "sync" /\ Head(hubTodo) # "event"
  <2>1. Head(hubTodo) \in C
    <3> HIDE DEF C
    <3> QED
      BY <1>1, FirstAndRest
  <2> QED
    BY <2>1 DEF HubPost
<1>3. Head(hubTodo) \in Cmds /\ Head(hubTodo) # "clear"
  BY <1>2 DEF Cmds, Writes, RmlCmds, ValveCmds
<1>4. HasClear(cmdq') => HasClear(cmdq)
  BY <1>3, ClearInPosted DEF HubPost, Known, Typed, ChanTyped
<1>5. ClearComing' => ClearComing
  BY <1>4 DEF HubPost, ClearComing, Coming
<1> QED
  BY <1>5, IdlePress DEF HubPost

LEMMA ReportPress == ASSUME Known, NEW s \in Sensors, Report(s) PROVE PressInv'
<1>1. UNCHANGED <<target, link, cache, dev, detValve, air, mqTodo, cmdq, hist>>
  BY DEF Report, hubFrame
<1>2. s \in Sources /\ Typed
  BY DEF Sources, Known
<1>3. PICK g \in {{}, {s}} : Hold(g, FALSE)
  <2>1. CASE EvaluateWet(s)
    BY <2>1, <1>2, WetShape
  <2>2. CASE EvaluateDry(s)
    BY <2>2, <1>2, DryShape
  <2> QED
    BY <2>1, <2>2, Zenon DEF Report
<1>4. eng'.confirmed => eng.confirmed
  BY <1>3 DEF Hold, From, SeenBefore
<1>5. ClearTold'
  BY <1>1, <1>3, <1>4, HoldTold, KeptTold DEF Hold, CmdqOrClear, MqKept
<1> QED
  BY <1>1, <1>3, <1>5, HoldPress DEF PressInv

LEMMA ValveUpdatePress == ASSUME Known, ValveUpdate PROVE PressInv'
<1>1. UNCHANGED <<target, link, cache, dev, detValve, air, mqTodo>> /\ Trusted /\ Typed
  BY DEF ValveUpdate, hubFrame, Known
<1>2. hist'.rml = hist.rml /\ hist.misled \subseteq hist'.misled
  BY <1>1, TrustedTyped DEF Typed, EngTyped
<1>3. \/ LinkIsTarget /\ (EvaluateWet(Probe) \/ EvaluateDry(Probe)) /\ UNCHANGED cmdq
      \/ LinkIsTarget /\ Reconcile
      \/ UNCHANGED <<eng, pend, cmdq>>
  BY Zenon DEF ValveUpdate
<1>4. Told
  BY <1>1, TrustedTold
<1>5. CASE UNCHANGED <<eng, pend, cmdq>>
  <2>1. NotBoth' /\ HistLock' /\ CacheTrue'
    BY <1>1, <1>2, <1>5 DEF Known, PressInv, NotBoth, HistLock, CacheTrue
  <2>2. NotedTrue'
    BY <1>1, <1>2, <1>5
       DEF Known, PressInv, NotedTrue, Noted, NotHub, Shown, HasTarget, Ready, LinkIsTarget
  <2>3. ClearTold'
    BY <1>1, <1>4, <1>5 DEF Told, ClearTold, ClearComing, Coming
  <2> QED
    BY <2>1, <2>2, <2>3 DEF PressInv
<1>6. CASE LinkIsTarget /\ (\/ (EvaluateWet(Probe) \/ EvaluateDry(Probe)) /\ UNCHANGED cmdq
                            \/ Reconcile)
  <2>1. PICK g \in {{}, {Probe}}, b \in BOOLEAN : Hold(g, b) /\ CmdqOrClear
    <3>1. Probe \in Sources
      BY DEF Sources
    <3>2. CASE EvaluateWet(Probe) /\ UNCHANGED cmdq
      BY <3>1, <3>2, <1>1, WetShape DEF CmdqOrClear
    <3>3. CASE EvaluateDry(Probe) /\ UNCHANGED cmdq
      BY <3>3, <1>1, DryShape DEF CmdqOrClear
    <3>4. CASE Reconcile
      BY <3>4, <1>1, <1>6, ReconcileShape
    <3> QED
      BY <3>2, <3>3, <3>4, <1>6
  <2>2. ClearTold'
    BY <1>1, <1>4, <2>1, HoldTold DEF Hold, MqKept
  <2> QED
    BY <1>1, <1>2, <2>1, <2>2, HoldPress DEF PressInv
<1> QED
  BY <1>3, <1>5, <1>6

LEMMA TickPress == ASSUME Known, Tick PROVE PressInv'
<1>1. UNCHANGED <<target, link, cache, dev, detValve, air, mqTodo>> /\ Trusted /\ Typed
  BY DEF Tick, hubFrame, Known
<1>2. Hold({}, TRUE) /\ CmdqOrClear
  BY <1>1, TickShape
<1>3. hist'.rml = hist.rml /\ hist.misled \subseteq hist'.misled
  BY <1>1, TrustedTyped DEF Typed, EngTyped
<1>4. ClearTold'
  BY <1>1, <1>2, HoldTold, TrustedTold DEF Hold, MqKept
<1>5. PICK b \in BOOLEAN : Hold({}, b)
  BY <1>2
<1> QED
  BY <1>1, <1>3, <1>4, <1>5, HoldPress DEF PressInv

LEMMA ForgetPress == ASSUME Known, ForgetUnprovisioned PROVE PressInv'
<1>1. UNCHANGED <<target, link, cache, dev, detValve, air, mqTodo, cmdq, hist>> /\ Typed
  BY DEF ForgetUnprovisioned, hubFrame, Known
<1>2. Hold({}, FALSE)
  BY <1>1, ForgetShape
<1>3. eng'.confirmed => eng.confirmed
  BY <1>2 DEF Hold, From, SeenBefore
<1>4. ClearTold'
  BY <1>1, <1>2, <1>3, HoldTold, KeptTold DEF Hold, CmdqOrClear, MqKept
<1> QED
  BY <1>1, <1>2, <1>4, HoldPress DEF PressInv

(* The loop takes over the valve it had no lock of, or forgets the lock.    *)
LEMMA SyncPress == ASSUME Known, SyncValveDetectors PROVE PressInv'
<1>1. /\ detValve' = target
      /\ UNCHANGED <<target, link, cache, dev, air, mqTodo, cmdq, hist>>
  BY DEF SyncValveDetectors, hubFrame
<1> DEFINE st == [e |-> eng, p |-> pend]
<1>2. \/ /\ target = detValve \/ detValve = NoValve
         /\ UNCHANGED <<eng, pend>>
      \/ eng' = Replaced(st).e /\ pend' = Replaced(st).p
      \/ eng' = [eng EXCEPT !.purge = TRUE] /\ UNCHANGED pend
  BY Zenon DEF SyncValveDetectors, Commit
<1>3. st \in Holds /\ st.e = eng /\ eng \in Engine
  BY DEF Holds, Known, Typed, ChanTyped, EngTyped
<1>4. ~Replaced(st).e.confirmed /\ (Replaced(st).p.rml = "clear" => pend.rml = "clear")
  <2> HIDE DEF st
  <2>1. Replaced(st) \in Holds /\ ~Replaced(st).e.confirmed
    BY <1>3, FromReplaced
  <2> HIDE DEF Replaced
  <2> QED
    BY <2>1 DEF Holds
<1> HIDE DEF st
<1>5. /\ [eng EXCEPT !.purge = TRUE].purge
      /\ [eng EXCEPT !.purge = TRUE].owed = eng.owed
      /\ [eng EXCEPT !.purge = TRUE].confirmed = eng.confirmed
  BY <1>3 DEF Engine
<1>6. NotBoth' /\ Unpended /\ (eng'.confirmed => eng.confirmed)
  BY <1>2, <1>4, <1>5 DEF Known, PressInv, NotBoth, Unpended
<1>7. HistLock' /\ CacheTrue'
  BY <1>1 DEF Known, PressInv, HistLock, CacheTrue
<1>8. ClearTold'
  BY <1>1, <1>6, HoldTold, KeptTold DEF CmdqOrClear, MqKept
<1>9. Noted' => UNCHANGED eng /\ (target = detValve \/ detValve = NoValve)
  BY <1>2, <1>4, <1>5 DEF Noted
<1>10. NotedTrue'
  BY <1>1, <1>9 DEF Known, PressInv, NotedTrue, Noted, NotHub, Shown, HasTarget, Ready, LinkIsTarget
<1> QED
  BY <1>6, <1>7, <1>8, <1>10 DEF PressInv

LEMMA HubPress == ASSUME Known, Hub PROVE PressInv'
BY HubPostPress, ReportPress, ValveUpdatePress, TickPress, ForgetPress, SyncPress, Zenon DEF Hub

(* The MQTT task's steps.                                                   *)
LEMMA MqPostPress == ASSUME Known, MqPost PROVE PressInv'
<1> DEFINE C == Writes \cup {"connect", "disconnect"}
           c == Head(mqTodo)
<1>1. mqTodo # <<>> /\ mqTodo \in Seq(C) /\ cmdq \in Queue
  BY DEF Known, Typed, ChanTyped, EngTyped, MqQueue, MqPost
<1>2. c \in C /\ (HasClear(Tail(mqTodo)) => HasClear(mqTodo)) /\ (c = "clear" => HasClear(mqTodo))
  <2> HIDE DEF C
  <2> QED
    BY <1>1, FirstAndRest, ClearInRest
<1>3. c \in Cmds /\ cmdq \in Seq(Cmds)
  BY <1>1, <1>2 DEF Cmds, Queue
<1>4. mqTodo' = Tail(mqTodo) /\ cmdq' \in {Append(cmdq, c), Posted(cmdq, c)}
  BY DEF MqPost
<1> HIDE DEF c, C
<1>5. HasClear(cmdq') => HasClear(cmdq) \/ c = "clear"
  BY <1>1, <1>3, <1>4, ClearInAppend, ClearInPosted
<1>6. ClearComing' => ClearComing
  BY <1>2, <1>4, <1>5 DEF MqPost, ClearComing, Coming
<1> QED
  BY <1>6, IdlePress DEF MqPost

LEMMA ResetPress == ASSUME Known, LeakReset PROVE PressInv'
<1>1. UNCHANGED <<target, link, cache, dev, detValve, air, mqTodo, hist>> /\ Typed
  BY DEF LeakReset, mqKeeps, mqFrame, mqStays, Known
<1>2. Hold({}, FALSE) /\ CmdqOrClear
  BY <1>1, ResetShape
<1>3. eng'.confirmed => eng.confirmed
  BY <1>2 DEF Hold, From, SeenBefore
<1>4. ClearTold'
  BY <1>1, <1>2, <1>3, HoldTold, KeptTold DEF Hold, MqKept
<1> QED
  BY <1>1, <1>2, <1>4, HoldPress DEF PressInv

LEMMA CancelPress == ASSUME Known, CancelOverride PROVE PressInv'
<1>1. UNCHANGED <<target, link, cache, dev, detValve, air, cmdq, hist>> /\ Typed
  BY DEF CancelOverride, mqKeeps, mqFrame, mqStays, Known
<1>2. Hold({}, FALSE) /\ mqTodo' \in {mqTodo, CloseCmds}
  BY <1>1, CancelShape
<1>3. eng'.confirmed => eng.confirmed
  BY <1>2 DEF Hold, From, SeenBefore
<1>4. MqKept
  BY <1>2, NoClearIn DEF MqKept
<1>5. ClearTold'
  BY <1>1, <1>2, <1>3, <1>4, HoldTold, KeptTold DEF Hold, CmdqOrClear
<1> QED
  BY <1>1, <1>2, <1>5, HoldPress DEF PressInv

LEMMA EnablePress == ASSUME Known, EnableOverride PROVE PressInv'
<1>1. UNCHANGED <<target, link, cache, dev, detValve, air, cmdq, hist>> /\ Typed
  BY DEF EnableOverride, mqKeeps, mqFrame, mqStays, Known
<1>2. Hold({}, TRUE) /\ (eng'.confirmed => eng.confirmed) /\ MqKept
  BY <1>1, EnableShape DEF MqKept
<1>3. ClearTold'
  BY <1>1, <1>2, HoldTold, KeptTold DEF Hold, CmdqOrClear
<1>4. PICK b \in BOOLEAN : Hold({}, b)
  BY <1>2
<1> QED
  BY <1>1, <1>3, <1>4, HoldPress DEF PressInv

LEMMA QuietPress ==
    ASSUME Known, EnableRequest \/ EnableCheck \/ RulesConfig
                  \/ \E c \in {"open", "close"} : ValveCommand(c)
    PROVE  PressInv'
<1>1. UNCHANGED <<eng, pend, cmdq, target, link, cache, dev, air, detValve, hist>>
  BY DEF EnableRequest, EnableCheck, RulesConfig, ValveCommand, mqKeeps, mqFrame, mqStays
<1>2. UNCHANGED mqTodo \/ ~HasClear(mqTodo')
  <2>1. CASE \E c \in {"open", "close"} : ValveCommand(c)
    BY <2>1, NoClearIn DEF ValveCommand
  <2>2. CASE EnableRequest \/ EnableCheck \/ RulesConfig
    BY <2>2, NoClearIn DEF EnableRequest, EnableCheck, RulesConfig
  <2> QED
    BY <2>1, <2>2
<1>3. ClearComing' => ClearComing
  BY <1>1, <1>2 DEF ClearComing, Coming
<1> QED
  BY <1>1, <1>3, IdlePress

LEMMA SensorPress == ASSUME Known, NEW s \in Sensors, SensorChange(s) PROVE PressInv'
<1>1. UNCHANGED <<target, link, cache, dev, detValve, air, mqTodo, cmdq, hist>> /\ Typed
      /\ pend \in Slots
  BY DEF SensorChange, mqFrame, mqStays, Known, Typed, ChanTyped
<1>2. (Hold({}, FALSE) /\ ~eng'.confirmed) \/ UNCHANGED <<eng, pend>>
  BY <1>1, ResetAllShape DEF SensorChange
<1>3. CASE Hold({}, FALSE) /\ ~eng'.confirmed
  <2>1. ClearTold'
    BY <1>3 DEF ClearTold
  <2> QED
    BY <1>1, <1>3, <2>1, HoldPress DEF PressInv
<1>4. CASE UNCHANGED <<eng, pend>>
  BY <1>1, <1>4, IdlePress DEF ClearComing, Coming
<1> QED
  BY <1>2, <1>3, <1>4

(* An exchange the loop will see takes NotedTrue's valve away from it.      *)
LEMMA ExchangePress ==
    ASSUME Known, NEW v \in Valves \cup {NoValve}, ValveChange(v)
    PROVE  PressInv'
<1> DEFINE unseen == IF v = detValve \/ (detValve = NoValve /\ HasTarget)
                       THEN {"unseen"} ELSE {}
<1>1. /\ target' = v /\ cmdq' = QueueFor(v)
      /\ mqTodo' = (IF v = NoValve THEN <<"disconnect">> ELSE <<"connect">>)
      /\ UNCHANGED <<link, cache, dev, air, detValve>>
      /\ hist' = [hist EXCEPT !.misled = @ \cup unseen]
  BY DEF ValveChange, mqStays
<1>2. /\ hist'.rml = hist.rml
      /\ hist.misled \subseteq hist'.misled
      /\ "unseen" \notin hist'.misled => v # detValve /\ ~(detValve = NoValve /\ HasTarget)
  BY <1>1 DEF Known, Typed, EngTyped, Hist
<1> HIDE DEF unseen
<1>3. \/ Hold({}, FALSE) /\ ~eng'.confirmed
      \/ UNCHANGED eng /\ pend' = NoPend
  <2>1. ResetAll(NoPend) \/ (UNCHANGED eng /\ pend' = NoPend)
    BY DEF ValveChange
  <2>2. NoPend \in Slots /\ NoPend.rml # "clear" /\ Typed
    BY EmptyTyped DEF NoPend, Known
  <2> QED
    BY <2>1, <2>2, ResetAllShape
<1>4. NotBoth'
  BY <1>3 DEF Known, PressInv, NotBoth
<1>5. HistLock' /\ CacheTrue'
  BY <1>1, <1>2 DEF Known, PressInv, HistLock, CacheTrue
<1>6. ClearTold'
  <2> SUFFICES ASSUME eng'.confirmed, "seen" \notin hist'.misled PROVE ~ClearComing'
    BY DEF ClearTold
  <2>1. UNCHANGED eng /\ pend' = NoPend
    BY <1>3
  <2>2. ~ClearComing
    BY <2>1, <1>2 DEF Known, PressInv, ClearTold
  <2>3. ~HasClear(cmdq') /\ ~HasClear(mqTodo')
    BY <1>1, NoClearIn
  <2> QED
    BY <2>1, <2>2, <2>3, <1>1 DEF ClearComing, Coming, NoPend
<1>7. NotedTrue'
  <2>1. ASSUME Noted'
        PROVE  Noted /\ v # detValve /\ ~(detValve = NoValve /\ HasTarget)
    BY <2>1, <1>2, <1>3 DEF Noted
  <2>2. ASSUME Noted', v # NoValve PROVE detValve \notin {v, NoValve}
    BY <2>1, <2>2 DEF Known, PastInv, NotedHere
  <2> QED
    BY <2>2, <1>1 DEF NotedTrue, HasTarget
<1> QED
  BY <1>4, <1>5, <1>6, <1>7 DEF PressInv

LEMMA MqttPress == ASSUME Known, Mqtt PROVE PressInv'
<1>1. CASE ValveCommand("open") \/ ValveCommand("close")
  BY <1>1, QuietPress
<1>2. CASE ~(ValveCommand("open") \/ ValveCommand("close"))
  BY <1>2, MqPostPress, ResetPress, CancelPress, QuietPress, EnablePress, SensorPress,
     ExchangePress, Zenon DEF Mqtt
<1> QED
  BY <1>1, <1>2

(* The valve task's, the host's and the valves' steps.                      *)
LEMMA ChanPress ==
    ASSUME Known, engHolds, UNCHANGED <<target, dev, hist>>,
           Ready' => Ready \/ (LinkIsTarget /\ cache'.rml = dev[target].rml),
           UNCHANGED cache \/ ~cache'.rml \/ (LinkIsTarget /\ cache'.rml = dev[target].rml),
           Ready' /\ Ready => UNCHANGED cache \/ cache'.rml = dev[target].rml,
           cache'.rml => link'.peer = link.peer,
           ClearComing' => ClearComing
    PROVE  PressInv'
<1>1. NotBoth' /\ ClearTold' /\ HistLock'
  BY DEF Known, PressInv, NotBoth, ClearTold, HistLock, engHolds
<1>2. CacheTrue'
  BY DEF Known, PressInv, CacheTrue, LinkIsTarget
<1>3. ASSUME NotHub, Shown PROVE NotHub' /\ Shown'
  <2>1. NotHub'
    BY <1>3 DEF NotHub
  <2>2. Shown'
    BY <1>3 DEF Shown
  <2> QED
    BY <2>1, <2>2
<1>4. NotedTrue'
  BY <1>3 DEF Known, PressInv, NotedTrue, Noted, HasTarget, engHolds
<1> QED
  BY <1>1, <1>2, <1>4 DEF PressInv

LEMMA TakeCmdPress == ASSUME Known, BleTakeCmd PROVE PressInv'
<1>1. TakeCmd /\ engHolds /\ UNCHANGED <<events, hist>> /\ ChanTyped
  BY DEF BleTakeCmd, Quiet, Known, Typed, engKeeps
<1>2. UNCHANGED <<target, cache, dev>>
  BY <1>1, Zenon DEF TakeCmd, TakeWrite
<1>3. \/ link' = link
      \/ link' = [link EXCEPT !.term = TRUE]
  BY <1>1, Zenon DEF TakeCmd, TakeWrite
<1>4. link'.peer = link.peer /\ link'.stage = link.stage
  BY <1>1, <1>3 DEF ChanTyped, Links, NoLink
<1>5. Ready' => Ready
  BY <1>2, <1>4 DEF Ready, LinkIsTarget, HasTarget
<1>6. ClearComing' => ClearComing
  BY <1>1, TakeCmdClear DEF engHolds
<1> QED
  BY <1>1, <1>2, <1>4, <1>5, <1>6, ChanPress

LEMMA LinkUpPress == ASSUME Known, BleLinkUp PROVE PressInv'
<1>1. LinkUp /\ engHolds /\ UNCHANGED hist
  BY DEF BleLinkUp, Quiet, engKeeps
<1>2. UNCHANGED <<target, dev>> /\ ~Ready' /\ ~cache'.rml
  BY <1>1 DEF LinkUp, Ready, EmptyCache
<1>3. ClearComing' => ClearComing
  BY <1>1 DEF LinkUp, engHolds, ClearComing, Coming
<1> QED
  BY <1>1, <1>2, <1>3, ChanPress

LEMMA SetupDonePress == ASSUME Known, BleSetupDone PROVE PressInv'
<1>1. SetupDone /\ engHolds /\ UNCHANGED hist /\ ChanTyped
  BY DEF BleSetupDone, Quiet, Known, Typed, engKeeps
<1>2. UNCHANGED <<target, dev>> /\ link' = [link EXCEPT !.stage = "ready"] /\ link.stage = "setup"
  BY <1>1 DEF SetupDone
<1>3. link'.peer = link.peer
  BY <1>1, <1>2 DEF ChanTyped, Links, NoLink
<1>4. Ready' => LinkIsTarget
  BY <1>2, <1>3 DEF Ready, LinkIsTarget, HasTarget
<1>5. ~Ready
  BY <1>2 DEF Ready
<1>6. CASE LinkIsTarget
  <2>1. cache' = [pos |-> dev[target].pos, rml |-> dev[target].rml, leak |-> dev[target].flood]
    BY <1>1, <1>6, Zenon DEF SetupDone
  <2>2. PICK o \in SetupOutcomes(pend, air) :
           /\ pend' = o.p
           /\ air' = o.a
           /\ cmdq' = IF o.end = "sent" THEN cmdq ELSE TokenPosted(cmdq)
    BY <1>1, <1>6, Zenon DEF SetupDone
  <2>3. Coming(pend', air') => Coming(pend, air)
    BY <2>2, <1>1, SetupClear DEF ChanTyped
  <2>4. HasClear(cmdq') => HasClear(cmdq)
    BY <2>2, <1>1, ClearInPosted DEF ChanTyped
  <2>5. ClearComing' => ClearComing
    BY <2>3, <2>4, <1>1 DEF ClearComing, engHolds
  <2>6. cache'.rml = dev[target].rml
    BY <2>1
  <2> QED
    BY <2>5, <2>6, <1>1, <1>2, <1>3, <1>5, <1>6, ChanPress
<1>7. CASE ~LinkIsTarget
  <2>1. UNCHANGED <<cache, updq, pend, air, cmdq>>
    BY <1>1, <1>7 DEF SetupDone
  <2>2. ClearComing' => ClearComing
    BY <2>1, <1>1 DEF ClearComing, Coming, engHolds
  <2> QED
    BY <2>1, <2>2, <1>1, <1>2, <1>3, <1>4, <1>5, <1>7, ChanPress
<1> QED
  BY <1>6, <1>7

LEMMA DropPress == ASSUME Known, LinkDrop, engHolds, UNCHANGED hist PROVE PressInv'
<1>1. UNCHANGED <<target, dev>> /\ ~Ready' /\ ~cache'.rml
  BY DEF LinkDrop, Unlink, NoLink, Ready, EmptyCache
<1>2. ~HasClear(air')
  BY NoClearIn DEF LinkDrop, Unlink
<1>3. ClearComing' => ClearComing
  BY <1>2 DEF LinkDrop, engHolds, ClearComing, Coming
<1> QED
  BY <1>1, <1>3, ChanPress

(* A valve's lock changes, on the linked valve's own account or the hub's:  *)
(* the cache follows, or the history says it did not.                       *)
LEMMA LockPress ==
    ASSUME Known, engHolds, NEW v \in Valves, NEW n \in Device, NEW by,
           UNCHANGED target,
           dev' = [dev EXCEPT ![v] = n],
           hist'.rml = [hist.rml EXCEPT ![v] = by],
           hist'.misled = hist.misled \cup Unheard(v),
           by = "set" <=> n.rml,
           by = "hub" => hist.rml[v] = "hub" \/ ClearComing,
           ClearComing' => ClearComing,
           \/ /\ UNCHANGED link
              /\ cache'.rml = cache.rml \/ (link.peer = v /\ cache'.rml = n.rml)
           \/ ~cache'.rml /\ ~Ready'
    PROVE  PressInv'
<1>1. /\ dev'[v] = n /\ hist'.rml[v] = by
      /\ \A w \in Valves : w # v => dev'[w] = dev[w] /\ hist'.rml[w] = hist.rml[w]
  BY DEF Known, Typed, ChanTyped, EngTyped, Hist
<1>2. hist.misled \subseteq hist'.misled
  OBVIOUS
<1>3. NotBoth' /\ ClearTold'
  BY <1>2 DEF Known, PressInv, NotBoth, ClearTold, engHolds
<1>4. HistLock'
  BY <1>1 DEF Known, PressInv, HistLock
<1>5. link.peer = v /\ n.rml # dev[v].rml /\ n.rml # cache'.rml => "unheard" \in hist'.misled
  BY <1>1 DEF Unheard
<1>6. cache.rml => link.peer \in Valves
  BY LinkTypes DEF Known, Typed, PastInv, CacheKnown
<1>7. CacheTrue'
  BY <1>1, <1>2, <1>5, <1>6 DEF Known, PressInv, CacheTrue
<1>8. ASSUME Noted', HasTarget', detValve' \in {target', NoValve} PROVE NotHub' /\ Shown'
  <2>1. Noted /\ HasTarget /\ detValve \in {target, NoValve} /\ target \in Valves
    BY <1>2, <1>8 DEF Noted, HasTarget, engHolds, Known, Typed, ChanTyped
  <2>2. NotHub /\ Shown
    BY <2>1 DEF Known, PressInv, NotedTrue
  <2>3. ClearComing => "seen" \in hist.misled
    BY <2>1 DEF Known, PressInv, ClearTold, Noted
  <2>4. NotHub'
    BY <2>1, <2>2, <2>3, <1>1, <1>2 DEF NotHub
  <2>5. Ready' => Ready /\ link.peer = target
    BY <1>8 DEF Ready, LinkIsTarget, HasTarget
  <2>6. Shown'
    BY <2>1, <2>2, <2>5, <1>1, <1>2, <1>5 DEF Shown
  <2> QED
    BY <2>4, <2>6
<1>9. NotedTrue'
  BY <1>8 DEF NotedTrue
<1> QED
  BY <1>3, <1>4, <1>7, <1>9 DEF PressInv

LEMMA DeliverPress == ASSUME Known, BleDeliver PROVE PressInv'
<1> DEFINE v == link.peer
           c == Head(air)
           n == Obeyed(dev[v], c)
           b == IF c = "set" THEN c
                ELSE IF c = "clear" /\ dev[v].rml THEN "hub" ELSE hist.rml[v]
<1>1. Deliver /\ engHolds /\ hist' = [hist EXCEPT !.rml[v] = b, !.misled = @ \cup Unheard(v)]
  BY Zenon DEF BleDeliver, LockIs, engKeeps
<1>2. /\ dev' = [dev EXCEPT ![v] = n] /\ UNCHANGED <<target, link, pend, cmdq>>
      /\ air # <<>> /\ air' = Tail(air)
      /\ \E read \in BOOLEAN :
            cache' = IF ~Heard(v) THEN cache
                     ELSE [cache EXCEPT !.pos = n.pos,
                                        !.rml = IF read /\ c \in RmlCmds THEN n.rml ELSE @]
  BY <1>1, DeliverShape
<1>3. air \in Seq(Writes) /\ c \in Writes
      /\ (HasClear(Tail(air)) => HasClear(air)) /\ (c = "clear" => HasClear(air))
  <2>1. air # <<>> /\ air \in Seq(Writes)
    BY <1>2 DEF Known, Typed, ChanTyped, Airs
  <2> QED
    BY <2>1, FirstAndRest, ClearInRest
<1>4. ClearComing' => ClearComing
  BY <1>1, <1>2, <1>3 DEF ClearComing, Coming, engHolds
<1>5. /\ hist'.rml = [hist.rml EXCEPT ![v] = b]
      /\ hist'.misled = hist.misled \cup Unheard(v)
  <2> DEFINE u == Unheard(v)
  <2>1. hist' = [hist EXCEPT !.rml[v] = b, !.misled = @ \cup u]
    BY <1>1
  <2> HIDE DEF u, b, v
  <2>2. hist'.rml = [hist.rml EXCEPT ![v] = b] /\ hist'.misled = hist.misled \cup u
    BY <2>1 DEF Known, Typed, EngTyped, Hist
  <2> QED
    BY <2>2 DEF u
<1>6. CASE v \in Valves
  <2>1. dev[v] \in Device
    BY <1>6 DEF Known, Typed, ChanTyped
  <2>2. n \in Device
    BY <2>1, <1>3, ObeyedTyped
  <2>3. n.rml = (c = "set" \/ (c # "clear" /\ dev[v].rml))
    BY <2>1, <1>3 DEF Device, Writes, RmlCmds, ValveCmds, Obeyed
  <2>4. hist.rml[v] = "set" <=> dev[v].rml
    BY <1>6 DEF Known, PressInv, HistLock
  <2>5. b = "set" <=> n.rml
    BY <2>3, <2>4
  <2>6. b = "hub" => hist.rml[v] = "hub" \/ ClearComing
    BY <1>3 DEF ClearComing, Coming
  <2>7. cache'.rml = cache.rml \/ cache'.rml = n.rml
    <3> HIDE DEF n, c
    <3> QED
      BY <1>2 DEF Known, Typed, ChanTyped, Caches
  <2> HIDE DEF n, b, c
  <2> QED
    BY <1>1, <1>2, <1>4, <1>5, <1>6, <2>2, <2>5, <2>6, <2>7, LockPress
<1>7. CASE v \notin Valves
  <2>1. ~Heard(v)
    BY <1>7 DEF Heard, LinkIsTarget, HasTarget, Known, Typed, ChanTyped
  <2>2. cache' = cache /\ dev' = dev
    BY <1>2, <1>7, <2>1 DEF Known, Typed, ChanTyped
  <2>3. Unheard(v) = {}
    BY <2>2 DEF Unheard
  <2>4. hist'.rml = hist.rml /\ hist'.misled = hist.misled
    BY <1>5, <1>7, <2>3 DEF Known, Typed, EngTyped, Hist
  <2>5. hist' = hist
    BY <2>4, <1>1 DEF Known, Typed, EngTyped, Hist
  <2> QED
    BY <1>1, <1>2, <1>4, <2>2, <2>5, IdlePress DEF engHolds
<1> QED
  BY <1>6, <1>7

LEMMA ButtonPressPress == ASSUME Known, NEW v \in Valves, ButtonPress(v) PROVE PressInv'
<1>1. Press(v) /\ RmlCleared(v, "press") /\ engHolds /\ Typed
  BY DEF ButtonPress, Known, engKeeps
<1> DEFINE n == IF dev[v].pos = "closed" THEN [dev[v] EXCEPT !.pos = "open", !.rml = FALSE]
                                         ELSE [dev[v] EXCEPT !.pos = "closed"]
           by == IF dev[v].rml /\ ~n.rml THEN "press" ELSE hist.rml[v]
<1>2. /\ dev' = [dev EXCEPT ![v] = n]
      /\ cache' = IF Heard(v) THEN [cache EXCEPT !.pos = n.pos, !.rml = n.rml] ELSE cache
      /\ UNCHANGED <<target, link, pend, cmdq, air>>
  BY <1>1 DEF Press
<1>3. n \in Device /\ (n.rml => dev[v].rml)
  BY <1>1 DEF Typed, ChanTyped, Device
<1> HIDE DEF n
<1>4. dev'[v] = n
  BY <1>1, <1>2 DEF Typed, ChanTyped
<1>5. /\ hist'.rml = [hist.rml EXCEPT ![v] = by]
      /\ hist'.misled = hist.misled \cup Unheard(v)
  <2>1. /\ hist'.rml = [hist.rml EXCEPT ![v] = IF dev[v].rml /\ ~dev'[v].rml THEN "press" ELSE @]
        /\ hist'.misled = hist.misled \cup Unheard(v)
    BY <1>1, ClearedBy
  <2> QED
    BY <2>1, <1>4
<1>6. hist.rml[v] = "set" <=> dev[v].rml
  BY DEF Known, PressInv, HistLock
<1>7. (by = "set" <=> n.rml) /\ (by = "hub" => hist.rml[v] = "hub")
  BY <1>3, <1>6
<1>8. cache'.rml = cache.rml \/ (link.peer = v /\ cache'.rml = n.rml)
  BY <1>1, <1>2 DEF Heard, LinkIsTarget, Typed, ChanTyped, Caches
<1>9. ClearComing' => ClearComing
  BY <1>1, <1>2 DEF ClearComing, Coming, engHolds
<1> HIDE DEF by
<1> QED
  BY <1>1, <1>2, <1>3, <1>5, <1>7, <1>8, <1>9, LockPress

LEMMA ProbePress == ASSUME Known, NEW v \in Valves, ProbeChange(v) PROVE PressInv'
<1>1. FloodChange(v) /\ UNCHANGED hist /\ engHolds
  BY DEF ProbeChange, engKeeps
<1>2. /\ \A w \in Valves : dev'[w].rml = dev[w].rml
      /\ cache'.rml = cache.rml
      /\ UNCHANGED <<target, link, pend, cmdq, air>>
  BY <1>1 DEF FloodChange, Known, Typed, ChanTyped, Device, Caches
<1>3. HistLock' /\ NotBoth' /\ ClearTold'
  BY <1>1, <1>2 DEF Known, PressInv, HistLock, NotBoth, ClearTold, ClearComing, Coming, engHolds
<1>4. cache.rml => link.peer \in Valves
  BY LinkTypes DEF Known, Typed, PastInv, CacheKnown
<1>5. CacheTrue'
  BY <1>1, <1>2, <1>4 DEF Known, PressInv, CacheTrue
<1>6. HasTarget => target \in Valves
  BY DEF HasTarget, Known, Typed, ChanTyped
<1>7. NotedTrue'
  BY <1>1, <1>2, <1>6
     DEF Known, PressInv, NotedTrue, Noted, NotHub, Shown, HasTarget, Ready, LinkIsTarget, engHolds
<1> QED
  BY <1>3, <1>5, <1>7 DEF PressInv

LEMMA PowerPress == ASSUME Known, NEW v \in Valves, ValvePower(v) PROVE PressInv'
<1>1. PowerLoss(v) /\ RmlCleared(v, "power") /\ engHolds /\ Typed
  BY DEF ValvePower, Known, engKeeps
<1>2. PICK kept \in BOOLEAN :
         dev' = [dev EXCEPT ![v].rml = @ /\ kept,
                            ![v].pos = IF dev[v].rml /\ kept THEN "closed" ELSE @]
  BY <1>1 DEF PowerLoss
<1> DEFINE n == [dev[v] EXCEPT !.rml = @ /\ kept,
                               !.pos = IF dev[v].rml /\ kept THEN "closed" ELSE @]
           by == IF dev[v].rml /\ ~n.rml THEN "power" ELSE hist.rml[v]
<1>3. n \in Device /\ (n.rml => dev[v].rml) /\ dev' = [dev EXCEPT ![v] = n]
  BY <1>1, <1>2 DEF Typed, ChanTyped, Device
<1> HIDE DEF n
<1>4. dev'[v] = n
  BY <1>1, <1>3 DEF Typed, ChanTyped
<1>5. /\ hist'.rml = [hist.rml EXCEPT ![v] = by]
      /\ hist'.misled = hist.misled \cup Unheard(v)
  <2>1. /\ hist'.rml = [hist.rml EXCEPT ![v] = IF dev[v].rml /\ ~dev'[v].rml THEN "power" ELSE @]
        /\ hist'.misled = hist.misled \cup Unheard(v)
    BY <1>1, ClearedBy
  <2> QED
    BY <2>1, <1>4
<1>6. hist.rml[v] = "set" <=> dev[v].rml
  BY DEF Known, PressInv, HistLock
<1>7. (by = "set" <=> n.rml) /\ (by = "hub" => hist.rml[v] = "hub")
  BY <1>3, <1>6
<1>8. \/ UNCHANGED <<link, cache>>
      \/ ~cache'.rml /\ ~Ready'
  BY <1>1 DEF PowerLoss, Unlink, EmptyCache, NoLink, Ready
<1>9. ClearComing' => ClearComing
  <2>1. air' = air \/ ~HasClear(air')
    BY <1>1, NoClearIn DEF PowerLoss, Unlink
  <2> QED
    BY <2>1, <1>1 DEF PowerLoss, ClearComing, Coming, engHolds
<1>10. UNCHANGED target
  BY <1>1 DEF PowerLoss
<1> HIDE DEF by
<1> QED
  BY <1>1, <1>3, <1>5, <1>7, <1>8, <1>9, <1>10, LockPress

(* Timers, the water and restarts.                                          *)
LEMMA TimersPress == ASSUME Known, Timers \/ WindowDue PROVE PressInv'
<1>1. PICK e \in {[eng EXCEPT !.grace = FALSE], [eng EXCEPT !.cooling = FALSE],
                  [eng EXCEPT !.allclear = "due"], [eng EXCEPT !.window = "due"]} : Elapse(e)
  BY Zenon DEF Timers, GraceEnds, CooldownEnds, ClearDue, WindowDue
<1>2. e.confirmed = eng.confirmed /\ e.purge = eng.purge /\ e.owed = eng.owed
  <2>1. eng \in Engine
    BY DEF Known, Typed, EngTyped
  <2>2. CASE e = [eng EXCEPT !.grace = FALSE]
    BY <2>1, <2>2 DEF Engine
  <2>3. CASE e = [eng EXCEPT !.cooling = FALSE]
    BY <2>1, <2>3 DEF Engine
  <2>4. CASE e = [eng EXCEPT !.allclear = "due"]
    BY <2>1, <2>4 DEF Engine
  <2>5. CASE e = [eng EXCEPT !.window = "due"]
    BY <2>1, <2>5 DEF Engine
  <2> QED
    BY <2>2, <2>3, <2>4, <2>5, <1>1
<1>3. ClearComing' => ClearComing
  BY <1>1 DEF Elapse, chanVars, ClearComing, Coming
<1> QED
  BY <1>1, <1>2, <1>3, IdlePress DEF Elapse, chanVars

LEMMA WaterPress == ASSUME Known, NEW s \in Sensors, WaterChange(s) PROVE PressInv'
<1>1. ClearComing' => ClearComing
  BY DEF WaterChange, chanVars, ClearComing, Coming
<1> QED
  BY <1>1, IdlePress DEF WaterChange, chanVars

LEMMA RebootPress == ASSUME Known, Reboot PROVE PressInv'
<1>1. ~eng'.confirmed
  BY DEF Reboot, Fresh, Known, Typed, EngTyped, Engine
<1>2. NotBoth' /\ ClearTold' /\ NotedTrue'
  BY <1>1 DEF NotBoth, ClearTold, NotedTrue, Noted
<1>3. HistLock' /\ CacheTrue'
  BY DEF Known, PressInv, HistLock, CacheTrue, Reboot, Unlink, EmptyCache
<1> QED
  BY <1>2, <1>3 DEF PressInv

LEMMA StepPress == ASSUME Known, [Next]_vars PROVE PressInv'
<1>1. CASE UNCHANGED vars
  <2>1. ClearComing' => ClearComing
    BY <1>1 DEF vars, chanVars, engVars, ClearComing, Coming
  <2> QED
    BY <1>1, <2>1, IdlePress DEF vars, chanVars, engVars
<1>2. CASE Ble
  <2>1. CASE BleTerminated
    BY <2>1, DropPress DEF BleTerminated, Quiet, engKeeps
  <2>2. CASE BleTakeCmd \/ BleLinkUp \/ BleSetupDone \/ BleDeliver
    BY <2>2, TakeCmdPress, LinkUpPress, SetupDonePress, DeliverPress
  <2> QED
    BY <1>2, <2>1, <2>2 DEF Ble
<1>3. CASE Outside
  <2>1. CASE BleLinkLost
    BY <2>1, DropPress DEF BleLinkLost, engKeeps
  <2>2. CASE ~BleLinkLost
    BY <1>3, <2>2, TimersPress, RebootPress, WaterPress, ButtonPressPress, ProbePress, PowerPress,
       Zenon DEF Outside
  <2> QED
    BY <2>1, <2>2
<1>4. CASE Hub \/ Mqtt \/ Timers
  BY <1>4, HubPress, MqttPress, TimersPress
<1> QED
  BY <1>1, <1>2, <1>3, <1>4 DEF Next

-----------------------------------------------------------------------------
(* A window that starts without a cloud command starts in a tick.           *)

LEMMA NotWithoutLook ==
    ASSUME NEW g, Hold(g, FALSE)
    PROVE  ~WindowStarts
BY DEF Hold, From, WindowStarts

LEMMA SameWindow == ASSUME eng'.window \in {eng.window, "due"} PROVE ~WindowStarts
BY DEF WindowStarts

LEMMA OnlyTick ==
    ASSUME Typed, [Next]_vars, WindowByTick
    PROVE  Tick
<1> SUFFICES ASSUME ~Tick PROVE ~WindowByTick
  OBVIOUS
<1>1. CASE UNCHANGED eng
  BY <1>1, SameWindow DEF WindowByTick
<1>2. CASE \E s \in Sensors : Report(s)
  <2>1. PICK s \in Sensors : Report(s)
    BY <1>2
  <2>2. s \in Sources
    BY DEF Sources
  <2>3. PICK g \in {{}, {s}} : Hold(g, FALSE)
    <3>1. CASE EvaluateWet(s)
      BY <3>1, <2>2, WetShape
    <3>2. CASE EvaluateDry(s)
      BY <3>2, DryShape
    <3> QED
      BY <3>1, <3>2, <2>1, Zenon DEF Report
  <2> QED
    BY <2>3, NotWithoutLook DEF WindowByTick
<1>3. CASE ValveUpdate
  <2>1. updq # <<>> /\ updq \in Seq(Updates) /\ updq' = Tail(updq)
    BY <1>3 DEF ValveUpdate, Typed, ChanTyped, Notices
  <2>2. Len(updq') = Len(updq) - 1 /\ Len(updq) \in Nat
    BY <2>1, FirstAndRest
  <2>3. updq' # updq
    BY <2>2
  <2> QED
    BY <2>3 DEF WindowByTick
<1>4. CASE ForgetUnprovisioned \/ LeakReset \/ CancelOverride
  BY <1>4, ForgetShape, ResetShape, CancelShape, NotWithoutLook DEF WindowByTick
<1>5. CASE SyncValveDetectors
  <2> DEFINE st == [e |-> eng, p |-> pend]
  <2>1. \/ UNCHANGED eng
        \/ eng' = Replaced(st).e
        \/ eng' = [eng EXCEPT !.purge = TRUE]
    BY <1>5, Zenon DEF SyncValveDetectors, Commit
  <2>2. st \in Holds /\ st.e = eng /\ eng \in Engine
    BY DEF Holds, Typed, ChanTyped, EngTyped
  <2>3. Replaced(st).e.window \in {eng.window, "off"}
    <3> HIDE DEF st
    <3>1. From(Replaced(st).e, {}, FALSE)
      BY <2>2, FromReplaced
    <3> HIDE DEF Replaced
    <3> QED
      BY <3>1 DEF From
  <2> HIDE DEF st
  <2>4. [eng EXCEPT !.purge = TRUE].window = eng.window
    BY <2>2 DEF Engine
  <2> QED
    BY <2>1, <2>3, <2>4 DEF WindowByTick, WindowStarts
<1>6. CASE EnableOverride
  BY <1>6 DEF EnableOverride, WindowByTick
<1>7. CASE (\E s \in Sensors : SensorChange(s)) \/ (\E v \in Valves \cup {NoValve} : ValveChange(v))
  <2>1. UNCHANGED eng \/ eng' = [Fresh(eng) EXCEPT !.incident = FALSE, !.window = "off"]
    BY <1>7 DEF SensorChange, ValveChange, ResetAll
  <2> QED
    BY <2>1 DEF Fresh, Typed, EngTyped, Engine, WindowByTick, WindowStarts
<1>8. CASE Timers \/ WindowDue
  <2>1. PICK e \in {[eng EXCEPT !.grace = FALSE], [eng EXCEPT !.cooling = FALSE],
                    [eng EXCEPT !.allclear = "due"], [eng EXCEPT !.window = "due"]} : eng' = e
    BY <1>8, Zenon DEF Timers, GraceEnds, CooldownEnds, ClearDue, WindowDue, Elapse
  <2>2. e.window \in {eng.window, "due"}
    BY <2>1 DEF Typed, EngTyped, Engine
  <2> QED
    BY <2>1, <2>2 DEF WindowByTick, WindowStarts
<1>9. CASE Reboot
  BY <1>9 DEF Reboot, Fresh, Typed, EngTyped, Engine, WindowByTick, WindowStarts
<1>10. CASE Ble \/ BleLinkLost \/ \E v \in Valves : ButtonPress(v) \/ ProbeChange(v) \/ ValvePower(v)
  BY <1>10, <1>1
     DEF Ble, BleTakeCmd, BleLinkUp, BleSetupDone, BleDeliver, BleTerminated, BleLinkLost,
         ButtonPress, ProbeChange, ValvePower, engHolds, engKeeps
<1>11. CASE HubPost \/ MqPost \/ EnableRequest \/ EnableCheck \/ RulesConfig
            \/ ValveCommand("open") \/ ValveCommand("close") \/ \E s \in Sensors : WaterChange(s)
  BY <1>11, <1>1
     DEF HubPost, MqPost, EnableRequest, EnableCheck, RulesConfig, ValveCommand, WaterChange
<1>12. CASE UNCHANGED vars
  BY <1>12, <1>1 DEF vars, engVars
<1> QED
  BY <1>2, <1>3, <1>4, <1>5, <1>6, <1>7, <1>8, <1>9, <1>10, <1>11, <1>12, Zenon
     DEF Next, Hub, Mqtt, Outside

(* A tick opens a window for a lock that was noted as seen on the valve     *)
(* that is provisioned, and that the valve has not set any more.            *)
LEMMA RealPress ==
    ASSUME Known, Tick, WindowStarts, ~devset,
           hist.misled \cap {"seen", "unheard", "unseen"} = {}
    PROVE  Pressed
<1>1. SeenBefore /\ Ready /\ ~cache.rml /\ AtPass
  BY TickShape DEF Known, Tick
<1>2. HasTarget /\ target \in Valves
  BY <1>1 DEF Ready, LinkIsTarget, HasTarget, Known, Typed, ChanTyped
<1>3. hubTodo # <<"sync">>
  <2>1. <<"sync">> \notin {<<>>, <<"event">>}
    OBVIOUS
  <2> QED
    BY <2>1, <1>1 DEF AtPass
<1>4. detValve = target /\ Noted
  BY <1>1, <1>3 DEF Known, PastInv, LoopKnows, Noted, SeenBefore
<1>5. hist.rml[target] # "none"
  BY <1>2, <1>4 DEF Known, PastInv, NotedHere
<1>6. NotHub /\ Shown
  BY <1>2, <1>4 DEF Known, PressInv, NotedTrue
<1>7. hist.rml[target] # "hub" /\ ~dev[target].rml
  BY <1>6, <1>1 DEF NotHub, Shown
<1>8. hist.rml[target] # "set"
  BY <1>2, <1>7 DEF Known, PressInv, HistLock
<1>9. hist.rml[target] \in {"none", "set", "hub", "press", "power"}
  BY <1>2 DEF Known, Typed, EngTyped, Hist
<1> QED
  BY <1>5, <1>7, <1>8, <1>9 DEF Pressed

-----------------------------------------------------------------------------
(* Queues of commands, by the last RMLEAK command in them.                  *)
HasSet(q)    == \E i \in 1..Len(q) : q[i] = "set"
EndsClear(q) == \E i \in 1..Len(q) :
                   q[i] = "clear" /\ \A j \in 1..Len(q) : j > i => q[j] # "set"

LEMMA SetInRange ==
    ASSUME NEW S, NEW q \in Seq(S)
    PROVE  "set" \in Range(q) <=> HasSet(q)
BY DEF Range, HasSet

LEMMA LastOfNone ==
    /\ ~HasSet(<<>>) /\ ~EndsClear(<<>>)
    /\ ~HasSet(<<"event">>) /\ ~HasSet(<<"sync">>)
    /\ ~HasSet(<<"connect">>)
    /\ HasTarget => HasSet(CloseCmds) /\ HasSet(Append(CloseCmds, "event"))
    /\ HasSet(<<"set", "close">>) /\ HasSet(<<"set">>)
<1>1. /\ <<"set", "close">>[1] = "set" /\ 1 \in 1..Len(<<"set", "close">>)
      /\ <<"set", "close", "connect">>[1] = "set" /\ 1 \in 1..Len(<<"set", "close", "connect">>)
      /\ <<"set">>[1] = "set" /\ 1 \in 1..Len(<<"set">>)
  OBVIOUS
<1>2. HasSet(<<"set", "close">>) /\ HasSet(<<"set", "close", "connect">>) /\ HasSet(<<"set">>)
  BY <1>1 DEF HasSet
<1>3. HasTarget => CloseCmds \in {<<"set", "close">>, <<"set", "close", "connect">>}
  BY DEF CloseCmds
<1>4. /\ ~HasSet(<<>>) /\ ~EndsClear(<<>>) /\ ~HasSet(<<"event">>) /\ ~HasSet(<<"sync">>)
      /\ ~HasSet(<<"connect">>)
  BY DEF HasSet, EndsClear
<1>5. /\ Append(<<"set", "close">>, "event")[1] = "set"
      /\ 1 \in 1..Len(Append(<<"set", "close">>, "event"))
      /\ Append(<<"set", "close", "connect">>, "event")[1] = "set"
      /\ 1 \in 1..Len(Append(<<"set", "close", "connect">>, "event"))
  OBVIOUS
<1>6. /\ HasSet(Append(<<"set", "close">>, "event"))
      /\ HasSet(Append(<<"set", "close", "connect">>, "event"))
  BY <1>5 DEF HasSet
<1> QED
  BY <1>2, <1>3, <1>4, <1>6

LEMMA LastOfAppend ==
    ASSUME NEW S, NEW q \in Seq(S), NEW c \in S
    PROVE  /\ HasSet(Append(q, c)) <=> HasSet(q) \/ c = "set"
           /\ EndsClear(Append(q, c)) <=> c = "clear" \/ (c # "set" /\ EndsClear(q))
<1> DEFINE r == Append(q, c)
           n == Len(q)
<1>1. /\ n \in Nat /\ Len(r) = n + 1
      /\ \A i \in 1..n : r[i] = q[i]
      /\ r[n + 1] = c
  BY AppendProperties
<1> HIDE DEF r
<1>2. \A i \in 1..Len(r) : i \in 1..n \/ i = n + 1
  BY <1>1
<1>3. 1..n \subseteq 1..Len(r) /\ n + 1 \in 1..Len(r)
  BY <1>1
<1>4. HasSet(r) <=> HasSet(q) \/ c = "set"
  BY <1>1, <1>2, <1>3 DEF HasSet
<1>5. ASSUME EndsClear(r) PROVE c = "clear" \/ (c # "set" /\ EndsClear(q))
  <2>1. PICK i \in 1..Len(r) : r[i] = "clear" /\ \A j \in 1..Len(r) : j > i => r[j] # "set"
    BY <1>5 DEF EndsClear
  <2>2. CASE i = n + 1
    BY <2>1, <2>2, <1>1
  <2>3. CASE i \in 1..n
    <3>1. n + 1 > i
      BY <2>3, <1>1
    <3>2. c # "set"
      BY <3>1, <2>1, <1>1, <1>3
    <3>3. q[i] = "clear" /\ \A j \in 1..n : j > i => q[j] # "set"
      BY <2>1, <2>3, <1>1, <1>3
    <3> QED
      BY <3>2, <3>3, <2>3 DEF EndsClear
  <2> QED
    BY <2>2, <2>3, <1>2
<1>6. ASSUME c = "clear" PROVE EndsClear(r)
  <2>1. \A j \in 1..Len(r) : ~(j > n + 1)
    BY <1>1
  <2> QED
    BY <2>1, <1>1, <1>3, <1>6 DEF EndsClear
<1>7. ASSUME c # "set", EndsClear(q) PROVE EndsClear(r)
  <2>1. PICK i \in 1..n : q[i] = "clear" /\ \A j \in 1..n : j > i => q[j] # "set"
    BY <1>7 DEF EndsClear
  <2>2. r[i] = "clear" /\ \A j \in 1..Len(r) : j > i => r[j] # "set"
    BY <2>1, <1>1, <1>2, <1>7
  <2> QED
    BY <2>1, <2>2, <1>3 DEF EndsClear
<1> QED
  BY <1>4, <1>5, <1>6, <1>7 DEF r

(* What a queue is, by its head and what is behind it.                      *)
LEMMA LastOfRest ==
    ASSUME NEW S, NEW q \in Seq(S), q # <<>>
    PROVE  /\ HasSet(q) <=> Head(q) = "set" \/ HasSet(Tail(q))
           /\ EndsClear(q) <=> EndsClear(Tail(q)) \/ (Head(q) = "clear" /\ ~HasSet(Tail(q)))
<1> DEFINE t == Tail(q)
           n == Len(t)
<1>1. Len(q) = n + 1 /\ n \in Nat
  <2>1. Len(q) \in Nat \ {0} /\ n = Len(q) - 1
    BY FirstAndRest
  <2> QED
    BY <2>1
<1>2. (\A i \in 1..n : t[i] = q[i + 1]) /\ Head(q) = q[1]
  BY HeadTailProperties
<1> HIDE DEF t
<1>3. \A i \in 1..Len(q) : i = 1 \/ (i - 1 \in 1..n /\ q[i] = t[i - 1])
  BY <1>1, <1>2
<1>4. 1 \in 1..Len(q) /\ \A i \in 1..n : i + 1 \in 1..Len(q)
  BY <1>1
<1>5. HasSet(q) <=> Head(q) = "set" \/ HasSet(t)
  BY <1>2, <1>3, <1>4 DEF HasSet
<1>6. ASSUME EndsClear(q) PROVE EndsClear(t) \/ (Head(q) = "clear" /\ ~HasSet(t))
  <2>1. PICK i \in 1..Len(q) : q[i] = "clear" /\ \A j \in 1..Len(q) : j > i => q[j] # "set"
    BY <1>6 DEF EndsClear
  <2>2. \A j \in 1..n : j + 1 > i => t[j] # "set"
    BY <2>1, <1>2, <1>4
  <2>3. CASE i = 1
    <3>1. \A j \in 1..n : j + 1 > i
      BY <2>3, <1>1
    <3> QED
      BY <3>1, <2>1, <2>2, <2>3, <1>2 DEF HasSet
  <2>4. CASE i - 1 \in 1..n /\ q[i] = t[i - 1]
    <3>1. \A j \in 1..n : j > i - 1 => j + 1 > i
      BY <2>1, <1>1
    <3> QED
      BY <3>1, <2>1, <2>2, <2>4 DEF EndsClear
  <2> QED
    BY <2>3, <2>4, <1>3
<1>7. ASSUME EndsClear(t) PROVE EndsClear(q)
  <2>1. PICK i \in 1..n : t[i] = "clear" /\ \A j \in 1..n : j > i => t[j] # "set"
    BY <1>7 DEF EndsClear
  <2>2. i + 1 \in 1..Len(q) /\ q[i + 1] = "clear"
    BY <2>1, <1>2, <1>4
  <2>3. ASSUME NEW j \in 1..Len(q), j > i + 1 PROVE q[j] # "set"
    <3>1. j # 1 /\ j - 1 > i
      BY <2>3, <2>1, <1>1
    <3> QED
      BY <3>1, <2>1, <1>3
  <2> QED
    BY <2>2, <2>3 DEF EndsClear
<1>8. ASSUME Head(q) = "clear", ~HasSet(t) PROVE EndsClear(q)
  <2>1. ASSUME NEW j \in 1..Len(q), j > 1 PROVE q[j] # "set"
    BY <2>1, <1>3, <1>8 DEF HasSet
  <2> QED
    BY <2>1, <1>2, <1>4, <1>8 DEF EndsClear
<1> QED
  BY <1>5, <1>6, <1>7, <1>8 DEF t

LEMMA LastOfToken ==
    ASSUME NEW q \in Queue
    PROVE  /\ HasSet(TokenPosted(q)) <=> HasSet(q)
           /\ EndsClear(TokenPosted(q)) <=> EndsClear(q)
<1> DEFINE r == <<"replay">> \o q
<1>1. q \in Seq(Cmds) /\ <<"replay">> \in Seq(Cmds)
  BY DEF Queue, Cmds
<1>2. r \in Seq(Cmds) /\ r # <<>> /\ Head(r) = "replay" /\ Tail(r) = q
  BY <1>1
<1> HIDE DEF r
<1>3. (HasSet(r) <=> HasSet(q)) /\ (EndsClear(r) <=> EndsClear(q))
  BY <1>2, LastOfRest
<1> QED
  BY <1>3 DEF TokenPosted, r

LEMMA LastOfPosted ==
    ASSUME NEW q \in Queue, NEW c \in Cmds
    PROVE  /\ CanPost(q) /\ c = "set" => HasSet(Posted(q, c)) /\ ~EndsClear(Posted(q, c))
           /\ c \notin {"set", "clear"} =>
                /\ HasSet(Posted(q, c)) <=> HasSet(q)
                /\ EndsClear(Posted(q, c)) <=> EndsClear(q)
BY LastOfAppend DEF Queue, Posted

(* In the slots and in the air: the lock will be set, or is (k) and nothing *)
(* on its way lifts it.                                                     *)
Aims(p, a, k) == \/ p.rml = "set"
                 \/ p.rml = "none" /\ ~EndsClear(a) /\ (HasSet(a) \/ k)

LEMMA WriteAims ==
    ASSUME NEW ready \in BOOLEAN, NEW p \in Slots, NEW a \in Airs, NEW slot, NEW c, NEW k,
           Fits(slot, c), NEW o \in WriteOutcomes(ready, p, a, slot, c)
    PROVE  /\ c = "set" => Aims(o.p, o.a, k)
           /\ slot = "valve" /\ Aims(p, a, k) => Aims(o.p, o.a, k)
<1>1. /\ slot = "valve" => /\ [p EXCEPT ![slot] = "none"].rml = p.rml
                           /\ [p EXCEPT ![slot] = c].rml = p.rml
      /\ c = "set" => /\ slot = "rml"
                      /\ [p EXCEPT ![slot] = "none"].rml = "none"
                      /\ [p EXCEPT ![slot] = c].rml = "set"
  BY DEF Slots, Fits, ValveCmds
<1>2. /\ c = "set" => HasSet(Append(a, c)) /\ ~EndsClear(Append(a, c))
      /\ slot = "valve" => /\ HasSet(Append(a, c)) <=> HasSet(a)
                           /\ EndsClear(Append(a, c)) <=> EndsClear(a)
  <2>1. c \in Writes /\ a \in Seq(Writes)
    BY DEF Fits, Writes, Airs
  <2>2. slot = "valve" => c \notin {"set", "clear"}
    BY DEF Fits, ValveCmds, RmlCmds
  <2> QED
    BY <2>1, <2>2, LastOfAppend
<1>3. \/ o.p = [p EXCEPT ![slot] = c] /\ o.a = a
      \/ o.p = [p EXCEPT ![slot] = "none"] /\ o.a = Append(a, c)
  <2>1. PICK end \in Ends : o \in {Pended(p, a, slot, c, end), Accepted(p, a, slot, c)}
    BY Zenon DEF WriteOutcomes, Ends
  <2>2. CASE o = Pended(p, a, slot, c, end)
    BY <2>2 DEF Pended
  <2>3. CASE o = Accepted(p, a, slot, c)
    BY <2>3 DEF Accepted
  <2> QED
    BY <2>1, <2>2, <2>3
<1> QED
  BY <1>1, <1>2, <1>3 DEF Aims

LEMMA RmlFirstAims ==
    ASSUME NEW ready \in BOOLEAN, NEW p \in Slots, NEW a \in Airs, NEW k,
           NEW o \in RmlFirst(ready, p, a), Aims(p, a, k)
    PROVE  Aims(o.p, o.a, k)
<1>1. CASE ready /\ p.rml # "none"
  <2>1. Fits("rml", p.rml) /\ p.rml = "set"
    BY <1>1 DEF Slots, Fits, Aims
  <2>2. o \in WriteOutcomes(ready, p, a, "rml", p.rml)
    BY <1>1 DEF RmlFirst
  <2> QED
    BY <2>1, <2>2, WriteAims
<1>2. CASE ~(ready /\ p.rml # "none")
  <2>1. o.p = p /\ o.a = a
    BY <1>2 DEF RmlFirst, Idle
  <2> QED
    BY <2>1
<1> QED
  BY <1>1, <1>2

LEMMA ValveAims ==
    ASSUME NEW p \in Slots, NEW a \in Airs, NEW k, NEW c \in ValveCmds,
           NEW o \in ValveOutcomes(p, a, c), Aims(p, a, k)
    PROVE  Aims(o.p, o.a, k)
<1>1. Fits("valve", c) /\ Ready \in BOOLEAN
  BY DEF Fits, Ready, LinkIsTarget, HasTarget
<1>2. PICK f \in RmlFirst(Ready, p, a) :
         o \in IF f.end = "sent" THEN WriteOutcomes(Ready, f.p, f.a, "valve", c)
               ELSE {Pended(f.p, f.a, "valve", c, end) :
                       end \in {f.end} \cup (IF c = "close" THEN {"retry"} ELSE {})}
  BY Zenon DEF ValveOutcomes
<1>3. f.p \in Slots /\ f.a \in Airs /\ Aims(f.p, f.a, k)
  BY <1>1, RmlFirstTyped, RmlFirstAims DEF Outcome
<1>4. CASE f.end = "sent"
  BY <1>1, <1>2, <1>3, <1>4, WriteAims
<1>5. CASE f.end # "sent"
  <2>1. o.p = [f.p EXCEPT !["valve"] = c] /\ o.a = f.a
    BY <1>2, <1>5 DEF Pended
  <2>2. o.p.rml = f.p.rml
    BY <2>1, <1>3 DEF Slots
  <2> QED
    BY <2>1, <2>2, <1>3 DEF Aims
<1> QED
  BY <1>4, <1>5

LEMMA ReplayAims ==
    ASSUME NEW p \in Slots, NEW a \in Airs, NEW k, NEW o \in ReplayOutcomes(p, a), Aims(p, a, k)
    PROVE  Aims(o.p, o.a, k)
<1>1. Ready \in BOOLEAN
  BY DEF Ready, LinkIsTarget, HasTarget
<1>2. PICK f \in RmlFirst(Ready, p, a) :
         o \in IF f.p.valve = "none" \/ f.end = "retry" \/ (f.end # "sent" /\ f.p.valve = "open")
                 THEN {f}
               ELSE WriteOutcomes(Ready, f.p, f.a, "valve", f.p.valve)
  BY Zenon DEF ReplayOutcomes
<1>3. f.p \in Slots /\ f.a \in Airs /\ Aims(f.p, f.a, k)
  BY <1>1, RmlFirstTyped, RmlFirstAims DEF Outcome
<1>4. CASE o = f
  BY <1>3, <1>4
<1>5. CASE f.p.valve # "none" /\ o \in WriteOutcomes(Ready, f.p, f.a, "valve", f.p.valve)
  <2>1. Fits("valve", f.p.valve)
    BY <1>3, <1>5 DEF Slots, Fits
  <2> QED
    BY <2>1, <1>1, <1>3, <1>5, WriteAims
<1> QED
  BY <1>2, <1>4, <1>5

(* ... and in ble_cmd_queue before them.                                    *)
Backed(p, a, q, k) == ~EndsClear(q) /\ (HasSet(q) \/ Aims(p, a, k))

LEMMA TakeWriteBacked ==
    ASSUME ChanTyped, cmdq # <<>>, NEW outcomes, NEW k, Backed(pend, air, cmdq, k),
           \A o \in outcomes : (Aims(pend, air, k) \/ Head(cmdq) = "set") =>
                                 Aims(o.p, o.a, k) \/ Head(cmdq) = "clear",
           TakeWrite(outcomes)
    PROVE  Backed(pend', air', cmdq', k)
<1>1. PICK o \in outcomes :
         /\ pend' = o.p
         /\ air' = o.a
         /\ cmdq' = IF o.end = "retry" THEN TokenPosted(Tail(cmdq)) ELSE Tail(cmdq)
  BY Zenon DEF TakeWrite
<1>2. cmdq \in Seq(Cmds) /\ Tail(cmdq) \in Queue
  BY QueueTyped DEF ChanTyped, Queue
<1>3. (HasSet(cmdq') <=> HasSet(Tail(cmdq))) /\ (EndsClear(cmdq') <=> EndsClear(Tail(cmdq)))
  BY <1>1, <1>2, LastOfToken
<1>4. /\ HasSet(cmdq) <=> Head(cmdq) = "set" \/ HasSet(Tail(cmdq))
      /\ EndsClear(cmdq) <=> \/ EndsClear(Tail(cmdq))
                             \/ Head(cmdq) = "clear" /\ ~HasSet(Tail(cmdq))
  BY <1>2, LastOfRest
<1> QED
  BY <1>1, <1>3, <1>4 DEF Backed

LEMMA TakeCmdBacked ==
    ASSUME ChanTyped, TakeCmd, HasTarget, NEW k, Backed(pend, air, cmdq, k)
    PROVE  Backed(pend', air', cmdq', k)
<1> DEFINE c == Head(cmdq)
<1>1. cmdq # <<>> /\ c \in Cmds /\ cmdq \in Seq(Cmds)
  BY QueueTyped DEF ChanTyped, TakeCmd, Queue
<1>2. Ready \in BOOLEAN /\ pend \in Slots /\ air \in Airs
  BY LinkTypes DEF ChanTyped
<1>3. \/ c \in RmlCmds /\ TakeWrite(WriteOutcomes(Ready, pend, air, "rml", c))
      \/ c \in ValveCmds /\ TakeWrite(ValveOutcomes(pend, air, c))
      \/ c = "replay" /\ TakeWrite(ReplayOutcomes(pend, air))
      \/ c \notin RmlCmds /\ cmdq' = Tail(cmdq) /\ UNCHANGED <<pend, air>>
  BY Zenon DEF TakeCmd, RmlCmds
<1>4. CASE c \in RmlCmds /\ TakeWrite(WriteOutcomes(Ready, pend, air, "rml", c))
  <2>1. \A o \in WriteOutcomes(Ready, pend, air, "rml", c) :
           Aims(o.p, o.a, k) \/ c = "clear"
    BY <1>2, <1>4, WriteAims DEF Fits, RmlCmds
  <2> QED
    BY <2>1, <1>1, <1>4, TakeWriteBacked
<1>5. CASE c \in ValveCmds /\ TakeWrite(ValveOutcomes(pend, air, c))
  <2>1. c # "set" /\ \A o \in ValveOutcomes(pend, air, c) : Aims(pend, air, k) => Aims(o.p, o.a, k)
    BY <1>2, <1>5, ValveAims DEF ValveCmds
  <2> QED
    BY <2>1, <1>1, <1>5, TakeWriteBacked
<1>6. CASE c = "replay" /\ TakeWrite(ReplayOutcomes(pend, air))
  <2>1. \A o \in ReplayOutcomes(pend, air) : Aims(pend, air, k) => Aims(o.p, o.a, k)
    BY <1>2, ReplayAims
  <2> QED
    BY <2>1, <1>1, <1>6, TakeWriteBacked
<1>7. CASE c \notin RmlCmds /\ cmdq' = Tail(cmdq) /\ UNCHANGED <<pend, air>>
  BY <1>1, <1>7, LastOfRest DEF Backed, RmlCmds
<1> QED
  BY <1>3, <1>4, <1>5, <1>6, <1>7

-----------------------------------------------------------------------------
(* A close the engine owes: a leak is latched, no window holds it back, and *)
(* the rules act on a source that is wet, or the close was decided on and   *)
(* its sources are not all dry.                                             *)
Owes(e) ==
    /\ e.incident /\ ~Window(e) /\ rules.auto /\ HasTarget
    /\ e.triggered \/ e.active \cap rules.mask # {}

Latching(e) == e.triggered => Active(e) /\ e.incident /\ ~Window(e)

(* A hold in progress: it owes nothing that was not owed before it, and has *)
(* cancelled nothing while it does.                                         *)
HoldKeeps(e, p) ==
    /\ Latching(e)
    /\ e.window = eng.window
    /\ Owes(e) => Owes(eng) /\ p = pend

(* The fields a close depends on.                                           *)
Alarm(e) == <<e.incident, e.triggered, e.window, e.active>>

LEMMA SameAlarm ==
    ASSUME NEW h, NEW f, Alarm(h) = Alarm(f)
    PROVE  /\ Owes(h) <=> Owes(f)
           /\ Latching(h) <=> Latching(f)
           /\ \A p : HoldKeeps(h, p) <=> HoldKeeps(f, p)
           /\ Window(h) <=> Window(f)
           /\ Active(h) <=> Active(f)
BY DEF Alarm, Owes, Latching, HoldKeeps, Window, Active

LEMMA MarkAlarm ==
    ASSUME NEW f \in Engine
    PROVE  /\ Alarm(Latched(f)) = <<TRUE, f.triggered, f.window, f.active>>
           /\ Alarm(Released(f)) = <<FALSE, FALSE, f.window, f.active>>
           /\ Alarm(Asserting(f)) = Alarm(f)
           /\ Alarm(Seen(f)) = Alarm(f)
           /\ Alarm(Closing(f)) = <<TRUE, TRUE, f.window, f.active>>
<1>1. Latched(f) \in Engine /\ Alarm(Latched(f)) = <<TRUE, f.triggered, f.window, f.active>>
  BY DEF Engine, Latched, Alarm
<1>2. ASSUME NEW g \in Engine PROVE Asserting(g) \in Engine /\ Alarm(Asserting(g)) = Alarm(g)
  BY DEF Engine, Asserting, Alarm
<1>3. Alarm(Released(f)) = <<FALSE, FALSE, f.window, f.active>>
  BY DEF Engine, Released, Alarm
<1>4. Alarm(Seen(f)) = Alarm(f)
  BY DEF Engine, Seen, Alarm
<1> DEFINE g == Asserting(Latched(f))
<1>5. g \in Engine /\ Alarm(g) = <<TRUE, f.triggered, f.window, f.active>>
  BY <1>1, <1>2
<1> HIDE DEF g
<1>6. Alarm([g EXCEPT !.triggered = TRUE, !.allclear = "off"]) = <<TRUE, TRUE, f.window, f.active>>
  BY <1>5 DEF Engine, Alarm
<1> QED
  BY <1>1, <1>2, <1>3, <1>4, <1>6 DEF Closing, g

LEMMA KeepsDry ==
    ASSUME NEW st \in Holds, HoldKeeps(st.e, st.p), NEW s
    PROVE  HoldKeeps(TrackDry(st, s).e, TrackDry(st, s).p)
<1> DEFINE e == [st.e EXCEPT !.active = @ \ {s}]
<1>1. /\ e \in Engine /\ Alarm(e) = <<st.e.incident, st.e.triggered, st.e.window, st.e.active \ {s}>>
  BY DEF Holds, Engine, Alarm
<1>2. CASE Active(e)
  <2>1. TrackDry(st, s) = [st EXCEPT !.e = e]
    BY <1>2 DEF TrackDry
  <2>2. TrackDry(st, s).e = e /\ TrackDry(st, s).p = st.p
    BY <2>1 DEF Holds
  <2>3. /\ e.incident = st.e.incident /\ e.triggered = st.e.triggered
        /\ e.window = st.e.window /\ e.active \subseteq st.e.active
    BY <1>1 DEF Alarm
  <2> HIDE DEF e
  <2>4. HoldKeeps(e, st.p)
    BY <2>3, <1>2 DEF HoldKeeps, Latching, Owes, Window, Active
  <2> QED
    BY <2>2, <2>4
<1>3. CASE ~Active(e)
  <2> DEFINE h == [e EXCEPT !.triggered = FALSE,
                            !.allclear = IF e.incident /\ @ = "off" THEN "running" ELSE @]
             p == IF e.triggered THEN CancelPendingClose(st.p) ELSE st.p
  <2>1. TrackDry(st, s) = [e |-> h, p |-> p]
    BY <1>3 DEF TrackDry
  <2>2. ~h.triggered /\ h.window = st.e.window /\ h.active = {}
    BY <1>1, <1>3 DEF Engine, Alarm, Active
  <2> HIDE DEF h, p
  <2>3. HoldKeeps(h, p)
    BY <2>2 DEF HoldKeeps, Latching, Owes
  <2> QED
    BY <2>1, <2>3
<1> QED
  BY <1>2, <1>3

LEMMA KeepsReplaced ==
    ASSUME NEW st \in Holds, HoldKeeps(st.e, st.p)
    PROVE  HoldKeeps(Replaced(st).e, Replaced(st).p)
<1> DEFINE d == TrackDry(st, Probe)
           e == [d.e EXCEPT !.owed = FALSE, !.confirmed = FALSE, !.purge = FALSE]
           f == [Released(e) EXCEPT !.grace = FALSE]
<1>1. d \in Holds /\ HoldKeeps(d.e, d.p)
  BY DryTyped, KeepsDry
<1>2. d.e \in Engine
  BY <1>1 DEF Holds
<1>3. Replaced(st) = [d EXCEPT !.e = IF e.incident /\ ~Active(e) THEN f ELSE e]
  BY DEF Replaced
<1> HIDE DEF d
<1>4. e \in Engine /\ Alarm(e) = Alarm(d.e)
  BY <1>2 DEF Engine, Alarm
<1> HIDE DEF e
<1>5. HoldKeeps(e, d.p)
  BY <1>1, <1>4, SameAlarm
<1>6. ~f.incident /\ ~f.triggered /\ f.window = e.window
  BY <1>4 DEF Engine, Released
<1> HIDE DEF f
<1>7. HoldKeeps(f, d.p)
  BY <1>5, <1>6 DEF HoldKeeps, Latching, Owes
<1>8. \A h : [d EXCEPT !.e = h].e = h /\ [d EXCEPT !.e = h].p = d.p
  BY <1>1 DEF Holds
<1> QED
  BY <1>3, <1>5, <1>7, <1>8, Zenon

LEMMA KeepsHeld ==
    ASSUME eng \in Engine, pend \in Slots, Latching(eng)
    PROVE  HoldKeeps(Held.e, Held.p)
<1> DEFINE st == [e |-> eng, p |-> pend]
<1>1. st \in Holds /\ st.e = eng /\ st.p = pend
  BY DEF Holds
<1> HIDE DEF st
<1>2. HoldKeeps(st.e, st.p)
  BY <1>1 DEF HoldKeeps
<1>3. Held = IF eng.purge THEN Replaced(st) ELSE st
  BY DEF Held, st
<1> QED
  BY <1>1, <1>2, <1>3, KeepsReplaced

(* A source that reports wet is tracked, or the table is full of others.    *)
LEMMA WetTracked ==
    ASSUME NEW e \in Engine, NEW s \in Sources
    PROVE  /\ Active(TrackWet(e, s))
           /\ TrackWet(e, s).incident = e.incident /\ TrackWet(e, s).triggered = e.triggered
           /\ TrackWet(e, s).window = e.window
           /\ e.active \subseteq TrackWet(e, s).active
           /\ TrackWet(e, s).active \subseteq e.active \cup {s}
<1>1. CASE s \in e.active
  BY <1>1 DEF TrackWet, Active
<1>2. CASE s \notin e.active
  <2> DEFINE a == IF Cardinality(e.active) < MaxActive THEN e.active \cup {s} ELSE e.active
  <2>1. a \subseteq e.active \cup {s} /\ e.active \subseteq a
    OBVIOUS
  <2>2. a # {}
    <3>1. e.active = {} => Cardinality(e.active) < MaxActive
      BY FS_EmptySet
    <3> QED
      BY <3>1
  <2> HIDE DEF a
  <2> DEFINE h == [e EXCEPT !.allclear = "off", !.active = a]
  <2>3. h.incident = e.incident /\ h.triggered = e.triggered /\ h.window = e.window /\ h.active = a
    BY DEF Engine
  <2>4. TrackWet(e, s) = h
    BY <1>2 DEF TrackWet, a
  <2> QED
    BY <2>1, <2>2, <2>3, <2>4 DEF Active
<1> QED
  BY <1>1, <1>2

(* What a hold does about a close that is owed when it ends: it has decided *)
(* on one, or found the lock in place and rightly trusts it; or it leaves   *)
(* alone what was there.                                                    *)
Renews == \/ HasSet(hubTodo') \/ HasSet(mqTodo')
          \/ ~TrustsWrongly /\ Unpended /\ cmdq' = cmdq
Stays  == Owes(eng) /\ ~unsure /\ pend' = pend /\ cmdq' = cmdq

Handled    == Latching(eng') /\ (Owes(eng') /\ ~unsure' => Renews \/ Stays)
WindowOnIn == eng.window = "on" => eng'.window = "on"

LEMMA KeptHandled ==
    ASSUME HoldKeeps(eng', pend'), UNCHANGED <<cmdq, unsure>>
    PROVE  Handled /\ WindowOnIn
BY DEF HoldKeeps, Handled, Stays, WindowOnIn

LEMMA HeldKnown ==
    ASSUME Typed, Latching(eng)
    PROVE  /\ Held \in Holds /\ Held.e \in Engine /\ HoldKeeps(Held.e, Held.p)
           /\ Held.p.rml = "clear" => pend.rml = "clear"
BY HeldFrom, KeepsHeld DEF Typed, ChanTyped, EngTyped

LEMMA DryHandled ==
    ASSUME Typed, Latching(eng), NEW s, EvaluateDry(s), UNCHANGED cmdq
    PROVE  Handled /\ WindowOnIn
<1>1. eng' = TrackDry(Held, s).e /\ pend' = TrackDry(Held, s).p /\ UNCHANGED unsure
  BY Zenon DEF EvaluateDry, Commit
<1>2. HoldKeeps(TrackDry(Held, s).e, TrackDry(Held, s).p)
  BY HeldKnown, KeepsDry
<1> QED
  BY <1>1, <1>2, KeptHandled

LEMMA WetHandled ==
    ASSUME Typed, Latching(eng), NEW s \in Sources, EvaluateWet(s), UNCHANGED cmdq
    PROVE  Handled /\ WindowOnIn
<1> DEFINE st       == Held
           e        == TrackWet(st.e, s)
           eligible == rules.auto /\ s \in rules.mask
           locked   == /\ e.incident /\ ~e.owed
                       /\ HasTarget /\ cache.pos = "closed" /\ cache.rml
           quiet    == e.triggered /\ e.cooling
           a        == Asserting(Latched(e))
           c        == [a EXCEPT !.triggered = TRUE, !.cooling = TRUE]
<1>1. /\ st.e \in Engine /\ HoldKeeps(st.e, st.p)
      /\ st.p.rml = "clear" => pend.rml = "clear"
  BY HeldKnown
<1>2. /\ pend' = st.p
      /\ \/ ~eligible /\ eng' = e /\ UNCHANGED unsure
         \/ /\ eligible /\ (Window(e) \/ locked \/ quiet) /\ eng' = Latched(e)
            /\ unsure' = IF locked THEN TrustsWrongly ELSE unsure
         \/ eligible /\ ~Window(e) /\ eng' = c /\ hubTodo' = CloseCmds
  BY Zenon DEF EvaluateWet, Commit
<1> HIDE DEF st
<1>3. /\ Active(e) /\ e.incident = st.e.incident /\ e.triggered = st.e.triggered
      /\ e.window = st.e.window /\ st.e.active \subseteq e.active
      /\ e.active \subseteq st.e.active \cup {s}
  BY <1>1, WetTracked
<1>4. e \in Engine
  <2>1. From(st.e, {}, FALSE)
    BY HeldFrom DEF Typed, ChanTyped, EngTyped, st
  <2>2. From(e, {} \cup {s}, FALSE)
    BY <2>1, FromWet
  <2> QED
    BY <2>2 DEF From
<1>5. Unpended
  BY <1>1, <1>2 DEF Unpended
<1> HIDE DEF e
<1>6. Latching(e)
  BY <1>1, <1>3 DEF HoldKeeps, Latching, Window
<1>7. CASE ~eligible /\ eng' = e /\ UNCHANGED unsure
  <2>1. Owes(e) => Owes(st.e)
    BY <1>3, <1>7 DEF Owes, Window
  <2>2. HoldKeeps(e, st.p)
    BY <2>1, <1>1, <1>3, <1>6 DEF HoldKeeps
  <2> QED
    BY <2>2, <1>2, <1>7, KeptHandled
<1>8. CASE /\ eligible /\ (Window(e) \/ locked \/ quiet) /\ eng' = Latched(e)
           /\ unsure' = IF locked THEN TrustsWrongly ELSE unsure
  <2>1. Alarm(eng') = <<TRUE, e.triggered, e.window, e.active>>
    BY <1>4, <1>8, MarkAlarm
  <2>2. /\ eng'.incident /\ eng'.triggered = e.triggered /\ eng'.window = e.window
        /\ eng'.active = e.active
    BY <2>1 DEF Alarm
  <2>3. Latching(eng') /\ WindowOnIn
    BY <2>2, <1>1, <1>3, <1>6 DEF Latching, Active, Window, HoldKeeps, WindowOnIn
  <2>4. CASE locked
    <3>1. ~unsure' => ~TrustsWrongly
      BY <2>4, <1>8, Zenon
    <3> QED
      BY <3>1, <2>3, <1>5 DEF Handled, Renews
  <2>5. CASE ~locked /\ quiet
    <3>1. e.incident /\ ~Window(e)
      BY <2>5, <1>6 DEF Latching
    <3>2. Owes(eng') => Owes(st.e)
      BY <3>1, <2>2, <2>5, <1>3 DEF Owes, Window
    <3>3. UNCHANGED unsure
      BY <2>5, <1>8, Zenon
    <3>4. HoldKeeps(eng', pend')
      BY <3>2, <2>2, <2>3, <1>1, <1>2, <1>3 DEF HoldKeeps
    <3> QED
      BY <3>3, <3>4, KeptHandled
  <2>6. CASE Window(e)
    <3>1. ~Owes(eng')
      BY <2>2, <2>6 DEF Owes, Window
    <3> QED
      BY <3>1, <2>3 DEF Handled
  <2> QED
    BY <1>8, <2>4, <2>5, <2>6
<1>9. CASE eligible /\ ~Window(e) /\ eng' = c /\ hubTodo' = CloseCmds
  <2> DEFINE l == Latched(e)
  <2>1. l \in Engine /\ Alarm(l) = <<TRUE, e.triggered, e.window, e.active>>
    BY <1>4, MarkAlarm DEF Engine, Latched
  <2> HIDE DEF l
  <2>2. Asserting(l) \in Engine /\ Alarm(Asserting(l)) = Alarm(l)
    BY <2>1, MarkAlarm DEF Engine, Asserting
  <2>3. /\ eng'.incident /\ eng'.window = e.window /\ eng'.active = e.active
    <3> DEFINE b == Asserting(l)
    <3>1. eng' = [b EXCEPT !.triggered = TRUE, !.cooling = TRUE]
      BY <1>9 DEF l
    <3>2. b \in Engine /\ Alarm(b) = <<TRUE, e.triggered, e.window, e.active>>
      BY <2>1, <2>2
    <3> HIDE DEF b
    <3> QED
      BY <3>1, <3>2 DEF Alarm, Engine
  <2>4. Latching(eng') /\ WindowOnIn
    BY <2>3, <1>1, <1>3, <1>9 DEF Latching, Active, Window, WindowOnIn, HoldKeeps
  <2>5. Owes(eng') => HasSet(hubTodo')
    BY <1>9, LastOfNone DEF Owes
  <2> QED
    BY <2>4, <2>5 DEF Handled, Renews
<1> QED
  BY <1>2, <1>7, <1>8, <1>9

(* A CONNECTED that is acted on settles what is owed anew.                  *)
LEMMA ReconcileHandled ==
    ASSUME Typed, Latching(eng), Reconcile
    PROVE  /\ Latching(eng') /\ WindowOnIn
           /\ Owes(eng') /\ ~unsure' => Renews
<1> DEFINE st  == Held
           e   == [st.e EXCEPT !.grace = @ \/ st.e.incident \/ st.e.triggered]
           act == Active(e) /\ rules.auto
           r   == [e EXCEPT !.incident = TRUE, !.triggered = TRUE, !.grace = TRUE, !.allclear = "off"]
           w   == [e EXCEPT !.incident = FALSE, !.triggered = FALSE, !.allclear = "off",
                            !.window = "on"]
<1>1. /\ st.e \in Engine /\ HoldKeeps(st.e, st.p)
      /\ st.p.rml = "clear" => pend.rml = "clear"
  BY HeldKnown
<1>2. /\ pend' = st.p
      /\ \/ Window(e) /\ eng' \in {Latched(e), e}
         \/ ~Window(e) /\ act /\ eng' = Seen(r) /\ UNCHANGED cmdq /\ unsure' = TrustsWrongly
         \/ ~Window(e) /\ act /\ eng' = Closing(e) /\ hubTodo' = <<"set", "close">>
         \/ eng' = w
         \/ ~Window(e) /\ eng' = Asserting(e) /\ hubTodo' = <<"set">>
         \/ ~Window(e) /\ ~act /\ eng' \in {e, Latched(e), Seen(e)}
  BY Zenon DEF Reconcile, Commit
<1> HIDE DEF st
<1>3. e \in Engine /\ Alarm(e) = Alarm(st.e)
  BY <1>1 DEF Engine, Alarm
<1> HIDE DEF e
<1>4. Latching(e) /\ e.window = eng.window
  BY <1>1, <1>3, SameAlarm DEF HoldKeeps, Alarm
<1>5. /\ r \in Engine /\ Alarm(r) = <<TRUE, TRUE, e.window, e.active>>
      /\ Alarm(w) = <<FALSE, FALSE, "on", e.active>>
  BY <1>3 DEF Engine, Alarm
<1> HIDE DEF r, w
<1>6. /\ Alarm(Latched(e)) = <<TRUE, e.triggered, e.window, e.active>>
      /\ Alarm(Asserting(e)) = Alarm(e)
      /\ Alarm(Seen(e)) = Alarm(e)
      /\ Alarm(Seen(r)) = <<TRUE, TRUE, e.window, e.active>>
      /\ Alarm(Closing(e)) = <<TRUE, TRUE, e.window, e.active>>
  BY <1>3, <1>5, MarkAlarm
<1>7. Unpended
  BY <1>1, <1>2 DEF Unpended
<1>8. CASE Window(e) /\ eng' \in {Latched(e), e}
  <2>1. eng'.window = e.window /\ eng'.triggered = e.triggered
    BY <1>6, <1>8 DEF Alarm
  <2> QED
    BY <2>1, <1>4, <1>8 DEF Latching, Owes, Window, WindowOnIn
<1>9. CASE ~Window(e) /\ act /\ eng' = Seen(r) /\ UNCHANGED cmdq /\ unsure' = TrustsWrongly
  <2>1. eng'.incident /\ eng'.window = e.window /\ eng'.active = e.active
    BY <1>6, <1>9 DEF Alarm
  <2>2. ~unsure' => ~TrustsWrongly
    BY <1>9, Zenon
  <2> QED
    BY <2>1, <2>2, <1>4, <1>7, <1>9 DEF Latching, Window, Active, WindowOnIn, Renews
<1>10. CASE ~Window(e) /\ act /\ eng' = Closing(e) /\ hubTodo' = <<"set", "close">>
  <2>1. eng'.incident /\ eng'.window = e.window /\ eng'.active = e.active
    BY <1>6, <1>10 DEF Alarm
  <2> QED
    BY <2>1, <1>4, <1>10, LastOfNone DEF Latching, Window, Active, WindowOnIn, Renews
<1>11. CASE eng' = w
  <2>1. ~eng'.triggered /\ ~eng'.incident /\ eng'.window = "on"
    BY <1>5, <1>11 DEF Alarm
  <2> QED
    BY <2>1 DEF Latching, Owes, WindowOnIn
<1>12. CASE ~Window(e) /\ eng' = Asserting(e) /\ hubTodo' = <<"set">>
  <2>1. Latching(eng') /\ eng'.window = e.window
    BY <1>4, <1>6, <1>12, SameAlarm DEF Alarm
  <2> QED
    BY <2>1, <1>4, <1>12, LastOfNone DEF WindowOnIn, Renews
<1>13. CASE ~Window(e) /\ ~act /\ eng' \in {e, Latched(e), Seen(e)}
  <2>1. /\ eng'.window = e.window /\ eng'.active = e.active /\ eng'.triggered = e.triggered
        /\ e.incident => eng'.incident
    BY <1>6, <1>13 DEF Alarm
  <2> QED
    BY <2>1, <1>4, <1>13 DEF Latching, Owes, Window, Active, WindowOnIn
<1> QED
  BY <1>2, <1>8, <1>9, <1>10, <1>11, <1>12, <1>13

LEMMA TickHandled ==
    ASSUME Typed, Latching(eng), Tick
    PROVE  Handled /\ WindowOnIn
<1> DEFINE st == Held
           e  == IF st.e.window = "due" THEN [st.e EXCEPT !.window = "off"] ELSE st.e
           rearm == st.e.window = "due" /\ Active(e) /\ rules.auto
           s  == IF Ready /\ cache.rml THEN Seen(e) ELSE e
           o  == [e EXCEPT !.owed = @ /\ ~(Ready /\ ~cache.rml)]
           c  == [Released(s) EXCEPT !.owed = @ \/ CanPost(cmdq)]
           k  == [s EXCEPT !.wasReady = @ /\ Ready]
           g  == [s EXCEPT !.wasReady = TRUE, !.grace = TRUE]
           f  == [s EXCEPT !.owed = FALSE, !.confirmed = FALSE]
           w  == [Released(s) EXCEPT !.window = "on"]
<1>1. /\ st.e \in Engine /\ HoldKeeps(st.e, st.p)
  BY HeldKnown
<1>2. /\ pend' = st.p
      /\ \/ rearm /\ eng' = Closing(e) /\ hubTodo' = Append(CloseCmds, "event")
         \/ ~rearm /\ eng' \in {o, k, s, g, f} /\ UNCHANGED <<cmdq, unsure>>
         \/ eng' = c
         \/ eng' = w
  BY Zenon DEF Tick, Commit
<1> HIDE DEF st
<1>3. /\ e \in Engine /\ e.incident = st.e.incident /\ e.triggered = st.e.triggered
      /\ e.active = st.e.active
      /\ e.window = IF st.e.window = "due" THEN "off" ELSE st.e.window
  BY <1>1 DEF Engine
<1>4. Latching(e) /\ (eng.window = "on" => e.window = "on")
  BY <1>1, <1>3 DEF HoldKeeps, Latching, Active, Window
<1> HIDE DEF e
<1>5. s \in Engine /\ Alarm(s) = Alarm(e)
  <2>1. Seen(e) \in Engine /\ Alarm(Seen(e)) = Alarm(e)
    BY <1>3, MarkAlarm DEF Engine, Seen
  <2> QED
    BY <2>1, <1>3
<1> HIDE DEF s
<1>6. Alarm(o) = Alarm(e) /\ Alarm(k) = Alarm(s) /\ Alarm(g) = Alarm(s) /\ Alarm(f) = Alarm(s)
  BY <1>3, <1>5 DEF Engine, Alarm
<1>7. /\ Alarm(c) = <<FALSE, FALSE, e.window, e.active>>
      /\ Alarm(w) = <<FALSE, FALSE, "on", e.active>>
  <2> DEFINE z == Released(s)
  <2>1. z \in Engine /\ Alarm(z) = <<FALSE, FALSE, e.window, e.active>>
    BY <1>5, MarkAlarm DEF Engine, Released, Alarm
  <2> HIDE DEF z
  <2>2. /\ Alarm([z EXCEPT !.owed = @ \/ CanPost(cmdq)]) = Alarm(z)
        /\ Alarm([z EXCEPT !.window = "on"]) = <<FALSE, FALSE, "on", e.active>>
    BY <2>1 DEF Engine, Alarm
  <2> QED
    BY <2>1, <2>2 DEF z
<1> HIDE DEF o, k, g, f, c, w
<1>8. CASE rearm /\ eng' = Closing(e) /\ hubTodo' = Append(CloseCmds, "event")
  <2>1. Alarm(eng') = <<TRUE, TRUE, e.window, e.active>>
    BY <1>3, <1>8, MarkAlarm
  <2>2. Latching(eng') /\ eng'.window = e.window
    BY <2>1, <1>3, <1>8 DEF Alarm, Latching, Active, Window
  <2>3. Owes(eng') => HasSet(hubTodo')
    BY <1>8, LastOfNone DEF Owes
  <2> QED
    BY <2>2, <2>3, <1>4 DEF Handled, Renews, WindowOnIn
<1>9. CASE ~rearm /\ eng' \in {o, k, s, g, f} /\ UNCHANGED <<cmdq, unsure>>
  <2>1. Alarm(eng') = Alarm(e)
    BY <1>5, <1>6, <1>9
  <2>2. /\ Latching(eng') /\ (Owes(eng') <=> Owes(e)) /\ eng'.window = e.window
    BY <2>1, <1>4, SameAlarm DEF Alarm
  <2>3. Owes(e) => Owes(st.e)
    <3>1. CASE st.e.window = "due"
      <4>1. ~Active(e) \/ ~rules.auto
        BY <3>1, <1>9
      <4> QED
        BY <4>1, <1>4 DEF Owes, Active, Latching
    <3>2. CASE st.e.window # "due"
      BY <3>2, <1>3 DEF Owes, Window
    <3> QED
      BY <3>1, <3>2
  <2>4. Owes(eng') => Owes(eng) /\ pend' = pend
    BY <2>2, <2>3, <1>1, <1>2 DEF HoldKeeps
  <2> QED
    BY <2>2, <2>4, <1>4, <1>9 DEF Handled, Stays, WindowOnIn
<1>10. CASE eng' = c \/ eng' = w
  <2>1. ~eng'.triggered /\ ~eng'.incident /\ eng'.window \in {e.window, "on"}
    BY <1>7, <1>10 DEF Alarm
  <2> QED
    BY <2>1, <1>4 DEF Handled, Latching, Owes, WindowOnIn
<1> QED
  BY <1>2, <1>8, <1>9, <1>10

LEMMA ForgetHandled ==
    ASSUME Typed, Latching(eng), ForgetUnprovisioned
    PROVE  Handled /\ WindowOnIn
<1> DEFINE st   == Held
           keep == members \cup (IF HasTarget THEN {Probe} ELSE {})
           gone == st.e.active \ keep
           s    == CHOOSE x \in gone : TRUE
           cut  == [st EXCEPT !.e.active = (@ \cap keep) \cup {s}]
           left == IF gone = {} THEN st ELSE TrackDry(cut, s)
<1>1. st \in Holds /\ HoldKeeps(st.e, st.p)
  BY HeldKnown
<1>2. eng' = left.e /\ pend' = left.p /\ UNCHANGED <<cmdq, unsure>>
  BY Zenon DEF ForgetUnprovisioned, Commit
<1> HIDE DEF st, keep
<1>3. CASE gone = {}
  BY <1>1, <1>2, <1>3, KeptHandled
<1>4. CASE gone # {}
  <2>1. s \in st.e.active /\ s \notin keep
    <3>1. s \in gone
      BY <1>4
    <3> HIDE DEF s
    <3> QED
      BY <3>1
  <2>2. left = TrackDry(cut, s)
    BY <1>4
  <2> HIDE DEF s, gone, left
  <2>3. /\ cut \in Holds /\ cut.p = st.p /\ cut.e.active = (st.e.active \cap keep) \cup {s}
        /\ cut.e.incident = st.e.incident /\ cut.e.triggered = st.e.triggered
        /\ cut.e.window = st.e.window
    BY <2>1, <1>1 DEF Holds, Engine
  <2> HIDE DEF cut
  <2>4. cut.e.active \subseteq st.e.active /\ cut.e.active # {}
    BY <2>1, <2>3
  <2>5. HoldKeeps(cut.e, cut.p)
    BY <2>3, <2>4, <1>1 DEF HoldKeeps, Latching, Owes, Active, Window
  <2>6. HoldKeeps(left.e, left.p)
    BY <2>2, <2>3, <2>5, KeepsDry
  <2> QED
    BY <2>6, <1>2, KeptHandled
<1> QED
  BY <1>3, <1>4

LEMMA SyncHandled ==
    ASSUME Typed, Latching(eng), SyncValveDetectors
    PROVE  Handled /\ WindowOnIn
<1> DEFINE st == [e |-> eng, p |-> pend]
<1>1. UNCHANGED <<cmdq, unsure>>
  BY DEF SyncValveDetectors
<1>2. \/ UNCHANGED <<eng, pend>>
      \/ eng' = Replaced(st).e /\ pend' = Replaced(st).p
      \/ eng' = [eng EXCEPT !.purge = TRUE] /\ UNCHANGED pend
  BY Zenon DEF SyncValveDetectors, Commit
<1>3. st \in Holds /\ st.e = eng /\ st.p = pend /\ eng \in Engine
  BY DEF Holds, Typed, ChanTyped, EngTyped
<1> HIDE DEF st
<1>4. HoldKeeps(eng, pend)
  BY DEF HoldKeeps
<1>5. HoldKeeps(Replaced(st).e, Replaced(st).p)
  BY <1>3, <1>4, KeepsReplaced
<1>6. Alarm([eng EXCEPT !.purge = TRUE]) = Alarm(eng)
  BY <1>3 DEF Engine, Alarm
<1>7. HoldKeeps(eng', pend')
  BY <1>2, <1>4, <1>5, <1>6, SameAlarm
<1> QED
  BY <1>1, <1>7, KeptHandled

LEMMA ResetHandled ==
    ASSUME Typed, Latching(eng), LeakReset
    PROVE  Handled
<1> DEFINE st    == Held
           z     == Released(st.e)
           e     == [z EXCEPT !.grace = FALSE, !.window = "off",
                              !.owed = @ \/ ((st.e.incident \/ cache.rml) /\ CanPost(cmdq))]
<1>1. st.e \in Engine /\ HoldKeeps(st.e, st.p)
  BY HeldKnown
<1>2. \/ eng' = st.e /\ pend' = st.p /\ UNCHANGED <<cmdq, unsure>>
      \/ eng' = e
  BY Zenon DEF LeakReset, mqFrame, Commit
<1> HIDE DEF st
<1>3. z \in Engine /\ ~z.incident /\ ~z.triggered
  BY <1>1 DEF Engine, Released
<1> HIDE DEF z
<1>4. ~e.incident /\ ~e.triggered
  BY <1>3 DEF Engine
<1> HIDE DEF e
<1> QED
  BY <1>1, <1>2, <1>4, KeptHandled DEF Handled, Latching, Owes

LEMMA CancelHandled ==
    ASSUME Typed, Latching(eng), CancelOverride
    PROVE  Handled
<1> DEFINE st == Held
           e  == [st.e EXCEPT !.window = "off"]
           z  == Released(e)
           c  == [z EXCEPT !.grace = FALSE]
<1>1. st.e \in Engine /\ HoldKeeps(st.e, st.p)
  BY HeldKnown
<1>2. \/ eng' = st.e /\ pend' = st.p /\ UNCHANGED <<cmdq, unsure>>
      \/ Active(e) /\ eng' = Closing(e) /\ mqTodo' = CloseCmds
      \/ eng' = c
  BY Zenon DEF CancelOverride, Commit
<1> HIDE DEF st
<1>3. e \in Engine /\ e.window = "off"
  BY <1>1 DEF Engine
<1> HIDE DEF e
<1>4. z \in Engine /\ ~z.incident /\ ~z.triggered
  BY <1>3 DEF Engine, Released
<1> HIDE DEF z
<1>5. ~c.incident /\ ~c.triggered
  BY <1>4 DEF Engine
<1> HIDE DEF c
<1>6. CASE Active(e) /\ eng' = Closing(e) /\ mqTodo' = CloseCmds
  <2>1. Alarm(eng') = <<TRUE, TRUE, "off", e.active>>
    BY <1>3, <1>6, MarkAlarm
  <2>2. Latching(eng')
    BY <2>1, <1>6 DEF Alarm, Latching, Active, Window
  <2>3. Owes(eng') => HasSet(mqTodo')
    BY <1>6, LastOfNone DEF Owes
  <2> QED
    BY <2>2, <2>3 DEF Handled, Renews
<1> QED
  BY <1>1, <1>2, <1>5, <1>6, KeptHandled DEF Handled, Latching, Owes

LEMMA EnableHandled ==
    ASSUME Typed, Latching(eng), EnableOverride
    PROVE  /\ Handled
           /\ \/ WindowOnIn /\ mqTodo' = mqTodo
              \/ eng'.window = "on" /\ ~Owes(eng')
<1> DEFINE st == Held
           z  == Released(st.e)
           e  == [z EXCEPT !.grace = FALSE, !.owed = TRUE, !.window = "on"]
<1>1. st.e \in Engine /\ HoldKeeps(st.e, st.p)
  BY HeldKnown
<1>2. \/ eng' = st.e /\ pend' = st.p /\ UNCHANGED <<cmdq, unsure, mqTodo>>
      \/ eng' = e
  BY Zenon DEF EnableOverride, mqFrame, Commit
<1> HIDE DEF st
<1>3. z \in Engine /\ ~z.incident /\ ~z.triggered
  BY <1>1 DEF Engine, Released
<1> HIDE DEF z
<1>4. ~e.incident /\ ~e.triggered /\ e.window = "on"
  BY <1>3 DEF Engine
<1> HIDE DEF e
<1> QED
  BY <1>1, <1>2, <1>4, KeptHandled DEF Handled, Latching, Owes

-----------------------------------------------------------------------------
(* The invariant: a close that is owed on a reconciled link is decided on,  *)
(* on its way with no CLEAR after it, or was done.                          *)
Locked == dev[target].rml \/ Pressed
Sure   == HasSet(hubTodo) \/ HasSet(mqTodo) \/ Backed(pend, air, cmdq, Locked)

Guarded == Owes(eng) /\ ~unsure /\ Ready /\ "connected" \notin Range(updq) => Sure

(* A valve that is locked is closed; the MQTT task lifts a lock only inside *)
(* a window.                                                                *)
RmlCloses  == \A v \in Valves : dev[v].rml => dev[v].pos = "closed"
OpenWindow == HasClear(mqTodo) => eng.window = "on"

GuardInv == Latching(eng) /\ RmlCloses /\ OpenWindow /\ Guarded
Guards   == Typed /\ GuardInv

LEMMA GuardGives == ASSUME Guards PROVE LeakGuarded
<1> SUFFICES ASSUME Threat, ~unsure, Ready, "connected" \notin Range(updq), ~Pressed
             PROVE  \/ dev[target].rml /\ dev[target].pos = "closed"
                    \/ OnItsWay("set")
  BY DEF LeakGuarded
<1>1. Sure /\ target \in Valves
  BY DEF Guards, GuardInv, Guarded, Threat, Owes, Typed, ChanTyped, HasTarget
<1>2. HasSet(hubTodo) \/ HasSet(mqTodo) \/ HasSet(cmdq) \/ HasSet(air) => OnItsWay("set")
  <2>1. /\ HasSet(hubTodo) => "set" \in Range(hubTodo)
        /\ HasSet(mqTodo) => "set" \in Range(mqTodo)
        /\ HasSet(cmdq) => "set" \in Range(cmdq)
        /\ HasSet(air) => "set" \in Range(air)
    BY SetInRange DEF Guards, Typed, ChanTyped, EngTyped, HubQueue, MqQueue, Queue, Airs
  <2> QED
    BY <2>1 DEF OnItsWay
<1>3. pend.rml = "set" => OnItsWay("set")
  BY DEF OnItsWay
<1>4. dev[target].rml => dev[target].pos = "closed"
  BY <1>1 DEF Guards, GuardInv, RmlCloses
<1> QED
  BY <1>1, <1>2, <1>3, <1>4 DEF Sure, Backed, Aims, Locked

-----------------------------------------------------------------------------
(* Step by step.                                                            *)

LEMMA NoticeKept ==
    ASSUME NEW u \in Notices
    PROVE  /\ \A n \in Updates : "connected" \in Range(u) => "connected" \in Range(Notified(u, n))
           /\ Len(u) < UpdDepth => "connected" \in Range(Notified(u, "connected"))
           /\ u # <<>> /\ "connected" \in Range(u) =>
                Head(u) = "connected" \/ "connected" \in Range(Tail(u))
<1>1. u \in Seq(Updates) /\ Len(u) \in Nat
  BY DEF Notices
<1>2. ASSUME NEW n \in Updates
      PROVE  Range(u) \subseteq Range(Append(u, n)) /\ n \in Range(Append(u, n))
  <2> DEFINE r == Append(u, n)
  <2>1. /\ r \in Seq(Updates) /\ Len(r) = Len(u) + 1
        /\ (\A i \in 1..Len(u) : r[i] = u[i]) /\ r[Len(u) + 1] = n
    BY <1>1, AppendProperties
  <2> HIDE DEF r
  <2>2. DOMAIN r = 1..(Len(u) + 1) /\ DOMAIN u = 1..Len(u)
    BY <2>1, <1>1
  <2> QED
    BY <2>1, <2>2, <1>1 DEF Range, r
<1>3. ASSUME u # <<>> PROVE Range(u) \subseteq {Head(u)} \cup Range(Tail(u))
  <2> DEFINE t == Tail(u)
  <2>1. /\ t \in Seq(Updates) /\ Len(t) = Len(u) - 1 /\ Head(u) = u[1]
        /\ \A i \in 1..Len(t) : t[i] = u[i + 1]
    BY <1>1, <1>3, HeadTailProperties
  <2> HIDE DEF t
  <2>2. DOMAIN t = 1..(Len(u) - 1) /\ DOMAIN u = 1..Len(u)
    BY <2>1, <1>1
  <2>3. ASSUME NEW i \in 1..Len(u), i # 1 PROVE u[i] \in Range(t)
    <3>1. i - 1 \in 1..(Len(u) - 1) /\ t[i - 1] = u[i]
      BY <2>1, <2>3, <1>1
    <3> QED
      BY <3>1, <2>2 DEF Range
  <2> QED
    BY <2>1, <2>2, <2>3 DEF Range, t
<1> QED
  BY <1>2, <1>3 DEF Notified, Updates

(* A hold of the mutex, by either task.                                     *)
LEMMA HandledGuarded ==
    ASSUME Guards, Typed', Handled, UNCHANGED <<target, rules, link, air, dev>>,
           hist'.rml = hist.rml,
           "connected" \in Range(updq) =>
             "connected" \in Range(updq') \/ (Owes(eng') /\ ~unsure' => Renews),
           (HasSet(hubTodo) \/ HasSet(mqTodo)) /\ Owes(eng') => HasSet(hubTodo') \/ HasSet(mqTodo')
    PROVE  Guarded'
<1> SUFFICES ASSUME Owes(eng'), ~unsure', Ready, "connected" \notin Range(updq') PROVE Sure'
  BY DEF Guarded, Owes, Window, HasTarget, Ready, LinkIsTarget
<1>1. Locked' <=> Locked
  BY DEF Locked, Pressed
<1>2. CASE Renews
  <2>1. CASE ~TrustsWrongly /\ Unpended /\ cmdq' = cmdq
    <3>1. dev[target].rml /\ ~OnItsWay("clear")
      BY <2>1 DEF TrustsWrongly
    <3>2. ~ClearComing
      BY <3>1, ClearOnItsWay DEF Guards
    <3>3. ~EndsClear(cmdq) /\ ~EndsClear(air) /\ pend.rml # "clear"
      BY <3>2 DEF ClearComing, Coming, HasClear, EndsClear
    <3>4. pend'.rml \in {"set", "none"}
      <4>1. pend'.rml # "clear"
        BY <3>3, <2>1 DEF Unpended
      <4>2. pend' \in Slots
        BY DEF Typed, ChanTyped
      <4> QED
        BY <4>1, <4>2 DEF Slots, RmlCmds
    <3> QED
      BY <3>1, <3>3, <3>4, <2>1, <1>1 DEF Sure, Backed, Aims, Locked
  <2> QED
    BY <2>1, <1>2 DEF Renews, Sure
<1>3. CASE ~Renews
  <2>1. Stays /\ "connected" \notin Range(updq)
    BY <1>3 DEF Handled
  <2>2. Sure
    BY <2>1 DEF Guards, GuardInv, Guarded, Stays
  <2> QED
    BY <2>1, <2>2, <1>1 DEF Sure, Stays
<1> QED
  BY <1>2, <1>3

LEMMA HubHoldGuard ==
    ASSUME Guards, Typed', Handled, WindowOnIn, hubFrame, hist'.rml = hist.rml, ~HasSet(hubTodo),
           "connected" \in Range(updq) =>
             "connected" \in Range(updq') \/ (Owes(eng') /\ ~unsure' => Renews)
    PROVE  GuardInv'
<1>1. Guarded'
  BY HandledGuarded DEF hubFrame
<1>2. OpenWindow'
  BY DEF Guards, GuardInv, OpenWindow, WindowOnIn, hubFrame
<1>3. Latching(eng')
  BY DEF Handled
<1>4. RmlCloses'
  BY DEF Guards, GuardInv, RmlCloses, hubFrame
<1> QED
  BY <1>1, <1>2, <1>3, <1>4 DEF GuardInv, Latching, Active, Window

(* What is left of the commands a task has to post.                         *)
LEMMA PostedGuard ==
    ASSUME Guards, UNCHANGED <<target, rules, link, air, dev, pend, eng, updq>>, hist'.rml = hist.rml,
           NEW c \in {"set", "close", "open", "connect", "disconnect"},
           cmdq' = Posted(cmdq, c) \/ (c # "set" /\ cmdq' = Append(cmdq, c)),
           unsure' = (unsure \/ SetDropped(c)),
           HasSet(hubTodo) \/ HasSet(mqTodo) => c = "set" \/ HasSet(hubTodo') \/ HasSet(mqTodo')
    PROVE  Guarded'
<1> SUFFICES ASSUME Owes(eng), ~unsure', Ready, "connected" \notin Range(updq) PROVE Sure'
  BY DEF Guarded, Owes, Window, HasTarget, Ready, LinkIsTarget
<1>0. ~unsure
  BY Zenon
<1>1. ~unsure /\ Sure
  BY <1>0 DEF Guards, GuardInv, Guarded
<1>2. Locked' <=> Locked
  BY DEF Locked, Pressed
<1>3. cmdq \in Queue /\ cmdq \in Seq(Cmds) /\ c \in Cmds
  BY DEF Guards, Typed, ChanTyped, Queue, Cmds, Writes, RmlCmds, ValveCmds
<1>4. CASE c = "set"
  <2>1. CanPost(cmdq) /\ cmdq' = Posted(cmdq, c)
    BY <1>4 DEF SetDropped
  <2>2. HasSet(cmdq') /\ ~EndsClear(cmdq')
    BY <2>1, <1>3, <1>4, LastOfPosted
  <2> QED
    BY <2>2 DEF Sure, Backed
<1>5. CASE c # "set"
  <2>1. (HasSet(cmdq') <=> HasSet(cmdq)) /\ (EndsClear(cmdq') <=> EndsClear(cmdq))
    <3>1. CASE cmdq' = Posted(cmdq, c)
      BY <3>1, <1>3, <1>5, LastOfPosted
    <3>2. CASE cmdq' = Append(cmdq, c)
      BY <3>2, <1>3, <1>5, LastOfAppend
    <3> QED
      BY <3>1, <3>2
  <2> QED
    BY <2>1, <1>1, <1>2, <1>5 DEF Sure, Backed
<1> QED
  BY <1>4, <1>5

LEMMA HubPostGuard == ASSUME Guards, HubPost PROVE GuardInv'
<1> DEFINE c == Head(hubTodo)
<1>1. /\ c \in {"set", "close", "connect"}
      /\ HasSet(hubTodo) <=> c = "set" \/ HasSet(Tail(hubTodo))
  <2>1. hubTodo \in Seq({"set", "close", "connect", "sync", "event"}) /\ hubTodo # <<>>
    BY DEF HubPost, Guards, Typed, EngTyped, HubQueue
  <2>2. c \in {"set", "close", "connect", "sync", "event"}
    BY <2>1, FirstAndRest
  <2> QED
    BY <2>1, <2>2, LastOfRest DEF HubPost
<1>2. /\ cmdq' = Posted(cmdq, c) /\ unsure' = (unsure \/ SetDropped(c))
      /\ hubTodo' = Tail(hubTodo)
      /\ UNCHANGED <<target, rules, link, air, dev, pend, eng, updq, hist, mqTodo>>
  BY DEF HubPost
<1> HIDE DEF c
<1>3. Guarded'
  BY <1>1, <1>2, PostedGuard
<1> QED
  BY <1>2, <1>3 DEF Guards, GuardInv, RmlCloses, OpenWindow, Latching, Active, Window

LEMMA ReportGuard == ASSUME Guards, NEW s \in Sensors, Report(s) PROVE GuardInv'
<1>1. Typed'
  BY ReportGood DEF Guards, Good
<1>2. Handled /\ WindowOnIn
  BY DryHandled, WetHandled DEF Report, Guards, GuardInv, Sources
<1>3. hubFrame /\ UNCHANGED <<hist, updq>> /\ ~HasSet(hubTodo)
  BY LastOfNone DEF Report, AtPass
<1> QED
  BY <1>1, <1>2, <1>3, HubHoldGuard

LEMMA ValveUpdateGuard == ASSUME Guards, ValveUpdate PROVE GuardInv'
<1>1. Typed'
  BY ValveUpdateGood DEF Guards, Good
<1>2. /\ hubFrame /\ updq # <<>> /\ updq' = Tail(updq) /\ ~HasSet(hubTodo)
      /\ hist'.rml = hist.rml
  BY LastOfNone, TrustedTyped DEF ValveUpdate, AtPass, Guards, Typed, EngTyped
<1>3. "connected" \in Range(updq) => Head(updq) = "connected" \/ "connected" \in Range(updq')
  BY <1>2, NoticeKept DEF Guards, Typed, ChanTyped
<1>4. \/ /\ Head(updq) = "leak" /\ UNCHANGED cmdq
         /\ EvaluateWet(Probe) \/ EvaluateDry(Probe)
      \/ Head(updq) = "connected" /\ Reconcile
      \/ ~LinkIsTarget /\ UNCHANGED <<eng, pend, cmdq, unsure>>
      \/ unsure' /\ UNCHANGED eng
  BY DEF ValveUpdate
<1>5. CASE /\ Head(updq) = "leak" /\ UNCHANGED cmdq
           /\ EvaluateWet(Probe) \/ EvaluateDry(Probe)
  <2>1. Handled /\ WindowOnIn
    BY <1>5, DryHandled, WetHandled DEF Guards, GuardInv, Sources
  <2> QED
    BY <2>1, <1>1, <1>2, <1>3, <1>5, HubHoldGuard
<1>6. CASE Head(updq) = "connected" /\ Reconcile
  <2>1. Latching(eng') /\ WindowOnIn /\ (Owes(eng') /\ ~unsure' => Renews)
    BY <1>6, ReconcileHandled DEF Guards, GuardInv
  <2> QED
    BY <2>1, <1>1, <1>2, HubHoldGuard DEF Handled
<1>7. CASE ~LinkIsTarget /\ UNCHANGED <<eng, pend, cmdq, unsure>>
  <2>1. ~Ready'
    BY <1>2, <1>7 DEF Ready, LinkIsTarget, HasTarget, hubFrame
  <2> QED
    BY <2>1, <1>2, <1>7 
       DEF Guards, GuardInv, Guarded, RmlCloses, OpenWindow, Latching, Active, Window, hubFrame
<1>8. CASE unsure' /\ UNCHANGED eng
  BY <1>2, <1>8 
     DEF Guards, GuardInv, Guarded, RmlCloses, OpenWindow, Latching, Active, Window, hubFrame
<1> QED
  BY <1>4, <1>5, <1>6, <1>7, <1>8

LEMMA TickGuard == ASSUME Guards, Tick PROVE GuardInv'
<1>1. Typed'
  BY TickGood DEF Guards, Good
<1>2. Handled /\ WindowOnIn
  BY TickHandled DEF Guards, GuardInv
<1>3. /\ hubFrame /\ UNCHANGED updq /\ ~HasSet(hubTodo) /\ hist'.rml = hist.rml
  BY LastOfNone, TrustedTyped DEF Tick, AtPass, Guards, Typed, EngTyped
<1> QED
  BY <1>1, <1>2, <1>3, HubHoldGuard

LEMMA ForgetGuard == ASSUME Guards, ForgetUnprovisioned PROVE GuardInv'
<1>1. Typed'
  BY ForgetGood DEF Guards, Good
<1>2. Handled /\ WindowOnIn
  BY ForgetHandled DEF Guards, GuardInv
<1>3. hubFrame /\ UNCHANGED <<hist, updq>> /\ ~HasSet(hubTodo)
  BY LastOfNone DEF ForgetUnprovisioned, AtPass
<1> QED
  BY <1>1, <1>2, <1>3, HubHoldGuard

LEMMA SyncGuard == ASSUME Guards, SyncValveDetectors PROVE GuardInv'
<1>1. Typed'
  BY SyncGood DEF Guards, Good
<1>2. Handled /\ WindowOnIn
  BY SyncHandled DEF Guards, GuardInv
<1>3. hubFrame /\ UNCHANGED <<hist, updq>> /\ ~HasSet(hubTodo)
  BY LastOfNone DEF SyncValveDetectors
<1> QED
  BY <1>1, <1>2, <1>3, HubHoldGuard

LEMMA HubGuard == ASSUME Guards, Hub PROVE GuardInv'
BY HubPostGuard, ReportGuard, ValveUpdateGuard, TickGuard, ForgetGuard, SyncGuard DEF Hub

(* The MQTT task.                                                           *)
LEMMA MqPostGuard == ASSUME Guards, MqPost PROVE GuardInv'
<1> DEFINE c == Head(mqTodo)
           C == Writes \cup {"connect", "disconnect"}
<1>1. mqTodo # <<>> /\ mqTodo \in Seq(C)
  BY DEF Guards, Typed, EngTyped, MqQueue, MqPost
<1>2. /\ cmdq' = Posted(cmdq, c) \/ (c = "disconnect" /\ cmdq' = Append(cmdq, c))
      /\ unsure' = (unsure \/ SetDropped(c))
      /\ mqTodo' = Tail(mqTodo)
      /\ UNCHANGED <<target, rules, link, air, dev, pend, eng, updq, hist, hubTodo>>
  BY DEF MqPost
<1>3. /\ c \in C
      /\ HasSet(mqTodo) <=> c = "set" \/ HasSet(Tail(mqTodo))
      /\ HasClear(Tail(mqTodo)) => HasClear(mqTodo)
      /\ c = "clear" => HasClear(mqTodo)
  <2> HIDE DEF C
  <2> QED
    BY <1>1, FirstAndRest, LastOfRest, ClearInRest
<1> HIDE DEF c
<1>4. Guarded'
  <2>1. CASE c = "clear"
    BY <2>1, <1>2, <1>3 DEF Guards, GuardInv, OpenWindow, Guarded, Owes, Window, HasTarget
  <2>2. CASE c # "clear"
    <3>1. c \in {"set", "close", "open", "connect", "disconnect"}
      BY <2>2, <1>3 DEF Writes, RmlCmds, ValveCmds
    <3> QED
      BY <3>1, <1>2, <1>3, PostedGuard
  <2> QED
    BY <2>1, <2>2
<1> QED
  BY <1>2, <1>3, <1>4 DEF Guards, GuardInv, RmlCloses, OpenWindow, Latching, Active, Window

LEMMA MqHoldGuard ==
    ASSUME Guards, Typed', Handled, UNCHANGED <<target, rules, link, air, dev, updq, hubTodo, hist>>,
           \/ WindowOnIn /\ mqTodo' = mqTodo
           \/ mqTodo = <<>> /\ mqTodo' \in {<<>>, CloseCmds}
    PROVE  GuardInv'
<1>1. (HasSet(hubTodo) \/ HasSet(mqTodo)) => HasSet(hubTodo') \/ HasSet(mqTodo')
  BY LastOfNone
<1>2. Guarded'
  BY <1>1, HandledGuarded
<1>3. OpenWindow'
  BY NoClearIn DEF Guards, GuardInv, OpenWindow, WindowOnIn
<1>4. Latching(eng')
  BY DEF Handled
<1>5. RmlCloses'
  BY DEF Guards, GuardInv, RmlCloses
<1> QED
  BY <1>2, <1>3, <1>4, <1>5 DEF GuardInv, Latching, Active, Window

LEMMA ResetGuard == ASSUME Guards, LeakReset PROVE GuardInv'
<1>1. Typed'
  BY LeakResetGood DEF Guards, Good
<1>2. Handled
  BY ResetHandled DEF Guards, GuardInv
<1>3. /\ UNCHANGED <<target, rules, link, air, dev, updq, hubTodo, hist>>
      /\ mqTodo = <<>> /\ mqTodo' = <<>>
  BY DEF LeakReset, MqFree, mqKeeps, mqFrame, mqStays
<1> QED
  BY <1>1, <1>2, <1>3, MqHoldGuard

LEMMA CancelGuard == ASSUME Guards, CancelOverride PROVE GuardInv'
<1>1. Typed'
  BY CancelGood DEF Guards, Good
<1>2. Handled
  BY CancelHandled DEF Guards, GuardInv
<1>3. /\ UNCHANGED <<target, rules, link, air, dev, updq, hubTodo, hist>>
      /\ mqTodo = <<>> /\ mqTodo' \in {<<>>, CloseCmds}
  BY CancelShape DEF CancelOverride, MqFree, mqKeeps, mqStays, Guards
<1> QED
  BY <1>1, <1>2, <1>3, MqHoldGuard

LEMMA EnableGuard == ASSUME Guards, EnableOverride PROVE GuardInv'
<1>1. Typed'
  BY EnableGood DEF Guards, Good
<1>2. /\ Handled
      /\ \/ WindowOnIn /\ mqTodo' = mqTodo
         \/ eng'.window = "on" /\ ~Owes(eng')
  BY EnableHandled DEF Guards, GuardInv
<1>3. UNCHANGED <<target, rules, link, air, dev, updq, hubTodo, hist>>
  BY DEF EnableOverride, mqKeeps, mqFrame, mqStays
<1>4. CASE WindowOnIn /\ mqTodo' = mqTodo
  BY <1>1, <1>2, <1>3, <1>4, MqHoldGuard
<1>5. CASE eng'.window = "on" /\ ~Owes(eng')
  <2>1. ~Owes(eng)'
    BY <1>3, <1>5 DEF Owes, HasTarget, Window
  <2> QED
    BY <2>1, <1>2, <1>3, <1>5
       DEF Guards, GuardInv, Guarded, OpenWindow, RmlCloses, Handled, Latching, Active, Window
<1> QED
  BY <1>2, <1>4, <1>5

LEMMA MqQuietGuard ==
    ASSUME Guards, EnableRequest \/ EnableCheck \/ \E c \in {"open", "close"} : ValveCommand(c)
    PROVE  GuardInv'
<1>1. /\ UNCHANGED <<target, rules, link, air, dev, pend, cmdq, eng, updq, hubTodo, hist, unsure>>
      /\ mqTodo = <<>>
  BY DEF EnableRequest, EnableCheck, ValveCommand, MqFree, mqKeeps, mqFrame, mqStays
<1>2. ~HasSet(mqTodo)
  BY <1>1, LastOfNone
<1>3. ~HasClear(mqTodo')
  <2>1. CASE \E c \in {"open", "close"} : ValveCommand(c)
    BY <2>1, NoClearIn DEF ValveCommand
  <2>2. CASE EnableRequest \/ EnableCheck
    BY <2>2, NoClearIn DEF EnableRequest, EnableCheck
  <2> QED
    BY <2>1, <2>2
<1>4. Guarded'
  BY <1>1, <1>2 DEF Guards, GuardInv, Guarded, Sure, Owes, Window, HasTarget, Ready, LinkIsTarget,
                    Locked, Pressed
<1> QED
  BY <1>1, <1>3, <1>4 DEF Guards, GuardInv, RmlCloses, OpenWindow, Latching, Active, Window

LEMMA RulesConfigGuard == ASSUME Guards, RulesConfig PROVE GuardInv'
<1>1. /\ UNCHANGED <<dev, eng, mqTodo>> /\ unsure' = (unsure \/ Active(eng))
  BY DEF RulesConfig, mqStays
<1>2. Guarded'
  BY <1>1 DEF Guards, GuardInv, Guarded, Owes, Latching, Active
<1> QED
  BY <1>1, <1>2 DEF Guards, GuardInv, RmlCloses, OpenWindow, Latching, Active, Window

LEMMA SensorGuard == ASSUME Guards, NEW s \in Sensors, SensorChange(s) PROVE GuardInv'
<1>1. /\ UNCHANGED <<target, rules, link, air, dev, cmdq, updq, hubTodo, mqTodo, hist, unsure>>
      /\ mqTodo = <<>>
  BY DEF SensorChange, MqFree, mqFrame, mqStays
<1>2. \/ UNCHANGED <<eng, pend>>
      \/ ~eng'.incident /\ ~eng'.triggered
  <2>1. CASE ResetAll(pend)
    BY <2>1 DEF ResetAll, Fresh, Guards, Typed, EngTyped, Engine
  <2> QED
    BY <2>1 DEF SensorChange
<1>3. Guarded' /\ Latching(eng)'
  BY <1>1, <1>2 DEF Guards, GuardInv, Guarded, Sure, Owes, Window, HasTarget, Ready, LinkIsTarget,
                    Locked, Pressed, Latching, Active
<1> QED
  BY <1>1, <1>3, NoClearIn DEF Guards, GuardInv, RmlCloses, OpenWindow

LEMMA ExchangeGuard ==
    ASSUME Guards, NEW v \in Valves \cup {NoValve}, ValveChange(v)
    PROVE  GuardInv'
<1>1. /\ target' = v /\ UNCHANGED <<link, dev>> /\ unsure' = (unsure \/ v = link.peer)
      /\ mqTodo' \in {<<"connect">>, <<"disconnect">>}
  BY DEF ValveChange, mqStays
<1>2. ~HasClear(mqTodo')
  BY <1>1, NoClearIn
<1>3. Guarded'
  BY <1>1 DEF Guarded, Ready, LinkIsTarget
<1>4. eng' = eng \/ (~eng'.incident /\ ~eng'.triggered)
  <2>1. CASE ResetAll(NoPend)
    BY <2>1 DEF ResetAll, Fresh, Guards, Typed, EngTyped, Engine
  <2> QED
    BY <2>1 DEF ValveChange
<1> QED
  BY <1>1, <1>2, <1>3, <1>4
     DEF Guards, GuardInv, RmlCloses, OpenWindow, Latching, Active, Window

LEMMA MqttGuard == ASSUME Guards, Mqtt PROVE GuardInv'
<1>1. CASE ValveCommand("open") \/ ValveCommand("close")
  BY <1>1, MqQuietGuard
<1>2. CASE ~(ValveCommand("open") \/ ValveCommand("close"))
  BY <1>2, MqPostGuard, ResetGuard, CancelGuard, MqQuietGuard, EnableGuard, RulesConfigGuard,
     SensorGuard, ExchangeGuard, Zenon DEF Mqtt
<1> QED
  BY <1>1, <1>2

(* The channel.                                                             *)
LEMMA SureLocked ==
    ASSUME NEW q, NEW p, NEW a, NEW k, NEW l, k => l, Backed(p, a, q, k)
    PROVE  Backed(p, a, q, l)
BY DEF Backed, Aims

(* A step that leaves the engine alone.                                     *)
LEMMA ChanGuard ==
    ASSUME Guards, engHolds, RmlCloses', Guarded'
    PROVE  GuardInv'
BY DEF Guards, GuardInv, OpenWindow, Latching, Active, Window, engHolds

LEMMA NoLinkGuard == ASSUME Guards, engHolds, UNCHANGED dev, ~Ready' PROVE GuardInv'
<1>1. RmlCloses' /\ Guarded'
  BY DEF Guards, GuardInv, RmlCloses, Guarded
<1> QED
  BY <1>1, ChanGuard

LEMMA TakeCmdGuard == ASSUME Guards, BleTakeCmd PROVE GuardInv'
<1>1. TakeCmd /\ engHolds /\ UNCHANGED <<unsure, hist>>
  BY DEF BleTakeCmd, engKeeps, Quiet
<1>2. UNCHANGED <<target, dev, updq>> /\ link' \in {link, [link EXCEPT !.term = TRUE]}
  BY <1>1, Zenon DEF TakeCmd, TakeWrite
<1>3. link'.peer = link.peer /\ link'.stage = link.stage
  BY <1>2 DEF Guards, Typed, ChanTyped, Links, NoLink
<1>4. Guarded'
  <2> SUFFICES ASSUME Owes(eng), ~unsure, Ready, "connected" \notin Range(updq) PROVE Sure'
    BY <1>1, <1>2, <1>3 DEF Guarded, Owes, Window, HasTarget, Ready, LinkIsTarget, engHolds
  <2>1. Sure
    BY DEF Guards, GuardInv, Guarded
  <2>2. Locked' <=> Locked
    BY <1>1, <1>2 DEF Locked, Pressed
  <2>3. ChanTyped /\ HasTarget
    BY DEF Guards, Typed, Owes
  <2>4. CASE Backed(pend, air, cmdq, Locked)
    <3> DEFINE k == Locked
    <3>1. Locked' <=> k
      BY <2>2
    <3> HIDE DEF k
    <3>2. Backed(pend, air, cmdq, k)
      BY <2>4 DEF k
    <3>3. Backed(pend', air', cmdq', k)
      BY <1>1, <2>3, <3>2, TakeCmdBacked
    <3>4. Backed(pend', air', cmdq', Locked')
      BY <3>1, <3>3, SureLocked
    <3> QED
      BY <3>4 DEF Sure
  <2> QED
    BY <2>1, <2>4, <1>1 DEF Sure, engHolds
<1>5. RmlCloses'
  BY <1>2 DEF Guards, GuardInv, RmlCloses
<1> QED
  BY <1>1, <1>4, <1>5, ChanGuard

LEMMA LinkUpGuard == ASSUME Guards, BleLinkUp PROVE GuardInv'
<1>1. engHolds /\ UNCHANGED dev /\ ~Ready'
  BY DEF BleLinkUp, LinkUp, engKeeps, Ready
<1> QED
  BY <1>1, NoLinkGuard

LEMMA DropGuard == ASSUME Guards, LinkDrop, engHolds PROVE GuardInv'
<1>1. UNCHANGED dev /\ ~Ready'
  BY DEF LinkDrop, Unlink, Ready, NoLink
<1> QED
  BY <1>1, NoLinkGuard

(* A link that is set up is to be reconciled, unless its CONNECTED was      *)
(* lost.                                                                    *)
LEMMA SetupDoneGuard == ASSUME Guards, BleSetupDone PROVE GuardInv'
<1>1. SetupDone /\ engHolds /\ unsure' = (unsure \/ (LinkIsTarget /\ Len(updq) >= UpdDepth))
  BY DEF BleSetupDone
<1>2. UNCHANGED <<target, dev>> /\ link' = [link EXCEPT !.stage = "ready"]
  BY <1>1 DEF SetupDone
<1>3. link'.peer = link.peer
  BY <1>2 DEF Guards, Typed, ChanTyped, Links, NoLink
<1>4. CASE ~LinkIsTarget
  BY <1>1, <1>2, <1>3, <1>4, NoLinkGuard DEF Ready, LinkIsTarget, HasTarget
<1>5. CASE LinkIsTarget
  <2>1. updq' = Notified(Notified(updq, "connected"), "leak") /\ updq \in Notices
    BY <1>1, <1>5 DEF SetupDone, Guards, Typed, ChanTyped
  <2>2. Notified(updq, "connected") \in Notices /\ "connected" \in Updates /\ "leak" \in Updates
    BY <2>1, NoticeTyped DEF Updates
  <2>3. Len(updq) < UpdDepth => "connected" \in Range(updq')
    BY <2>1, <2>2, NoticeKept
  <2>4. Len(updq) \in Nat /\ UpdDepth \in Nat
    BY <2>1 DEF Notices
  <2>5. ~unsure' => ~(Len(updq) >= UpdDepth)
    BY <1>1, <1>5, Zenon
  <2>6. ~(Len(updq) >= UpdDepth) => Len(updq) < UpdDepth
    BY <2>4
  <2>7. Guarded'
    BY <2>3, <2>5, <2>6 DEF Guarded
  <2>8. RmlCloses'
    BY <1>2 DEF Guards, GuardInv, RmlCloses
  <2> QED
    BY <2>7, <2>8, <1>1, ChanGuard
<1> QED
  BY <1>4, <1>5

(* A lock that is set closes the valve, and none opens behind it.           *)
LEMMA ObeyedCloses ==
    ASSUME NEW d \in Device, NEW c \in Writes, d.rml => d.pos = "closed"
    PROVE  /\ Obeyed(d, c).rml => Obeyed(d, c).pos = "closed"
           /\ c = "set" => Obeyed(d, c).rml
           /\ c \notin RmlCmds => Obeyed(d, c).rml = d.rml
BY DEF Device, Writes, RmlCmds, ValveCmds, Obeyed

LEMMA DeliverGuard == ASSUME Guards, BleDeliver PROVE GuardInv'
<1> DEFINE v == link.peer
           c == Head(air)
           n == Obeyed(dev[v], c)
           b == IF c = "set" THEN c
                ELSE IF c = "clear" /\ dev[v].rml THEN "hub" ELSE hist.rml[v]
<1>1. /\ Deliver /\ engHolds /\ UNCHANGED unsure
      /\ hist' = [hist EXCEPT !.rml[v] = b, !.misled = @ \cup Unheard(v)]
  BY Zenon DEF BleDeliver, LockIs, engKeeps
<1>2. /\ dev' = [dev EXCEPT ![v] = n] /\ air # <<>> /\ air' = Tail(air)
      /\ UNCHANGED <<target, cmdq, pend, link, updq>>
  BY <1>1, DeliverShape
<1>3. c \in Writes /\ air \in Seq(Writes)
  <2>1. air # <<>> /\ air \in Seq(Writes)
    BY <1>2 DEF Guards, Typed, ChanTyped, Airs
  <2> QED
    BY <2>1, FirstAndRest
<1>4. /\ HasSet(air) <=> c = "set" \/ HasSet(air')
      /\ EndsClear(air) <=> EndsClear(air') \/ (c = "clear" /\ ~HasSet(air'))
  BY <1>2, <1>3, LastOfRest
<1>5. v \in Valves => /\ n.rml => n.pos = "closed"
                      /\ c = "set" => n.rml
                      /\ c \notin RmlCmds => n.rml = dev[v].rml
  <2>1. v \in Valves => dev[v] \in Device /\ (dev[v].rml => dev[v].pos = "closed")
    BY DEF Guards, GuardInv, RmlCloses, Typed, ChanTyped
  <2> QED
    BY <1>3, <2>1, ObeyedCloses
<1>6. v \in Valves /\ c \notin RmlCmds => hist'.rml[v] = hist.rml[v]
  <2>1. c \notin RmlCmds => b = hist.rml[v]
    BY DEF RmlCmds
  <2>2. hist \in Hist
    BY DEF Guards, Typed, EngTyped
  <2> HIDE DEF b, v, c
  <2> QED
    BY <1>1, <2>1, <2>2 DEF Hist
<1> HIDE DEF c, n, b
<1>7. RmlCloses'
  BY <1>2, <1>5 DEF Guards, GuardInv, RmlCloses, Typed, ChanTyped
<1>8. Guarded'
  <2> SUFFICES ASSUME Owes(eng), ~unsure, Ready, "connected" \notin Range(updq) PROVE Sure'
    BY <1>1, <1>2 DEF Guarded, Owes, Window, HasTarget, Ready, LinkIsTarget, engHolds
  <2>1. Sure /\ v = target /\ v \in Valves
    BY DEF Guards, GuardInv, Guarded, Ready, LinkIsTarget, HasTarget, Typed, ChanTyped
  <2>2. dev'[target] = n
    BY <1>2, <2>1 DEF Guards, Typed, ChanTyped
  <2>3. CASE Backed(pend, air, cmdq, Locked)
    <3>1. CASE c = "set"
      <4>1. Locked'
        BY <1>2, <1>5, <2>1, <2>2, <3>1 DEF Locked
      <4>2. Backed(pend, air', cmdq, Locked')
        BY <4>1, <1>4, <2>3 DEF Backed, Aims
      <4> QED
        BY <4>2, <1>2 DEF Sure
    <3>2. CASE c = "clear"
      <4>1. Backed(pend, air', cmdq, Locked')
        BY <3>2, <1>4, <2>3 DEF Backed, Aims
      <4> QED
        BY <4>1, <1>2 DEF Sure
    <3>3. CASE c \notin RmlCmds
      <4>1. Locked => Locked'
        BY <1>2, <1>5, <1>6, <2>1, <2>2, <3>3 DEF Locked, Pressed
      <4>2. c # "set" /\ c # "clear"
        BY <3>3 DEF RmlCmds
      <4>3. Backed(pend, air', cmdq, Locked)
        BY <4>2, <1>4, <2>3 DEF Backed, Aims
      <4>4. Backed(pend, air', cmdq, Locked')
        BY <4>1, <4>3, SureLocked
      <4> QED
        BY <4>4, <1>2 DEF Sure
    <3> QED
      BY <3>1, <3>2, <3>3 DEF RmlCmds
  <2> QED
    BY <2>1, <2>3, <1>1 DEF Sure, engHolds
<1> QED
  BY <1>1, <1>7, <1>8, ChanGuard

(* A valve that changes on its own loses its lock only to its button or to  *)
(* its power.                                                               *)
LEMMA ValveAloneGuard ==
    ASSUME Guards, engHolds, UNCHANGED <<target, cmdq, pend, unsure>>, RmlCloses',
           HasTarget /\ Locked => Locked',
           Ready' => /\ Ready /\ air' = air
                     /\ "connected" \in Range(updq) => "connected" \in Range(updq')
    PROVE  GuardInv'
<1>1. Guarded'
  <2> SUFFICES ASSUME Owes(eng), ~unsure, Ready', "connected" \notin Range(updq') PROVE Sure'
    BY DEF Guarded, Owes, Window, HasTarget, engHolds
  <2>1. Sure /\ HasTarget
    BY DEF Guards, GuardInv, Guarded, Owes
  <2>2. Backed(pend, air, cmdq, Locked) => Backed(pend', air', cmdq', Locked')
    BY <2>1, SureLocked
  <2> QED
    BY <2>1, <2>2 DEF Sure, engHolds
<1> QED
  BY <1>1, ChanGuard

LEMMA LockedKept ==
    ASSUME Guards, NEW v \in Valves, NEW by \in {"press", "power"}, RmlCleared(v, by),
           UNCHANGED target, NEW n, dev' = [dev EXCEPT ![v] = n]
    PROVE  HasTarget /\ Locked => Locked'
<1>1. hist'.rml = [hist.rml EXCEPT ![v] = IF dev[v].rml /\ ~dev'[v].rml THEN by ELSE @]
  BY ClearedBy DEF Guards
<1>2. HasTarget => target \in Valves
  BY DEF Guards, Typed, ChanTyped, HasTarget
<1>3. hist \in Hist
  BY DEF Guards, Typed, EngTyped
<1>4. \A w \in Valves : hist'.rml[w] = IF w = v /\ dev[v].rml /\ ~dev'[v].rml THEN by
                                       ELSE hist.rml[w]
  BY <1>1, <1>3 DEF Hist
<1>5. \A w \in Valves : w # v => dev'[w] = dev[w]
  BY DEF Guards, Typed, ChanTyped
<1> QED
  BY <1>2, <1>4, <1>5 DEF Locked, Pressed

LEMMA PressGuard == ASSUME Guards, NEW v \in Valves, ButtonPress(v) PROVE GuardInv'
<1> DEFINE n == IF dev[v].pos = "closed" THEN [dev[v] EXCEPT !.pos = "open", !.rml = FALSE]
                                         ELSE [dev[v] EXCEPT !.pos = "closed"]
<1>1. /\ dev' = [dev EXCEPT ![v] = n] /\ RmlCleared(v, "press")
      /\ UNCHANGED <<target, link, air, updq, cmdq, pend, unsure>> /\ engHolds
  BY DEF ButtonPress, Press, engKeeps
<1>2. n.rml => n.pos = "closed"
  BY DEF Guards, Typed, ChanTyped, Device
<1> HIDE DEF n
<1>3. RmlCloses'
  BY <1>1, <1>2 DEF Guards, GuardInv, RmlCloses, Typed, ChanTyped
<1>4. HasTarget /\ Locked => Locked'
  BY <1>1, LockedKept
<1> QED
  BY <1>1, <1>3, <1>4, ValveAloneGuard DEF Ready, LinkIsTarget, HasTarget

LEMMA ProbeGuard == ASSUME Guards, NEW v \in Valves, ProbeChange(v) PROVE GuardInv'
<1> DEFINE n == [dev[v] EXCEPT !.flood = ~@, !.pos = IF dev[v].flood THEN @ ELSE "closed"]
<1>1. /\ dev' = [dev EXCEPT ![v] = n] /\ engHolds
      /\ updq' \in {updq, Notified(updq, "leak")}
      /\ UNCHANGED <<target, link, air, cmdq, pend, unsure, hist>>
  BY DEF ProbeChange, FloodChange, engKeeps
<1>2. n.rml = dev[v].rml /\ (dev[v].pos = "closed" => n.pos = "closed")
  BY DEF Guards, Typed, ChanTyped, Device
<1> HIDE DEF n
<1>3. RmlCloses'
  BY <1>1, <1>2 DEF Guards, GuardInv, RmlCloses, Typed, ChanTyped
<1>4. HasTarget /\ Locked => Locked'
  BY <1>1, <1>2 DEF Locked, Pressed, HasTarget, Guards, Typed, ChanTyped
<1>5. "connected" \in Range(updq) => "connected" \in Range(updq')
  BY <1>1, NoticeKept DEF Updates, Guards, Typed, ChanTyped
<1> QED
  BY <1>1, <1>3, <1>4, <1>5, ValveAloneGuard DEF Ready, LinkIsTarget, HasTarget

LEMMA PowerGuard == ASSUME Guards, NEW v \in Valves, ValvePower(v) PROVE GuardInv'
<1>1. /\ PowerLoss(v) /\ RmlCleared(v, "power") /\ engHolds
      /\ UNCHANGED <<target, updq, cmdq, pend, unsure>>
  BY DEF ValvePower, PowerLoss, engKeeps
<1>2. PICK kept \in BOOLEAN :
         dev' = [dev EXCEPT ![v].rml = @ /\ kept,
                            ![v].pos = IF dev[v].rml /\ kept THEN "closed" ELSE @]
  BY <1>1 DEF PowerLoss
<1>3. PICK n : dev' = [dev EXCEPT ![v] = n] /\ (n.rml => n.pos = "closed")
  <2> DEFINE n == [dev[v] EXCEPT !.rml = @ /\ kept,
                                 !.pos = IF dev[v].rml /\ kept THEN "closed" ELSE @]
  <2>1. dev' = [dev EXCEPT ![v] = n]
    BY <1>2 DEF Guards, Typed, ChanTyped
  <2>2. n.rml => n.pos = "closed"
    BY DEF Guards, Typed, ChanTyped, Device
  <2> QED
    BY <2>1, <2>2
<1>4. RmlCloses'
  BY <1>3 DEF Guards, GuardInv, RmlCloses, Typed, ChanTyped
<1>5. HasTarget /\ Locked => Locked'
  BY <1>1, <1>3, LockedKept
<1>6. Ready' => Ready /\ air' = air
  BY <1>1 DEF PowerLoss, Unlink, NoLink, Ready, LinkIsTarget, HasTarget
<1> QED
  BY <1>1, <1>4, <1>5, <1>6, ValveAloneGuard

(* Timers and restarts.  A window ends with no CLEAR left to be posted.     *)
LEMMA TimersGuard == ASSUME Guards, Prompt = TRUE, Timers \/ WindowDue PROVE GuardInv'
<1> DEFINE short == {[eng EXCEPT !.grace = FALSE], [eng EXCEPT !.cooling = FALSE],
                     [eng EXCEPT !.allclear = "due"]}
           due   == [eng EXCEPT !.window = "due"]
<1>1. PICK e : Elapse(e) /\ (e \in short \/ (eng.window = "on" /\ e = due))
  BY Zenon DEF Timers, GraceEnds, CooldownEnds, ClearDue, WindowDue
<1>2. /\ eng' = e /\ UNCHANGED <<hist, unsure, hubTodo, mqTodo, rules>>
      /\ UNCHANGED <<target, dev, link, updq, cmdq, pend, air>>
  BY <1>1 DEF Elapse, chanVars
<1>3. eng \in Engine
  BY DEF Guards, Typed, EngTyped
<1>4. ~HasClear(mqTodo)
  <2>1. Range(mqTodo) \cap (Writes \cup {"replay"}) = {}
    BY Zenon DEF Timers, GraceEnds, CooldownEnds, ClearDue, WindowDue, TimerRuns, UnderWay
  <2>2. "clear" \notin Range(mqTodo)
    BY <2>1 DEF Writes, RmlCmds
  <2> QED
    BY <2>2, ClearInRange DEF Guards, Typed, EngTyped, MqQueue
<1>5. Latching(e) /\ (Owes(e) => Owes(eng))
  <2>1. Latching(eng)
    BY DEF Guards, GuardInv
  <2>2. CASE e \in short
    <3>1. Alarm(e) = Alarm(eng)
      BY <2>2, <1>3 DEF Alarm, Engine
    <3> QED
      BY <3>1, <2>1, SameAlarm
  <2>3. CASE eng.window = "on" /\ e = due
    <3>1. eng.window = "on" /\ e.window = "due" /\ e.triggered = eng.triggered
      BY <2>3, <1>3 DEF Engine
    <3> QED
      BY <3>1, <2>1 DEF Latching, Owes, Window
  <2> QED
    BY <2>2, <2>3, <1>1
<1>6. Guarded'
  BY <1>2, <1>5 DEF Guards, GuardInv, Guarded, Sure, Owes, Window, HasTarget, Ready, LinkIsTarget,
                    Locked, Pressed
<1> QED
  BY <1>2, <1>4, <1>5, <1>6 DEF Guards, GuardInv, RmlCloses, OpenWindow, Latching, Active, Window

LEMMA RebootGuard == ASSUME Guards, Reboot PROVE GuardInv'
<1>1. UNCHANGED dev /\ ~Ready' /\ mqTodo' = <<>>
  BY DEF Reboot, Unlink, NoLink, Ready
<1>2. ~eng'.triggered
  BY DEF Reboot, Fresh, Guards, Typed, EngTyped, Engine
<1> QED
  BY <1>1, <1>2, NoClearIn DEF Guards, GuardInv, RmlCloses, OpenWindow, Latching, Guarded

LEMMA StillGuard == ASSUME Guards, UNCHANGED <<chanVars, eng, rules, hubTodo, mqTodo, hist, unsure>>
                    PROVE  GuardInv'
BY DEF chanVars, Guards, GuardInv, Guarded, Sure, Owes, Window, HasTarget, Ready, LinkIsTarget,
       Locked, Pressed, RmlCloses, OpenWindow, Latching, Active

LEMMA StepGuard == ASSUME Guards, Prompt = TRUE, [Next]_vars PROVE GuardInv'
<1>1. CASE Hub \/ Mqtt
  BY <1>1, HubGuard, MqttGuard
<1>2. CASE Ble
  BY <1>2, TakeCmdGuard, LinkUpGuard, SetupDoneGuard, DeliverGuard, DropGuard, Zenon
     DEF Ble, BleTerminated, engKeeps
<1>3. CASE Timers
  BY <1>3, TimersGuard
<1>4. CASE Outside
  <2>1. ASSUME NEW s \in Sensors, WaterChange(s) PROVE GuardInv'
    BY <2>1, StillGuard DEF WaterChange
  <2>2. CASE BleLinkLost
    BY <2>2, DropGuard DEF BleLinkLost, engKeeps
  <2> QED
    BY <1>4, <2>1, <2>2, TimersGuard, RebootGuard, PressGuard, ProbeGuard, PowerGuard, Zenon
       DEF Outside
<1>5. CASE UNCHANGED vars
  BY <1>5, StillGuard DEF vars, chanVars, engVars
<1> QED
  BY <1>1, <1>2, <1>3, <1>4, <1>5 DEF Next

-----------------------------------------------------------------------------
(* The theorems.                                                            *)

LEMMA StepGood == ASSUME Typed, [Next]_vars PROVE Good
<1>1. CASE Hub \/ Mqtt
  BY <1>1, HubGood, MqttGood
<1>2. CASE Ble
  BY <1>2, TakeCmdGood, LinkUpGood, SetupDoneGood, DeliverGood, TerminatedGood, Zenon DEF Ble
<1>3. CASE Timers
  BY <1>3, TimersGood
<1>4. CASE Outside
  BY <1>4, LinkLostGood, TimersGood, RebootGood, WaterGood, PressGood, ProbeGood, PowerGood,
     Zenon DEF Outside
<1>5. CASE UNCHANGED vars
  <2>1. Typed'
    BY <1>5 DEF vars, chanVars, engVars, Typed, ChanTyped, EngTyped
  <2>2. PastInv => PastInv'
    BY <1>5, IdlePast DEF vars, chanVars, engVars
  <2> QED
    BY <2>1, <2>2 DEF Good
<1> QED
  BY <1>1, <1>2, <1>3, <1>4, <1>5 DEF Next

LEMMA InitGood == Init => Typed /\ PastInv
<1> SUFFICES ASSUME Init PROVE Typed /\ PastInv
  OBVIOUS
<1>1. ChanTyped
  BY ChanInitTyped DEF Init
<1>2. eng \in Engine
  BY DEF Init, Engine
<1>3. hist \in Hist
  BY DEF Init, Hist
<1>4. EngTyped
  <2>1. <<>> \in HubQueue /\ <<>> \in MqQueue
    BY HubLists, MqLists
  <2>2. [auto |-> TRUE, mask |-> Sources] \in [auto : BOOLEAN, mask : SUBSET Sources]
    OBVIOUS
  <2>3. 0 \in 0..MaxEvents
    OBVIOUS
  <2>4. target \in Valves \cup {NoValve}
    BY <1>1 DEF ChanTyped
  <2> QED
    BY <1>2, <1>3, <2>1, <2>2, <2>3, <2>4 DEF Init, EngTyped
<1>5. \A v \in Valves : ~dev[v].rml
  BY DEF Init, ChanInit
<1>6. PastInv
  BY <1>5 DEF Init, ChanInit, EmptyCache, PastInv, LockKnown, CacheKnown, LoopKnows, OnlyMembers,
              NotedHere, Noted
<1> QED
  BY <1>1, <1>4, <1>6 DEF Typed

LEMMA UnsureTyped ==
    ASSUME unsure \in BOOLEAN, [Next]_vars
    PROVE  unsure' \in BOOLEAN
<1> DEFINE old == unsure' = unsure
           now == unsure' \in BOOLEAN
<1>1. old => now
  OBVIOUS
<1>2. ASSUME NEW s, EvaluateWet(s) PROVE now
  BY <1>2 DEF EvaluateWet, TrustsWrongly
<1>3. Reconcile => now
  BY <1>1 DEF Reconcile, TrustsWrongly
<1>4. CASE Hub
  <2>1. CASE HubPost
    BY <2>1 DEF HubPost
  <2>2. ASSUME NEW s \in Sensors, Report(s) PROVE now
    BY <2>2, <1>2 DEF Report, EvaluateDry
  <2>3. CASE ValveUpdate
    BY <2>3, <1>2, <1>3 DEF ValveUpdate, EvaluateDry
  <2>4. CASE Tick
    BY <2>4, <1>1, Zenon DEF Tick
  <2>5. CASE ForgetUnprovisioned \/ SyncValveDetectors
    BY <2>5 DEF ForgetUnprovisioned, SyncValveDetectors
  <2> QED
    BY <1>4, <2>1, <2>2, <2>3, <2>4, <2>5 DEF Hub
<1>5. CASE Mqtt
  <2>1. CASE MqPost \/ CancelOverride \/ RulesConfig
    BY <2>1, Zenon DEF MqPost, CancelOverride, RulesConfig
  <2>2. ASSUME NEW v, ValveChange(v) PROVE now
    BY <2>2 DEF ValveChange
  <2>3. CASE ~(MqPost \/ CancelOverride \/ RulesConfig \/ \E v \in Valves \cup {NoValve} : ValveChange(v))
    BY <2>3, <1>5, Zenon DEF Mqtt, LeakReset, EnableRequest, EnableCheck, EnableOverride, ValveCommand,
                      SensorChange, mqFrame
  <2> QED
    BY <2>1, <2>2, <2>3
<1>6. CASE Ble \/ Timers \/ Outside \/ UNCHANGED vars
  BY <1>6
     DEF Ble, BleTakeCmd, BleLinkUp, BleSetupDone, BleDeliver, BleTerminated, BleLinkLost, engKeeps,
         Timers, GraceEnds, CooldownEnds, ClearDue, Elapse, Outside, WindowDue, Reboot, WaterChange,
         ButtonPress, ProbeChange, ValvePower, vars, engVars
<1> QED
  BY <1>4, <1>5, <1>6 DEF Next

(* Type correctness of the engine and of the channel under it: no hold, no  *)
(* command and no restart leaves a field, a queue or a slot with a value    *)
(* or a length the code has no place for.                                   *)
THEOREM RulesTypeCorrect == Spec => []TypeOK
<1> DEFINE IInv == Typed /\ unsure \in BOOLEAN
<1>1. Init => IInv
  BY InitGood DEF Init
<1>2. IInv /\ [Next]_vars => IInv'
  BY StepGood, UnsureTyped DEF Good
<1>3. IInv => TypeOK
  BY AllTypes
<1> QED
  BY <1>1, <1>2, <1>3, PTL DEF Spec

(* A device-set change leaves nothing behind once the hub loop has applied  *)
(* it (rules_engine_forget_unprovisioned(), valve_replaced_locked()): the   *)
(* sources that count are provisioned, and a lock noted as seen is one of   *)
(* the provisioned valve, on which RMLEAK was set at some time.             *)
THEOREM NothingOfThePastHolds == Spec => []NothingOfThePast
<1>1. Init => Typed /\ PastInv
  BY InitGood
<1>2. Typed /\ PastInv /\ [Next]_vars => (Typed /\ PastInv)'
  BY StepGood DEF Good
<1>3. Typed /\ PastInv => NothingOfThePast
  BY PastGives
<1> QED
  BY <1>1, <1>2, <1>3, PTL DEF Spec

(* A tick takes a clear RMLEAK for a press of the valve's button only if    *)
(* the valve cleared it itself (rules_engine_tick(), lines 2123-2163), but  *)
(* for the ways PressIsReal names.                                          *)
THEOREM PressIsRealHolds == Spec => PressIsReal
<1>1. Init => Known
  <2>1. Init => Typed /\ PastInv
    BY InitGood
  <2>2. Init => PressInv
    <3> SUFFICES ASSUME Init PROVE PressInv
      OBVIOUS
    <3>1. ~eng.owed /\ ~eng.confirmed /\ ~cache.rml
      BY DEF Init, ChanInit, EmptyCache
    <3>2. \A v \in Valves : ~dev[v].rml /\ hist.rml[v] = "none"
      BY DEF Init, ChanInit
    <3> QED
      BY <3>1, <3>2 DEF PressInv, NotBoth, ClearTold, HistLock, CacheTrue, NotedTrue, Noted
  <2> QED
    BY <2>1, <2>2 DEF Known
<1>2. Known /\ [Next]_vars => Known'
  BY StepGood, StepPress DEF Known, Good
<1>3. Known /\ [Next]_vars => [WindowByTick => Pressed \/ hist.misled \cap {"seen", "unheard", "unseen"} # {}
                                           \/ devset]_vars
  <2> SUFFICES ASSUME Known, [Next]_vars, WindowByTick, ~devset,
                      hist.misled \cap {"seen", "unheard", "unseen"} = {}
               PROVE  Pressed
    OBVIOUS
  <2>1. Tick
    BY OnlyTick DEF Known
  <2> QED
    BY <2>1, RealPress DEF WindowByTick
<1> QED
  BY <1>1, <1>2, <1>3, PTL DEF Spec, PressIsReal

(* A latched leak is never left to a valve that is not locked and that      *)
(* nothing is going to lock (evaluate_leak(), rules_engine_on_valve_        *)
(* connected(), the re-arm of rules_engine_tick()), but for the ways        *)
(* LeakGuarded names.  A lock that is set, lost and set again, and closes   *)
(* decided on by both tasks, are all in it.  Prompt is what keeps a window  *)
(* from ending (24 h) while the CLEAR that opened it is still to be posted. *)
THEOREM LeakGuardedHolds == ASSUME Prompt = TRUE PROVE Spec => []LeakGuarded
<1>1. Init => Guards
  <2> SUFFICES ASSUME Init PROVE Guards
    OBVIOUS
  <2>1. Typed
    BY InitGood
  <2>2. ~eng.incident /\ ~eng.triggered /\ mqTodo = <<>> /\ \A v \in Valves : ~dev[v].rml
    BY DEF Init, ChanInit
  <2> QED
    BY <2>1, <2>2, NoClearIn
       DEF Guards, GuardInv, Guarded, Owes, Latching, RmlCloses, OpenWindow
<1>2. Guards /\ [Next]_vars => Guards'
  BY StepGood, StepGuard DEF Guards, Good
<1>3. Guards => LeakGuarded
  BY GuardGives
<1> QED
  BY <1>1, <1>2, <1>3, PTL DEF Spec

=============================================================================
