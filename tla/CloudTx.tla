------------------------------ MODULE CloudTx -------------------------------
(***************************************************************************)
(* What the hub tells the cloud (main/iothub/app_iothub.c, cloud_tx;       *)
(* main/telemetry/telemetry_v2.c).  iothub_task builds events, lifecycles  *)
(* and twin reports and never waits; cloud_tx alone publishes them, keeps  *)
(* what it cannot publish in the offline buffer, and replays it: in each   *)
(* session the replay first, then the lifecycle, then what is new.         *)
(*                                                                         *)
(* An event is its number, in the order built.  The buffer is what         *)
(* EventLog and OfflineBuffer say it is: a bounded log, oldest lost first; *)
(* a cmd_ack kept in it is number 0.  A restart loses the queues, and the   *)
(* mask of the events whose time is still to be told.                      *)
(***************************************************************************)
EXTENDS MqttSession, Sequences, SequencesExt

CONSTANTS
    FifoLen,      \* TELEM_TX_FIFO_LEN
    SessLen,      \* TELEM_TX_SESSION_LEN
    Deferrable,   \* TELEM_TX_DEFERRABLE_MAX
    BufMax,       \* entries the offline buffer holds
    MaxEvents,    \* bound: events built in a behaviour
    MaxTwins      \* bound: changes that ask for a twin report

ASSUME CloudTxAssumption ==
    /\ FifoLen \in Nat \ {0} /\ SessLen \in Nat \ {0} /\ BufMax \in Nat \ {0}
    /\ Deferrable \in 1..FifoLen
    /\ MaxEvents \in Nat /\ MaxTwins \in Nat

VARIABLES
    fifo,         \* s_txq: events, twin reports, a decommission's clear
    sessq,        \* s_sessq: a session's lifecycle and twin report
    buf,          \* the offline buffer
    times,        \* an event's time there: "real", "owed" (its bit of s_presync_mask), or "gone"
    next,         \* the number of the next event
    twin,         \* iothub_task's book of twin reports
    owed,         \* iothub_task: the last session seen, and what it owes it
    lcOwed,       \* s_lifecycle_owed: the lifecycle was refused
    replayOwed,   \* s_replay_owed
    frozen,       \* s_tx_frozen
    decomDone,    \* s_decom_done
    tx,           \* cloud_tx's own state
    hist          \* history, for the properties: events esp-mqtt took (out), into a session
                  \* still up after (handed), or the code gave up (lost); the last twin report it took
                  \* (told) and the change it tells of (ver); events of an ended deployment (past)

txVars == <<fifo, sessq, buf, times, next, twin, owed, lcOwed, replayOwed, frozen, decomDone, tx, hist>>
vars == <<sessVars, txVars>>

Events == 1..MaxEvents

(* A twin report's build number, and the last change it tells of.          *)
Report(g) == [kind |-> "twin", gen |-> g, seq |-> twin.seq + 1, ver |-> twin.req]
Lifecycle(g) == [kind |-> "lifecycle", gen |-> g]
EventItem(n, early) == [kind |-> "event", n |-> n, early |-> early]
ClearItem == [kind |-> "clear"]
NoItem == [kind |-> "none"]

Here(item) == IF item.kind = "event" THEN {item.n} ELSE {}
Waiting == {fifo[i].n : i \in {j \in DOMAIN fifo : fifo[j].kind = "event"}}
Buffered == {buf[i] : i \in DOMAIN buf} \ {0}

TxFresh ==
    [pc |-> "work", ret |-> "work", item |-> NoItem, gen |-> 0, pub |-> 0, seen |-> 0,
     hold |-> FALSE, tried |-> 0, taken |-> 0, twinSeq |-> 0]

Init ==
    /\ SessionInit
    /\ fifo = <<>> /\ sessq = <<>> /\ buf = <<>>
    /\ times = [n \in Events |-> "real"]
    /\ next = 1
    /\ twin = [req |-> 0, done |-> 0, due |-> FALSE, refused |-> FALSE, seq |-> 0]
    /\ owed = [seen |-> 0, items |-> {}]
    /\ lcOwed = FALSE /\ replayOwed = FALSE /\ frozen = FALSE /\ decomDone = FALSE
    /\ tx = TxFresh
    /\ hist = [out |-> {}, handed |-> {}, lost |-> {}, told |-> 0, ver |-> 0, past |-> 0]

At(p) == tx.pc = p
Moved(t, p) ==
    IF p = "work" THEN [t EXCEPT !.pc = p, !.ret = "work", !.item = NoItem, !.gen = 0, !.pub = 0]
    ELSE [t EXCEPT !.pc = p, !.pub = 0]
To(p) == tx' = Moved(tx, p)
Lost(S) == hist' = [hist EXCEPT !.lost = @ \cup S]

(* A full buffer gives up its oldest.                                      *)
Kept(b, n) == Append(IF Len(b) = BufMax THEN Tail(b) ELSE b, n)
Dropped(b) == IF Len(b) = BufMax THEN {Head(b)} \ {0} ELSE {}

(* s_presync_mask loses the bits of the events in S: they have their time,  *)
(* or leave the buffer.                                                    *)
Unmasked(t, S) == [n \in Events |-> IF n \in S THEN "real" ELSE t[n]]

(* offline_buffer_stamp_presync(): with the clock valid, each event that is *)
(* owed its time gets it, but for one too long for its slot or whose write *)
(* fails.                                                                  *)
Owing(t) == {n \in Events : t[n] = "owed"}
Stamps(t) == IF synced THEN {Unmasked(t, S) : S \in SUBSET Owing(t)} ELSE {t}

-----------------------------------------------------------------------------
(* iothub_task builds and posts, with a wait of 0.                         *)

PostEvent ==
    /\ hub = "loop" /\ next <= MaxEvents
    /\ next' = next + 1
    /\ IF Len(fifo) < FifoLen
       THEN fifo' = Append(fifo, EventItem(next, ~synced)) /\ UNCHANGED hist
       ELSE Lost({next}) /\ UNCHANGED fifo
    /\ UNCHANGED <<sessVars, sessq, buf, times, twin, owed, lcOwed, replayOwed, frozen, decomDone, tx>>

(* rules_config, set_hub_name, a desired property: on esp-mqtt's task.     *)
TwinRequest ==
    /\ client = "online" /\ handler = "idle" /\ twin.req < MaxTwins
    /\ twin' = [twin EXCEPT !.req = @ + 1]
    /\ UNCHANGED <<sessVars, fifo, sessq, buf, times, next, owed, lcOwed, replayOwed, frozen, decomDone, tx, hist>>

(* twin_posted()                                                           *)
Posted(t) == [t EXCEPT !.seq = @ + 1, !.done = t.req, !.due = FALSE]

RefusalLost(t) == [t EXCEPT !.refused = FALSE]      \* mutant: and not owed again
RefusalTaken(t) == [t EXCEPT !.due = @ \/ t.refused, !.refused = FALSE]

(* A session iothub_task has not seen, and what has it go through its      *)
(* session block.                                                          *)
UnseenByHub == connected /\ gen # owed.seen
SessionDue == UnseenByHub \/ twin.refused \/ (connected /\ (owed.items # {} \/ lcOwed))

(* The session block of iothub_task's pass: a new session owes both        *)
(* messages; a refused lifecycle is built again; a refused report is due.  *)
SessionBlock ==
    LET new   == UnseenByHub
        items == IF new THEN {"lifecycle", "twin"} ELSE owed.items
        told  == RefusalTaken(twin)
        sendLc == connected /\ ("lifecycle" \in items \/ lcOwed) /\ Len(sessq) < SessLen
        q1    == IF sendLc THEN Append(sessq, Lifecycle(gen)) ELSE sessq
        sendTwin == connected /\ "twin" \in items /\ Len(q1) < SessLen
    IN  /\ hub = "loop"
        /\ SessionDue
        /\ sessq' = IF sendTwin THEN Append(q1, Report(gen)) ELSE q1
        /\ twin' = IF sendTwin THEN Posted(told) ELSE told
        /\ owed' = [seen |-> IF new THEN gen ELSE owed.seen,
                    items |-> (items \cup IF connected /\ lcOwed THEN {"lifecycle"} ELSE {})
                              \ ((IF sendLc THEN {"lifecycle"} ELSE {})
                                 \cup IF sendTwin THEN {"twin"} ELSE {})]
        /\ UNCHANGED <<sessVars, fifo, buf, times, next, lcOwed, replayOwed, frozen, decomDone, tx, hist>>

(* post_twin_reported(): owed until there is room.                         *)
ReportDue == connected /\ (twin.due \/ twin.req # twin.done)

PostTwin ==
    /\ hub = "loop" /\ ReportDue
    /\ Len(fifo) < Deferrable
    /\ fifo' = Append(fifo, Report(gen))
    /\ twin' = Posted(twin)
    /\ UNCHANGED <<sessVars, sessq, buf, times, next, owed, lcOwed, replayOwed, frozen, decomDone, tx, hist>>

-----------------------------------------------------------------------------
(* cloud_tx: the replay, telemetry_v2_drain_offline(), from wherever it is  *)
(* called; t is cloud_tx's state as it calls, ret where it goes on.         *)

Replaying(t, ret) ==
    IF connected /\ ~frozen
    THEN /\ replayOwed' = FALSE
         /\ tx' = IF buf = <<>> THEN Moved(t, ret) ELSE [t EXCEPT !.pc = "offer", !.ret = ret]
    ELSE /\ UNCHANGED replayOwed
         /\ tx' = Moved(t, ret)

(* The oldest of the buffer: its time is gone, or it must wait for the      *)
(* clock (ob_prepare_replay_locked()).                                     *)
Oldest(time) == buf # <<>> /\ Head(buf) # 0 /\ times[Head(buf)] = time

(* replay_publish(), into any session that is up.                          *)
ReplayGate ==
    /\ At("offer") /\ ~Oldest("gone")
    /\ IF PubOpen /\ ~frozen /\ buf # <<>> /\ (Oldest("owed") => synced)
       THEN PubBegin /\ tx' = [tx EXCEPT !.pc = "replay", !.pub = gen]
       ELSE UNCHANGED gate /\ To("drained")
    /\ UNCHANGED <<wifi, admitted, synced, sas, client, handler, gen, connected, running, stop, hub,
                   faults, fifo, sessq, buf, times, next, twin, owed, lcOwed, replayOwed, frozen, decomDone, hist>>

(* An event of an earlier boot whose time was never told is not sent; nor  *)
(* is one that cannot be read, or stamped.                                 *)
ReplayDrop ==
    /\ At("offer") /\ buf # <<>>
    /\ IF Oldest("gone") THEN UNCHANGED faults ELSE Fault("nvs")
    /\ buf' = Tail(buf)
    /\ Lost({Head(buf)} \ {0})
    /\ times' = Unmasked(times, {Head(buf)})
    /\ UNCHANGED <<wifi, admitted, synced, sas, client, handler, gen, connected, running, stop, gate, hub,
                   fifo, sessq, next, twin, owed, lcOwed, replayOwed, frozen, decomDone, tx>>

(* NVS or the buffer's lock does not answer: no entry is looked at.         *)
DrainFails ==
    /\ At("offer")
    /\ Fault("nvs")
    /\ To("drained")
    /\ UNCHANGED <<wifi, admitted, synced, sas, client, handler, gen, connected, running, stop, gate, hub,
                   fifo, sessq, buf, times, next, twin, owed, lcOwed, replayOwed, frozen, decomDone, hist>>

(* esp_mqtt_client_publish(): taken; refused for room or memory; or a      *)
(* write that failed, which ends the session first.                        *)
Outcomes == {"taken", "refused", "failed"}

WriteEnds(o) ==
    \/ o = "taken" /\ UNCHANGED <<client, connected, faults>>
    \/ o = "refused" /\ Fault("refused") /\ UNCHANGED <<client, connected>>
    \/ o = "failed" /\ client = "online" /\ Fault("failed") /\ SessionEnds

(* A message is confirmed if the session it went into is still up; a copy  *)
(* in the outbox of one that ended may or may not arrive.                  *)
StillUp == connected' /\ gen = tx.pub
ConfirmedTaken(o) == o = "taken"         \* mutant: msg_id >= 0 is enough
Confirmed(o) == o = "taken" /\ StillUp

(* The entry is taken out only if confirmed.  The erase of a decommission's*)
(* fallback may have emptied the buffer beside the publish.                *)
ReplayWrite ==
    /\ At("replay") /\ handler = "idle"
    /\ \E o \in Outcomes :
        /\ WriteEnds(o)
        /\ To(IF Confirmed(o) THEN "offer" ELSE "drained")
        /\ buf' = IF Confirmed(o) /\ buf # <<>> THEN Tail(buf) ELSE buf
        /\ times' = IF Confirmed(o) /\ buf # <<>> THEN Unmasked(times, {Head(buf)}) ELSE times
        /\ LET n == IF buf = <<>> THEN {} ELSE {Head(buf)} \ {0} IN
           hist' = [hist EXCEPT
              !.out = IF o = "taken" THEN @ \cup n ELSE @,
              !.handed = IF o = "taken" /\ StillUp THEN @ \cup n ELSE @]
    /\ PubEnd
    /\ UNCHANGED <<wifi, admitted, synced, sas, handler, gen, running, stop, hub,
                   fifo, sessq, next, twin, owed, lcOwed, replayOwed, frozen, decomDone>>

(* Cut short with the client still connected: the rest is owed now.  An    *)
(* event that had the replay go first stays behind what is left of it.     *)
DrainEnds ==
    /\ At("drained")
    /\ replayOwed' = (connected /\ buf # <<>>)
    /\ To(IF tx.ret # "send" THEN tx.ret
          ELSE IF connected /\ buf = <<>> THEN "gate" ELSE "store")
    /\ UNCHANGED <<sessVars, fifo, sessq, buf, times, next, twin, owed, lcOwed, frozen, decomDone, hist>>

-----------------------------------------------------------------------------
(* cloud_tx: the session's work, before each FIFO item.                    *)

(* Owed by iothub_task from its first pass with the clock valid, and done  *)
(* once a boot: once more could only stamp what the first might have.      *)
Stamp ==
    /\ At("work") /\ synced /\ Owing(times) # {} /\ ~frozen
    /\ times' \in Stamps(times)
    /\ UNCHANGED <<sessVars, fifo, sessq, buf, next, twin, owed, lcOwed, replayOwed, frozen, decomDone, tx, hist>>

NewSession == connected /\ gen # tx.seen

(* cloud_tx_session_check(): the replay first, then live messages wait for *)
(* the lifecycle.                                                          *)
Served(t) == [t EXCEPT !.seen = gen, !.hold = TRUE]

CheckSession ==
    /\ At("work") /\ NewSession
    /\ Replaying(Served(tx), "work")
    /\ lcOwed' = FALSE
    /\ UNCHANGED <<sessVars, fifo, sessq, buf, times, next, twin, owed, frozen, decomDone, hist>>

OutdatedNever(t, seq) == FALSE           \* mutant: reports go as they come
Outdated(t, seq) == seq <= t.twinSeq

TwinSeen(t, i) ==
    IF Outdated(t, i.seq) THEN Moved(t, "work")
    ELSE [t EXCEPT !.item = i, !.twinSeq = i.seq, !.pc = "gate"]

(* cloud_tx_lifecycle(), cloud_tx_twin() up to the gate.                   *)
Handled(t, i) ==
    IF frozen \/ (i.kind = "lifecycle" /\ i.gen = t.taken) THEN Moved(t, "work")
    ELSE IF i.kind = "lifecycle"
         THEN [t EXCEPT !.item = i, !.pc = "gate", !.tried = IF i.gen = t.seen THEN i.gen ELSE @]
         ELSE TwinSeen(t, i)

(* An item of the session queue; the session is checked once more, as the  *)
(* item may have been built for one that began after the check.            *)
TakeSession ==
    /\ At("work") /\ sessq # <<>>
    /\ sessq' = Tail(sessq)
    /\ IF NewSession
       THEN Replaying(Served([tx EXCEPT !.item = Head(sessq)]), "handle") /\ lcOwed' = FALSE
       ELSE tx' = Handled(tx, Head(sessq)) /\ UNCHANGED <<lcOwed, replayOwed>>
    /\ UNCHANGED <<sessVars, fifo, buf, times, next, twin, owed, frozen, decomDone, hist>>

HandleSession ==
    /\ At("handle")
    /\ tx' = Handled(tx, tx.item)
    /\ UNCHANGED <<sessVars, fifo, sessq, buf, times, next, twin, owed, lcOwed, replayOwed, frozen, decomDone, hist>>

ReplayDueOwed == replayOwed              \* mutant: only when the flag says so
ReplayDue == replayOwed \/ buf # <<>>

HoldOver == tx.hold => ~connected \/ tx.tried = gen

(* The rest of cloud_tx_session_work(): live messages wait for the hold to *)
(* end; what is buffered while connected is replayed now and then.         *)
Proceed ==
    /\ At("work") /\ ~NewSession /\ sessq = <<>>
    /\ HoldOver
    /\ LET t == [tx EXCEPT !.hold = FALSE, !.gen = gen] IN
       \/ connected /\ ReplayDue /\ Replaying(t, "fifo")
       \/ (fifo # <<>> \/ tx.hold) /\ tx' = Moved(t, "fifo") /\ UNCHANGED replayOwed
    /\ UNCHANGED <<sessVars, fifo, sessq, buf, times, next, twin, owed, lcOwed, frozen, decomDone, hist>>

(* No lifecycle in CLOUD_TX_LIFECYCLE_HOLD_MS: live messages go first.     *)
HoldLapses ==
    /\ At("work") /\ ~NewSession
    /\ ~HoldOver
    /\ tx' = [tx EXCEPT !.hold = FALSE]
    /\ UNCHANGED <<sessVars, fifo, sessq, buf, times, next, twin, owed, lcOwed, replayOwed, frozen, decomDone, hist>>

(* send_str() of an event: what waits in the buffer goes first.            *)
SendEvent(t, i) ==
    IF ~connected \/ i.early THEN tx' = Moved(t, "store") /\ UNCHANGED replayOwed
    ELSE IF ReplayDue THEN Replaying(t, IF buf = <<>> THEN "gate" ELSE "send")
    ELSE tx' = Moved(t, "gate") /\ UNCHANGED replayOwed

(* cloud_tx_service_one()                                                  *)
ServiceOne ==
    /\ At("fifo")
    /\ IF gen # tx.gen \/ fifo = <<>>
       THEN To("work") /\ UNCHANGED <<fifo, buf, times, replayOwed, decomDone, hist>>
       ELSE LET i == Head(fifo) IN
            /\ fifo' = Tail(fifo)
            /\ \/ /\ frozen
                  /\ To("work") /\ Lost(Here(i)) /\ UNCHANGED <<buf, times, replayOwed, decomDone>>
               \/ /\ ~frozen /\ i.kind = "event"
                  /\ SendEvent([tx EXCEPT !.item = i], i)
                  /\ UNCHANGED <<buf, times, decomDone, hist>>
               \/ /\ ~frozen /\ i.kind = "twin"
                  /\ tx' = TwinSeen(tx, i)
                  /\ UNCHANGED <<buf, times, replayOwed, decomDone, hist>>
               \/ /\ ~frozen /\ i.kind = "clear"
                  /\ buf' = <<>> /\ times' = Unmasked(times, Events)
                  /\ Lost(Buffered) /\ decomDone' = TRUE
                  /\ To("work") /\ UNCHANGED replayOwed
    /\ UNCHANGED <<sessVars, sessq, next, twin, owed, lcOwed, frozen>>

-----------------------------------------------------------------------------
(* cloud_tx: a publish, and the store of what was not confirmed.           *)

(* The gate, then the session read again: for an event the one whose       *)
(* replay and lifecycle are done, for the others the one they were built   *)
(* for.                                                                    *)
WantedGen == IF tx.item.kind = "event" THEN tx.gen ELSE tx.item.gen
RightSession == gen = WantedGen

Gate ==
    /\ At("gate")
    /\ IF PubOpen /\ RightSession
       THEN PubBegin /\ tx' = [tx EXCEPT !.pc = "write", !.pub = gen] /\ UNCHANGED lcOwed
       ELSE /\ To(IF tx.item.kind = "event" THEN "store" ELSE "work")
            /\ lcOwed' = (lcOwed \/ (tx.item.kind = "lifecycle" /\ connected /\ gen = tx.item.gen))
            /\ UNCHANGED gate
    /\ UNCHANGED <<wifi, admitted, synced, sas, client, handler, gen, connected, running, stop, hub,
                   faults, fifo, sessq, buf, times, next, twin, owed, replayOwed, frozen, decomDone, hist>>
Write ==
    /\ At("write") /\ handler = "idle"
    /\ \E o \in Outcomes :
        /\ WriteEnds(o)
        /\ LET i == tx.item IN
           \/ /\ i.kind = "event"
              /\ To(IF Confirmed(o) THEN "work" ELSE "keep")
              /\ hist' = [hist EXCEPT
                    !.out = IF o = "taken" THEN @ \cup {i.n} ELSE @,
                    !.handed = IF o = "taken" /\ StillUp THEN @ \cup {i.n} ELSE @]
              /\ UNCHANGED <<lcOwed, twin>>
           \/ /\ i.kind = "lifecycle"
              /\ tx' = Moved([tx EXCEPT !.taken = IF o = "taken" THEN i.gen ELSE @], "work")
              /\ lcOwed' = (o # "taken" /\ (lcOwed \/ (connected' /\ gen = i.gen)))
              /\ UNCHANGED <<hist, twin>>
           \/ /\ i.kind = "twin"
              /\ To("work")
              /\ hist' = IF o = "taken" THEN [hist EXCEPT !.told = i.seq, !.ver = i.ver] ELSE hist
              /\ twin' = [twin EXCEPT !.refused = @ \/ (o # "taken" /\ connected' /\ gen = i.gen)]
              /\ UNCHANGED lcOwed
    /\ PubEnd
    /\ UNCHANGED <<wifi, admitted, synced, sas, handler, gen, running, stop, hub,
                   fifo, sessq, buf, times, next, owed, replayOwed, frozen, decomDone>>

(* tx_store(): none once a decommission's fallback has frozen it.  "keep"  *)
(* stores what a publish did not confirm, and owes its replay.             *)
StoreCheck ==
    /\ At("store") \/ At("keep")
    /\ IF frozen /\ ~tx.item.early THEN To("work") /\ Lost(Here(tx.item) \ hist.handed)
       ELSE tx' = [tx EXCEPT !.pc = "storing", !.ret = tx.pc] /\ UNCHANGED hist
    /\ UNCHANGED <<sessVars, fifo, sessq, buf, times, next, twin, owed, lcOwed, replayOwed, frozen, decomDone>>

(* An early event's time is owed; the clock may be valid by now.           *)
Store ==
    /\ At("storing")
    /\ To("work")
    /\ buf' = Kept(buf, tx.item.n)
    /\ Lost(Dropped(buf))
    /\ LET t == Unmasked(times, Dropped(buf)) IN
       times' \in IF tx.item.early THEN Stamps([t EXCEPT ![tx.item.n] = "owed"]) ELSE {t}
    /\ replayOwed' = (replayOwed \/ tx.ret = "keep")
    /\ UNCHANGED <<sessVars, fifo, sessq, next, twin, owed, lcOwed, frozen, decomDone>>

(* Not kept: its text is over the limit, or NVS or the lock does not answer.*)
StoreFails ==
    /\ At("storing")
    /\ Fault("nvs")
    /\ To("work")
    /\ Lost(Here(tx.item))
    /\ times' \in IF tx.item.early THEN Stamps(times) ELSE {times}
    /\ UNCHANGED <<wifi, admitted, synced, sas, client, handler, gen, connected, running, stop, gate, hub,
                   fifo, sessq, buf, next, twin, owed, lcOwed, replayOwed, frozen, decomDone>>

-----------------------------------------------------------------------------
(* esp-mqtt's task answers a command: a cmd_ack that is refused, or meets  *)
(* a stop, is kept if nobody holds the buffer's lock.                      *)
BufferFree == tx.pc \notin {"offer", "replay", "storing"}

CmdAck ==
    /\ client = "online" /\ handler = "idle"
    /\ Fault("ack")
    /\ BufferFree
    /\ buf' = Kept(buf, 0)
    /\ Lost(Dropped(buf))
    /\ times' = Unmasked(times, Dropped(buf))
    /\ replayOwed' = (replayOwed \/ connected)
    /\ UNCHANGED <<wifi, admitted, synced, sas, client, handler, gen, connected, running, stop, gate,
                   hub, fifo, sessq, next, twin, owed, lcOwed, frozen, decomDone, tx>>

-----------------------------------------------------------------------------
(* A decommission: cloud_tx clears the buffer, or, if it does not come to  *)
(* it in DECOM_TX_WAIT_MS, is frozen and iothub_task erases it beside it.  *)

Decommission ==
    /\ hub = "loop" /\ client = "online" /\ handler = "idle"
    /\ Fault("decom")
    /\ hub' = "decom"
    /\ UNCHANGED <<wifi, admitted, synced, sas, client, handler, gen, connected, running, stop, gate, txVars>>

PostClear ==
    /\ hub = "decom"
    /\ Len(fifo) < FifoLen
    /\ fifo' = Append(fifo, ClearItem)
    /\ hub' = "clearing"
    /\ UNCHANGED <<wifi, admitted, synced, sas, client, handler, gen, connected, running, stop, gate,
                   faults, sessq, buf, times, next, twin, owed, lcOwed, replayOwed, frozen, decomDone, tx, hist>>

ClearTimesOut ==
    /\ hub \in {"decom", "clearing"} /\ ~decomDone
    /\ frozen' = TRUE
    /\ buf' = <<>>
    /\ Lost(Buffered)
    /\ hub' = "erased"
    /\ UNCHANGED <<wifi, admitted, synced, sas, client, handler, gen, connected, running, stop, gate,
                   faults, fifo, sessq, times, next, twin, owed, lcOwed, replayOwed, decomDone, tx>>

(* What is not in NVS is gone; the cloud's last reports stay.              *)
Restarted(b, past) ==
    /\ SessionRestart
    /\ fifo' = <<>> /\ sessq' = <<>>
    /\ buf' = b
    /\ times' = [n \in Events |-> IF times[n] = "owed" THEN "gone" ELSE times[n]]
    /\ twin' = [twin EXCEPT !.done = twin.req, !.due = FALSE, !.refused = FALSE, !.seq = 0]
    /\ owed' = [seen |-> 0, items |-> {}]
    /\ lcOwed' = FALSE /\ replayOwed' = FALSE /\ frozen' = FALSE /\ decomDone' = FALSE
    /\ tx' = TxFresh
    /\ hist' = [hist EXCEPT
          !.lost = @ \cup ((Waiting \cup Here(tx.item) \cup Buffered) \ ({b[i] : i \in DOMAIN b} \cup hist.handed)),
          !.told = 0, !.past = past]
    /\ UNCHANGED next

Restart ==
    /\ Fault("restart")
    /\ Restarted(buf, hist.past)

(* 3 s on: a store under way at the freeze has ended, and the erase is     *)
(* done once more in the fallback.                                         *)
SecondEraseNone == buf                   \* mutant: erased once only
SecondErase == IF hub = "erased" THEN <<>> ELSE buf

DecomRestart ==
    /\ (hub = "clearing" /\ decomDone) \/ hub = "erased"
    /\ ~At("storing")
    /\ Restarted(SecondErase, next - 1)
    /\ UNCHANGED faults

-----------------------------------------------------------------------------
TxSteps ==
    \/ Stamp \/ CheckSession \/ TakeSession \/ HandleSession \/ Proceed \/ ServiceOne
    \/ Gate \/ Write \/ StoreCheck \/ Store \/ StoreFails
    \/ ReplayGate \/ ReplayDrop \/ ReplayWrite \/ DrainFails \/ DrainEnds

HubSteps == SessionBlock \/ PostTwin \/ PostClear \/ DecomRestart

(* Everything is done and handed over: the tasks wait.                      *)
Idle ==
    /\ At("work") /\ fifo = <<>> /\ sessq = <<>> /\ (connected => buf = <<>>)
    /\ hub = "loop" /\ ~Stopping /\ handler = "idle"
Rest == Idle /\ UNCHANGED vars

Next ==
    \/ SessionNext /\ UNCHANGED txVars
    \/ TxSteps \/ HoldLapses
    \/ HubSteps \/ PostEvent \/ TwinRequest
    \/ CmdAck \/ Decommission \/ ClearTimesOut \/ Restart \/ Rest

Spec == Init /\ [][Next]_vars

-----------------------------------------------------------------------------
(* The queues and the buffer keep their limits, and no reader is ahead of  *)
(* the session's number.                                                   *)
TypeOK ==
    /\ Len(fifo) <= FifoLen /\ Len(sessq) <= SessLen /\ Len(buf) <= BufMax
    /\ next \in 1..(MaxEvents + 1)
    /\ gen \in Nat /\ tx.seen \in 0..gen /\ owed.seen \in 0..gen

(* cloud_tx is never inside esp_mqtt_client_publish() while wifi_task is   *)
(* inside esp_mqtt_client_stop(), nor after it: the stop frees the outbox  *)
(* without esp-mqtt's lock (the publish gate, app_iothub.c).               *)
NeverBesideStop ==
    At("write") \/ At("replay") => gate = "tx" /\ client # "stopped" /\ stop # "taken"

(* iothub_task starts the client only when the stop it last asked for has  *)
(* ended on wifi_task: a stop never ends a client started after it.        *)
StartsStopped == [][~running /\ running' => client = "stopped" /\ stop = "none"]_vars

(* A consequence never reaches the cloud before its cause (F-08): an event *)
(* is handed to esp-mqtt only when every earlier one was, or was given up   *)
(* in one of the ways NoSilentLoss names.                                  *)
CausesFirst == \A n \in hist.out : \A m \in 1..(n - 1) : m \in hist.out \cup hist.lost

(* An event is queued, in cloud_tx's hands, in the buffer, or was taken    *)
(* into a session still up after it (A-1), or else the code gave it up:    *)
(* a full queue or buffer; a store that fails; a reset with it not yet     *)
(* stored, or stored before the clock was valid and not stamped since; a   *)
(* slot that cannot be read; a decommission.                               *)
NoSilentLoss ==
    \A n \in 1..(next - 1) :
        n \in Waiting \cup Here(tx.item) \cup Buffered \cup hist.handed \cup hist.lost

(* "`gen`: on cloud_tx, the session whose replay and lifecycle it has done, *)
(* the only one an event may go into" (telemetry_v2.c, send_str()).        *)
ReplayFirst == At("write") /\ tx.item.kind = "event" => tx.seen = tx.pub

(* No twin report is sent after one built later (TW-1), by queue or by     *)
(* session; 0 is a restart, where the numbers begin again.                 *)
TwinNewestWins == [][hist'.told >= hist.told \/ hist'.told = 0]_vars

(* After a decommission's restart, nothing of the deployment it ended is   *)
(* in the buffer to be replayed (L17), whichever of the two erases ran.    *)
EndedStaysEnded == Buffered \cap 1..hist.past = {}

(* When nothing is queued and iothub_task owes the session nothing, every  *)
(* event is out and the cloud's last report tells of the last change,      *)
(* whatever was refused or lost on the way.                                *)
AtRest == Idle /\ ~SessionDue /\ ~ReportDue
SettledTold ==
    AtRest /\ connected =>
        /\ hist.ver = twin.req
        /\ 1..(next - 1) \subseteq hist.handed \cup hist.lost
=============================================================================
