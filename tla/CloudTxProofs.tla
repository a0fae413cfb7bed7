---------------------------- MODULE CloudTxProofs ----------------------------
(***************************************************************************)
(* For queues and a buffer of any length, any number of events and any     *)
(* outside events: that the publish gate keeps cloud_tx and wifi_task      *)
(* apart (NeverBesideStop), that a client is never started into a stop     *)
(* (StartsStopped), that no event is lost in silence (NoSilentLoss), that  *)
(* a consequence never reaches the cloud before its cause (CausesFirst),   *)
(* that a decommission leaves nothing to replay (EndedStaysEnded), that    *)
(* the newest twin report is the last sent (TwinNewestWins), and that a    *)
(* session with nothing left to do has been told all (SettledTold).        *)
(***************************************************************************)
EXTENDS CloudTx, TLAPS

(* cloud_tx's state: its fields, and the places a replay or a store goes   *)
(* on at, of which none is inside a publish.                               *)
TxFields == {"pc", "ret", "item", "gen", "pub", "seen", "hold", "tried", "taken", "twinSeq"}
Returns == {"work", "handle", "fifo", "gate", "send", "store", "keep"}
IsTx(t) == DOMAIN t = TxFields /\ t.ret \in Returns

Publishing(t) == t.pc \in {"write", "replay"}

(* The gate and the stop, by themselves.                                   *)
GateHeld ==
    /\ stop \in {"none", "asked", "taken"}
    /\ stop = "taken" <=> gate = "wifi"
    /\ gate = "tx" => client # "stopped"

(* What a session that is up, a handler under way and a stop tell of the   *)
(* client.                                                                 *)
ClientTrue ==
    /\ connected => client = "online"
    /\ handler # "idle" => client = "online"
    /\ ~running /\ stop = "none" => client = "stopped"
    /\ running => stop = "none"

SessionInv == GateHeld /\ ClientTrue

GateInv == IsTx(tx) /\ (Publishing(tx) <=> gate = "tx") /\ SessionInv

-----------------------------------------------------------------------------
(* The session's own steps keep it, and leave the gate to whoever has it:  *)
(* no other step takes it from cloud_tx or gives it to it.                 *)

LEMMA OutsideKeeps ==
    ASSUME SessionInv, OutsideNext
    PROVE  SessionInv' /\ (gate = "tx" <=> gate' = "tx")
<1> USE DEF SessionInv, GateHeld, ClientTrue
<1>1. CASE WifiLost
  BY <1>1 DEF WifiLost
<1>2. CASE WifiUp
  BY <1>2 DEF WifiUp
<1>3. CASE SoftApUp
  BY <1>3 DEF SoftApUp
<1>4. CASE SoftApDown
  BY <1>4 DEF SoftApDown
<1>5. CASE ClockSync
  BY <1>5 DEF ClockSync
<1>6. CASE TokenAges
  BY <1>6 DEF TokenAges
<1>7. CASE LinkLost
  BY <1>7 DEF LinkLost, SessionEnds
<1>8. QED
  BY <1>1, <1>2, <1>3, <1>4, <1>5, <1>6, <1>7 DEF OutsideNext

LEMMA HubKeeps ==
    ASSUME SessionInv, HubSessionNext
    PROVE  SessionInv' /\ (gate = "tx" <=> gate' = "tx")
<1> USE DEF SessionInv, GateHeld, ClientTrue
<1>1. CASE HubMarks
  BY <1>1 DEF HubMarks
<1>2. CASE Withdraw
  BY <1>2 DEF Withdraw, StopRequest
<1>3. CASE Admit
  BY <1>3 DEF Admit, AdmissionOpen, Stopping, StartClient
<1>4. CASE SasMaintain
  BY <1>4 DEF SasMaintain, Stopping, StopRequest, StartClient
<1>5. QED
  BY <1>1, <1>2, <1>3, <1>4 DEF HubSessionNext

LEMMA MqttKeeps ==
    ASSUME SessionInv, MqttNext
    PROVE  SessionInv' /\ (gate = "tx" <=> gate' = "tx")
<1> USE DEF SessionInv, GateHeld, ClientTrue
<1>1. CASE Connect
  BY <1>1 DEF Connect
<1>2. CASE Marks
  BY <1>2 DEF Marks, MarkConnected
<1>3. CASE HandlerEnds
  BY <1>3 DEF HandlerEnds, StillWanted
<1>4. QED
  BY <1>1, <1>2, <1>3 DEF MqttNext

LEMMA StopKeeps ==
    ASSUME SessionInv, StopNext
    PROVE  SessionInv' /\ (gate = "tx" <=> gate' = "tx")
<1> USE DEF SessionInv, GateHeld, ClientTrue
<1>1. CASE StopTake
  BY <1>1 DEF StopTake
<1>2. CASE StopEnds
  BY <1>2 DEF StopEnds
<1>3. QED
  BY <1>1, <1>2 DEF StopNext

-----------------------------------------------------------------------------
(* Where cloud_tx goes on: never inside a publish but through the gate.    *)

LEMMA MovedTo ==
    ASSUME NEW t, IsTx(t), NEW p
    PROVE  IsTx(Moved(t, p)) /\ Moved(t, p).pc = p
BY DEF Moved, IsTx, TxFields, Returns

LEMMA ReplayingTo ==
    ASSUME NEW t, IsTx(t), NEW ret \in Returns, Replaying(t, ret)
    PROVE  IsTx(tx') /\ ~Publishing(tx')
<1>1. tx' = Moved(t, ret) \/ tx' = [t EXCEPT !.pc = "offer", !.ret = ret]
  BY DEF Replaying
<1>2. CASE tx' = Moved(t, ret)
  BY <1>2, MovedTo DEF Publishing, Returns
<1>3. CASE tx' = [t EXCEPT !.pc = "offer", !.ret = ret]
  BY <1>3 DEF IsTx, TxFields, Publishing
<1>4. QED
  BY <1>1, <1>2, <1>3

LEMMA SeenOrHandledTo ==
    ASSUME NEW t, IsTx(t), NEW i
    PROVE  /\ IsTx(TwinSeen(t, i)) /\ ~Publishing(TwinSeen(t, i))
           /\ IsTx(Handled(t, i)) /\ ~Publishing(Handled(t, i))
<1>1. IsTx(Moved(t, "work")) /\ ~Publishing(Moved(t, "work"))
  BY MovedTo DEF Publishing
<1>2. IsTx(TwinSeen(t, i)) /\ ~Publishing(TwinSeen(t, i))
  BY <1>1 DEF TwinSeen, IsTx, TxFields, Publishing
<1>3. QED
  BY <1>1, <1>2 DEF Handled, IsTx, TxFields, Publishing

LEMMA ServedIsTx ==
    ASSUME NEW t, IsTx(t)
    PROVE  IsTx(Served(t))
BY DEF Served, IsTx, TxFields

(* The steps of cloud_tx that publish nothing.                             *)
LEMMA WorkKeeps ==
    ASSUME GateInv,
           CheckSession \/ TakeSession \/ HandleSession \/ Proceed \/ HoldLapses
               \/ ServiceOne \/ DrainEnds \/ StoreCheck \/ Store
    PROVE  GateInv'
<1>0. IsTx(tx) /\ SessionInv /\ (Publishing(tx) <=> gate = "tx")
  BY DEF GateInv
<1>1. UNCHANGED sessVars /\ ~Publishing(tx)
  BY DEF CheckSession, TakeSession, HandleSession, Proceed, HoldLapses, ServiceOne,
         DrainEnds, StoreCheck, Store, At, Publishing
<1>2. SessionInv' /\ gate' # "tx"
  BY <1>0, <1>1 DEF sessVars, SessionInv, GateHeld, ClientTrue
<1>3. IsTx(tx') /\ ~Publishing(tx')
  <2>1. CASE CheckSession
    BY <1>0, <2>1, ServedIsTx, ReplayingTo DEF CheckSession, Returns
  <2>2. CASE TakeSession
    <3>1. CASE tx' = Handled(tx, Head(sessq))
      BY <1>0, <3>1, SeenOrHandledTo
    <3>2. CASE Replaying(Served([tx EXCEPT !.item = Head(sessq)]), "handle")
      <4>1. IsTx([tx EXCEPT !.item = Head(sessq)])
        BY <1>0 DEF IsTx, TxFields
      <4>2. QED
        BY <3>2, <4>1, ServedIsTx, ReplayingTo DEF Returns
    <3>3. QED
      BY <2>2, <3>1, <3>2 DEF TakeSession
  <2>3. CASE HandleSession
    BY <1>0, <2>3, SeenOrHandledTo DEF HandleSession
  <2>4. CASE Proceed
    <3> DEFINE t == [tx EXCEPT !.hold = FALSE, !.gen = gen]
    <3>1. IsTx(t)
      BY <1>0 DEF IsTx, TxFields
    <3>2. Replaying(t, "fifo") \/ tx' = Moved(t, "fifo")
      BY <2>4 DEF Proceed
    <3> HIDE DEF t
    <3>3. QED
      BY <3>1, <3>2, MovedTo, ReplayingTo DEF Publishing, Returns
  <2>5. CASE HoldLapses
    BY <1>0, <2>5 DEF HoldLapses, At, IsTx, TxFields, Publishing
  <2>6. CASE ServiceOne
    <3>1. CASE To("work")
      BY <1>0, <3>1, MovedTo DEF To, Publishing
    <3>2. CASE SendEvent([tx EXCEPT !.item = Head(fifo)], Head(fifo))
      <4> DEFINE t == [tx EXCEPT !.item = Head(fifo)]
      <4>1. IsTx(t)
        BY <1>0 DEF IsTx, TxFields
      <4>2. \/ tx' = Moved(t, "store") \/ tx' = Moved(t, "gate")
            \/ Replaying(t, "gate") \/ Replaying(t, "send")
        BY <3>2 DEF SendEvent
      <4> HIDE DEF t
      <4>3. QED
        BY <4>1, <4>2, MovedTo, ReplayingTo DEF Publishing, Returns
    <3>3. CASE tx' = TwinSeen(tx, Head(fifo))
      BY <1>0, <3>3, SeenOrHandledTo
    <3>4. QED
      BY <2>6, <3>1, <3>2, <3>3 DEF ServiceOne
  <2>7. CASE DrainEnds
    <3>1. \E p \in Returns : To(p)
      BY <1>0, <2>7 DEF DrainEnds, IsTx, Returns
    <3>2. QED
      BY <1>0, <3>1, MovedTo DEF To, Publishing, Returns
  <2>8. CASE StoreCheck
    <3>1. CASE To("work")
      BY <1>0, <3>1, MovedTo DEF To, Publishing
    <3>2. CASE tx' = [tx EXCEPT !.pc = "storing", !.ret = tx.pc]
      BY <1>0, <2>8, <3>2 DEF StoreCheck, At, IsTx, TxFields, Returns, Publishing
    <3>3. QED
      BY <2>8, <3>1, <3>2 DEF StoreCheck
  <2>9. CASE Store
    BY <1>0, <2>9, MovedTo DEF Store, To, Publishing
  <2>10. QED
    BY <2>1, <2>2, <2>3, <2>4, <2>5, <2>6, <2>7, <2>8, <2>9
<1>4. QED
  BY <1>2, <1>3 DEF GateInv

(* What stamps, drops an entry, or meets a store that fails, publishes     *)
(* nothing either.                                                         *)
LEMMA FaultsKeep ==
    ASSUME GateInv, Stamp \/ StoreFails \/ ReplayDrop \/ DrainFails
    PROVE  GateInv'
<1>0. IsTx(tx) /\ SessionInv /\ (Publishing(tx) <=> gate = "tx")
  BY DEF GateInv
<1>1. UNCHANGED <<client, handler, connected, running, stop, gate>>
  BY DEF Stamp, StoreFails, ReplayDrop, DrainFails, sessVars
<1>2. SessionInv'
  BY <1>0, <1>1 DEF SessionInv, GateHeld, ClientTrue
<1>3. UNCHANGED tx \/ (~Publishing(tx) /\ (To("work") \/ To("drained")))
  BY DEF Stamp, StoreFails, ReplayDrop, DrainFails, At, Publishing
<1>4. IsTx(tx') /\ (Publishing(tx') <=> Publishing(tx))
  BY <1>0, <1>3, MovedTo DEF To, Publishing
<1>5. QED
  BY <1>0, <1>1, <1>2, <1>4 DEF GateInv

(* The gate is taken with a session up and no stop, and given when the     *)
(* publish returns.                                                        *)
LEMMA PublishKeeps ==
    ASSUME GateInv, Gate \/ ReplayGate \/ Write \/ ReplayWrite
    PROVE  GateInv'
<1>0. IsTx(tx) /\ SessionInv /\ (Publishing(tx) <=> gate = "tx")
  BY DEF GateInv
<1>1. CASE Gate \/ ReplayGate
  <2>0. ~Publishing(tx) /\ UNCHANGED <<client, handler, connected, running, stop>>
    BY <1>1 DEF Gate, ReplayGate, At, Publishing
  <2>1. CASE /\ PubOpen /\ PubBegin
             /\ tx' = [tx EXCEPT !.pc = "write", !.pub = gen] \/ tx' = [tx EXCEPT !.pc = "replay", !.pub = gen]
    <3>1. IsTx(tx') /\ Publishing(tx')
      BY <1>0, <2>1 DEF IsTx, TxFields, Publishing
    <3>2. gate' = "tx" /\ connected /\ stop = "none"
      BY <2>1 DEF PubOpen, PubBegin, Stopping
    <3>3. SessionInv'
      BY <1>0, <2>0, <3>2 DEF SessionInv, GateHeld, ClientTrue
    <3>4. QED
      BY <3>1, <3>2, <3>3 DEF GateInv
  <2>2. CASE UNCHANGED gate /\ \E p \in {"drained", "store", "work"} : To(p)
    <3>1. IsTx(tx') /\ ~Publishing(tx')
      BY <1>0, <2>2, MovedTo DEF To, Publishing
    <3>2. SessionInv' /\ gate' # "tx"
      BY <1>0, <2>0, <2>2 DEF SessionInv, GateHeld, ClientTrue
    <3>3. QED
      BY <3>1, <3>2 DEF GateInv
  <2>3. QED
    BY <1>1, <2>1, <2>2 DEF Gate, ReplayGate
<1>2. CASE Write \/ ReplayWrite
  <2>1. /\ Publishing(tx) /\ handler = "idle" /\ gate' = "free"
        /\ UNCHANGED <<handler, running, stop>>
        /\ UNCHANGED <<client, connected>> \/ (client = "online" /\ SessionEnds)
    BY <1>2 DEF Write, ReplayWrite, At, Publishing, PubEnd, WriteEnds
  <2>2. SessionInv'
    BY <1>0, <2>1 DEF SessionInv, GateHeld, ClientTrue, SessionEnds
  <2>3. IsTx(tx') /\ ~Publishing(tx')
    <3>1. CASE \E p \in {"work", "keep", "offer", "drained"} : To(p)
      BY <1>0, <3>1, MovedTo DEF To, Publishing
    <3>2. CASE \E v : tx' = Moved([tx EXCEPT !.taken = v], "work")
      <4>1. PICK v : tx' = Moved([tx EXCEPT !.taken = v], "work")
        BY <3>2
      <4>2. IsTx([tx EXCEPT !.taken = v])
        BY <1>0 DEF IsTx, TxFields
      <4>3. QED
        BY <4>1, <4>2, MovedTo DEF Publishing
    <3>3. QED
      BY <1>2, <3>1, <3>2 DEF Write, ReplayWrite
  <2>4. QED
    BY <2>1, <2>2, <2>3 DEF GateInv
<1>3. QED
  BY <1>1, <1>2

(* The steps of the other tasks that leave cloud_tx and the client alone.  *)
LEMMA OthersKeep ==
    ASSUME GateInv,
           SessionBlock \/ PostTwin \/ PostClear \/ PostEvent \/ TwinRequest
               \/ CmdAck \/ Decommission \/ ClearTimesOut \/ Rest
    PROVE  GateInv'
<1>1. UNCHANGED <<tx, client, handler, connected, running, stop, gate>>
  BY DEF SessionBlock, PostTwin, PostClear, PostEvent, TwinRequest, CmdAck, Decommission,
         ClearTimesOut, Rest, vars, sessVars, txVars
<1>2. QED
  BY <1>1 DEF GateInv, SessionInv, GateHeld, ClientTrue, Publishing

LEMMA FreshIsTx == IsTx(TxFresh) /\ ~Publishing(TxFresh)
BY DEF TxFresh, IsTx, TxFields, Returns, Publishing

LEMMA RestartKeeps ==
    ASSUME Restart \/ DecomRestart
    PROVE  GateInv'
<1>1. SessionRestart /\ tx' = TxFresh
  BY DEF Restart, DecomRestart, Restarted
<1>2. SessionInv' /\ gate' # "tx"
  BY <1>1 DEF SessionRestart, SessionInv, GateHeld, ClientTrue
<1>3. QED
  BY <1>1, <1>2, FreshIsTx DEF GateInv

-----------------------------------------------------------------------------

LEMMA GateInvInductive == GateInv /\ [Next]_vars => GateInv'
<1> SUFFICES ASSUME GateInv, [Next]_vars PROVE GateInv'
  OBVIOUS
<1>1. CASE SessionNext /\ UNCHANGED txVars
  <2>1. IsTx(tx) /\ SessionInv /\ (Publishing(tx) <=> gate = "tx") /\ tx' = tx
    BY <1>1 DEF GateInv, txVars
  <2>2. SessionInv' /\ (gate = "tx" <=> gate' = "tx")
    BY <1>1, <2>1, OutsideKeeps, HubKeeps, MqttKeeps, StopKeeps DEF SessionNext
  <2>3. QED
    BY <2>1, <2>2 DEF GateInv
<1>2. CASE TxSteps \/ HoldLapses
  BY <1>2, WorkKeeps, FaultsKeep, PublishKeeps DEF TxSteps
<1>3. CASE HubSteps
  BY <1>3, OthersKeep, RestartKeeps DEF HubSteps
<1>4. CASE PostEvent \/ TwinRequest \/ CmdAck \/ Decommission \/ ClearTimesOut \/ Rest
  BY <1>4, OthersKeep
<1>5. CASE Restart
  BY <1>5, RestartKeeps
<1>6. CASE UNCHANGED vars
  BY <1>6 DEF vars, sessVars, txVars, GateInv, SessionInv, GateHeld, ClientTrue, Publishing
<1>7. QED
  BY <1>1, <1>2, <1>3, <1>4, <1>5, <1>6 DEF Next

LEMMA GateInvInitially == Init => GateInv
BY FreshIsTx DEF Init, SessionInit, GateInv, SessionInv, GateHeld, ClientTrue

(* No publish of cloud_tx runs beside esp_mqtt_client_stop() or after it:  *)
(* iothub_pub_begin() and iothub_mqtt_stop_service() share the gate, and   *)
(* whoever has it has seen the other's mark.                               *)
THEOREM NeverBesideStopHolds == Spec => []NeverBesideStop
<1>1. GateInv => NeverBesideStop
  BY DEF GateInv, SessionInv, GateHeld, NeverBesideStop, Publishing, At
<1>2. QED
  BY <1>1, GateInvInitially, GateInvInductive, PTL DEF Spec

(* iothub_task starts the client only into no stop: mqtt_resume() and the  *)
(* token's renewal look at the stop's count first, so that none it asked   *)
(* for earlier can end the client it starts.                               *)
THEOREM StartsStoppedHolds == Spec => StartsStopped
<1>1. GateInv /\ [Next]_vars => [~running /\ running' => client = "stopped" /\ stop = "none"]_vars
  <2> SUFFICES ASSUME GateInv, Next, ~running, running'
               PROVE  client = "stopped" /\ stop = "none"
    OBVIOUS
  <2>1. ~running /\ stop = "none" => client = "stopped"
    BY DEF GateInv, SessionInv, ClientTrue
  <2>2. Admit \/ SasMaintain
    <3>1. CASE SessionNext
      BY <3>1 DEF SessionNext, HubSessionNext, MqttNext, StopNext, OutsideNext, HubMarks, Withdraw,
                  StopRequest, Connect, Marks, HandlerEnds, StopTake, StopEnds, WifiLost, WifiUp,
                  SoftApUp, SoftApDown, ClockSync, TokenAges, LinkLost
    <3>2. CASE TxSteps \/ HoldLapses
      BY <3>2 DEF TxSteps, HoldLapses, CheckSession, TakeSession, HandleSession, Proceed, ServiceOne,
                  Stamp, Gate, Write, StoreCheck, Store, StoreFails, ReplayGate, ReplayDrop, ReplayWrite,
                  DrainFails, DrainEnds, sessVars
    <3>3. CASE HubSteps \/ PostEvent \/ TwinRequest \/ CmdAck \/ Decommission \/ ClearTimesOut
                   \/ Restart \/ Rest
      BY <3>3 DEF HubSteps, SessionBlock, PostTwin, PostClear, DecomRestart, PostEvent, TwinRequest,
                  CmdAck, Decommission, ClearTimesOut, Restart, Restarted, SessionRestart, Rest,
                  vars, sessVars
    <3>4. QED
      BY <3>1, <3>2, <3>3 DEF Next
  <2>3. stop = "none"
    BY <2>2 DEF Admit, SasMaintain, AdmissionOpen, Stopping, StartClient
  <2>4. QED
    BY <2>1, <2>3
<1>2. QED
  BY <1>1, GateInvInitially, GateInvInductive, PTL DEF Spec, StartsStopped

-----------------------------------------------------------------------------
(* The flow of events.  The heart is an order: what the buffer holds is    *)
(* older than the event in cloud_tx's hands, and that one older than what  *)
(* the queue holds; and an event is at the gate only with nothing of its   *)
(* kind in the buffer.                                                     *)

HistFields == {"out", "handed", "lost", "told", "ver", "past"}

-----------------------------------------------------------------------------
(* Lists: the queues and the buffer, whatever they hold.                   *)

IsList(s) == \E n \in Nat : s = [i \in 1..n |-> s[i]]

LEMMA ListIsSeq ==
    ASSUME NEW s, IsList(s)
    PROVE  s \in Seq({s[i] : i \in DOMAIN s}) /\ Len(s) \in Nat /\ DOMAIN s = 1..Len(s)
<1>1. PICK n \in Nat : s = [i \in 1..n |-> s[i]]
  BY DEF IsList
<1>2. s \in [1..n -> {s[i] : i \in DOMAIN s}]
  BY <1>1
<1>3. s \in Seq({s[i] : i \in DOMAIN s})
  BY <1>2
<1>4. QED
  BY <1>3

LEMMA SeqIsList ==
    ASSUME NEW S, NEW s \in Seq(S)
    PROVE  IsList(s)
<1>1. s = [i \in 1..Len(s) |-> s[i]] /\ Len(s) \in Nat
  OBVIOUS
<1>2. QED
  BY <1>1 DEF IsList

LEMMA ListTail ==
    ASSUME NEW s, IsList(s), s # <<>>
    PROVE  /\ IsList(Tail(s)) /\ Head(s) = s[1] /\ Len(s) \in Nat \ {0}
           /\ Len(Tail(s)) = Len(s) - 1
           /\ DOMAIN s = 1..Len(s) /\ DOMAIN Tail(s) = 1..(Len(s) - 1)
           /\ \A i \in 1..(Len(s) - 1) : Tail(s)[i] = s[i + 1]
<1> DEFINE S == {s[i] : i \in DOMAIN s}
<1>1. s \in Seq(S)
  BY ListIsSeq
<1> HIDE DEF S
<1>2. Tail(s) \in Seq(S) /\ Head(s) = s[1] /\ Len(s) \in Nat \ {0} /\ Len(Tail(s)) = Len(s) - 1
  BY <1>1
<1>3. DOMAIN s = 1..Len(s) /\ DOMAIN Tail(s) = 1..(Len(s) - 1)
  BY <1>1, <1>2
<1>4. \A i \in 1..(Len(s) - 1) : Tail(s)[i] = s[i + 1]
  BY <1>1, <1>2
<1>5. QED
  BY <1>2, <1>3, <1>4, SeqIsList

LEMMA ListAppend ==
    ASSUME NEW s, IsList(s), NEW x
    PROVE  /\ IsList(Append(s, x)) /\ Len(s) \in Nat
           /\ DOMAIN s = 1..Len(s) /\ DOMAIN Append(s, x) = 1..(Len(s) + 1)
           /\ \A i \in 1..Len(s) : Append(s, x)[i] = s[i]
           /\ Append(s, x)[Len(s) + 1] = x
<1> DEFINE S == {s[i] : i \in DOMAIN s} \cup {x}
<1>1. s \in Seq(S) /\ x \in S
  <2>1. PICK n \in Nat : s = [i \in 1..n |-> s[i]]
    BY DEF IsList
  <2>2. s \in [1..n -> S]
    BY <2>1
  <2>3. QED
    BY <2>2
<1> HIDE DEF S
<1>2. Append(s, x) \in Seq(S) /\ Len(s) \in Nat /\ Len(Append(s, x)) = Len(s) + 1
  BY <1>1
<1>3. DOMAIN s = 1..Len(s) /\ DOMAIN Append(s, x) = 1..(Len(s) + 1)
  BY <1>1, <1>2
<1>4. /\ \A i \in 1..Len(s) : Append(s, x)[i] = s[i]
      /\ Append(s, x)[Len(s) + 1] = x
  BY <1>1, <1>2
<1>5. QED
  BY <1>2, <1>3, <1>4, SeqIsList

LEMMA EmptyIsList == IsList(<<>>) /\ DOMAIN <<>> = {}
<1>1. <<>> \in Seq({})
  OBVIOUS
<1>2. DOMAIN <<>> = {}
  OBVIOUS
<1>3. QED
  BY <1>1, <1>2, SeqIsList

-----------------------------------------------------------------------------
(* The queue: its events, oldest first, between items of other kinds.      *)

NumsOf(f) == {f[i].n : i \in {j \in DOMAIN f : f[j].kind = "event"}}

FifoOK(f) ==
    /\ IsList(f)
    /\ \A i \in DOMAIN f : f[i].kind = "event" => f[i].n \in Nat \ {0}
    /\ \A i, j \in DOMAIN f :
          i < j /\ f[i].kind = "event" /\ f[j].kind = "event" => f[i].n < f[j].n

LEMMA FifoTail ==
    ASSUME NEW f, FifoOK(f), f # <<>>
    PROVE  /\ FifoOK(Tail(f))
           /\ NumsOf(f) = Here(Head(f)) \cup NumsOf(Tail(f))
           /\ Head(f).kind = "event" =>
                  Head(f).n \in Nat \ {0} /\ \A w \in NumsOf(Tail(f)) : Head(f).n < w
<1> DEFINE m == Len(f)
           g == Tail(f)
<1>1. /\ IsList(g) /\ Head(f) = f[1] /\ m \in Nat \ {0}
      /\ DOMAIN f = 1..m /\ DOMAIN g = 1..(m - 1)
      /\ \A i \in 1..(m - 1) : g[i] = f[i + 1]
  BY ListTail DEF FifoOK
<1> HIDE DEF m, g
<1>a. \A i \in DOMAIN g : i + 1 \in DOMAIN f /\ g[i] = f[i + 1] /\ i \in Nat \ {0}
  BY <1>1
<1>2. FifoOK(g)
  <2>1. \A i \in DOMAIN g : g[i].kind = "event" => g[i].n \in Nat \ {0}
    BY <1>a DEF FifoOK
  <2>2. ASSUME NEW i \in DOMAIN g, NEW j \in DOMAIN g, i < j, g[i].kind = "event", g[j].kind = "event"
        PROVE  g[i].n < g[j].n
    <3>1. i + 1 \in DOMAIN f /\ j + 1 \in DOMAIN f /\ i + 1 < j + 1
      BY <1>a, <2>2
    <3>2. f[i + 1].n < f[j + 1].n
      BY <1>a, <2>2, <3>1 DEF FifoOK
    <3>3. QED
      BY <1>a, <3>2
  <2>3. QED
    BY <1>1, <2>1, <2>2 DEF FifoOK
<1>3. NumsOf(f) = Here(Head(f)) \cup NumsOf(g)
  <2>1. \A w \in NumsOf(f) : w \in Here(Head(f)) \/ w \in NumsOf(g)
    <3> SUFFICES ASSUME NEW i \in DOMAIN f, f[i].kind = "event"
                 PROVE  f[i].n \in Here(Head(f)) \/ f[i].n \in NumsOf(g)
      BY DEF NumsOf
    <3>1. CASE i = 1
      BY <1>1, <3>1 DEF Here
    <3>2. CASE i # 1
      <4>1. i - 1 \in DOMAIN g /\ g[i - 1] = f[i]
        BY <1>1, <3>2
      <4>2. QED
        BY <4>1 DEF NumsOf
    <3>3. QED
      BY <3>1, <3>2
  <2>2. Here(Head(f)) \subseteq NumsOf(f)
    BY <1>1 DEF Here, NumsOf
  <2>3. NumsOf(g) \subseteq NumsOf(f)
    <3> SUFFICES ASSUME NEW i \in DOMAIN g, g[i].kind = "event" PROVE g[i].n \in NumsOf(f)
      BY DEF NumsOf
    <3>1. i + 1 \in DOMAIN f /\ g[i] = f[i + 1]
      BY <1>1
    <3>2. QED
      BY <3>1 DEF NumsOf
  <2>4. QED
    BY <2>1, <2>2, <2>3
<1>4. Head(f).kind = "event" => Head(f).n \in Nat \ {0} /\ \A w \in NumsOf(g) : Head(f).n < w
  <2> SUFFICES ASSUME f[1].kind = "event"
               PROVE  f[1].n \in Nat \ {0} /\ \A w \in NumsOf(g) : f[1].n < w
    BY <1>1
  <2>1. ASSUME NEW i \in DOMAIN g, g[i].kind = "event" PROVE f[1].n < g[i].n
    <3>1. 1 \in DOMAIN f /\ i + 1 \in DOMAIN f /\ 1 < i + 1 /\ g[i] = f[i + 1]
      BY <1>1, <1>a
    <3>2. QED
      BY <2>1, <3>1 DEF FifoOK
  <2>2. QED
    BY <1>1, <2>1 DEF FifoOK, NumsOf
<1>5. QED
  BY <1>2, <1>3, <1>4 DEF g

LEMMA FifoAppend ==
    ASSUME NEW f, FifoOK(f), NEW x,
           x.kind = "event" => x.n \in Nat \ {0} /\ \A w \in NumsOf(f) : w < x.n
    PROVE  FifoOK(Append(f, x)) /\ NumsOf(Append(f, x)) = NumsOf(f) \cup Here(x)
<1> DEFINE m == Len(f)
           g == Append(f, x)
<1>1. /\ IsList(g) /\ m \in Nat
      /\ DOMAIN f = 1..m /\ DOMAIN g = 1..(m + 1)
      /\ \A i \in 1..m : g[i] = f[i]
      /\ g[m + 1] = x
  BY ListAppend DEF FifoOK
<1> HIDE DEF m, g
<1>2. \A i \in DOMAIN f : f[i].kind = "event" => f[i].n \in NumsOf(f)
  BY DEF NumsOf
<1>3. FifoOK(g)
  <2>1. \A i \in DOMAIN g : g[i].kind = "event" => g[i].n \in Nat \ {0}
    BY <1>1 DEF FifoOK
  <2>2. ASSUME NEW i \in DOMAIN g, NEW j \in DOMAIN g, i < j, g[i].kind = "event", g[j].kind = "event"
        PROVE  g[i].n < g[j].n
    <3>1. i \in 1..m /\ g[i] = f[i]
      BY <1>1, <2>2
    <3>2. CASE j \in 1..m
      BY <1>1, <2>2, <3>1, <3>2 DEF FifoOK
    <3>3. CASE j = m + 1
      BY <1>1, <1>2, <2>2, <3>1, <3>3
    <3>4. QED
      BY <1>1, <3>2, <3>3
  <2>3. QED
    BY <1>1, <2>1, <2>2 DEF FifoOK
<1>4. NumsOf(g) = NumsOf(f) \cup Here(x)
  <2>1. NumsOf(g) \subseteq NumsOf(f) \cup Here(x)
    <3> SUFFICES ASSUME NEW i \in DOMAIN g, g[i].kind = "event"
                 PROVE  g[i].n \in NumsOf(f) \cup Here(x)
      BY DEF NumsOf
    <3>1. i \in 1..m \/ i = m + 1
      BY <1>1
    <3>2. QED
      BY <1>1, <1>2, <3>1 DEF Here
  <2>2. NumsOf(f) \subseteq NumsOf(g)
    <3> SUFFICES ASSUME NEW i \in DOMAIN f, f[i].kind = "event" PROVE f[i].n \in NumsOf(g)
      BY DEF NumsOf
    <3>1. i \in DOMAIN g /\ g[i] = f[i]
      BY <1>1
    <3>2. QED
      BY <3>1 DEF NumsOf
  <2>3. Here(x) \subseteq NumsOf(g)
    <3>1. m + 1 \in DOMAIN g
      BY <1>1
    <3>2. QED
      BY <1>1, <3>1 DEF NumsOf, Here
  <2>4. QED
    BY <2>1, <2>2, <2>3
<1>5. QED
  BY <1>3, <1>4 DEF g

LEMMA FifoEmpty == FifoOK(<<>>) /\ NumsOf(<<>>) = {}
BY EmptyIsList DEF FifoOK, NumsOf

-----------------------------------------------------------------------------
(* The buffer: its events, oldest first, between cmd_acks.                 *)

BufNums(b) == {b[i] : i \in DOMAIN b} \ {0}

BufOK(b) ==
    /\ IsList(b)
    /\ \A i \in DOMAIN b : b[i] \in Nat
    /\ \A i, j \in DOMAIN b : i < j /\ b[i] # 0 /\ b[j] # 0 => b[i] < b[j]

LEMMA BufTail ==
    ASSUME NEW b, BufOK(b), b # <<>>
    PROVE  /\ BufOK(Tail(b))
           /\ BufNums(b) = ({Head(b)} \ {0}) \cup BufNums(Tail(b))
           /\ Head(b) \in Nat
           /\ Head(b) # 0 => \A n \in BufNums(Tail(b)) : Head(b) < n
<1> DEFINE m == Len(b)
           g == Tail(b)
<1>1. /\ IsList(g) /\ Head(b) = b[1] /\ m \in Nat \ {0}
      /\ DOMAIN b = 1..m /\ DOMAIN g = 1..(m - 1)
      /\ \A i \in 1..(m - 1) : g[i] = b[i + 1]
  BY ListTail DEF BufOK
<1> HIDE DEF m, g
<1>2. \A i \in DOMAIN g : i + 1 \in DOMAIN b /\ g[i] = b[i + 1] /\ i \in Nat \ {0}
  BY <1>1
<1>3. BufOK(g)
  <2>1. \A i \in DOMAIN g : g[i] \in Nat
    BY <1>2 DEF BufOK
  <2>2. ASSUME NEW i \in DOMAIN g, NEW j \in DOMAIN g, i < j, g[i] # 0, g[j] # 0
        PROVE  g[i] < g[j]
    <3>1. i + 1 \in DOMAIN b /\ j + 1 \in DOMAIN b /\ i + 1 < j + 1
      BY <1>2, <2>2
    <3>2. b[i + 1] < b[j + 1]
      BY <1>2, <2>2, <3>1 DEF BufOK
    <3>3. QED
      BY <1>2, <3>2
  <2>3. QED
    BY <1>1, <2>1, <2>2 DEF BufOK
<1>4. BufNums(b) = ({Head(b)} \ {0}) \cup BufNums(g)
  <2>1. \A n \in BufNums(b) : n \in {Head(b)} \/ n \in BufNums(g)
    <3> SUFFICES ASSUME NEW i \in DOMAIN b, b[i] # 0
                 PROVE  b[i] = Head(b) \/ b[i] \in BufNums(g)
      BY DEF BufNums
    <3>1. CASE i = 1
      BY <1>1, <3>1
    <3>2. CASE i # 1
      <4>1. i - 1 \in DOMAIN g /\ g[i - 1] = b[i]
        BY <1>1, <3>2
      <4>2. QED
        BY <4>1 DEF BufNums
    <3>3. QED
      BY <3>1, <3>2
  <2>2. 1 \in DOMAIN b
    BY <1>1
  <2>3. {Head(b)} \ {0} \subseteq BufNums(b)
    BY <1>1, <2>2 DEF BufNums
  <2>4. BufNums(g) \subseteq BufNums(b)
    BY <1>2 DEF BufNums
  <2>5. BufNums(b) \subseteq ({Head(b)} \ {0}) \cup BufNums(g)
    BY <2>1 DEF BufNums
  <2>6. QED
    BY <2>3, <2>4, <2>5
<1>5. Head(b) \in Nat
  BY <1>1 DEF BufOK
<1>6. Head(b) # 0 => \A n \in BufNums(g) : Head(b) < n
  <2> SUFFICES ASSUME b[1] # 0, NEW i \in DOMAIN g, g[i] # 0 PROVE b[1] < g[i]
    BY <1>1 DEF BufNums
  <2>1. 1 \in DOMAIN b /\ i + 1 \in DOMAIN b /\ 1 < i + 1 /\ g[i] = b[i + 1]
    BY <1>1, <1>2
  <2>2. QED
    BY <2>1 DEF BufOK
<1>7. QED
  BY <1>3, <1>4, <1>5, <1>6 DEF g

LEMMA BufAppend ==
    ASSUME NEW b, BufOK(b), NEW n \in Nat, n # 0 => \A k \in BufNums(b) : k < n
    PROVE  BufOK(Append(b, n)) /\ BufNums(Append(b, n)) = BufNums(b) \cup ({n} \ {0})
<1> DEFINE m == Len(b)
           g == Append(b, n)
<1>1. /\ IsList(g) /\ m \in Nat
      /\ DOMAIN b = 1..m /\ DOMAIN g = 1..(m + 1)
      /\ \A i \in 1..m : g[i] = b[i]
      /\ g[m + 1] = n
  BY ListAppend DEF BufOK
<1> HIDE DEF m, g
<1>2. BufOK(g)
  <2>1. \A i \in DOMAIN g : g[i] \in Nat
    BY <1>1 DEF BufOK
  <2>2. ASSUME NEW i \in DOMAIN g, NEW j \in DOMAIN g, i < j, g[i] # 0, g[j] # 0
        PROVE  g[i] < g[j]
    <3>1. i \in 1..m /\ g[i] = b[i]
      BY <1>1, <2>2
    <3>2. CASE j \in 1..m
      BY <1>1, <2>2, <3>1, <3>2 DEF BufOK
    <3>3. CASE j = m + 1
      <4>1. b[i] \in BufNums(b)
        BY <1>1, <2>2, <3>1 DEF BufNums
      <4>2. QED
        BY <1>1, <2>2, <3>1, <3>3, <4>1
    <3>4. QED
      BY <1>1, <3>2, <3>3
  <2>3. QED
    BY <1>1, <2>1, <2>2 DEF BufOK
<1>3. BufNums(g) = BufNums(b) \cup ({n} \ {0})
  <2>1. \A i \in DOMAIN g : i \in 1..m \/ i = m + 1
    BY <1>1
  <2>2. BufNums(g) \subseteq BufNums(b) \cup ({n} \ {0})
    BY <1>1, <2>1 DEF BufNums
  <2>3. \A i \in DOMAIN b : i \in DOMAIN g /\ g[i] = b[i]
    BY <1>1
  <2>4. BufNums(b) \subseteq BufNums(g)
    BY <2>3 DEF BufNums
  <2>5. m + 1 \in DOMAIN g
    BY <1>1
  <2>6. {n} \ {0} \subseteq BufNums(g)
    BY <1>1, <2>5 DEF BufNums
  <2>7. QED
    BY <2>2, <2>4, <2>6
<1>4. QED
  BY <1>2, <1>3 DEF g

(* A store into a full buffer gives up the oldest event, and only that.    *)
LEMMA BufKept ==
    ASSUME NEW b, BufOK(b), NEW n \in Nat, n # 0 => \A k \in BufNums(b) : k < n
    PROVE  /\ BufOK(Kept(b, n))
           /\ BufNums(Kept(b, n)) \subseteq BufNums(b) \cup ({n} \ {0})
           /\ BufNums(b) \cup ({n} \ {0}) \subseteq BufNums(Kept(b, n)) \cup Dropped(b)
<1>1. CASE Len(b) = BufMax
  <2>1. b # <<>>
    <3>1. Len(<<>>) = 0
      OBVIOUS
    <3>2. QED
      BY <1>1, <3>1, CloudTxAssumption
  <2>2. /\ BufOK(Tail(b))
        /\ BufNums(b) = ({Head(b)} \ {0}) \cup BufNums(Tail(b))
    BY <2>1, BufTail
  <2>3. /\ BufOK(Append(Tail(b), n))
        /\ BufNums(Append(Tail(b), n)) = BufNums(Tail(b)) \cup ({n} \ {0})
    BY <2>2, BufAppend
  <2>4. Kept(b, n) = Append(Tail(b), n) /\ Dropped(b) = {Head(b)} \ {0}
    BY <1>1 DEF Kept, Dropped
  <2>5. QED
    BY <2>2, <2>3, <2>4
<1>2. CASE Len(b) # BufMax
  BY <1>2, BufAppend DEF Kept, Dropped
<1>3. QED
  BY <1>1, <1>2

LEMMA BufEmpty == BufOK(<<>>) /\ BufNums(<<>>) = {}
BY EmptyIsList DEF BufOK, BufNums

-----------------------------------------------------------------------------
(* The inductive invariant.                                                *)

SessOK(q) == IsList(q) /\ \A i \in DOMAIN q : q[i].kind # "event"

(* B in the buffer, H in cloud_tx's hands, W waiting.                      *)
Order(B, H, W, n) ==
    /\ B \cup H \cup W \subseteq 1..(n - 1)
    /\ \A b \in B, h \in H : b < h
    /\ \A b \in B, w \in W : b < w
    /\ \A h \in H, w \in W : h < w

(* Where cloud_tx is with an event and without, b being the buffer.        *)
IsEvent(t) == t.item.kind = "event"

Placed(t, b) ==
    /\ DOMAIN t = TxFields
    /\ \/ t.pc \in {"work", "handle", "fifo"} /\ ~IsEvent(t)
       \/ t.pc \in {"gate", "write"} /\ (IsEvent(t) => BufNums(b) = {})
       \/ t.pc \in {"store", "keep", "storing"} /\ IsEvent(t)
       \/ t.pc \in {"offer", "replay", "drained"} /\ IsEvent(t) /\ t.ret = "send"
       \/ t.pc \in {"offer", "replay", "drained"} /\ ~IsEvent(t) /\ t.ret \in {"work", "handle", "fifo"}

Flowing ==
    /\ next \in Nat \ {0}
    /\ FifoOK(fifo) /\ BufOK(buf) /\ SessOK(sessq)
    /\ Placed(tx, buf)
    /\ Order(BufNums(buf), Here(tx.item), NumsOf(fifo), next)

Told ==
    /\ DOMAIN hist = HistFields
    /\ hist.handed \subseteq hist.out
    /\ \A n \in 1..(next - 1) :
          n \in NumsOf(fifo) \cup Here(tx.item) \cup BufNums(buf) \cup hist.handed \cup hist.lost
    /\ CausesFirst

FlowInv == Flowing /\ Told

(* No event comes to be held anew.                                         *)
Held == BufNums(buf) \cup Here(tx.item) \cup NumsOf(fifo)
NoneNew == Held' \subseteq Held

(* A step that builds no event keeps it, if it keeps the order, and what   *)
(* leaves the hub's keeping is in the history, and what esp-mqtt takes has *)
(* nothing older left behind.                                              *)
LEMMA FlowMoves ==
    ASSUME FlowInv, next' = next,
           SessOK(sessq'), FifoOK(fifo'), BufOK(buf'), Placed(tx', buf'), DOMAIN hist' = HistFields,
           Order(BufNums(buf'), Here(tx'.item), NumsOf(fifo'), next),
           BufNums(buf) \cup Here(tx.item) \cup NumsOf(fifo) \subseteq
               BufNums(buf') \cup Here(tx'.item) \cup NumsOf(fifo') \cup hist'.handed \cup hist'.lost,
           BufNums(buf') \cup Here(tx'.item) \cup NumsOf(fifo') \subseteq
               BufNums(buf) \cup Here(tx.item) \cup NumsOf(fifo),
           hist.handed \subseteq hist'.handed, hist.lost \subseteq hist'.lost,
           hist.out \subseteq hist'.out, hist'.handed \subseteq hist'.out,
           \A n \in hist'.out \ hist.out : \A m \in 1..(n - 1) : m \in hist.out \cup hist.lost
    PROVE  FlowInv' /\ NoneNew
<1>1. Flowing'
  BY DEF FlowInv, Flowing, NumsOf, FifoOK, BufOK, SessOK, Placed, Order, BufNums, Here, IsEvent, IsList
<1>2. \A n \in 1..(next - 1) :
          n \in NumsOf(fifo') \cup Here(tx'.item) \cup BufNums(buf') \cup hist'.handed \cup hist'.lost
  BY DEF FlowInv, Told
<1>3. CausesFirst'
  <2> SUFFICES ASSUME NEW n \in hist'.out, NEW m \in 1..(n - 1)
               PROVE  m \in hist'.out \cup hist'.lost
    BY DEF CausesFirst
  <2>1. m \in hist.out \cup hist.lost
    BY DEF FlowInv, Told, CausesFirst
  <2>2. QED
    BY <2>1
<1>4. Told'
  BY <1>2, <1>3 DEF Told, NumsOf, BufNums, Here
<1>5. NoneNew
  BY DEF NoneNew, Held, BufNums, Here, NumsOf
<1>6. QED
  BY <1>1, <1>4, <1>5 DEF FlowInv

(* One that moves nothing.                                                 *)
LEMMA FlowKept ==
    ASSUME FlowInv, UNCHANGED <<fifo, buf, next, hist>>,
           SessOK(sessq'), Placed(tx', buf), Here(tx'.item) = Here(tx.item)
    PROVE  FlowInv' /\ NoneNew
<1>1. /\ FifoOK(fifo') /\ BufOK(buf') /\ Placed(tx', buf') /\ DOMAIN hist' = HistFields
      /\ Order(BufNums(buf'), Here(tx'.item), NumsOf(fifo'), next)
      /\ hist'.handed \subseteq hist'.out
  BY DEF FlowInv, Flowing, Told
<1>2. BufNums(buf') = BufNums(buf) /\ NumsOf(fifo') = NumsOf(fifo) /\ hist' = hist
  OBVIOUS
<1>3. QED
  BY <1>1, <1>2, FlowMoves

-----------------------------------------------------------------------------
(* Where cloud_tx goes on.                                                 *)

LEMMA FlowMovedTo ==
    ASSUME NEW t, DOMAIN t = TxFields, NEW p
    PROVE  /\ DOMAIN Moved(t, p) = TxFields /\ Moved(t, p).pc = p
           /\ p = "work" => ~IsEvent(Moved(t, p))
           /\ p # "work" => Moved(t, p).item = t.item /\ Moved(t, p).ret = t.ret
BY DEF Moved, TxFields, IsEvent, NoItem

(* The session's own calls of the replay: with no event in hand.           *)
LEMMA FlowReplayingTo ==
    ASSUME NEW t, DOMAIN t = TxFields, ~IsEvent(t),
           NEW ret \in {"work", "handle", "fifo"}, Replaying(t, ret)
    PROVE  Placed(tx', buf) /\ ~IsEvent(tx')
<1>1. tx' = Moved(t, ret) \/ tx' = [t EXCEPT !.pc = "offer", !.ret = ret]
  BY DEF Replaying
<1>2. CASE tx' = Moved(t, ret)
  <2>1. ~IsEvent(tx')
    BY <1>2, FlowMovedTo DEF IsEvent
  <2>2. QED
    BY <1>2, <2>1, FlowMovedTo DEF Placed
<1>3. CASE tx' = [t EXCEPT !.pc = "offer", !.ret = ret]
  BY <1>3 DEF Placed, TxFields, IsEvent
<1>4. QED
  BY <1>1, <1>2, <1>3

(* An item of another kind is dropped or goes to the gate.                 *)
LEMMA HandledTo ==
    ASSUME NEW t, DOMAIN t = TxFields, NEW i, i.kind # "event", NEW b
    PROVE  /\ Placed(TwinSeen(t, i), b) /\ ~IsEvent(TwinSeen(t, i))
           /\ Placed(Handled(t, i), b) /\ ~IsEvent(Handled(t, i))
<1>1. Placed(Moved(t, "work"), b) /\ ~IsEvent(Moved(t, "work"))
  BY FlowMovedTo DEF Placed
<1>2. Placed(TwinSeen(t, i), b) /\ ~IsEvent(TwinSeen(t, i))
  BY <1>1 DEF TwinSeen, Placed, TxFields, IsEvent
<1>3. QED
  BY <1>1, <1>2 DEF Handled, Placed, TxFields, IsEvent

LEMMA NotHere ==
    ASSUME NEW t, ~IsEvent(t)
    PROVE  Here(t.item) = {}
BY DEF Here, IsEvent

-----------------------------------------------------------------------------
(* cloud_tx's work on a session.                                           *)

LEMMA SessionWorkKeeps ==
    ASSUME FlowInv, CheckSession \/ TakeSession \/ HandleSession \/ Proceed \/ HoldLapses
    PROVE  FlowInv' /\ NoneNew
<1>0. DOMAIN tx = TxFields /\ ~IsEvent(tx) /\ SessOK(sessq)
  BY DEF FlowInv, Flowing, Placed, CheckSession, TakeSession, HandleSession, Proceed, HoldLapses, At
<1>1. UNCHANGED <<fifo, buf, next, hist>>
  BY DEF CheckSession, TakeSession, HandleSession, Proceed, HoldLapses
<1>2. CASE CheckSession
  <2>1. DOMAIN Served(tx) = TxFields /\ ~IsEvent(Served(tx))
    BY <1>0 DEF Served, TxFields, IsEvent
  <2>2. Placed(tx', buf) /\ ~IsEvent(tx') /\ UNCHANGED sessq
    BY <1>2, <2>1, FlowReplayingTo DEF CheckSession
  <2>3. QED
    BY <1>0, <1>1, <2>2, NotHere, FlowKept
<1>3. CASE TakeSession
  <2>1. /\ SessOK(sessq') /\ Head(sessq).kind # "event"
    <3>1. sessq # <<>> /\ sessq' = Tail(sessq)
      BY <1>3 DEF TakeSession
    <3>2. QED
      BY <1>0, <3>1, ListTail DEF SessOK
  <2>2. Placed(tx', buf) /\ ~IsEvent(tx')
    <3> DEFINE t == [tx EXCEPT !.item = Head(sessq)]
    <3>1. DOMAIN Served(t) = TxFields /\ ~IsEvent(Served(t))
      BY <1>0, <2>1 DEF Served, TxFields, IsEvent
    <3>2. tx' = Handled(tx, Head(sessq)) \/ Replaying(Served(t), "handle")
      BY <1>3 DEF TakeSession
    <3> HIDE DEF t
    <3>3. QED
      BY <1>0, <2>1, <3>1, <3>2, HandledTo, FlowReplayingTo
  <2>3. QED
    BY <1>0, <1>1, <2>1, <2>2, NotHere, FlowKept
<1>4. CASE HandleSession
  <2>1. tx' = Handled(tx, tx.item) /\ UNCHANGED sessq /\ tx.item.kind # "event"
    BY <1>0, <1>4 DEF HandleSession, IsEvent
  <2>2. Placed(tx', buf) /\ ~IsEvent(tx')
    BY <1>0, <2>1, HandledTo
  <2>3. QED
    BY <1>0, <1>1, <2>1, <2>2, NotHere, FlowKept
<1>5. CASE Proceed
  <2> DEFINE t == [tx EXCEPT !.hold = FALSE, !.gen = gen]
  <2>1. DOMAIN t = TxFields /\ ~IsEvent(t)
    BY <1>0 DEF TxFields, IsEvent
  <2>2. (Replaying(t, "fifo") \/ tx' = Moved(t, "fifo")) /\ UNCHANGED sessq
    BY <1>5 DEF Proceed
  <2> HIDE DEF t
  <2>3. Placed(tx', buf) /\ ~IsEvent(tx')
    <3>1. CASE Replaying(t, "fifo")
      BY <2>1, <3>1, FlowReplayingTo
    <3>2. CASE tx' = Moved(t, "fifo")
      BY <2>1, <3>2, FlowMovedTo DEF Placed, IsEvent
    <3>3. QED
      BY <2>2, <3>1, <3>2
  <2>4. QED
    BY <1>0, <1>1, <2>2, <2>3, NotHere, FlowKept
<1>6. CASE HoldLapses
  <2>1. Placed(tx', buf) /\ ~IsEvent(tx') /\ UNCHANGED sessq
    BY <1>0, <1>6 DEF HoldLapses, At, Placed, TxFields, IsEvent
  <2>2. QED
    BY <1>0, <1>1, <2>1, NotHere, FlowKept
<1>7. QED
  BY <1>2, <1>3, <1>4, <1>5, <1>6

-----------------------------------------------------------------------------
(* cloud_tx's next item: an event leaves the queue for its hands, and goes *)
(* to the gate only past an empty buffer.                                  *)

LEMMA SendEventTo ==
    ASSUME NEW t, DOMAIN t = TxFields, IsEvent(t), SendEvent(t, t.item), ~frozen
    PROVE  Placed(tx', buf) /\ tx'.item = t.item
<1>1. CASE tx' = Moved(t, "store")
  BY <1>1, FlowMovedTo DEF Placed, IsEvent
<1>2. CASE tx' = Moved(t, "gate") /\ buf = <<>>
  BY <1>2, FlowMovedTo, BufEmpty DEF Placed, IsEvent
<1>3. CASE tx' = [t EXCEPT !.pc = "offer", !.ret = "send"]
  BY <1>3 DEF Placed, TxFields, IsEvent
<1>4. QED
  BY <1>1, <1>2, <1>3 DEF SendEvent, Replaying, ReplayDue

LEMMA ServiceKeeps ==
    ASSUME FlowInv, ServiceOne
    PROVE  FlowInv' /\ NoneNew
<1>0. /\ DOMAIN tx = TxFields /\ ~IsEvent(tx) /\ Here(tx.item) = {}
      /\ SessOK(sessq) /\ FifoOK(fifo) /\ BufOK(buf) /\ next \in Nat \ {0}
      /\ Order(BufNums(buf), Here(tx.item), NumsOf(fifo), next)
      /\ DOMAIN hist = HistFields /\ hist.handed \subseteq hist.out
  BY NotHere DEF FlowInv, Flowing, Told, Placed, ServiceOne, At
<1>1. UNCHANGED <<sessq, next>>
  BY DEF ServiceOne
<1>2. CASE To("work") /\ UNCHANGED <<fifo, buf, hist>>
  <2>1. Placed(tx', buf) /\ ~IsEvent(tx')
    BY <1>0, <1>2, FlowMovedTo DEF To, Placed
  <2>2. QED
    BY <1>0, <1>1, <1>2, <2>1, NotHere, FlowKept
<1>3. ASSUME fifo # <<>>, fifo' = Tail(fifo)
      PROVE  FlowInv' /\ NoneNew
  <2> DEFINE i == Head(fifo)
             W == NumsOf(Tail(fifo))
  <2>1. /\ FifoOK(Tail(fifo)) /\ NumsOf(fifo) = Here(i) \cup W
        /\ i.kind = "event" => i.n \in Nat \ {0} /\ \A w \in W : i.n < w
    BY <1>0, <1>3, FifoTail
  <2>2. /\ Order(BufNums(buf), Here(i), W, next)
        /\ Order(BufNums(buf), {}, W, next) /\ Order({}, {}, W, next)
    BY <1>0, <2>1 DEF Order, Here
  <2>3. FifoOK(fifo') /\ NumsOf(fifo') = W
    BY <1>3, <2>1
  <2>4. \/ frozen /\ To("work") /\ Lost(Here(i)) /\ UNCHANGED buf
        \/ ~frozen /\ i.kind = "event" /\ SendEvent([tx EXCEPT !.item = i], i) /\ UNCHANGED <<buf, hist>>
        \/ ~frozen /\ i.kind = "twin" /\ tx' = TwinSeen(tx, i) /\ UNCHANGED <<buf, hist>>
        \/ ~frozen /\ i.kind = "clear" /\ buf' = <<>> /\ Lost(BufNums(buf)) /\ To("work")
    <3>1. ~(gen # tx.gen \/ fifo = <<>>) \/ UNCHANGED fifo
      BY DEF ServiceOne
    <3>2. fifo' # fifo
      <4>1. Len(Tail(fifo)) = Len(fifo) - 1 /\ Len(fifo) \in Nat
        BY <1>0, <1>3, ListTail DEF FifoOK
      <4>2. Tail(fifo) # fifo
        BY <4>1
      <4>3. QED
        BY <1>3, <4>2
    <3>3. ~(gen # tx.gen \/ fifo = <<>>)
      BY <3>1, <3>2
    <3>4. QED
      BY <3>3 DEF ServiceOne, Buffered, BufNums
  <2> HIDE DEF i, W
  <2>5. CASE frozen /\ To("work") /\ Lost(Here(i)) /\ UNCHANGED buf
    <3>1. Placed(tx', buf') /\ ~IsEvent(tx') /\ Here(tx'.item) = {} /\ BufNums(buf') = BufNums(buf)
      BY <1>0, <2>5, FlowMovedTo, NotHere DEF To, Placed
    <3>2. /\ DOMAIN hist' = HistFields /\ hist'.lost = hist.lost \cup Here(i)
          /\ hist'.handed = hist.handed /\ hist'.out = hist.out
      BY <1>0, <2>5 DEF Lost, HistFields
    <3>3. QED
      BY <1>0, <1>1, <2>1, <2>2, <2>3, <2>5, <3>1, <3>2, FlowMoves
  <2>6. CASE i.kind = "event" /\ SendEvent([tx EXCEPT !.item = i], i) /\ UNCHANGED <<buf, hist>> /\ ~frozen
    <3> DEFINE t == [tx EXCEPT !.item = i]
    <3>1. DOMAIN t = TxFields /\ t.item = i /\ IsEvent(t)
      BY <1>0, <2>6 DEF TxFields, IsEvent
    <3> HIDE DEF t
    <3>2. Placed(tx', buf) /\ tx'.item = i
      BY <2>6, <3>1, SendEventTo DEF t
    <3>3. BufNums(buf') = BufNums(buf) /\ hist' = hist /\ buf' = buf
      BY <2>6
    <3>4. QED
      BY <1>0, <1>1, <2>1, <2>2, <2>3, <3>2, <3>3, FlowMoves
  <2>7. CASE i.kind = "twin" /\ tx' = TwinSeen(tx, i) /\ UNCHANGED <<buf, hist>>
    <3>1. Placed(tx', buf) /\ ~IsEvent(tx') /\ Here(tx'.item) = {} /\ Here(i) = {}
      BY <1>0, <2>7, HandledTo, NotHere DEF Here
    <3>2. BufNums(buf') = BufNums(buf) /\ hist' = hist /\ buf' = buf
      BY <2>7
    <3>3. QED
      BY <1>0, <1>1, <2>1, <2>2, <2>3, <3>1, <3>2, FlowMoves
  <2>8. CASE i.kind = "clear" /\ buf' = <<>> /\ Lost(BufNums(buf)) /\ To("work")
    <3>1. Placed(tx', buf') /\ ~IsEvent(tx') /\ Here(tx'.item) = {} /\ Here(i) = {}
      BY <1>0, <2>8, FlowMovedTo, NotHere DEF To, Placed, Here
    <3>2. BufOK(buf') /\ BufNums(buf') = {}
      BY <2>8, BufEmpty
    <3>3. /\ DOMAIN hist' = HistFields /\ hist'.lost = hist.lost \cup BufNums(buf)
          /\ hist'.handed = hist.handed /\ hist'.out = hist.out
      BY <1>0, <2>8 DEF Lost, HistFields
    <3>4. QED
      BY <1>0, <1>1, <2>1, <2>2, <2>3, <3>1, <3>2, <3>3, FlowMoves
  <2>9. QED
    BY <2>4, <2>5, <2>6, <2>7, <2>8
<1>4. QED
  BY <1>2, <1>3 DEF ServiceOne

-----------------------------------------------------------------------------
(* The steps to and from a publish that neither take nor store anything.   *)

LEMMA GateKeeps ==
    ASSUME FlowInv, Gate \/ ReplayGate \/ DrainFails \/ DrainEnds \/ Stamp
    PROVE  FlowInv' /\ NoneNew
<1>0. DOMAIN tx = TxFields /\ Placed(tx, buf) /\ SessOK(sessq)
  BY DEF FlowInv, Flowing, Placed
<1>1. UNCHANGED <<fifo, sessq, buf, next, hist>>
  BY DEF Gate, ReplayGate, DrainFails, DrainEnds, Stamp
<1>2. Placed(tx', buf) /\ Here(tx'.item) = Here(tx.item)
  <2>1. CASE Gate /\ tx' = [tx EXCEPT !.pc = "write", !.pub = gen]
    BY <1>0, <2>1 DEF Gate, At, Placed, TxFields, IsEvent
  <2>2. CASE Gate /\ To("store") /\ IsEvent(tx)
    BY <1>0, <2>2, FlowMovedTo DEF To, Placed, IsEvent
  <2>3. CASE To("work") /\ ~IsEvent(tx)
    BY <1>0, <2>3, FlowMovedTo, NotHere DEF To, Placed
  <2>4. CASE ReplayGate /\ tx' = [tx EXCEPT !.pc = "replay", !.pub = gen]
    BY <1>0, <2>4 DEF ReplayGate, At, Placed, TxFields, IsEvent
  <2>5. CASE (ReplayGate \/ DrainFails) /\ To("drained")
    BY <1>0, <2>5, FlowMovedTo DEF ReplayGate, DrainFails, At, To, Placed, IsEvent
  <2>6. CASE DrainEnds
    <3>0. At("drained")
      BY <2>6 DEF DrainEnds
    <3>1. CASE tx.ret = "send"
      <4>1. IsEvent(tx)
        BY <1>0, <3>0, <3>1 DEF Placed, At
      <4>2. (To("gate") /\ buf = <<>>) \/ To("store")
        BY <2>6, <3>1 DEF DrainEnds
      <4>3. QED
        BY <1>0, <4>1, <4>2, FlowMovedTo, BufEmpty DEF To, Placed, IsEvent
    <3>2. CASE tx.ret # "send"
      <4>1. ~IsEvent(tx) /\ tx.ret \in {"work", "handle", "fifo"}
        BY <1>0, <3>0, <3>2 DEF Placed, At
      <4>2. tx' = Moved(tx, tx.ret)
        BY <2>6, <3>2 DEF DrainEnds, To
      <4>3. ~IsEvent(tx')
        BY <1>0, <4>1, <4>2, FlowMovedTo DEF IsEvent
      <4>4. QED
        BY <1>0, <4>1, <4>2, <4>3, FlowMovedTo, NotHere DEF Placed
    <3>3. QED
      BY <3>1, <3>2
  <2>7. CASE Stamp
    BY <1>0, <2>7 DEF Stamp
  <2>8. QED
    BY <2>1, <2>2, <2>3, <2>4, <2>5, <2>6, <2>7 DEF Gate, ReplayGate, DrainFails, IsEvent
<1>3. QED
  BY <1>0, <1>1, <1>2, FlowKept

-----------------------------------------------------------------------------
(* The publishes: what is older than what esp-mqtt takes has been taken, or*)
(* lost.                                                                   *)

LEMMA OlderGone ==
    ASSUME FlowInv, NEW n \in 1..(next - 1),
           \A b \in BufNums(buf) : ~(b < n), \A h \in Here(tx.item) : ~(h < n),
           \A w \in NumsOf(fifo) : ~(w < n)
    PROVE  \A m \in 1..(n - 1) : m \in hist.out \cup hist.lost
<1> SUFFICES ASSUME NEW m \in 1..(n - 1) PROVE m \in hist.out \cup hist.lost
  OBVIOUS
<1>1. next \in Nat /\ n \in Nat
  BY DEF FlowInv, Flowing
<1>2. m \in 1..(next - 1) /\ m < n
  BY <1>1
<1>3. m \in NumsOf(fifo) \cup Here(tx.item) \cup BufNums(buf) \cup hist.handed \cup hist.lost
  BY <1>2 DEF FlowInv, Told
<1>4. QED
  BY <1>2, <1>3 DEF FlowInv, Told

LEMMA WriteKeeps ==
    ASSUME FlowInv, Write
    PROVE  FlowInv' /\ NoneNew
<1>0. /\ DOMAIN tx = TxFields /\ Placed(tx, buf)
      /\ SessOK(sessq) /\ FifoOK(fifo) /\ BufOK(buf) /\ next \in Nat \ {0}
      /\ Order(BufNums(buf), Here(tx.item), NumsOf(fifo), next)
      /\ DOMAIN hist = HistFields /\ hist.handed \subseteq hist.out
  BY DEF FlowInv, Flowing, Told, Placed
<1>1. UNCHANGED <<fifo, sessq, buf, next>> /\ At("write")
  BY DEF Write
<1>2. PICK o \in Outcomes :
          \/ /\ IsEvent(tx)
             /\ To(IF Confirmed(o) THEN "work" ELSE "keep")
             /\ hist' = [hist EXCEPT
                   !.out = IF o = "taken" THEN @ \cup {tx.item.n} ELSE @,
                   !.handed = IF o = "taken" /\ StillUp THEN @ \cup {tx.item.n} ELSE @]
          \/ /\ ~IsEvent(tx)
             /\ To("work")
             /\ hist' = hist \/ \E s, v : hist' = [hist EXCEPT !.told = s, !.ver = v]
          \/ /\ ~IsEvent(tx)
             /\ \E g : tx' = Moved([tx EXCEPT !.taken = g], "work")
             /\ hist' = hist
  BY DEF Write, IsEvent
<1>3. CASE /\ IsEvent(tx)
           /\ To(IF Confirmed(o) THEN "work" ELSE "keep")
           /\ hist' = [hist EXCEPT
                 !.out = IF o = "taken" THEN @ \cup {tx.item.n} ELSE @,
                 !.handed = IF o = "taken" /\ StillUp THEN @ \cup {tx.item.n} ELSE @]
  <2> DEFINE n == tx.item.n
  <2>1. Here(tx.item) = {n} /\ n \in 1..(next - 1) /\ BufNums(buf) = {}
    BY <1>0, <1>1, <1>3 DEF Here, IsEvent, Order, Placed, At
  <2>2. \A m \in 1..(n - 1) : m \in hist.out \cup hist.lost
    <3>1. /\ \A h \in Here(tx.item) : ~(h < n)
          /\ \A w \in NumsOf(fifo) : ~(w < n)
      BY <1>0, <2>1 DEF Order
    <3>2. QED
      BY <2>1, <3>1, OlderGone
  <2>3. /\ DOMAIN hist' = HistFields /\ hist'.lost = hist.lost
        /\ hist'.out = IF o = "taken" THEN hist.out \cup {n} ELSE hist.out
        /\ hist'.handed = IF o = "taken" /\ StillUp THEN hist.handed \cup {n} ELSE hist.handed
    BY <1>0, <1>3 DEF HistFields
  <2> HIDE DEF n
  <2>4. /\ hist.out \subseteq hist'.out /\ hist.handed \subseteq hist'.handed
        /\ hist'.handed \subseteq hist'.out /\ hist'.out \subseteq hist.out \cup {n}
    BY <1>0, <2>3
  <2>5. CASE Confirmed(o)
    <3>1. Placed(tx', buf) /\ ~IsEvent(tx') /\ Here(tx'.item) = {}
      BY <1>0, <1>3, <2>5, FlowMovedTo, NotHere DEF To, Placed
    <3>2. n \in hist'.handed
      BY <2>3, <2>5 DEF Confirmed
    <3>3. Order(BufNums(buf), {}, NumsOf(fifo), next)
      BY <1>0 DEF Order
    <3>4. BufNums(buf') = BufNums(buf) /\ NumsOf(fifo') = NumsOf(fifo)
      BY <1>1
    <3>5. QED
      BY <1>0, <1>1, <2>1, <2>2, <2>3, <2>4, <3>1, <3>2, <3>3, <3>4, FlowMoves
  <2>6. CASE ~Confirmed(o)
    <3>1. tx'.item = tx.item /\ Placed(tx', buf)
      BY <1>0, <1>3, <2>6, FlowMovedTo DEF To, Placed, IsEvent
    <3>2. BufNums(buf') = BufNums(buf) /\ NumsOf(fifo') = NumsOf(fifo)
      BY <1>1
    <3>3. QED
      BY <1>0, <1>1, <2>1, <2>2, <2>3, <2>4, <3>1, <3>2, FlowMoves
  <2>7. QED
    BY <2>5, <2>6
<1>4. CASE ~IsEvent(tx) /\ (To("work") \/ \E g : tx' = Moved([tx EXCEPT !.taken = g], "work"))
           /\ (hist' = hist \/ \E s, v : hist' = [hist EXCEPT !.told = s, !.ver = v])
  <2>1. /\ DOMAIN hist' = HistFields /\ hist'.lost = hist.lost
        /\ hist'.out = hist.out /\ hist'.handed = hist.handed
    BY <1>0, <1>4 DEF HistFields
  <2>2. Placed(tx', buf) /\ ~IsEvent(tx')
    <3>1. CASE To("work")
      BY <1>0, <3>1, FlowMovedTo DEF To, Placed
    <3>2. CASE \E g : tx' = Moved([tx EXCEPT !.taken = g], "work")
      <4>1. PICK g : tx' = Moved([tx EXCEPT !.taken = g], "work")
        BY <3>2
      <4>2. DOMAIN [tx EXCEPT !.taken = g] = TxFields
        BY <1>0
      <4>3. QED
        BY <4>1, <4>2, FlowMovedTo DEF Placed
    <3>3. QED
      BY <1>4, <3>1, <3>2
  <2>3. Here(tx'.item) = {} /\ Here(tx.item) = {}
    BY <1>4, <2>2, NotHere
  <2>4. BufNums(buf') = BufNums(buf) /\ NumsOf(fifo') = NumsOf(fifo)
    BY <1>1
  <2>5. QED
    BY <1>0, <1>1, <2>1, <2>2, <2>3, <2>4, FlowMoves
<1>5. QED
  BY <1>2, <1>3, <1>4

(* A replay takes the oldest of the buffer, older than all else there is.  *)
LEMMA ReplayWriteKeeps ==
    ASSUME FlowInv, ReplayWrite
    PROVE  FlowInv' /\ NoneNew
<1>0. /\ DOMAIN tx = TxFields /\ Placed(tx, buf)
      /\ SessOK(sessq) /\ FifoOK(fifo) /\ BufOK(buf) /\ next \in Nat \ {0}
      /\ Order(BufNums(buf), Here(tx.item), NumsOf(fifo), next)
      /\ DOMAIN hist = HistFields /\ hist.handed \subseteq hist.out
  BY DEF FlowInv, Flowing, Told, Placed
<1>1. UNCHANGED <<fifo, sessq, next>> /\ At("replay")
  BY DEF ReplayWrite
<1> DEFINE N == IF buf = <<>> THEN {} ELSE {Head(buf)} \ {0}
<1>2. PICK o \in Outcomes :
          /\ To(IF Confirmed(o) THEN "offer" ELSE "drained")
          /\ buf' = IF Confirmed(o) /\ buf # <<>> THEN Tail(buf) ELSE buf
          /\ hist' = [hist EXCEPT
                !.out = IF o = "taken" THEN @ \cup N ELSE @,
                !.handed = IF o = "taken" /\ StillUp THEN @ \cup N ELSE @]
  BY DEF ReplayWrite
<1>3. /\ DOMAIN hist' = HistFields /\ hist'.lost = hist.lost
      /\ hist'.out = IF o = "taken" THEN hist.out \cup N ELSE hist.out
      /\ hist'.handed = IF o = "taken" /\ StillUp THEN hist.handed \cup N ELSE hist.handed
  BY <1>0, <1>2 DEF HistFields
<1>4. /\ N \subseteq BufNums(buf)
      /\ \A n \in N : \A b \in BufNums(buf) : ~(b < n)
  <2>1. CASE buf = <<>>
    BY <2>1
  <2>2. CASE buf # <<>>
    <3>1. /\ BufNums(buf) = ({Head(buf)} \ {0}) \cup BufNums(Tail(buf)) /\ Head(buf) \in Nat
          /\ Head(buf) # 0 => \A n \in BufNums(Tail(buf)) : Head(buf) < n
          /\ BufOK(Tail(buf))
      BY <1>0, <2>2, BufTail
    <3>2. \A n \in BufNums(Tail(buf)) : n \in Nat
      BY <3>1 DEF BufOK, BufNums
    <3>3. QED
      BY <2>2, <3>1, <3>2
  <2>3. QED
    BY <2>1, <2>2
<1>5. BufOK(buf') /\ BufNums(buf') \subseteq BufNums(buf)
      /\ BufNums(buf) \subseteq BufNums(buf') \cup hist'.handed
  <2>1. CASE Confirmed(o) /\ buf # <<>>
    <3>1. buf' = Tail(buf) /\ hist'.handed = hist.handed \cup N /\ N = {Head(buf)} \ {0}
      BY <1>2, <1>3, <2>1 DEF Confirmed
    <3>2. BufOK(Tail(buf)) /\ BufNums(buf) = ({Head(buf)} \ {0}) \cup BufNums(Tail(buf))
      BY <1>0, <2>1, BufTail
    <3>3. QED
      BY <3>1, <3>2
  <2>2. CASE ~(Confirmed(o) /\ buf # <<>>)
    <3>1. buf' = buf
      BY <1>2, <2>2
    <3>2. QED
      BY <1>0, <3>1
  <2>3. QED
    BY <2>1, <2>2
<1>6. Placed(tx', buf') /\ tx'.item = tx.item
  BY <1>0, <1>1, <1>2, FlowMovedTo DEF To, Placed, At, IsEvent
<1> HIDE DEF N
<1>7. ASSUME NEW n \in N PROVE \A m \in 1..(n - 1) : m \in hist.out \cup hist.lost
  <2>1. /\ n \in 1..(next - 1)
        /\ \A b \in BufNums(buf) : ~(b < n)
        /\ \A h \in Here(tx.item) : ~(h < n)
        /\ \A w \in NumsOf(fifo) : ~(w < n)
    BY <1>0, <1>4 DEF Order
  <2>2. QED
    BY <2>1, OlderGone
<1>8. \A n \in hist'.out \ hist.out : \A m \in 1..(n - 1) : m \in hist.out \cup hist.lost
  BY <1>3, <1>7
<1>9. Order(BufNums(buf'), Here(tx'.item), NumsOf(fifo'), next) /\ NumsOf(fifo') = NumsOf(fifo)
  BY <1>0, <1>1, <1>5, <1>6 DEF Order
<1>10. /\ hist.out \subseteq hist'.out /\ hist.handed \subseteq hist'.handed
       /\ hist'.handed \subseteq hist'.out
  BY <1>0, <1>3
<1>11. QED
  BY <1>0, <1>1, <1>3, <1>5, <1>6, <1>8, <1>9, <1>10, FlowMoves

-----------------------------------------------------------------------------
(* The stores: cloud_tx's, of an event younger than all the buffer holds,  *)
(* and a command's, of its cmd_ack.                                        *)

LEMMA StoreCheckKeeps ==
    ASSUME FlowInv, StoreCheck
    PROVE  FlowInv' /\ NoneNew
<1>0. /\ DOMAIN tx = TxFields /\ IsEvent(tx)
      /\ SessOK(sessq) /\ FifoOK(fifo) /\ BufOK(buf) /\ next \in Nat \ {0}
      /\ Order(BufNums(buf), Here(tx.item), NumsOf(fifo), next)
      /\ DOMAIN hist = HistFields /\ hist.handed \subseteq hist.out
  BY DEF FlowInv, Flowing, Told, Placed, StoreCheck, At
<1>1. UNCHANGED <<fifo, sessq, buf, next>>
  BY DEF StoreCheck
<1>2. BufNums(buf') = BufNums(buf) /\ NumsOf(fifo') = NumsOf(fifo)
  BY <1>1
<1>3. CASE To("work") /\ Lost(Here(tx.item) \ hist.handed)
  <2>1. Placed(tx', buf) /\ ~IsEvent(tx') /\ Here(tx'.item) = {}
    BY <1>0, <1>3, FlowMovedTo, NotHere DEF To, Placed
  <2>2. /\ DOMAIN hist' = HistFields /\ hist'.lost = hist.lost \cup (Here(tx.item) \ hist.handed)
        /\ hist'.out = hist.out /\ hist'.handed = hist.handed
    BY <1>0, <1>3 DEF Lost, HistFields
  <2>3. Order(BufNums(buf), {}, NumsOf(fifo), next)
    BY <1>0 DEF Order
  <2>4. QED
    BY <1>0, <1>1, <1>2, <2>1, <2>2, <2>3, FlowMoves
<1>4. CASE tx' = [tx EXCEPT !.pc = "storing", !.ret = tx.pc] /\ UNCHANGED hist
  <2>1. Placed(tx', buf) /\ tx'.item = tx.item
    BY <1>0, <1>4 DEF Placed, TxFields, IsEvent
  <2>2. QED
    BY <1>0, <1>1, <1>4, <2>1, FlowKept
<1>5. QED
  BY <1>3, <1>4 DEF StoreCheck

LEMMA StoreKeeps ==
    ASSUME FlowInv, Store
    PROVE  FlowInv' /\ NoneNew
<1>0. /\ DOMAIN tx = TxFields /\ IsEvent(tx)
      /\ SessOK(sessq) /\ FifoOK(fifo) /\ BufOK(buf) /\ next \in Nat \ {0}
      /\ Order(BufNums(buf), Here(tx.item), NumsOf(fifo), next)
      /\ DOMAIN hist = HistFields /\ hist.handed \subseteq hist.out
  BY DEF FlowInv, Flowing, Told, Placed, Store, At
<1>1. /\ UNCHANGED <<fifo, sessq, next>> /\ To("work")
      /\ buf' = Kept(buf, tx.item.n) /\ Lost(Dropped(buf))
  BY DEF Store
<1> DEFINE n == tx.item.n
<1>2. Here(tx.item) = {n} /\ n \in 1..(next - 1) /\ \A k \in BufNums(buf) : k < n
  BY <1>0 DEF Here, IsEvent, Order
<1>3. n \in Nat /\ {n} \ {0} = {n}
  BY <1>0, <1>2
<1> HIDE DEF n
<1>4. /\ BufOK(buf') /\ BufNums(buf') \subseteq BufNums(buf) \cup {n}
      /\ BufNums(buf) \cup {n} \subseteq BufNums(buf') \cup Dropped(buf)
  BY <1>0, <1>1, <1>2, <1>3, BufKept DEF n
<1>5. Placed(tx', buf') /\ ~IsEvent(tx') /\ Here(tx'.item) = {}
  BY <1>0, <1>1, FlowMovedTo, NotHere DEF To, Placed
<1>6. /\ DOMAIN hist' = HistFields /\ hist'.lost = hist.lost \cup Dropped(buf)
      /\ hist'.out = hist.out /\ hist'.handed = hist.handed
  BY <1>0, <1>1 DEF Lost, HistFields
<1>7. Order(BufNums(buf'), {}, NumsOf(fifo), next) /\ NumsOf(fifo') = NumsOf(fifo)
  BY <1>0, <1>1, <1>2, <1>4 DEF Order
<1>8. QED
  BY <1>0, <1>1, <1>2, <1>4, <1>5, <1>6, <1>7, FlowMoves

(* A store that fails gives the event up.                                  *)
LEMMA StoreFailsKeeps ==
    ASSUME FlowInv, StoreFails
    PROVE  FlowInv' /\ NoneNew
<1>0. /\ DOMAIN tx = TxFields
      /\ SessOK(sessq) /\ FifoOK(fifo) /\ BufOK(buf) /\ next \in Nat \ {0}
      /\ Order(BufNums(buf), Here(tx.item), NumsOf(fifo), next)
      /\ DOMAIN hist = HistFields /\ hist.handed \subseteq hist.out
  BY DEF FlowInv, Flowing, Told, Placed
<1>1. UNCHANGED <<fifo, sessq, buf, next>> /\ To("work") /\ Lost(Here(tx.item))
  BY DEF StoreFails
<1>2. BufNums(buf') = BufNums(buf) /\ NumsOf(fifo') = NumsOf(fifo)
  BY <1>1
<1>3. Placed(tx', buf') /\ ~IsEvent(tx') /\ Here(tx'.item) = {}
  BY <1>0, <1>1, FlowMovedTo, NotHere DEF To, Placed
<1>4. /\ DOMAIN hist' = HistFields /\ hist'.lost = hist.lost \cup Here(tx.item)
      /\ hist'.out = hist.out /\ hist'.handed = hist.handed
  BY <1>0, <1>1 DEF Lost, HistFields
<1>5. Order(BufNums(buf), {}, NumsOf(fifo), next)
  BY <1>0 DEF Order
<1>6. QED
  BY <1>0, <1>1, <1>2, <1>3, <1>4, <1>5, FlowMoves

(* The replay drops the oldest entry, and gives up the event there.        *)
LEMMA ReplayDropKeeps ==
    ASSUME FlowInv, ReplayDrop
    PROVE  FlowInv' /\ NoneNew
<1>0. /\ DOMAIN tx = TxFields /\ Placed(tx, buf)
      /\ SessOK(sessq) /\ FifoOK(fifo) /\ BufOK(buf) /\ next \in Nat \ {0}
      /\ Order(BufNums(buf), Here(tx.item), NumsOf(fifo), next)
      /\ DOMAIN hist = HistFields /\ hist.handed \subseteq hist.out
  BY DEF FlowInv, Flowing, Told, Placed
<1>1. /\ UNCHANGED <<fifo, sessq, next, tx>> /\ At("offer")
      /\ buf # <<>> /\ buf' = Tail(buf) /\ Lost({Head(buf)} \ {0})
  BY DEF ReplayDrop
<1>2. BufOK(buf') /\ BufNums(buf) = ({Head(buf)} \ {0}) \cup BufNums(buf')
  BY <1>0, <1>1, BufTail
<1>3. Placed(tx', buf')
  BY <1>0, <1>1 DEF Placed, At, IsEvent
<1>4. /\ DOMAIN hist' = HistFields /\ hist'.lost = hist.lost \cup ({Head(buf)} \ {0})
      /\ hist'.out = hist.out /\ hist'.handed = hist.handed
  BY <1>0, <1>1 DEF Lost, HistFields
<1>5. Order(BufNums(buf'), Here(tx.item), NumsOf(fifo), next) /\ NumsOf(fifo') = NumsOf(fifo)
  BY <1>0, <1>1, <1>2 DEF Order
<1>6. QED
  BY <1>0, <1>1, <1>2, <1>3, <1>4, <1>5, FlowMoves

LEMMA CmdAckKeeps ==
    ASSUME FlowInv, CmdAck
    PROVE  FlowInv' /\ NoneNew
<1>0. /\ DOMAIN tx = TxFields /\ Placed(tx, buf)
      /\ SessOK(sessq) /\ FifoOK(fifo) /\ BufOK(buf) /\ next \in Nat \ {0}
      /\ Order(BufNums(buf), Here(tx.item), NumsOf(fifo), next)
      /\ DOMAIN hist = HistFields /\ hist.handed \subseteq hist.out
  BY DEF FlowInv, Flowing, Told, Placed
<1>1. UNCHANGED <<fifo, sessq, next, tx>> /\ buf' = Kept(buf, 0) /\ Lost(Dropped(buf))
  BY DEF CmdAck
<1>2. /\ BufOK(buf') /\ BufNums(buf') \subseteq BufNums(buf)
      /\ BufNums(buf) \subseteq BufNums(buf') \cup Dropped(buf)
  BY <1>0, <1>1, BufKept
<1>3. Placed(tx', buf')
  BY <1>0, <1>1, <1>2 DEF Placed, IsEvent
<1>4. /\ DOMAIN hist' = HistFields /\ hist'.lost = hist.lost \cup Dropped(buf)
      /\ hist'.out = hist.out /\ hist'.handed = hist.handed
  BY <1>0, <1>1 DEF Lost, HistFields
<1>5. Order(BufNums(buf'), Here(tx.item), NumsOf(fifo), next) /\ NumsOf(fifo') = NumsOf(fifo)
  BY <1>0, <1>1, <1>2 DEF Order
<1>6. QED
  BY <1>0, <1>1, <1>2, <1>3, <1>4, <1>5, FlowMoves

-----------------------------------------------------------------------------
(* iothub_task's posts.                                                    *)

LEMMA SessionBlockKeeps ==
    ASSUME FlowInv, SessionBlock
    PROVE  FlowInv' /\ NoneNew
<1>0. Placed(tx, buf) /\ SessOK(sessq)
  BY DEF FlowInv, Flowing
<1>1. UNCHANGED <<fifo, buf, next, hist, tx>>
  BY DEF SessionBlock
<1>2. \E q \in {sessq, Append(sessq, Lifecycle(gen))} : sessq' \in {q, Append(q, Report(gen))}
  BY DEF SessionBlock
<1>3. ASSUME NEW q, SessOK(q), NEW x, x.kind # "event" PROVE SessOK(Append(q, x))
  <2> DEFINE m == Len(q)
             g == Append(q, x)
  <2>1. /\ IsList(g) /\ m \in Nat /\ DOMAIN q = 1..m /\ DOMAIN g = 1..(m + 1)
        /\ \A i \in 1..m : g[i] = q[i]
        /\ g[m + 1] = x
    BY <1>3, ListAppend DEF SessOK
  <2> HIDE DEF m, g
  <2>2. \A i \in DOMAIN g : i \in DOMAIN q \/ i = m + 1
    BY <2>1
  <2>3. SessOK(g)
    BY <1>3, <2>1, <2>2 DEF SessOK
  <2>4. QED
    BY <2>3 DEF g
<1>4. Lifecycle(gen).kind # "event" /\ Report(gen).kind # "event"
  BY DEF Lifecycle, Report
<1>5. SessOK(sessq')
  <2>1. PICK q \in {sessq, Append(sessq, Lifecycle(gen))} : sessq' \in {q, Append(q, Report(gen))}
    BY <1>2
  <2>2. SessOK(q)
    BY <1>0, <1>3, <1>4, <2>1
  <2>3. QED
    BY <1>3, <1>4, <2>1, <2>2
<1>6. QED
  BY <1>0, <1>1, <1>5, FlowKept

(* A report or a clear, into the queue.                                    *)
LEMMA PostKeeps ==
    ASSUME FlowInv, PostTwin \/ PostClear
    PROVE  FlowInv' /\ NoneNew
<1>0. /\ Placed(tx, buf)
      /\ SessOK(sessq) /\ FifoOK(fifo) /\ BufOK(buf) /\ next \in Nat \ {0}
      /\ Order(BufNums(buf), Here(tx.item), NumsOf(fifo), next)
      /\ DOMAIN hist = HistFields /\ hist.handed \subseteq hist.out
  BY DEF FlowInv, Flowing, Told
<1>1. UNCHANGED <<sessq, buf, next, tx, hist>>
  BY DEF PostTwin, PostClear
<1>2. \E x \in {Report(gen), ClearItem} : fifo' = Append(fifo, x)
  BY DEF PostTwin, PostClear
<1>3. Report(gen).kind # "event" /\ ClearItem.kind # "event"
  BY DEF Report, ClearItem
<1>4. FifoOK(fifo') /\ NumsOf(fifo') = NumsOf(fifo)
  <2>1. PICK x \in {Report(gen), ClearItem} : fifo' = Append(fifo, x)
    BY <1>2
  <2>2. x.kind # "event" /\ Here(x) = {}
    BY <1>3, <2>1 DEF Here
  <2>3. QED
    BY <1>0, <2>1, <2>2, FifoAppend
<1>5. BufNums(buf') = BufNums(buf) /\ Here(tx'.item) = Here(tx.item)
  BY <1>1
<1>6. QED
  BY <1>0, <1>1, <1>4, <1>5, FlowMoves

(* The one step that builds an event: the youngest, into the queue, or lost*)
(* with no room there.                                                     *)
LEMMA PostEventKeeps ==
    ASSUME FlowInv, PostEvent
    PROVE  FlowInv'
<1>0. /\ Placed(tx, buf)
      /\ SessOK(sessq) /\ FifoOK(fifo) /\ BufOK(buf) /\ next \in Nat \ {0}
      /\ Order(BufNums(buf), Here(tx.item), NumsOf(fifo), next)
      /\ DOMAIN hist = HistFields /\ hist.handed \subseteq hist.out
  BY DEF FlowInv, Flowing, Told
<1>1. UNCHANGED <<sessq, buf, tx>> /\ next' = next + 1
  BY DEF PostEvent
<1>2. Order(BufNums(buf), Here(tx.item), NumsOf(fifo) \cup {next}, next + 1)
      /\ Order(BufNums(buf), Here(tx.item), NumsOf(fifo), next + 1)
  BY <1>0 DEF Order
<1>3. \A n \in 1..(next' - 1) : n \in 1..(next - 1) \/ n = next
  BY <1>0, <1>1
<1>4. /\ DOMAIN hist' = HistFields /\ hist.lost \subseteq hist'.lost
      /\ hist'.out = hist.out /\ hist'.handed = hist.handed
  BY <1>0 DEF PostEvent, Lost, HistFields
<1>5. FifoOK(fifo') /\ NumsOf(fifo) \subseteq NumsOf(fifo')
      /\ Order(BufNums(buf), Here(tx.item), NumsOf(fifo'), next + 1)
      /\ next \in NumsOf(fifo') \cup hist'.lost
  <2>1. CASE fifo' = Append(fifo, EventItem(next, ~synced))
    <3>1. EventItem(next, ~synced).kind = "event" /\ EventItem(next, ~synced).n = next
      BY DEF EventItem
    <3>2. \A w \in NumsOf(fifo) : w < next
      BY <1>0 DEF Order
    <3>3. FifoOK(fifo') /\ NumsOf(fifo') = NumsOf(fifo) \cup {next}
      <4> DEFINE x == EventItem(next, ~synced)
      <4>1. x.kind = "event" /\ x.n = next
        BY <3>1
      <4> HIDE DEF x
      <4>2. Here(x) = {next}
        BY <4>1 DEF Here
      <4>3. QED
        BY <1>0, <2>1, <3>2, <4>1, <4>2, FifoAppend DEF x
    <3>4. QED
      BY <1>2, <3>3
  <2>2. CASE UNCHANGED fifo /\ Lost({next})
    <3>1. next \in hist'.lost
      BY <1>0, <2>2 DEF Lost, HistFields
    <3>2. NumsOf(fifo') = NumsOf(fifo) /\ FifoOK(fifo')
      BY <1>0, <2>2
    <3>3. QED
      BY <1>2, <3>1, <3>2
  <2>3. QED
    BY <2>1, <2>2 DEF PostEvent
<1>6. Flowing'
  <2>1. next' \in Nat \ {0}
    BY <1>0, <1>1
  <2>2. Order(BufNums(buf'), Here(tx'.item), NumsOf(fifo'), next')
    BY <1>1, <1>5
  <2>3. FifoOK(fifo') /\ BufOK(buf') /\ SessOK(sessq') /\ Placed(tx', buf')
    BY <1>0, <1>1, <1>5
  <2>4. QED
    BY <2>1, <2>2, <2>3
       DEF Flowing, NumsOf, FifoOK, BufOK, SessOK, Placed, Order, BufNums, Here, IsEvent, IsList
<1>7. \A n \in 1..(next' - 1) :
          n \in NumsOf(fifo') \cup Here(tx'.item) \cup BufNums(buf') \cup hist'.handed \cup hist'.lost
  <2>1. \A n \in 1..(next - 1) :
            n \in NumsOf(fifo) \cup Here(tx.item) \cup BufNums(buf) \cup hist.handed \cup hist.lost
    BY DEF FlowInv, Told
  <2>2. QED
    BY <1>1, <1>3, <1>4, <1>5, <2>1
<1>8. CausesFirst'
  BY <1>4 DEF FlowInv, Told, CausesFirst
<1>9. QED
  BY <1>0, <1>4, <1>6, <1>7, <1>8 DEF FlowInv, Told, NumsOf, BufNums, Here

-----------------------------------------------------------------------------
(* A decommission's erase and the restarts: what they lose is recorded.    *)

LEMMA EraseKeeps ==
    ASSUME FlowInv, ClearTimesOut
    PROVE  FlowInv' /\ NoneNew
<1>0. /\ DOMAIN tx = TxFields /\ Placed(tx, buf)
      /\ SessOK(sessq) /\ FifoOK(fifo) /\ BufOK(buf) /\ next \in Nat \ {0}
      /\ Order(BufNums(buf), Here(tx.item), NumsOf(fifo), next)
      /\ DOMAIN hist = HistFields /\ hist.handed \subseteq hist.out
  BY DEF FlowInv, Flowing, Told, Placed
<1>1. UNCHANGED <<fifo, sessq, next, tx>> /\ buf' = <<>> /\ Lost(BufNums(buf))
  BY DEF ClearTimesOut, Buffered, BufNums
<1>2. BufOK(buf') /\ BufNums(buf') = {} /\ NumsOf(fifo') = NumsOf(fifo)
  BY <1>1, BufEmpty
<1>3. Placed(tx', buf')
  BY <1>0, <1>1, <1>2 DEF Placed, IsEvent
<1>4. /\ DOMAIN hist' = HistFields /\ hist'.lost = hist.lost \cup BufNums(buf)
      /\ hist'.out = hist.out /\ hist'.handed = hist.handed
  BY <1>0, <1>1 DEF Lost, HistFields
<1>5. Order({}, Here(tx.item), NumsOf(fifo), next)
  BY <1>0 DEF Order
<1>6. QED
  BY <1>0, <1>1, <1>2, <1>3, <1>4, <1>5, FlowMoves

LEMMA FreshPlaced == \A b : Placed(TxFresh, b) /\ Here(TxFresh.item) = {}
BY DEF TxFresh, NoItem, Placed, TxFields, IsEvent, Here

LEMMA FlowRestartKeeps ==
    ASSUME FlowInv, Restart \/ DecomRestart
    PROVE  FlowInv' /\ NoneNew
<1>0. /\ FifoOK(fifo) /\ BufOK(buf) /\ next \in Nat \ {0}
      /\ Order(BufNums(buf), Here(tx.item), NumsOf(fifo), next)
      /\ DOMAIN hist = HistFields /\ hist.handed \subseteq hist.out
  BY DEF FlowInv, Flowing, Told
<1>b. PICK b \in {buf, <<>>} : \E past : Restarted(b, past)
  BY DEF Restart, DecomRestart, SecondErase
<1>1. PICK past : Restarted(b, past)
  BY <1>b
<1>2. /\ fifo' = <<>> /\ sessq' = <<>> /\ buf' = b /\ tx' = TxFresh /\ next' = next
  BY <1>1 DEF Restarted
<1>3. /\ DOMAIN hist' = HistFields /\ hist'.out = hist.out /\ hist'.handed = hist.handed
      /\ hist'.lost = hist.lost \cup
            ((NumsOf(fifo) \cup Here(tx.item) \cup BufNums(buf)) \ ({b[i] : i \in DOMAIN b} \cup hist.handed))
  BY <1>0, <1>1 DEF Restarted, HistFields, Waiting, NumsOf, Buffered, BufNums
<1>4. BufOK(b) /\ BufNums(b) \subseteq BufNums(buf)
  BY <1>0, BufEmpty
<1>5. FifoOK(fifo') /\ NumsOf(fifo') = {} /\ SessOK(sessq')
  BY <1>2, FifoEmpty, EmptyIsList DEF SessOK
<1>6. Order(BufNums(b), {}, {}, next)
  BY <1>0, <1>4 DEF Order
<1>7. BufNums(buf) \cup Here(tx.item) \cup NumsOf(fifo)
          \subseteq BufNums(b) \cup hist'.handed \cup hist'.lost
  <2>1. \A n \in BufNums(buf) \cup Here(tx.item) \cup NumsOf(fifo) : n # 0
    BY <1>0 DEF Order
  <2>2. \A n \in {b[i] : i \in DOMAIN b} : n # 0 => n \in BufNums(b)
    BY DEF BufNums
  <2>3. QED
    BY <1>3, <2>1, <2>2
<1>8. Placed(tx', buf') /\ Here(tx'.item) = {}
  BY <1>2, FreshPlaced
<1>9. BufOK(buf') /\ BufNums(buf') = BufNums(b)
  BY <1>2, <1>4
<1>10. QED
  BY <1>0, <1>2, <1>3, <1>4, <1>5, <1>6, <1>7, <1>8, <1>9, FlowMoves

-----------------------------------------------------------------------------

LEMMA FlowInvInductive == FlowInv /\ [Next]_vars => FlowInv'
<1> SUFFICES ASSUME FlowInv, [Next]_vars PROVE FlowInv'
  OBVIOUS
<1>1. CASE UNCHANGED <<fifo, sessq, buf, next, tx, hist>>
  <2>1. SessOK(sessq') /\ Placed(tx', buf)
    BY <1>1 DEF FlowInv, Flowing
  <2>2. QED
    BY <1>1, <2>1, FlowKept
<1>2. CASE (SessionNext /\ UNCHANGED txVars) \/ TwinRequest \/ Decommission \/ Rest \/ UNCHANGED vars
  BY <1>1, <1>2 DEF TwinRequest, Decommission, Rest, vars, txVars
<1>3. CASE TxSteps \/ HoldLapses
  BY <1>3, SessionWorkKeeps, ServiceKeeps, GateKeeps, WriteKeeps, StoreCheckKeeps, StoreKeeps,
     StoreFailsKeeps, ReplayDropKeeps, ReplayWriteKeeps DEF TxSteps
<1>4. CASE HubSteps \/ PostEvent
  BY <1>4, SessionBlockKeeps, PostKeeps, PostEventKeeps, FlowRestartKeeps DEF HubSteps
<1>5. CASE CmdAck \/ ClearTimesOut \/ Restart
  BY <1>5, CmdAckKeeps, EraseKeeps, FlowRestartKeeps
<1>6. QED
  BY <1>2, <1>3, <1>4, <1>5 DEF Next

LEMMA FlowInvInitially == Init => FlowInv
<1> SUFFICES ASSUME Init PROVE FlowInv
  OBVIOUS
<1>1. /\ fifo = <<>> /\ sessq = <<>> /\ buf = <<>> /\ next = 1 /\ tx = TxFresh
      /\ DOMAIN hist = HistFields /\ hist.out = {} /\ hist.handed = {}
  BY DEF Init, HistFields
<1>2. /\ FifoOK(fifo) /\ NumsOf(fifo) = {} /\ BufOK(buf) /\ BufNums(buf) = {} /\ SessOK(sessq)
      /\ Placed(tx, buf) /\ Here(tx.item) = {}
  BY <1>1, FifoEmpty, BufEmpty, EmptyIsList, FreshPlaced DEF SessOK
<1>3. Flowing
  BY <1>1, <1>2 DEF Flowing, Order
<1>4. Told
  BY <1>1 DEF Told, CausesFirst
<1>5. QED
  BY <1>3, <1>4 DEF FlowInv

(* An event is in the queue, in cloud_tx's hands, in the buffer or with a  *)
(* session that was still up, or the code gave it up: a full queue or      *)
(* buffer, a store that failed, a reset before the store or before the     *)
(* stored event had its time, an entry that could not be read, a           *)
(* decommission.  No refused, torn or unconfirmed publish of               *)
(* telemetry_v2.c drops one (A-1).                                         *)
THEOREM NoSilentLossHolds == Spec => []NoSilentLoss
<1>1. FlowInv => NoSilentLoss
  BY DEF FlowInv, Told, NoSilentLoss, NumsOf, Waiting, BufNums, Buffered
<1>2. QED
  BY <1>1, FlowInvInitially, FlowInvInductive, PTL DEF Spec

(* Whatever goes up or down and whenever, esp-mqtt takes an event only when*)
(* it has taken every older one that is not lost: send_str()'s replay goes *)
(* first, and what it cuts short sends the event to the buffer behind it   *)
(* (F-08).                                                                 *)
THEOREM CausesFirstHolds == Spec => []CausesFirst
<1>1. FlowInv => CausesFirst
  BY DEF FlowInv, Told
<1>2. QED
  BY <1>1, FlowInvInitially, FlowInvInductive, PTL DEF Spec

-----------------------------------------------------------------------------
(* A decommission.  Its clear is behind every event of the deployment it   *)
(* ends, and no event is built while it is on, so that its end finds none; *)
(* an event held is always of the deployment that is on.                   *)

HasClear(f) == \E i \in DOMAIN f : f[i].kind = "clear"
ClearLast(f) ==
    \A i, j \in DOMAIN f : f[i].kind = "clear" /\ i < j => f[j].kind # "event"

ErasedTrue ==
    /\ decomDone => hub = "clearing" /\ Held = {}
    /\ HasClear(fifo) => hub \in {"clearing", "erased"}
    /\ ClearLast(fifo)
    /\ hub = "erased" => frozen

PastGone ==
    /\ hist.past \in 0..(next - 1)
    /\ \A n \in Held : hist.past < n

EndedInv == ErasedTrue /\ PastGone

LEMMA ClearTail ==
    ASSUME NEW f, FifoOK(f), f # <<>>, ClearLast(f)
    PROVE  /\ ClearLast(Tail(f))
           /\ HasClear(Tail(f)) => HasClear(f)
           /\ Head(f).kind = "clear" => HasClear(f) /\ NumsOf(Tail(f)) = {}
<1> DEFINE m == Len(f)
           g == Tail(f)
<1>1. /\ Head(f) = f[1] /\ m \in Nat \ {0}
      /\ DOMAIN f = 1..m /\ DOMAIN g = 1..(m - 1)
      /\ \A i \in 1..(m - 1) : g[i] = f[i + 1]
  BY ListTail DEF FifoOK
<1> HIDE DEF m, g
<1>2. \A i \in DOMAIN g : i + 1 \in DOMAIN f /\ g[i] = f[i + 1] /\ i \in Nat \ {0}
  BY <1>1
<1>3. ClearLast(g)
  <2> SUFFICES ASSUME NEW i \in DOMAIN g, NEW j \in DOMAIN g, g[i].kind = "clear", i < j
               PROVE  g[j].kind # "event"
    BY DEF ClearLast
  <2>1. i + 1 \in DOMAIN f /\ j + 1 \in DOMAIN f /\ i + 1 < j + 1 /\ f[i + 1].kind = "clear"
    BY <1>2
  <2>2. QED
    BY <1>2, <2>1 DEF ClearLast
<1>4. HasClear(g) => HasClear(f)
  BY <1>2 DEF HasClear
<1>5. ASSUME f[1].kind = "clear" PROVE HasClear(f) /\ NumsOf(g) = {}
  <2>1. 1 \in DOMAIN f
    BY <1>1
  <2>2. ASSUME NEW i \in DOMAIN g PROVE g[i].kind # "event"
    <3>1. i + 1 \in DOMAIN f /\ 1 < i + 1 /\ g[i] = f[i + 1]
      BY <1>2
    <3>2. QED
      BY <1>5, <2>1, <3>1 DEF ClearLast
  <2>3. QED
    BY <1>5, <2>1, <2>2 DEF HasClear, NumsOf
<1>6. QED
  BY <1>1, <1>3, <1>4, <1>5 DEF g

(* An item behind no clear, or no event, leaves every clear last.          *)
LEMMA ClearAppend ==
    ASSUME NEW f, FifoOK(f), ClearLast(f), NEW x, x.kind # "event" \/ ~HasClear(f)
    PROVE  /\ ClearLast(Append(f, x))
           /\ HasClear(Append(f, x)) => HasClear(f) \/ x.kind = "clear"
<1> DEFINE m == Len(f)
           g == Append(f, x)
<1>1. /\ m \in Nat /\ DOMAIN f = 1..m /\ DOMAIN g = 1..(m + 1)
      /\ \A i \in 1..m : g[i] = f[i]
      /\ g[m + 1] = x
  BY ListAppend DEF FifoOK
<1> HIDE DEF m, g
<1>2. ClearLast(g)
  <2> SUFFICES ASSUME NEW i \in DOMAIN g, NEW j \in DOMAIN g, g[i].kind = "clear", i < j
               PROVE  g[j].kind # "event"
    BY DEF ClearLast
  <2>1. i \in DOMAIN f /\ f[i].kind = "clear"
    BY <1>1
  <2>2. CASE j \in DOMAIN f
    BY <1>1, <2>1, <2>2 DEF ClearLast
  <2>3. CASE j = m + 1
    BY <1>1, <2>1, <2>3 DEF HasClear
  <2>4. QED
    BY <1>1, <2>2, <2>3
<1>3. HasClear(g) => HasClear(f) \/ x.kind = "clear"
  BY <1>1 DEF HasClear
<1>4. QED
  BY <1>2, <1>3 DEF g

(* A step that ends, begins and builds nothing.                            *)
LEMMA EndedMoves ==
    ASSUME FlowInv, EndedInv, NoneNew, UNCHANGED <<next, decomDone>>, hist'.past = hist.past,
           fifo' = fifo \/ (fifo # <<>> /\ fifo' = Tail(fifo)),
           hub' = hub \/ (hub \in {"loop", "mark"} /\ hub' \in {"loop", "mark", "decom"}),
           frozen' = frozen
    PROVE  EndedInv'
<1>1. FifoOK(fifo)
  BY DEF FlowInv, Flowing
<1>2. ClearLast(fifo') /\ (HasClear(fifo') => HasClear(fifo))
  BY <1>1, ClearTail DEF EndedInv, ErasedTrue
<1>3. ErasedTrue'
  <2>1. ClearLast(fifo)' /\ (HasClear(fifo)' => hub' \in {"clearing", "erased"})
    BY <1>2 DEF EndedInv, ErasedTrue, ClearLast, HasClear
  <2>2. decomDone' => hub' = "clearing" /\ Held' = {}
    BY DEF EndedInv, ErasedTrue, NoneNew
  <2>3. QED
    BY <2>1, <2>2 DEF EndedInv, ErasedTrue
<1>4. PastGone'
  BY DEF EndedInv, PastGone, NoneNew
<1>5. QED
  BY <1>3, <1>4 DEF EndedInv

(* cloud_tx's steps but for the clear.                                     *)
LEMMA TxEnded ==
    ASSUME FlowInv, EndedInv, TxSteps \/ HoldLapses, UNCHANGED decomDone
    PROVE  EndedInv'
<1>1. NoneNew
  BY SessionWorkKeeps, ServiceKeeps, GateKeeps, WriteKeeps, StoreCheckKeeps, StoreKeeps,
     StoreFailsKeeps, ReplayDropKeeps, ReplayWriteKeeps DEF TxSteps
<1>2. UNCHANGED <<next, hub, frozen>>
  BY DEF TxSteps, HoldLapses, CheckSession, TakeSession, HandleSession, Proceed, ServiceOne, Gate,
         Write, StoreCheck, Store, StoreFails, ReplayGate, ReplayDrop, ReplayWrite, DrainFails,
         DrainEnds, Stamp, sessVars
<1>3. fifo' = fifo \/ (fifo # <<>> /\ fifo' = Tail(fifo))
  BY DEF TxSteps, HoldLapses, CheckSession, TakeSession, HandleSession, Proceed, ServiceOne, Gate,
         Write, StoreCheck, Store, StoreFails, ReplayGate, ReplayDrop, ReplayWrite, DrainFails,
         DrainEnds, Stamp
<1>4. hist'.past = hist.past
  <2>0. DOMAIN hist = HistFields
    BY DEF FlowInv, Told
  <2>1. CASE \E S : Lost(S)
    BY <2>0, <2>1 DEF Lost, HistFields
  <2>2. CASE Write
    BY <2>0, <2>2 DEF Write, HistFields
  <2>3. CASE ReplayWrite
    BY <2>0, <2>3 DEF ReplayWrite, HistFields
  <2>4. CASE UNCHANGED hist
    BY <2>4
  <2>5. QED
    BY <2>1, <2>2, <2>3, <2>4
       DEF TxSteps, HoldLapses, CheckSession, TakeSession, HandleSession, Proceed, ServiceOne, Gate,
           StoreCheck, Store, StoreFails, ReplayGate, ReplayDrop, DrainFails, DrainEnds, Stamp
<1>5. QED
  BY <1>1, <1>2, <1>3, <1>4, EndedMoves

(* The clear comes with no event behind it, or in anybody's hands.         *)
LEMMA ClearEnded ==
    ASSUME FlowInv, EndedInv, ServiceOne, decomDone' # decomDone
    PROVE  EndedInv'
<1>0. /\ DOMAIN tx = TxFields /\ ~IsEvent(tx) /\ FifoOK(fifo) /\ DOMAIN hist = HistFields
      /\ next \in Nat \ {0}
  BY DEF FlowInv, Flowing, Told, Placed, ServiceOne, At
<1>1. /\ fifo # <<>> /\ fifo' = Tail(fifo) /\ Head(fifo).kind = "clear" /\ ~frozen
      /\ buf' = <<>> /\ Lost(Buffered) /\ decomDone' = TRUE /\ To("work")
      /\ UNCHANGED <<hub, next, frozen>>
  BY DEF ServiceOne, sessVars
<1>2. /\ ClearLast(fifo') /\ (HasClear(fifo') => HasClear(fifo))
      /\ HasClear(fifo) /\ NumsOf(fifo') = {}
  BY <1>0, <1>1, ClearTail DEF EndedInv, ErasedTrue
<1>3. BufNums(buf') = {} /\ Here(tx'.item) = {}
  BY <1>0, <1>1, BufEmpty, FlowMovedTo, NotHere DEF To
<1>4. Held' = {}
  BY <1>2, <1>3 DEF Held, NumsOf, BufNums, Here
<1>5. hub' = "clearing"
  BY <1>1, <1>2 DEF EndedInv, ErasedTrue
<1>6. ErasedTrue'
  BY <1>2, <1>4, <1>5 DEF ErasedTrue, ClearLast, HasClear
<1>7. hist'.past = hist.past
  BY <1>0, <1>1 DEF Lost, HistFields
<1>8. QED
  BY <1>1, <1>4, <1>6, <1>7 DEF EndedInv, PastGone

(* iothub_task and the commands.                                           *)
LEMMA HubEnded ==
    ASSUME FlowInv, EndedInv, PostEvent \/ PostTwin \/ PostClear
    PROVE  EndedInv'
<1>0. /\ FifoOK(fifo) /\ DOMAIN hist = HistFields /\ next \in Nat \ {0}
      /\ Held \subseteq 1..(next - 1)
  BY DEF FlowInv, Flowing, Told, Order, Held
<1>1. /\ UNCHANGED <<buf, tx, frozen, decomDone>> /\ hub \in {"loop", "decom"}
  BY DEF PostEvent, PostTwin, PostClear, sessVars
<1>2. ~HasClear(fifo) /\ ~decomDone /\ ClearLast(fifo)
  BY <1>1 DEF EndedInv, ErasedTrue
<1>3. hist'.past = hist.past /\ next' \in {next, next + 1}
  BY <1>0 DEF PostEvent, PostTwin, PostClear, Lost, HistFields
<1>4. CASE fifo' = Append(fifo, EventItem(next, ~synced)) /\ UNCHANGED hub /\ hub = "loop" /\ next' = next + 1
  <2> DEFINE x == EventItem(next, ~synced)
  <2>1. x.kind = "event" /\ x.n = next /\ Here(x) = {next}
    BY DEF EventItem, Here
  <2> HIDE DEF x
  <2>2. ClearLast(fifo') /\ ~HasClear(fifo')
    BY <1>0, <1>2, <1>4, <2>1, ClearAppend DEF x
  <2>3. \A w \in NumsOf(fifo) : w < next
    BY <1>0 DEF Held
  <2>4. NumsOf(fifo') = NumsOf(fifo) \cup {next}
    BY <1>0, <1>4, <2>1, <2>3, FifoAppend DEF x
  <2>5. Held' = Held \cup {next}
    BY <1>1, <2>4 DEF Held, NumsOf, BufNums, Here
  <2>6. ErasedTrue'
    BY <1>1, <1>2, <1>4, <2>2 DEF ErasedTrue, ClearLast, HasClear
  <2>7. PastGone'
    BY <1>0, <1>3, <1>4, <2>5 DEF EndedInv, PastGone
  <2>8. QED
    BY <2>6, <2>7 DEF EndedInv
<1>5. CASE UNCHANGED <<fifo, hub>>
  <2>1. Held' = Held
    BY <1>1, <1>5 DEF Held, NumsOf, BufNums, Here
  <2>2. ErasedTrue'
    BY <1>1, <1>5, <2>1 DEF EndedInv, ErasedTrue, ClearLast, HasClear
  <2>3. PastGone'
    BY <1>0, <1>3, <2>1 DEF EndedInv, PastGone
  <2>4. QED
    BY <2>2, <2>3 DEF EndedInv
<1>6. CASE PostTwin \/ PostClear
  <2>1. PICK x \in {Report(gen), ClearItem} :
            fifo' = Append(fifo, x) /\ (x.kind = "clear" => hub' = "clearing")
    BY <1>6 DEF PostTwin, PostClear, Report
  <2>2. x.kind # "event" /\ Here(x) = {}
    BY DEF Report, ClearItem, Here
  <2>3. ClearLast(fifo') /\ (HasClear(fifo') => x.kind = "clear")
    BY <1>0, <1>2, <2>1, <2>2, ClearAppend
  <2>4. NumsOf(fifo') = NumsOf(fifo)
    BY <1>0, <2>1, <2>2, FifoAppend
  <2>5. Held' = Held
    BY <1>1, <2>4 DEF Held, NumsOf, BufNums, Here
  <2>6. next' = next /\ hub' # "erased"
    BY <1>1, <1>6 DEF PostTwin, PostClear, sessVars
  <2>7. ErasedTrue'
    BY <1>1, <1>2, <2>1, <2>3, <2>6 DEF ErasedTrue, ClearLast, HasClear
  <2>8. PastGone'
    BY <1>0, <1>3, <2>5, <2>6 DEF EndedInv, PastGone
  <2>9. QED
    BY <2>7, <2>8 DEF EndedInv
<1>7. QED
  BY <1>4, <1>5, <1>6 DEF PostEvent, sessVars

(* The erase in the fallback, and the restarts.                            *)
LEMMA RestartEnded ==
    ASSUME FlowInv, EndedInv, ClearTimesOut \/ Restart \/ DecomRestart
    PROVE  EndedInv'
<1>0. /\ DOMAIN hist = HistFields /\ next \in Nat \ {0} /\ BufOK(buf)
      /\ Held \subseteq 1..(next - 1)
  BY DEF FlowInv, Flowing, Told, Order, Held
<1>1. CASE ClearTimesOut
  <2>1. NoneNew
    BY <1>1, EraseKeeps
  <2>2. /\ UNCHANGED <<fifo, next, decomDone>> /\ ~decomDone /\ frozen' /\ hub' = "erased"
        /\ Lost(Buffered)
    BY <1>1 DEF ClearTimesOut
  <2>3. hist'.past = hist.past
    BY <1>0, <2>2 DEF Lost, HistFields
  <2>4. ErasedTrue'
    BY <2>2 DEF EndedInv, ErasedTrue, ClearLast, HasClear
  <2>5. PastGone'
    BY <2>1, <2>2, <2>3 DEF EndedInv, PastGone, NoneNew
  <2>6. QED
    BY <2>4, <2>5 DEF EndedInv
<1>2. ASSUME NEW b, NEW past, Restarted(b, past)
      PROVE  /\ ErasedTrue' /\ hist'.past = past /\ next' = next
             /\ Held' = BufNums(b)
  <2>1. /\ fifo' = <<>> /\ buf' = b /\ tx' = TxFresh /\ next' = next
        /\ ~decomDone' /\ hub' = "loop"
    BY <1>2 DEF Restarted, SessionRestart
  <2>2. hist'.past = past
    BY <1>0, <1>2 DEF Restarted, HistFields
  <2>3. Held' = BufNums(b)
    BY <2>1, FreshPlaced, FifoEmpty DEF Held, BufNums, NumsOf, Here
  <2>4. ErasedTrue'
    BY <2>1, EmptyIsList DEF ErasedTrue, ClearLast, HasClear
  <2>5. QED
    BY <2>1, <2>2, <2>3, <2>4
<1>3. CASE Restart
  <2>1. ErasedTrue' /\ hist'.past = hist.past /\ next' = next /\ Held' = BufNums(buf)
    BY <1>2, <1>3 DEF Restart
  <2>2. PastGone'
    BY <2>1 DEF EndedInv, PastGone, Held
  <2>3. QED
    BY <2>1, <2>2 DEF EndedInv
<1>4. CASE DecomRestart
  <2>1. BufNums(SecondErase) = {}
    <3>1. CASE hub = "erased"
      BY <3>1, BufEmpty DEF SecondErase
    <3>2. CASE hub = "clearing" /\ decomDone
      BY <3>2 DEF SecondErase, EndedInv, ErasedTrue, Held
    <3>3. QED
      BY <1>4, <3>1, <3>2 DEF DecomRestart
  <2>2. ErasedTrue' /\ hist'.past = next - 1 /\ next' = next /\ Held' = {}
    BY <1>2, <1>4, <2>1 DEF DecomRestart
  <2>3. QED
    BY <1>0, <2>2 DEF EndedInv, PastGone
<1>5. QED
  BY <1>1, <1>3, <1>4

LEMMA EndedInvInductive == FlowInv /\ EndedInv /\ [Next]_vars => EndedInv'
<1> SUFFICES ASSUME FlowInv, EndedInv, [Next]_vars PROVE EndedInv'
  OBVIOUS
<1>1. ASSUME UNCHANGED txVars,
             hub' = hub \/ (hub \in {"loop", "mark"} /\ hub' \in {"loop", "mark", "decom"})
      PROVE  EndedInv'
  <2>1. NoneNew
    BY <1>1 DEF txVars, NoneNew, Held, BufNums, NumsOf, Here
  <2>2. QED
    BY <1>1, <2>1, EndedMoves DEF txVars
<1>2. CASE SessionNext /\ UNCHANGED txVars
  <2>1. hub' = hub \/ (hub \in {"loop", "mark"} /\ hub' \in {"loop", "mark"})
    BY <1>2 DEF SessionNext, HubSessionNext, MqttNext, StopNext, OutsideNext, HubMarks, Withdraw,
                Admit, SasMaintain, StopRequest, StartClient, Connect, Marks, HandlerEnds, StopTake,
                StopEnds, WifiLost, WifiUp, SoftApUp, SoftApDown, ClockSync, TokenAges, LinkLost
  <2>2. QED
    BY <1>1, <1>2, <2>1
<1>3. CASE Decommission \/ Rest \/ UNCHANGED vars
  BY <1>1, <1>3 DEF Decommission, Rest, vars, sessVars
<1>4. CASE TwinRequest \/ SessionBlock
  <2>1. UNCHANGED <<fifo, buf, tx, next, decomDone, hist, hub, frozen>>
    BY <1>4 DEF TwinRequest, SessionBlock, sessVars
  <2>2. NoneNew
    BY <2>1 DEF NoneNew, Held, BufNums, NumsOf, Here
  <2>3. QED
    BY <2>1, <2>2, EndedMoves
<1>5. CASE CmdAck
  <2>0. DOMAIN hist = HistFields
    BY DEF FlowInv, Told
  <2>1. UNCHANGED <<fifo, next, decomDone, hub, frozen>> /\ Lost(Dropped(buf))
    BY <1>5 DEF CmdAck
  <2>2. hist'.past = hist.past
    BY <2>0, <2>1 DEF Lost, HistFields
  <2>3. QED
    BY <1>5, <2>1, <2>2, CmdAckKeeps, EndedMoves
<1>6. CASE TxSteps \/ HoldLapses
  <2>1. CASE decomDone' = decomDone
    BY <1>6, <2>1, TxEnded
  <2>2. CASE decomDone' # decomDone
    <3>1. ServiceOne
      BY <1>6, <2>2 DEF TxSteps, HoldLapses, CheckSession, TakeSession, HandleSession, Proceed, Gate,
         Write, StoreCheck, Store, StoreFails, ReplayGate, ReplayDrop, ReplayWrite, DrainFails,
         DrainEnds, Stamp
    <3>2. QED
      BY <2>2, <3>1, ClearEnded
  <2>3. QED
    BY <2>1, <2>2
<1>7. CASE PostEvent \/ PostTwin \/ PostClear
  BY <1>7, HubEnded
<1>8. CASE ClearTimesOut \/ Restart \/ DecomRestart
  BY <1>8, RestartEnded
<1>9. QED
  BY <1>2, <1>3, <1>4, <1>5, <1>6, <1>7, <1>8 DEF Next, HubSteps

LEMMA EndedInvInitially == Init => EndedInv
<1> SUFFICES ASSUME Init PROVE EndedInv
  OBVIOUS
<1>1. /\ fifo = <<>> /\ buf = <<>> /\ next = 1 /\ tx = TxFresh /\ ~decomDone /\ hub = "loop"
      /\ hist.past = 0
  BY DEF Init, SessionInit
<1>2. Held = {}
  BY <1>1, FifoEmpty, BufEmpty, FreshPlaced DEF Held
<1>3. QED
  BY <1>1, <1>2, EmptyIsList DEF EndedInv, ErasedTrue, PastGone, ClearLast, HasClear

(* After a decommission's restart nothing of the deployment it ended is    *)
(* left in the buffer to be replayed (L17), whether cloud_tx came to the   *)
(* clear or decommission()'s fallback erased it, twice, beside cloud_tx.   *)
THEOREM EndedStaysEndedHolds == Spec => []EndedStaysEnded
<1>1. FlowInv /\ EndedInv => EndedStaysEnded
  <2> SUFFICES ASSUME FlowInv, EndedInv, NEW n \in Buffered, n \in 1..hist.past PROVE FALSE
    BY DEF EndedStaysEnded
  <2>1. n \in Held
    BY DEF Held, Buffered, BufNums
  <2>2. hist.past < n /\ hist.past \in Nat /\ n \in Nat
    BY <2>1 DEF EndedInv, PastGone, FlowInv, Flowing
  <2>3. QED
    BY <2>2
<1>2. QED
  BY <1>1, FlowInvInitially, FlowInvInductive, EndedInvInitially, EndedInvInductive, PTL DEF Spec

-----------------------------------------------------------------------------
(* The order of twin reports.  cloud_tx drops a report not built after the *)
(* last it has seen; one at the gate is that last, and esp-mqtt has taken  *)
(* none later.                                                             *)

TwinItem(i) == i.kind = "twin" => i.seq \in Nat
TwinItems(q) == \A i \in DOMAIN q : TwinItem(q[i])

(* The session queue's items are all for cloud_tx_lifecycle() and          *)
(* cloud_tx_twin(), also the one a replay holds up.                        *)
SessKinds == {"twin", "lifecycle"}
ForSession(q) == \A i \in DOMAIN q : q[i].kind \in SessKinds
Handling(pc, ret) == pc = "handle" \/ (pc \in {"offer", "replay", "drained"} /\ ret = "handle")

TxTwin(t) ==
    /\ t.twinSeq \in Nat /\ TwinItem(t.item)
    /\ t.pc \in {"gate", "write"} /\ t.item.kind = "twin" => t.item.seq = t.twinSeq
    /\ Handling(t.pc, t.ret) => t.item.kind \in SessKinds

TwinInv ==
    /\ DOMAIN twin = {"req", "done", "due", "refused", "seq"} /\ twin.seq \in Nat
    /\ TwinItems(fifo) /\ TwinItems(sessq) /\ ForSession(sessq)
    /\ TxTwin(tx)
    /\ hist.told \in Nat /\ hist.told <= tx.twinSeq

LEMMA TwinItemsTail ==
    ASSUME NEW q, IsList(q), q # <<>>, TwinItems(q)
    PROVE  TwinItem(Head(q)) /\ TwinItems(Tail(q))
<1> DEFINE m == Len(q)
           g == Tail(q)
<1>1. /\ Head(q) = q[1] /\ m \in Nat \ {0}
      /\ DOMAIN q = 1..m /\ DOMAIN g = 1..(m - 1)
      /\ \A i \in 1..(m - 1) : g[i] = q[i + 1]
  BY ListTail
<1> HIDE DEF m, g
<1>2. 1 \in DOMAIN q /\ \A i \in DOMAIN g : i + 1 \in DOMAIN q /\ g[i] = q[i + 1]
  BY <1>1
<1>3. TwinItems(g) /\ TwinItem(q[1])
  BY <1>2 DEF TwinItems
<1>4. QED
  BY <1>1, <1>3 DEF g

LEMMA TwinItemsAppend ==
    ASSUME NEW q, IsList(q), TwinItems(q), NEW x, TwinItem(x)
    PROVE  TwinItems(Append(q, x)) /\ IsList(Append(q, x))
<1> DEFINE m == Len(q)
           g == Append(q, x)
<1>1. /\ IsList(g) /\ m \in Nat /\ DOMAIN q = 1..m /\ DOMAIN g = 1..(m + 1)
      /\ \A i \in 1..m : g[i] = q[i]
      /\ g[m + 1] = x
  BY ListAppend
<1> HIDE DEF m, g
<1>2. TwinItems(g)
  BY <1>1 DEF TwinItems
<1>3. QED
  BY <1>1, <1>2 DEF g

(* Where cloud_tx goes on, a report is only at the gate if it was checked. *)
LEMMA TwinMovedTo ==
    ASSUME NEW t, DOMAIN t = TxFields, TxTwin(t), NEW p,
           p \in {"gate", "write"} => t.item.kind # "twin",
           Handling(p, t.ret) => t.item.kind \in SessKinds
    PROVE  TxTwin(Moved(t, p)) /\ Moved(t, p).twinSeq = t.twinSeq
<1>1. CASE p = "work"
  <2>1. /\ Moved(t, p).pc = "work" /\ Moved(t, p).item = NoItem
        /\ Moved(t, p).twinSeq = t.twinSeq
    BY <1>1 DEF Moved, TxFields
  <2>2. QED
    BY <2>1 DEF TxTwin, TwinItem, NoItem, Handling
<1>2. CASE p # "work"
  <2>1. /\ Moved(t, p).pc = p /\ Moved(t, p).item = t.item /\ Moved(t, p).ret = t.ret
        /\ Moved(t, p).twinSeq = t.twinSeq
    BY <1>2 DEF Moved, TxFields
  <2>2. QED
    BY <2>1 DEF TxTwin
<1>3. QED
  BY <1>1, <1>2

LEMMA TwinReplayingTo ==
    ASSUME NEW t, DOMAIN t = TxFields, TxTwin(t), NEW ret, Replaying(t, ret),
           ret \in {"work", "handle", "fifo", "gate", "send"},
           ret = "gate" => t.item.kind # "twin", ret = "handle" => t.item.kind \in SessKinds
    PROVE  TxTwin(tx') /\ tx'.twinSeq = t.twinSeq
<1>1. CASE tx' = Moved(t, ret)
  <2>1. Handling(ret, t.ret) => t.item.kind \in SessKinds
    BY DEF Handling
  <2>2. QED
    BY <1>1, <2>1, TwinMovedTo
<1>2. CASE tx' = [t EXCEPT !.pc = "offer", !.ret = ret]
  <2>1. tx'.pc = "offer" /\ tx'.ret = ret /\ tx'.item = t.item /\ tx'.twinSeq = t.twinSeq
    BY <1>2 DEF TxFields
  <2>2. QED
    BY <2>1 DEF TxTwin, Handling
<1>3. QED
  BY <1>1, <1>2 DEF Replaying

LEMMA TwinHandledTo ==
    ASSUME NEW t, DOMAIN t = TxFields, TxTwin(t), NEW i, TwinItem(i)
    PROVE  /\ i.kind = "twin" => TxTwin(TwinSeen(t, i)) /\ TwinSeen(t, i).twinSeq >= t.twinSeq
           /\ i.kind \in SessKinds =>
                 TxTwin(Handled(t, i)) /\ Handled(t, i).twinSeq >= t.twinSeq
<1>1. TxTwin(Moved(t, "work")) /\ Moved(t, "work").twinSeq >= t.twinSeq /\ t.twinSeq \in Nat
  BY TwinMovedTo DEF TxTwin, Handling
<1>2. ASSUME i.kind = "twin" PROVE TxTwin(TwinSeen(t, i)) /\ TwinSeen(t, i).twinSeq >= t.twinSeq
  <2>1. CASE Outdated(t, i.seq)
    BY <1>1, <2>1 DEF TwinSeen
  <2>2. CASE ~Outdated(t, i.seq)
    <3>1. i.seq \in Nat /\ i.seq > t.twinSeq
      BY <1>1, <1>2, <2>2 DEF TwinItem, Outdated
    <3>2. TwinSeen(t, i) = [t EXCEPT !.item = i, !.twinSeq = i.seq, !.pc = "gate"]
      BY <2>2 DEF TwinSeen
    <3>3. /\ TwinSeen(t, i).pc = "gate" /\ TwinSeen(t, i).item = i
          /\ TwinSeen(t, i).twinSeq = i.seq
      BY <3>2 DEF TxFields
    <3>4. QED
      BY <1>1, <1>2, <3>1, <3>3 DEF TxTwin, TwinItem, Handling
  <2>3. QED
    BY <2>1, <2>2
<1>3. ASSUME i.kind = "lifecycle" PROVE TxTwin(Handled(t, i)) /\ Handled(t, i).twinSeq >= t.twinSeq
  <2>1. CASE Handled(t, i) = Moved(t, "work")
    BY <1>1, <2>1
  <2>2. CASE \E v : Handled(t, i) = [t EXCEPT !.item = i, !.pc = "gate", !.tried = v]
    <3>1. /\ Handled(t, i).pc = "gate" /\ Handled(t, i).item = i
          /\ Handled(t, i).twinSeq = t.twinSeq
      BY <2>2 DEF TxFields
    <3>2. QED
      BY <1>1, <1>3, <3>1 DEF TxTwin, TwinItem, Handling
  <2>3. QED
    BY <1>3, <2>1, <2>2 DEF Handled
<1>4. i.kind = "twin" => Handled(t, i) \in {Moved(t, "work"), TwinSeen(t, i)}
  BY DEF Handled
<1>5. QED
  BY <1>1, <1>2, <1>3, <1>4 DEF SessKinds

TwinStep == TwinInv' /\ (hist'.told >= hist.told \/ hist'.told = 0)

LEMMA TwinMoves ==
    ASSUME TwinInv, hist'.told = hist.told, tx'.twinSeq >= tx.twinSeq, TxTwin(tx'),
           twin'.seq \in Nat, DOMAIN twin' = DOMAIN twin,
           TwinItems(fifo'), TwinItems(sessq'), ForSession(sessq')
    PROVE  TwinStep
<1>1. hist'.told \in Nat /\ hist'.told <= tx'.twinSeq
  BY DEF TwinInv, TxTwin
<1>2. QED
  BY <1>1 DEF TwinInv, TwinStep, TxTwin, TwinItems, TwinItem, ForSession

LEMMA TwinTails ==
    ASSUME FlowInv, TwinInv
    PROVE  /\ fifo # <<>> => TwinItem(Head(fifo)) /\ TwinItems(Tail(fifo))
           /\ sessq # <<>> => /\ TwinItem(Head(sessq)) /\ Head(sessq).kind \in SessKinds
                              /\ TwinItems(Tail(sessq)) /\ ForSession(Tail(sessq))
<1>1. IsList(fifo) /\ IsList(sessq) /\ TwinItems(fifo) /\ TwinItems(sessq) /\ ForSession(sessq)
  BY DEF FlowInv, Flowing, FifoOK, SessOK, TwinInv
<1>2. sessq # <<>> => Head(sessq).kind \in SessKinds /\ ForSession(Tail(sessq))
  <2> SUFFICES ASSUME sessq # <<>> PROVE Head(sessq).kind \in SessKinds /\ ForSession(Tail(sessq))
    OBVIOUS
  <2> DEFINE m == Len(sessq)
             g == Tail(sessq)
  <2>1. /\ Head(sessq) = sessq[1] /\ m \in Nat \ {0}
        /\ DOMAIN sessq = 1..m /\ DOMAIN g = 1..(m - 1)
        /\ \A i \in 1..(m - 1) : g[i] = sessq[i + 1]
    BY <1>1, ListTail
  <2> HIDE DEF m, g
  <2>2. 1 \in DOMAIN sessq /\ \A i \in DOMAIN g : i + 1 \in DOMAIN sessq /\ g[i] = sessq[i + 1]
    BY <2>1
  <2>3. ForSession(g)
    BY <1>1, <2>2 DEF ForSession
  <2>4. QED
    BY <1>1, <2>1, <2>2, <2>3 DEF ForSession, g
<1>3. QED
  BY <1>1, <1>2, TwinItemsTail

(* cloud_tx's steps but for the publish.                                   *)
LEMMA SessionTwin ==
    ASSUME FlowInv, TwinInv, CheckSession \/ TakeSession \/ HandleSession \/ Proceed \/ HoldLapses
    PROVE  TwinStep
<1>0. /\ DOMAIN tx = TxFields /\ ~IsEvent(tx) /\ TxTwin(tx) /\ tx.twinSeq \in Nat
      /\ TwinItems(fifo) /\ TwinItems(sessq) /\ ForSession(sessq) /\ twin.seq \in Nat
  BY DEF FlowInv, Flowing, Placed, CheckSession, TakeSession, HandleSession, Proceed, HoldLapses, At,
         TwinInv, TxTwin
<1>1. UNCHANGED <<fifo, twin, hist>> /\ (sessq' = sessq \/ (TakeSession /\ sessq' = Tail(sessq)))
  BY DEF CheckSession, TakeSession, HandleSession, Proceed, HoldLapses
<1>2. TwinItems(fifo') /\ TwinItems(sessq') /\ ForSession(sessq')
  <2>1. CASE sessq' = sessq
    BY <1>0, <1>1, <2>1
  <2>2. CASE TakeSession /\ sessq' = Tail(sessq)
    <3>1. sessq # <<>>
      BY <2>2 DEF TakeSession
    <3>2. QED
      BY <1>0, <1>1, <2>2, <3>1, TwinTails
  <2>3. QED
    BY <1>1, <2>1, <2>2
<1>3. TxTwin(tx') /\ tx'.twinSeq >= tx.twinSeq
  <2>1. CASE CheckSession
    <3> DEFINE t == Served(tx)
    <3>1. /\ DOMAIN t = TxFields /\ t.item = tx.item /\ t.pc = "work" /\ t.twinSeq = tx.twinSeq
          /\ Replaying(t, "work")
      BY <1>0, <2>1 DEF CheckSession, At, Served, TxFields
    <3> HIDE DEF t
    <3>2. TxTwin(t)
      BY <1>0, <3>1 DEF TxTwin, Handling
    <3>3. QED
      BY <1>0, <3>1, <3>2, TwinReplayingTo
  <2>2. CASE TakeSession
    <3>1. /\ At("work") /\ TwinItem(Head(sessq)) /\ Head(sessq).kind \in SessKinds
      BY <2>2, TwinTails DEF TakeSession
    <3>2. CASE tx' = Handled(tx, Head(sessq))
      BY <1>0, <3>1, <3>2, TwinHandledTo
    <3>3. CASE Replaying(Served([tx EXCEPT !.item = Head(sessq)]), "handle")
      <4> DEFINE t == Served([tx EXCEPT !.item = Head(sessq)])
      <4>1. /\ DOMAIN t = TxFields /\ t.item = Head(sessq) /\ t.pc = "work" /\ t.twinSeq = tx.twinSeq
        BY <1>0, <3>1 DEF At, Served, TxFields
      <4> HIDE DEF t
      <4>2. TxTwin(t)
        BY <1>0, <3>1, <4>1 DEF TxTwin, Handling
      <4>3. Replaying(t, "handle")
        BY <3>3 DEF t
      <4>4. QED
        BY <1>0, <3>1, <4>1, <4>2, <4>3, TwinReplayingTo
    <3>4. QED
      BY <2>2, <3>2, <3>3 DEF TakeSession
  <2>3. CASE HandleSession
    <3>1. TwinItem(tx.item) /\ tx.item.kind \in SessKinds /\ tx' = Handled(tx, tx.item)
      BY <1>0, <2>3 DEF HandleSession, At, TxTwin, Handling
    <3>2. QED
      BY <1>0, <3>1, TwinHandledTo
  <2>4. CASE Proceed
    <3> DEFINE t == [tx EXCEPT !.hold = FALSE, !.gen = gen]
    <3>1. /\ DOMAIN t = TxFields /\ t.item = tx.item /\ t.pc = "work" /\ t.twinSeq = tx.twinSeq
      BY <1>0, <2>4 DEF Proceed, At, TxFields
    <3>2. Replaying(t, "fifo") \/ tx' = Moved(t, "fifo")
      BY <2>4 DEF Proceed
    <3> HIDE DEF t
    <3>3. TxTwin(t)
      BY <1>0, <3>1 DEF TxTwin, Handling
    <3>4. CASE Replaying(t, "fifo")
      BY <1>0, <3>1, <3>3, <3>4, TwinReplayingTo
    <3>5. CASE tx' = Moved(t, "fifo")
      BY <1>0, <3>1, <3>3, <3>5, TwinMovedTo DEF Handling
    <3>6. QED
      BY <3>2, <3>4, <3>5
  <2>5. CASE HoldLapses
    <3>1. /\ tx'.item = tx.item /\ tx'.pc = tx.pc /\ tx'.ret = tx.ret /\ tx'.twinSeq = tx.twinSeq
      BY <1>0, <2>5 DEF HoldLapses, TxFields
    <3>2. QED
      BY <1>0, <3>1 DEF TxTwin
  <2>6. QED
    BY <2>1, <2>2, <2>3, <2>4, <2>5
<1>4. QED
  BY <1>0, <1>1, <1>2, <1>3, TwinMoves

LEMMA ServiceTwin ==
    ASSUME FlowInv, TwinInv, ServiceOne
    PROVE  TwinStep
<1>0. /\ DOMAIN tx = TxFields /\ ~IsEvent(tx) /\ TxTwin(tx) /\ tx.twinSeq \in Nat
      /\ TwinItems(fifo) /\ TwinItems(sessq) /\ ForSession(sessq) /\ twin.seq \in Nat
      /\ DOMAIN hist = HistFields /\ At("fifo")
  BY DEF FlowInv, Flowing, Told, Placed, ServiceOne, At, TwinInv, TxTwin
<1>1. UNCHANGED <<sessq, twin>> /\ hist'.told = hist.told
  BY <1>0 DEF ServiceOne, Lost, HistFields
<1>2. TwinItems(fifo')
  BY <1>0, TwinTails DEF ServiceOne
<1>3. TxTwin(tx') /\ tx'.twinSeq >= tx.twinSeq
  <2>1. CASE To("work")
    BY <1>0, <2>1, TwinMovedTo DEF To, Handling
  <2>2. CASE Head(fifo).kind = "event" /\ SendEvent([tx EXCEPT !.item = Head(fifo)], Head(fifo))
    <3> DEFINE t == [tx EXCEPT !.item = Head(fifo)]
    <3>1. /\ DOMAIN t = TxFields /\ t.item = Head(fifo) /\ t.pc = "fifo" /\ t.twinSeq = tx.twinSeq
      BY <1>0 DEF At, TxFields
    <3>2. \/ tx' = Moved(t, "store") \/ tx' = Moved(t, "gate")
          \/ Replaying(t, "gate") \/ Replaying(t, "send")
      BY <2>2 DEF SendEvent
    <3> HIDE DEF t
    <3>3. TxTwin(t)
      BY <1>0, <2>2, <3>1 DEF TxTwin, TwinItem, Handling
    <3>4. CASE tx' = Moved(t, "store") \/ tx' = Moved(t, "gate")
      BY <1>0, <2>2, <3>1, <3>3, <3>4, TwinMovedTo DEF Handling
    <3>5. CASE Replaying(t, "gate") \/ Replaying(t, "send")
      BY <1>0, <2>2, <3>1, <3>3, <3>5, TwinReplayingTo
    <3>6. QED
      BY <3>2, <3>4, <3>5
  <2>3. CASE fifo # <<>> /\ Head(fifo).kind = "twin" /\ tx' = TwinSeen(tx, Head(fifo))
    BY <1>0, <2>3, TwinTails, TwinHandledTo
  <2>4. QED
    BY <2>1, <2>2, <2>3 DEF ServiceOne
<1>4. QED
  BY <1>0, <1>1, <1>2, <1>3, TwinMoves

LEMMA PublishTwin ==
    ASSUME FlowInv, TwinInv,
           Gate \/ ReplayGate \/ ReplayDrop \/ ReplayWrite \/ DrainFails \/ DrainEnds
               \/ StoreCheck \/ Store \/ StoreFails \/ Stamp
    PROVE  TwinStep
<1>0. /\ DOMAIN tx = TxFields /\ Placed(tx, buf) /\ TxTwin(tx) /\ tx.twinSeq \in Nat
      /\ TwinItems(fifo) /\ TwinItems(sessq) /\ ForSession(sessq) /\ twin.seq \in Nat
      /\ DOMAIN hist = HistFields
  BY DEF FlowInv, Flowing, Told, Placed, TwinInv, TxTwin
<1>1. UNCHANGED <<fifo, sessq, twin>>
  BY DEF Gate, ReplayGate, ReplayDrop, ReplayWrite, DrainFails, DrainEnds, StoreCheck, Store,
         StoreFails, Stamp
<1>2. hist'.told = hist.told
  BY <1>0 DEF Gate, ReplayGate, ReplayDrop, ReplayWrite, DrainFails, DrainEnds, StoreCheck, Store,
              StoreFails, Stamp, Lost, HistFields
<1>3. TxTwin(tx') /\ tx'.twinSeq = tx.twinSeq
  <2>1. CASE Gate /\ tx' = [tx EXCEPT !.pc = "write", !.pub = gen]
    <3>1. /\ tx'.pc = "write" /\ tx'.item = tx.item /\ tx'.twinSeq = tx.twinSeq
      BY <1>0, <2>1 DEF TxFields
    <3>2. QED
      BY <1>0, <2>1, <3>1 DEF Gate, At, TxTwin, Handling
  <2>2. CASE ReplayGate /\ tx' = [tx EXCEPT !.pc = "replay", !.pub = gen]
    <3>1. /\ tx'.pc = "replay" /\ tx'.item = tx.item /\ tx'.ret = tx.ret /\ tx'.twinSeq = tx.twinSeq
      BY <1>0, <2>2 DEF TxFields
    <3>2. QED
      BY <1>0, <2>2, <3>1 DEF ReplayGate, At, TxTwin, Handling
  <2>3. CASE \/ (ReplayGate \/ DrainFails) /\ To("drained")
             \/ ReplayWrite /\ (To("drained") \/ To("offer"))
    <3>1. At("offer") \/ At("replay")
      BY <2>3 DEF ReplayGate, ReplayWrite, DrainFails
    <3>2. Handling("drained", tx.ret) \/ Handling("offer", tx.ret) => tx.item.kind \in SessKinds
      BY <1>0, <3>1 DEF At, TxTwin, Handling
    <3>3. QED
      BY <1>0, <2>3, <3>2, TwinMovedTo DEF To
  <2>4. CASE To("work") \/ To("store")
    BY <1>0, <2>4, TwinMovedTo DEF To, Handling
  <2>5. CASE DrainEnds
    <3>1. At("drained")
      BY <2>5 DEF DrainEnds
    <3>2. CASE tx.ret # "send"
      <4>1. tx.ret \in {"work", "handle", "fifo"} /\ tx' = Moved(tx, tx.ret)
        BY <1>0, <2>5, <3>1, <3>2 DEF DrainEnds, To, Placed, At
      <4>2. Handling(tx.ret, tx.ret) => tx.item.kind \in SessKinds
        BY <1>0, <3>1, <4>1 DEF At, TxTwin, Handling
      <4>3. QED
        BY <1>0, <4>1, <4>2, TwinMovedTo
    <3>3. CASE tx.ret = "send"
      <4>1. tx.item.kind # "twin" /\ (To("gate") \/ To("store"))
        BY <1>0, <2>5, <3>1, <3>3 DEF DrainEnds, Placed, At, IsEvent
      <4>2. QED
        BY <1>0, <4>1, TwinMovedTo DEF To, Handling
    <3>4. QED
      BY <3>2, <3>3
  <2>6. CASE tx' = [tx EXCEPT !.pc = "storing", !.ret = tx.pc]
    <3>1. /\ tx'.pc = "storing" /\ tx'.item = tx.item /\ tx'.twinSeq = tx.twinSeq
      BY <1>0, <2>6 DEF TxFields
    <3>2. QED
      BY <1>0, <3>1 DEF TxTwin, Handling
  <2>7. CASE UNCHANGED tx
    BY <1>0, <2>7
  <2>8. QED
    BY <2>1, <2>2, <2>3, <2>4, <2>5, <2>6, <2>7
       DEF Gate, ReplayGate, ReplayDrop, ReplayWrite, DrainFails, StoreCheck, Store, StoreFails, Stamp
<1>4. QED
  BY <1>0, <1>1, <1>2, <1>3, TwinMoves

(* The publish: what esp-mqtt takes is the last report cloud_tx has seen.  *)
LEMMA WriteTwin ==
    ASSUME FlowInv, TwinInv, Write
    PROVE  TwinStep
<1>0. /\ DOMAIN tx = TxFields /\ TxTwin(tx) /\ tx.twinSeq \in Nat /\ At("write")
      /\ TwinItems(fifo) /\ TwinItems(sessq) /\ ForSession(sessq) /\ twin.seq \in Nat
      /\ DOMAIN hist = HistFields /\ hist.told \in Nat /\ hist.told <= tx.twinSeq
      /\ DOMAIN twin = {"req", "done", "due", "refused", "seq"}
  BY DEF FlowInv, Flowing, Told, Placed, TwinInv, TxTwin, Write
<1>1. UNCHANGED <<fifo, sessq>> /\ twin'.seq = twin.seq /\ DOMAIN twin' = DOMAIN twin
  BY <1>0 DEF Write
<1>2. TxTwin(tx') /\ tx'.twinSeq = tx.twinSeq
  <2>1. CASE \E p \in {"work", "keep"} : To(p)
    BY <1>0, <2>1, TwinMovedTo DEF To, Handling
  <2>2. CASE \E v : tx' = Moved([tx EXCEPT !.taken = v], "work")
    <3>1. PICK v : tx' = Moved([tx EXCEPT !.taken = v], "work")
      BY <2>2
    <3> DEFINE t == [tx EXCEPT !.taken = v]
    <3>2. /\ DOMAIN t = TxFields /\ t.pc = tx.pc /\ t.ret = tx.ret /\ t.item = tx.item
          /\ t.twinSeq = tx.twinSeq
      BY <1>0 DEF TxFields
    <3>3. tx' = Moved(t, "work")
      BY <3>1
    <3> HIDE DEF t
    <3>4. TxTwin(t)
      BY <1>0, <3>2 DEF TxTwin
    <3>5. QED
      BY <3>2, <3>3, <3>4, TwinMovedTo DEF Handling
  <2>3. QED
    BY <2>1, <2>2 DEF Write
<1>3. hist'.told = hist.told \/ hist'.told = tx.twinSeq
  <2>1. CASE tx.item.kind = "twin"
    <3>1. tx.item.seq = tx.twinSeq
      BY <1>0, <2>1 DEF TxTwin, At
    <3>2. hist' = hist \/ hist' = [hist EXCEPT !.told = tx.item.seq, !.ver = tx.item.ver]
      BY <2>1 DEF Write
    <3>3. QED
      BY <1>0, <3>1, <3>2 DEF HistFields
  <2>2. CASE tx.item.kind # "twin"
    BY <1>0, <2>2 DEF Write, HistFields
  <2>3. QED
    BY <2>1, <2>2
<1>4. hist'.told \in Nat /\ hist'.told <= tx'.twinSeq /\ hist'.told >= hist.told
  BY <1>0, <1>2, <1>3
<1>5. TwinInv'
  BY <1>0, <1>1, <1>2, <1>4 DEF TwinInv, TxTwin, TwinItems, TwinItem, ForSession
<1>6. QED
  BY <1>4, <1>5 DEF TwinStep

(* What iothub_task builds.                                                *)
LEMMA BuildTwin ==
    ASSUME FlowInv, TwinInv, SessionBlock \/ PostTwin \/ PostClear \/ PostEvent \/ TwinRequest
    PROVE  TwinStep
<1>0. /\ IsList(fifo) /\ IsList(sessq) /\ TxTwin(tx) /\ tx.twinSeq \in Nat
      /\ TwinItems(fifo) /\ TwinItems(sessq) /\ ForSession(sessq) /\ twin.seq \in Nat
      /\ DOMAIN hist = HistFields /\ DOMAIN twin = {"req", "done", "due", "refused", "seq"}
  BY DEF FlowInv, Flowing, Told, FifoOK, SessOK, TwinInv, TxTwin
<1>1. UNCHANGED tx /\ hist'.told = hist.told
  BY <1>0 DEF SessionBlock, PostTwin, PostClear, PostEvent, TwinRequest, Lost, HistFields
<1>2. twin'.seq \in Nat /\ DOMAIN twin' = DOMAIN twin
  <2>0. ASSUME NEW t, DOMAIN t = {"req", "done", "due", "refused", "seq"}, t.seq \in Nat
        PROVE  /\ Posted(t).seq \in Nat /\ DOMAIN Posted(t) = DOMAIN t
               /\ RefusalTaken(t).seq \in Nat /\ DOMAIN RefusalTaken(t) = DOMAIN t
    <3>1. Posted(t).seq = t.seq + 1 /\ DOMAIN Posted(t) = DOMAIN t
      BY <2>0 DEF Posted
    <3>2. RefusalTaken(t).seq = t.seq /\ DOMAIN RefusalTaken(t) = DOMAIN t
      <4> DEFINE d == t.due \/ t.refused
      <4>1. RefusalTaken(t) = [t EXCEPT !.due = d, !.refused = FALSE]
        BY DEF RefusalTaken
      <4> HIDE DEF d
      <4>2. QED
        BY <2>0, <4>1
    <3>3. QED
      BY <2>0, <3>1, <3>2
  <2>1. CASE twin' = twin \/ twin' = Posted(twin) \/ twin' = [twin EXCEPT !.req = @ + 1]
    BY <1>0, <2>0, <2>1
  <2>2. CASE twin' = RefusalTaken(twin) \/ twin' = Posted(RefusalTaken(twin))
    <3>1. RefusalTaken(twin).seq \in Nat /\ DOMAIN RefusalTaken(twin) = DOMAIN twin
      BY <1>0, <2>0
    <3>2. QED
      BY <1>0, <2>0, <2>2, <3>1
  <2>3. QED
    BY <2>1, <2>2 DEF SessionBlock, PostTwin, PostClear, PostEvent, TwinRequest
<1>3. /\ TwinItem(Report(gen)) /\ Report(gen).kind \in SessKinds
      /\ TwinItem(Lifecycle(gen)) /\ Lifecycle(gen).kind \in SessKinds
      /\ TwinItem(ClearItem) /\ TwinItem(EventItem(next, ~synced))
  BY <1>0 DEF TwinItem, Report, Lifecycle, ClearItem, EventItem, SessKinds
<1>4. TwinItems(fifo')
  <2>1. \/ fifo' = fifo
        \/ \E x \in {Report(gen), ClearItem, EventItem(next, ~synced)} : fifo' = Append(fifo, x)
    BY DEF SessionBlock, PostTwin, PostClear, PostEvent, TwinRequest
  <2>2. QED
    BY <1>0, <1>3, <2>1, TwinItemsAppend
<1>5. TwinItems(sessq') /\ ForSession(sessq')
  <2>1. ASSUME NEW q, IsList(q), TwinItems(q), ForSession(q), NEW x, TwinItem(x), x.kind \in SessKinds
        PROVE  IsList(Append(q, x)) /\ TwinItems(Append(q, x)) /\ ForSession(Append(q, x))
    <3> DEFINE m == Len(q)
               g == Append(q, x)
    <3>1. /\ m \in Nat /\ DOMAIN q = 1..m /\ DOMAIN g = 1..(m + 1)
          /\ \A i \in 1..m : g[i] = q[i]
          /\ g[m + 1] = x
      BY <2>1, ListAppend
    <3> HIDE DEF m, g
    <3>2. ForSession(g)
      BY <2>1, <3>1 DEF ForSession
    <3>3. QED
      BY <2>1, <3>2, TwinItemsAppend DEF g
  <2>2. \/ sessq' = sessq
        \/ \E q \in {sessq, Append(sessq, Lifecycle(gen))} : sessq' \in {q, Append(q, Report(gen))}
    BY DEF SessionBlock, PostTwin, PostClear, PostEvent, TwinRequest
  <2>3. CASE sessq' = sessq
    BY <1>0, <2>3
  <2>4. ASSUME NEW q \in {sessq, Append(sessq, Lifecycle(gen))}, sessq' \in {q, Append(q, Report(gen))}
        PROVE  TwinItems(sessq') /\ ForSession(sessq')
    <3>1. IsList(q) /\ TwinItems(q) /\ ForSession(q)
      BY <1>0, <1>3, <2>1, <2>4
    <3>2. QED
      BY <1>3, <2>1, <2>4, <3>1
  <2>5. QED
    BY <2>2, <2>3, <2>4
<1>6. QED
  BY <1>0, <1>1, <1>2, <1>4, <1>5, TwinMoves

LEMMA RestartTwin ==
    ASSUME FlowInv, TwinInv, Restart \/ DecomRestart
    PROVE  TwinStep
<1>0. DOMAIN hist = HistFields /\ DOMAIN twin = {"req", "done", "due", "refused", "seq"}
  BY DEF FlowInv, Told, TwinInv
<1>1. /\ fifo' = <<>> /\ sessq' = <<>> /\ tx' = TxFresh
      /\ twin' = [twin EXCEPT !.done = twin.req, !.due = FALSE, !.refused = FALSE, !.seq = 0]
  BY DEF Restart, DecomRestart, Restarted
<1>2. hist'.told = 0
  BY <1>0 DEF Restart, DecomRestart, Restarted, HistFields
<1>3. twin'.seq = 0 /\ DOMAIN twin' = DOMAIN twin
  BY <1>0, <1>1
<1>4. TxTwin(TxFresh) /\ TxFresh.twinSeq = 0
  BY DEF TxFresh, TxTwin, TwinItem, NoItem, Handling
<1>5. TwinInv'
  BY <1>0, <1>1, <1>2, <1>3, <1>4, EmptyIsList DEF TwinInv, TxTwin, TwinItems, TwinItem, ForSession
<1>6. QED
  BY <1>2, <1>5 DEF TwinStep

LEMMA TwinInvInductive == FlowInv /\ TwinInv /\ [Next]_vars => TwinStep
<1> SUFFICES ASSUME FlowInv, TwinInv, [Next]_vars PROVE TwinStep
  OBVIOUS
<1>1. ASSUME UNCHANGED <<fifo, sessq, twin, tx>>, hist'.told = hist.told
      PROVE  TwinStep
  <2>1. /\ TwinItems(fifo') /\ TwinItems(sessq') /\ ForSession(sessq') /\ TxTwin(tx')
        /\ twin'.seq \in Nat /\ tx'.twinSeq >= tx.twinSeq /\ DOMAIN twin' = DOMAIN twin
    BY <1>1 DEF TwinInv, TxTwin
  <2>2. QED
    BY <1>1, <2>1, TwinMoves
<1>2. CASE (SessionNext /\ UNCHANGED txVars) \/ Decommission \/ Rest \/ UNCHANGED vars
  BY <1>1, <1>2 DEF txVars, Decommission, Rest, vars
<1>3. CASE CmdAck \/ ClearTimesOut
  <2>1. DOMAIN hist = HistFields
    BY DEF FlowInv, Told
  <2>2. hist'.told = hist.told /\ UNCHANGED <<fifo, sessq, twin, tx>>
    BY <1>3, <2>1 DEF CmdAck, ClearTimesOut, Lost, HistFields
  <2>3. QED
    BY <1>1, <2>2
<1>4. CASE TxSteps \/ HoldLapses
  BY <1>4, SessionTwin, ServiceTwin, PublishTwin, WriteTwin DEF TxSteps
<1>5. CASE SessionBlock \/ PostTwin \/ PostClear \/ PostEvent \/ TwinRequest
  BY <1>5, BuildTwin
<1>6. CASE Restart \/ DecomRestart
  BY <1>6, RestartTwin
<1>7. QED
  BY <1>2, <1>3, <1>4, <1>5, <1>6 DEF Next, HubSteps

LEMMA TwinInvInitially == Init => TwinInv
BY EmptyIsList DEF Init, TxFresh, NoItem, TwinInv, TxTwin, TwinItems, TwinItem, ForSession, Handling

(* No twin report is sent after one built later (TW-1), by whichever of    *)
(* the two queues and in whichever session; a restart begins the numbers   *)
(* again.                                                                  *)
THEOREM TwinNewestWinsHolds == Spec => TwinNewestWins
<1>1. FlowInv /\ TwinInv /\ [Next]_vars => [hist'.told >= hist.told \/ hist'.told = 0]_vars
  BY TwinInvInductive DEF TwinStep
<1>2. FlowInv /\ TwinInv /\ [Next]_vars => TwinInv'
  BY TwinInvInductive DEF TwinStep
<1>3. QED
  BY <1>1, <1>2, FlowInvInitially, FlowInvInductive, TwinInvInitially, PTL DEF Spec, TwinNewestWins

-----------------------------------------------------------------------------
(* That what changed is told in the end.  The last report built is the one *)
(* that tells of the last change; a session that is up still owes it, or   *)
(* has it on its way to a gate that is open to it, or esp-mqtt took it.    *)

LastReport(i, w) == i.kind = "twin" /\ i.seq = w.seq
HasLast(q, w) == \E i \in DOMAIN q : LastReport(q[i], w)

(* w is iothub_task's book, o what it owes, g the session's number: a      *)
(* report is of this session or an earlier one, and the last one of the    *)
(* session iothub_task has seen, unless it owes that one another.          *)
ReportTrue(i, w, o, g) ==
    i.kind = "twin" =>
        /\ i.seq \in 1..w.seq /\ i.gen \in 0..g
        /\ i.seq = w.seq => i.ver = w.done /\ ("twin" \in o.items \/ i.gen >= o.seen)
ReportsTrue(q, w, o, g) == \A i \in DOMAIN q : ReportTrue(q[i], w, o, g)

HubTrue ==
    /\ DOMAIN owed = {"seen", "items"} /\ gen \in Nat /\ owed.seen \in 0..gen
    /\ handler = "mark" => owed.seen < gen
    /\ handler \in {"gen", "mark"} => ~connected
    /\ frozen => hub = "erased"
    /\ gate \in {"free", "tx", "wifi"}
    /\ twin.req \in Nat /\ twin.done \in 0..twin.req

BuiltTrue ==
    /\ ReportsTrue(fifo, twin, owed, gen) /\ ReportsTrue(sessq, twin, owed, gen)
    /\ ReportTrue(tx.item, twin, owed, gen)
    /\ tx.twinSeq <= twin.seq
    /\ hist.told = twin.seq /\ twin.seq > 0 => hist.ver = twin.done

SeenSession == connected /\ ~Stopping /\ gen = owed.seen /\ ~frozen
StillOwed == twin.req # twin.done \/ twin.due \/ twin.refused \/ "twin" \in owed.items
OnItsWay ==
    \/ /\ tx.twinSeq < twin.seq
       /\ \/ HasLast(fifo, twin) \/ HasLast(sessq, twin)
          \/ (Handling(tx.pc, tx.ret) /\ LastReport(tx.item, twin))
    \/ tx.pc \in {"gate", "write"} /\ LastReport(tx.item, twin)
Arrived == twin.seq > 0 /\ hist.told = twin.seq

ToldInv == HubTrue /\ BuiltTrue /\ (SeenSession => StillOwed \/ OnItsWay \/ Arrived)

(* The queues, as an item is taken and as one is posted.                   *)
LEMMA ReportsTail ==
    ASSUME NEW q, IsList(q), q # <<>>, NEW w, NEW o, NEW g, ReportsTrue(q, w, o, g)
    PROVE  /\ ReportTrue(Head(q), w, o, g) /\ ReportsTrue(Tail(q), w, o, g)
           /\ HasLast(q, w) => LastReport(Head(q), w) \/ HasLast(Tail(q), w)
<1> DEFINE m == Len(q)
           r == Tail(q)
<1>1. /\ Head(q) = q[1] /\ m \in Nat \ {0}
      /\ DOMAIN q = 1..m /\ DOMAIN r = 1..(m - 1)
      /\ \A i \in 1..(m - 1) : r[i] = q[i + 1]
  BY ListTail
<1> HIDE DEF m, r
<1>2. 1 \in DOMAIN q /\ \A i \in DOMAIN r : i + 1 \in DOMAIN q /\ r[i] = q[i + 1]
  BY <1>1
<1>3. ReportsTrue(r, w, o, g) /\ ReportTrue(q[1], w, o, g)
  BY <1>2 DEF ReportsTrue
<1>4. ASSUME NEW i \in DOMAIN q, LastReport(q[i], w), i # 1
      PROVE  HasLast(r, w)
  <2>1. i - 1 \in DOMAIN r /\ r[i - 1] = q[i]
    BY <1>1, <1>4
  <2>2. QED
    BY <1>4, <2>1 DEF HasLast
<1>5. HasLast(q, w) => LastReport(q[1], w) \/ HasLast(r, w)
  BY <1>4 DEF HasLast
<1>6. QED
  BY <1>1, <1>3, <1>5 DEF r

LEMMA ReportsAppend ==
    ASSUME NEW q, IsList(q), NEW w, NEW o, NEW g, ReportsTrue(q, w, o, g),
           NEW x, ReportTrue(x, w, o, g)
    PROVE  /\ IsList(Append(q, x)) /\ ReportsTrue(Append(q, x), w, o, g)
           /\ HasLast(q, w) \/ LastReport(x, w) => HasLast(Append(q, x), w)
<1> DEFINE m == Len(q)
           r == Append(q, x)
<1>1. /\ IsList(r) /\ m \in Nat /\ DOMAIN q = 1..m /\ DOMAIN r = 1..(m + 1)
      /\ \A i \in 1..m : r[i] = q[i]
      /\ r[m + 1] = x
  BY ListAppend
<1> HIDE DEF m, r
<1>2. ReportsTrue(r, w, o, g)
  BY <1>1 DEF ReportsTrue
<1>3. m + 1 \in DOMAIN r /\ \A i \in DOMAIN q : i \in DOMAIN r /\ r[i] = q[i]
  BY <1>1
<1>4. HasLast(q, w) \/ LastReport(x, w) => HasLast(r, w)
  BY <1>1, <1>3 DEF HasLast
<1>5. QED
  BY <1>1, <1>2, <1>4 DEF r

(* What is true of a report stays true of it as iothub_task's book grows.  *)
LEMMA ReportStays ==
    ASSUME NEW i, NEW w, NEW o, NEW g \in Nat, NEW w2, NEW o2, NEW g2 \in Nat,
           ReportTrue(i, w, o, g), w.seq \in Nat, w2.seq \in Nat, g <= g2,
           \/ w2.seq > w.seq
           \/ /\ w2.seq = w.seq /\ w2.done = w.done
              /\ "twin" \in o2.items \/ (o2.seen = o.seen /\ "twin" \notin o.items)
    PROVE  ReportTrue(i, w2, o2, g2)
BY DEF ReportTrue

LEMMA ReportsStay ==
    ASSUME NEW q, NEW w, NEW o, NEW g \in Nat, NEW w2, NEW o2, NEW g2 \in Nat,
           ReportsTrue(q, w, o, g), w.seq \in Nat, w2.seq \in Nat, g <= g2,
           \/ w2.seq > w.seq
           \/ /\ w2.seq = w.seq /\ w2.done = w.done
              /\ "twin" \in o2.items \/ (o2.seen = o.seen /\ "twin" \notin o.items)
    PROVE  ReportsTrue(q, w2, o2, g2)
BY ReportStays DEF ReportsTrue

(* Where cloud_tx goes on, and with what in its hands.                     *)
LEMMA CarryMovedTo ==
    ASSUME NEW t, DOMAIN t = TxFields, NEW p
    PROVE  /\ Moved(t, p).item \in {t.item, NoItem} /\ Moved(t, p).twinSeq = t.twinSeq
           /\ Moved(t, p).pc = p
           /\ p # "work" => Moved(t, p).item = t.item /\ Moved(t, p).ret = t.ret
BY DEF Moved, TxFields

LEMMA CarryReplayingTo ==
    ASSUME NEW t, DOMAIN t = TxFields, NEW ret, Replaying(t, ret)
    PROVE  /\ tx'.item \in {t.item, NoItem} /\ tx'.twinSeq = t.twinSeq
           /\ ret = "handle" => Handling(tx'.pc, tx'.ret) /\ tx'.item = t.item
<1>1. CASE tx' = Moved(t, ret)
  BY <1>1, CarryMovedTo DEF Handling
<1>2. CASE tx' = [t EXCEPT !.pc = "offer", !.ret = ret]
  BY <1>2 DEF Handling, TxFields
<1>3. QED
  BY <1>1, <1>2 DEF Replaying

(* A report is dropped only for one built later that cloud_tx has seen.    *)
LastTo(r, t, i, w) ==
    /\ r.item \in {i, NoItem} /\ r.twinSeq \in Nat /\ r.twinSeq <= w.seq
    /\ t.twinSeq < w.seq => IF LastReport(i, w) THEN r.pc = "gate" /\ r.item = i ELSE r.twinSeq < w.seq

LEMMA LastSeenTo ==
    ASSUME NEW t, DOMAIN t = TxFields, NEW w, NEW o, NEW g, w.seq \in Nat,
           t.twinSeq \in Nat, t.twinSeq <= w.seq, NEW i, i.kind = "twin", ReportTrue(i, w, o, g)
    PROVE  LastTo(TwinSeen(t, i), t, i, w)
<1>1. i.seq \in 1..w.seq
  BY DEF ReportTrue
<1>2. CASE Outdated(t, i.seq)
  <2>1. /\ TwinSeen(t, i) = Moved(t, "work") /\ i.seq <= t.twinSeq
    BY <1>2 DEF TwinSeen, Outdated
  <2>2. Moved(t, "work").item = NoItem /\ Moved(t, "work").twinSeq = t.twinSeq
    BY DEF Moved, TxFields
  <2>3. QED
    BY <1>1, <2>1, <2>2 DEF LastTo, LastReport
<1>3. CASE ~Outdated(t, i.seq)
  <2>1. TwinSeen(t, i) = [t EXCEPT !.item = i, !.twinSeq = i.seq, !.pc = "gate"]
    BY <1>3 DEF TwinSeen
  <2>2. TwinSeen(t, i).item = i /\ TwinSeen(t, i).twinSeq = i.seq /\ TwinSeen(t, i).pc = "gate"
    BY <2>1 DEF TxFields
  <2>3. QED
    BY <1>1, <2>2 DEF LastTo, LastReport
<1>4. QED
  BY <1>2, <1>3

LEMMA LastHandledTo ==
    ASSUME NEW t, DOMAIN t = TxFields, NEW w, NEW o, NEW g, w.seq \in Nat, ~frozen,
           t.twinSeq \in Nat, t.twinSeq <= w.seq, NEW i, i.kind \in SessKinds, ReportTrue(i, w, o, g)
    PROVE  LastTo(Handled(t, i), t, i, w)
<1>1. CASE i.kind = "twin"
  BY <1>1, LastSeenTo DEF Handled
<1>2. CASE i.kind = "lifecycle"
  <2>1. Handled(t, i).item \in {i, NoItem} /\ Handled(t, i).twinSeq = t.twinSeq
    <3>1. CASE Handled(t, i) = Moved(t, "work")
      <4>1. Moved(t, "work").item = NoItem /\ Moved(t, "work").twinSeq = t.twinSeq
        BY DEF Moved, TxFields
      <4>2. QED
        BY <3>1, <4>1
    <3>2. CASE \E v : Handled(t, i) = [t EXCEPT !.item = i, !.pc = "gate", !.tried = v]
      BY <3>2 DEF TxFields
    <3>3. QED
      BY <1>2, <3>1, <3>2 DEF Handled
  <2>2. QED
    BY <1>2, <2>1 DEF LastTo, LastReport
<1>3. QED
  BY <1>1, <1>2 DEF SessKinds

-----------------------------------------------------------------------------
(* cloud_tx's steps.                                                       *)

TxTold ==
    /\ ReportsTrue(fifo', twin, owed, gen) /\ ReportsTrue(sessq', twin, owed, gen)
    /\ ReportTrue(tx'.item, twin, owed, gen)
    /\ tx'.twinSeq <= twin.seq
    /\ SeenSession /\ ~StillOwed /\ OnItsWay =>
          \/ /\ tx'.twinSeq < twin.seq
             /\ \/ HasLast(fifo', twin) \/ HasLast(sessq', twin)
                \/ (Handling(tx'.pc, tx'.ret) /\ LastReport(tx'.item, twin))
          \/ tx'.pc \in {"gate", "write"} /\ LastReport(tx'.item, twin)

LEMMA ToldMoves ==
    ASSUME ToldInv, HubTrue', TxTold, UNCHANGED <<twin, owed, gen, frozen, stop>>,
           connected' => connected, hist'.told = hist.told, hist'.ver = hist.ver
    PROVE  ToldInv'
<1>1. BuiltTrue'
  BY DEF ToldInv, BuiltTrue, TxTold, ReportsTrue, ReportTrue
<1>2. SeenSession' => SeenSession
  BY DEF SeenSession, Stopping
<1>3. ASSUME SeenSession' PROVE (StillOwed \/ OnItsWay \/ Arrived)'
  <2>1. StillOwed \/ OnItsWay \/ Arrived
    BY <1>2, <1>3 DEF ToldInv
  <2>2. CASE StillOwed
    BY <2>2 DEF StillOwed
  <2>3. CASE ~StillOwed /\ OnItsWay
    BY <1>2, <1>3, <2>3 DEF TxTold, OnItsWay, HasLast, LastReport
  <2>4. CASE Arrived
    BY <2>4 DEF Arrived
  <2>5. QED
    BY <2>1, <2>2, <2>3, <2>4
<1>4. QED
  BY <1>1, <1>3 DEF ToldInv

LEMMA NoItemTrue == \A w, o, g : ReportTrue(NoItem, w, o, g)
BY DEF ReportTrue, NoItem

(* A step that keeps what it has, and gives a report up only without the   *)
(* session it was for.                                                     *)
LEMMA Carried ==
    ASSUME ToldInv, UNCHANGED <<fifo, sessq>>,
           tx'.twinSeq = tx.twinSeq, tx'.item \in {tx.item, NoItem},
           Handling(tx.pc, tx.ret) => Handling(tx'.pc, tx'.ret) /\ tx'.item = tx.item,
           SeenSession /\ ~StillOwed /\ tx.pc \in {"gate", "write"} /\ LastReport(tx.item, twin) =>
               tx'.pc \in {"gate", "write"} /\ tx'.item = tx.item
    PROVE  TxTold
<1>1. ReportTrue(tx'.item, twin, owed, gen)
  BY NoItemTrue DEF ToldInv, BuiltTrue
<1>2. QED
  BY <1>1 DEF ToldInv, BuiltTrue, TxTold, OnItsWay

TxKnown ==
    /\ DOMAIN tx = TxFields /\ tx.twinSeq \in Nat /\ twin.seq \in Nat /\ tx.twinSeq <= twin.seq
    /\ IsList(fifo) /\ IsList(sessq) /\ DOMAIN hist = HistFields

LEMMA TxIsKnown ==
    ASSUME FlowInv, TwinInv, ToldInv
    PROVE  TxKnown
BY DEF FlowInv, Flowing, Told, Placed, FifoOK, SessOK, TwinInv, TxTwin, ToldInv, BuiltTrue, TxKnown

(* The replay and the store, which hold no report but the one the replay   *)
(* of a new session holds up.                                              *)
LEMMA ReplayTold ==
    ASSUME TxKnown, Placed(tx, buf), ToldInv,
           CheckSession \/ Proceed \/ HoldLapses \/ StoreCheck \/ Store \/ StoreFails \/ Stamp
               \/ ReplayGate \/ ReplayDrop \/ ReplayWrite \/ DrainFails \/ DrainEnds
    PROVE  TxTold
<1>0. DOMAIN tx = TxFields
  BY DEF TxKnown
<1>1. UNCHANGED <<fifo, sessq>> /\ tx.pc \notin {"gate", "write"}
  BY DEF CheckSession, Proceed, HoldLapses, StoreCheck, Store, StoreFails, Stamp, ReplayGate,
         ReplayDrop, ReplayWrite, DrainFails, DrainEnds, At
<1>2. /\ tx'.twinSeq = tx.twinSeq /\ tx'.item \in {tx.item, NoItem}
      /\ Handling(tx.pc, tx.ret) => Handling(tx'.pc, tx'.ret) /\ tx'.item = tx.item
  <2>1. CASE CheckSession
    <3>1. DOMAIN Served(tx) = TxFields /\ Served(tx).item = tx.item /\ Served(tx).twinSeq = tx.twinSeq
      BY <1>0 DEF Served, TxFields
    <3>2. Replaying(Served(tx), "work") /\ tx.pc = "work"
      BY <2>1 DEF CheckSession, At
    <3>3. QED
      BY <3>1, <3>2, CarryReplayingTo DEF Handling
  <2>2. CASE Proceed
    <3> DEFINE t == [tx EXCEPT !.hold = FALSE, !.gen = gen]
    <3>1. DOMAIN t = TxFields /\ t.item = tx.item /\ t.twinSeq = tx.twinSeq
      BY <1>0 DEF TxFields
    <3>2. (Replaying(t, "fifo") \/ tx' = Moved(t, "fifo")) /\ tx.pc = "work"
      BY <2>2 DEF Proceed, At
    <3> HIDE DEF t
    <3>3. QED
      BY <3>1, <3>2, CarryReplayingTo, CarryMovedTo DEF Handling
  <2>3. CASE HoldLapses
    BY <1>0, <2>3 DEF HoldLapses, At, TxFields, Handling
  <2>4. CASE StoreCheck \/ Store \/ StoreFails
    <3>1. tx.pc \in {"store", "keep", "storing"}
      BY <2>4 DEF StoreCheck, Store, StoreFails, At
    <3>2. To("work") \/ tx' = [tx EXCEPT !.pc = "storing", !.ret = tx.pc]
      BY <2>4 DEF StoreCheck, Store, StoreFails
    <3>3. CASE To("work")
      BY <1>0, <3>1, <3>3, CarryMovedTo DEF To, Handling
    <3>4. CASE tx' = [tx EXCEPT !.pc = "storing", !.ret = tx.pc]
      BY <1>0, <3>1, <3>4 DEF TxFields, Handling
    <3>5. QED
      BY <3>2, <3>3, <3>4
  <2>5. CASE ReplayGate \/ ReplayWrite \/ DrainFails
    <3>1. \/ tx' = [tx EXCEPT !.pc = "replay", !.pub = gen]
          \/ \E p \in {"drained", "offer"} : To(p)
      BY <2>5 DEF ReplayGate, ReplayWrite, DrainFails
    <3>2. tx.pc \in {"offer", "replay"}
      BY <2>5 DEF ReplayGate, ReplayWrite, DrainFails, At
    <3>3. CASE tx' = [tx EXCEPT !.pc = "replay", !.pub = gen]
      BY <1>0, <3>2, <3>3 DEF TxFields, Handling
    <3>4. CASE \E p \in {"drained", "offer"} : To(p)
      BY <1>0, <3>2, <3>4, CarryMovedTo DEF To, Handling
    <3>5. QED
      BY <3>1, <3>3, <3>4
  <2>6. CASE DrainEnds
    <3>1. tx.pc = "drained" /\ \E p : To(p) /\ (tx.ret = "handle" => p = "handle")
      BY <2>6 DEF DrainEnds, At
    <3>2. QED
      BY <1>0, <3>1, CarryMovedTo DEF To, Handling
  <2>7. CASE Stamp \/ ReplayDrop
    BY <2>7 DEF Stamp, ReplayDrop
  <2>8. QED
    BY <2>1, <2>2, <2>3, <2>4, <2>5, <2>6, <2>7
<1>3. QED
  BY <1>1, <1>2, Carried

(* The gate is open to the last report: its session is the one that is up. *)
LEMMA GateTold ==
    ASSUME TxKnown, GateInv, ToldInv, Gate
    PROVE  TxTold
<1>0. DOMAIN tx = TxFields /\ UNCHANGED <<fifo, sessq>> /\ tx.pc = "gate"
  BY DEF TxKnown, Gate, At
<1>1. \/ /\ PubOpen /\ RightSession
         /\ tx' = [tx EXCEPT !.pc = "write", !.pub = gen]
      \/ ~(PubOpen /\ RightSession) /\ \E p : To(p)
  BY DEF Gate
<1>2. tx'.twinSeq = tx.twinSeq /\ tx'.item \in {tx.item, NoItem}
  <2>1. CASE tx' = [tx EXCEPT !.pc = "write", !.pub = gen]
    BY <1>0, <2>1 DEF TxFields
  <2>2. CASE \E p : To(p)
    BY <1>0, <2>2, CarryMovedTo DEF To
  <2>3. QED
    BY <1>1, <2>1, <2>2
<1>3. ASSUME SeenSession, ~StillOwed, LastReport(tx.item, twin)
      PROVE  PubOpen /\ RightSession
  <2>1. gate = "free"
    BY <1>0, <1>3 DEF GateInv, SessionInv, GateHeld, Publishing, ToldInv, HubTrue, SeenSession, Stopping
  <2>2. tx.item.kind = "twin" /\ tx.item.gen = gen
    BY <1>3 DEF LastReport, ToldInv, BuiltTrue, ReportTrue, StillOwed, SeenSession, HubTrue
  <2>3. QED
    BY <1>3, <2>1, <2>2 DEF PubOpen, RightSession, WantedGen, SeenSession
<1>4. SeenSession /\ ~StillOwed /\ LastReport(tx.item, twin) => tx'.pc = "write" /\ tx'.item = tx.item
  BY <1>0, <1>1, <1>3 DEF TxFields
<1>5. ~Handling(tx.pc, tx.ret)
  BY <1>0 DEF Handling
<1>6. QED
  BY <1>0, <1>2, <1>4, <1>5, Carried

(* An item of the session queue, at once or after the replay it waited for.*)
LEMMA HandleTold ==
    ASSUME TxKnown, TwinInv, ToldInv, HandleSession
    PROVE  TxTold
<1>0. /\ tx' = Handled(tx, tx.item) /\ UNCHANGED <<fifo, sessq>> /\ tx.pc = "handle"
      /\ tx.item.kind \in SessKinds /\ ReportTrue(tx.item, twin, owed, gen) /\ DOMAIN tx = TxFields
      /\ tx.twinSeq \in Nat /\ tx.twinSeq <= twin.seq /\ twin.seq \in Nat
  BY DEF HandleSession, At, TwinInv, TxTwin, Handling, ToldInv, BuiltTrue, TxKnown
<1>1. CASE frozen
  <2>1. tx' = Moved(tx, "work")
    BY <1>0, <1>1 DEF Handled
  <2>2. tx'.item \in {tx.item, NoItem} /\ tx'.twinSeq = tx.twinSeq
    BY <1>0, <2>1, CarryMovedTo
  <2>3. ~SeenSession
    BY <1>1 DEF SeenSession
  <2>4. QED
    BY <1>0, <2>2, <2>3, NoItemTrue DEF ToldInv, BuiltTrue, TxTold
<1>2. CASE ~frozen
  <2>1. LastTo(tx', tx, tx.item, twin)
    BY <1>0, <1>2, LastHandledTo
  <2>2. ReportTrue(tx'.item, twin, owed, gen) /\ tx'.twinSeq <= twin.seq
    BY <1>0, <2>1, NoItemTrue DEF LastTo
  <2>3. ReportsTrue(fifo, twin, owed, gen) /\ ReportsTrue(sessq, twin, owed, gen)
    BY DEF ToldInv, BuiltTrue
  <2>4. QED
    BY <1>0, <2>1, <2>2, <2>3 DEF TxTold, OnItsWay, LastTo
<1>3. QED
  BY <1>1, <1>2

LEMMA TakeTold ==
    ASSUME TxKnown, TwinInv, ToldInv, TakeSession
    PROVE  TxTold
<1> DEFINE i == Head(sessq)
           q == Tail(sessq)
<1>0. /\ fifo' = fifo /\ sessq' = q /\ tx.pc = "work" /\ IsList(sessq) /\ sessq # <<>>
      /\ DOMAIN tx = TxFields /\ tx.twinSeq \in Nat /\ tx.twinSeq <= twin.seq /\ twin.seq \in Nat
      /\ ReportsTrue(fifo, twin, owed, gen) /\ ReportsTrue(sessq, twin, owed, gen)
  BY DEF TakeSession, At, ToldInv, BuiltTrue, TxKnown
<1>1. /\ ReportTrue(i, twin, owed, gen) /\ ReportsTrue(q, twin, owed, gen)
      /\ HasLast(sessq, twin) => LastReport(i, twin) \/ HasLast(q, twin)
  BY <1>0, ReportsTail
<1>2. i.kind \in SessKinds
  <2>1. i = sessq[1] /\ 1 \in DOMAIN sessq
    BY <1>0, ListTail
  <2>2. QED
    BY <2>1 DEF TwinInv, ForSession
<1>3. \/ tx' = Handled(tx, i)
      \/ Replaying(Served([tx EXCEPT !.item = i]), "handle")
  BY DEF TakeSession
<1>4. OnItsWay => tx.twinSeq < twin.seq /\ (HasLast(fifo, twin) \/ LastReport(i, twin) \/ HasLast(q, twin))
  BY <1>0, <1>1 DEF OnItsWay, Handling
<1> HIDE DEF i, q
<1>5. CASE tx' = Handled(tx, i) /\ frozen
  <2>1. tx' = Moved(tx, "work")
    BY <1>5 DEF Handled
  <2>2. tx'.item \in {tx.item, NoItem} /\ tx'.twinSeq = tx.twinSeq
    BY <1>0, <2>1, CarryMovedTo
  <2>3. ~SeenSession
    BY <1>5 DEF SeenSession
  <2>4. QED
    BY <1>0, <1>1, <2>2, <2>3, NoItemTrue DEF ToldInv, BuiltTrue, TxTold
<1>6. CASE tx' = Handled(tx, i) /\ ~frozen
  <2>1. LastTo(tx', tx, i, twin)
    BY <1>0, <1>1, <1>2, <1>6, LastHandledTo
  <2>2. ReportTrue(tx'.item, twin, owed, gen) /\ tx'.twinSeq <= twin.seq
    BY <1>1, <2>1, NoItemTrue DEF LastTo
  <2>3. QED
    BY <1>0, <1>1, <1>4, <2>1, <2>2 DEF TxTold, LastTo
<1>7. CASE Replaying(Served([tx EXCEPT !.item = i]), "handle")
  <2> DEFINE t == Served([tx EXCEPT !.item = i])
  <2>1. DOMAIN t = TxFields /\ t.item = i /\ t.twinSeq = tx.twinSeq
    BY <1>0 DEF Served, TxFields
  <2>2. Replaying(t, "handle")
    BY <1>7
  <2> HIDE DEF t
  <2>3. tx'.item = i /\ tx'.twinSeq = tx.twinSeq /\ Handling(tx'.pc, tx'.ret)
    BY <2>1, <2>2, CarryReplayingTo
  <2>4. QED
    BY <1>0, <1>1, <1>4, <2>3 DEF TxTold
<1>8. QED
  BY <1>3, <1>5, <1>6, <1>7

LEMMA ServiceTold ==
    ASSUME TxKnown, ToldInv, ServiceOne
    PROVE  TxTold
<1> DEFINE i == Head(fifo)
           q == Tail(fifo)
<1>0. /\ sessq' = sessq /\ tx.pc = "fifo" /\ IsList(fifo)
      /\ DOMAIN tx = TxFields /\ tx.twinSeq \in Nat /\ tx.twinSeq <= twin.seq /\ twin.seq \in Nat
      /\ ReportsTrue(fifo, twin, owed, gen) /\ ReportsTrue(sessq, twin, owed, gen)
      /\ ReportTrue(tx.item, twin, owed, gen)
  BY DEF ServiceOne, At, ToldInv, BuiltTrue, TxKnown
<1>1. fifo # <<>> =>
          /\ ReportTrue(i, twin, owed, gen) /\ ReportsTrue(q, twin, owed, gen)
          /\ HasLast(fifo, twin) => LastReport(i, twin) \/ HasLast(q, twin)
  BY <1>0, ReportsTail
<1>2. OnItsWay => tx.twinSeq < twin.seq /\ (HasLast(fifo, twin) \/ HasLast(sessq, twin))
  BY <1>0 DEF OnItsWay, Handling
<1>3. \/ To("work") /\ fifo' = fifo
      \/ /\ fifo # <<>> /\ fifo' = q
         /\ \/ To("work") /\ (frozen \/ i.kind = "clear")
            \/ i.kind = "event" /\ SendEvent([tx EXCEPT !.item = i], i)
            \/ i.kind = "twin" /\ tx' = TwinSeen(tx, i)
  BY DEF ServiceOne
<1> HIDE DEF i, q
<1>4. CASE To("work") /\ (fifo' = fifo \/ (fifo # <<>> /\ fifo' = q /\ (frozen \/ i.kind = "clear")))
  <2>1. tx'.item \in {tx.item, NoItem} /\ tx'.twinSeq = tx.twinSeq
    BY <1>0, <1>4, CarryMovedTo DEF To
  <2>2. QED
    BY <1>0, <1>1, <1>2, <1>4, <2>1, NoItemTrue DEF TxTold, SeenSession, LastReport
<1>5. CASE fifo # <<>> /\ fifo' = q /\ i.kind = "event" /\ SendEvent([tx EXCEPT !.item = i], i)
  <2> DEFINE t == [tx EXCEPT !.item = i]
  <2>1. DOMAIN t = TxFields /\ t.item = i /\ t.twinSeq = tx.twinSeq
    BY <1>0 DEF TxFields
  <2>2. \/ \E p : tx' = Moved(t, p)
        \/ \E ret : Replaying(t, ret)
    BY <1>5 DEF SendEvent
  <2> HIDE DEF t
  <2>3. tx'.item \in {i, NoItem} /\ tx'.twinSeq = tx.twinSeq
    BY <2>1, <2>2, CarryMovedTo, CarryReplayingTo
  <2>4. ~LastReport(i, twin)
    BY <1>5 DEF LastReport
  <2>5. QED
    BY <1>0, <1>1, <1>2, <1>5, <2>3, <2>4, NoItemTrue DEF TxTold
<1>6. CASE fifo # <<>> /\ fifo' = q /\ i.kind = "twin" /\ tx' = TwinSeen(tx, i)
  <2>1. LastTo(tx', tx, i, twin)
    BY <1>0, <1>1, <1>6, LastSeenTo
  <2>2. ReportTrue(tx'.item, twin, owed, gen) /\ tx'.twinSeq <= twin.seq
    BY <1>1, <1>6, <2>1, NoItemTrue DEF LastTo
  <2>3. QED
    BY <1>0, <1>1, <1>2, <1>6, <2>1, <2>2 DEF TxTold, LastTo
<1>7. QED
  BY <1>3, <1>4, <1>5, <1>6

(* The publish: esp-mqtt takes the last report; or refuses it, and it is   *)
(* owed again; or the session ends.                                        *)
LEMMA WriteTold ==
    ASSUME TxKnown, TwinInv, ToldInv, HubTrue', Write
    PROVE  ToldInv'
<1>0. /\ UNCHANGED <<fifo, sessq, owed, gen, frozen, stop>> /\ tx.pc = "write"
      /\ DOMAIN tx = TxFields /\ DOMAIN hist = HistFields
      /\ DOMAIN twin = {"req", "done", "due", "refused", "seq"}
      /\ tx.twinSeq \in Nat /\ tx.twinSeq <= twin.seq /\ twin.seq \in Nat
      /\ hist.told \in Nat /\ hist.told <= tx.twinSeq
      /\ ReportTrue(tx.item, twin, owed, gen)
      /\ tx.item.kind = "twin" => tx.item.seq = tx.twinSeq
  BY DEF Write, At, TwinInv, TxTwin, ToldInv, BuiltTrue, TxKnown
<1>1. /\ tx'.item = NoItem \/ (tx'.item = tx.item /\ tx.item.kind = "event")
      /\ tx'.twinSeq = tx.twinSeq
  <2>1. CASE To("work")
    <3>1. Moved(tx, "work").item = NoItem /\ Moved(tx, "work").twinSeq = tx.twinSeq
      BY <1>0 DEF Moved, TxFields
    <3>2. QED
      BY <2>1, <3>1 DEF To
  <2>2. CASE To("keep") /\ tx.item.kind = "event"
    BY <1>0, <2>2, CarryMovedTo DEF To
  <2>3. CASE \E v : tx' = Moved([tx EXCEPT !.taken = v], "work")
    BY <1>0, <2>3 DEF Moved, TxFields
  <2>4. QED
    BY <2>1, <2>2, <2>3 DEF Write
<1>2. /\ twin'.seq = twin.seq /\ twin'.done = twin.done /\ twin'.req = twin.req /\ twin'.due = twin.due
      /\ twin.refused => twin'.refused
  BY <1>0 DEF Write
<1>3. /\ \/ hist'.told = hist.told /\ hist'.ver = hist.ver
         \/ tx.item.kind = "twin" /\ hist'.told = tx.item.seq /\ hist'.ver = tx.item.ver
      /\ tx.item.kind = "twin" /\ tx.item.gen = gen /\ connected' =>
            twin'.refused \/ hist'.told = tx.item.seq
  <2>1. CASE tx.item.kind = "twin"
    <3>1. PICK o \in Outcomes :
              /\ hist' = IF o = "taken" THEN [hist EXCEPT !.told = tx.item.seq, !.ver = tx.item.ver] ELSE hist
              /\ twin' = [twin EXCEPT !.refused = @ \/ (o # "taken" /\ connected' /\ gen = tx.item.gen)]
      BY <2>1 DEF Write
    <3>2. o = "taken" => hist'.told = tx.item.seq /\ hist'.ver = tx.item.ver
      BY <1>0, <3>1 DEF HistFields
    <3>3. o # "taken" => hist' = hist
      BY <3>1
    <3>4. o # "taken" /\ tx.item.gen = gen /\ connected' => twin'.refused
      BY <1>0, <3>1
    <3>5. QED
      BY <2>1, <3>2, <3>3, <3>4
  <2>2. CASE tx.item.kind # "twin"
    BY <1>0, <2>2 DEF Write, HistFields
  <2>3. QED
    BY <2>1, <2>2
<1>4. BuiltTrue'
  <2>1. /\ ReportsTrue(fifo, twin', owed, gen) /\ ReportsTrue(sessq, twin', owed, gen)
    BY <1>0, <1>2 DEF ToldInv, BuiltTrue, ReportsTrue, ReportTrue
  <2>2. ReportTrue(tx'.item, twin', owed, gen)
    BY <1>1 DEF ReportTrue, NoItem
  <2>3. hist'.told = twin.seq /\ twin.seq > 0 => hist'.ver = twin.done
    BY <1>0, <1>3 DEF ToldInv, BuiltTrue, ReportTrue
  <2>4. QED
    BY <1>0, <1>1, <1>2, <2>1, <2>2, <2>3 DEF BuiltTrue, ReportsTrue, ReportTrue
<1>5. ASSUME SeenSession' PROVE (StillOwed \/ OnItsWay \/ Arrived)'
  <2>1. connected' => connected
    BY <1>0 DEF Write, WriteEnds, SessionEnds
  <2>2. SeenSession /\ connected'
    BY <1>0, <1>5, <2>1 DEF SeenSession, Stopping
  <2>3. StillOwed \/ OnItsWay \/ Arrived
    BY <2>2 DEF ToldInv
  <2>4. CASE StillOwed
    BY <1>0, <1>2, <2>4 DEF StillOwed
  <2>5. CASE ~StillOwed /\ OnItsWay
    <3>1. CASE tx.twinSeq < twin.seq /\ (HasLast(fifo, twin) \/ HasLast(sessq, twin))
      <4>1. HasLast(fifo', twin') \/ HasLast(sessq', twin')
        BY <1>0, <1>2, <3>1 DEF HasLast, LastReport
      <4>2. QED
        BY <1>0, <1>1, <1>2, <3>1, <4>1 DEF OnItsWay
    <3>2. CASE LastReport(tx.item, twin)
      <4>1. tx.item.kind = "twin" /\ tx.item.gen = gen /\ tx.item.seq = twin.seq /\ twin.seq > 0
        BY <1>0, <2>2, <2>5, <3>2 DEF LastReport, ReportTrue, StillOwed, SeenSession, ToldInv, HubTrue
      <4>2. twin'.refused \/ hist'.told = twin.seq
        BY <1>3, <2>2, <4>1
      <4>3. QED
        BY <1>2, <4>1, <4>2 DEF StillOwed, Arrived
    <3>3. QED
      BY <1>0, <2>5, <3>1, <3>2 DEF OnItsWay, Handling
  <2>6. CASE Arrived
    <3>1. hist'.told = twin.seq
      BY <1>0, <1>3, <2>6 DEF Arrived
    <3>2. QED
      BY <1>2, <2>6, <3>1 DEF Arrived
  <2>7. QED
    BY <2>3, <2>4, <2>5, <2>6
<1>6. QED
  BY <1>4, <1>5 DEF ToldInv

-----------------------------------------------------------------------------
(* The facts of iothub_task, esp-mqtt's handler and the gate.              *)

LEMMA SessionHubTrue ==
    ASSUME GateInv, TwinInv, HubTrue, SessionNext, UNCHANGED txVars
    PROVE  /\ HubTrue'
           /\ SeenSession' => SeenSession
           /\ gen' \in Nat /\ gen <= gen'
<1>0. /\ UNCHANGED <<twin, owed, frozen>> /\ DOMAIN owed = {"seen", "items"}
      /\ gen \in Nat /\ owed.seen \in Nat /\ owed.seen <= gen
      /\ client = "offline" => ~connected
  BY DEF HubTrue, GateInv, SessionInv, ClientTrue, txVars
<1> USE DEF HubTrue, SeenSession, Stopping
<1>1. CASE HubSessionNext
  BY <1>0, <1>1 DEF HubSessionNext, HubMarks, Withdraw, Admit, SasMaintain, StopRequest, StartClient
<1>2. CASE Connect
  BY <1>0, <1>2 DEF Connect
<1>3. CASE Marks
  BY <1>0, <1>3 DEF Marks, MarkConnected
<1>4. CASE HandlerEnds
  <2>1. (connected' => connected) /\ handler' = "idle" /\ UNCHANGED <<gen, stop, hub, gate>>
    BY <1>4 DEF HandlerEnds, StillWanted
  <2>2. QED
    BY <1>0, <2>1
<1>5. CASE StopNext
  BY <1>0, <1>5 DEF StopNext, StopTake, StopEnds
<1>6. CASE OutsideNext
  BY <1>0, <1>6 DEF OutsideNext, WifiLost, WifiUp, SoftApUp, SoftApDown, ClockSync, TokenAges,
                    LinkLost, SessionEnds
<1>7. QED
  BY <1>1, <1>2, <1>3, <1>4, <1>5, <1>6 DEF SessionNext, MqttNext

LEMMA TxHubTrue ==
    ASSUME HubTrue, TwinInv, TxSteps \/ HoldLapses \/ CmdAck \/ PostEvent \/ PostClear \/ TwinRequest
               \/ Decommission \/ ClearTimesOut
    PROVE  HubTrue'
<1>1. CASE ClearTimesOut
  BY <1>1 DEF ClearTimesOut, HubTrue
<1>2. CASE TwinRequest
  <2>1. twin'.req = twin.req + 1 /\ twin'.done = twin.done /\ UNCHANGED <<sessVars, owed, frozen>>
    BY <1>2 DEF TwinRequest, TwinInv
  <2>2. QED
    BY <2>1 DEF HubTrue, sessVars
<1>3. CASE Write
  <2>1. /\ twin'.req = twin.req /\ twin'.done = twin.done /\ gate' = "free"
        /\ UNCHANGED <<handler, gen, hub, owed, frozen>> /\ (connected' => connected)
    BY <1>3 DEF Write, WriteEnds, SessionEnds, PubEnd, TwinInv
  <2>2. QED
    BY <2>1 DEF HubTrue
<1>4. CASE ReplayWrite
  <2>1. /\ UNCHANGED <<twin, handler, gen, hub, owed, frozen>> /\ gate' = "free" /\ (connected' => connected)
    BY <1>4 DEF ReplayWrite, WriteEnds, SessionEnds, PubEnd
  <2>2. QED
    BY <2>1 DEF HubTrue
<1>5. CASE Gate \/ ReplayGate
  <2>1. /\ UNCHANGED <<twin, handler, gen, hub, owed, frozen, connected>> /\ gate' \in {gate, "tx"}
    BY <1>5 DEF Gate, ReplayGate, PubBegin
  <2>2. QED
    BY <2>1 DEF HubTrue
<1>6. CASE Decommission \/ PostClear
  <2>1. /\ UNCHANGED <<twin, handler, gen, owed, frozen, connected, gate>>
        /\ hub # "erased"
    BY <1>6 DEF Decommission, PostClear, txVars
  <2>2. QED
    BY <2>1 DEF HubTrue
<1>7. CASE CheckSession \/ TakeSession \/ HandleSession \/ Proceed \/ ServiceOne \/ StoreCheck \/ Store
               \/ StoreFails \/ Stamp \/ ReplayDrop \/ DrainFails \/ DrainEnds \/ HoldLapses \/ CmdAck
               \/ PostEvent
  <2>1. /\ UNCHANGED <<twin, handler, gen, hub, owed, frozen, connected, gate>>
    BY <1>7 DEF CheckSession, TakeSession, HandleSession, Proceed, ServiceOne, StoreCheck, Store,
                StoreFails, Stamp, ReplayDrop, DrainFails, DrainEnds, HoldLapses, CmdAck, PostEvent,
                sessVars
  <2>2. QED
    BY <2>1 DEF HubTrue
<1>8. QED
  BY <1>1, <1>2, <1>3, <1>4, <1>5, <1>6, <1>7 DEF TxSteps

-----------------------------------------------------------------------------
(* iothub_task builds: a report posted is the last one, and it tells of    *)
(* the last change.                                                        *)

LEMMA PostTwinTold ==
    ASSUME TxKnown, TwinInv, ToldInv, PostTwin
    PROVE  ToldInv'
<1>0. /\ UNCHANGED <<sessVars, sessq, tx, hist, owed, frozen>> /\ twin' = Posted(twin)
      /\ fifo' = Append(fifo, Report(gen)) /\ IsList(fifo)
      /\ DOMAIN twin = {"req", "done", "due", "refused", "seq"} /\ twin.seq \in Nat
      /\ hist.told \in Nat /\ hist.told <= tx.twinSeq /\ tx.twinSeq \in Nat /\ tx.twinSeq <= twin.seq
      /\ gen \in Nat /\ owed.seen \in Nat /\ owed.seen <= gen
  BY DEF PostTwin, TxKnown, TwinInv, ToldInv, HubTrue
<1>1. /\ twin'.seq = twin.seq + 1 /\ twin'.done = twin.req /\ twin'.req = twin.req
  BY <1>0 DEF Posted
<1>2. LastReport(Report(gen), twin') /\ ReportTrue(Report(gen), twin', owed, gen)
  BY <1>0, <1>1 DEF LastReport, ReportTrue, Report
<1>3. HubTrue'
  BY <1>0, <1>1 DEF ToldInv, HubTrue, sessVars
<1>4. /\ ReportsTrue(fifo, twin', owed, gen) /\ ReportsTrue(sessq, twin', owed, gen)
      /\ ReportTrue(tx.item, twin', owed, gen)
  BY <1>0, <1>1, ReportStays, ReportsStay DEF ToldInv, BuiltTrue
<1>5. ReportsTrue(fifo', twin', owed, gen) /\ HasLast(fifo', twin')
  BY <1>0, <1>2, <1>4, ReportsAppend
<1>6. BuiltTrue'
  <2>1. tx.twinSeq <= twin'.seq /\ hist.told # twin'.seq
    BY <1>0, <1>1
  <2>2. QED
    BY <1>0, <1>4, <1>5, <2>1 DEF BuiltTrue, ReportsTrue, ReportTrue, sessVars
<1>7. OnItsWay'
  BY <1>0, <1>1, <1>5 DEF OnItsWay, HasLast, LastReport
<1>8. QED
  BY <1>3, <1>6, <1>7 DEF ToldInv

(* A new session owes a report until one is posted for it.                 *)
LEMMA SessionBlockTold ==
    ASSUME TxKnown, TwinInv, ToldInv, SessionBlock
    PROVE  ToldInv'
<1>0. /\ UNCHANGED <<sessVars, fifo, tx, hist, frozen>> /\ IsList(sessq)
      /\ DOMAIN twin = {"req", "done", "due", "refused", "seq"} /\ twin.seq \in Nat
      /\ hist.told \in Nat /\ hist.told <= tx.twinSeq /\ tx.twinSeq \in Nat /\ tx.twinSeq <= twin.seq
      /\ gen \in Nat /\ owed.seen \in Nat /\ owed.seen <= gen
      /\ ReportsTrue(fifo, twin, owed, gen) /\ ReportsTrue(sessq, twin, owed, gen)
      /\ ReportTrue(tx.item, twin, owed, gen)
  BY DEF SessionBlock, TxKnown, TwinInv, ToldInv, HubTrue, BuiltTrue
<1> DEFINE told == RefusalTaken(twin)
<1>1. /\ told.seq = twin.seq /\ told.done = twin.done /\ told.req = twin.req
      /\ (told.due <=> twin.due \/ twin.refused)
      /\ DOMAIN told = DOMAIN twin
  <2> DEFINE d == twin.due \/ twin.refused
  <2>1. told = [twin EXCEPT !.due = d, !.refused = FALSE]
    BY DEF RefusalTaken
  <2>2. told.due = d /\ told.seq = twin.seq /\ told.done = twin.done /\ told.req = twin.req
    <3> HIDE DEF d, told
    <3>1. QED
      BY <1>0, <2>1
  <2>3. DOMAIN told = DOMAIN twin
    <3> HIDE DEF d, told
    <3>1. QED
      BY <1>0, <2>1
  <2> HIDE DEF told
  <2>4. QED
    BY <2>2, <2>3
<1>2. PICK q \in {sessq, Append(sessq, Lifecycle(gen))} :
          /\ DOMAIN owed' = {"seen", "items"}
          /\ owed'.seen = IF UnseenByHub THEN gen ELSE owed.seen
          /\ \/ sessq' = Append(q, Report(gen)) /\ twin' = Posted(told) /\ connected
             \/ /\ sessq' = q /\ twin' = told
                /\ UnseenByHub \/ "twin" \in owed.items => "twin" \in owed'.items
  <2> DEFINE items == IF UnseenByHub THEN {"lifecycle", "twin"} ELSE owed.items
             sendLc == connected /\ ("lifecycle" \in items \/ lcOwed) /\ Len(sessq) < SessLen
             q1 == IF sendLc THEN Append(sessq, Lifecycle(gen)) ELSE sessq
             sendTwin == connected /\ "twin" \in items /\ Len(q1) < SessLen
             left == (items \cup IF connected /\ lcOwed THEN {"lifecycle"} ELSE {})
                        \ ((IF sendLc THEN {"lifecycle"} ELSE {}) \cup IF sendTwin THEN {"twin"} ELSE {})
  <2>1. /\ sessq' = IF sendTwin THEN Append(q1, Report(gen)) ELSE q1
        /\ twin' = IF sendTwin THEN Posted(told) ELSE told
        /\ owed' = [seen |-> IF UnseenByHub THEN gen ELSE owed.seen, items |-> left]
    BY DEF SessionBlock
  <2>2. ~sendTwin /\ "twin" \in items => "twin" \in left
    OBVIOUS
  <2>3. UnseenByHub \/ "twin" \in owed.items => "twin" \in items
    OBVIOUS
  <2>4. q1 \in {sessq, Append(sessq, Lifecycle(gen))} /\ (sendTwin => connected)
    OBVIOUS
  <2> HIDE DEF items, sendLc, q1, sendTwin, left, told
  <2>5. DOMAIN owed' = {"seen", "items"} /\ owed'.items = left
        /\ owed'.seen = IF UnseenByHub THEN gen ELSE owed.seen
    BY <2>1
  <2>6. CASE sendTwin
    BY <2>1, <2>4, <2>5, <2>6
  <2>7. CASE ~sendTwin
    BY <2>1, <2>2, <2>3, <2>4, <2>5, <2>7
  <2>8. QED
    BY <2>6, <2>7
<1> HIDE DEF told
<1>3. /\ IsList(q) /\ ReportsTrue(q, twin, owed, gen)
      /\ HasLast(sessq, twin) => HasLast(q, twin)
  <2>1. ReportTrue(Lifecycle(gen), twin, owed, gen)
    BY DEF ReportTrue, Lifecycle
  <2>2. CASE q = sessq
    BY <1>0, <2>2
  <2>3. CASE q = Append(sessq, Lifecycle(gen))
    BY <1>0, <2>1, <2>3, ReportsAppend
  <2>4. QED
    BY <1>2, <2>2, <2>3
<1>4. CASE sessq' = Append(q, Report(gen)) /\ twin' = Posted(told) /\ connected
  <2>0. sessq' = Append(q, Report(gen)) /\ twin' = Posted(told) /\ connected
    BY <1>4
  <2>1. /\ twin'.seq = twin.seq + 1 /\ twin'.done = twin.req /\ twin'.req = twin.req
    BY <1>0, <1>1, <2>0 DEF Posted
  <2>2. owed'.seen \in Nat /\ owed'.seen <= gen /\ DOMAIN owed' = {"seen", "items"}
    BY <1>0, <1>2
  <2>3. LastReport(Report(gen), twin') /\ ReportTrue(Report(gen), twin', owed', gen)
    BY <1>0, <2>1, <2>2 DEF LastReport, ReportTrue, Report
  <2>4. HubTrue'
    <3>1. handler # "mark"
      BY <2>0 DEF ToldInv, HubTrue
    <3>2. QED
      BY <1>0, <2>1, <2>2, <3>1 DEF ToldInv, HubTrue, sessVars
  <2>5. /\ ReportsTrue(fifo, twin', owed', gen) /\ ReportsTrue(q, twin', owed', gen)
        /\ ReportTrue(tx.item, twin', owed', gen)
    BY <1>0, <1>3, <2>1, ReportStays, ReportsStay
  <2>6. ReportsTrue(sessq', twin', owed', gen) /\ HasLast(sessq', twin')
    BY <1>3, <2>0, <2>3, <2>5, ReportsAppend
  <2>7. BuiltTrue'
    <3>1. tx.twinSeq <= twin'.seq /\ hist.told # twin'.seq
      BY <1>0, <2>1
    <3>2. QED
      BY <1>0, <2>5, <2>6, <3>1 DEF BuiltTrue, ReportsTrue, ReportTrue, sessVars
  <2>8. OnItsWay'
    BY <1>0, <2>1, <2>6 DEF OnItsWay, HasLast, LastReport
  <2>9. QED
    BY <2>4, <2>7, <2>8 DEF ToldInv
<1>5. CASE /\ sessq' = q /\ twin' = told
           /\ UnseenByHub \/ "twin" \in owed.items => "twin" \in owed'.items
  <2>0. /\ sessq' = q /\ twin' = told
        /\ twin'.seq = twin.seq /\ twin'.done = twin.done /\ twin'.req = twin.req
    BY <1>1, <1>2, <1>5
  <2>1. /\ owed'.seen \in Nat /\ owed'.seen <= gen /\ DOMAIN owed' = {"seen", "items"}
        /\ "twin" \in owed'.items \/ (owed'.seen = owed.seen /\ "twin" \notin owed.items)
    BY <1>0, <1>2, <1>5
  <2>2. HubTrue'
    <3>1. handler = "mark" => owed'.seen < gen
      BY <1>0, <1>2 DEF ToldInv, HubTrue, UnseenByHub
    <3>2. QED
      BY <1>0, <2>0, <2>1, <3>1 DEF ToldInv, HubTrue, sessVars
  <2>3. /\ ReportsTrue(fifo, twin', owed', gen) /\ ReportsTrue(q, twin', owed', gen)
        /\ ReportTrue(tx.item, twin', owed', gen)
    BY <1>0, <1>3, <2>0, <2>1, ReportStays, ReportsStay
  <2>4. BuiltTrue'
    BY <1>0, <2>0, <2>3 DEF ToldInv, BuiltTrue, ReportsTrue, ReportTrue, sessVars
  <2>5. ASSUME SeenSession', "twin" \notin owed'.items PROVE (StillOwed \/ OnItsWay \/ Arrived)'
    <3>1. SeenSession
      BY <1>0, <2>1, <2>5 DEF SeenSession, Stopping, sessVars
    <3>2. StillOwed \/ OnItsWay \/ Arrived
      BY <3>1 DEF ToldInv
    <3>3. StillOwed => StillOwed'
      <4>1. twin.due \/ twin.refused => twin'.due
        BY <1>1, <2>0
      <4>2. "twin" \in owed.items => "twin" \in owed'.items
        BY <2>1
      <4>3. QED
        BY <2>0, <4>1, <4>2 DEF StillOwed
    <3>4. OnItsWay => OnItsWay'
      BY <1>0, <1>3, <2>0 DEF OnItsWay, HasLast, LastReport
    <3>5. Arrived => Arrived'
      BY <1>0, <2>0 DEF Arrived
    <3>6. QED
      BY <3>2, <3>3, <3>4, <3>5
  <2>6. QED
    BY <2>2, <2>4, <2>5 DEF ToldInv, StillOwed
<1>6. QED
  BY <1>2, <1>4, <1>5

(* What else is posted is no report; and a request makes one owed.         *)
LEMMA PostsTold ==
    ASSUME TxKnown, ToldInv, HubTrue',
           PostEvent \/ PostClear \/ CmdAck \/ ClearTimesOut \/ Decommission \/ Rest \/ UNCHANGED vars
    PROVE  ToldInv'
<1>0. /\ UNCHANGED <<sessq, tx, twin, owed, gen, stop, connected>>
      /\ IsList(fifo) /\ ReportsTrue(fifo, twin, owed, gen) /\ ReportsTrue(sessq, twin, owed, gen)
  BY DEF TxKnown, ToldInv, BuiltTrue, PostEvent, PostClear, CmdAck, ClearTimesOut, Decommission, Rest,
         vars, sessVars, txVars
<1>1. hist'.told = hist.told /\ hist'.ver = hist.ver
  BY DEF TxKnown, PostEvent, PostClear, CmdAck, ClearTimesOut, Decommission, Rest, Lost, HistFields,
         vars, txVars
<1>2. fifo' = fifo \/ \E x \in {EventItem(next, ~synced), ClearItem} : fifo' = Append(fifo, x)
  BY DEF PostEvent, PostClear, CmdAck, ClearTimesOut, Decommission, Rest, vars, txVars
<1>3. \A x \in {EventItem(next, ~synced), ClearItem} : ReportTrue(x, twin, owed, gen)
  BY DEF EventItem, ClearItem, ReportTrue
<1>4. ReportsTrue(fifo', twin, owed, gen) /\ (HasLast(fifo, twin) => HasLast(fifo', twin))
  BY <1>0, <1>2, <1>3, ReportsAppend
<1>5. TxTold
  BY <1>0, <1>4 DEF ToldInv, BuiltTrue, TxTold, OnItsWay
<1>6. CASE ClearTimesOut
  <2>1. ~SeenSession'
    BY <1>6 DEF ClearTimesOut, SeenSession
  <2>2. BuiltTrue'
    BY <1>0, <1>1, <1>4 DEF ToldInv, BuiltTrue, ReportsTrue, ReportTrue
  <2>3. QED
    BY <2>1, <2>2 DEF ToldInv
<1>7. CASE ~ClearTimesOut
  <2>1. frozen' = frozen
    BY <1>7 DEF PostEvent, PostClear, CmdAck, Decommission, Rest, vars, txVars
  <2>2. QED
    BY <1>0, <1>1, <1>5, <2>1, ToldMoves
<1>8. QED
  BY <1>6, <1>7

LEMMA RequestTold ==
    ASSUME TwinInv, ToldInv, HubTrue', TwinRequest
    PROVE  ToldInv'
<1>1. /\ UNCHANGED <<sessVars, fifo, sessq, owed, tx, hist>>
      /\ twin'.req = twin.req + 1 /\ twin'.done = twin.done /\ twin'.seq = twin.seq
  BY DEF TwinRequest, TwinInv
<1>2. BuiltTrue'
  BY <1>1 DEF ToldInv, BuiltTrue, ReportsTrue, ReportTrue, sessVars
<1>3. twin'.req # twin'.done
  BY <1>1 DEF ToldInv, HubTrue
<1>4. QED
  BY <1>2, <1>3 DEF ToldInv, StillOwed

LEMMA RestartTold ==
    ASSUME TxKnown, TwinInv, ToldInv, Restart \/ DecomRestart
    PROVE  ToldInv'
<1>1. /\ SessionRestart /\ fifo' = <<>> /\ sessq' = <<>> /\ tx' = TxFresh /\ frozen' = FALSE
      /\ owed' = [seen |-> 0, items |-> {}]
      /\ twin' = [twin EXCEPT !.done = twin.req, !.due = FALSE, !.refused = FALSE, !.seq = 0]
  BY DEF Restart, DecomRestart, Restarted
<1>2. twin'.req = twin.req /\ twin'.done = twin.req /\ twin'.seq = 0 /\ twin.req \in Nat
  BY <1>1 DEF TwinInv, ToldInv, HubTrue
<1>3. HubTrue'
  BY <1>1, <1>2 DEF SessionRestart, HubTrue
<1>4. BuiltTrue'
  <2>1. tx'.item = NoItem /\ tx'.twinSeq = 0
    BY <1>1 DEF TxFresh
  <2>2. ReportTrue(tx'.item, twin', owed', gen')
    BY <2>1, NoItemTrue
  <2>3. QED
    BY <1>1, <1>2, <2>1, <2>2, EmptyIsList DEF BuiltTrue, ReportsTrue, ReportTrue
<1>5. ~SeenSession'
  BY <1>1 DEF SessionRestart, SeenSession
<1>6. QED
  BY <1>3, <1>4, <1>5 DEF ToldInv

LEMMA SessionTold ==
    ASSUME GateInv, TwinInv, ToldInv, SessionNext, UNCHANGED txVars
    PROVE  ToldInv'
<1>1. /\ UNCHANGED <<fifo, sessq, twin, owed, tx, hist>> /\ gen \in Nat
      /\ twin.seq \in Nat
  BY DEF txVars, TwinInv, ToldInv, HubTrue
<1>2. HubTrue' /\ (SeenSession' => SeenSession) /\ gen' \in Nat /\ gen <= gen'
  BY SessionHubTrue DEF ToldInv
<1>3. /\ ReportsTrue(fifo, twin, owed, gen') /\ ReportsTrue(sessq, twin, owed, gen')
      /\ ReportTrue(tx.item, twin, owed, gen')
  BY <1>1, <1>2, ReportStays, ReportsStay DEF ToldInv, BuiltTrue
<1>4. BuiltTrue'
  BY <1>1, <1>3 DEF ToldInv, BuiltTrue, ReportsTrue, ReportTrue
<1>5. StillOwed \/ OnItsWay \/ Arrived => (StillOwed \/ OnItsWay \/ Arrived)'
  BY <1>1 DEF StillOwed, OnItsWay, Arrived, HasLast, LastReport
<1>6. QED
  BY <1>2, <1>4, <1>5 DEF ToldInv

LEMMA ToldInvInductive == GateInv /\ FlowInv /\ TwinInv /\ ToldInv /\ [Next]_vars => ToldInv'
<1> SUFFICES ASSUME GateInv, FlowInv, TwinInv, ToldInv, [Next]_vars PROVE ToldInv'
  OBVIOUS
<1>0. TxKnown /\ Placed(tx, buf) /\ HubTrue
  BY TxIsKnown DEF FlowInv, Flowing, ToldInv
<1>1. CASE SessionNext /\ UNCHANGED txVars
  BY <1>1, SessionTold
<1>2. CASE Write
  BY <1>0, <1>2, TxHubTrue, WriteTold DEF TxSteps
<1>3. CASE (TxSteps /\ ~Write) \/ HoldLapses
  <2>1. TxTold
    BY <1>0, <1>3, ReplayTold, GateTold, HandleTold, TakeTold, ServiceTold DEF TxSteps
  <2>2. HubTrue'
    BY <1>0, <1>3, TxHubTrue
  <2>3. UNCHANGED <<twin, owed, gen, frozen, stop>> /\ (connected' => connected)
    <3>1. CASE ReplayWrite
      <4>1. connected' => connected
        BY <3>1 DEF ReplayWrite, WriteEnds, SessionEnds
      <4>2. QED
        BY <3>1, <4>1 DEF ReplayWrite
    <3>2. CASE CheckSession \/ TakeSession \/ HandleSession \/ Proceed \/ ServiceOne \/ Gate
                   \/ StoreCheck \/ Store \/ StoreFails \/ Stamp \/ ReplayGate \/ ReplayDrop
                   \/ DrainFails \/ DrainEnds \/ HoldLapses
      BY <3>2 DEF CheckSession, TakeSession, HandleSession, Proceed, ServiceOne, Gate, StoreCheck,
                  Store, StoreFails, Stamp, ReplayGate, ReplayDrop, DrainFails, DrainEnds, HoldLapses,
                  sessVars
    <3>3. QED
      BY <1>3, <3>1, <3>2 DEF TxSteps
  <2>4. hist'.told = hist.told /\ hist'.ver = hist.ver
    BY <1>0, <1>3 DEF TxSteps, CheckSession, TakeSession, HandleSession, Proceed, ServiceOne, Gate,
                StoreCheck, Store, StoreFails, Stamp, ReplayGate, ReplayDrop, ReplayWrite, DrainFails,
                DrainEnds, HoldLapses, Lost, TxKnown, HistFields
  <2>5. QED
    BY <2>1, <2>2, <2>3, <2>4, ToldMoves
<1>4. CASE SessionBlock
  BY <1>0, <1>4, SessionBlockTold
<1>5. CASE PostTwin
  BY <1>0, <1>5, PostTwinTold
<1>6. CASE TwinRequest
  BY <1>0, <1>6, TxHubTrue, RequestTold
<1>7. CASE Restart \/ DecomRestart
  BY <1>0, <1>7, RestartTold
<1>8. CASE PostEvent \/ PostClear \/ CmdAck \/ ClearTimesOut \/ Decommission \/ Rest \/ UNCHANGED vars
  <2>1. HubTrue'
    <3>1. CASE UNCHANGED vars
      BY <1>0, <3>1 DEF vars, sessVars, txVars, HubTrue
    <3>2. QED
      BY <1>0, <1>8, <3>1, TxHubTrue DEF Rest
  <2>2. QED
    BY <1>0, <1>8, <2>1, PostsTold
<1>9. QED
  BY <1>1, <1>2, <1>3, <1>4, <1>5, <1>6, <1>7, <1>8 DEF Next, HubSteps

LEMMA ToldInvInitially == Init => ToldInv
<1> SUFFICES ASSUME Init PROVE ToldInv
  OBVIOUS
<1>1. tx.item = NoItem /\ tx.twinSeq = 0 /\ ReportTrue(tx.item, twin, owed, gen)
  BY NoItemTrue DEF Init, TxFresh
<1>2. QED
  BY <1>1, EmptyIsList DEF Init, SessionInit, ToldInv, HubTrue, BuiltTrue, ReportsTrue, SeenSession

(* When nothing is queued and the session that is up is owed nothing,      *)
(* every event is out and esp-mqtt took a report that tells of the last    *)
(* change: no refusal, no session that ended under a report and no order   *)
(* of the two queues leaves one untold (SessionBlock, PostTwin).           *)
THEOREM SettledToldHolds == Spec => []SettledTold
<1>1. GateInv /\ FlowInv /\ ToldInv => SettledTold
  <2> SUFFICES ASSUME GateInv, FlowInv, ToldInv, AtRest, connected
               PROVE  /\ hist.ver = twin.req
                      /\ 1..(next - 1) \subseteq hist.handed \cup hist.lost
    BY DEF SettledTold
  <2>1. /\ tx.pc = "work" /\ fifo = <<>> /\ sessq = <<>> /\ buf = <<>> /\ hub = "loop" /\ ~Stopping
    BY DEF AtRest, Idle, At
  <2>2. hist.ver = twin.req
    <3>1. SeenSession /\ ~StillOwed
      BY <2>1 DEF AtRest, SessionDue, ReportDue, UnseenByHub, SeenSession, StillOwed, ToldInv, HubTrue
    <3>2. ~OnItsWay
      BY <2>1, EmptyIsList DEF OnItsWay, HasLast, Handling
    <3>3. Arrived /\ twin.req = twin.done
      BY <3>1, <3>2 DEF ToldInv, StillOwed
    <3>4. QED
      BY <3>3 DEF Arrived, ToldInv, BuiltTrue
  <2>3. ASSUME NEW n \in 1..(next - 1) PROVE n \in hist.handed \cup hist.lost
    <3>1. NumsOf(fifo) = {} /\ BufNums(buf) = {}
      BY <2>1, FifoEmpty, BufEmpty
    <3>2. Here(tx.item) = {}
      BY <2>1 DEF FlowInv, Flowing, Placed, IsEvent, Here
    <3>3. QED
      BY <2>3, <3>1, <3>2 DEF FlowInv, Told
  <2>4. QED
    BY <2>2, <2>3
<1>2. FlowInv /\ TwinInv /\ [Next]_vars => TwinInv'
  BY TwinInvInductive DEF TwinStep
<1>3. QED
  BY <1>1, <1>2, GateInvInitially, GateInvInductive, FlowInvInitially, FlowInvInductive,
     TwinInvInitially, ToldInvInitially, ToldInvInductive, PTL DEF Spec

=============================================================================
