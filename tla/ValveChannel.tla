---------------------------- MODULE ValveChannel ----------------------------
(***************************************************************************)
(* The path a command takes from the hub to a motorised valve              *)
(* (main/ble_valve/app_ble_valve.c), at the grain the rules engine sees:   *)
(* a command is posted to ble_cmd_queue, the valve task takes it and       *)
(* either hands it to the BLE host or leaves it in one of two pending      *)
(* slots, and what the hub knows of the valve is a cache that only the     *)
(* valve's own reports change.                                             *)
(*                                                                         *)
(* One step of the valve task is a whole command, its write attempts       *)
(* included: it ends accepted by the host or pended.  A write the host     *)
(* accepted travels in "air", with the read-back queued behind it, and is  *)
(* lost when the link drops.                                               *)
(***************************************************************************)
EXTENDS Naturals, Sequences

CONSTANTS
    Valves,    \* identities (MAC addresses) of the valves
    NoValve,   \* no valve provisioned, or no link
    CmdDepth,  \* slots of ble_cmd_queue
    UpdDepth,  \* slots of ble_update_queue
    AirDepth,  \* writes the BLE host can hold
    Flaky      \* TRUE: a write may fail all its attempts, a read-back its one

ASSUME ChannelAssumption ==
    /\ NoValve \notin Valves
    /\ CmdDepth \in Nat \ {0}
    /\ UpdDepth \in Nat \ {0}
    /\ AirDepth \in Nat \ {0}
    /\ Flaky \in BOOLEAN

VARIABLES
    target,  \* the provisioned valve: g_target_valve_mac, g_has_target_mac
    wanted,  \* g_connect_requested
    cmdq,    \* ble_cmd_queue
    pend,    \* g_pending_rmleak_cmd and g_pending_valve_cmd
    link,    \* valve_conn_handle, g_valve_mac and the setup state bits
    air,     \* writes accepted by the host and not yet answered
    cache,   \* g_val_state, g_val_rmleak, g_val_leak
    updq,    \* ble_update_queue: the updates the hub's event loop acts on
    dev      \* the valves themselves

chanVars == <<target, wanted, cmdq, pend, link, air, cache, updq, dev>>

RmlCmds   == {"set", "clear"}
ValveCmds == {"open", "close"}
Writes    == RmlCmds \cup ValveCmds
Cmds      == Writes \cup {"connect", "disconnect", "replay"}
Updates   == {"connected", "leak"}

NoLink     == [peer |-> NoValve, stage |-> "down", term |-> FALSE]
EmptyCache == [pos |-> "unknown", rml |-> FALSE, leak |-> FALSE]
NoPend     == [rml |-> "none", valve |-> "none"]

ChanTypeOK ==
    /\ target \in Valves \cup {NoValve}
    /\ wanted \in BOOLEAN
    /\ cmdq \in Seq(Cmds) /\ Len(cmdq) <= CmdDepth
    /\ pend \in [rml : RmlCmds \cup {"none"}, valve : ValveCmds \cup {"none"}]
    /\ link \in [peer : Valves, stage : {"setup", "ready"}, term : BOOLEAN] \cup {NoLink}
    /\ air \in Seq(Writes) /\ Len(air) <= AirDepth
    /\ cache \in [pos : {"open", "closed", "unknown"}, rml : BOOLEAN, leak : BOOLEAN]
    /\ updq \in Seq(Updates) /\ Len(updq) <= UpdDepth
    /\ dev \in [Valves -> [pos : {"open", "closed"}, rml : BOOLEAN, flood : BOOLEAN]]

HasTarget    == target # NoValve
Linked       == link # NoLink
LinkIsTarget == HasTarget /\ link.peer = target
Ready        == link.stage = "ready" /\ LinkIsTarget

ChanInit ==
    /\ target \in Valves
    /\ wanted = FALSE
    /\ cmdq = <<"connect">>
    /\ pend = NoPend
    /\ link = NoLink
    /\ air = <<>>
    /\ cache = EmptyCache
    /\ updq = <<>>
    /\ dev \in [Valves -> [pos : {"open", "closed"}, rml : {FALSE}, flood : {FALSE}]]

-----------------------------------------------------------------------------
(* Posting, by any task of the hub.                                        *)

CanPost(q)   == HasTarget /\ Len(q) < CmdDepth
Posted(q, c) == IF CanPost(q) THEN Append(q, c) ELSE q

(* ble_valve_cancel_pending_close(): only the two slots, not the queue.    *)
CancelPendingClose(p) ==
    [rml   |-> IF p.rml = "set" THEN "none" ELSE p.rml,
     valve |-> IF p.valve = "close" THEN "none" ELSE p.valve]

NotifiedLatest(q, u) == <<u>>     \* mutant: an update overwrites the one before
Notified(q, u) == IF Len(q) < UpdDepth THEN Append(q, u) ELSE q

-----------------------------------------------------------------------------
(* The valve task.  An outcome is the slots, the air, and how the write     *)
(* ended: "sent", "held" for the next link, "retry" by a replay token, or   *)
(* "failed", which the task answers by closing the link.                    *)

Accepted(p, a, slot, c) ==
    [p |-> [p EXCEPT ![slot] = "none"], a |-> Append(a, c), end |-> "sent"]
PendedLost(p, a, slot, c, end) == [p |-> p, a |-> a, end |-> end]     \* mutant
Pended(p, a, slot, c, end) ==
    [p |-> [p EXCEPT ![slot] = c], a |-> a, end |-> end]
Idle(p, a) == [p |-> p, a |-> a, end |-> "sent"]

(* write_cmd_with_retry() and finish_cmd_write(): an accepted write empties *)
(* its slot; a busy host pends the value behind a replay token; no link and *)
(* a write that fails all its attempts pend it for the next link.           *)
WriteAlways(ready, p, a, slot, c) ==     \* mutant: a busy host is not noticed
    IF ~ready THEN {Pended(p, a, slot, c, "held")} ELSE {Accepted(p, a, slot, c)}
WriteOutcomes(ready, p, a, slot, c) ==
    IF ~ready THEN {Pended(p, a, slot, c, "held")}
    ELSE (IF Len(a) < AirDepth THEN {Accepted(p, a, slot, c)}
                               ELSE {Pended(p, a, slot, c, "retry")})
         \cup (IF Flaky THEN {Pended(p, a, slot, c, "failed")} ELSE {})

(* The pended RMLEAK goes out before any position write.                    *)
RmlFirst(ready, p, a) ==
    IF ready /\ p.rml # "none" THEN WriteOutcomes(ready, p, a, "rml", p.rml)
                               ELSE {Idle(p, a)}

(* write_valve_command(): pended behind an RMLEAK that could not go out.    *)
(* finish_cmd_write() asks for a token for a CLOSE on a link that stays up. *)
ValveOutcomes(p, a, c) ==
    UNION { IF o.end = "sent" THEN WriteOutcomes(Ready, o.p, o.a, "valve", c)
            ELSE {Pended(o.p, o.a, "valve", c, end) :
                    end \in {o.end} \cup (IF c = "close" THEN {"retry"} ELSE {})}
          : o \in RmlFirst(Ready, p, a) }

(* replay_pending_cmds(): after an RMLEAK that failed, an OPEN is held, and *)
(* a CLOSE too when the token that the RMLEAK left will bring both again.   *)
ReplayOutcomes(p, a) ==
    UNION { IF o.p.valve = "none" \/ o.end = "retry" \/ (o.end # "sent" /\ o.p.valve = "open")
              THEN {o}
            ELSE WriteOutcomes(Ready, o.p, o.a, "valve", o.p.valve)
          : o \in RmlFirst(Ready, p, a) }

(* The two apply_pending_cmd() calls of setup: a write that failed on this  *)
(* link leaves both slots to a replay token.                                *)
SetupOutcomes(p, a) ==
    UNION { IF o.end = "sent" /\ o.p.valve # "none"
              THEN WriteOutcomes(TRUE, o.p, o.a, "valve", o.p.valve) ELSE {o}
          : o \in RmlFirst(TRUE, p, a) }

(* post_replay_token(): at the front, once, if there is room.               *)
TokenPosted(q) ==
    IF Len(q) >= CmdDepth \/ (q # <<>> /\ Head(q) = "replay") THEN q ELSE <<"replay">> \o q

TakeWrite(outcomes) ==
    /\ \E o \in outcomes :
          /\ pend' = o.p
          /\ air' = o.a
          /\ cmdq' = IF o.end = "retry" THEN TokenPosted(Tail(cmdq)) ELSE Tail(cmdq)
          /\ wanted' = (wanted \/ o.end \in {"held", "failed"})
          \* after CMD_MAX_FORCED_RELINKS in a row the link is left up
          /\ \/ link' = link
             \/ o.end = "failed" /\ link' = [link EXCEPT !.term = TRUE]
    /\ UNCHANGED <<target, cache, updq, dev>>

(* ble_valve_task(): one item of the queue.                                 *)
TakeCmd ==
    /\ cmdq # <<>>
    /\ LET c == Head(cmdq) IN
       \/ c \in RmlCmds /\ HasTarget /\ TakeWrite(WriteOutcomes(Ready, pend, air, "rml", c))
       \/ c \in ValveCmds /\ HasTarget /\ TakeWrite(ValveOutcomes(pend, air, c))
       \/ c = "replay" /\ TakeWrite(ReplayOutcomes(pend, air))
       \/ /\ c \in Writes /\ ~HasTarget
          /\ cmdq' = Tail(cmdq)
          /\ UNCHANGED <<target, wanted, pend, link, air, cache, updq, dev>>
       \/ /\ c = "connect"
          /\ cmdq' = Tail(cmdq)
          /\ wanted' = HasTarget
          /\ UNCHANGED <<target, pend, link, air, cache, updq, dev>>
       \/ /\ c = "disconnect"
          /\ cmdq' = Tail(cmdq)
          /\ wanted' = FALSE
          /\ link' = IF Linked THEN [link EXCEPT !.term = TRUE] ELSE link
          /\ UNCHANGED <<target, pend, air, cache, updq, dev>>

-----------------------------------------------------------------------------
(* The BLE host task.                                                       *)

(* BLE_GAP_EVENT_CONNECT for a claim of the provisioned valve.              *)
LinkUp ==
    /\ ~Linked
    /\ HasTarget /\ wanted
    /\ link' = [peer |-> target, stage |-> "setup", term |-> FALSE]
    /\ cache' = EmptyCache
    /\ UNCHANGED <<target, wanted, cmdq, pend, air, updq, dev>>

(* The last step of GATT setup: the cache holds what setup read, CONNECTED  *)
(* and LEAK are posted, then the pended commands are applied.  On a link to *)
(* a valve that is no longer the target nothing is read, posted or written. *)
SetupDone ==
    /\ link.stage = "setup"
    /\ link' = [link EXCEPT !.stage = "ready"]
    /\ IF LinkIsTarget
         THEN /\ cache' = [pos  |-> dev[target].pos, rml |-> dev[target].rml,
                           leak |-> dev[target].flood]
              /\ updq' = Notified(Notified(updq, "connected"), "leak")
              /\ \E o \in SetupOutcomes(pend, air) :
                    /\ pend' = o.p
                    /\ air' = o.a
                    /\ cmdq' = IF o.end = "sent" THEN cmdq ELSE TokenPosted(cmdq)
         ELSE UNCHANGED <<cache, updq, pend, air, cmdq>>
    /\ UNCHANGED <<target, wanted, dev>>

(* link_closed(): what was in the air is lost, the slots are not.           *)
Unlink ==
    /\ link' = NoLink
    /\ cache' = EmptyCache
    /\ air' = <<>>

LinkDrop ==
    /\ Linked
    /\ Unlink
    /\ UNCHANGED <<target, wanted, cmdq, pend, updq, dev>>

(* on_notify(): reports of the target valve on a set-up link.               *)
Heard(v) == link.stage = "ready" /\ LinkIsTarget /\ v = target

(* A write reaches the valve; its read-back reaches the cache, or is lost.  *)
(* The position is notified whether or not it is read.                      *)
Deliver ==
    /\ air # <<>>
    /\ LET c == Head(air)
           v == link.peer
           d == dev[v]
           n == CASE c = "set"   -> [d EXCEPT !.rml = TRUE, !.pos = "closed"]
                  [] c = "clear" -> [d EXCEPT !.rml = FALSE]
                  [] c = "close" -> [d EXCEPT !.pos = "closed"]
                  [] c = "open"  -> IF d.rml \/ d.flood THEN d ELSE [d EXCEPT !.pos = "open"]
       IN /\ dev' = [dev EXCEPT ![v] = n]
          /\ \E read \in (IF Flaky THEN BOOLEAN ELSE {TRUE}) :
                cache' = IF ~Heard(v) THEN cache
                         ELSE [cache EXCEPT !.pos = n.pos,
                                 !.rml = IF read /\ c \in RmlCmds THEN n.rml ELSE @]
    /\ air' = Tail(air)
    /\ UNCHANGED <<target, wanted, cmdq, pend, link, updq>>

-----------------------------------------------------------------------------
(* The valve on its own (external).                                         *)

(* A long press: opens a closed valve, clearing its RMLEAK, unless its own  *)
(* probe is wet; closes an open one.                                        *)
Press(v) ==
    /\ ~dev[v].flood
    /\ LET n == IF dev[v].pos = "closed" THEN [dev[v] EXCEPT !.pos = "open", !.rml = FALSE]
                                          ELSE [dev[v] EXCEPT !.pos = "closed"]
       IN /\ dev' = [dev EXCEPT ![v] = n]
          /\ cache' = IF Heard(v) THEN [cache EXCEPT !.pos = n.pos, !.rml = n.rml] ELSE cache
    /\ UNCHANGED <<target, wanted, cmdq, pend, link, air, updq>>

(* Its own probe gets wet, and the valve closes itself, or dries.           *)
FloodChange(v) ==
    LET n == [dev[v] EXCEPT !.flood = ~@, !.pos = IF dev[v].flood THEN @ ELSE "closed"]
    IN /\ dev' = [dev EXCEPT ![v] = n]
       /\ cache' = IF Heard(v) THEN [cache EXCEPT !.pos = n.pos, !.leak = n.flood] ELSE cache
       /\ updq' = IF Heard(v) THEN Notified(updq, "leak") ELSE updq
       /\ UNCHANGED <<target, wanted, cmdq, pend, link, air>>

(* It restarts: its link is gone, and RMLEAK may be; kept, it closes.       *)
PowerLoss(v) ==
    /\ \E kept \in BOOLEAN :
          dev' = [dev EXCEPT ![v].rml = @ /\ kept,
                             ![v].pos = IF dev[v].rml /\ kept THEN "closed" ELSE @]
    /\ IF link.peer = v THEN Unlink ELSE UNCHANGED <<link, cache, air>>
    /\ UNCHANGED <<target, wanted, cmdq, pend, updq>>

-----------------------------------------------------------------------------
(* Changing the provisioned valve, by the task that changes provisioning.   *)

(* ble_valve_set_target_mac(v) with a change: the queue goes, the slots are *)
(* emptied (NoPend), and a link to a valve other than the new one is asked  *)
(* to close.                                                                *)
QueueFor(v) == IF v # NoValve /\ Linked /\ link.peer # v THEN <<"disconnect">> ELSE <<>>
=============================================================================
