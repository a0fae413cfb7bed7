------------------------------ MODULE EventLog ------------------------------
(***************************************************************************)
(* What the offline buffer promises (main/offline_buffer/offline_buffer.h):*)
(* a log of at most Max events, each durable from its store on and sent    *)
(* oldest first with a true time.  An event leaves the log only sent, for  *)
(* Max newer ones, because its time can never be known, or with the        *)
(* deployment it belongs to.                                               *)
(***************************************************************************)
EXTENDS Naturals, FiniteSets

CONSTANT Max   \* events the log holds

VARIABLES
    kept,     \* the events kept
    sent,     \* the event last handed to the session
    ending    \* the deployment is being ended

logVars == <<kept, sent, ending>>

(* An event's number, in the order stored, and its time: known, still owed *)
(* by this boot's uptime, or gone with the boot that built it.             *)
Event == [id : Nat, time : {"real", "owed", "gone"}]

Dated(e) == [e EXCEPT !.time = "real"]

IsOldest(e) == e \in kept /\ \A f \in kept : e.id <= f.id

LogInit ==
    /\ kept = {}
    /\ sent = [id |-> 0, time |-> "real"]
    /\ ending = FALSE

(* A full log makes room by losing its oldest, and only a full one does.   *)
LogStore ==
    /\ \E e \in kept', lost \in SUBSET kept :
          /\ e \in Event /\ e.time # "gone"
          /\ \A f \in kept : f.id < e.id
          /\ Cardinality(lost) = IF Cardinality(kept) = Max THEN 1 ELSE 0
          /\ \A f \in lost : IsOldest(f)
          /\ kept' = (kept \ lost) \cup {e}
    /\ UNCHANGED <<sent, ending>>

(* The oldest is handed over, and stays the log's until it is taken out: a *)
(* session that ends meanwhile has it sent again.                          *)
LogSend ==
    /\ \E e \in kept : IsOldest(e) /\ e.time # "gone" /\ sent' = Dated(e)
    /\ UNCHANGED <<kept, ending>>

LogTakeOut ==
    /\ \E e \in kept :
          /\ IsOldest(e)
          /\ e.time = "gone" \/ sent.id = e.id
          /\ kept' = kept \ {e}
    /\ UNCHANGED <<sent, ending>>

(* Events whose time is owed get it, in the log.                           *)
LogDate ==
    /\ \E S \in SUBSET {e \in kept : e.time = "owed"} :
          kept' = (kept \ S) \cup {Dated(e) : e \in S}
    /\ UNCHANGED <<sent, ending>>

LogClear == kept' = {} /\ UNCHANGED <<sent, ending>>

LogEnd == kept' = {} /\ ending' = TRUE /\ UNCHANGED sent

(* A restart keeps every event, none of them an ended deployment's.        *)
LogRestart ==
    /\ ending => kept = {}
    /\ kept' = {IF e.time = "owed" THEN [e EXCEPT !.time = "gone"] ELSE e : e \in kept}
    /\ ending' = FALSE
    /\ UNCHANGED sent

LogNext ==
    \/ LogStore \/ LogSend \/ LogTakeOut \/ LogDate
    \/ LogClear \/ LogEnd \/ LogRestart

LogSpec == LogInit /\ [][LogNext]_logVars
=============================================================================
