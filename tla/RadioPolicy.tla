---------------------------- MODULE RadioPolicy ----------------------------
(***************************************************************************)
(* The 2.4 GHz radio that Wi-Fi and BLE share (main/radio_policy/          *)
(* radio_policy.c and the scan executor of main/ble_leak_scanner/          *)
(* app_ble_leak.c).  The executor runs a row of scan slots and stops them  *)
(* for a pulse, of Wi-Fi or of the valve's claim, that the policy grants.  *)
(*                                                                         *)
(* Time goes in ticks of 300 ms, the shortest slot; the executor wakes at  *)
(* every edge of its own, so no tick passes while it has something to do.  *)
(* Which of a mode's rows runs is left open, and so is when the spacing,   *)
(* I2b's room and RP_REPEAT_MS let the next pulse go.                      *)
(***************************************************************************)
EXTENDS Naturals, Sequences

LOCAL INSTANCE FiniteSetsExt

CONSTANTS
    WifiKinds,       \* bound: the Wi-Fi pulses asked for, of SUBMIT, JOIN, RETRY, LIST
    MaxRadioFaults   \* bound: failed starts and cancels, lost scans and syncs

ASSUME RadioAssumption ==
    /\ WifiKinds \subseteq {"SUBMIT", "JOIN", "RETRY", "LIST"}
    /\ MaxRadioFaults \in Nat

VARIABLES
    row,        \* the row that runs, "none" between rows
    nth,        \* its slot, 0 for the Wi-Fi slot that may lead it
    ran,        \* ticks of that slot; at its length the slot is done
    own,        \* own_end: the last scan ended by itself
    blind,      \* ticks since a Coded scan covered an advert interval
    recovery,   \* the recovery row is due or runs
    pulse,      \* the pulse that runs: "none", a Wi-Fi kind, "CONNECT"
    left,       \* its ticks to the deadline
    granting,   \* the kind granted within a pass, before the scan is stopped
    spaced,     \* prof_ms >= space_ms, and I2b's room
    paced,      \* a SUBMIT or JOIN began within RP_REPEAT_MS
    lastClaim,  \* last_pulse is RP_PULSE_CONNECT
    req,        \* s_req: FREE and REFUSED count as "idle"
    submit,     \* s_submit: the setup page's Connect is in flight
    windowed,   \* the SoftAP is up and the STA has no IP
    lr,         \* a leak response is pending and its overlay runs
    due,        \* ble_valve_claim_wanted()
    nimble,     \* NimBLE is synced
    radioFaults, \* faults so far
    radioHist   \* history: the Connect had its answer; a fault excuses
                \* blind; Wi-Fi pulses begun while a claim waits

execVars  == <<row, nth, ran, own, blind, recovery>>
pulseVars == <<pulse, left, granting, spaced, paced, lastClaim>>
factVars  == <<submit, windowed, lr, due, nimble, radioFaults>>
radioVars == <<execVars, pulseVars, req, factVars, radioHist>>

-----------------------------------------------------------------------------
(* The profile table, in ticks (N_HUNT's 450 ms are two): C holds Coded, M  *)
(* is 1M only, W is Wi-Fi's.  SERVE_B's rows are another build's.           *)

Rows == [
    N_CODED      |-> <<<<"C", 3>>>>,
    N_HUNT       |-> <<<<"C", 3>>, <<"M", 2>>>>,
    N_MIXED      |-> <<<<"M", 3>>, <<"C", 3>>>>,
    NORMAL_LR    |-> <<<<"M", 3>>, <<"C", 2>>>>,
    RECOVERY     |-> <<<<"C", 4>>>>,
    SERVE_A      |-> <<<<"C", 2>>, <<"W", 2>>>>,
    SERVE_A_DISC |-> <<<<"C", 2>>, <<"W", 1>>, <<"M", 1>>, <<"W", 1>>>>,
    APIDLE       |-> <<<<"C", 2>>, <<"W", 1>>>>,
    APIDLE_DISC  |-> <<<<"C", 2>>, <<"W", 1>>, <<"M", 1>>, <<"W", 1>>>>,
    AP_K1M       |-> <<<<"C", 2>>, <<"W", 1>>, <<"M", 2>>, <<"W", 1>>>>,
    LR_AP_30     |-> <<<<"M", 4>>, <<"C", 2>>>>,
    LR_AP        |-> <<<<"M", 2>>, <<"W", 1>>, <<"C", 2>>, <<"W", 1>>>> ]

BlindMax == 9      \* RP_BLIND_MAX_MS, 2.8 s
Cover    == 2      \* RP_L_MS: a Coded scan this long has covered an interval
Short    == 5      \* RP_RETRY_MS, RP_CONNECT_MS, RP_UNALIGNED_MIN_MS: 1.5 s
Long     == 8      \* RP_CONNECT_LR_MS, RP_LIST_MAX_MS: 2.5 s
LeadMax  == 3      \* row_begin(): a lead slot still keeps RP_GAP_MAX_MS
Unknown  == BlindMax + 1

CodedAt(r)  == CHOOSE i \in DOMAIN Rows[r] : Rows[r][i][1] = "C"
RowGap(r)   == MapThenSumSet(LAMBDA i : Rows[r][i][2], DOMAIN Rows[r] \ {CodedAt(r)})
HoldsI8(r)  == r \in
    {"SERVE_A", "SERVE_A_DISC", "APIDLE", "APIDLE_DISC", "AP_K1M", "LR_AP"}
Following(r, i) == (i % Len(Rows[r])) + 1

(* The rows of the mode the facts give.                                     *)
ModeRows ==
    CASE lr /\ windowed   -> {"LR_AP_30", "LR_AP"}
      [] lr /\ ~windowed  -> {"NORMAL_LR"}
      [] ~lr /\ windowed  ->
             {"SERVE_A", "SERVE_A_DISC", "APIDLE", "APIDLE_DISC", "AP_K1M"}
      [] ~lr /\ ~windowed -> {"N_CODED", "N_HUNT", "N_MIXED"}

Slot     == IF nth = 0 THEN <<"W", 1>> ELSE Rows[row][nth]
Running  == row # "none" /\ ran < Slot[2]
Ended    == row # "none" /\ ran = Slot[2]
ScanOn   == Running /\ Slot[1] # "W"
CodedOn  == Running /\ Slot[1] = "C"
Boundary == row = "none" \/ Ended

(* at_coded_end; no tick passes between a slot's end and the pass.          *)
AtCodedEnd == Ended /\ Slot[1] = "C"

(* coded_budget(): a Coded scan that has covered counts as ending now.      *)
Young  == CodedOn /\ ran < Cover
BudgetOfAnyScan ==                   \* mutant: a young scan counts
    IF CodedOn THEN BlindMax ELSE IF blind < BlindMax THEN BlindMax - blind ELSE 0
Budget == IF blind < BlindMax THEN BlindMax - blind ELSE 0

-----------------------------------------------------------------------------
(* Requests, each step one hold of s_req_lock.                              *)

NotAsked        == [state |-> "idle", end |-> FALSE, reask |-> FALSE]
Pending     == [NotAsked EXCEPT !.state = "pending"]
Asked(k)    == k \in WifiKinds /\ req[k].state = "pending"

(* req_ask()                                                                *)
AskOnce(k, q) == IF q.state = "idle" THEN Pending ELSE q    \* mutant: no reask
Ask(k, q) == IF q.state = "idle" THEN Pending
             ELSE IF k = "SUBMIT" /\ q.state = "on" /\ q.end THEN [q EXCEPT !.reask = TRUE]
             ELSE q

(* radio_policy_pulse_end(), of the requester.                              *)
AskedEnd(q) == CASE q.state = "on"      -> [q EXCEPT !.end = TRUE]
                 [] q.state = "pending" -> NotAsked
                 [] OTHER               -> q

(* A pending request with nothing left to ask for: the Connect ended, the   *)
(* station left or has its lease and its page.                              *)
Stale(k) == (k = "SUBMIT" /\ ~submit) \/ (k = "JOIN" /\ req[k].end)
Ahead    == [SUBMIT |-> {}, JOIN |-> {"SUBMIT"}, RETRY |-> {"SUBMIT", "JOIN"},
             LIST |-> {"SUBMIT", "JOIN", "RETRY"}]

(* A Connect is in flight or ends (radio_policy_note_submit()); its SUBMIT  *)
(* is asked, or is withdrawn in the same hold of the lock.                  *)
StartConnect ==
    /\ "SUBMIT" \in WifiKinds /\ ~submit
    /\ submit' = TRUE
    /\ req' = [req EXCEPT !["SUBMIT"] = Ask("SUBMIT", @)]
    /\ radioHist' = [radioHist EXCEPT !.answered = FALSE]
    /\ UNCHANGED <<execVars, pulseVars, windowed, lr, due, nimble, radioFaults>>
EndConnect ==
    /\ submit
    /\ submit' = FALSE
    /\ req' = [req EXCEPT !["SUBMIT"] = AskedEnd(@)]
    /\ UNCHANGED <<execVars, pulseVars, windowed, lr, due, nimble, radioFaults, radioHist>>

(* A station joins, or the hub has its own retry or list scan to make; the  *)
(* requester ends its pulse or withdraws it, the station leaves or settles. *)
AskPulse(k) ==
    /\ k # "SUBMIT"
    /\ req' = [req EXCEPT ![k] = Ask(k, @)]
    /\ UNCHANGED <<execVars, pulseVars, factVars, radioHist>>
EndPulseAsked(k) ==
    /\ k # "SUBMIT" /\ req[k].state # "idle"
    /\ req' = [req EXCEPT ![k] = IF k = "JOIN" THEN [@ EXCEPT !.end = TRUE] ELSE AskedEnd(@)]
    /\ UNCHANGED <<execVars, pulseVars, factVars, radioHist>>

-----------------------------------------------------------------------------
(* The executor's pass.                                                     *)

(* A grant step: between pulses, after their recovery.                      *)
GrantStep == nimble /\ pulse = "none" /\ granting = "none" /\ ~recovery

(* radio_policy_exec_connect_len(); claims also wait while a setup page is  *)
(* in use, which is left open here but for a Connect's.                     *)
ConnectLen ==
    CASE lr                                    -> IF Budget >= Long THEN Long ELSE 0
      [] ~lr /\ (Budget < Short \/ Asked("JOIN") \/ (windowed /\ submit)) -> 0
      [] ~lr /\ Budget >= Short /\ ~Asked("JOIN") /\ windowed /\ ~submit  -> Short
      [] OTHER                                 -> IF Budget < Long THEN Budget ELSE Long

(* exec_claim()                                                             *)
CanClaim == GrantStep /\ Boundary /\ own /\ due /\ spaced /\ ConnectLen > 0

(* Under a leak response the claim that is due goes before any Wi-Fi pulse, *)
(* unless the last pulse was a claim.                                       *)
NeverFirst  == FALSE                   \* mutant: Wi-Fi does not wait for the claim
ClaimFirst  == lr /\ due /\ ~lastClaim
MustClaim   == lr /\ CanClaim

(* radio_policy_exec_wifi_grant(): the lengths a pulse of this kind may     *)
(* have now.  One of a SUBMIT or JOIN that is not paced is clipped to the   *)
(* budget, or to I2b's room, down to RP_PULSE_MIN_MS.                       *)
Lens(k) ==
    CASE ClaimFirst -> {}
      [] ~ClaimFirst /\ k \in {"SUBMIT", "JOIN"} /\ ~paced ->
             {n \in {1, Budget} \ {0} : n <= Budget /\ (k = "JOIN" => spaced)
                                              /\ (Young => Budget >= Short)}
      [] ~ClaimFirst /\ k = "LIST" -> {n \in {Long} : AtCodedEnd /\ spaced /\ Budget >= n}
      [] OTHER -> {n \in {Short} : AtCodedEnd /\ spaced /\ Budget >= n}

Grant(k) ==
    /\ GrantStep /\ ~MustClaim
    /\ Asked(k) /\ ~Stale(k)
    /\ \A h \in Ahead[k] : ~Asked(h)
    /\ left' \in Lens(k)
    /\ req' = [req EXCEPT ![k].state = "on", ![k].end = FALSE]
    /\ granting' = k
    /\ UNCHANGED <<execVars, pulse, spaced, paced, lastClaim, factVars, radioHist>>

(* A request that no pulse answers: nothing left to ask for, no scan to     *)
(* stop (FREE), refused (limits, or its wait is over).                      *)
Settle(k) ==
    /\ pulse = "none" /\ granting = "none" /\ ~recovery
    /\ Asked(k)
    /\ Stale(k) \/ ~nimble \/ k # "SUBMIT"
    /\ req' = [req EXCEPT ![k] = NotAsked]
    /\ radioHist' = IF k = "SUBMIT" THEN [radioHist EXCEPT !.answered = TRUE] ELSE radioHist
    /\ UNCHANGED <<execVars, pulseVars, factVars>>

(* radio_policy_exec_pulse_begin(); the row starts afresh after it.         *)
Begun(k, len) ==
    /\ pulse' = k /\ left' = len /\ granting' = "none"
    /\ spaced' = FALSE
    /\ paced' = (paced \/ k \in {"SUBMIT", "JOIN"})
    /\ lastClaim' = (k = "CONNECT")
    /\ row' = "none" /\ nth' = 0 /\ ran' = 0

BeginWifi ==
    /\ granting # "none"
    /\ Begun(granting, left)
    /\ own' = (own /\ ~ScanOn)
    /\ radioHist' = [radioHist EXCEPT
          !.answered = @ \/ (granting = "SUBMIT" /\ ~req[granting].end),
          !.before = IF lr /\ due THEN @ + 1 ELSE @]
    /\ UNCHANGED <<blind, recovery, req, factVars>>

(* The controller refuses the cancel: radio_policy_exec_pulse_retract().    *)
Retract ==
    /\ granting # "none" /\ ScanOn /\ radioFaults < MaxRadioFaults
    /\ radioFaults' = radioFaults + 1
    /\ req' = [req EXCEPT ![granting] =
                 IF granting \in {"RETRY", "LIST"} THEN NotAsked ELSE Pending]
    /\ granting' = "none" /\ left' = 0
    /\ UNCHANGED <<execVars, pulse, spaced, paced, lastClaim, submit, windowed, lr, due, nimble,
                   radioHist>>

(* The claim's connect starts, or is refused and the valve is hunted again. *)
Claim ==
    /\ CanClaim
    /\ due' = FALSE
    /\ \/ Begun("CONNECT", ConnectLen) /\ own' = FALSE
       \/ UNCHANGED <<row, nth, ran, own, pulseVars>>
    /\ radioHist' = [radioHist EXCEPT !.before = 0]
    /\ UNCHANGED <<blind, recovery, req, submit, windowed, lr, nimble, radioFaults>>

(* radio_policy_exec_pulse_over(), and the connect's own end.               *)
WifiOver == pulse \in WifiKinds /\
    (left = 0 \/ req[pulse].state # "on" \/ req[pulse].end \/ (pulse = "SUBMIT" /\ ~submit))

(* radio_policy_exec_pulse_end(), and the recovery if the span was longer   *)
(* than the gap of the row that resumes.                                    *)
EndPulse ==
    /\ WifiOver \/ pulse = "CONNECT"
    /\ pulse' = "none" /\ left' = 0
    /\ req' = IF pulse = "CONNECT" THEN req ELSE
              [req EXCEPT ![pulse] =
                 IF pulse = "SUBMIT" /\ @.reask /\ submit THEN Pending ELSE NotAsked]
    /\ \E resume \in ModeRows :
          recovery' = (recovery \/ (nimble /\ blind > RowGap(resume)))
    /\ radioHist' = [radioHist EXCEPT !.excused = @ \/ ~nimble]
    /\ UNCHANGED <<row, nth, ran, own, blind, granting, spaced, paced, lastClaim, factVars>>

(* exec_next_slot() and row_begin(): the row's next slot, or another row    *)
(* from its Coded window, past it if one has just ended, and behind a       *)
(* Wi-Fi slot where 1M would run into it.                                   *)
Starts(r, i) ==
    IF AtCodedEnd THEN i = Following(r, CodedAt(r))
    ELSE IF Ended /\ Slot[1] = "M" /\ HoldsI8(r) /\ blind <= LeadMax THEN i = 0
    ELSE i = CodedAt(r)
WantRows == IF recovery THEN {"RECOVERY"} ELSE ModeRows
Following0 == IF nth = 0 THEN CodedAt(row) ELSE Following(row, nth)

NextSlot ==
    /\ nimble /\ pulse = "none" /\ granting = "none" /\ Boundary /\ ~MustClaim
    /\ \/ /\ Ended /\ row \in WantRows
          /\ row' = row /\ nth' = Following0
       \/ \E r \in WantRows \ {row}, i \in 0..4 : Starts(r, i) /\ row' = r /\ nth' = i
    /\ ran' = 0
    /\ own' = (own /\ (nth' = 0 \/ Rows[row'][nth'][1] = "W"))
    /\ UNCHANGED <<blind, recovery, pulseVars, req, factVars, radioHist>>

(* Time goes on, to the end of the slot or the pulse at the most.  A Coded  *)
(* scan that has covered an interval is a Coded window whenever it ends; a  *)
(* scan's own end may let a claim follow, and ends the recovery.            *)
Remaining == CASE pulse # "none"              -> left
               [] pulse = "none" /\ Running   -> Slot[2] - ran
               [] pulse = "none" /\ ~nimble   -> 1
               [] OTHER                       -> 0

Elapse(d) ==
    LET covers  == CodedOn /\ ran + d >= Cover
        scanEnd == ScanOn /\ ran + d = Slot[2]
    IN  /\ granting = "none" /\ ~WifiOver
        /\ left' = IF pulse = "none" THEN left ELSE left - d
        /\ ran' = IF pulse = "none" /\ Running THEN ran + d ELSE ran
        /\ blind' = IF covers THEN 0 ELSE IF blind + d < Unknown THEN blind + d ELSE Unknown
        /\ own' = (own \/ scanEnd)
        /\ recovery' = (recovery /\ ~(scanEnd /\ row = "RECOVERY"))
        /\ radioHist' = [radioHist EXCEPT !.excused = @ /\ ~covers]
        /\ UNCHANGED <<row, nth, pulse, granting, spaced, paced, lastClaim, req, factVars>>

-----------------------------------------------------------------------------
(* What happens around the executor.                                        *)

RadioFault == radioFaults < MaxRadioFaults /\ radioFaults' = radioFaults + 1 /\ granting = "none"

(* A scan that is lost, ends early or fails to start: it is no Coded window *)
(* however long it ran, and the row starts again at its own.                *)
LostScan ==
    /\ RadioFault /\ ScanOn
    /\ row' = "none" /\ nth' = 0 /\ ran' = 0 /\ own' = FALSE
    /\ blind' \in 1..Unknown
    /\ radioHist' = [radioHist EXCEPT !.excused = TRUE]
    /\ UNCHANGED <<recovery, pulseVars, req, submit, windowed, lr, due, nimble>>

(* NimBLE loses its sync, and the executor stops its scan; or it does not   *)
(* end a connect in its time, and the executor has the valve module ask for *)
(* a host reset (ble_valve_claim_overrun()).                                *)
Desync ==
    /\ RadioFault /\ nimble
    /\ nimble' = FALSE
    /\ row' = "none" /\ nth' = 0 /\ ran' = 0 /\ own' = (own /\ ~ScanOn)
    /\ \/ /\ radioHist' = [radioHist EXCEPT !.excused = @ \/ pulse = "none"]
          /\ UNCHANGED blind
       \/ /\ pulse = "CONNECT" /\ left = 0
          /\ radioHist' = [radioHist EXCEPT !.excused = TRUE]
          /\ blind' = Unknown
    /\ UNCHANGED <<recovery, pulseVars, req, submit, windowed, lr, due>>
HostResync ==
    /\ ~nimble /\ nimble' = TRUE
    /\ UNCHANGED <<execVars, pulseVars, req, submit, windowed, lr, due, radioFaults, radioHist>>

(* The Wi-Fi application, the valve module and the rules change the facts;  *)
(* the valve is heard in a scan.                                            *)
RadioFacts ==
    /\ \/ windowed' = ~windowed /\ UNCHANGED <<lr, due>>
       \/ lr' = ~lr /\ UNCHANGED <<windowed, due>>
       \/ due' = FALSE /\ due /\ UNCHANGED <<windowed, lr>>
       \/ due' = TRUE /\ ScanOn /\ UNCHANGED <<windowed, lr>>
    /\ radioHist' = [radioHist EXCEPT !.before = IF lr' /\ due' THEN @ ELSE 0]
    /\ UNCHANGED <<execVars, pulseVars, req, submit, nimble, radioFaults>>

(* Profile time and pulse-free time pass: I2b lets the next pulse go, and a *)
(* SUBMIT or JOIN is not paced any more.                                    *)
Spaced ==
    /\ ~spaced /\ pulse = "none" /\ granting = "none" /\ nimble
    /\ spaced' = TRUE
    /\ UNCHANGED <<execVars, pulse, left, granting, paced, lastClaim, req, factVars, radioHist>>
Unpaced ==
    /\ paced /\ pulse = "none" /\ granting = "none"
    /\ paced' = FALSE
    /\ UNCHANGED <<execVars, pulse, left, granting, spaced, lastClaim, req, factVars, radioHist>>

-----------------------------------------------------------------------------

RadioInit ==
    /\ row = "none" /\ nth = 0 /\ ran = 0 /\ own = FALSE
    /\ blind = Unknown /\ recovery = FALSE
    /\ pulse = "none" /\ left = 0 /\ granting = "none"
    /\ spaced = FALSE /\ paced = FALSE /\ lastClaim = FALSE
    /\ req = [k \in WifiKinds |-> NotAsked]
    /\ submit = FALSE /\ windowed = FALSE /\ lr = FALSE /\ due = FALSE
    /\ nimble = TRUE /\ radioFaults = 0
    /\ radioHist = [answered |-> TRUE, excused |-> TRUE, before |-> 0]

RadioNext ==
    \/ BeginWifi \/ Retract \/ Claim \/ EndPulse \/ NextSlot
    \/ \E d \in 1..Remaining : Elapse(d)
    \/ \E k \in WifiKinds : Grant(k) \/ Settle(k) \/ AskPulse(k) \/ EndPulseAsked(k)
    \/ StartConnect \/ EndConnect
    \/ LostScan \/ Desync \/ HostResync \/ RadioFacts \/ Spaced \/ Unpaced

RadioSpec == RadioInit /\ [][RadioNext]_radioVars

-----------------------------------------------------------------------------
(* Properties.                                                              *)

(* I2: BLE goes no longer than RP_BLIND_MAX_MS without a Coded scan that    *)
(* covers an advert interval, whatever pulses cut scans, end early and      *)
(* follow each other, but for scans the controller loses.                   *)
BlindBounded == ~CodedOn /\ ~radioHist.excused => blind <= BlindMax

(* A Connect in flight is asked for until its pulse begins or no scan is    *)
(* there to stop, whenever its predecessor ended and whatever is retracted. *)
ConnectAsked ==
    submit /\ ~radioHist.answered => req["SUBMIT"].state \in {"pending", "on"}

(* While a leak response waits for the valve's claim, Wi-Fi delays it by at *)
(* most one pulse, whatever Connects, joins and retries are asked for in    *)
(* turn, and whatever was granted as the claim fell due.                    *)
ClaimDelayedOnce == radioHist.before <= 1
=============================================================================
