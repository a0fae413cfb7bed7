-------------------------- MODULE RadioPolicyProofs --------------------------
(***************************************************************************)
(* The radio's three promises, for any set of Wi-Fi pulses and any number  *)
(* of faults: the bound on blind time (BlindBounded), a Connect that is    *)
(* asked for until answered (ConnectAsked), and a claim held off by one    *)
(* Wi-Fi pulse at most (ClaimDelayedOnce).                                 *)
(***************************************************************************)
EXTENDS RadioPolicy, TLAPS

RowNames == DOMAIN Rows
Requests == [state : {"idle", "pending", "on"}, end : BOOLEAN, reask : BOOLEAN]

ExecTypeOK ==
    /\ row \in RowNames \cup {"none"}
    /\ nth \in 0..4 /\ (row # "none" /\ nth # 0 => nth \in DOMAIN Rows[row])
    /\ ran \in Nat /\ (row # "none" => ran <= Slot[2])
PulseTypeOK ==
    /\ pulse \in WifiKinds \cup {"none", "CONNECT"}
    /\ left \in Nat
    /\ granting \in WifiKinds \cup {"none"}
    /\ req \in [WifiKinds -> Requests]
FlagTypeOK ==
    /\ own \in BOOLEAN
    /\ recovery \in BOOLEAN
    /\ spaced \in BOOLEAN /\ paced \in BOOLEAN /\ lastClaim \in BOOLEAN
    /\ submit \in BOOLEAN /\ windowed \in BOOLEAN /\ lr \in BOOLEAN /\ due \in BOOLEAN
    /\ nimble \in BOOLEAN
CountTypeOK ==
    /\ blind \in 0..Unknown
    /\ radioFaults \in 0..MaxRadioFaults
    /\ radioHist \in [answered : BOOLEAN, excused : BOOLEAN, before : Nat]

RadioTypeOK == ExecTypeOK /\ PulseTypeOK /\ FlagTypeOK /\ CountTypeOK

(* A pulse runs between rows, one is granted only between pulses, and a row *)
(* runs only while NimBLE is synced.                                        *)
OneAtATime ==
    /\ pulse # "none" => row = "none" /\ granting = "none"
    /\ granting # "none" => nimble
    /\ ~nimble => row = "none"

-----------------------------------------------------------------------------
(* A Connect.  A pulse that was asked to end goes on as a request only by   *)
(* its re-ask, which the Connect that follows makes.                        *)
SubmitTrue ==
    "SUBMIT" \in WifiKinds =>
      LET q == req["SUBMIT"] IN
      /\ q.state = "on" <=> "SUBMIT" \in {pulse, granting}
      /\ q.state = "on" => (q.end \/ submit) /\ (q.end /\ submit => q.reask)
      /\ pulse = "SUBMIT" /\ submit /\ ~radioHist.answered => q.end
NoSubmit == "SUBMIT" \notin WifiKinds => ~submit

(* A claim that waits: once a Wi-Fi pulse has begun, it is the claim's turn. *)
ClaimsTurn ==
    /\ radioHist.before \in {0, 1}
    /\ radioHist.before = 1 => ClaimFirst /\ granting = "none"

(* Blind time.  Since[r][i] is how long after its Coded slot's end slot i   *)
(* of row r begins.                                                         *)
Since == [
    N_CODED      |-> <<0>>,
    N_HUNT       |-> <<0, 0>>,
    N_MIXED      |-> <<0, 0>>,
    NORMAL_LR    |-> <<0, 0>>,
    RECOVERY     |-> <<0>>,
    SERVE_A      |-> <<0, 0>>,
    SERVE_A_DISC |-> <<0, 0, 1, 2>>,
    APIDLE       |-> <<0, 0>>,
    APIDLE_DISC  |-> <<0, 0, 1, 2>>,
    AP_K1M       |-> <<0, 0, 1, 3>>,
    LR_AP_30     |-> <<0, 0>>,
    LR_AP        |-> <<1, 3, 0, 0>> ]

GapMax == 6

BlindInRow ==
    row # "none" =>
      /\ Slot[1] = "C" /\ ran >= Cover => blind = 0
      /\ Slot[1] # "C" => blind <= (IF nth = 0 THEN LeadMax ELSE Since[row][nth]) + ran
BlindBetween ==
    /\ row = "none" /\ pulse = "none" /\ ~nimble => radioHist.excused
    /\ row = "none" /\ ~radioHist.excused => blind <= BlindMax
    /\ granting # "none" => blind + left <= BlindMax
    /\ pulse # "none" /\ ~radioHist.excused => blind + left <= BlindMax

RadioInv == RadioTypeOK /\ OneAtATime
ConnectInv == NoSubmit /\ SubmitTrue /\ ConnectAsked
BlindInv == BlindInRow /\ BlindBetween
-----------------------------------------------------------------------------
(* The table, row by row.                                                   *)

IsRow(r) ==
    LET c == CodedAt(r) IN
    /\ Len(Rows[r]) \in 1..4 /\ DOMAIN Rows[r] = 1..Len(Rows[r])
    /\ c \in DOMAIN Rows[r] /\ Rows[r][c][1] = "C"
    /\ \A i \in DOMAIN Rows[r] :
          /\ Rows[r][i][2] \in 1..GapMax
          /\ Following(r, i) \in DOMAIN Rows[r]
          /\ Rows[r][i][1] = "C" => i = c /\ Rows[r][i][2] >= Cover
          /\ Since[r][i] \in 0..GapMax
          /\ i # c => /\ Since[r][i] + Rows[r][i][2] <= GapMax
                      /\ Following(r, i) # c =>
                          Since[r][i] + Rows[r][i][2] <= Since[r][Following(r, i)]

LEMMA RowsAreRows == \A r \in RowNames : IsRow(r)
<1> USE DEF Rows, CodedAt
<1>1. /\ \A r \in {"N_CODED", "N_HUNT", "RECOVERY", "SERVE_A", "SERVE_A_DISC", "APIDLE",
                  "APIDLE_DISC", "AP_K1M"} : CodedAt(r) = 1
      /\ \A r \in {"N_MIXED", "NORMAL_LR", "LR_AP_30"} : CodedAt(r) = 2
      /\ CodedAt("LR_AP") = 3
  OBVIOUS
<1> HIDE DEF CodedAt
<1> USE <1>1 DEF IsRow, Since, Following, GapMax, Cover
<1>2. IsRow("N_CODED")
  OBVIOUS
<1>3. IsRow("N_HUNT")
  OBVIOUS
<1>4. IsRow("N_MIXED")
  <2>1. Rows["N_MIXED"] = <<<<"M", 3>>, <<"C", 3>>>> /\ Since["N_MIXED"] = <<0, 0>>
    OBVIOUS
  <2> HIDE DEF Rows, Since
  <2>2. QED
    BY <2>1
<1>5. IsRow("NORMAL_LR")
  OBVIOUS
<1>6. IsRow("RECOVERY")
  OBVIOUS
<1>7. IsRow("SERVE_A")
  OBVIOUS
<1>8. IsRow("SERVE_A_DISC")
  OBVIOUS
<1>9. IsRow("APIDLE")
  OBVIOUS
<1>10. IsRow("APIDLE_DISC")
  OBVIOUS
<1>11. IsRow("AP_K1M")
  OBVIOUS
<1>12. IsRow("LR_AP_30")
  <2>1. Rows["LR_AP_30"] = <<<<"M", 4>>, <<"C", 2>>>> /\ Since["LR_AP_30"] = <<0, 0>>
    OBVIOUS
  <2> HIDE DEF Rows, Since
  <2>2. Following("LR_AP_30", 1) = 2 /\ Following("LR_AP_30", 2) = 1
    BY <2>1
  <2> HIDE DEF Following
  <2>3. QED
    BY <2>1, <2>2
<1>13. IsRow("LR_AP")
  OBVIOUS
<1>14. RowNames = {"N_CODED", "N_HUNT", "N_MIXED", "NORMAL_LR", "RECOVERY", "SERVE_A",
                 "SERVE_A_DISC", "APIDLE", "APIDLE_DISC", "AP_K1M", "LR_AP_30", "LR_AP"}
  BY DEF RowNames
<1> HIDE DEF Rows, IsRow, Since
<1>15. QED
  BY <1>2, <1>3, <1>4, <1>5, <1>6, <1>7, <1>8, <1>9, <1>10, <1>11, <1>12, <1>13, <1>14

-----------------------------------------------------------------------------
(* Types, and that pulses do not overlap.                                   *)

LEMMA NamesApart ==
    /\ "none" \notin WifiKinds /\ "CONNECT" \notin WifiKinds
    /\ "none" \notin RowNames
<1>1. "none" \notin RowNames
  BY DEF RowNames, Rows
<1>2. QED
  BY <1>1, RadioAssumption

LEMMA SlotIs ==
    ASSUME ExecTypeOK, row # "none"
    PROVE  /\ Slot[2] \in 1..GapMax
           /\ nth = 0 => Slot[1] = "W"
<1>1. IsRow(row) /\ nth \in 0..4 /\ (nth # 0 => nth \in DOMAIN Rows[row])
  BY RowsAreRows DEF ExecTypeOK
<1>2. QED
  BY <1>1 DEF Slot, IsRow, GapMax

LEMMA RadioInitInv == RadioInit => RadioTypeOK /\ OneAtATime
<1> SUFFICES ASSUME RadioInit PROVE RadioTypeOK /\ OneAtATime
  OBVIOUS
<1> USE RadioAssumption DEF RadioInit
<1>1. ExecTypeOK
  BY DEF ExecTypeOK
<1>2. PulseTypeOK
  BY DEF PulseTypeOK, Requests, NotAsked
<1>3. FlagTypeOK
  BY DEF FlagTypeOK
<1>4. CountTypeOK
  BY DEF CountTypeOK, Unknown, BlindMax
<1>5. OneAtATime
  BY DEF OneAtATime
<1>6. QED
  BY <1>1, <1>2, <1>3, <1>4, <1>5
  DEF RadioTypeOK

-----------------------------------------------------------------------------
LEMMA FlagsKept ==
    ASSUME FlagTypeOK, [RadioNext]_radioVars
    PROVE  FlagTypeOK'
<1> USE DEF FlagTypeOK, execVars, pulseVars, factVars
<1>1. CASE BeginWifi
  BY <1>1, Zenon DEF BeginWifi, Begun
<1>2. CASE Retract
  BY <1>2, Zenon DEF Retract
<1>3. CASE Claim
  BY <1>3, Zenon DEF Claim, Begun
<1>4. CASE EndPulse
  BY <1>4, Zenon DEF EndPulse
<1>5. CASE NextSlot
  BY <1>5, Zenon DEF NextSlot
<1>6. ASSUME NEW d \in 1..Remaining, Elapse(d) PROVE FlagTypeOK'
  BY <1>6, Zenon DEF Elapse
<1>7. ASSUME NEW k \in WifiKinds, Grant(k) \/ Settle(k) \/ AskPulse(k) \/ EndPulseAsked(k)
      PROVE  FlagTypeOK'
  BY <1>7, Zenon DEF Grant, Settle, AskPulse, EndPulseAsked
<1>8. CASE StartConnect \/ EndConnect
  BY <1>8, Zenon DEF StartConnect, EndConnect
<1>9. CASE LostScan \/ Desync \/ HostResync
  BY <1>9, Zenon DEF LostScan, Desync, HostResync
<1>10. CASE RadioFacts \/ Spaced \/ Unpaced
  BY <1>10, Zenon DEF RadioFacts, Spaced, Unpaced
<1>11. CASE UNCHANGED radioVars
  BY <1>11 DEF radioVars
<1>12. QED
  BY <1>1, <1>2, <1>3, <1>4, <1>5, <1>6, <1>7, <1>8, <1>9, <1>10, <1>11 DEF RadioNext

(* What a grant may take of the blind time that is left.                     *)
LEMMA BudgetIs == CountTypeOK => Budget \in 0..BlindMax /\ (Budget > 0 => blind + Budget = BlindMax)
BY DEF CountTypeOK, Budget, BlindMax, Unknown

LEMMA LensFit ==
    ASSUME CountTypeOK, NEW k, NEW n \in Lens(k)
    PROVE  n \in Nat /\ n > 0 /\ blind + n <= BlindMax
<1>1. n \in Nat /\ n > 0 /\ n <= Budget
  BY BudgetIs DEF Lens, Short, Long, BlindMax
<1>2. QED
  BY <1>1, BudgetIs DEF BlindMax, CountTypeOK, Unknown

LEMMA ConnectFits ==
    ASSUME CountTypeOK, FlagTypeOK, ConnectLen > 0
    PROVE  ConnectLen \in Nat /\ blind + ConnectLen <= BlindMax
<1>1. ConnectLen \in {0, Short, Long, Budget} /\ ConnectLen <= Budget
  <2>1. Budget \in 0..BlindMax
    BY BudgetIs
  <2> HIDE DEF Budget
  <2>2. CASE lr
    BY <2>1, <2>2 DEF ConnectLen, Short, Long, BlindMax
  <2>3. CASE ~lr
    BY <2>1, <2>3 DEF ConnectLen, Short, Long, BlindMax
  <2>4. QED
    BY <2>2, <2>3
<1>2. QED
  BY <1>1, BudgetIs DEF Short, Long, BlindMax, CountTypeOK, Unknown

LEMMA AskTyped ==
    ASSUME NEW q \in Requests, NEW k
    PROVE  Ask(k, q) \in Requests /\ AskedEnd(q) \in Requests
BY DEF Ask, AskedEnd, Requests, NotAsked, Pending

LEMMA PulsesKept ==
    ASSUME PulseTypeOK, FlagTypeOK, CountTypeOK, OneAtATime, [RadioNext]_radioVars
    PROVE  PulseTypeOK' /\ OneAtATime'
<1> USE NamesApart DEF PulseTypeOK, OneAtATime, execVars, pulseVars, factVars
<1>1. CASE BeginWifi
  BY <1>1 DEF BeginWifi, Begun
<1>2. CASE Retract
  BY <1>2 DEF Retract, Requests, NotAsked, Pending
<1>3. CASE Claim
  <2>1. CASE UNCHANGED pulseVars
    BY <1>3, <2>1 DEF Claim, CanClaim, GrantStep
  <2>2. CASE Begun("CONNECT", ConnectLen)
    BY <1>3, <2>2, ConnectFits DEF Claim, Begun, CanClaim, GrantStep
  <2>3. QED
    BY <1>3, <2>1, <2>2 DEF Claim
<1>4. CASE EndPulse
  BY <1>4 DEF EndPulse, WifiOver, Requests, NotAsked, Pending
<1>5. CASE NextSlot
  BY <1>5 DEF NextSlot
<1>6. ASSUME NEW d \in 1..Remaining, Elapse(d) PROVE PulseTypeOK' /\ OneAtATime'
  BY <1>6 DEF Elapse, Remaining
<1>7. ASSUME NEW k \in WifiKinds, Grant(k) \/ Settle(k) \/ AskPulse(k) \/ EndPulseAsked(k)
      PROVE  PulseTypeOK' /\ OneAtATime'
  <2> USE DEF Requests, NotAsked, Pending
  <2>1. CASE Grant(k)
    BY <2>1, LensFit DEF Grant, GrantStep
  <2>2. CASE Settle(k)
    BY <2>2 DEF Settle
  <2>3. CASE AskPulse(k)
    BY <2>3, AskTyped DEF AskPulse
  <2>4. CASE EndPulseAsked(k)
    BY <2>4, AskTyped DEF EndPulseAsked
  <2>5. QED
    BY <1>7, <2>1, <2>2, <2>3, <2>4
<1>8. CASE StartConnect \/ EndConnect
  BY <1>8, AskTyped DEF StartConnect, EndConnect
<1>9. CASE LostScan \/ Desync \/ HostResync
  BY <1>9 DEF LostScan, Desync, HostResync, RadioFault, ScanOn, Running
<1>10. CASE RadioFacts \/ Spaced \/ Unpaced
  BY <1>10 DEF RadioFacts, Spaced, Unpaced
<1>11. CASE UNCHANGED radioVars
  BY <1>11 DEF radioVars
<1>12. QED
  BY <1>1, <1>2, <1>3, <1>4, <1>5, <1>6, <1>7, <1>8, <1>9, <1>10, <1>11 DEF RadioNext

LEMMA CountsKept ==
    ASSUME ExecTypeOK, PulseTypeOK, CountTypeOK, [RadioNext]_radioVars
    PROVE  CountTypeOK'
<1> USE RadioAssumption DEF CountTypeOK, execVars, pulseVars, factVars, Unknown, BlindMax
<1>1. CASE BeginWifi
  <2> DEFINE a == radioHist.answered \/ (granting = "SUBMIT" /\ ~req[granting].end)
             n == IF lr /\ due THEN radioHist.before + 1 ELSE radioHist.before
  <2>1. radioHist' = [radioHist EXCEPT !.answered = a, !.before = n]
    BY <1>1 DEF BeginWifi
  <2>2. a \in BOOLEAN
    BY Zenon
  <2>3. n \in Nat
    OBVIOUS
  <2> HIDE DEF a, n
  <2>4. QED
    BY <1>1, <2>1, <2>2, <2>3 DEF BeginWifi
<1>2. CASE Retract
  BY <1>2 DEF Retract
<1>3. CASE Claim
  BY <1>3 DEF Claim, Begun
<1>4. CASE EndPulse
  BY <1>4 DEF EndPulse
<1>5. CASE NextSlot
  BY <1>5 DEF NextSlot
<1>6. ASSUME NEW d \in 1..Remaining, Elapse(d) PROVE CountTypeOK'
  <2>1. Remaining \in Nat
    BY <1>6, SlotIs DEF Remaining, ExecTypeOK, PulseTypeOK, Running, GapMax
  <2>2. blind' \in 0..Unknown
    BY <1>6, <2>1 DEF Elapse
  <2>3. QED
    BY <1>6, <2>2 DEF Elapse
<1>7. ASSUME NEW k \in WifiKinds, Grant(k) \/ Settle(k) \/ AskPulse(k) \/ EndPulseAsked(k)
      PROVE  CountTypeOK'
  BY <1>7 DEF Grant, Settle, AskPulse, EndPulseAsked
<1>8. CASE StartConnect \/ EndConnect
  BY <1>8 DEF StartConnect, EndConnect
<1>9. CASE LostScan \/ Desync \/ HostResync
  <2>1. CASE LostScan
    <3>1. radioHist' = [radioHist EXCEPT !.excused = TRUE]
      BY <2>1 DEF LostScan
    <3>2. blind' \in 0..Unknown /\ radioFaults' \in 0..MaxRadioFaults
      BY <2>1 DEF LostScan, RadioFault
    <3>3. QED
      BY <3>1, <3>2
  <2>2. CASE Desync
    <3>1. \E e \in BOOLEAN : radioHist' = [radioHist EXCEPT !.excused = e]
      BY <2>2 DEF Desync
    <3>2. QED
      BY <2>2, <3>1 DEF Desync, RadioFault
  <2>3. CASE HostResync
    BY <2>3 DEF HostResync
  <2>4. QED
    BY <1>9, <2>1, <2>2, <2>3
<1>10. CASE RadioFacts \/ Spaced \/ Unpaced
  BY <1>10 DEF RadioFacts, Spaced, Unpaced
<1>11. CASE UNCHANGED radioVars
  BY <1>11 DEF radioVars
<1>12. QED
  BY <1>1, <1>2, <1>3, <1>4, <1>5, <1>6, <1>7, <1>8, <1>9, <1>10, <1>11 DEF RadioNext

(* A slot that NextSlot may start is one of its row, or the lead.           *)
LEMMA StartsInRow ==
    ASSUME NEW r \in RowNames, NEW i, Starts(r, i)
    PROVE  i = 0 \/ i \in DOMAIN Rows[r]
<1>1. IsRow(r)
  BY RowsAreRows
<1>2. QED
  BY <1>1 DEF Starts, IsRow

LEMMA RowsWanted == WantRows \subseteq RowNames
BY DEF WantRows, ModeRows, RowNames, Rows

(* Where a row goes on after a slot that ended.                             *)
LEMMA FollowingInRow ==
    ASSUME ExecTypeOK, row # "none"
    PROVE  Following0 \in DOMAIN Rows[row] /\ Following0 \in 1..4
<1>1. IsRow(row) /\ nth \in 0..4 /\ (nth # 0 => nth \in DOMAIN Rows[row])
  BY RowsAreRows DEF ExecTypeOK
<1>2. Following0 \in DOMAIN Rows[row]
  BY <1>1 DEF Following0, IsRow
<1>3. Len(Rows[row]) \in 1..4 /\ DOMAIN Rows[row] = 1..Len(Rows[row])
  BY <1>1, Zenon DEF IsRow
<1>4. Following0 \in 1..Len(Rows[row])
  BY <1>2, <1>3, Zenon
<1> HIDE DEF Following0
<1>5. Following0 \in 1..4
  BY <1>3, <1>4
<1>6. QED
  BY <1>2, <1>5

LEMMA ExecKept ==
    ASSUME ExecTypeOK, PulseTypeOK, CountTypeOK, [RadioNext]_radioVars
    PROVE  ExecTypeOK'
<1> USE DEF execVars, pulseVars, factVars
<1>1. CASE row' = "none" /\ nth' = 0 /\ ran' = 0
  BY <1>1 DEF ExecTypeOK
<1>2. CASE UNCHANGED <<row, nth, ran>>
  BY <1>2 DEF ExecTypeOK, Slot
<1>3. CASE NextSlot
  <2>1. row' \in RowNames /\ nth' \in 0..4 /\ (nth' # 0 => nth' \in DOMAIN Rows[row'])
    <3>1. CASE Ended /\ row \in WantRows /\ row' = row /\ nth' = Following0
      BY <3>1, FollowingInRow, RowsWanted DEF Ended
    <3>2. ASSUME NEW r \in WantRows \ {row}, NEW i \in 0..4, Starts(r, i), row' = r, nth' = i
          PROVE  row' \in RowNames /\ nth' \in 0..4 /\ (nth' # 0 => nth' \in DOMAIN Rows[row'])
      BY <3>2, StartsInRow, RowsWanted
    <3>3. QED
      BY <1>3, <3>1, <3>2 DEF NextSlot
  <2>2. ran' = 0 /\ row' # "none"
    BY <1>3, <2>1, NamesApart DEF NextSlot
  <2>3. Slot'[2] \in Nat
    BY <2>1, RowsAreRows DEF Slot, IsRow, GapMax
  <2>4. QED
    BY <2>1, <2>2, <2>3 DEF ExecTypeOK
<1>4. ASSUME NEW d \in 1..Remaining, Elapse(d) PROVE ExecTypeOK'
  <2>1. CASE pulse = "none" /\ Running
    BY <1>4, <2>1, SlotIs DEF Elapse, Remaining, Running, ExecTypeOK, GapMax, Slot
  <2>2. CASE ~(pulse = "none" /\ Running)
    BY <1>4, <2>2, <1>2 DEF Elapse
  <2>3. QED
    BY <2>1, <2>2
<1>5. ASSUME NEW k \in WifiKinds, Grant(k) \/ Settle(k) \/ AskPulse(k) \/ EndPulseAsked(k)
      PROVE  ExecTypeOK'
  BY <1>2, <1>5 DEF Grant, Settle, AskPulse, EndPulseAsked
<1>6. CASE BeginWifi \/ Claim \/ LostScan \/ Desync
  BY <1>1, <1>2, <1>6 DEF BeginWifi, Claim, LostScan, Desync, Begun
<1>7. CASE \/ Retract \/ EndPulse \/ StartConnect \/ EndConnect \/ HostResync
           \/ RadioFacts \/ Spaced \/ Unpaced
  BY <1>2, <1>7 DEF Retract, EndPulse, StartConnect, EndConnect, HostResync, RadioFacts,
                    Spaced, Unpaced
<1>8. CASE UNCHANGED radioVars
  BY <1>2, <1>8 DEF radioVars
<1>9. QED
  BY <1>3, <1>4, <1>5, <1>6, <1>7, <1>8 DEF RadioNext

LEMMA RadioStep ==
    ASSUME RadioInv, [RadioNext]_radioVars
    PROVE  RadioInv'
BY FlagsKept, PulsesKept, CountsKept, ExecKept DEF RadioInv, RadioTypeOK

-----------------------------------------------------------------------------
(* The Connect.                                                             *)

LEMMA ConnectStep ==
    ASSUME RadioInv, ConnectInv, [RadioNext]_radioVars
    PROVE  ConnectInv'
<1> USE NamesApart
    DEF ConnectInv, NoSubmit, SubmitTrue, ConnectAsked, RadioInv, RadioTypeOK, PulseTypeOK,
        OneAtATime, Requests, execVars, pulseVars, factVars
<1>1. CASE BeginWifi
  BY <1>1 DEF BeginWifi, Begun, CountTypeOK
<1>2. CASE Retract
  BY <1>2 DEF Retract, NotAsked, Pending
<1>3. CASE Claim
  BY <1>3 DEF Claim, Begun, CountTypeOK, CanClaim, GrantStep
<1>4. CASE EndPulse
  BY <1>4 DEF EndPulse, WifiOver, NotAsked, Pending, CountTypeOK
<1>5. CASE NextSlot
  BY <1>5 DEF NextSlot
<1>6. ASSUME NEW d \in 1..Remaining, Elapse(d) PROVE ConnectInv'
  BY <1>6 DEF Elapse, CountTypeOK
<1>7. ASSUME NEW k \in WifiKinds, Grant(k) \/ Settle(k) \/ AskPulse(k) \/ EndPulseAsked(k)
      PROVE  ConnectInv'
  <2> USE DEF NotAsked, Pending
  <2>1. CASE Grant(k)
    BY <2>1 DEF Grant, GrantStep, Asked, Stale
  <2>2. CASE Settle(k)
    BY <2>2 DEF Settle, Asked, CountTypeOK
  <2>3. CASE AskPulse(k)
    BY <2>3 DEF AskPulse
  <2>4. CASE EndPulseAsked(k)
    BY <2>4 DEF EndPulseAsked
  <2>5. QED
    BY <1>7, <2>1, <2>2, <2>3, <2>4
<1>8. CASE StartConnect
  BY <1>8 DEF StartConnect, Ask, NotAsked, Pending, CountTypeOK
<1>9. CASE EndConnect
  BY <1>9 DEF EndConnect, AskedEnd, NotAsked, Pending
<1>10. CASE LostScan \/ Desync \/ HostResync
  BY <1>10 DEF LostScan, Desync, HostResync, RadioFault, ScanOn, Running, CountTypeOK
<1>11. CASE RadioFacts \/ Spaced \/ Unpaced
  BY <1>11 DEF RadioFacts, Spaced, Unpaced, CountTypeOK
<1>12. CASE UNCHANGED radioVars
  BY <1>12 DEF radioVars
<1>13. QED
  BY <1>1, <1>2, <1>3, <1>4, <1>5, <1>6, <1>7, <1>8, <1>9, <1>10, <1>11, <1>12 DEF RadioNext

-----------------------------------------------------------------------------
(* The claim.                                                               *)

LEMMA ClaimStep ==
    ASSUME RadioInv, ClaimsTurn, [RadioNext]_radioVars
    PROVE  ClaimsTurn'
<1> USE NamesApart
    DEF ClaimsTurn, ClaimFirst, RadioInv, RadioTypeOK, PulseTypeOK, FlagTypeOK, CountTypeOK,
        OneAtATime, execVars, pulseVars, factVars
<1>1. CASE BeginWifi
  <2>1. radioHist'.before = IF lr /\ due THEN 1 ELSE 0
    BY <1>1 DEF BeginWifi
  <2>2. lastClaim' = FALSE /\ granting' = "none" /\ UNCHANGED <<lr, due>>
    BY <1>1 DEF BeginWifi, Begun
  <2>3. QED
    BY <2>1, <2>2
<1>2. CASE Retract
  BY <1>2 DEF Retract
<1>3. CASE Claim
  BY <1>3 DEF Claim, Begun
<1>4. CASE EndPulse
  BY <1>4 DEF EndPulse
<1>5. CASE NextSlot
  BY <1>5 DEF NextSlot
<1>6. ASSUME NEW d \in 1..Remaining, Elapse(d) PROVE ClaimsTurn'
  BY <1>6 DEF Elapse
<1>7. ASSUME NEW k \in WifiKinds, Grant(k) \/ Settle(k) \/ AskPulse(k) \/ EndPulseAsked(k)
      PROVE  ClaimsTurn'
  <2>1. CASE Grant(k)
    <3>1. ~ClaimFirst
      BY <2>1 DEF Grant, Lens
    <3>2. QED
      BY <2>1, <3>1 DEF Grant
  <2>2. CASE Settle(k) \/ AskPulse(k) \/ EndPulseAsked(k)
    BY <2>2 DEF Settle, AskPulse, EndPulseAsked
  <2>3. QED
    BY <1>7, <2>1, <2>2
<1>8. CASE StartConnect \/ EndConnect
  BY <1>8 DEF StartConnect, EndConnect
<1>9. CASE LostScan \/ Desync \/ HostResync
  BY <1>9 DEF LostScan, Desync, HostResync
<1>10. CASE RadioFacts \/ Spaced \/ Unpaced
  BY <1>10 DEF RadioFacts, Spaced, Unpaced
<1>11. CASE UNCHANGED radioVars
  BY <1>11 DEF radioVars
<1>12. QED
  BY <1>1, <1>2, <1>3, <1>4, <1>5, <1>6, <1>7, <1>8, <1>9, <1>10, <1>11 DEF RadioNext

-----------------------------------------------------------------------------
(* Blind time.                                                              *)

(* What the invariant says of a slot that has run for n ticks.              *)
SlotBlind(r, i, n, b) ==
    IF i = 0 THEN b <= LeadMax + n
    ELSE IF Rows[r][i][1] = "C" THEN n >= Cover => b = 0
    ELSE b <= Since[r][i] + n

LEMMA BlindIsSlot ==
    ASSUME ExecTypeOK
    PROVE  BlindInRow <=> (row # "none" => SlotBlind(row, nth, ran, blind))
BY DEF BlindInRow, SlotBlind, Slot, ExecTypeOK

(* A Coded slot that has run to its end has covered an interval.            *)
LEMMA CodedEnds ==
    ASSUME ExecTypeOK, BlindInRow, AtCodedEnd
    PROVE  blind = 0
<1>1. IsRow(row) /\ nth # 0 /\ nth \in DOMAIN Rows[row] /\ Rows[row][nth][1] = "C"
  BY RowsAreRows, SlotIs DEF ExecTypeOK, AtCodedEnd, Ended, Slot
<1>2. Slot[2] >= Cover
  BY <1>1 DEF IsRow, Slot
<1>3. QED
  BY <1>2 DEF BlindInRow, AtCodedEnd, Ended

(* A slot that begins as NextSlot has it.                                   *)
LEMMA CodedBegins ==
    ASSUME NEW r \in RowNames, NEW b
    PROVE  SlotBlind(r, CodedAt(r), 0, b)
<1>1. CodedAt(r) # 0 /\ Rows[r][CodedAt(r)][1] = "C"
  BY RowsAreRows DEF IsRow
<1>2. QED
  BY <1>1 DEF SlotBlind, Cover

LEMMA SeeingBegins ==
    ASSUME NEW r \in RowNames, NEW i \in DOMAIN Rows[r]
    PROVE  SlotBlind(r, i, 0, 0)
<1>1. IsRow(r)
  BY RowsAreRows
<1>2. i # 0
  BY <1>1 DEF IsRow
<1>3. Since[r][i] \in 0..GapMax
  BY <1>1, Zenon DEF IsRow
<1>4. QED
  BY <1>2, <1>3 DEF SlotBlind, GapMax

LEMMA NextInRow ==
    ASSUME NEW r \in RowNames, NEW i \in DOMAIN Rows[r], NEW j,
           i # CodedAt(r), j = Following(r, i), j # CodedAt(r)
    PROVE  /\ Since[r][i] \in Nat /\ Since[r][j] \in Nat /\ Rows[r][i][2] \in Nat
           /\ Since[r][i] + Rows[r][i][2] <= Since[r][j]
           /\ j \in DOMAIN Rows[r] /\ j # 0 /\ Rows[r][j][1] # "C"
<1>1. IsRow(r)
  BY RowsAreRows
<1>2. j \in DOMAIN Rows[r] /\ j # 0 /\ Rows[r][j][1] # "C"
  BY <1>1 DEF IsRow
<1>3. \A k \in DOMAIN Rows[r] : Since[r][k] \in 0..GapMax /\ Rows[r][k][2] \in 1..GapMax
  BY <1>1, Zenon DEF IsRow
<1>4. \A k \in DOMAIN Rows[r] :
        k # CodedAt(r) /\ Following(r, k) # CodedAt(r) =>
          Since[r][k] + Rows[r][k][2] <= Since[r][Following(r, k)]
  BY <1>1, Zenon DEF IsRow
<1> HIDE DEF Following, CodedAt
<1>5. Since[r][i] + Rows[r][i][2] <= Since[r][j]
  BY <1>4, Zenon
<1>6. Since[r][i] \in 0..GapMax /\ Since[r][j] \in 0..GapMax /\ Rows[r][i][2] \in 1..GapMax
  BY <1>2, <1>3, Zenon
<1>7. QED
  BY <1>2, <1>5, <1>6 DEF GapMax

LEMMA RowGoesOn ==
    ASSUME ExecTypeOK, CountTypeOK, BlindInRow, Ended
    PROVE  SlotBlind(row, Following0, 0, blind)
<1>1. IsRow(row) /\ row \in RowNames /\ nth \in 0..4 /\ (nth # 0 => nth \in DOMAIN Rows[row])
  BY RowsAreRows DEF ExecTypeOK, Ended
<1>2. ran = Slot[2] /\ row # "none"
  BY DEF Ended
<1>3. CASE nth = 0
  BY <1>1, <1>3, CodedBegins DEF Following0
<1>4. CASE Slot[1] = "C"
  <2>1. blind = 0
    BY <1>4, CodedEnds DEF AtCodedEnd
  <2>2. Following0 \in DOMAIN Rows[row]
    BY <1>2, FollowingInRow
  <2>3. QED
    BY <1>1, <2>1, <2>2, SeeingBegins
<1>5. CASE nth # 0 /\ Slot[1] # "C" /\ Following(row, nth) = CodedAt(row)
  BY <1>1, <1>5, CodedBegins DEF Following0
<1>6. CASE nth # 0 /\ Slot[1] # "C" /\ Following(row, nth) # CodedAt(row)
  <2> DEFINE j == Following(row, nth)
  <2>1. Slot = Rows[row][nth] /\ nth # CodedAt(row)
    BY <1>1, <1>6 DEF Slot, IsRow
  <2>2. /\ Since[row][nth] \in Nat /\ Since[row][j] \in Nat /\ Slot[2] \in Nat
        /\ Since[row][nth] + Slot[2] <= Since[row][j]
        /\ j # 0 /\ Rows[row][j][1] # "C"
    BY <1>1, <1>6, <2>1, NextInRow
  <2>3. blind <= Since[row][nth] + Slot[2]
    BY <1>2, <1>6 DEF BlindInRow
  <2> HIDE DEF j
  <2>6. blind <= Since[row][j] + 0
    BY <2>2, <2>3 DEF CountTypeOK, Unknown, BlindMax
  <2>7. Following0 = j
    BY <1>6 DEF Following0, j
  <2>8. QED
    BY <2>2, <2>6, <2>7 DEF SlotBlind
<1>7. QED
  BY <1>3, <1>4, <1>5, <1>6

LEMMA RowBegins ==
    ASSUME ExecTypeOK, BlindInRow, NEW r \in RowNames, NEW i, Starts(r, i)
    PROVE  SlotBlind(r, i, 0, blind)
<1>1. CASE AtCodedEnd
  <2>1. i \in DOMAIN Rows[r]
    BY <1>1, RowsAreRows DEF Starts, IsRow
  <2>2. QED
    BY <1>1, <2>1, CodedEnds, SeeingBegins
<1>2. CASE ~AtCodedEnd /\ i = 0
  <2>1. CodedAt(r) # 0
    BY RowsAreRows DEF IsRow
  <2>2. blind <= LeadMax
    BY <1>2, <2>1 DEF Starts
  <2>3. QED
    BY <1>2, <2>2 DEF SlotBlind, LeadMax
<1>3. CASE ~AtCodedEnd /\ i # 0
  BY <1>3, CodedBegins DEF Starts
<1>4. QED
  BY <1>1, <1>2, <1>3

(* Only a scan that has covered nothing yet leaves BLE blind for long.      *)
LEMMA SlotSees ==
    ASSUME ExecTypeOK, CountTypeOK, BlindInRow, row # "none", ~CodedOn
    PROVE  blind <= GapMax
<1>1. IsRow(row) /\ ran \in Nat /\ ran <= Slot[2] /\ (nth # 0 => nth \in DOMAIN Rows[row])
  BY RowsAreRows DEF ExecTypeOK
<1>2. CASE Slot[1] = "C"
  BY <1>1, <1>2, SlotIs, CodedEnds DEF CodedOn, Running, AtCodedEnd, Ended, GapMax
<1>3. CASE nth = 0
  BY <1>1, <1>3 DEF BlindInRow, Slot, LeadMax, GapMax, CountTypeOK, Unknown, BlindMax
<1>4. CASE nth # 0 /\ Slot[1] # "C"
  <2>1. nth # CodedAt(row) /\ Slot = Rows[row][nth]
    BY <1>1, <1>4 DEF IsRow, Slot
  <2>2. Since[row][nth] \in 0..GapMax /\ Since[row][nth] + Rows[row][nth][2] <= GapMax
    BY <1>1, <1>4, <2>1, Zenon DEF IsRow
  <2>3. blind <= Since[row][nth] + ran
    BY <1>4 DEF BlindInRow
  <2>4. Slot[2] \in 1..GapMax
    BY SlotIs
  <2>5. QED
    BY <1>1, <2>1, <2>2, <2>3, <2>4 DEF GapMax, CountTypeOK, Unknown, BlindMax
<1>5. QED
  BY <1>2, <1>3, <1>4

LEMMA BlindIsBounded ==
    ASSUME RadioInv, BlindInv
    PROVE  BlindBounded
BY SlotSees DEF RadioInv, RadioTypeOK, BlindInv, BlindBetween, BlindBounded, GapMax, BlindMax,
                CountTypeOK, Unknown

LEMMA RowStep ==
    ASSUME RadioInv, BlindInRow, [RadioNext]_radioVars
    PROVE  BlindInRow'
<1> USE DEF execVars, pulseVars, factVars
<1>1. ExecTypeOK /\ CountTypeOK /\ PulseTypeOK /\ ExecTypeOK'
  BY ExecKept DEF RadioInv, RadioTypeOK
<1>2. CASE row' = "none"
  BY <1>2 DEF BlindInRow
<1>3. CASE UNCHANGED <<row, nth, ran, blind>>
  BY <1>3 DEF BlindInRow, Slot
<1>4. CASE NextSlot
  <2>1. ran' = 0 /\ blind' = blind
    BY <1>4 DEF NextSlot
  <2>2. SlotBlind(row', nth', 0, blind)
    BY <1>1, <1>4, RowsWanted, RowGoesOn, RowBegins DEF NextSlot
  <2>3. row' # "none" => SlotBlind(row', nth', ran', blind')
    BY <2>1, <2>2
  <2>4. QED
    BY <1>1, <2>3 DEF BlindInRow, SlotBlind, Slot, ExecTypeOK
<1>5. ASSUME NEW d \in 1..Remaining, Elapse(d) PROVE BlindInRow'
  <2>1. CASE pulse = "none" /\ Running
    <3>1. /\ UNCHANGED <<row, nth>> /\ ran' = ran + d /\ Slot' = Slot
          /\ d \in Nat /\ ran \in Nat /\ blind \in 0..Unknown
          /\ blind' = IF CodedOn /\ ran + d >= Cover THEN 0
                      ELSE IF blind + d < Unknown THEN blind + d ELSE Unknown
      BY <1>1, <1>5, <2>1 DEF Elapse, ExecTypeOK, CountTypeOK, Slot
    <3>2. CASE Slot[1] = "C"
      BY <2>1, <3>1, <3>2 DEF BlindInRow, CodedOn
    <3>3. CASE Slot[1] # "C"
      <4> DEFINE m == IF nth = 0 THEN LeadMax ELSE Since[row][nth]
      <4>1. blind <= m + ran /\ row # "none"
        BY <2>1, <3>3 DEF BlindInRow, Running
      <4>2. m \in Nat
        <5>1. nth = 0 \/ Since[row][nth] \in 0..GapMax
          BY <1>1, <4>1, RowsAreRows, Zenon DEF IsRow, ExecTypeOK
        <5>2. QED
          BY <5>1 DEF LeadMax, GapMax
      <4>3. blind' <= m + ran'
        <5> HIDE DEF m
        <5>1. QED
          BY <3>1, <3>3, <4>1, <4>2 DEF CodedOn, Unknown, BlindMax
      <4>4. QED
        BY <3>1, <3>3, <4>3 DEF BlindInRow
    <3>4. QED
      BY <3>2, <3>3
  <2>2. CASE ~(pulse = "none" /\ Running)
    <3>1. CASE row = "none"
      BY <1>2, <1>5, <3>1 DEF Elapse
    <3>2. CASE row # "none"
      BY <1>5, <2>2, <3>2 DEF Elapse, Remaining, RadioInv, OneAtATime
    <3>3. QED
      BY <3>1, <3>2
  <2>3. QED
    BY <2>1, <2>2
<1>6. ASSUME NEW k \in WifiKinds, Grant(k) \/ Settle(k) \/ AskPulse(k) \/ EndPulseAsked(k)
      PROVE  BlindInRow'
  BY <1>3, <1>6 DEF Grant, Settle, AskPulse, EndPulseAsked
<1>7. CASE BeginWifi \/ Claim \/ LostScan \/ Desync
  BY <1>2, <1>3, <1>7 DEF BeginWifi, Claim, LostScan, Desync, Begun
<1>8. CASE \/ Retract \/ EndPulse \/ StartConnect \/ EndConnect \/ HostResync
           \/ RadioFacts \/ Spaced \/ Unpaced
  BY <1>3, <1>8 DEF Retract, EndPulse, StartConnect, EndConnect, HostResync, RadioFacts,
                    Spaced, Unpaced
<1>9. CASE UNCHANGED radioVars
  BY <1>3, <1>9 DEF radioVars
<1>10. QED
  BY <1>4, <1>5, <1>6, <1>7, <1>8, <1>9 DEF RadioNext

LEMMA BetweenStep ==
    ASSUME RadioInv, BlindInv, [RadioNext]_radioVars
    PROVE  BlindBetween'
<1> USE DEF execVars, pulseVars, factVars
<1>1. ExecTypeOK /\ CountTypeOK /\ PulseTypeOK /\ FlagTypeOK /\ OneAtATime
      /\ BlindInRow /\ BlindBetween
  BY DEF RadioInv, RadioTypeOK, BlindInv
<1>2. CASE BeginWifi
  <2>1. /\ row' = "none" /\ pulse' # "none" /\ granting' = "none" /\ left' = left
        /\ blind' = blind /\ radioHist'.excused = radioHist.excused
        /\ blind + left <= BlindMax
    BY <1>1, <1>2, NamesApart DEF BeginWifi, Begun, BlindBetween, PulseTypeOK, CountTypeOK
  <2>2. QED
    BY <1>1, <2>1 DEF BlindBetween, PulseTypeOK, CountTypeOK, BlindMax, Unknown
<1>3. CASE Retract
  BY <1>1, <1>3 DEF Retract, BlindBetween, OneAtATime
<1>4. CASE Claim
  <2>1. CASE Begun("CONNECT", ConnectLen)
    BY <1>1, <1>4, <2>1, ConnectFits
    DEF Claim, CanClaim, Begun, BlindBetween, CountTypeOK, BlindMax, Unknown
  <2>2. CASE UNCHANGED <<row, nth, ran, own, pulseVars>>
    BY <1>1, <1>4, <2>2 DEF Claim, BlindBetween, CountTypeOK
  <2>3. QED
    BY <1>4, <2>1, <2>2 DEF Claim
<1>5. CASE EndPulse
  BY <1>1, <1>5, NamesApart DEF EndPulse, WifiOver, BlindBetween, OneAtATime, PulseTypeOK, CountTypeOK,
                                BlindMax, Unknown
<1>6. CASE NextSlot
  BY <1>1, <1>6, RowsWanted, NamesApart DEF NextSlot, BlindBetween, Ended
<1>7. ASSUME NEW d \in 1..Remaining, Elapse(d) PROVE BlindBetween'
  <2>1. CASE pulse # "none"
    BY <1>1, <1>7, <2>1 DEF Elapse, Remaining, OneAtATime, BlindBetween, PulseTypeOK, CountTypeOK,
                            CodedOn, Running, BlindMax, Unknown
  <2>2. CASE pulse = "none"
    BY <1>1, <1>7, <2>2 DEF Elapse, Remaining, OneAtATime, BlindBetween, PulseTypeOK, CountTypeOK,
                            CodedOn, Running, BlindMax, Unknown
  <2>3. QED
    BY <2>1, <2>2
<1>8. ASSUME NEW k \in WifiKinds, Grant(k) \/ Settle(k) \/ AskPulse(k) \/ EndPulseAsked(k)
      PROVE  BlindBetween'
  <2>1. CASE Grant(k)
    BY <1>1, <2>1, LensFit DEF Grant, GrantStep, BlindBetween
  <2>2. CASE Settle(k) \/ AskPulse(k) \/ EndPulseAsked(k)
    BY <1>1, <2>2 DEF Settle, AskPulse, EndPulseAsked, BlindBetween, CountTypeOK
  <2>3. QED
    BY <1>8, <2>1, <2>2
<1>9. CASE StartConnect \/ EndConnect
  BY <1>1, <1>9 DEF StartConnect, EndConnect, BlindBetween, CountTypeOK
<1>10. CASE LostScan \/ Desync \/ HostResync
  BY <1>1, <1>10 DEF LostScan, Desync, HostResync, RadioFault, ScanOn, Running, BlindBetween,
                     CountTypeOK, OneAtATime
<1>11. CASE RadioFacts \/ Spaced \/ Unpaced
  BY <1>1, <1>11 DEF RadioFacts, Spaced, Unpaced, BlindBetween, CountTypeOK
<1>12. CASE UNCHANGED radioVars
  BY <1>1, <1>12 DEF radioVars, BlindBetween
<1>13. QED
  BY <1>2, <1>3, <1>4, <1>5, <1>6, <1>7, <1>8, <1>9, <1>10, <1>11, <1>12 DEF RadioNext

-----------------------------------------------------------------------------
(* What the scan executor and the radio policy promise.                     *)

LEMMA RadioInvariance == RadioSpec => [](RadioInv /\ ConnectInv /\ ClaimsTurn /\ BlindInv)
<1>1. RadioInit => RadioInv /\ ConnectInv /\ ClaimsTurn /\ BlindInv
  <2> SUFFICES ASSUME RadioInit PROVE RadioInv /\ ConnectInv /\ ClaimsTurn /\ BlindInv
    OBVIOUS
  <2>1. RadioInv
    BY RadioInitInv DEF RadioInv
  <2>2. ConnectInv
    BY NamesApart DEF RadioInit, ConnectInv, NoSubmit, SubmitTrue, ConnectAsked, NotAsked
  <2>3. ClaimsTurn /\ BlindInv
    BY DEF RadioInit, ClaimsTurn, BlindInv, BlindInRow, BlindBetween
  <2>4. QED
    BY <2>1, <2>2, <2>3
<1>2. RadioInv /\ ConnectInv /\ ClaimsTurn /\ BlindInv /\ [RadioNext]_radioVars
        => (RadioInv /\ ConnectInv /\ ClaimsTurn /\ BlindInv)'
  BY RadioStep, ConnectStep, ClaimStep, RowStep, BetweenStep DEF BlindInv
<1>3. QED
  BY <1>1, <1>2, PTL DEF RadioSpec

(* Every variable of the executor and the policy keeps its type: no slot    *)
(* runs past its length, and no pulse past its deadline.                    *)
THEOREM RadioTypeCorrect == RadioSpec => []RadioTypeOK
<1>1. RadioInv => RadioTypeOK
  BY DEF RadioInv
<1>2. QED
  BY <1>1, RadioInvariance, PTL

(* I2: BLE is never blind for longer than RP_BLIND_MAX_MS, whatever pulses  *)
(* cut, follow or end early.                                                *)
THEOREM BlindBoundedHolds == RadioSpec => []BlindBounded
<1>1. RadioInv /\ BlindInv => BlindBounded
  BY BlindIsBounded
<1>2. QED
  BY <1>1, RadioInvariance, PTL

(* A Connect in flight is asked for until its pulse begins or no scan is    *)
(* there to stop.                                                           *)
THEOREM ConnectAskedHolds == RadioSpec => []ConnectAsked
<1>1. ConnectInv => ConnectAsked
  BY DEF ConnectInv
<1>2. QED
  BY <1>1, RadioInvariance, PTL

(* A claim that is due in a leak response waits for at most one Wi-Fi pulse *)
THEOREM ClaimDelayedOnceHolds == RadioSpec => []ClaimDelayedOnce
<1>1. ClaimsTurn => ClaimDelayedOnce
  BY DEF ClaimsTurn, ClaimDelayedOnce
<1>2. QED
  BY <1>1, RadioInvariance, PTL
=============================================================================
