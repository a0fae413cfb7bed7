------------------------- MODULE KeptReportsProofs -------------------------
(***************************************************************************)
(* What holds of the kept reports for every number of sensors and slots.   *)
(*                                                                         *)
(* The list is handled by position: Newest picks a position, Drop takes    *)
(* one out.  The first lemmas say what those two do; Keep is then the five *)
(* cases of keep_report(), each a Drop, an Append or a change in place.    *)
(***************************************************************************)
EXTENDS KeptReports, Integers, TLAPS, WellFoundedInduction, FiniteSetTheorems

USE KeptAssumption

-----------------------------------------------------------------------------
(* Positions.                                                               *)

(* A non-empty set of numbers has a least member.                           *)
LEMMA Least ==
    ASSUME NEW T, T \subseteq Nat, T # {}
    PROVE  \E x \in T : \A y \in T : x <= y
<1>1. IsWellFoundedOn(OpToRel(<, Nat), Nat)
  BY NatLessThanWellFounded
<1>2. PICK x \in T : \A y \in T : <<y, x>> \notin OpToRel(<, Nat)
  BY <1>1, WFMin
<1>3. \A y \in T : ~(y < x)
  BY <1>2 DEF OpToRel
<1> QED
  BY <1>3

(* Newest picks the last of a non-empty set of positions.                   *)
LEMMA NewestIn ==
    ASSUME NEW n \in Nat, NEW T, T \subseteq 1..n, T # {}
    PROVE  Newest(T) \in T /\ \A y \in T : y <= Newest(T)
<1> DEFINE U == {m \in Nat : \E y \in T : m = n - y}
<1>1. PICK t \in T : TRUE
  OBVIOUS
<1>2. n - t \in U
  <2>1. t \in 1..n
    OBVIOUS
  <2> QED
    BY <2>1
<1>3. PICK u \in U : \A v \in U : u <= v
  <2>1. U \subseteq Nat /\ U # {}
    BY <1>2
  <2> HIDE DEF U
  <2> QED
    BY <2>1, Least
<1>4. PICK x \in T : u = n - x
  OBVIOUS
<1>5. ASSUME NEW y \in T PROVE y <= x
  <2>1. n - y \in U
    <3>1. y \in 1..n
      OBVIOUS
    <3> QED
      BY <3>1
  <2>2. u <= n - y
    BY <2>1, <1>3
  <2>3. x \in 1..n /\ y \in 1..n
    OBVIOUS
  <2> QED
    BY <2>2, <2>3, <1>4
<1> QED
  BY <1>5 DEF Newest

(* The entries of a list, after the i-th was taken out, are those before it *)
(* and those behind it, moved up by one.                                    *)
LEMMA DropEntries ==
    ASSUME NEW k \in Seq(Reports), NEW i \in 1..Len(k)
    PROVE  /\ Drop(k, i) \in Seq(Reports)
           /\ Len(Drop(k, i)) = Len(k) - 1
           /\ \A j \in 1..Len(Drop(k, i)) :
                 Drop(k, i)[j] = IF j < i THEN k[j] ELSE k[j + 1]
<1>1. Len(k) \in Nat /\ Len(k) - 1 \in Nat
  OBVIOUS
<1>2. \A j \in 1..(Len(k) - 1) : k[j] \in Reports /\ k[j + 1] \in Reports
  <2> TAKE j \in 1..(Len(k) - 1)
  <2>1. j \in 1..Len(k) /\ j + 1 \in 1..Len(k)
    BY <1>1
  <2> QED
    BY <2>1
<1>3. Drop(k, i) \in [1..(Len(k) - 1) -> Reports]
  BY <1>2 DEF Drop
<1>4. Drop(k, i) \in Seq(Reports) /\ Len(Drop(k, i)) = Len(k) - 1
  BY <1>1, <1>3
<1>5. \A j \in 1..(Len(k) - 1) : Drop(k, i)[j] = IF j < i THEN k[j] ELSE k[j + 1]
  BY DEF Drop
<1> QED
  BY <1>4, <1>5

-----------------------------------------------------------------------------
(* A list as the set of its reports.                                        *)

Unique(k)  == \A i, j \in 1..Len(k) : k[i] = k[j] => i = j
Entries(k) == {k[i] : i \in 1..Len(k)}

(* What keep_report() takes out leaves a list without repeats, one slot     *)
(* shorter.                                                                 *)
LEMMA DropUnique ==
    ASSUME NEW k \in Seq(Reports), NEW i \in 1..Len(k), Unique(k)
    PROVE  Unique(Drop(k, i)) /\ Entries(Drop(k, i)) = Entries(k) \ {k[i]}
<1> DEFINE d == Drop(k, i)
           src(j) == IF j < i THEN j ELSE j + 1
<1>1. /\ d \in Seq(Reports) /\ Len(d) = Len(k) - 1 /\ Len(k) \in Nat
      /\ \A j \in 1..Len(d) : d[j] = k[src(j)] /\ src(j) \in 1..Len(k) /\ src(j) # i
  <2>1. Len(k) \in Nat
    OBVIOUS
  <2> QED
    BY <2>1, DropEntries
<1>2. \A j \in 1..Len(k) : j # i => \E m \in 1..Len(d) : src(m) = j
  <2> SUFFICES ASSUME NEW j \in 1..Len(k), j # i
               PROVE  \E m \in 1..Len(d) : src(m) = j
    OBVIOUS
  <2>1. CASE j < i
    <3>1. j \in 1..Len(d) /\ src(j) = j
      BY <1>1, <2>1
    <3> QED
      BY <3>1
  <2>2. CASE j > i
    <3>1. j - 1 \in 1..Len(d) /\ src(j - 1) = j
      BY <1>1, <2>2
    <3> QED
      BY <3>1
  <2> QED
    BY <2>1, <2>2, <1>1
<1>3. \A a, b \in 1..Len(d) : src(a) = src(b) => a = b
  BY <1>1
<1> HIDE DEF d
<1>4. Unique(d)
  BY <1>1, <1>3 DEF Unique
<1>5. ASSUME NEW e \in Entries(d) PROVE e \in Entries(k) \ {k[i]}
  <2>1. PICK j \in 1..Len(d) : e = d[j]
    BY DEF Entries
  <2>2. e = k[src(j)] /\ src(j) \in 1..Len(k) /\ src(j) # i
    BY <2>1, <1>1
  <2> QED
    BY <2>2 DEF Entries, Unique
<1>6. ASSUME NEW e \in Entries(k) \ {k[i]} PROVE e \in Entries(d)
  <2>1. PICK j \in 1..Len(k) : e = k[j]
    BY DEF Entries
  <2>2. PICK m \in 1..Len(d) : src(m) = j
    BY <2>1, <1>2
  <2> QED
    BY <2>1, <2>2, <1>1 DEF Entries
<1> QED
  BY <1>4, <1>5, <1>6 DEF d

(* A report the list does not hold may go to its end.                       *)
LEMMA AppendUnique ==
    ASSUME NEW k \in Seq(Reports), NEW r \in Reports, Unique(k), r \notin Entries(k)
    PROVE  /\ Append(k, r) \in Seq(Reports)
           /\ Len(Append(k, r)) = Len(k) + 1
           /\ Unique(Append(k, r))
           /\ Entries(Append(k, r)) = Entries(k) \cup {r}
<1> DEFINE a == Append(k, r)
<1>1. /\ a \in Seq(Reports) /\ Len(a) = Len(k) + 1 /\ Len(k) \in Nat
      /\ a[Len(k) + 1] = r
      /\ \A j \in 1..Len(k) : a[j] = k[j]
  OBVIOUS
<1> HIDE DEF a
<1>2. \A j \in 1..Len(a) : j \in 1..Len(k) \/ j = Len(k) + 1
  BY <1>1
<1>3. 1..Len(k) \subseteq 1..Len(a) /\ Len(k) + 1 \in 1..Len(a)
  BY <1>1
<1>4. Unique(a)
  BY <1>1, <1>2 DEF Unique, Entries
<1>5. Entries(a) = Entries(k) \cup {r}
  BY <1>1, <1>2, <1>3 DEF Entries
<1> QED
  BY <1>1, <1>4, <1>5 DEF a

(* A report the list does not hold may take another's slot.                 *)
LEMMA ChangeUnique ==
    ASSUME NEW k \in Seq(Reports), NEW i \in 1..Len(k), NEW r \in Reports,
           Unique(k), r \notin Entries(k)
    PROVE  LET c == [k EXCEPT ![i] = r]
           IN c \in Seq(Reports) /\ Len(c) = Len(k) /\ Unique(c)
              /\ Entries(c) = (Entries(k) \ {k[i]}) \cup {r}
<1> DEFINE c == [k EXCEPT ![i] = r]
<1>1. /\ c \in Seq(Reports) /\ Len(c) = Len(k)
      /\ c[i] = r /\ \A j \in 1..Len(k) : j # i => c[j] = k[j]
  OBVIOUS
<1> HIDE DEF c
<1>2. Unique(c)
  BY <1>1 DEF Unique, Entries
<1>3. Entries(c) = (Entries(k) \ {k[i]}) \cup {r}
  BY <1>1 DEF Entries, Unique
<1> QED
  BY <1>1, <1>2, <1>3 DEF c

(* rules_engine_retry_kept_reports() takes the oldest report out.           *)
LEMMA TailUnique ==
    ASSUME NEW k \in Seq(Reports), k # <<>>, Unique(k)
    PROVE  /\ Tail(k) \in Seq(Reports) /\ Len(Tail(k)) = Len(k) - 1
           /\ Head(k) \in Reports
           /\ Unique(Tail(k)) /\ Entries(Tail(k)) = Entries(k) \ {Head(k)}
<1> DEFINE t == Tail(k)
<1>1. /\ t \in Seq(Reports) /\ Len(t) = Len(k) - 1 /\ Len(k) \in Nat /\ Len(k) > 0
      /\ Head(k) = k[1] /\ 1 \in 1..Len(k) /\ k[1] \in Reports
      /\ \A j \in 1..Len(t) : t[j] = k[j + 1] /\ j + 1 \in 1..Len(k) /\ j + 1 # 1
      /\ \A j \in 1..Len(k) : j # 1 => j - 1 \in 1..Len(t) /\ t[j - 1] = k[j]
  OBVIOUS
<1> HIDE DEF t
<1>2. Unique(t)
  BY <1>1 DEF Unique
<1>3. ASSUME NEW e \in Entries(t) PROVE e \in Entries(k) \ {Head(k)}
  <2>1. PICK j \in 1..Len(t) : e = t[j]
    BY DEF Entries
  <2>2. e = k[j + 1] /\ j + 1 \in 1..Len(k) /\ j + 1 # 1
    BY <2>1, <1>1
  <2> QED
    BY <2>2, <1>1 DEF Entries, Unique
<1>4. ASSUME NEW e \in Entries(k) \ {Head(k)} PROVE e \in Entries(t)
  <2>1. PICK j \in 1..Len(k) : e = k[j]
    BY DEF Entries
  <2>2. j # 1
    BY <2>1, <1>1
  <2>3. j - 1 \in 1..Len(t) /\ t[j - 1] = e
    BY <2>1, <2>2, <1>1
  <2> QED
    BY <2>3 DEF Entries
<1> QED
  BY <1>1, <1>2, <1>3, <1>4 DEF t

-----------------------------------------------------------------------------
(* keep_report().                                                           *)

Wets(E) == {s \in Sources : Rep(s, TRUE) \in E}

(* A report is its source and whether it is wet.                            *)
LEMMA RepFacts ==
    /\ \A s \in Sources, w \in BOOLEAN :
          Rep(s, w) \in Reports /\ Rep(s, w).src = s /\ (Rep(s, w).wet <=> w)
    /\ \A e \in Reports : e.src \in Sources /\ e = Rep(e.src, e.wet)
    /\ \A e \in Reports : e.wet => e = Rep(e.src, TRUE)
    /\ \A e \in Reports : ~e.wet => e = Rep(e.src, FALSE)
<1>1. \A s \in Sources, w \in BOOLEAN :
         Rep(s, w) \in Reports /\ Rep(s, w).src = s /\ (Rep(s, w).wet <=> w)
  BY DEF Reports, Rep
<1>2. \A e \in Reports : e.src \in Sources /\ e.wet \in BOOLEAN /\ e = Rep(e.src, e.wet)
  BY DEF Reports, Rep
<1>3. ASSUME NEW e \in Reports, e.wet PROVE e = Rep(e.src, TRUE)
  <2>1. e.wet = TRUE
    BY <1>2, <1>3
  <2> QED
    BY <2>1, <1>2, Zenon
<1>4. ASSUME NEW e \in Reports, ~e.wet PROVE e = Rep(e.src, FALSE)
  <2>1. e.wet = FALSE
    BY <1>2, <1>4
  <2> QED
    BY <2>1, <1>2, Zenon
<1> QED
  BY <1>1, <1>2, <1>3, <1>4

(* The sources with a wet report kept are those of the list's wet entries.  *)
LEMMA WetInEntries ==
    ASSUME NEW k \in Seq(Reports)
    PROVE  WetIn(k) = Wets(Entries(k))
<1>1. \A i \in 1..Len(k) : k[i] \in Reports
  OBVIOUS
<1>2. \A i \in 1..Len(k), s \in Sources : (k[i].src = s /\ k[i].wet) <=> k[i] = Rep(s, TRUE)
  BY <1>1, RepFacts
<1> QED
  BY <1>2 DEF WetIn, Wets, Entries

(* The seven outcomes of keep_report(): the report is a repeat; a wet one   *)
(* takes its source's last dry one out; a dry one moves its source's to the *)
(* end; there is room; a wet one takes its source's place, or that of       *)
(* another source's dry one; and the list is full.                          *)
Repeat(k, s, w)  == Keep(k, s, w) = k /\ \E i \in 1..Len(k) :
    k[i] = Rep(s, w) /\ \A j \in 1..Len(k) : k[j].src = s => j <= i
WetAgain(k, s, w) == w /\ Rep(s, TRUE) \in Entries(k) /\ \E i \in 1..Len(k) :
    k[i] = Rep(s, FALSE) /\ Keep(k, s, w) = Drop(k, i)
DryAgain(k, s, w) == ~w /\ \E i \in 1..Len(k) :
    k[i] = Rep(s, w) /\ Keep(k, s, w) = Append(Drop(k, i), Rep(s, w))
HasRoom(k, s, w) == /\ Len(k) < KeptMax /\ Rep(s, w) \notin Entries(k)
                    /\ Keep(k, s, w) = Append(k, Rep(s, w))
InPlace(k, s, w) == w /\ Rep(s, w) \notin Entries(k) /\ \E i \in 1..Len(k) :
    k[i] = Rep(s, FALSE) /\ Keep(k, s, w) = [k EXCEPT ![i] = Rep(s, w)]
MakesRoom(k, s, w) == w /\ Rep(s, w) \notin Entries(k) /\ \E i \in 1..Len(k) :
    k[i].src # s /\ ~k[i].wet /\ Keep(k, s, w) = Append(Drop(k, i), Rep(s, w))
NoRoom(k, s, w)  == /\ Keep(k, s, w) = k /\ Len(k) = KeptMax
                    /\ w => \A i \in 1..Len(k) : k[i].wet /\ k[i].src # s

(* keep_report() has no other outcome.                                      *)
LEMMA KeepForms ==
    ASSUME NEW k \in Seq(Reports), Unique(k), Len(k) <= KeptMax,
           NEW s \in Sources, NEW w \in BOOLEAN
    PROVE  \/ Repeat(k, s, w) \/ WetAgain(k, s, w) \/ DryAgain(k, s, w) \/ HasRoom(k, s, w)
           \/ InPlace(k, s, w) \/ MakesRoom(k, s, w) \/ NoRoom(k, s, w)
<1> DEFINE own  == Own(k, s)
           last == Newest(own)
           prev == Newest(own \ {last})
           r    == Rep(s, w)
<1>1. /\ Len(k) \in Nat /\ KeptMax \in Nat /\ r \in Reports
      /\ \A i \in 1..Len(k) : k[i] \in Reports
  BY RepFacts
<1>2. /\ own \subseteq 1..Len(k)
      /\ \A i \in 1..Len(k) : i \in own <=> k[i].src = s
  BY DEF Own
<1>3. ASSUME NEW i \in own
      PROVE  (k[i].wet => k[i] = Rep(s, TRUE)) /\ (~k[i].wet => k[i] = Rep(s, FALSE))
  <2>1. k[i] \in Reports /\ k[i].src = s
    BY <1>1, <1>2
  <2> QED
    BY <2>1, RepFacts
<1>5. ASSUME own # {}
      PROVE  last \in own /\ last \in 1..Len(k) /\ \A j \in own : j <= last
  BY <1>1, <1>2, <1>5, NewestIn
<1>6. ASSUME ~Same(k, s, w), ~Pair(k, s) PROVE r \notin Entries(k)
  <2> SUFFICES ASSUME NEW i \in 1..Len(k), k[i] = r PROVE FALSE
    BY DEF Entries
  <2>1. i \in own /\ (k[i].wet <=> w)
    BY <1>2, RepFacts
  <2>2. last = i
    BY <2>1, <1>5, <1>6 DEF Pair
  <2>3. k[i].wet = w
    BY DEF Rep
  <2> QED
    BY <2>1, <2>2, <2>3, <1>6 DEF Same
<1>7. ASSUME ~Same(k, s, w), own # {} PROVE k[last].wet <=> ~w
  <2>1. k[last].wet # w
    BY <1>7 DEF Same
  <2> QED
    BY <2>1, <1>1, <1>5, <1>7 DEF Reports
<1>8. CASE Same(k, s, w)
  <2>1. own # {} /\ k[last].wet = w
    BY <1>8 DEF Same
  <2>2. k[last] = r
    BY <2>1, <1>2, <1>5, <1>1, RepFacts
  <2>3. Keep(k, s, w) = k
    BY <1>8 DEF Keep
  <2>4. \A j \in 1..Len(k) : k[j].src = s => j <= last
    BY <2>1, <1>2, <1>5
  <2> HIDE DEF own, last, r
  <2>5. last \in 1..Len(k) /\ k[last] = Rep(s, w)
    BY <2>1, <2>2, <1>5 DEF r
  <2> QED
    BY <2>3, <2>4, <2>5 DEF Repeat
<1> HIDE DEF own, last, prev, r
<1>9. CASE ~Same(k, s, w) /\ Pair(k, s)
  <2>1. own # {} /\ own \ {last} # {} /\ own \ {last} \subseteq 1..Len(k)
    BY <1>9, <1>2 DEF Pair, own
  <2>2. prev \in own /\ prev # last /\ prev \in 1..Len(k)
    <3>1. prev \in own \ {last}
      BY <2>1, <1>1, NewestIn DEF prev
    <3> QED
      BY <3>1, <1>2
  <2>3. last \in own /\ last \in 1..Len(k) /\ (k[last].wet <=> ~w)
    BY <2>1, <1>5, <1>7, <1>9
  <2>4. k[prev].wet <=> w
    <3>1. k[prev] # k[last]
      BY <2>2, <2>3 DEF Unique
    <3> QED
      BY <3>1, <2>2, <2>3, <1>3
  <2>5. CASE w
    <3>1. k[last] = Rep(s, FALSE) /\ k[prev] = Rep(s, TRUE)
      BY <2>2, <2>3, <2>4, <2>5, <1>3
    <3>2. Keep(k, s, w) = Drop(k, last)
      BY <1>9, <2>5 DEF Keep, own, last
    <3>3. Rep(s, TRUE) \in Entries(k)
      BY <3>1, <2>2 DEF Entries
    <3> QED
      BY <3>1, <3>2, <3>3, <2>3, <2>5 DEF WetAgain
  <2>6. CASE ~w
    <3>1. k[prev] = r
      <4>1. w = FALSE
        BY <2>6
      <4> QED
        BY <4>1, <2>2, <2>4, <1>3 DEF r
    <3>2. Keep(k, s, w) = Append(Drop(k, prev), r)
      BY <1>9, <2>6 DEF Keep, own, last, prev, r
    <3> QED
      BY <3>1, <3>2, <2>2, <2>6 DEF DryAgain, r
  <2> QED
    BY <2>5, <2>6
<1>10. CASE ~Same(k, s, w) /\ ~Pair(k, s) /\ Len(k) < KeptMax
  BY <1>6, <1>10 DEF Keep, HasRoom, r
<1>11. CASE ~Same(k, s, w) /\ ~Pair(k, s) /\ ~(Len(k) < KeptMax) /\ w /\ own # {}
  <2>1. last \in 1..Len(k) /\ k[last] = Rep(s, FALSE)
    BY <1>3, <1>5, <1>7, <1>11
  <2>2. Keep(k, s, w) = [k EXCEPT ![last] = r]
    BY <1>11 DEF Keep, own, last, r
  <2> QED
    BY <2>1, <2>2, <1>6, <1>11 DEF InPlace, r
<1>12. CASE /\ ~Same(k, s, w) /\ ~Pair(k, s) /\ ~(Len(k) < KeptMax) /\ w /\ own = {}
            /\ DryOnes(k, Sources) # {}
  <2> DEFINE g == GivesWay(k)
             dry == IF DryOnes(k, Sensors) # {} THEN DryOnes(k, Sensors) ELSE DryOnes(k, {Probe})
  <2>1. dry # {} /\ dry \subseteq 1..Len(k) /\ \A i \in dry : ~k[i].wet
    BY <1>12 DEF DryOnes, Sources
  <2>2. g = Newest(dry)
    BY DEF GivesWay
  <2>3. Keep(k, s, w) = Append(Drop(k, g), r)
    BY <1>12 DEF Keep, own, r
  <2> HIDE DEF g, dry
  <2>4. g \in 1..Len(k) /\ ~k[g].wet
    BY <2>1, <2>2, <1>1, NewestIn
  <2>5. k[g].src # s
    BY <2>4, <1>2, <1>12
  <2> QED
    BY <2>3, <2>4, <2>5, <1>6, <1>12 DEF MakesRoom, r
<1>13. CASE /\ ~Same(k, s, w) /\ ~Pair(k, s) /\ ~(Len(k) < KeptMax)
            /\ ~(w /\ own # {}) /\ ~(w /\ DryOnes(k, Sources) # {})
  <2>1. Keep(k, s, w) = k
    BY <1>13 DEF Keep, own
  <2>2. Len(k) = KeptMax
    BY <1>1, <1>13
  <2>3. ASSUME w, NEW i \in 1..Len(k) PROVE k[i].wet /\ k[i].src # s
    <3>1. k[i].src \in Sources
      BY <1>1, RepFacts
    <3> QED
      BY <3>1, <2>3, <1>2, <1>13 DEF DryOnes
  <2> QED
    BY <2>1, <2>2, <2>3 DEF NoRoom
<1> QED
  BY <1>8, <1>9, <1>10, <1>11, <1>12, <1>13

(* keep_report() leaves a list without duplicates, within its slots, and    *)
(* with every wet report it had.                                            *)
LEMMA KeepShape ==
    ASSUME NEW k \in Seq(Reports), Unique(k), Len(k) <= KeptMax,
           NEW s \in Sources, NEW w \in BOOLEAN
    PROVE  /\ Keep(k, s, w) \in Seq(Reports)
           /\ Unique(Keep(k, s, w))
           /\ Len(Keep(k, s, w)) <= KeptMax
           /\ Wets(Entries(k)) \subseteq Wets(Entries(Keep(k, s, w)))
<1> DEFINE r == Rep(s, w)
<1>1. Len(k) \in Nat /\ r \in Reports /\ r.src = s /\ (r.wet <=> w)
  BY RepFacts
<1>2. ASSUME NEW e \in Reports, ~e.wet, NEW F, Entries(k) \ {e} \subseteq F
      PROVE  Wets(Entries(k)) \subseteq Wets(F)
  <2>1. ASSUME NEW q \in Sources PROVE e # Rep(q, TRUE)
    BY <1>2, RepFacts
  <2> QED
    BY <2>1, <1>2 DEF Wets
<1>3. ~Rep(s, FALSE).wet /\ Rep(s, FALSE) \in Reports
  BY RepFacts
<1> HIDE DEF r
<1>4. ASSUME NEW i \in 1..Len(k), ~k[i].wet, r \notin Entries(k) \ {k[i]}
      PROVE  LET a == Append(Drop(k, i), r)
             IN a \in Seq(Reports) /\ Unique(a) /\ Len(a) <= KeptMax
                /\ Wets(Entries(k)) \subseteq Wets(Entries(a))
  <2>1. /\ Drop(k, i) \in Seq(Reports) /\ Len(Drop(k, i)) = Len(k) - 1
        /\ Unique(Drop(k, i)) /\ Entries(Drop(k, i)) = Entries(k) \ {k[i]}
    BY <1>4, DropEntries, DropUnique
  <2>2. r \notin Entries(Drop(k, i))
    BY <2>1, <1>4
  <2>3. /\ Append(Drop(k, i), r) \in Seq(Reports)
        /\ Len(Append(Drop(k, i), r)) = Len(k) - 1 + 1
        /\ Unique(Append(Drop(k, i), r))
        /\ Entries(Append(Drop(k, i), r)) = (Entries(k) \ {k[i]}) \cup {r}
    BY <2>1, <2>2, <1>1, AppendUnique
  <2>4. Wets(Entries(k)) \subseteq Wets((Entries(k) \ {k[i]}) \cup {r})
    BY <1>2, <1>4
  <2>5. Len(k) - 1 + 1 <= KeptMax
    BY <1>1
  <2> QED
    BY <2>3, <2>4, <2>5
<1>5. CASE Repeat(k, s, w) \/ NoRoom(k, s, w)
  BY <1>5 DEF Repeat, NoRoom
<1>6. CASE WetAgain(k, s, w)
  <2>1. PICK i \in 1..Len(k) : k[i] = Rep(s, FALSE) /\ Keep(k, s, w) = Drop(k, i)
    BY <1>6 DEF WetAgain
  <2>2. /\ Drop(k, i) \in Seq(Reports) /\ Len(Drop(k, i)) = Len(k) - 1
        /\ Unique(Drop(k, i)) /\ Entries(Drop(k, i)) = Entries(k) \ {k[i]}
    BY DropEntries, DropUnique
  <2>3. Wets(Entries(k)) \subseteq Wets(Entries(Drop(k, i)))
    BY <2>1, <2>2, <1>2, <1>3
  <2>4. Len(k) - 1 <= KeptMax
    BY <1>1
  <2> QED
    BY <2>1, <2>2, <2>3, <2>4
<1>7. CASE DryAgain(k, s, w)
  <2>1. PICK i \in 1..Len(k) : k[i] = r /\ Keep(k, s, w) = Append(Drop(k, i), r)
    BY <1>7 DEF DryAgain, r
  <2>2. ~k[i].wet
    BY <2>1, <1>1, <1>7 DEF DryAgain
  <2> QED
    BY <2>1, <2>2, <1>4
<1>8. CASE HasRoom(k, s, w)
  <2>1. /\ Append(k, r) \in Seq(Reports) /\ Len(Append(k, r)) = Len(k) + 1
        /\ Unique(Append(k, r)) /\ Entries(Append(k, r)) = Entries(k) \cup {r}
    BY <1>1, <1>8, AppendUnique DEF HasRoom, r
  <2>2. Wets(Entries(k)) \subseteq Wets(Entries(Append(k, r)))
    BY <2>1 DEF Wets
  <2>3. Len(k) + 1 <= KeptMax /\ Keep(k, s, w) = Append(k, r)
    BY <1>1, <1>8 DEF HasRoom, r
  <2> QED
    BY <2>1, <2>2, <2>3
<1>9. CASE InPlace(k, s, w)
  <2>1. PICK i \in 1..Len(k) : k[i] = Rep(s, FALSE) /\ Keep(k, s, w) = [k EXCEPT ![i] = r]
    BY <1>9 DEF InPlace, r
  <2>2. LET c == [k EXCEPT ![i] = r]
        IN c \in Seq(Reports) /\ Len(c) = Len(k) /\ Unique(c)
           /\ Entries(c) = (Entries(k) \ {k[i]}) \cup {r}
    <3>1. r \notin Entries(k)
      BY <1>9 DEF InPlace, r
    <3> QED
      BY <3>1, <1>1, ChangeUnique
  <2>3. Wets(Entries(k)) \subseteq Wets((Entries(k) \ {k[i]}) \cup {r})
    BY <2>1, <1>2, <1>3
  <2> QED
    BY <2>1, <2>2, <2>3
<1>10. CASE MakesRoom(k, s, w)
  <2>1. PICK i \in 1..Len(k) : ~k[i].wet /\ Keep(k, s, w) = Append(Drop(k, i), r)
    BY <1>10 DEF MakesRoom, r
  <2> QED
    BY <2>1, <1>4, <1>10 DEF MakesRoom, r
<1> QED
  BY <1>5, <1>6, <1>7, <1>8, <1>9, <1>10, KeepForms

(* Taking a source's report out, if it has one.                             *)
LEMMA WithoutOneShape ==
    ASSUME NEW k \in Seq(Reports), Unique(k), NEW s \in Sources
    PROVE  /\ WithoutOne(k, s) \in Seq(Reports)
           /\ Unique(WithoutOne(k, s))
           /\ Len(WithoutOne(k, s)) <= Len(k)
           /\ Wets(Entries(k)) \subseteq Wets(Entries(WithoutOne(k, s))) \cup {s}
<1>1. Len(k) \in Nat
  OBVIOUS
<1>2. CASE Own(k, s) = {}
  BY <1>1, <1>2 DEF WithoutOne
<1>3. CASE Own(k, s) # {}
  <2> DEFINE i == Newest(Own(k, s))
  <2>1. i \in Own(k, s)
    BY <1>1, <1>3, NewestIn DEF Own
  <2>2. i \in 1..Len(k) /\ k[i].src = s
    BY <2>1 DEF Own
  <2>3. WithoutOne(k, s) = Drop(k, i)
    BY <1>3 DEF WithoutOne
  <2> HIDE DEF i
  <2>4. Wets(Entries(k)) \subseteq Wets(Entries(k) \ {k[i]}) \cup {s}
    BY <2>2 DEF Wets, Rep
  <2>5. /\ Drop(k, i) \in Seq(Reports) /\ Len(Drop(k, i)) = Len(k) - 1
        /\ Unique(Drop(k, i)) /\ Entries(Drop(k, i)) = Entries(k) \ {k[i]}
    BY <2>2, DropEntries, DropUnique
  <2>6. Len(k) - 1 <= Len(k)
    BY <1>1
  <2> QED
    BY <2>3, <2>4, <2>5, <2>6
<1> QED
  BY <1>2, <1>3

-----------------------------------------------------------------------------
(* What the list ends with for a source: its newest entry, if it has one.   *)

LastWet(k, s) == \E i \in 1..Len(k) :
    k[i].src = s /\ k[i].wet /\ \A j \in 1..Len(k) : k[j].src = s => j <= i
NoneOf(k, s)  == \A i \in 1..Len(k) : k[i].src # s

(* A change of the list from k to l that leaves a source at least as wet.   *)
Ends(k, l, s) == (LastWet(k, s) => LastWet(l, s)) /\ (NoneOf(k, s) => NoneOf(l, s))

(* The state that the engine will reach, by positions.                      *)
LEMMA EndsWetIff ==
    ASSUME kept \in Seq(Reports), NEW s \in Sources
    PROVE  /\ EndsWet(s) <=> LastWet(kept, s) \/ (NoneOf(kept, s) /\ s \in active)
           /\ Own(kept, s) = {} <=> NoneOf(kept, s)
           /\ ~(LastWet(kept, s) /\ NoneOf(kept, s))
<1>1. Len(kept) \in Nat
  OBVIOUS
<1>2. \A i : i \in Own(kept, s) <=> i \in 1..Len(kept) /\ kept[i].src = s
  BY DEF Own
<1>3. Own(kept, s) = {} <=> NoneOf(kept, s)
  BY <1>2 DEF NoneOf
<1>4. ~(LastWet(kept, s) /\ NoneOf(kept, s))
  BY DEF LastWet, NoneOf
<1>5. CASE Own(kept, s) = {}
  BY <1>3, <1>4, <1>5 DEF EndsWet
<1>6. CASE Own(kept, s) # {}
  <2> DEFINE n == Newest(Own(kept, s))
  <2>1. n \in Own(kept, s) /\ \A j \in Own(kept, s) : j <= n
    BY <1>1, <1>2, <1>6, NewestIn
  <2>2. EndsWet(s) <=> kept[n].wet
    BY <1>6 DEF EndsWet
  <2> HIDE DEF n
  <2>3. kept[n].wet => LastWet(kept, s)
    BY <2>1, <1>2 DEF LastWet
  <2>4. ASSUME LastWet(kept, s) PROVE kept[n].wet
    <3>1. PICK i \in 1..Len(kept) : /\ kept[i].src = s /\ kept[i].wet
                                    /\ \A j \in 1..Len(kept) : kept[j].src = s => j <= i
      BY <2>4 DEF LastWet
    <3>2. i <= n /\ n <= i /\ n \in 1..Len(kept)
      BY <3>1, <2>1, <1>2
    <3>3. i = n
      BY <3>2, <1>1
    <3> QED
      BY <3>1, <3>3
  <2> QED
    BY <2>2, <2>3, <2>4, <1>3, <1>6
<1> QED
  BY <1>3, <1>4, <1>5, <1>6

(* To take out an entry that is not the source's wet one changes nothing.   *)
LEMMA DropEnds ==
    ASSUME NEW k \in Seq(Reports), NEW i \in 1..Len(k), NEW s, ~(k[i].src = s /\ k[i].wet)
    PROVE  Ends(k, Drop(k, i), s)
<1> DEFINE d == Drop(k, i)
           at(j) == IF j < i THEN j ELSE j + 1
<1>1. /\ Len(k) \in Nat /\ Len(d) = Len(k) - 1
      /\ \A j \in 1..Len(d) : d[j] = k[at(j)] /\ at(j) \in 1..Len(k)
  <2>1. Len(k) \in Nat
    OBVIOUS
  <2> QED
    BY <2>1, DropEntries
<1> HIDE DEF d
<1>2. NoneOf(k, s) => NoneOf(d, s)
  BY <1>1 DEF NoneOf
<1>3. ASSUME LastWet(k, s) PROVE LastWet(d, s)
  <2>1. PICK n \in 1..Len(k) : /\ k[n].src = s /\ k[n].wet
                               /\ \A j \in 1..Len(k) : k[j].src = s => j <= n
    BY <1>3 DEF LastWet
  <2>2. n # i
    BY <2>1
  <2> DEFINE m == IF n < i THEN n ELSE n - 1
  <2>3. m \in 1..Len(d) /\ at(m) = n
    BY <2>2, <1>1
  <2>4. d[m].src = s /\ d[m].wet
    BY <2>1, <2>3, <1>1
  <2>5. ASSUME NEW j \in 1..Len(d), d[j].src = s PROVE j <= m
    <3>1. k[at(j)].src = s /\ at(j) \in 1..Len(k)
      BY <2>5, <1>1
    <3>2. at(j) <= n
      BY <3>1, <2>1
    <3> QED
      BY <3>2, <2>2, <1>1
  <2> HIDE DEF m
  <2> QED
    BY <2>3, <2>4, <2>5 DEF LastWet
<1> QED
  BY <1>2, <1>3 DEF Ends, d

(* A report appended is its source's newest, and no other's.                *)
LEMMA AppendEnds ==
    ASSUME NEW k \in Seq(Reports), NEW r \in Reports
    PROVE  /\ \A s : s # r.src => Ends(k, Append(k, r), s)
           /\ r.wet => LastWet(Append(k, r), r.src)
<1> DEFINE a == Append(k, r)
<1>1. /\ Len(k) \in Nat /\ Len(a) = Len(k) + 1 /\ a[Len(k) + 1] = r
      /\ \A j \in 1..Len(k) : a[j] = k[j]
  OBVIOUS
<1> HIDE DEF a
<1>2. /\ \A j \in 1..Len(a) : j \in 1..Len(k) \/ j = Len(k) + 1
      /\ 1..Len(k) \subseteq 1..Len(a) /\ Len(k) + 1 \in 1..Len(a)
      /\ \A j \in 1..Len(a) : j <= Len(k) + 1
  BY <1>1
<1>3. ASSUME NEW s, s # r.src PROVE Ends(k, a, s)
  <2>1. \A j \in 1..Len(a) : a[j].src = s => j \in 1..Len(k) /\ a[j] = k[j]
    BY <1>1, <1>2, <1>3
  <2>2. NoneOf(k, s) => NoneOf(a, s)
    BY <2>1 DEF NoneOf
  <2>3. LastWet(k, s) => LastWet(a, s)
    <3> SUFFICES ASSUME NEW n \in 1..Len(k), k[n].src = s, k[n].wet,
                        \A j \in 1..Len(k) : k[j].src = s => j <= n
                 PROVE  LastWet(a, s)
      BY DEF LastWet
    <3>1. n \in 1..Len(a) /\ a[n].src = s /\ a[n].wet
      BY <1>1, <1>2
    <3>2. \A j \in 1..Len(a) : a[j].src = s => j <= n
      BY <2>1
    <3> QED
      BY <3>1, <3>2 DEF LastWet
  <2> QED
    BY <2>2, <2>3 DEF Ends
<1>4. r.wet => LastWet(a, r.src)
  <2> SUFFICES ASSUME r.wet PROVE LastWet(a, r.src)
    OBVIOUS
  <2>1. a[Len(k) + 1].src = r.src /\ a[Len(k) + 1].wet
    BY <1>1
  <2> QED
    BY <2>1, <1>2 DEF LastWet
<1> QED
  BY <1>3, <1>4 DEF a

(* A change in place concerns the source whose slot it is.                  *)
LEMMA ChangeEnds ==
    ASSUME NEW k \in Seq(Reports), NEW i \in 1..Len(k), NEW r \in Reports, k[i].src = r.src
    PROVE  \A s : s # r.src => Ends(k, [k EXCEPT ![i] = r], s)
<1> DEFINE c == [k EXCEPT ![i] = r]
<1>1. /\ Len(c) = Len(k) /\ c[i] = r /\ \A j \in 1..Len(k) : j # i => c[j] = k[j]
  OBVIOUS
<1> HIDE DEF c
<1>2. \A j \in 1..Len(k) : c[j].src = k[j].src
  BY <1>1
<1>3. ASSUME NEW s, s # r.src PROVE Ends(k, c, s)
  <2>1. \A j \in 1..Len(k) : k[j].src = s => c[j] = k[j]
    BY <1>1, <1>3
  <2> QED
    BY <2>1, <1>1, <1>2 DEF Ends, LastWet, NoneOf
<1> QED
  BY <1>3 DEF c

(* A list whose only reports of a source are wet ends wet for it.           *)
LEMMA OnlyWet ==
    ASSUME NEW k \in Seq(Reports), NEW s \in Sources,
           Rep(s, TRUE) \in Entries(k), Rep(s, FALSE) \notin Entries(k)
    PROVE  LastWet(k, s)
<1> DEFINE T == {i \in 1..Len(k) : k[i].src = s}
           n == Newest(T)
<1>1. Len(k) \in Nat /\ \A i \in 1..Len(k) : k[i] \in Reports
  OBVIOUS
<1>2. T # {}
  <2>1. PICK i \in 1..Len(k) : k[i] = Rep(s, TRUE)
    BY DEF Entries
  <2>2. k[i].src = s
    BY <2>1, RepFacts
  <2> QED
    BY <2>2
<1>3. n \in T /\ \A j \in T : j <= n
  BY <1>1, <1>2, NewestIn
<1>4. \A i \in T : k[i].wet
  <2> SUFFICES ASSUME NEW i \in T, ~k[i].wet PROVE FALSE
    OBVIOUS
  <2>1. k[i] = Rep(s, FALSE)
    BY <1>1, RepFacts
  <2> QED
    BY <2>1 DEF Entries
<1> HIDE DEF n
<1> QED
  BY <1>3, <1>4 DEF LastWet

(* The oldest report taken out was its source's newest, or was not.         *)
LEMMA TailEnds ==
    ASSUME NEW k \in Seq(Reports), k # <<>>
    PROVE  /\ \A s : s # Head(k).src => Ends(k, Tail(k), s)
           /\ LET s == Head(k).src
              IN LastWet(k, s) => \/ LastWet(Tail(k), s)
                                  \/ NoneOf(Tail(k), s) /\ Head(k).wet
           /\ ~NoneOf(k, Head(k).src)
<1> DEFINE t == Tail(k)
<1>1. /\ Len(k) \in Nat /\ Len(t) = Len(k) - 1 /\ 1 \in 1..Len(k) /\ Head(k) = k[1]
      /\ \A j \in 1..Len(t) : t[j] = k[j + 1] /\ j + 1 \in 1..Len(k)
      /\ \A j \in 1..Len(k) : j # 1 => j - 1 \in 1..Len(t) /\ t[j - 1] = k[j]
  OBVIOUS
<1> HIDE DEF t
<1>2. \A s : NoneOf(k, s) => NoneOf(t, s)
  BY <1>1 DEF NoneOf
<1>3. ASSUME NEW s, NEW n \in 1..Len(k), k[n].src = s, k[n].wet, n # 1,
             \A j \in 1..Len(k) : k[j].src = s => j <= n
      PROVE  LastWet(t, s)
  <2>1. n - 1 \in 1..Len(t) /\ t[n - 1].src = s /\ t[n - 1].wet
    BY <1>1, <1>3
  <2>2. ASSUME NEW j \in 1..Len(t), t[j].src = s PROVE j <= n - 1
    <3>1. j + 1 <= n
      BY <1>1, <1>3, <2>2
    <3> QED
      BY <3>1, <1>1
  <2> QED
    BY <2>1, <2>2 DEF LastWet
<1>4. ASSUME NEW s, s # Head(k).src PROVE Ends(k, t, s)
  <2>1. LastWet(k, s) => LastWet(t, s)
    <3> SUFFICES ASSUME NEW n \in 1..Len(k), k[n].src = s, k[n].wet,
                        \A j \in 1..Len(k) : k[j].src = s => j <= n
                 PROVE  LastWet(t, s)
      BY DEF LastWet
    <3>1. n # 1
      BY <1>1, <1>4
    <3> QED
      BY <3>1, <1>3
  <2> QED
    BY <2>1, <1>2 DEF Ends
<1>5. LET s == Head(k).src
      IN LastWet(k, s) => LastWet(t, s) \/ (NoneOf(t, s) /\ Head(k).wet)
  <2> DEFINE s == Head(k).src
  <2> SUFFICES ASSUME NEW n \in 1..Len(k), k[n].src = s, k[n].wet,
                      \A j \in 1..Len(k) : k[j].src = s => j <= n
               PROVE  LastWet(t, s) \/ (NoneOf(t, s) /\ Head(k).wet)
    BY DEF LastWet
  <2>1. CASE n # 1
    BY <2>1, <1>3
  <2>2. CASE n = 1
    <3>1. ASSUME NEW j \in 1..Len(t), t[j].src = s PROVE FALSE
      <4>1. j + 1 \in 1..Len(k) /\ k[j + 1].src = s
        BY <3>1, <1>1
      <4>2. j + 1 <= 1
        BY <4>1, <2>2
      <4> QED
        BY <4>2, <1>1
    <3> QED
      BY <3>1, <2>2, <1>1 DEF NoneOf
  <2> QED
    BY <2>1, <2>2
<1>6. ~NoneOf(k, Head(k).src)
  BY <1>1 DEF NoneOf
<1> QED
  BY <1>4, <1>5, <1>6 DEF t

(* keep_report() leaves every other source as wet as it was, and its own    *)
(* wet if the report is wet and kept; it is kept unless the list is full of *)
(* others' wet reports.                                                     *)
LEMMA KeepEnds ==
    ASSUME NEW k \in Seq(Reports), Unique(k), Len(k) <= KeptMax,
           NEW s \in Sources, NEW w \in BOOLEAN
    PROVE  /\ \A q \in Sources : q # s => Ends(k, Keep(k, s, w), q)
           /\ w => \/ LastWet(Keep(k, s, w), s)
                   \/ Len(k) = KeptMax /\ \A i \in 1..Len(k) : k[i].wet /\ k[i].src # s
<1> DEFINE r == Rep(s, w)
<1>1. /\ Len(k) \in Nat /\ r \in Reports /\ r.src = s /\ (r.wet <=> w)
      /\ \A v \in BOOLEAN : Rep(s, v).src = s /\ (Rep(s, v).wet <=> v)
  BY RepFacts
<1>2. \A q, l : Ends(l, l, q)
  BY DEF Ends
<1>3. \A q, l, m, n : Ends(l, m, q) /\ Ends(m, n, q) => Ends(l, n, q)
  BY DEF Ends
<1> HIDE DEF r
<1>4. ASSUME NEW i \in 1..Len(k), NEW q \in Sources, q # s, ~(k[i].src = q /\ k[i].wet)
      PROVE  Ends(k, Append(Drop(k, i), r), q)
  <2>1. Ends(k, Drop(k, i), q)
    BY <1>4, DropEnds
  <2>2. Drop(k, i) \in Seq(Reports)
    BY DropEntries
  <2>3. Ends(Drop(k, i), Append(Drop(k, i), r), q)
    BY <2>2, <1>1, <1>4, AppendEnds
  <2> QED
    BY <2>1, <2>3, <1>3
<1>5. ASSUME NEW l \in Seq(Reports), w PROVE LastWet(Append(l, r), s)
  BY <1>1, <1>5, AppendEnds
<1>6. CASE Repeat(k, s, w)
  <2>1. Keep(k, s, w) = k
    BY <1>6 DEF Repeat
  <2>2. PICK i \in 1..Len(k) : k[i] = r /\ \A j \in 1..Len(k) : k[j].src = s => j <= i
    BY <1>6 DEF Repeat, r
  <2>3. w => LastWet(k, s)
    BY <2>2, <1>1 DEF LastWet
  <2> QED
    BY <2>1, <2>3, <1>2
<1>7. CASE WetAgain(k, s, w)
  <2>1. PICK i \in 1..Len(k) : k[i] = Rep(s, FALSE) /\ Keep(k, s, w) = Drop(k, i)
    BY <1>7 DEF WetAgain
  <2>2. /\ Drop(k, i) \in Seq(Reports) /\ Entries(Drop(k, i)) = Entries(k) \ {Rep(s, FALSE)}
    BY <2>1, DropEntries, DropUnique
  <2>3. Rep(s, TRUE) \in Entries(Drop(k, i)) /\ Rep(s, FALSE) \notin Entries(Drop(k, i))
    <3>1. Rep(s, TRUE) # Rep(s, FALSE)
      BY DEF Rep
    <3> QED
      BY <3>1, <2>2, <1>7 DEF WetAgain
  <2>4. LastWet(Drop(k, i), s)
    BY <2>2, <2>3, OnlyWet
  <2>5. \A q \in Sources : q # s => Ends(k, Drop(k, i), q)
    BY <2>1, <1>1, DropEnds
  <2> QED
    BY <2>1, <2>4, <2>5
<1>8. CASE DryAgain(k, s, w)
  <2>1. PICK i \in 1..Len(k) : k[i] = r /\ Keep(k, s, w) = Append(Drop(k, i), r)
    BY <1>8 DEF DryAgain, r
  <2> QED
    BY <2>1, <1>1, <1>4, <1>8 DEF DryAgain
<1>9. CASE HasRoom(k, s, w)
  <2>1. Keep(k, s, w) = Append(k, r)
    BY <1>9 DEF HasRoom, r
  <2> QED
    BY <2>1, <1>1, <1>5, AppendEnds
<1>10. CASE InPlace(k, s, w)
  <2>1. PICK i \in 1..Len(k) : k[i] = Rep(s, FALSE) /\ Keep(k, s, w) = [k EXCEPT ![i] = r]
    BY <1>10 DEF InPlace, r
  <2> DEFINE c == [k EXCEPT ![i] = r]
  <2>2. r \notin Entries(k) /\ w
    BY <1>10 DEF InPlace, r
  <2>3. c \in Seq(Reports) /\ Entries(c) = (Entries(k) \ {Rep(s, FALSE)}) \cup {r}
    <3>1. c \in Seq(Reports) /\ Entries(c) = (Entries(k) \ {k[i]}) \cup {r}
      BY <2>2, <1>1, ChangeUnique
    <3> QED
      BY <3>1, <2>1
  <2>4. r = Rep(s, TRUE) /\ r # Rep(s, FALSE)
    BY <2>2, <1>1 DEF r, Rep
  <2>5. LastWet(c, s)
    <3> HIDE DEF c
    <3> QED
      BY <2>3, <2>4, OnlyWet
  <2>6. \A q : q # s => Ends(k, c, q)
    BY <2>1, <1>1, ChangeEnds
  <2> QED
    BY <2>1, <2>5, <2>6
<1>11. CASE MakesRoom(k, s, w)
  <2>1. PICK i \in 1..Len(k) : ~k[i].wet /\ Keep(k, s, w) = Append(Drop(k, i), r)
    BY <1>11 DEF MakesRoom, r
  <2>2. LastWet(Append(Drop(k, i), r), s)
    BY <1>5, <1>11, DropEntries DEF MakesRoom
  <2> QED
    BY <2>1, <2>2, <1>4
<1>12. CASE NoRoom(k, s, w)
  BY <1>2, <1>12 DEF NoRoom
<1> QED
  BY <1>6, <1>7, <1>8, <1>9, <1>10, <1>11, <1>12, KeepForms

(* A replaced valve's reports go, no other source's.                        *)
LEMMA WithoutProbeEnds ==
    ASSUME NEW k \in Seq(Reports), Unique(k)
    PROVE  \A q \in Sources : q # Probe => Ends(k, WithoutProbe(k), q)
<1>1. ASSUME NEW l \in Seq(Reports), NEW q \in Sources, q # Probe
      PROVE  Ends(l, WithoutOne(l, Probe), q)
  <2> DEFINE i == Newest(Own(l, Probe))
  <2>1. CASE Own(l, Probe) = {}
    BY <2>1 DEF WithoutOne, Ends
  <2>2. CASE Own(l, Probe) # {}
    <3>0. Len(l) \in Nat /\ Own(l, Probe) \subseteq 1..Len(l)
      BY DEF Own
    <3>1. i \in Own(l, Probe)
      BY <3>0, <2>2, NewestIn
    <3>2. i \in 1..Len(l) /\ l[i].src = Probe
      BY <3>1 DEF Own
    <3> QED
      BY <3>2, <2>2, <1>1, DropEnds DEF WithoutOne
  <2> QED
    BY <2>1, <2>2
<1>2. Probe \in Sources
  BY DEF Sources
<1>3. WithoutOne(k, Probe) \in Seq(Reports)
  BY <1>2, WithoutOneShape
<1>4. ASSUME NEW q \in Sources, q # Probe PROVE Ends(k, WithoutProbe(k), q)
  <2>1. Ends(k, WithoutOne(k, Probe), q)
    BY <1>1, <1>4
  <2>2. Ends(WithoutOne(k, Probe), WithoutProbe(k), q)
    BY <1>1, <1>3, <1>4 DEF WithoutProbe
  <2> QED
    BY <2>1, <2>2 DEF Ends
<1> QED
  BY <1>4

-----------------------------------------------------------------------------
(* A hold of the lock: each of its steps leaves a well-formed record.       *)

LockRec == [active : SUBSET Sources, latched : BOOLEAN, clearing : {"off", "running", "due"}]

(* track_leak_source(), the release and the late replacement keep the types of *)
(* what g_mutex guards.                                                     *)
LEMMA LockSteps ==
    ASSUME NEW e \in LockRec
    PROVE  /\ \A s \in Sources : Tracked(e, s) \in LockRec
           /\ \A s \in Sources : [Tracked(e, s) EXCEPT !.latched = TRUE] \in LockRec
           /\ \A S : Untracked(e, S) \in LockRec
           /\ Released(e) \in LockRec
           /\ Replaced(e) \in LockRec
<1>1. \A s \in Sources : Tracked(e, s) \in LockRec
  BY DEF Tracked, LockRec
<1>2. \A f \in LockRec : [f EXCEPT !.latched = TRUE] \in LockRec
  BY DEF LockRec
<1>3. \A S : Untracked(e, S) \in LockRec
  BY DEF Untracked, LockRec
<1>4. \A f \in LockRec : Released(f) \in LockRec
  BY DEF Released, LockRec
<1>5. Replaced(e) \in LockRec
  BY <1>3, <1>4 DEF Replaced
<1> QED
  BY <1>1, <1>2, <1>3, <1>4, <1>5

(* So does a hold that first pays for an owed valve purge.                  *)
LEMMA HeldOk ==
    ASSUME TypeOK
    PROVE  Now \in LockRec /\ Held \in LockRec
<1>1. Now \in LockRec
  BY DEF Now, LockRec, TypeOK
<1> QED
  BY <1>1, LockSteps DEF Held

(* What a hold leaves behind has its type.                                  *)
LockOk == /\ active \subseteq Sources /\ latched \in BOOLEAN
          /\ clearing \in {"off", "running", "due"} /\ purge \in BOOLEAN

(* What a hold leaves behind it is typed.                                   *)
LEMMA CommitOk ==
    ASSUME NEW e \in LockRec, Commit(e)
    PROVE  LockOk'
BY DEF Commit, LockRec, LockOk

(* evaluate_leak_locked() keeps the types of what it guards.                *)
LEMMA EvaluateOk ==
    ASSUME TypeOK, NEW s \in Sources, NEW w \in BOOLEAN, Evaluate(s, w)
    PROVE  LockOk' /\ slot' \in BOOLEAN
<1>1. Held \in LockRec
  BY HeldOk
<1>2. PICK e \in LockRec : Commit(e)
  <2>1. /\ Untracked(Held, {s}) \in LockRec
        /\ [Tracked(Held, s) EXCEPT !.latched = TRUE] \in LockRec
    BY <1>1, LockSteps
  <2> QED
    BY <1>1, <2>1 DEF Evaluate
<1>3. slot' \in BOOLEAN
  BY DEF Evaluate, TypeOK
<1> QED
  BY <1>2, <1>3, CommitOk

-----------------------------------------------------------------------------
(* The list in a step.                                                      *)

ListOk == kept \in Seq(Reports) /\ Unique(kept) /\ Len(kept) <= KeptMax

(* The inductive invariant: keep_report() keeps the list's shape only       *)
(* because a source never has two reports of one kind in it.                *)
IInv == TypeOK /\ KeptShape /\ WetIsKept

(* The inductive invariant, in terms of the list's entries.                 *)
LEMMA IInvParts ==
    ASSUME IInv
    PROVE  ListOk /\ TypeOK /\ hist.owed \subseteq Wets(Entries(kept))
BY WetInEntries DEF IInv, TypeOK, KeptShape, WetIsKept, ListOk, Unique

HistOk == hist \in [wet : SUBSET Sources, lost : SUBSET Sources, owed : SUBSET Sources]
OwedOk == hist.owed \subseteq Wets(Entries(kept))

(* To hear a report gives the history its type, and owes only what is kept. *)
LEMMA HeardOk ==
    ASSUME TypeOK, NEW s \in Sources, NEW w \in BOOLEAN, NEW k \in Seq(Reports)
    PROVE  /\ Heard(s, w, k) \in
                 [wet : SUBSET Sources, lost : SUBSET Sources, owed : SUBSET Sources]
           /\ Heard(s, w, k).owed \subseteq hist.owed \cup Wets(Entries(k))
           /\ k = <<>> => Heard(s, w, k).owed = hist.owed
<1>1. Heard(s, w, k) \in [wet : SUBSET Sources, lost : SUBSET Sources, owed : SUBSET Sources]
  BY DEF Heard, TypeOK
<1>2. Heard(s, w, k).owed = IF w /\ s \in WetIn(k) THEN hist.owed \cup {s} ELSE hist.owed
  BY DEF Heard, TypeOK
<1>3. WetIn(k) = Wets(Entries(k))
  BY WetInEntries
<1>4. k = <<>> => WetIn(k) = {}
  BY DEF WetIn
<1> QED
  BY <1>1, <1>2, <1>3, <1>4

(* The loop's own part of the state.                                        *)
RestOk == /\ lastSet \subseteq Sources /\ phase \in {"top", "tick", "retry", "event"}
          /\ tickRan \in {"no", "ran", "judged"} /\ slot \in BOOLEAN
          /\ members \subseteq Sources /\ change \in BOOLEAN /\ swapped \in BOOLEAN
          /\ held \in BOOLEAN /\ noise \in 0..MaxNoise

(* A step keeps the invariant if it keeps types, list and what is owed.     *)
LEMMA IInvFromParts ==
    ASSUME ListOk', LockOk', RestOk', HistOk', OwedOk'
    PROVE  IInv'
<1>1. TypeOK'
  BY DEF TypeOK, ListOk, LockOk, RestOk, HistOk
<1>2. KeptShape'
  BY DEF KeptShape, ListOk, Unique
<1>3. WetIsKept'
  BY WetInEntries DEF WetIsKept, ListOk, OwedOk
<1> QED
  BY <1>1, <1>2, <1>3 DEF IInv

(* What a step may assume of the state it leaves.                           *)
LEMMA PartsFromIInv ==
    ASSUME IInv
    PROVE  ListOk /\ LockOk /\ RestOk /\ HistOk /\ OwedOk
BY IInvParts DEF TypeOK, LockOk, RestOk, HistOk, OwedOk

-----------------------------------------------------------------------------
(* The actions that change the list.                                        *)

(* apply_device_set_change(): only a replaced valve's reports go, and what  *)
(* is owed of them.                                                         *)
LEMMA DeviceSetStep ==
    ASSUME IInv, DeviceSet
    PROVE  IInv'
<1>1. ListOk /\ LockOk /\ RestOk /\ HistOk /\ OwedOk /\ TypeOK
  BY PartsFromIInv DEF IInv
<1> DEFINE k1 == WithoutOne(kept, Probe)
           k2 == WithoutOne(k1, Probe)
<1>2. /\ k2 \in Seq(Reports) /\ Unique(k2) /\ Len(k2) <= KeptMax
      /\ Wets(Entries(kept)) \subseteq Wets(Entries(k2)) \cup {Probe}
  <2>1. Probe \in Sources
    BY DEF Sources
  <2>2. /\ k1 \in Seq(Reports) /\ Unique(k1) /\ Len(k1) <= Len(kept)
        /\ Wets(Entries(kept)) \subseteq Wets(Entries(k1)) \cup {Probe}
    BY <1>1, <2>1, WithoutOneShape DEF ListOk
  <2> HIDE DEF k1
  <2>3. /\ k2 \in Seq(Reports) /\ Unique(k2) /\ Len(k2) <= Len(k1)
        /\ Wets(Entries(k1)) \subseteq Wets(Entries(k2)) \cup {Probe}
    BY <2>1, <2>2, WithoutOneShape
  <2> HIDE DEF k2
  <2>4. Len(kept) \in Nat /\ Len(k1) \in Nat /\ Len(k2) \in Nat /\ Len(kept) <= KeptMax
    BY <1>1, <2>2, <2>3 DEF ListOk
  <2>5. Len(k2) <= KeptMax
    BY <2>2, <2>3, <2>4
  <2> QED
    BY <2>2, <2>3, <2>5
<1>3. \/ kept' = kept /\ hist' = hist
      \/ kept' = k2 /\ hist' = [hist EXCEPT !.owed = @ \ {Probe}]
  BY DEF DeviceSet, WithoutProbe
<1> HIDE DEF k1, k2
<1>4. ListOk' /\ HistOk' /\ OwedOk'
  <2>1. CASE kept' = kept /\ hist' = hist
    BY <2>1, <1>1 DEF ListOk, HistOk, OwedOk
  <2>2. CASE kept' = k2 /\ hist' = [hist EXCEPT !.owed = @ \ {Probe}]
    <3>1. HistOk' /\ hist'.owed = hist.owed \ {Probe}
      BY <2>2, <1>1 DEF HistOk
    <3>2. OwedOk'
      BY <3>1, <2>2, <1>1, <1>2 DEF OwedOk
    <3> QED
      BY <3>1, <3>2, <2>2, <1>2 DEF ListOk
  <2> QED
    BY <1>3, <2>1, <2>2
<1>5. LockOk'
  <2>1. Now \in LockRec /\ Held \in LockRec
    BY <1>1, HeldOk
  <2>2. Untracked(Held, active \ members) \in LockRec
    BY <2>1, LockSteps
  <2>3. Replaced(Untracked(Held, active \ members)) \in LockRec /\ Replaced(Now) \in LockRec
    BY <2>1, <2>2, LockSteps
  <2>4. \/ UNCHANGED <<active, latched, clearing>> /\ purge' \in BOOLEAN
        \/ \E e \in LockRec : Commit(e)
    BY <2>1, <2>2, <2>3, <1>1 DEF DeviceSet, LockOk, RestOk
  <2> QED
    BY <2>4, <1>1, CommitOk DEF LockOk
<1>6. RestOk'
  BY <1>1 DEF DeviceSet, RestOk
<1> QED
  BY <1>4, <1>5, <1>6, IInvFromParts

(* A retried report leaves the list and is owed no more.                    *)
LEMMA RetryStep ==
    ASSUME IInv, Retry
    PROVE  IInv'
<1>1. ListOk /\ LockOk /\ RestOk /\ HistOk /\ OwedOk /\ TypeOK
  BY PartsFromIInv DEF IInv
<1> DEFINE r == Head(kept)
<1>2. kept # <<>> /\ kept' = Tail(kept)
  BY DEF Retry
<1>3. /\ Tail(kept) \in Seq(Reports) /\ Len(Tail(kept)) = Len(kept) - 1
      /\ r \in Reports /\ Unique(Tail(kept)) /\ Entries(Tail(kept)) = Entries(kept) \ {r}
  BY <1>1, <1>2, TailUnique DEF ListOk
<1>4. ListOk'
  BY <1>1, <1>2, <1>3 DEF ListOk
<1>5. r.src \in Sources /\ r.wet \in BOOLEAN
  BY <1>3 DEF Reports
<1>6. LockOk' /\ RestOk'
  <2>1. CASE UNCHANGED <<tickRan, lockVars>>
    BY <2>1, <1>1 DEF Retry, lockVars, outVars, LockOk, RestOk
  <2>2. CASE tickRan' = "judged" /\ Evaluate(r.src, r.wet)
    <3>1. LockOk' /\ slot' \in BOOLEAN
      BY <2>2, <1>1, <1>5, EvaluateOk
    <3> QED
      BY <3>1, <2>2, <1>1 DEF Retry, outVars, RestOk
  <2> QED
    BY <2>1, <2>2 DEF Retry
<1>7. HistOk' /\ OwedOk'
  <2>1. CASE r.wet
    <3>1. HistOk' /\ hist'.owed = hist.owed \ {r.src}
      BY <2>1, <1>1, <1>5 DEF Retry, HistOk
    <3>2. Wets(Entries(kept)) \ {r.src} \subseteq Wets(Entries(kept) \ {r})
      BY <1>3, <1>5, RepFacts DEF Wets
    <3> QED
      BY <3>1, <3>2, <1>1, <1>2, <1>3 DEF OwedOk
  <2>2. CASE ~r.wet
    <3>1. hist' = hist
      BY <2>2 DEF Retry
    <3>2. Wets(Entries(kept)) \subseteq Wets(Entries(kept) \ {r})
      <4>1. ASSUME NEW q \in Sources PROVE r # Rep(q, TRUE)
        <5>1. Rep(q, TRUE).wet
          BY DEF Rep
        <5> QED
          BY <5>1, <2>2
      <4> QED
        BY <4>1 DEF Wets
    <3> QED
      BY <3>1, <3>2, <1>1, <1>2, <1>3 DEF OwedOk, HistOk
  <2> QED
    BY <2>1, <2>2
<1> QED
  BY <1>4, <1>6, <1>7, IInvFromParts

(* rules_engine_evaluate_leak(): judged, kept behind others, or kept because *)
(* g_mutex is busy.                                                         *)
LEMMA EvaluateLeakStep ==
    ASSUME IInv, NEW s \in Sources, NEW w \in BOOLEAN, EvaluateLeak(s, w)
    PROVE  IInv'
<1>1. ListOk /\ LockOk /\ RestOk /\ HistOk /\ OwedOk /\ TypeOK
  BY PartsFromIInv DEF IInv
<1> DEFINE k == Keep(kept, s, w)
<1>2. /\ k \in Seq(Reports) /\ Unique(k) /\ Len(k) <= KeptMax
      /\ Wets(Entries(kept)) \subseteq Wets(Entries(k))
  BY <1>1, KeepShape DEF ListOk
<1> HIDE DEF k
<1>3. kept' \in {kept, k}
  BY DEF EvaluateLeak, k
<1>4. ListOk'
  BY <1>1, <1>2, <1>3 DEF ListOk
<1>5. ASSUME NEW q \in {kept', <<>>}, hist' = Heard(s, w, q), UNCHANGED lockVars
      PROVE  IInv'
  <2>1. q \in Seq(Reports)
    <3>1. <<>> \in Seq(Reports)
      OBVIOUS
    <3>2. kept' \in Seq(Reports)
      BY <1>4 DEF ListOk
    <3> QED
      BY <3>1, <3>2, <1>5, Zenon
  <2>2. HistOk' /\ hist'.owed \subseteq hist.owed \cup Wets(Entries(kept'))
    BY <1>1, <1>5, <2>1, HeardOk DEF HistOk
  <2>3. OwedOk'
    BY <2>2, <1>1, <1>2, <1>3 DEF OwedOk
  <2>4. LockOk' /\ RestOk'
    BY <1>1, <1>5 DEF EvaluateLeak, lockVars, outVars, LockOk, RestOk
  <2> QED
    BY <2>2, <2>3, <2>4, <1>4, IInvFromParts
<1>6. CASE /\ Evaluate(s, w) /\ kept' = kept
           /\ hist' = [Heard(s, w, <<>>) EXCEPT
                         !.lost = IF w /\ (s \notin active' \/ Overtakes(s)) THEN @
                                                                          ELSE @ \ {s}]
  <2>1. /\ Heard(s, w, <<>>).owed = hist.owed
        /\ Heard(s, w, <<>>) \in
              [wet : SUBSET Sources, lost : SUBSET Sources, owed : SUBSET Sources]
    <3>1. <<>> \in Seq(Reports)
      OBVIOUS
    <3> QED
      BY <3>1, <1>1, HeardOk
  <2>2. HistOk' /\ hist'.owed = hist.owed
    BY <2>1, <1>6 DEF HistOk
  <2>3. LockOk' /\ slot' \in BOOLEAN
    BY <1>1, <1>6, EvaluateOk
  <2>4. RestOk'
    BY <2>3, <1>1 DEF EvaluateLeak, outVars, RestOk
  <2>5. OwedOk'
    BY <2>2, <1>1, <1>6 DEF OwedOk
  <2> QED
    BY <2>2, <2>3, <2>4, <2>5, <1>4, IInvFromParts
<1>7. \/ /\ hist' = Heard(s, w, kept') /\ UNCHANGED lockVars
      \/ /\ Evaluate(s, w) /\ kept' = kept
         /\ hist' = [Heard(s, w, <<>>) EXCEPT
                       !.lost = IF w /\ (s \notin active' \/ Overtakes(s)) THEN @
                                                                        ELSE @ \ {s}]
      \/ /\ hist' = Heard(s, w, <<>>) /\ UNCHANGED lockVars
  BY DEF EvaluateLeak
<1> QED
  BY <1>5, <1>6, <1>7

-----------------------------------------------------------------------------
(* The other actions leave the list, and what is owed of it, alone.         *)

(* A step that leaves the list and what is owed alone has only types to keep. *)
LEMMA OtherStep ==
    ASSUME IInv, kept' = kept, hist'.owed = hist.owed, LockOk', RestOk', HistOk'
    PROVE  IInv'
<1>1. ListOk /\ OwedOk
  BY PartsFromIInv
<1>2. ListOk' /\ OwedOk'
  BY <1>1 DEF ListOk, OwedOk
<1> QED
  BY <1>2, IInvFromParts

(* rules_engine_tick() does not touch the list.                             *)
LEMMA TickStep ==
    ASSUME IInv, Tick
    PROVE  IInv'
<1>1. LockOk /\ RestOk /\ HistOk /\ TypeOK
  BY PartsFromIInv DEF IInv
<1>2. Held \in LockRec /\ Released(Held) \in LockRec
  BY <1>1, HeldOk, LockSteps
<1>3. (UNCHANGED lockVars) \/ \E e \in LockRec : Commit(e)
  BY <1>2 DEF Tick
<1>4. LockOk'
  BY <1>1, <1>3, CommitOk DEF LockOk, lockVars
<1>5. RestOk' /\ HistOk' /\ kept' = kept /\ hist' = hist
  BY <1>1 DEF Tick, RestOk, HistOk, outVars, lockVars
<1> QED
  BY <1>4, <1>5, OtherStep

(* Nor do the end of a retry and a pass without a report.                   *)
LEMMA LoopStep ==
    ASSUME IInv, EndRetry \/ NoEvent
    PROVE  IInv'
<1>1. LockOk /\ RestOk /\ HistOk
  BY PartsFromIInv
<1>2. LockOk' /\ RestOk' /\ HistOk' /\ kept' = kept /\ hist' = hist
  BY <1>1 DEF EndRetry, NoEvent, LockOk, RestOk, HistOk, outVars, lockVars
<1> QED
  BY <1>2, OtherStep

(* The bound on outside events.                                             *)
LEMMA NoiseOk ==
    ASSUME noise \in 0..MaxNoise, Noise \/ noise' = noise
    PROVE  noise' \in 0..MaxNoise
BY DEF Noise

(* Nor does any other task: the list is the hub loop's own.                 *)
LEMMA OutsideStep ==
    ASSUME IInv, Hold \/ Give \/ CloudCommand \/ ClearDue \/ \E s \in Sources : DeviceChange(s)
    PROVE  IInv'
<1>1. LockOk /\ RestOk /\ HistOk /\ TypeOK /\ MaxNoise \in Nat
  BY PartsFromIInv DEF IInv
<1>2. CASE Hold \/ Give \/ ClearDue
  <2>1. noise' \in 0..MaxNoise
    BY <1>1, <1>2, NoiseOk DEF Hold, Give, ClearDue, outVars, RestOk
  <2>2. RestOk' /\ kept' = kept /\ hist' = hist
    BY <1>1, <1>2, <2>1 DEF Hold, Give, ClearDue, RestOk, outVars, lockVars, loopVars
  <2>3. LockOk' /\ HistOk'
    BY <1>1, <1>2 DEF Hold, Give, ClearDue, LockOk, HistOk, lockVars
  <2> QED
    BY <2>2, <2>3, OtherStep
<1>3. CASE CloudCommand
  <2>1. Held \in LockRec /\ Released(Held) \in LockRec
    BY <1>1, HeldOk, LockSteps
  <2>2. (UNCHANGED <<active, latched, clearing, purge>>) \/ \E e \in LockRec : Commit(e)
    BY <2>1, <1>3 DEF CloudCommand
  <2>3. LockOk'
    BY <1>1, <2>2, CommitOk DEF LockOk
  <2>4. noise' \in 0..MaxNoise /\ slot' \in BOOLEAN
    BY <1>1, <1>3, NoiseOk DEF CloudCommand, RestOk
  <2>5. RestOk' /\ HistOk' /\ kept' = kept /\ hist' = hist
    BY <1>1, <1>3, <2>4 DEF CloudCommand, RestOk, HistOk, loopVars
  <2> QED
    BY <2>3, <2>5, OtherStep
<1>4. ASSUME NEW s \in Sources, DeviceChange(s) PROVE IInv'
  <2>0. noise' \in 0..MaxNoise /\ members' \subseteq Sources
    BY <1>1, <1>4, NoiseOk DEF DeviceChange, RestOk
  <2>1. LockOk' /\ RestOk' /\ kept' = kept
    BY <1>1, <1>4, <2>0 DEF DeviceChange, LockOk, RestOk, loopVars, lockVars
  <2>2. HistOk' /\ hist'.owed = hist.owed
    BY <1>1, <1>4 DEF DeviceChange, HistOk
  <2> QED
    BY <2>1, <2>2, OtherStep
<1> QED
  BY <1>2, <1>3, <1>4

-----------------------------------------------------------------------------
(* A source whose newest report is wet ends wet.                            *)

(* The table never exceeds its size, and the 10 s run only while it is      *)
(* empty.                                                                   *)
Ledger(e) == /\ e.clearing # "off" => e.active = {}
             /\ IsFiniteSet(e.active) /\ Cardinality(e.active) <= MaxActive

(* What each step of a hold does to the table.                              *)
LEMMA LedgerSteps ==
    ASSUME NEW e \in LockRec, Ledger(e)
    PROVE  /\ \A S : Ledger(Untracked(e, S)) /\ Untracked(e, S).active = e.active \ S
           /\ Ledger(Released(e)) /\ Released(e).active = e.active
           /\ Ledger(Replaced(e)) /\ Replaced(e).active = e.active \ {Probe}
<1>1. ASSUME NEW f \in LockRec, Ledger(f), NEW S
      PROVE  Ledger(Untracked(f, S)) /\ Untracked(f, S).active = f.active \ S
  <2>1. /\ Untracked(f, S).active = f.active \ S
        /\ Untracked(f, S).clearing = f.clearing \/ f.active \subseteq S
    BY DEF Untracked, LockRec
  <2>2. /\ IsFiniteSet(f.active \ S) /\ Cardinality(f.active \ S) <= Cardinality(f.active)
        /\ Cardinality(f.active \ S) \in Nat /\ Cardinality(f.active) \in Nat
    <3>1. IsFiniteSet(f.active) /\ f.active \ S \subseteq f.active
      BY <1>1 DEF Ledger
    <3> QED
      BY <3>1, FS_Subset, FS_CardinalityType
  <2>3. Cardinality(f.active \ S) <= MaxActive
    BY <2>2, <1>1 DEF Ledger
  <2>4. Untracked(f, S).clearing # "off" => f.active \ S = {}
    BY <2>1, <1>1 DEF Ledger
  <2> QED
    BY <2>1, <2>2, <2>3, <2>4 DEF Ledger
<1>2. ASSUME NEW f \in LockRec, Ledger(f)
      PROVE  Ledger(Released(f)) /\ Released(f).active = f.active
  <2>1. Released(f).active = f.active /\ Released(f).clearing = "off"
    BY DEF Released, LockRec
  <2> QED
    BY <2>1, <1>2 DEF Ledger
<1>3. Ledger(Replaced(e)) /\ Replaced(e).active = e.active \ {Probe}
  <2> DEFINE d == Untracked(e, {Probe})
  <2>1. d \in LockRec /\ Ledger(d) /\ d.active = e.active \ {Probe}
    BY <1>1, LockSteps
  <2>2. Replaced(e) = IF d.active = {} /\ d.latched THEN Released(d) ELSE d
    BY DEF Replaced
  <2> HIDE DEF d
  <2> QED
    BY <2>1, <2>2, <1>2
<1> QED
  BY <1>1, <1>2, <1>3

(* A wet report of a member enters the table, unless that is full of others. *)
LEMMA TrackedLedger ==
    ASSUME NEW e \in LockRec, Ledger(e), NEW s \in Sources
    PROVE  LET f == [Tracked(e, s) EXCEPT !.latched = TRUE]
           IN /\ Ledger(f) /\ e.active \subseteq f.active
              /\ s \in f.active \/ (f.active = e.active /\ Cardinality(e.active) = MaxActive)
<1> DEFINE f == [Tracked(e, s) EXCEPT !.latched = TRUE]
<1>1. /\ f.active = IF Cardinality(e.active \cup {s}) <= MaxActive THEN e.active \cup {s}
                                                                 ELSE e.active
      /\ f.clearing = IF s \in e.active THEN e.clearing ELSE "off"
  BY DEF Tracked, LockRec
<1> HIDE DEF f
<1>2. f.clearing = "off"
  BY <1>1 DEF Ledger
<1>3. /\ IsFiniteSet(e.active) /\ IsFiniteSet(e.active \cup {s})
      /\ Cardinality(e.active) \in Nat /\ Cardinality(e.active) <= MaxActive
      /\ Cardinality(e.active \cup {s}) =
            IF s \in e.active THEN Cardinality(e.active) ELSE Cardinality(e.active) + 1
  BY FS_AddElement, FS_CardinalityType DEF Ledger
<1>4. CASE Cardinality(e.active \cup {s}) <= MaxActive
  <2>1. f.active = e.active \cup {s}
    BY <1>1, <1>4
  <2>2. Ledger(f)
    BY <2>1, <1>2, <1>3, <1>4 DEF Ledger
  <2>3. e.active \subseteq f.active /\ s \in f.active
    BY <2>1
  <2> QED
    BY <2>2, <2>3 DEF Ledger, f
<1>5. CASE ~(Cardinality(e.active \cup {s}) <= MaxActive)
  <2>1. Cardinality(e.active) = MaxActive
    BY <1>3, <1>5
  <2> QED
    BY <2>1, <1>1, <1>2, <1>3, <1>5 DEF Ledger, f
<1> QED
  BY <1>4, <1>5

(* A hold that pays for an owed purge untracks the probe, and only that.    *)
LEMMA HeldLedger ==
    ASSUME TypeOK, Ledger(Now)
    PROVE  /\ Ledger(Held)
           /\ Held.active = active \/ (purge /\ Held.active = active \ {Probe})
<1>1. Now \in LockRec /\ Now.active = active
  BY HeldOk DEF Now
<1>2. CASE purge
  BY <1>1, <1>2, LedgerSteps DEF Held
<1>3. CASE ~purge
  <2>1. Held = Now
    BY <1>3 DEF Held
  <2> QED
    BY <2>1, <1>1 DEF Ledger
<1> QED
  BY <1>2, <1>3

(* What is committed is the next state's table.                             *)
LEMMA CommitLedger ==
    ASSUME NEW e, Commit(e), Ledger(e)
    PROVE  Ledger(Now)' /\ active' = e.active /\ ~purge'
<1>1. active' = e.active /\ clearing' = e.clearing /\ purge' = FALSE
  BY DEF Commit
<1>2. Now'.active = active' /\ Now'.clearing = clearing'
  BY DEF Now
<1> QED
  BY <1>1, <1>2 DEF Ledger

(* evaluate_leak_locked() untracks no other source than the report's, and   *)
(* tracks a member's wet report unless the table is full.                   *)
LEMMA EvaluateTracks ==
    ASSUME TypeOK, Ledger(Now), NEW s \in Sources, NEW w \in BOOLEAN, Evaluate(s, w)
    PROVE  /\ Ledger(Now)' /\ ~purge'
           /\ \A q \in active : q = s \/ q \in active' \/ (q = Probe /\ purge)
           /\ w /\ s \notin active' =>
                 \/ s \notin lastSet \cap members
                 \/ s \notin active /\ Cardinality(active') = MaxActive
<1>1. Held \in LockRec /\ Ledger(Held) /\ active \subseteq Sources
  BY HeldOk, HeldLedger DEF TypeOK
<1>2. Held.active = active \/ (purge /\ Held.active = active \ {Probe})
  BY HeldLedger
<1>3. \/ ~w /\ Commit(Untracked(Held, {s}))
      \/ w /\ s \notin lastSet \cap members /\ Commit(Held)
      \/ w /\ Commit([Tracked(Held, s) EXCEPT !.latched = TRUE])
  BY DEF Evaluate
<1>4. CASE ~w /\ Commit(Untracked(Held, {s}))
  <2>1. Ledger(Now)' /\ active' = Held.active \ {s} /\ ~purge'
    BY <1>1, <1>4, LedgerSteps, CommitLedger
  <2> QED
    BY <2>1, <1>2, <1>4
<1>5. CASE w /\ s \notin lastSet \cap members /\ Commit(Held)
  <2>1. Ledger(Now)' /\ active' = Held.active /\ ~purge'
    BY <1>1, <1>5, CommitLedger
  <2> QED
    BY <2>1, <1>2, <1>5
<1>6. CASE w /\ Commit([Tracked(Held, s) EXCEPT !.latched = TRUE])
  <2> DEFINE f == [Tracked(Held, s) EXCEPT !.latched = TRUE]
  <2>1. /\ Ledger(f) /\ Held.active \subseteq f.active
        /\ s \in f.active \/ (f.active = Held.active /\ Cardinality(Held.active) = MaxActive)
    BY <1>1, TrackedLedger
  <2> HIDE DEF f
  <2>2. Ledger(Now)' /\ active' = f.active /\ ~purge'
    BY <2>1, <1>6, CommitLedger DEF f
  <2>3. ASSUME s \notin active'
        PROVE  s \notin active /\ Cardinality(active') = MaxActive
    <3>1. active' = Held.active /\ Cardinality(Held.active) = MaxActive
      BY <2>1, <2>2, <2>3
    <3>2. ASSUME s \in active PROVE FALSE
      <4>1. Held.active = active \ {s}
        BY <3>1, <3>2, <2>3, <1>2
      <4>2. IsFiniteSet(active) /\ Cardinality(active) <= MaxActive /\ Cardinality(active) \in Nat
        BY FS_CardinalityType DEF Ledger, Now
      <4>3. Cardinality(active \ {s}) = Cardinality(active) - 1
        BY <3>2, <4>2, FS_RemoveElement
      <4> QED
        BY <3>1, <4>1, <4>2, <4>3
    <3> QED
      BY <3>1, <3>2
  <2> QED
    BY <2>1, <2>2, <2>3, <1>2, <1>6
<1> QED
  BY <1>3, <1>4, <1>5, <1>6

(* A source the engine answers for: its newest report is wet, was not lost, *)
(* and it is still provisioned.                                             *)
Bound(s) == s \in members /\ s \in hist.wet /\ s \notin hist.lost

(* Such a source ends wet once the list is replayed.  If the loop has not   *)
(* read it into its copy yet it has nothing kept, or the retry would drop   *)
(* it; and a purge owed for the valve, which untracks the probe, is behind  *)
(* what the probe has kept.                                                 *)
Safe(s) == Bound(s) =>
    /\ LastWet(kept, s) \/ (NoneOf(kept, s) /\ s \in active)
    /\ s \notin lastSet => NoneOf(kept, s)
    /\ s = Probe /\ purge => ~NoneOf(kept, s)

FSInv == /\ \A s \in Sources : Safe(s)
         /\ swapped => Probe \notin hist.wet
         /\ Ledger(Now)

(* A step that leaves a source at least as wet, in the list and, where it   *)
(* counts, in the table.                                                    *)
Calm(s) == /\ Ends(kept, kept', s)
           /\ s \in active => s \in active' \/ (s = Probe /\ purge)
           /\ s \in lastSet /\ s \in members => s \in lastSet'
           /\ s = Probe /\ purge' => purge

(* Such a step leaves a safe source safe.                                   *)
LEMMA CalmSafe ==
    ASSUME NEW s \in Sources, Safe(s), Bound(s), Calm(s)
    PROVE  Safe(s)'
<1>1. ~(LastWet(kept', s) /\ NoneOf(kept', s))
  BY DEF LastWet, NoneOf
<1>2. s \in members
  BY DEF Bound
<1>3. LastWet(kept, s) => LastWet(kept', s)
  BY DEF Calm, Ends
<1>4. NoneOf(kept, s) => NoneOf(kept', s)
  BY DEF Calm, Ends
<1>5. LastWet(kept', s) \/ (NoneOf(kept', s) /\ s \in active')
  BY <1>3, <1>4 DEF Safe, Calm
<1>6. s \notin lastSet' => NoneOf(kept', s)
  BY <1>2, <1>4 DEF Safe, Calm
<1>7. s = Probe /\ purge' => ~NoneOf(kept', s)
  BY <1>1, <1>3 DEF Safe, Calm
<1> QED
  BY <1>5, <1>6, <1>7 DEF Safe

(* A step that leaves reports, devices and list alone, and of the table at  *)
(* most drops the probe for an owed purge.                                  *)
LEMMA QuietSafe ==
    ASSUME IInv, FSInv, UNCHANGED <<kept, lastSet, members, swapped, hist>>,
           UNCHANGED <<active, latched, clearing, purge>>
              \/ \E e \in {Held, Released(Held)} : Commit(e)
    PROVE  FSInv'
<1>1. TypeOK /\ Ledger(Now)
  BY DEF IInv, FSInv
<1>2. Held \in LockRec /\ Ledger(Held) /\ Ledger(Released(Held))
      /\ Released(Held).active = Held.active
  BY <1>1, HeldOk, HeldLedger, LedgerSteps
<1>3. /\ Ledger(Now)' /\ (purge' => purge)
      /\ \A s \in active : s \in active' \/ (s = Probe /\ purge)
  <2>1. CASE UNCHANGED <<active, latched, clearing, purge>>
    BY <2>1, <1>1 DEF Ledger, Now
  <2>2. ASSUME NEW e \in {Held, Released(Held)}, Commit(e)
        PROVE  /\ Ledger(Now)' /\ ~purge'
               /\ \A s \in active : s \in active' \/ (s = Probe /\ purge)
    <3>1. Ledger(e) /\ e.active = Held.active
      BY <2>2, <1>2, Zenon
    <3>2. Ledger(Now)' /\ active' = Held.active /\ ~purge'
      BY <3>1, <2>2, CommitLedger
    <3> QED
      BY <3>2, <1>1, HeldLedger
  <2> QED
    BY <2>1, <2>2
<1>4. ASSUME NEW s \in Sources PROVE Safe(s)'
  <2>1. CASE Bound(s)
    <3>1. Calm(s)
      BY <1>3 DEF Calm, Ends
    <3> QED
      BY <3>1, <2>1, CalmSafe DEF FSInv
  <2>2. CASE ~Bound(s)
    BY <2>2 DEF Safe, Bound
  <2> QED
    BY <2>1, <2>2
<1> QED
  BY <1>3, <1>4 DEF FSInv

(* The new device set unbinds who left it, and the old valve's reports are  *)
(* nobody's: those of the new valve come after.                             *)
LEMMA DeviceSetSafe ==
    ASSUME IInv, FSInv, DeviceSet
    PROVE  FSInv'
<1>1. TypeOK /\ Ledger(Now) /\ Unique(kept) /\ kept \in Seq(Reports)
  BY PartsFromIInv DEF IInv, FSInv, ListOk
<1> DEFINE swap == change /\ swapped
           out  == Untracked(Held, active \ members)
<1>2. /\ kept' = IF swap THEN WithoutProbe(kept) ELSE kept
      /\ members' = members /\ ~swapped'
      /\ lastSet' \in {lastSet, members}
      /\ hist'.wet = hist.wet /\ hist'.lost = hist.lost
  BY <1>1 DEF DeviceSet, TypeOK
<1>3. /\ Held \in LockRec /\ Ledger(Held) /\ Now \in LockRec /\ Now.active = active
      /\ Held.active = active \/ (purge /\ Held.active = active \ {Probe})
  BY <1>1, HeldOk, HeldLedger DEF Now
<1>4. out \in LockRec /\ Ledger(out) /\ out.active = Held.active \ (active \ members)
  BY <1>3, LedgerSteps, LockSteps
<1>5. \A f \in LockRec : Ledger(f) =>
         Ledger(Replaced(f)) /\ Replaced(f).active = f.active \ {Probe}
  BY LedgerSteps
<1>6. \/ UNCHANGED <<active, latched, clearing>> /\ (purge' => purge \/ swap)
      \/ swap /\ \E f \in {out, Now} : Commit(Replaced(f))
      \/ Commit(out)
  BY DEF DeviceSet
<1> HIDE DEF out, swap
<1>7. /\ Ledger(Now)' /\ (purge' => purge \/ swap)
      /\ \A s \in active \cap members : s \in active' \/ (s = Probe /\ (purge \/ swap))
  <2>1. CASE UNCHANGED <<active, latched, clearing>> /\ (purge' => purge \/ swap)
    BY <2>1, <1>1 DEF Ledger, Now
  <2>2. ASSUME swap, NEW f \in {out, Now}, Commit(Replaced(f))
        PROVE  /\ Ledger(Now)' /\ ~purge'
               /\ \A s \in active \cap members : s \in active' \/ (s = Probe /\ (purge \/ swap))
    <3>1. f \in LockRec /\ Ledger(f)
      BY <1>1, <1>3, <1>4, <2>2, Zenon
    <3>2. Ledger(Now)' /\ active' = f.active \ {Probe} /\ ~purge'
      BY <3>1, <1>5, <2>2, CommitLedger
    <3>3. f.active = active \/ f.active = Held.active \ (active \ members)
      BY <1>3, <1>4, <2>2
    <3> QED
      BY <3>2, <3>3, <1>3, <2>2
  <2>3. CASE Commit(out)
    <3>1. Ledger(Now)' /\ active' = Held.active \ (active \ members) /\ ~purge'
      BY <1>4, <2>3, CommitLedger
    <3> QED
      BY <3>1, <1>3
  <2> QED
    BY <1>6, <2>1, <2>2, <2>3
<1>8. ASSUME NEW s \in Sources PROVE Safe(s)'
  <2>1. Bound(s)' <=> Bound(s)
    BY <1>2 DEF Bound
  <2>2. CASE Bound(s)
    <3>1. s = Probe => ~swap
      BY <2>2 DEF FSInv, Bound, swap
    <3>2. Ends(kept, kept', s)
      <4>1. CASE swap
        BY <4>1, <3>1, <1>1, <1>2, WithoutProbeEnds
      <4>2. CASE ~swap
        BY <4>2, <1>2 DEF Ends
      <4> QED
        BY <4>1, <4>2
    <3>3. Calm(s)
      BY <3>1, <3>2, <2>2, <1>2, <1>7 DEF Calm, Bound
    <3> QED
      BY <3>3, <2>2, CalmSafe DEF FSInv
  <2>3. CASE ~Bound(s)
    BY <2>1, <2>3 DEF Safe
  <2> QED
    BY <2>2, <2>3
<1> QED
  BY <1>2, <1>7, <1>8 DEF FSInv

(* A retry judges the oldest report: its source ends as the rest of the     *)
(* list says, or, if that was all of it, as it was judged.                  *)
LEMMA RetrySafe ==
    ASSUME IInv, FSInv, Retry
    PROVE  FSInv'
<1> DEFINE r == Head(kept)
<1>1. TypeOK /\ Ledger(Now) /\ Unique(kept) /\ kept \in Seq(Reports) /\ kept # <<>>
  BY PartsFromIInv DEF IInv, FSInv, ListOk, Retry
<1>2. r \in Reports /\ r.src \in Sources /\ r.wet \in BOOLEAN
  <2>1. r \in Reports
    BY <1>1, TailUnique
  <2> QED
    BY <2>1 DEF Reports
<1>3. /\ kept' = Tail(kept) /\ UNCHANGED <<lastSet, members, swapped>>
      /\ hist'.wet = hist.wet
      /\ hist'.lost = IF r.wet /\ r.src \notin active' THEN hist.lost \cup {r.src} ELSE hist.lost
  BY <1>1 DEF Retry, TypeOK, outVars
<1>4. \/ r.src \notin lastSet /\ UNCHANGED lockVars
      \/ r.src \in lastSet /\ Evaluate(r.src, r.wet)
  BY DEF Retry
<1>5. /\ \A s : s # r.src => Ends(kept, kept', s)
      /\ LastWet(kept, r.src) => LastWet(kept', r.src) \/ (NoneOf(kept', r.src) /\ r.wet)
      /\ ~NoneOf(kept, r.src)
  BY <1>1, <1>3, TailEnds
<1> HIDE DEF r
<1>6. /\ Ledger(Now)' /\ (purge' => purge /\ r.src \notin lastSet)
      /\ \A s \in active : s = r.src \/ s \in active' \/ (s = Probe /\ purge)
  <2>1. CASE r.src \notin lastSet /\ UNCHANGED lockVars
    BY <2>1, <1>1 DEF lockVars, Ledger, Now
  <2>2. CASE r.src \in lastSet /\ Evaluate(r.src, r.wet)
    BY <2>2, <1>1, <1>2, EvaluateTracks
  <2> QED
    BY <1>4, <2>1, <2>2
<1>7. ASSUME NEW s \in Sources, s # r.src PROVE Safe(s)'
  <2>1. Bound(s)' <=> Bound(s)
    BY <1>3, <1>7 DEF Bound
  <2>2. CASE Bound(s)
    <3>1. Calm(s)
      BY <1>3, <1>5, <1>6, <1>7 DEF Calm
    <3> QED
      BY <3>1, <2>2, CalmSafe DEF FSInv
  <2>3. CASE ~Bound(s)
    BY <2>1, <2>3 DEF Safe
  <2> QED
    BY <2>2, <2>3
<1>8. ASSUME NEW s \in Sources, s = r.src PROVE Safe(s)'
  <2> SUFFICES ASSUME Bound(s)'
               PROVE  /\ LastWet(kept', s) \/ (NoneOf(kept', s) /\ s \in active')
                      /\ s \in lastSet' /\ ~purge'
    BY DEF Safe
  <2>1. Bound(s) /\ (r.wet => s \in active')
    BY <1>3, <1>8 DEF Bound
  <2>2. LastWet(kept, s) /\ s \in lastSet
    BY <2>1, <1>5, <1>8 DEF FSInv, Safe
  <2>3. LastWet(kept', s) \/ (NoneOf(kept', s) /\ s \in active')
    BY <2>1, <2>2, <1>5, <1>8
  <2>4. s \in lastSet' /\ ~purge'
    BY <2>2, <1>3, <1>6, <1>8
  <2> QED
    BY <2>3, <2>4
<1>9. swapped' => Probe \notin hist'.wet
  BY <1>3 DEF FSInv
<1> QED
  BY <1>6, <1>7, <1>8, <1>9 DEF FSInv

(* What the history says of the source heard, and of the others.            *)
LEMMA HeardFacts ==
    ASSUME TypeOK, NEW s \in Sources, NEW w \in BOOLEAN, NEW k \in Seq(Reports)
    PROVE  /\ Heard(s, w, k).wet = IF w THEN hist.wet \cup {s} ELSE hist.wet \ {s}
           /\ Heard(s, w, k).lost = IF w /\ s \notin WetIn(k) THEN hist.lost \cup {s}
                                                              ELSE hist.lost \ {s}
           /\ Heard(s, w, k) \in
                 [wet : SUBSET Sources, lost : SUBSET Sources, owed : SUBSET Sources]
<1>1. hist \in [wet : SUBSET Sources, lost : SUBSET Sources, owed : SUBSET Sources]
  BY DEF TypeOK
<1>2. Heard(s, w, k) \in [wet : SUBSET Sources, lost : SUBSET Sources, owed : SUBSET Sources]
  BY HeardOk
<1>3. /\ Heard(s, w, k).wet = IF w THEN hist.wet \cup {s} ELSE hist.wet \ {s}
      /\ Heard(s, w, k).lost = IF w /\ s \notin WetIn(k) THEN hist.lost \cup {s}
                                                         ELSE hist.lost \ {s}
  BY <1>1 DEF Heard
<1> QED
  BY <1>2, <1>3

(* A report is kept, is judged at once, or goes by while g_mutex is busy.   *)
Keeps(s, w)  == /\ s \in lastSet /\ UNCHANGED lockVars
                /\ kept' = Keep(kept, s, w)
                /\ w => (s \in hist'.lost <=> s \notin WetIn(Keep(kept, s, w)))
Judges(s, w) == /\ Evaluate(s, w) /\ kept' = kept
                /\ s \in lastSet => Own(kept, s) = {}
                /\ w /\ s \notin hist'.lost => s \in active' /\ Own(kept, s) = {}
                /\ w /\ s \in hist'.lost => s \notin active' \/ s \notin lastSet
Misses(s, w) == /\ UNCHANGED lockVars /\ kept' = kept
                /\ w => s \in hist'.lost /\ s \notin lastSet

(* What a report does to the history, however it is handled.                *)
LEMMA EvaluateLeakCases ==
    ASSUME IInv, NEW s \in Sources, NEW w \in BOOLEAN, EvaluateLeak(s, w)
    PROVE  /\ UNCHANGED <<lastSet, members, swapped>>
           /\ hist'.wet = IF w THEN hist.wet \cup {s} ELSE hist.wet \ {s}
           /\ \A q \in Sources : q # s => (q \in hist'.lost <=> q \in hist.lost)
           /\ ~w => s \notin hist'.lost
           /\ Keeps(s, w) \/ Judges(s, w) \/ Misses(s, w)
<1>1. TypeOK /\ kept \in Seq(Reports) /\ Unique(kept) /\ Len(kept) <= KeptMax
  BY PartsFromIInv DEF IInv, ListOk
<1>2. Keep(kept, s, w) \in Seq(Reports) /\ <<>> \in Seq(Reports)
  <2>1. <<>> \in Seq(Reports)
    OBVIOUS
  <2> QED
    BY <2>1, <1>1, KeepShape
<1>3. WetIn(<<>>) = {}
  BY DEF WetIn
<1>4. kept = <<>> => Own(kept, s) = {}
  BY DEF Own
<1>5. UNCHANGED <<lastSet, members, swapped>>
  BY DEF EvaluateLeak, outVars
<1> DEFINE L(k) == IF w /\ s \notin WetIn(k) THEN hist.lost \cup {s} ELSE hist.lost \ {s}
<1>6. \A k \in Seq(Reports) : /\ Heard(s, w, k).wet = IF w THEN hist.wet \cup {s} ELSE hist.wet \ {s}
                              /\ Heard(s, w, k).lost = L(k)
  BY <1>1, HeardFacts
<1>7. CASE /\ s \in lastSet /\ UNCHANGED lockVars /\ kept' = Keep(kept, s, w)
           /\ hist' = Heard(s, w, Keep(kept, s, w))
  <2>1. /\ hist'.wet = IF w THEN hist.wet \cup {s} ELSE hist.wet \ {s}
        /\ hist'.lost = L(Keep(kept, s, w))
    BY <1>2, <1>6, <1>7
  <2>2. /\ \A q \in Sources : q # s => (q \in hist'.lost <=> q \in hist.lost)
        /\ w => (s \in hist'.lost <=> s \notin WetIn(Keep(kept, s, w)))
        /\ ~w => s \notin hist'.lost
    BY <2>1
  <2> QED
    BY <2>1, <2>2, <1>5, <1>7 DEF Keeps
<1>8. CASE /\ ~KeepFirst(s, w) /\ Evaluate(s, w) /\ kept' = kept
           /\ hist' = [Heard(s, w, <<>>) EXCEPT
                         !.lost = IF w /\ (s \notin active' \/ Overtakes(s)) THEN @
                                                                          ELSE @ \ {s}]
  <2>1. Heard(s, w, <<>>) \in [wet : SUBSET Sources, lost : SUBSET Sources, owed : SUBSET Sources]
    BY <1>1, <1>2, HeardFacts
  <2>2. /\ hist'.wet = IF w THEN hist.wet \cup {s} ELSE hist.wet \ {s}
        /\ hist'.lost = IF w /\ (s \notin active' \/ Overtakes(s)) THEN L(<<>>)
                                                                ELSE L(<<>>) \ {s}
    BY <2>1, <1>2, <1>6, <1>8
  <2>3. /\ \A q \in Sources : q # s => (q \in hist'.lost <=> q \in hist.lost)
        /\ ~w => s \notin hist'.lost
    BY <2>2
  <2>4. s \in lastSet => Own(kept, s) = {}
    BY <1>4, <1>8 DEF KeepFirst
  <2>5. w /\ s \notin hist'.lost => s \in active' /\ Own(kept, s) = {}
    BY <2>2, <2>4, <1>3 DEF Overtakes
  <2>6. w /\ s \in hist'.lost => s \notin active' \/ s \notin lastSet
    BY <2>2 DEF Overtakes
  <2>7. Judges(s, w)
    BY <2>4, <2>5, <2>6, <1>8 DEF Judges
  <2> QED
    BY <2>2, <2>3, <2>7, <1>5
<1>9. CASE /\ UNCHANGED lockVars /\ kept' = kept
           /\ \/ s \notin lastSet /\ hist' = Heard(s, w, <<>>)
              \/ s \in lastSet /\ ~w /\ hist' = Heard(s, w, kept)
  <2>1. /\ hist'.wet = IF w THEN hist.wet \cup {s} ELSE hist.wet \ {s}
        /\ hist'.lost = L(<<>>) \/ (hist'.lost = L(kept) /\ ~w)
        /\ w => hist'.lost = L(<<>>) /\ s \notin lastSet
    BY <1>1, <1>2, <1>6, <1>9
  <2>2. /\ \A q \in Sources : q # s => (q \in hist'.lost <=> q \in hist.lost)
        /\ w => s \in hist'.lost /\ s \notin lastSet
        /\ ~w => s \notin hist'.lost
    BY <2>1, <1>3
  <2> QED
    BY <2>1, <2>2, <1>5, <1>9 DEF Misses
<1>10. w => KeepAlways(s, w)
  BY DEF KeepAlways
<1>11. \/ /\ s \in lastSet /\ UNCHANGED lockVars /\ kept' = Keep(kept, s, w)
          /\ hist' = Heard(s, w, Keep(kept, s, w))
       \/ /\ ~KeepFirst(s, w) /\ Evaluate(s, w) /\ kept' = kept
          /\ hist' = [Heard(s, w, <<>>) EXCEPT
                        !.lost = IF w /\ (s \notin active' \/ Overtakes(s)) THEN @
                                                                         ELSE @ \ {s}]
       \/ /\ UNCHANGED lockVars /\ kept' = kept
          /\ \/ s \notin lastSet /\ hist' = Heard(s, w, <<>>)
             \/ s \in lastSet /\ ~w /\ hist' = Heard(s, w, kept)
  <2>1. CASE KeepFirst(s, w) /\ kept' = Keep(kept, s, w)
             /\ hist' = Heard(s, w, Keep(kept, s, w)) /\ UNCHANGED lockVars
    BY <2>1 DEF KeepFirst
  <2>2. CASE /\ kept' = IF s \in lastSet /\ (KeepAlways(s, w) \/ Own(kept, s) # {})
                          THEN Keep(kept, s, w) ELSE kept
             /\ hist' = Heard(s, w, IF s \in lastSet THEN kept' ELSE <<>>)
             /\ UNCHANGED lockVars
    BY <2>2, <1>10
  <2> QED
    BY <2>1, <2>2 DEF EvaluateLeak
<1> QED
  BY <1>7, <1>8, <1>9, <1>11

(* A report heard settles its own source: kept it is the newest, judged     *)
(* nothing is kept, and otherwise it is lost.  The others stay as they are. *)
LEMMA EvaluateLeakSafe ==
    ASSUME IInv, FSInv, NEW s \in Sources, NEW w \in BOOLEAN, EvaluateLeak(s, w)
    PROVE  FSInv'
<1>1. /\ TypeOK /\ Ledger(Now)
      /\ kept \in Seq(Reports) /\ Unique(kept) /\ Len(kept) <= KeptMax
  BY PartsFromIInv DEF IInv, FSInv, ListOk
<1> DEFINE k == Keep(kept, s, w)
<1>2. /\ k \in Seq(Reports)
      /\ \A q \in Sources : q # s => Ends(kept, k, q)
      /\ w => LastWet(k, s) \/ s \notin WetIn(k)
  <2>1. k \in Seq(Reports) /\ \A q \in Sources : q # s => Ends(kept, k, q)
    BY <1>1, KeepShape, KeepEnds
  <2>2. ASSUME w, ~LastWet(k, s) PROVE s \notin WetIn(k)
    <3>1. Len(kept) = KeptMax /\ \A i \in 1..Len(kept) : kept[i].wet /\ kept[i].src # s
      BY <1>1, <2>2, KeepEnds
    <3>2. k = kept
      <4>1. Own(kept, s) = {} /\ DryOnes(kept, Sources) = {} /\ ~(Len(kept) < KeptMax)
        BY <3>1 DEF Own, DryOnes
      <4>2. ~Same(kept, s, w) /\ ~Pair(kept, s)
        BY <4>1 DEF Same, Pair
      <4> QED
        BY <4>1, <4>2 DEF Keep
    <3> QED
      BY <3>1, <3>2 DEF WetIn
  <2> QED
    BY <2>1, <2>2
<1> HIDE DEF k
<1>3. /\ UNCHANGED <<lastSet, members, swapped>>
      /\ hist'.wet = IF w THEN hist.wet \cup {s} ELSE hist.wet \ {s}
      /\ \A q \in Sources : q # s => (q \in hist'.lost <=> q \in hist.lost)
  BY EvaluateLeakCases
<1>4. Keeps(s, w) \/ Judges(s, w) \/ Misses(s, w)
  BY EvaluateLeakCases DEF Keeps, Judges, Misses
<1>5. /\ Ledger(Now)' /\ (purge' => purge)
      /\ \A q \in active : q = s \/ q \in active' \/ (q = Probe /\ purge)
  <2>1. CASE UNCHANGED lockVars
    BY <2>1, <1>1 DEF lockVars, Ledger, Now
  <2>2. CASE Evaluate(s, w)
    BY <2>2, <1>1, EvaluateTracks
  <2> QED
    BY <1>4, <2>1, <2>2 DEF Keeps, Judges, Misses
<1>6. ASSUME NEW q \in Sources, q # s PROVE Safe(q)'
  <2>1. Bound(q)' <=> Bound(q)
    BY <1>3, <1>6 DEF Bound
  <2>2. CASE Bound(q)
    <3>1. Ends(kept, kept', q)
      BY <1>2, <1>4, <1>6 DEF Ends, Keeps, Judges, Misses, k
    <3>2. Calm(q)
      BY <3>1, <1>3, <1>5, <1>6 DEF Calm
    <3> QED
      BY <3>2, <2>2, CalmSafe DEF FSInv
  <2>3. CASE ~Bound(q)
    BY <2>1, <2>3 DEF Safe
  <2> QED
    BY <2>2, <2>3
<1>7. Safe(s)'
  <2> SUFFICES ASSUME Bound(s)'
               PROVE  /\ LastWet(kept', s) \/ (NoneOf(kept', s) /\ s \in active')
                      /\ s \notin lastSet' => NoneOf(kept', s)
                      /\ s = Probe /\ purge' => ~NoneOf(kept', s)
    BY DEF Safe
  <2>1. w /\ s \notin hist'.lost
    BY <1>3 DEF Bound
  <2>2. CASE s \in lastSet /\ kept' = k /\ s \in WetIn(k)
    <3>1. LastWet(kept', s)
      BY <2>1, <2>2, <1>2
    <3>2. ~NoneOf(kept', s)
      BY <3>1 DEF LastWet, NoneOf
    <3> QED
      BY <3>1, <3>2, <2>2, <1>3
  <2>3. CASE /\ Evaluate(s, w) /\ kept' = kept
             /\ s \in active' /\ Own(kept, s) = {}
    <3>1. NoneOf(kept', s)
      BY <2>3, <1>1, EndsWetIff
    <3>2. ~purge'
      BY <2>3, <1>1, EvaluateTracks
    <3> QED
      BY <3>1, <3>2, <2>3
  <2> QED
    BY <2>1, <2>2, <2>3, <1>4 DEF Keeps, Judges, Misses, k
<1>8. swapped' => Probe \notin hist'.wet
  <2>1. s = Probe => ~swapped
    BY DEF EvaluateLeak
  <2> QED
    BY <2>1, <1>3 DEF FSInv
<1> QED
  BY <1>5, <1>6, <1>7, <1>8 DEF FSInv

(* A device that joins or leaves has said nothing yet.                      *)
LEMMA DeviceChangeSafe ==
    ASSUME IInv, FSInv, NEW s \in Sources, DeviceChange(s)
    PROVE  FSInv'
<1>1. TypeOK /\ Ledger(Now)
  BY DEF IInv, FSInv
<1>2. /\ UNCHANGED <<kept, lastSet, active, latched, clearing, purge>>
      /\ hist'.wet = hist.wet \ {s} /\ hist'.lost = hist.lost \ {s}
      /\ \A q \in Sources : q # s => (q \in members' <=> q \in members)
      /\ swapped' => swapped \/ s = Probe
  BY <1>1 DEF DeviceChange, TypeOK, loopVars, lockVars
<1>3. Ledger(Now)'
  BY <1>1, <1>2 DEF Ledger, Now
<1>4. ASSUME NEW q \in Sources PROVE Safe(q)'
  <2>1. Bound(q)' => q # s /\ Bound(q)
    BY <1>2 DEF Bound
  <2>2. CASE q # s /\ Bound(q)
    <3>1. Calm(q)
      BY <1>2 DEF Calm, Ends
    <3> QED
      BY <3>1, <2>2, CalmSafe DEF FSInv
  <2>3. CASE ~(q # s /\ Bound(q))
    BY <2>1, <2>3 DEF Safe
  <2> QED
    BY <2>2, <2>3
<1>5. swapped' => Probe \notin hist'.wet
  BY <1>2 DEF FSInv
<1> QED
  BY <1>3, <1>4, <1>5 DEF FSInv

(* At boot no source has reported.                                          *)
LEMMA InitSafe == Init => FSInv
<1> SUFFICES ASSUME Init PROVE FSInv
  OBVIOUS
<1>1. \A s \in Sources : Safe(s)
  BY DEF Init, Safe, Bound
<1>2. Ledger(Now)
  <2>1. Now.active = {} /\ Now.clearing = "off"
    BY DEF Init, Now
  <2> QED
    BY <2>1, FS_EmptySet DEF Ledger
<1> QED
  BY <1>1, <1>2 DEF Init, FSInv

(* Every step keeps it.                                                     *)
LEMMA NextSafe == IInv /\ FSInv /\ [Next]_vars => FSInv'
<1> SUFFICES ASSUME IInv, FSInv, [Next]_vars PROVE FSInv'
  OBVIOUS
<1>1. CASE DeviceSet
  BY <1>1, DeviceSetSafe
<1>2. CASE Retry
  BY <1>2, RetrySafe
<1>3. CASE \E s \in Sources, w \in BOOLEAN : EvaluateLeak(s, w)
  BY <1>3, EvaluateLeakSafe
<1>4. CASE \E s \in Sources : DeviceChange(s)
  BY <1>4, DeviceChangeSafe
<1>5. CASE ClearDue
  <2>1. /\ UNCHANGED <<kept, lastSet, members, swapped, hist, active, purge>>
        /\ clearing = "running" /\ clearing' = "due"
    BY <1>5 DEF ClearDue, outVars, loopVars
  <2>2. Ledger(Now)'
    BY <2>1 DEF FSInv, Ledger, Now
  <2>3. \A s \in Sources : Safe(s)'
    BY <2>1 DEF FSInv, Safe, Bound
  <2> QED
    BY <2>1, <2>2, <2>3 DEF FSInv
<1>6. CASE Tick \/ EndRetry \/ NoEvent \/ Hold \/ Give \/ CloudCommand \/ UNCHANGED vars
  <2>1. UNCHANGED <<kept, lastSet, members, swapped, hist>>
    BY <1>6 DEF Tick, EndRetry, NoEvent, Hold, Give, CloudCommand, vars, outVars, loopVars
  <2>2. \/ UNCHANGED <<active, latched, clearing, purge>>
        \/ \E e \in {Held, Released(Held)} : Commit(e)
    BY <1>6 DEF Tick, EndRetry, NoEvent, Hold, Give, CloudCommand, vars, lockVars
  <2> QED
    BY <2>1, <2>2, QuietSafe
<1> QED
  BY <1>1, <1>2, <1>3, <1>4, <1>5, <1>6 DEF Next, HubLoop

-----------------------------------------------------------------------------
(* Theorems.                                                                *)

(* At boot nothing is kept and nothing owed.                                *)
LEMMA InitIInv == Init => IInv
<1> SUFFICES ASSUME Init PROVE IInv
  OBVIOUS
<1>1. TypeOK
  <2>1. kept \in Seq(Reports) /\ Len(kept) <= KeptMax /\ noise \in 0..MaxNoise
    BY DEF Init
  <2>2. hist \in [wet : SUBSET Sources, lost : SUBSET Sources, owed : SUBSET Sources]
    BY DEF Init
  <2> QED
    BY <2>1, <2>2 DEF Init, TypeOK
<1>2. KeptShape
  BY DEF Init, KeptShape
<1>3. WetIsKept
  BY DEF Init, WetIsKept
<1> QED
  BY <1>1, <1>2, <1>3 DEF IInv

(* Every step of the hub loop, of another task or of time keeps the         *)
(* invariant.                                                               *)
LEMMA NextIInv == IInv /\ [Next]_vars => IInv'
<1> SUFFICES ASSUME IInv, [Next]_vars PROVE IInv'
  OBVIOUS
<1>1. CASE DeviceSet
  BY <1>1, DeviceSetStep
<1>2. CASE Tick
  BY <1>2, TickStep
<1>3. CASE Retry
  BY <1>3, RetryStep
<1>4. CASE EndRetry \/ NoEvent
  BY <1>4, LoopStep
<1>5. CASE \E s \in Sources, w \in BOOLEAN : EvaluateLeak(s, w)
  BY <1>5, EvaluateLeakStep
<1>6. CASE Hold \/ Give \/ CloudCommand \/ ClearDue \/ \E s \in Sources : DeviceChange(s)
  BY <1>6, OutsideStep
<1>7. CASE UNCHANGED vars
  BY <1>7 DEF vars, loopVars, lockVars, outVars, IInv, TypeOK, KeptShape, WetIsKept
<1> QED
  BY <1>1, <1>2, <1>3, <1>4, <1>5, <1>6, <1>7 DEF Next, HubLoop

(* The list of kept reports is typed, without repeats and complete in every *)
(* reachable state, for any sensors, KEPT_MAX and active table.             *)
THEOREM Invariance == Spec => []IInv
BY InitIInv, NextIInv, PTL DEF Spec

(* Every variable keeps its type, and keep_report() never exceeds its       *)
(* KEPT_MAX slots.                                                          *)
THEOREM TypeCorrect == Spec => []TypeOK
<1>1. IInv => TypeOK
  BY DEF IInv
<1> QED
  BY <1>1, Invariance, PTL

(* keep_report() never holds two reports of one kind for a source, for any  *)
(* number of sensors and slots.                                             *)
THEOREM KeptShapeHolds == Spec => []KeptShape
<1>1. IInv => KeptShape
  BY DEF IInv
<1> QED
  BY <1>1, Invariance, PTL

(* A wet report, once kept, stays in the list until the hub loop judges it, *)
(* its device leaves the set or its valve is replaced: neither a flapping   *)
(* source nor a full list pushes it out.                                    *)
THEOREM WetReportIsKept == Spec => []WetIsKept
<1>1. IInv => WetIsKept
  BY DEF IInv
<1> QED
  BY <1>1, Invariance, PTL

(* The engine's view of a source whose newest report is wet ends wet in     *)
(* every reachable state.                                                   *)
THEOREM SafeHolds == Spec => [](IInv /\ FSInv)
<1>1. Init => IInv /\ FSInv
  BY InitIInv, InitSafe
<1>2. IInv /\ FSInv /\ [Next]_vars => IInv' /\ FSInv'
  BY NextIInv, NextSafe
<1> QED
  BY <1>1, <1>2, PTL DEF Spec

(* A provisioned source whose newest report is wet ends wet in the engine,  *)
(* whatever was kept, retried or swapped meanwhile, unless its report was   *)
(* lost.                                                                    *)
THEOREM EndsFailSafeHolds == Spec => []EndsFailSafe
<1>1. IInv /\ FSInv => EndsFailSafe
  <2> SUFFICES ASSUME IInv, FSInv, NEW s \in members \cap lastSet, s \in hist.wet \ hist.lost
               PROVE  EndsWet(s)
    BY DEF EndsFailSafe
  <2>1. s \in Sources /\ kept \in Seq(Reports)
    BY DEF IInv, TypeOK
  <2>2. LastWet(kept, s) \/ (NoneOf(kept, s) /\ s \in active)
    BY <2>1 DEF FSInv, Safe, Bound
  <2> QED
    BY <2>1, <2>2, EndsWetIff
<1> QED
  BY <1>1, SafeHolds, PTL

(* A full list of wet reports is one of as many different sources.          *)
LEMMA FullOfWet ==
    ASSUME NEW k \in Seq(Reports), Unique(k), \A i \in 1..Len(k) : k[i].wet
    PROVE  Cardinality(WetIn(k)) = Len(k)
<1> DEFINE f == [i \in 1..Len(k) |-> k[i].src]
<1>1. Len(k) \in Nat /\ \A i \in 1..Len(k) : k[i] \in Reports /\ k[i].src \in Sources
  <2>1. Len(k) \in Nat /\ \A i \in 1..Len(k) : k[i] \in Reports
    OBVIOUS
  <2> QED
    BY <2>1 DEF Reports
<1>2. \A i \in 1..Len(k) : k[i] = Rep(k[i].src, TRUE)
  BY <1>1, RepFacts
<1>3. f \in [1..Len(k) -> WetIn(k)]
  BY <1>1 DEF WetIn
<1>4. \A i, j \in 1..Len(k) : f[i] = f[j] => i = j
  BY <1>2 DEF Unique
<1>5. \A s \in WetIn(k) : \E i \in 1..Len(k) : f[i] = s
  BY DEF WetIn
<1> HIDE DEF f
<1>6. f \in Surjection(1..Len(k), WetIn(k)) /\ f \in Injection(1..Len(k), WetIn(k))
  BY <1>3, <1>4, <1>5 DEF Surjection, Injection, IsInjective
<1>7. IsFiniteSet(1..Len(k)) /\ Cardinality(1..Len(k)) = Len(k)
  BY <1>1, FS_Interval
<1> QED
  BY <1>6, <1>7, FS_Surjection

(* A provisioned source's wet report is lost only to a list full of wet     *)
(* reports of others, to a full table, or before the loop has the source in *)
(* its copy of the set.                                                     *)
THEOREM WetLostOnlyWhenFullHolds == Spec => WetLostOnlyWhenFull
<1> DEFINE LostRight == \A s \in hist'.lost \ hist.lost :
              \/ s \notin lastSet \cap members
              \/ s \notin WetIn(kept) /\ Cardinality(WetIn(kept)) = KeptMax
              \/ s \notin active /\ Cardinality(active') = MaxActive
<1>1. ASSUME IInv, FSInv, [Next]_vars PROVE LostRight
  <2>1. /\ TypeOK /\ Ledger(Now) /\ kept \in Seq(Reports) /\ Unique(kept)
        /\ Len(kept) <= KeptMax
    BY <1>1, PartsFromIInv DEF IInv, FSInv, ListOk
  <2>2. CASE hist'.lost \subseteq hist.lost
    BY <2>2
  <2>3. CASE Retry
    <3> DEFINE r == Head(kept)
    <3>1. r.src \in Sources /\ r.wet \in BOOLEAN
      <4>1. kept # <<>>
        BY <2>3 DEF Retry
      <4>2. r \in Reports
        BY <4>1, <2>1, TailUnique
      <4> QED
        BY <4>2 DEF Reports
    <3>2. \A s \in hist'.lost \ hist.lost : s = r.src /\ r.wet /\ r.src \notin active'
      BY <2>1, <2>3 DEF Retry, TypeOK
    <3>3. r.src \notin lastSet \/ Evaluate(r.src, r.wet)
      BY <2>3 DEF Retry
    <3> HIDE DEF r
    <3> QED
      BY <3>1, <3>2, <3>3, <2>1, EvaluateTracks
  <2>4. ASSUME NEW s \in Sources, NEW w \in BOOLEAN, EvaluateLeak(s, w) PROVE LostRight
    <3> SUFFICES ASSUME s \in hist'.lost \ hist.lost, s \in lastSet \cap members
                 PROVE  \/ s \notin WetIn(kept) /\ Cardinality(WetIn(kept)) = KeptMax
                        \/ s \notin active /\ Cardinality(active') = MaxActive
      <4>1. \A q \in hist'.lost \ hist.lost : q \in Sources
        <5>1. IInv'
          BY <1>1, <2>4, EvaluateLeakStep
        <5> QED
          BY <5>1 DEF IInv, TypeOK
      <4>2. \A q \in hist'.lost \ hist.lost : q = s
        BY <4>1, <1>1, <2>4, EvaluateLeakCases
      <4> QED
        BY <4>2
    <3>1. w
      BY <1>1, <2>4, EvaluateLeakCases
    <3>2. CASE s \notin WetIn(Keep(kept, s, w))
      <4>1. ~LastWet(Keep(kept, s, w), s)
        BY <3>2 DEF LastWet, WetIn
      <4>2. Len(kept) = KeptMax /\ \A i \in 1..Len(kept) : kept[i].wet /\ kept[i].src # s
        BY <3>1, <4>1, <2>1, KeepEnds
      <4>3. s \notin WetIn(kept)
        BY <4>2 DEF WetIn
      <4> QED
        BY <4>2, <4>3, <2>1, FullOfWet
    <3>3. CASE Evaluate(s, w) /\ s \notin active'
      BY <3>1, <3>3, <2>1, EvaluateTracks
    <3> QED
      BY <3>1, <3>2, <3>3, <1>1, <2>4, EvaluateLeakCases DEF Keeps, Judges, Misses
  <2>5. CASE \E s \in Sources : DeviceChange(s)
    <3>1. hist'.lost \subseteq hist.lost
      BY <2>1, <2>5 DEF DeviceChange, TypeOK
    <3> QED
      BY <3>1
  <2>6. CASE DeviceSet
    <3>1. hist'.lost = hist.lost
      BY <2>1, <2>6 DEF DeviceSet, TypeOK
    <3> QED
      BY <3>1
  <2>7. CASE \/ Tick \/ EndRetry \/ NoEvent \/ Hold \/ Give \/ CloudCommand \/ ClearDue
             \/ UNCHANGED vars
    <3>1. hist' = hist
      BY <2>7 DEF Tick, EndRetry, NoEvent, Hold, Give, CloudCommand, ClearDue, vars
    <3> QED
      BY <3>1
  <2> QED
    BY <1>1, <2>3, <2>4, <2>5, <2>6, <2>7 DEF Next, HubLoop
<1>2. IInv /\ FSInv /\ [Next]_vars => [LostRight]_vars
  BY <1>1
<1> QED
  BY <1>2, SafeHolds, PTL DEF Spec, WetLostOnlyWhenFull

(* E1: the 10 s and an empty list together mean that nobody is wet, except  *)
(* a source whose wet report was lost.                                      *)
THEOREM ClearIsDryHolds == Spec => ClearIsDry
<1> DEFINE DryAtClear == AutoClear =>
              \A s \in members \cap lastSet : s \in hist.wet => s \in hist.lost
<1>1. ASSUME IInv, FSInv, [Next]_vars, AutoClear,
             NEW s \in members \cap lastSet, s \in hist.wet, s \notin hist.lost
      PROVE  FALSE
  <2>1. s \in Sources /\ kept \in Seq(Reports) /\ Held = Now
    BY <1>1 DEF IInv, TypeOK, AutoClear, Held
  <2>2. Tick
    BY <1>1 DEF Next, HubLoop, AutoClear, DeviceSet, Retry, EndRetry, EvaluateLeak, NoEvent,
                Hold, Give, CloudCommand, ClearDue, DeviceChange, vars, loopVars, outVars
  <2>3. kept = <<>> /\ clearing = "due"
    BY <1>1, <2>1, <2>2 DEF Tick, AutoClear, Commit, Now, lockVars
  <2>4. active = {}
    BY <1>1, <2>3 DEF FSInv, Ledger, Now
  <2>5. LastWet(kept, s) \/ s \in active
    BY <1>1, <2>1 DEF FSInv, Safe, Bound
  <2> QED
    BY <2>3, <2>4, <2>5 DEF LastWet
<1>2. IInv /\ FSInv /\ [Next]_vars => [DryAtClear]_vars
  BY <1>1
<1> QED
  BY <1>2, SafeHolds, PTL DEF Spec, ClearIsDry

=============================================================================
