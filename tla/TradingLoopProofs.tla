-------------------------- MODULE TradingLoopProofs --------------------------
(* Theorems about the engine's run (TradingLoop), for any number of levels,  *)
(* prices, limits, records and reports.                                      *)
EXTENDS TradingLoop, FiniteSetTheorems, WellFoundedInduction, SequenceTheorems, TLAPS

-----------------------------------------------------------------------------
(* Numbers and slots.                                                        *)

\* A set of natural numbers that is not empty has a smallest member.
LEMMA NatHasLeast ==
  ASSUME NEW S \in SUBSET Nat, S # {}
  PROVE  \E i \in S : \A j \in S : i <= j
<1> DEFINE Below == {0 .. n : n \in S}
<1>1. Below \subseteq FiniteSubsetsOf(Nat) /\ Below # {}
  <2>1. ASSUME NEW n \in S PROVE IsFiniteSet(0 .. n) /\ 0 .. n \in SUBSET Nat
    BY FS_Interval
  <2>. QED
    BY <2>1 DEF FiniteSubsetsOf
<1>2. PICK x \in Below : \A y \in Below : <<y, x>> \notin StrictSubsetOrdering(Nat)
  <2>1. IsWellFoundedOn(StrictSubsetOrdering(Nat), FiniteSubsetsOf(Nat))
    BY FS_StrictSubsetOrderingWellFounded
  <2>. QED
    BY <1>1, <2>1, WFMin
<1>3. PICK i \in S : x = 0 .. i
  BY <1>2
<1>4. ASSUME NEW j \in S, j < i PROVE FALSE
  <2>1. 0 .. j \subseteq 0 .. i /\ i \in 0 .. i /\ i \notin 0 .. j
    BY <1>4
  <2>2. <<0 .. j, 0 .. i>> \in StrictSubsetOrdering(Nat)
    BY <2>1 DEF StrictSubsetOrdering
  <2>. QED
    BY <1>2, <1>3, <2>2
<1>. QED
  BY <1>4

\* A set of indices has a greatest member.
LEMMA IndexHasGreatest ==
  ASSUME NEW n \in Nat, NEW S \in SUBSET (1 .. n), S # {}
  PROVE  \E i \in S : \A j \in S : j <= i
<1> DEFINE T == {n - i : i \in S}
<1>1. T \in SUBSET Nat /\ T # {}
  <2>1. \A i \in S : i \in 1 .. n /\ n - i \in Nat
    OBVIOUS
  <2>. QED
    BY <2>1
<1>2. PICK k \in T : \A j \in T : k <= j
  BY <1>1, NatHasLeast
<1>3. PICK i \in S : k = n - i
  OBVIOUS
<1>4. ASSUME NEW j \in S PROVE j <= i
  <2>1. n - j \in T
    OBVIOUS
  <2>2. n - i <= n - j
    BY <1>2, <1>3, <2>1
  <2>3. i \in Int /\ j \in Int /\ n \in Int
    OBVIOUS
  <2>. QED
    BY <2>2, <2>3
<1>. QED
  BY <1>4

\* Intents of place requests, of which at most one is for a slot.
Intents == [strategy : {Strategy}, symbol : {Symbol}, side : {"buy", "sell"}, level : 1 .. Levels,
            price : Int, size : Int]
OnePlaceASlot(places) ==
    \A p, q \in places : p.side = q.side /\ p.level = q.level => p = q

LEMMA SlotsFinite == IsFiniteSet(Slots) /\ Cardinality(Slots) \in Nat
<1> DEFINE S == {"buy", "sell"} \X (1 .. Levels)
           f == [x \in S |-> <<Strategy, Symbol, x[1], x[2]>>]
<1>1. IsFiniteSet(S)
  <2>1. IsFiniteSet({"buy"} \cup {"sell"})
    BY FS_Singleton, FS_AddElement
  <2>2. {"buy"} \cup {"sell"} = {"buy", "sell"}
    OBVIOUS
  <2>3. IsFiniteSet(1 .. Levels)
    BY LoopAssumption, FS_Interval
  <2>. QED
    BY <2>1, <2>2, <2>3, FS_Product
<1>2. f \in Surjection(S, Slots)
  <2>1. \A x \in S : x[1] \in {"buy", "sell"} /\ x[2] \in 1 .. Levels
    OBVIOUS
  <2>2. f \in [S -> Slots]
    BY <2>1 DEF Slots
  <2>3. ASSUME NEW y \in Slots PROVE \E x \in S : f[x] = y
    <3>1. PICK side \in {"buy", "sell"}, l \in 1 .. Levels : y = <<Strategy, Symbol, side, l>>
      BY DEF Slots
    <3>2. <<side, l>> \in S /\ f[<<side, l>>] = y
      BY <3>1
    <3>. QED
      BY <3>2
  <2>. QED
    BY <2>2, <2>3 DEF Surjection
<1> HIDE DEF S, f
<1>. QED
  BY <1>1, <1>2, FS_Surjection, FS_CardinalityType

\* There are as many intents as slots at most.
LEMMA PlacesBounded ==
  ASSUME NEW places \in SUBSET Intents, OnePlaceASlot(places)
  PROVE  /\ IsFiniteSet(places) /\ Cardinality(places) \in Nat
         /\ Cardinality(places) <= Cardinality(Slots)
         /\ (places = {} <=> Cardinality(places) = 0)
<1> DEFINE f == [p \in places |-> <<Strategy, Symbol, p.side, p.level>>]
<1>1. \A p \in places : p.side \in {"buy", "sell"} /\ p.level \in 1 .. Levels
  BY DEF Intents
<1>2. f \in [places -> Slots]
  BY <1>1 DEF Slots
<1>3. f \in Injection(places, Slots)
  <2>1. ASSUME NEW p \in places, NEW q \in places, f[p] = f[q] PROVE p = q
    BY <2>1 DEF OnePlaceASlot
  <2>. QED
    BY <1>2, <2>1 DEF Injection, IsInjective
<1>. QED
  BY <1>3, SlotsFinite, FS_Injection, FS_CardinalityType, FS_EmptySet

-----------------------------------------------------------------------------
(* Records that move on.                                                     *)

\* A record is as it was, or has made an accepted move.
Evolves(r, q) ==
    q = r \/ \E new \in Statuses : CanTransition(r.status, new) /\ q = Moved(r, new)

\* What a move can do: doubt stays, a slot stays, and of the working orders only
\* those are new that have been in doubt.
LEMMA EvolvesFacts ==
  ASSUME NEW r \in Recorded, r.status = "UNKNOWN" => r.doubted, NEW q, Evolves(r, q)
  PROVE  /\ q \in Recorded
         /\ q.status = "UNKNOWN" => q.doubted
         /\ r.doubted /\ q.status \in NonTerminal => q.doubted
         /\ q.status \in NonTerminal =>
               r.status \in NonTerminal /\ q.side = r.side /\ q.level = r.level
         /\ IsOpen(q.status) => \/ q.doubted
                                \/ IsOpen(r.status) /\ (r.status = "CANCELING" => q.status = "CANCELING")
<1>1. CASE q = r
  BY <1>1 DEF IsOpen
<1>2. ASSUME NEW new \in Statuses, CanTransition(r.status, new), q = Moved(r, new), q # r
      PROVE  /\ q \in Recorded
             /\ q.status = "UNKNOWN" => q.doubted
             /\ r.doubted /\ q.status \in NonTerminal => q.doubted
             /\ q.status \in NonTerminal =>
                   r.status \in NonTerminal /\ q.side = r.side /\ q.level = r.level
             /\ IsOpen(q.status) =>
                   \/ q.doubted
                   \/ IsOpen(r.status) /\ (r.status = "CANCELING" => q.status = "CANCELING")
  <2>0. r.status \in Statuses /\ r.doubted \in BOOLEAN
    BY DEF Recorded
  <2>1. CASE new \in Terminal
    <3>1. q = Record("none", NoLevel, 0, new)
      BY <1>2, <2>1 DEF Moved
    <3>2. q.status = new /\ q.side = "none" /\ q.level = NoLevel /\ q.price = 0
      BY <3>1 DEF Record
    <3>3. new # "UNKNOWN" /\ new \notin NonTerminal
      BY <2>1 DEF Terminal, NonTerminal
    <3>4. q \in Recorded
      <4>1. NoLevel \in NoLevel .. Levels
        BY LoopAssumption DEF NoLevel
      <4>. QED
        BY <1>2, <3>1, <3>3, <4>1 DEF Record, Recorded
    <3>. QED
      BY <3>2, <3>3, <3>4 DEF IsOpen
  <2>2. CASE new \notin Terminal
    <3>1. q = [r EXCEPT !.status = new, !.doubted = @ \/ new = "UNKNOWN"]
      BY <1>2, <2>2 DEF Moved
    <3> DEFINE d == r.doubted \/ new = "UNKNOWN"
    <3>2. d \in BOOLEAN /\ q = [r EXCEPT !.status = new, !.doubted = d]
      BY <2>0, <3>1
    <3>3. d <=> r.doubted \/ new = "UNKNOWN"
      OBVIOUS
    <3> HIDE DEF d
    <3>4. /\ q \in Recorded /\ q.status = new /\ q.doubted = d
          /\ q.side = r.side /\ q.level = r.level
      BY <1>2, <3>2 DEF Recorded
    <3>5. /\ r.status \in NonTerminal /\ new \in NonTerminal
          /\ new \in ValidNext(r.status) \/ new = r.status
      BY <1>2, <2>0, <2>2 DEF CanTransition, Statuses
    <3>6. IsOpen(new) => \/ r.status = "UNKNOWN"
                         \/ IsOpen(r.status) /\ (r.status = "CANCELING" => new = "CANCELING")
      <4>1. r.status = "CANCELING" => new \in {"CANCELING", "UNKNOWN"}
        BY <2>2, <3>5 DEF ValidNext, Terminal
      <4>. QED
        BY <3>5, <4>1 DEF IsOpen
    <3>. QED
      BY <3>3, <3>4, <3>5, <3>6 DEF IsOpen
  <2>. QED
    BY <2>1, <2>2
<1>. QED
  BY <1>1, <1>2 DEF Evolves

-----------------------------------------------------------------------------
(* Tables.                                                                   *)

\* What becomes of a table when none of its orders is new: no working order
\* appears that has not been in doubt, and doubt and slots stay.
Progress(t, u) ==
    /\ DOMAIN t \subseteq DOMAIN u
    /\ \A i \in OpenIds(u) :
          /\ i \in DOMAIN t /\ u[i].side = t[i].side /\ u[i].level = t[i].level
          /\ t[i].doubted => u[i].doubted
          /\ \/ u[i].doubted
             \/ i \in OpenIds(t) /\ (t[i].status = "CANCELING" => u[i].status = "CANCELING")

LEMMA TableFacts ==
  ASSUME NEW t \in Seq(Recorded)
  PROVE  /\ Len(t) \in Nat /\ DOMAIN t = 1 .. Len(t)
         /\ \A i \in DOMAIN t : /\ t[i] \in Recorded /\ t[i].status \in Statuses /\ t[i].doubted \in BOOLEAN
                                /\ t[i].level \in NoLevel .. Levels
         /\ OpenIds(t) \in SUBSET (DOMAIN t) /\ Live(t) \in SUBSET (DOMAIN t)
         /\ IsFiniteSet(Live(t)) /\ Cardinality(Live(t)) \in Nat
         /\ IsFiniteSet(OpenIds(t)) /\ Cardinality(OpenIds(t)) \in Nat
<1>1. Len(t) \in Nat /\ DOMAIN t = 1 .. Len(t) /\ \A i \in DOMAIN t : t[i] \in Recorded
  OBVIOUS
<1>2. \A i \in DOMAIN t : /\ t[i].status \in Statuses /\ t[i].doubted \in BOOLEAN
                          /\ t[i].level \in NoLevel .. Levels
  BY <1>1 DEF Recorded
<1>3. OpenIds(t) \in SUBSET (DOMAIN t) /\ Live(t) \in SUBSET (DOMAIN t)
  BY DEF OpenIds, Live
<1>4. IsFiniteSet(DOMAIN t)
  BY <1>1, FS_Interval
<1>. QED
  BY <1>1, <1>2, <1>3, <1>4, FS_Subset, FS_CardinalityType

\* Moves keep a table as it should be.
LEMMA MovesKept ==
  ASSUME NEW t, WellKept(t), NEW u, u = [i \in DOMAIN t |-> u[i]],
         \A i \in DOMAIN t : Evolves(t[i], u[i])
  PROVE  WellKept(u) /\ Len(u) = Len(t) /\ Progress(t, u)
<1>1. /\ t \in Seq(Recorded) /\ Len(t) \in Nat /\ DOMAIN t = 1 .. Len(t) /\ DOMAIN u = 1 .. Len(t)
      /\ \A i \in DOMAIN t : t[i] \in Recorded /\ (t[i].status = "UNKNOWN" => t[i].doubted)
  BY TableFacts DEF WellKept
<1>2. ASSUME NEW i \in DOMAIN t
      PROVE  /\ u[i] \in Recorded
             /\ u[i].status = "UNKNOWN" => u[i].doubted
             /\ t[i].doubted /\ u[i].status \in NonTerminal => u[i].doubted
             /\ u[i].status \in NonTerminal =>
                   t[i].status \in NonTerminal /\ u[i].side = t[i].side /\ u[i].level = t[i].level
             /\ IsOpen(u[i].status) =>
                   \/ u[i].doubted
                   \/ IsOpen(t[i].status) /\ (t[i].status = "CANCELING" => u[i].status = "CANCELING")
  BY <1>1, EvolvesFacts
<1>3. u \in Seq(Recorded)
  <2>1. u \in [1 .. Len(t) -> Recorded]
    BY <1>1, <1>2
  <2>. QED
    BY <1>1, <2>1, SeqDef
<1>4. Len(u) = Len(t)
  BY <1>1, <1>3
<1>5. ASSUME NEW i \in OpenIds(u) PROVE i \in DOMAIN t /\ IsOpen(u[i].status) /\ u[i].status \in NonTerminal
  BY <1>1 DEF OpenIds, IsOpen
<1>6. Progress(t, u)
  <2>1. ASSUME NEW i \in OpenIds(u)
        PROVE  /\ i \in DOMAIN t /\ u[i].side = t[i].side /\ u[i].level = t[i].level
               /\ t[i].doubted => u[i].doubted
               /\ \/ u[i].doubted
                  \/ i \in OpenIds(t) /\ (t[i].status = "CANCELING" => u[i].status = "CANCELING")
    BY <1>2, <1>5 DEF OpenIds
  <2>. QED
    BY <1>1, <2>1 DEF Progress
<1>a. Live(u) \in SUBSET Live(t) /\ \A j \in Live(u) : u[j].side = t[j].side /\ u[j].level = t[j].level
  BY <1>1, <1>2 DEF Live
<1>7. ASSUME NEW i \in OpenIds(u), NEW j \in Live(u), i < j, u[i].side = u[j].side,
             u[i].level = u[j].level, ~u[i].doubted
      PROVE  FALSE
  <2>1. /\ i \in OpenIds(t) /\ ~t[i].doubted
        /\ j \in Live(t) /\ t[i].side = t[j].side /\ t[i].level = t[j].level
    BY <1>6, <1>7, <1>a DEF Progress
  <2>. QED
    BY <1>7, <2>1 DEF WellKept
<1>8. Cardinality(Live(u)) <= Limits.maxOpenOrders - 1 + Cardinality(Slots)
  <2>2. Cardinality(Live(u)) <= Cardinality(Live(t))
    BY <1>1, <1>a, TableFacts, FS_Subset
  <2>3. Cardinality(Live(t)) <= Limits.maxOpenOrders - 1 + Cardinality(Slots)
    BY DEF WellKept
  <2>4. Cardinality(Live(u)) \in Nat /\ Cardinality(Live(t)) \in Nat
    BY <1>1, <1>3, TableFacts
  <2>5. Limits.maxOpenOrders - 1 + Cardinality(Slots) \in Int
    BY SlotsFinite, LoopAssumption
  <2>. QED
    BY <2>2, <2>3, <2>4, <2>5
<1>. QED
  BY <1>1, <1>2, <1>3, <1>4, <1>6, <1>7, <1>8 DEF WellKept

\* A loop over orders, complete or broken off, keeps the table as it should be.
LEMMA AfterMovesKept ==
  ASSUME WellKept(table), NEW done \in SUBSET Ids, NEW target,
         \A i \in done : target[i] \in Statuses /\ CanTransition(table[i].status, target[i])
  PROVE  /\ WellKept(AfterMoves(done, target)) /\ Len(AfterMoves(done, target)) = Len(table)
         /\ DOMAIN AfterMoves(done, target) = Ids
         /\ Progress(table, AfterMoves(done, target))
<1> DEFINE u == AfterMoves(done, target)
<1>1. DOMAIN u = DOMAIN table /\ u = [i \in DOMAIN table |-> u[i]]
  BY DEF AfterMoves, Ids
<1>2. ASSUME NEW i \in DOMAIN table PROVE Evolves(table[i], u[i])
  <2>1. CASE i \in done
    <3>1. u[i] = Moved(table[i], target[i])
      BY <2>1 DEF AfterMoves, Ids
    <3>. QED
      BY <2>1, <3>1 DEF Evolves
  <2>2. CASE i \notin done
    <3>1. u[i] = table[i]
      BY <2>2 DEF AfterMoves, Ids
    <3>. QED
      BY <3>1 DEF Evolves
  <2>. QED
    BY <2>1, <2>2
<1> HIDE DEF u
<1>3. WellKept(u) /\ Len(u) = Len(table) /\ Progress(table, u)
  BY <1>1, <1>2, MovesKept
<1>. QED
  BY <1>1, <1>3 DEF u, Ids

\* The status of an order after the loop.
LEMMA MovedStatus ==
  ASSUME NEW r \in Recorded, NEW new \in Statuses
  PROVE  Moved(r, new).status = new
<1>1. CASE new \in Terminal
  BY <1>1 DEF Moved, Record
<1>2. CASE new \notin Terminal
  BY <1>2 DEF Moved, Recorded
<1>. QED
  BY <1>1, <1>2

LEMMA AfterMovesStatus ==
  ASSUME WellKept(table), NEW done \in SUBSET Ids, NEW target, NEW i \in done, target[i] \in Statuses
  PROVE  AfterMoves(done, target)[i].status = target[i]
<1>1. table[i] \in Recorded
  BY TableFacts DEF WellKept, Ids
<1>2. AfterMoves(done, target)[i] = Moved(table[i], target[i])
  BY DEF AfterMoves
<1>. QED
  BY <1>1, <1>2, MovedStatus

\* Orders without a record join the table as orders in doubt, of no slot.
LEMMA OrphanFacts ==
  /\ Orphan \in Recorded /\ Orphan.status = "UNKNOWN" /\ Orphan.doubted /\ Orphan.level = NoLevel
  /\ ~IsOpen(Orphan.status)
<1>1. Orphan.status = "UNKNOWN" /\ Orphan.level = NoLevel
  BY DEF Orphan, Record
<1>2. Orphan.doubted
  BY DEF Orphan, Record
<1>3. Orphan \in Recorded
  <2>1. NoLevel \in NoLevel .. Levels /\ "UNKNOWN" \in Statuses
    BY LoopAssumption DEF NoLevel, Statuses, NonTerminal
  <2>. QED
    BY <2>1 DEF Orphan, Record, Recorded
<1>. QED
  BY <1>1, <1>2, <1>3 DEF IsOpen

LEMMA OrphansJoin ==
  ASSUME NEW t, WellKept(t), NEW o \in Seq({Orphan})
  PROVE  /\ WellKept(t \o o) /\ Progress(t, t \o o) /\ Len(t) <= Len(t \o o)
         /\ \A i \in DOMAIN t : (t \o o)[i] = t[i]
<1> DEFINE u == t \o o
<1>1. t \in Seq(Recorded) /\ o \in Seq(Recorded) /\ \A k \in DOMAIN o : o[k] = Orphan
  <2>1. Orphan \in Recorded
    BY OrphanFacts
  <2>. QED
    BY <2>1 DEF WellKept
<1>2. /\ u \in Seq(Recorded) /\ Len(u) = Len(t) + Len(o)
      /\ \A i \in 1 .. Len(t) + Len(o) : u[i] = IF i <= Len(t) THEN t[i] ELSE o[i - Len(t)]
  BY <1>1, ConcatProperties
<1>3. Len(t) \in Nat /\ Len(o) \in Nat /\ DOMAIN t = 1 .. Len(t) /\ DOMAIN u = 1 .. Len(u)
  BY <1>1, <1>2
<1> HIDE DEF u
<1>4. \A i \in DOMAIN t : i \in DOMAIN u /\ u[i] = t[i]
  BY <1>2, <1>3
<1>5. \A i \in DOMAIN u : i \notin DOMAIN t => u[i] = Orphan
  <2>1. ASSUME NEW i \in DOMAIN u, i \notin DOMAIN t PROVE u[i] = Orphan
    <3>1. i - Len(t) \in 1 .. Len(o) /\ u[i] = o[i - Len(t)]
      BY <1>2, <1>3, <2>1
    <3>. QED
      BY <1>1, <3>1
  <2>. QED
    BY <2>1
<1>6. Live(u) = Live(t) /\ OpenIds(u) = OpenIds(t)
  BY <1>4, <1>5, OrphanFacts DEF Live, OpenIds
<1>7. \A i \in Live(t) \cup OpenIds(t) : i \in DOMAIN t /\ u[i] = t[i]
  BY <1>4 DEF Live, OpenIds
<1>8. WellKept(u)
  <2>1. \A i \in DOMAIN u : u[i].status = "UNKNOWN" => u[i].doubted
    BY <1>4, <1>5, OrphanFacts DEF WellKept
  <2>2. \A i \in OpenIds(u), j \in Live(u) :
           i < j /\ u[i].side = u[j].side /\ u[i].level = u[j].level => u[i].doubted
    BY <1>6, <1>7 DEF WellKept
  <2>3. Cardinality(Live(u)) <= Limits.maxOpenOrders - 1 + Cardinality(Slots)
    BY <1>6 DEF WellKept
  <2>. QED
    BY <1>2, <2>1, <2>2, <2>3 DEF WellKept
<1>9. Progress(t, u)
  BY <1>4, <1>6, <1>7 DEF Progress
<1>. QED
  BY <1>2, <1>3, <1>4, <1>8, <1>9 DEF u

LEMMA OrphanJoins ==
  ASSUME NEW t, WellKept(t)
  PROVE  /\ WellKept(Append(t, Orphan)) /\ Progress(t, Append(t, Orphan))
         /\ Len(Append(t, Orphan)) = Len(t) + 1
         /\ \A i \in DOMAIN t : Append(t, Orphan)[i] = t[i]
<1>1. t \in Seq(Recorded)
  BY DEF WellKept
<1>2. <<Orphan>> \in Seq({Orphan})
  OBVIOUS
<1>3. Append(t, Orphan) = t \o <<Orphan>>
  BY <1>1, OrphanFacts, AppendIsConcat
<1>4. Len(Append(t, Orphan)) = Len(t) + 1
  BY <1>1, OrphanFacts, AppendProperties
<1>. QED
  BY <1>2, <1>3, <1>4, OrphansJoin

-----------------------------------------------------------------------------
(* What a tick asks for.                                                     *)

LEMMA WantedFacts ==
  ASSUME NEW wanted \in Wanted
  PROVE  wanted \in SUBSET Intents /\ OnePlaceASlot(wanted)
<1>1. PICK f \in [Slots -> Prices["buy"] \cup Prices["sell"] \cup {0}] :
         wanted = {[strategy |-> s[1], symbol |-> s[2], side |-> s[3], level |-> s[4],
                    price |-> f[s], size |-> 1] : s \in {t \in Slots : f[t] # 0}}
  BY DEF Wanted
<1>2. ASSUME NEW q \in wanted
      PROVE  \E side \in {"buy", "sell"}, l \in 1 .. Levels :
                q = [strategy |-> Strategy, symbol |-> Symbol, side |-> side, level |-> l,
                     price |-> f[<<Strategy, Symbol, side, l>>], size |-> 1]
  <2>1. PICK s \in Slots : q = [strategy |-> s[1], symbol |-> s[2], side |-> s[3], level |-> s[4],
                                price |-> f[s], size |-> 1]
    BY <1>1
  <2>2. PICK side \in {"buy", "sell"}, l \in 1 .. Levels : s = <<Strategy, Symbol, side, l>>
    BY DEF Slots
  <2>3. s[1] = Strategy /\ s[2] = Symbol /\ s[3] = side /\ s[4] = l
    BY <2>2
  <2>. QED
    BY <2>1, <2>2, <2>3
<1>3. \A s \in Slots : f[s] \in Int
  BY LoopAssumption
<1>4. ASSUME NEW q \in wanted PROVE q \in Intents
  <2>1. PICK side \in {"buy", "sell"}, l \in 1 .. Levels :
           q = [strategy |-> Strategy, symbol |-> Symbol, side |-> side, level |-> l,
                price |-> f[<<Strategy, Symbol, side, l>>], size |-> 1]
    BY <1>2
  <2>2. <<Strategy, Symbol, side, l>> \in Slots
    BY DEF Slots
  <2>3. f[<<Strategy, Symbol, side, l>>] \in Int
    BY <1>3, <2>2
  <2>. QED
    BY <2>1, <2>3 DEF Intents
<1>5. ASSUME NEW p \in wanted, NEW q \in wanted, p.side = q.side, p.level = q.level PROVE p = q
  <2>1. PICK side \in {"buy", "sell"}, l \in 1 .. Levels :
           p = [strategy |-> Strategy, symbol |-> Symbol, side |-> side, level |-> l,
                price |-> f[<<Strategy, Symbol, side, l>>], size |-> 1]
    BY <1>2
  <2>2. PICK side2 \in {"buy", "sell"}, l2 \in 1 .. Levels :
           q = [strategy |-> Strategy, symbol |-> Symbol, side |-> side2, level |-> l2,
                price |-> f[<<Strategy, Symbol, side2, l2>>], size |-> 1]
    BY <1>2
  <2>3. side = side2 /\ l = l2
    BY <1>5, <2>1, <2>2
  <2>. QED
    BY <2>1, <2>2, <2>3
<1>. QED
  BY <1>4, <1>5 DEF OnePlaceASlot

\* Rounding to a step, and away from the other side of the book, gives a number.
LEMMA PriceIsNumber ==
  ASSUME NEW m, m.bid \in Int, m.ask \in Int, NEW side, NEW price \in Int
  PROVE  QE!PostOnlyPrice(Rule, m, side, price) \in Int
<1>1. ASSUME NEW x \in Int PROVE QE!AlignPrice(Rule, side, x) \in Int
  <2> DEFINE step == Rule.priceStep * 1
  <2>1. step \in Nat /\ step > 0
    BY LoopAssumption
  <2> HIDE DEF step
  <2>2. ASSUME NEW y \in Int PROVE (y \div step) * step \in Int
    BY <2>1
  <2>3. QE!Floor(x, step) \in Int /\ QE!Ceiling(x, step) \in Int
    BY <2>1, <2>2 DEF QE!Floor, QE!Ceiling
  <2>4. QE!AlignPrice(Rule, side, x) = (IF side = "buy" THEN QE!Floor(x, step) ELSE QE!Ceiling(x, step)) \div 1
    BY DEF QE!AlignPrice, step
  <2>. QED
    BY <2>3, <2>4
<1>2. (m.ask - Rule.priceStep) * 1 \in Int /\ (m.bid + Rule.priceStep) * 1 \in Int
  BY LoopAssumption
<1>. QED
  BY <1>1, <1>2 DEF QE!PostOnlyPrice

LEMMA SizeIsNumber ==
  ASSUME NEW size \in Int
  PROVE  QE!AlignSize(Rule, size) \in Int
<1>1. Rule.sizeStep \in Nat /\ Rule.sizeStep > 0
  BY LoopAssumption
<1>. QED
  BY <1>1 DEF QE!AlignSize, QE!Floor

\* The arguments with which a tick asks the quote engine.
Quoted(wanted) ==
    QE!Places(<<wanted>>, OpenOrders, [s \in {Symbol} |-> Market], [s \in {Symbol} |-> Rule],
              last, tick, Interval)
Dropped(wanted) == QE!Cancels(<<wanted>>, OpenOrders, Quoted(wanted))

LEMMA QuotedFacts ==
  ASSUME NEW wanted \in Wanted
  PROVE  Quoted(wanted) \in SUBSET Intents /\ OnePlaceASlot(Quoted(wanted))
<1> DEFINE markets == [s \in {Symbol} |-> Market]
           rules == [s \in {Symbol} |-> Rule]
           P(q) == QE!Priced(rules, markets, q)
<1>1. wanted \in SUBSET Intents /\ OnePlaceASlot(wanted)
  BY WantedFacts
<1>2. QE!Desired(<<wanted>>) \subseteq wanted
  <2>1. DOMAIN <<wanted>> = {1} /\ <<wanted>>[1] = wanted
    OBVIOUS
  <2>. QED
    BY <2>1 DEF QE!Desired
<1>3. ASSUME NEW p \in Quoted(wanted) PROVE \E q \in wanted : p = P(q)
  BY <1>2 DEF Quoted, QE!Places
<1>4. ASSUME NEW q \in wanted
      PROVE  P(q) \in Intents /\ P(q).side = q.side /\ P(q).level = q.level
  <2>1. /\ q.strategy = Strategy /\ q.symbol = Symbol /\ q.side \in {"buy", "sell"}
        /\ q.level \in 1 .. Levels /\ q.price \in Int /\ q.size \in Int
    BY <1>1 DEF Intents
  <2>2. P(q) = [strategy |-> q.strategy, symbol |-> q.symbol, side |-> q.side, level |-> q.level,
                price |-> QE!PostOnlyPrice(Rule, Market, q.side, q.price), size |-> QE!AlignSize(Rule, q.size)]
    <3>1. rules[q.symbol] = Rule /\ markets[q.symbol] = Market
      BY <2>1
    <3>. QED
      BY <3>1 DEF QE!Priced
  <2>3. /\ QE!PostOnlyPrice(Rule, Market, q.side, q.price) \in Int
        /\ QE!AlignSize(Rule, q.size) \in Int
    BY <2>1, PriceIsNumber, SizeIsNumber, LoopAssumption
  <2>. QED
    BY <2>1, <2>2, <2>3 DEF Intents
<1>5. ASSUME NEW p \in Quoted(wanted), NEW r \in Quoted(wanted), p.side = r.side, p.level = r.level
      PROVE  p = r
  <2> HIDE DEF P
  <2>1. PICK a \in wanted : p = P(a)
    BY <1>3
  <2>2. PICK b \in wanted : r = P(b)
    BY <1>3
  <2>3. a = b
    BY <1>1, <1>4, <1>5, <2>1, <2>2 DEF OnePlaceASlot
  <2>. QED
    BY <2>1, <2>2, <2>3
<1>. QED
  BY <1>3, <1>4, <1>5 DEF OnePlaceASlot

-----------------------------------------------------------------------------
(* The working orders in a place's slot.                                     *)

LEMMA OpenSeen ==
  ASSUME NEW t \in Seq(Recorded), NEW i \in OpenIds(t)
  PROVE  /\ i \in DOMAIN t /\ Seen(t, i).id = i /\ Seen(t, i).symbol = Symbol
         /\ Seen(t, i).strategy = Strategy /\ Seen(t, i).side = t[i].side
         /\ Seen(t, i).level = t[i].level /\ Seen(t, i).status = t[i].status
BY DEF Seen, OpenIds

\* What a tick cancels is working.
LEMMA DroppedWork ==
  ASSUME WellKept(table), NEW wanted
  PROVE  {o.id : o \in Dropped(wanted)} \in SUBSET OpenIds(table)
<1>1. ASSUME NEW o \in Dropped(wanted) PROVE o.id \in OpenIds(table)
  <2>1. o \in OpenOrders
    BY DEF Dropped, QE!Cancels, QE!Indexed
  <2>2. PICK i \in OpenIds(table) : o = Seen(table, i)
    BY <2>1 DEF OpenOrders
  <2>. QED
    BY <2>2, OpenSeen DEF WellKept
<1>. QED
  BY <1>1

\* A tick that places an order cancels the last working order of its slot, and
\* any other order that works there has been in doubt.
LEMMA SlotIsCleared ==
  ASSUME WellKept(table), NEW wanted \in Wanted,
         NEW p \in Quoted(wanted), NEW i \in OpenIds(table),
         table[i].side = p.side, table[i].level = p.level
  PROVE  i \in {o.id : o \in Dropped(wanted)} \/ (table[i].doubted /\ Dropped(wanted) # {})
<1> DEFINE same == {k \in OpenIds(table) : table[k].side = p.side /\ table[k].level = p.level}
<1>1. table \in Seq(Recorded) /\ Len(table) \in Nat /\ OpenIds(table) \in SUBSET (1 .. Len(table))
  BY TableFacts DEF WellKept
<1>2. PICK k \in same : \A j \in same : j <= k
  <2>1. same \in SUBSET (1 .. Len(table)) /\ same # {}
    BY <1>1
  <2>. QED
    BY <1>1, <2>1, IndexHasGreatest
<1>3. /\ p.strategy = Strategy /\ p.symbol = Symbol /\ p.side \in {"buy", "sell"} /\ p.level \in 1 .. Levels
  <2>1. p \in Intents
    BY QuotedFacts
  <2>. QED
    BY <2>1 DEF Intents
<1>4. p.level # NoLevel /\ p.level # QE!NoLevel
  BY <1>3, LoopAssumption DEF NoLevel, QE!NoLevel
<1> DEFINE o == Seen(table, k)
<1>5. /\ o \in OpenOrders /\ o.id = k /\ o.side = p.side /\ o.level = p.level
      /\ o.strategy = Strategy /\ o.symbol = Symbol
  BY <1>1, OpenSeen DEF OpenOrders
<1>6. QE!Slot(p) = QE!Slot(o)
  BY <1>3, <1>5 DEF QE!Slot
<1>7. o \in QE!Indexed(OpenOrders)
  <2>1. ASSUME NEW x \in OpenOrders, QE!Slot(x) = QE!Slot(o) PROVE x.id <= o.id
    <3>1. PICK j \in OpenIds(table) : x = Seen(table, j)
      BY DEF OpenOrders
    <3>2. x.id = j /\ x.side = table[j].side /\ x.level = table[j].level
      BY <1>1, <3>1, OpenSeen
    <3>3. x.side = o.side /\ x.level = o.level
      BY <2>1 DEF QE!Slot
    <3>4. j \in same
      BY <1>5, <3>2, <3>3
    <3>. QED
      BY <1>2, <1>5, <3>2, <3>4
  <2>. QED
    BY <1>4, <1>5, <2>1 DEF QE!Indexed
<1>8. o \in Dropped(wanted)
  BY <1>6, <1>7 DEF Dropped, QE!Cancels
<1>9. i = k \/ i < k
  BY <1>1, <1>2
<1>10. CASE i = k
  BY <1>5, <1>8, <1>10
<1>11. CASE i < k
  <2>1. k \in Live(table)
    BY <1>1, <1>4 DEF Live, OpenIds, IsOpen
  <2>2. table[i].doubted
    BY <1>11, <2>1 DEF WellKept
  <2>. QED
    BY <1>8, <2>2
<1>. QED
  BY <1>9, <1>10, <1>11

-----------------------------------------------------------------------------
(* What the risk engine lets through.                                        *)

\* An order is refused by the first rule that it breaks, so that one which is
\* approved breaks none.
LEMMA ApprovedBreaksNone ==
  ASSUME NEW i, NEW e, Risk!Validate(i, e) = "approved"
  PROVE  \A k \in 1 .. 17 : ~Risk!Breaks(Risk!Order[k], i, e)
<1> DEFINE Broken == {k \in 1 .. 17 : Risk!Breaks(Risk!Order[k], i, e)}
           IsFirst(k) == /\ Risk!Breaks(Risk!Order[k], i, e)
                         /\ \A j \in 1 .. (k - 1) : ~Risk!Breaks(Risk!Order[j], i, e)
<1>1. DOMAIN Risk!Order = 1 .. 17
  BY DEF Risk!Order
<1>2. SUFFICES ASSUME Broken # {} PROVE FALSE
  OBVIOUS
<1>3. PICK k \in Broken : \A j \in Broken : k <= j
  <2>1. Broken \in SUBSET Nat
    OBVIOUS
  <2>. QED
    BY <1>2, <2>1, NatHasLeast
<1>4. k \in 1 .. 17 /\ IsFirst(k)
  <2>1. ASSUME NEW j \in 1 .. (k - 1), Risk!Breaks(Risk!Order[j], i, e) PROVE FALSE
    <3>1. k \in 1 .. 17 /\ j \in Broken
      BY <2>1
    <3>. QED
      BY <1>3, <3>1
  <2>. QED
    BY <2>1
<1>5. Risk!Validate(i, e) = Risk!Order[CHOOSE n \in DOMAIN Risk!Order : IsFirst(n)]
  BY <1>1, <1>4 DEF Risk!Validate
<1> DEFINE c == CHOOSE n \in DOMAIN Risk!Order : IsFirst(n)
<1>6. c \in 1 .. 17
  BY <1>1, <1>4
<1> HIDE DEF c
<1>7. Risk!Order[c] # "approved"
  BY <1>6 DEF Risk!Order
<1>. QED
  BY <1>5, <1>7 DEF c

\* Orders are approved only while none is in doubt and fewer than the limit work.
LEMMA ApprovedFacts ==
  ASSUME NEW t \in Seq(Recorded), NEW alert, NEW e \in Views(t, alert),
         NEW p \in Intents, Risk!Validate(p, e) = "approved"
  PROVE  /\ \A i \in DOMAIN t : t[i].status # "UNKNOWN"
         /\ Cardinality(OpenIds(t)) < Limits.maxOpenOrders
<1>1. e.orders = {Seen(t, i) : i \in DOMAIN t}
  BY DEF Views, View
<1>2. p.symbol = Symbol
  BY DEF Intents
<1>3. ~Risk!InDoubt(e)
  <2>1. Risk!Order[5] = "unknown_order"
    BY DEF Risk!Order
  <2>2. ~Risk!Breaks("unknown_order", p, e)
    BY <2>1, ApprovedBreaksNone
  <2>. QED
    BY <2>2 DEF Risk!Breaks
<1>4. ~(Cardinality(Risk!OpenIn(e, Symbol)) >= Limits.maxOpenOrders)
  <2>0. \A S : Risk!Cardinality(S) = Cardinality(S)
    BY DEF Cardinality, Risk!Cardinality
  <2>1. Risk!Order[10] = "max_open_orders"
    BY DEF Risk!Order
  <2>2. ~Risk!Breaks("max_open_orders", p, e)
    BY <2>1, ApprovedBreaksNone
  <2>3. ~(Risk!Cardinality(Risk!OpenIn(e, Symbol)) >= Limits.maxOpenOrders)
    BY <1>2, <2>2 DEF Risk!Breaks
  <2>. QED
    BY <2>0, <2>3
<1>5. \A i \in DOMAIN t : t[i].status # "UNKNOWN"
  <2>1. ASSUME NEW i \in DOMAIN t, t[i].status = "UNKNOWN" PROVE FALSE
    <3>1. Seen(t, i) \in e.orders /\ Seen(t, i).status = "UNKNOWN"
      BY <1>1, <2>1 DEF Seen
    <3>. QED
      BY <1>3, <3>1 DEF Risk!InDoubt
  <2>. QED
    BY <2>1
<1> DEFINE f == [i \in OpenIds(t) |-> Seen(t, i)]
<1>6. f \in Injection(OpenIds(t), Risk!OpenIn(e, Symbol)) /\ f \in Surjection(OpenIds(t), Risk!OpenIn(e, Symbol))
  <2>1. ASSUME NEW i \in OpenIds(t) PROVE Seen(t, i) \in Risk!OpenIn(e, Symbol) /\ Seen(t, i).id = i
    <3>1. Seen(t, i) \in e.orders /\ Seen(t, i).symbol = Symbol /\ Seen(t, i).id = i
      BY <1>1, OpenSeen
    <3>2. Risk!IsOpen(Seen(t, i).status)
      BY OpenSeen DEF OpenIds, IsOpen, NonTerminal, Risk!IsOpen, Risk!NonTerminal
    <3>. QED
      BY <3>1, <3>2 DEF Risk!OpenIn
  <2>2. ASSUME NEW o \in Risk!OpenIn(e, Symbol) PROVE \E i \in OpenIds(t) : f[i] = o
    <3>1. o \in e.orders /\ Risk!IsOpen(o.status)
      BY DEF Risk!OpenIn
    <3>2. PICK i \in DOMAIN t : o = Seen(t, i)
      BY <1>1, <3>1
    <3>3. o.status = t[i].status
      BY <3>2 DEF Seen
    <3>4. i \in OpenIds(t)
      BY <3>1, <3>3 DEF OpenIds, IsOpen, NonTerminal, Risk!IsOpen, Risk!NonTerminal
    <3>. QED
      BY <3>2, <3>4
  <2>3. f \in [OpenIds(t) -> Risk!OpenIn(e, Symbol)]
    BY <2>1
  <2>4. ASSUME NEW i \in OpenIds(t), NEW j \in OpenIds(t), f[i] = f[j] PROVE i = j
    BY <2>1, <2>4
  <2>. QED
    BY <2>2, <2>3, <2>4 DEF Injection, IsInjective, Surjection
<1> HIDE DEF f
<1>7. Cardinality(Risk!OpenIn(e, Symbol)) = Cardinality(OpenIds(t)) /\ Cardinality(OpenIds(t)) \in Nat
  BY <1>6, TableFacts, FS_Surjection
<1>8. Cardinality(OpenIds(t)) < Limits.maxOpenOrders
  BY <1>4, <1>7, LoopAssumption
<1>. QED
  BY <1>5, <1>8

-----------------------------------------------------------------------------
(* What submit_batch adds.                                                   *)

\* There is one new record for each place, and none else.
LEMMA CreatedFacts ==
  ASSUME NEW places \in SUBSET Intents, OnePlaceASlot(places), NEW new \in Created(places)
  PROVE  /\ new \in Seq(Recorded) /\ Len(new) = Cardinality(places)
         /\ \A k \in DOMAIN new :
               /\ new[k].status = "SUBMITTING"
               /\ \E p \in places : new[k].side = p.side /\ new[k].level = p.level
         /\ \A k, l \in DOMAIN new :
               new[k].side = new[l].side /\ new[k].level = new[l].level => k = l
<1> DEFINE n == Cardinality(places)
           R(p) == Record(p.side, p.level, p.price, "SUBMITTING")
<1>1. IsFiniteSet(places) /\ n \in Nat
  BY PlacesBounded
<1>2. new \in [1 .. n -> {R(p) : p \in places}]
  BY DEF Created
<1>3. \A p \in places : \E k \in DOMAIN new : new[k].side = p.side /\ new[k].level = p.level
  BY DEF Created
<1> HIDE DEF n
<1>4. ASSUME NEW p \in places
      PROVE  R(p) \in Recorded /\ R(p).side = p.side /\ R(p).level = p.level /\ R(p).status = "SUBMITTING"
  <2>1. p.side \in {"buy", "sell"} /\ p.level \in NoLevel .. Levels /\ p.price \in Int
    BY LoopAssumption DEF Intents, NoLevel
  <2>2. "SUBMITTING" \in Statuses
    BY DEF Statuses, NonTerminal
  <2>3. R(p) = [side |-> p.side, level |-> p.level, price |-> p.price, status |-> "SUBMITTING",
                doubted |-> FALSE]
    BY DEF Record
  <2> HIDE DEF R
  <2>. QED
    BY <2>1, <2>2, <2>3 DEF Recorded
<1>5. ASSUME NEW k \in 1 .. n
      PROVE  \E p \in places : new[k] = R(p)
  BY <1>2
<1> HIDE DEF R
<1>6. new \in Seq(Recorded) /\ Len(new) = n /\ DOMAIN new = 1 .. n
  <2>1. new \in [1 .. n -> Recorded]
    BY <1>2, <1>4, <1>5
  <2>. QED
    BY <1>1, <2>1, SeqDef
<1>7. ASSUME NEW k \in DOMAIN new
      PROVE  /\ new[k].status = "SUBMITTING"
             /\ \E p \in places : new[k].side = p.side /\ new[k].level = p.level
  BY <1>4, <1>5, <1>6, <1>7
<1> DEFINE At(k) == CHOOSE p \in places : new[k].side = p.side /\ new[k].level = p.level
           f == [k \in 1 .. n |-> At(k)]
<1>8. ASSUME NEW k \in 1 .. n
      PROVE  At(k) \in places /\ new[k].side = At(k).side /\ new[k].level = At(k).level
  BY <1>6, <1>7
<1> HIDE DEF At
<1>9. f \in Surjection(1 .. n, places)
  <2>1. f \in [1 .. n -> places]
    BY <1>8
  <2>2. ASSUME NEW p \in places PROVE \E k \in 1 .. n : f[k] = p
    <3>1. PICK k \in 1 .. n : new[k].side = p.side /\ new[k].level = p.level
      BY <1>3, <1>6
    <3>2. At(k) = p
      BY <1>8, <3>1 DEF OnePlaceASlot
    <3>. QED
      BY <3>2
  <2>. QED
    BY <2>1, <2>2 DEF Surjection
<1>10. f \in Injection(1 .. n, places)
  <2>1. IsFiniteSet(1 .. n) /\ Cardinality(1 .. n) = n
    BY <1>1, FS_Interval
  <2>. QED
    BY <1>9, <2>1, FS_SurjSameCardinalityImpliesInj DEF n
<1>11. ASSUME NEW k \in 1 .. n, NEW l \in 1 .. n, new[k].side = new[l].side, new[k].level = new[l].level
       PROVE  k = l
  <2>1. At(k) = At(l)
    BY <1>8, <1>11 DEF OnePlaceASlot
  <2>2. f[k] = f[l]
    BY <2>1
  <2>. QED
    BY <1>10, <2>2 DEF Injection, IsInjective
<1>. QED
  BY <1>6, <1>7, <1>11 DEF n

\* Places that were approved with table t, into slots where no order works that
\* has not been in doubt, leave a table as it should be.
LEMMA SubmitKept ==
  ASSUME NEW t, WellKept(t), NEW alert, NEW e \in Views(t, alert),
         NEW intents \in SUBSET Intents, OnePlaceASlot(intents),
         NEW new \in Created(Approved(intents, e)),
         \A p \in intents, i \in OpenIds(t) :
            t[i].side = p.side /\ t[i].level = p.level => t[i].doubted
  PROVE  /\ WellKept(t \o new)
         /\ Len(t \o new) = Len(t) + Cardinality(Approved(intents, e))
<1> DEFINE places == Approved(intents, e)
           u == t \o new
<1>0. places \in SUBSET intents /\ \A p \in places : Risk!Validate(p, e) = "approved"
  BY DEF Approved
<1>1. places \in SUBSET Intents /\ OnePlaceASlot(places)
  BY <1>0 DEF OnePlaceASlot
<1>2. t \in Seq(Recorded) /\ Len(t) \in Nat /\ DOMAIN t = 1 .. Len(t)
  BY TableFacts DEF WellKept
<1> HIDE DEF places
<1>3. /\ new \in Seq(Recorded) /\ Len(new) = Cardinality(places)
      /\ \A k \in DOMAIN new :
            /\ new[k].status = "SUBMITTING"
            /\ \E p \in places : new[k].side = p.side /\ new[k].level = p.level
      /\ \A k, l \in DOMAIN new :
            new[k].side = new[l].side /\ new[k].level = new[l].level => k = l
  <2>1. new \in Created(places)
    BY DEF places
  <2>. QED
    BY <1>1, <2>1, CreatedFacts
<1>4. /\ u \in Seq(Recorded) /\ Len(u) = Len(t) + Len(new)
      /\ \A i \in 1 .. Len(t) + Len(new) : u[i] = IF i <= Len(t) THEN t[i] ELSE new[i - Len(t)]
  <2>1. t \in Seq(Recorded) /\ new \in Seq(Recorded)
    BY <1>2, <1>3
  <2>. QED
    BY <2>1, ConcatProperties
<1>5. Len(new) \in Nat /\ DOMAIN new = 1 .. Len(new) /\ DOMAIN u = 1 .. Len(t) + Len(new)
  BY <1>3, <1>4
<1> HIDE DEF u
<1>6. \A i \in 1 .. Len(t) : i \in DOMAIN u /\ u[i] = t[i]
  BY <1>2, <1>4, <1>5
<1>7. ASSUME NEW i \in DOMAIN u, i \notin 1 .. Len(t)
      PROVE  i > Len(t) /\ i - Len(t) \in DOMAIN new /\ u[i] = new[i - Len(t)]
  BY <1>2, <1>4, <1>5, <1>7
<1>8. ASSUME NEW i \in DOMAIN u PROVE u[i].status = "UNKNOWN" => u[i].doubted
  <2>1. CASE i \in 1 .. Len(t)
    BY <1>2, <1>6, <2>1 DEF WellKept
  <2>2. CASE i \notin 1 .. Len(t)
    BY <1>3, <1>7, <2>2
  <2>. QED
    BY <2>1, <2>2
<1>9. ASSUME NEW i \in OpenIds(u), NEW j \in Live(u), i < j, u[i].side = u[j].side, u[i].level = u[j].level
      PROVE  u[i].doubted
  <2>0. i \in DOMAIN u /\ j \in DOMAIN u /\ i \in Int /\ j \in Int
    BY <1>5 DEF OpenIds, Live
  <2>1. CASE j \in 1 .. Len(t)
    <3>1. i \in 1 .. Len(t)
      BY <1>2, <1>5, <1>9, <2>0, <2>1
    <3>2. i \in OpenIds(t) /\ j \in Live(t) /\ t[i].side = t[j].side /\ t[i].level = t[j].level
      BY <1>2, <1>6, <1>9, <2>1, <3>1 DEF OpenIds, Live
    <3>3. t[i].doubted
      BY <1>9, <3>2 DEF WellKept
    <3>. QED
      BY <1>6, <3>1, <3>3
  <2>2. CASE j \notin 1 .. Len(t)
    <3>1. j > Len(t) /\ j - Len(t) \in DOMAIN new /\ u[j] = new[j - Len(t)]
      BY <1>7, <2>0, <2>2
    <3>2. CASE i \in 1 .. Len(t)
      <4>1. PICK p \in places : new[j - Len(t)].side = p.side /\ new[j - Len(t)].level = p.level
        BY <1>3, <3>1
      <4>2. i \in OpenIds(t) /\ t[i].side = p.side /\ t[i].level = p.level
        BY <1>2, <1>6, <1>9, <3>1, <3>2, <4>1 DEF OpenIds
      <4>3. t[i].doubted
        BY <1>0, <4>1, <4>2 DEF places
      <4>. QED
        BY <1>6, <3>2, <4>3
    <3>3. CASE i \notin 1 .. Len(t)
      <4>1. i - Len(t) \in DOMAIN new /\ u[i] = new[i - Len(t)]
        BY <1>7, <2>0, <3>3
      <4>2. i - Len(t) = j - Len(t)
        BY <1>3, <1>9, <3>1, <4>1
      <4>. QED
        BY <1>2, <1>9, <2>0, <4>2
    <3>. QED
      BY <3>2, <3>3
  <2>. QED
    BY <2>1, <2>2
<1>10. Cardinality(Live(u)) <= Limits.maxOpenOrders - 1 + Cardinality(Slots)
  <2> DEFINE added == Len(t) + 1 .. Len(t) + Len(new)
  <2>1. Live(u) \in SUBSET (Live(t) \cup added)
    <3>1. ASSUME NEW i \in Live(u), i \notin added PROVE i \in Live(t)
      <4>1. i \in DOMAIN u
        BY DEF Live
      <4>2. i \in 1 .. Len(t)
        BY <1>2, <1>5, <3>1, <4>1
      <4>. QED
        BY <1>2, <1>6, <4>2 DEF Live
    <3>. QED
      BY <3>1
  <2>2. IsFiniteSet(added) /\ Cardinality(added) = Len(new)
    <3>1. Len(t) + 1 \in Int /\ Len(t) + Len(new) \in Int
      BY <1>2, <1>5
    <3>. QED
      BY <1>2, <1>5, <3>1, FS_Interval
  <2> HIDE DEF added
  <2>3. IsFiniteSet(Live(t)) /\ Cardinality(Live(t)) \in Nat
    BY <1>2, TableFacts
  <2>4. Cardinality(Live(t) \cup added) <= Cardinality(Live(t)) + Len(new) /\ IsFiniteSet(Live(t) \cup added)
    <3>1. IsFiniteSet(Live(t) \cap added)
      BY <2>3, FS_Intersection
    <3>2. Cardinality(Live(t) \cap added) \in Nat
      BY <3>1, FS_CardinalityType
    <3>3. Cardinality(Live(t) \cup added) = Cardinality(Live(t)) + Len(new) - Cardinality(Live(t) \cap added)
      BY <2>2, <2>3, FS_Union
    <3>4. IsFiniteSet(Live(t) \cup added)
      BY <2>2, <2>3, FS_Union
    <3>. QED
      BY <1>5, <2>3, <3>2, <3>3, <3>4
  <2>5. Cardinality(Live(u)) <= Cardinality(Live(t)) + Len(new) /\ Cardinality(Live(u)) \in Nat
    <3>1. Cardinality(Live(u)) <= Cardinality(Live(t) \cup added) /\ IsFiniteSet(Live(u))
      BY <2>1, <2>4, FS_Subset
    <3>2. Cardinality(Live(u)) \in Nat /\ Cardinality(Live(t) \cup added) \in Nat
      BY <2>4, <3>1, FS_CardinalityType
    <3>. QED
      BY <1>5, <2>3, <2>4, <3>1, <3>2
  <2>6. Cardinality(Slots) \in Nat /\ Limits.maxOpenOrders \in Nat
    BY SlotsFinite, LoopAssumption
  <2>7. CASE places = {}
    <3>1. Len(new) = 0
      BY <1>1, <1>3, <2>7, PlacesBounded
    <3>2. Cardinality(Live(t)) <= Limits.maxOpenOrders - 1 + Cardinality(Slots)
      BY DEF WellKept
    <3>. QED
      BY <2>3, <2>5, <2>6, <3>1, <3>2
  <2>8. CASE places # {}
    <3>1. PICK p \in places : TRUE
      BY <2>8
    <3>2. /\ \A i \in DOMAIN t : t[i].status # "UNKNOWN"
          /\ Cardinality(OpenIds(t)) < Limits.maxOpenOrders
      <4>1. p \in Intents /\ Risk!Validate(p, e) = "approved"
        BY <1>0, <1>1 DEF places
      <4>. QED
        BY <1>2, <4>1, ApprovedFacts
    <3>3. Live(t) \in SUBSET OpenIds(t)
      BY <3>2 DEF Live, OpenIds, IsOpen
    <3>4. Cardinality(Live(t)) <= Cardinality(OpenIds(t)) /\ Cardinality(OpenIds(t)) \in Nat
      BY <1>2, <3>3, TableFacts, FS_Subset
    <3>5. Len(new) <= Cardinality(Slots)
      BY <1>1, <1>3, PlacesBounded
    <3>. QED
      BY <1>5, <2>3, <2>5, <2>6, <3>2, <3>4, <3>5
  <2>. QED
    BY <2>7, <2>8
<1>11. WellKept(u)
  BY <1>4, <1>8, <1>9, <1>10 DEF WellKept
<1>. QED
  BY <1>3, <1>4, <1>11 DEF u, places

-----------------------------------------------------------------------------
(* The inductive invariant.                                                  *)

\* An order in a cancel that the loop waits for is still marked so, unless a
\* report has taken it on; then it has been in doubt.
BatchIsMarked ==
    phase \in {"canceling", "shutdown"} =>
        \A i \in OpenIds(table) : i \in batch => table[i].status = "CANCELING" \/ table[i].doubted

\* Any order in the slot of a place that waits for the cancels is among them.
SlotsCleared ==
    \A p \in pending, i \in OpenIds(table) :
        table[i].side = p.side /\ table[i].level = p.level => i \in batch \/ table[i].doubted

\* cancel_all has named every working order.
AllNamed == phase = "shutdown" => \A i \in OpenIds(table) : i \in batch \/ table[i].doubted

LoopInv ==
    /\ TypeOK
    /\ WellKept(table)
    /\ pending \in SUBSET Intents /\ OnePlaceASlot(pending)
    /\ BatchIsMarked
    /\ SlotsCleared
    /\ AllNamed
    /\ ShutdownLeavesOnlyDoubt

\* It implies what the runs check of the table.
LEMMA LoopInvImplies == LoopInv => TypeOK /\ OnePerSlotUnlessDoubted /\ OpenCountBounded
<1> SUFFICES ASSUME LoopInv PROVE TypeOK /\ OnePerSlotUnlessDoubted /\ OpenCountBounded
  OBVIOUS
<1>1. WellKept(table) /\ table \in Seq(Recorded) /\ OpenIds(table) \in SUBSET (1 .. Len(table))
  BY TableFacts DEF LoopInv, WellKept
<1>2. ASSUME NEW i \in OpenIds(table), NEW j \in OpenIds(table), i < j, table[i].level # NoLevel,
             table[i].side = table[j].side, table[i].level = table[j].level
      PROVE  table[i].doubted
  <2>1. j \in Live(table)
    BY <1>1, <1>2 DEF Live, OpenIds, IsOpen
  <2>. QED
    BY <1>1, <1>2, <2>1 DEF WellKept
<1>3. ASSUME NEW i \in OpenIds(table), NEW j \in OpenIds(table), i # j, table[i].level # NoLevel,
             table[i].side = table[j].side, table[i].level = table[j].level
      PROVE  table[i].doubted \/ table[j].doubted
  <2>1. i < j \/ j < i
    <3>1. i \in Int /\ j \in Int
      BY <1>1
    <3>. QED
      BY <1>3, <3>1
  <2>. QED
    BY <1>2, <1>3, <2>1
<1>4. OpenCountBounded
  BY <1>1 DEF WellKept, OpenCountBounded, Live, Ids
<1>. QED
  BY <1>3, <1>4 DEF LoopInv, OnePerSlotUnlessDoubted

LEMMA StatusesTyped ==
  ASSUME NEW t, WellKept(t)
  PROVE  /\ \A i \in DOMAIN t : t[i].status \in Statuses
         /\ Len(t) \in Nat /\ DOMAIN t = 1 .. Len(t) /\ OpenIds(t) \in SUBSET (DOMAIN t)
BY TableFacts DEF WellKept

LEMMA InitHolds == Init => LoopInv
<1> SUFFICES ASSUME Init PROVE LoopInv
  OBVIOUS
<1>1. WellKept(table)
  BY LoopAssumption DEF Init
<1>2. TypeOK
  <2>1. \A i \in Ids : table[i].status \in Statuses
    BY <1>1, StatusesTyped DEF Ids
  <2>2. last \in [Slots -> Nat] /\ tick \in Nat
    BY LoopAssumption DEF Init
  <2>. QED
    BY <2>1, <2>2 DEF Init, TypeOK, Phases
<1>3. pending \in SUBSET Intents /\ OnePlaceASlot(pending) /\ BatchIsMarked /\ SlotsCleared
  BY DEF Init, OnePlaceASlot, BatchIsMarked, SlotsCleared
<1>4. AllNamed /\ ShutdownLeavesOnlyDoubt
  BY DEF Init, AllNamed, ShutdownLeavesOnlyDoubt
<1>. QED
  BY <1>1, <1>2, <1>3, <1>4 DEF LoopInv

\* A step that leaves the records alone, and does not end the run.
Untouched ==
    /\ UNCHANGED <<mode, table, batch, pending>>
    /\ phase' = phase \/ /\ phase \in {"starting", "reconciling", "ticking", "settling"}
                         /\ phase' \in {"reconciling", "ticking", "ending"}
    /\ last' \in [Slots -> Nat] /\ tick' \in Nat
    /\ safe' = safe /\ alarm' = alarm /\ stop' \in BOOLEAN
    /\ failed' = failed /\ stream' \in {"off", "running", "ended"}
    /\ phase = "stopped" => stream' = stream

LEMMA UntouchedKeeps ==
  ASSUME LoopInv, Untouched
  PROVE  LoopInv'
<1>1. WellKept(table)' /\ (pending \in SUBSET Intents)' /\ OnePlaceASlot(pending)'
  BY DEF LoopInv, Untouched
<1>2. TypeOK'
  <2>1. (\A i \in Ids : table[i].status \in Statuses)' /\ (batch \subseteq Ids)'
    BY DEF LoopInv, TypeOK, Untouched, Ids
  <2>. QED
    BY <2>1 DEF LoopInv, TypeOK, Untouched, Phases
<1>3. BatchIsMarked' /\ SlotsCleared' /\ AllNamed'
  BY DEF LoopInv, Untouched, BatchIsMarked, SlotsCleared, AllNamed
<1>4. ShutdownLeavesOnlyDoubt'
  BY DEF LoopInv, Untouched, ShutdownLeavesOnlyDoubt
<1>. QED
  BY <1>1, <1>2, <1>3, <1>4 DEF LoopInv

LEMMA QuietSteps ==
  ASSUME LoopInv, Connect \/ RequestFails \/ Settled \/ LoopEnds \/ RequestStop \/ UNCHANGED vars
  PROVE  LoopInv'
<1>0. TypeOK
  BY DEF LoopInv
<1>1. CASE Connect
  BY <1>0, <1>1, UntouchedKeeps DEF Connect, Untouched, quoting, TypeOK
<1>2. CASE RequestFails
  BY <1>0, <1>2, UntouchedKeeps DEF RequestFails, Untouched, quoting, mood, TypeOK
<1>3. CASE Settled
  <2>1. last' \in [Slots -> Nat] /\ tick' \in Nat
    BY <1>0, <1>3, LoopAssumption DEF Settled, TypeOK
  <2>. QED
    BY <1>0, <1>3, <2>1, UntouchedKeeps DEF Settled, Untouched, mood, TypeOK
<1>4. CASE LoopEnds
  BY <1>0, <1>4, UntouchedKeeps DEF LoopEnds, Untouched, quoting, mood, TypeOK
<1>5. CASE RequestStop
  BY <1>0, <1>5, UntouchedKeeps DEF RequestStop, Untouched, quoting, TypeOK, Waiting
<1>6. CASE UNCHANGED vars
  BY <1>0, <1>6, UntouchedKeeps DEF vars, Untouched, TypeOK
<1>. QED
  BY <1>1, <1>2, <1>3, <1>4, <1>5, <1>6

\* The stream's steps: the loop waits for what it waited for.
LEMMA StreamKeeps ==
  ASSUME LoopInv, WellKept(table'), Progress(table, table'), phase \in Waiting,
         UNCHANGED <<mode, phase, batch, quoting, stop, failed>>,
         safe' \in BOOLEAN, alarm' \in BOOLEAN, stream' \in {"off", "running", "ended"}
  PROVE  LoopInv'
<1>1. pending' = pending /\ last' = last /\ tick' = tick
  BY DEF quoting
<1>2. TypeOK /\ BatchIsMarked /\ SlotsCleared /\ AllNamed /\ WellKept(table)
  BY DEF LoopInv
<1>3. TypeOK'
  <2>1. (\A i \in Ids : table[i].status \in Statuses)'
    BY StatusesTyped DEF Ids
  <2>2. (batch \subseteq Ids)'
    BY <1>2 DEF TypeOK, Ids, Progress
  <2>3. /\ (batch # {} <=> phase \in {"canceling", "submitting", "shutdown"})'
        /\ (pending # {} => phase = "canceling")'
    BY <1>1, <1>2 DEF TypeOK
  <2>4. (last \in [Slots -> Nat] /\ tick \in Nat)' /\ (mode \in Modes /\ phase \in Phases)'
    BY <1>1, <1>2 DEF TypeOK
  <2>5. (safe \in BOOLEAN /\ alarm \in BOOLEAN /\ stop \in BOOLEAN /\ failed \in BOOLEAN)'
    BY <1>2 DEF TypeOK
  <2>. QED
    BY <2>1, <2>2, <2>3, <2>4, <2>5 DEF TypeOK
<1>4. BatchIsMarked'
  BY <1>2 DEF BatchIsMarked, Progress
<1>5. SlotsCleared'
  BY <1>1, <1>2 DEF SlotsCleared, Progress
<1>6. AllNamed'
  BY <1>2 DEF AllNamed, Progress
<1>7. ShutdownLeavesOnlyDoubt'
  BY DEF Waiting, ShutdownLeavesOnlyDoubt
<1>8. (pending \in SUBSET Intents)' /\ OnePlaceASlot(pending)'
  BY <1>1 DEF LoopInv
<1>. QED
  BY <1>3, <1>4, <1>5, <1>6, <1>7, <1>8 DEF LoopInv

LEMMA ProgressReflexive == \A t : Progress(t, t)
BY DEF Progress, OpenIds

LEMMA StreamSteps ==
  ASSUME LoopInv, (\E i \in Records, new \in Reported : StreamReport(i, new)) \/ StreamOrphan
  PROVE  LoopInv'
<1>1. WellKept(table) /\ TypeOK
  BY DEF LoopInv
<1>2. ASSUME NEW i \in Records, NEW new \in Reported, StreamReport(i, new) PROVE LoopInv'
  <2>1. WellKept(table') /\ Progress(table, table')
    <3>1. CASE ~CanTransition(table[i].status, new)
      BY <1>1, <1>2, <3>1, ProgressReflexive DEF StreamReport
    <3>2. CASE CanTransition(table[i].status, new)
      <4>1. table' = AfterMoves({i}, All({i}, new)) /\ {i} \in SUBSET Ids
        BY <1>2, <3>2 DEF StreamReport
      <4>2. \A k \in {i} : /\ All({i}, new)[k] \in Statuses
                           /\ CanTransition(table[k].status, All({i}, new)[k])
        BY <3>2 DEF All, Reported, Statuses, NonTerminal, Terminal
      <4>. QED
        BY <1>1, <4>1, <4>2, AfterMovesKept
    <3>. QED
      BY <3>1, <3>2
  <2>2. safe' \in BOOLEAN /\ alarm' \in BOOLEAN
    <3>1. alarm' = (alarm \/ ~CanTransition(table[i].status, new) \/ new = "UNKNOWN") /\ safe' = (safe \/ alarm')
      BY <1>2, Zenon DEF StreamReport
    <3>. QED
      BY <3>1
  <2>3. stream' \in {"off", "running", "ended"}
    BY <1>2 DEF StreamReport, AfterMessage
  <2>. QED
    BY <1>2, <2>1, <2>2, <2>3, StreamKeeps DEF StreamReport
<1>3. CASE StreamOrphan
  <2>1. WellKept(table') /\ Progress(table, table')
    BY <1>1, <1>3, OrphanJoins DEF StreamOrphan
  <2>2. stream' \in {"off", "running", "ended"}
    BY <1>3 DEF StreamOrphan, AfterMessage
  <2>. QED
    BY <1>3, <2>1, <2>2, StreamKeeps DEF StreamOrphan
<1>. QED
  BY <1>2, <1>3

\* A step after which no cancel is waited for.
LEMMA AfterCall ==
  ASSUME WellKept(table'), pending' = {}, batch' \subseteq DOMAIN table',
         phase' \in {"ticking", "submitting", "settling", "ending", "stopped"},
         batch' # {} <=> phase' = "submitting",
         mode' \in Modes, last' \in [Slots -> Nat], tick' \in Nat,
         safe' \in BOOLEAN, alarm' \in BOOLEAN, stop' \in BOOLEAN, failed' \in BOOLEAN,
         stream' \in {"off", "running", "ended"},
         phase' = "stopped" /\ ~failed' =>
            (\A i \in OpenIds(table') : table'[i].doubted) /\ stream' = "ended"
  PROVE  LoopInv'
<1>1. TypeOK'
  <2>1. (\A i \in Ids : table[i].status \in Statuses)'
    BY StatusesTyped DEF Ids
  <2>. QED
    BY <2>1 DEF TypeOK, Ids, Phases
<1>2. (pending \in SUBSET Intents)' /\ OnePlaceASlot(pending)' /\ SlotsCleared'
  BY DEF OnePlaceASlot, SlotsCleared
<1>3. BatchIsMarked' /\ AllNamed' /\ ShutdownLeavesOnlyDoubt'
  BY DEF BatchIsMarked, AllNamed, ShutdownLeavesOnlyDoubt
<1>. QED
  BY <1>1, <1>2, <1>3 DEF LoopInv

\* The targets that the loops move orders to are statuses.
LEMMA TargetsTyped ==
  ASSUME WellKept(table)
  PROVE  /\ \A listed : \A i \in Ids : Target(listed)[i] \in Statuses
         /\ \A accepted \in BOOLEAN : batch \subseteq Ids =>
               \A i \in batch : CancelTargets(accepted)[i] \in Statuses
         /\ \A S : \A i \in S : All(S, "CANCELING")[i] = "CANCELING" /\ "CANCELING" \in Statuses
         /\ \A target \in [batch -> SubmitStatuses] : \A i \in batch : target[i] \in Statuses
<1>1. \A i \in Ids : table[i].status \in Statuses
  BY StatusesTyped DEF Ids
<1>2. {"OPEN", "UNKNOWN", "CANCELED", "CANCELING", "REJECTED"} \subseteq Statuses
  BY DEF Statuses, NonTerminal, Terminal
<1>3. ASSUME NEW listed, NEW i \in Ids PROVE Target(listed)[i] \in Statuses
  BY <1>1, <1>2 DEF Target
<1>4. ASSUME NEW accepted \in BOOLEAN, batch \subseteq Ids, NEW i \in batch
      PROVE  CancelTargets(accepted)[i] \in Statuses
  BY <1>1, <1>2, <1>4 DEF CancelTargets
<1>5. ASSUME NEW S, NEW i \in S PROVE All(S, "CANCELING")[i] = "CANCELING"
  BY DEF All
<1>6. ASSUME NEW target \in [batch -> SubmitStatuses], NEW i \in batch PROVE target[i] \in Statuses
  BY <1>2 DEF SubmitStatuses
<1>. QED
  BY <1>2, <1>3, <1>4, <1>5, <1>6

\* A loop that completes, and one that breaks off.
LEMMA CompletesKeeps ==
  ASSUME WellKept(table), NEW S \in SUBSET Ids, NEW target, Completes(S, target),
         \A i \in S : target[i] \in Statuses
  PROVE  /\ WellKept(AfterMoves(S, target)) /\ Progress(table, AfterMoves(S, target))
         /\ DOMAIN AfterMoves(S, target) = Ids /\ Len(AfterMoves(S, target)) = Len(table)
         /\ \A i \in S : AfterMoves(S, target)[i].status = target[i]
<1>1. \A i \in S : target[i] \in Statuses /\ CanTransition(table[i].status, target[i])
  BY DEF Completes
<1>. QED
  BY <1>1, AfterMovesKept, AfterMovesStatus

LEMMA BreaksKeeps ==
  ASSUME WellKept(table), NEW S \in SUBSET Ids, NEW target, NEW done, Breaks(S, target, done),
         \A i \in S : target[i] \in Statuses
  PROVE  /\ WellKept(AfterMoves(done, target)) /\ Progress(table, AfterMoves(done, target))
         /\ DOMAIN AfterMoves(done, target) = Ids
<1>1. done \in SUBSET Ids
      /\ \A i \in done : target[i] \in Statuses /\ CanTransition(table[i].status, target[i])
  BY DEF Breaks
<1>. QED
  BY <1>1, AfterMovesKept

LEMMA StartSteps ==
  ASSUME LoopInv,
         \/ \E listed \in SUBSET Records, o \in Listings : Reconcile(listed, o)
         \/ \E listed, done \in SUBSET Records : ReconcileRefused(listed, done)
  PROVE  LoopInv'
<1>1. WellKept(table) /\ TypeOK
  BY DEF LoopInv
<1>2. ASSUME NEW listed, NEW o \in Listings, Reconcile(listed, o) PROVE LoopInv'
  <2>1. WellKept(AfterMoves(Ids, Target(listed)))
    BY <1>1, <1>2, TargetsTyped, CompletesKeeps DEF Reconcile
  <2>2. o \in Seq({Orphan})
    BY LoopAssumption
  <2>3. WellKept(table')
    BY <1>2, <2>1, <2>2, OrphansJoin DEF Reconcile
  <2>4. safe' \in BOOLEAN /\ alarm' \in BOOLEAN
    <3>1. alarm' = (alarm \/ AnyUnknown(table')) /\ safe' = (safe \/ alarm')
      BY <1>2, Zenon DEF Reconcile
    <3>. QED
      BY <3>1
  <2>5. /\ mode' = mode /\ batch' = {} /\ pending' = {} /\ last' = last /\ tick' = tick /\ stop' = stop
        /\ stream' = stream /\ failed' = failed /\ phase' = "ticking"
    BY <1>1, <1>2 DEF Reconcile, quoting, TypeOK
  <2>. QED
    BY <1>1, <2>3, <2>4, <2>5, AfterCall DEF TypeOK
<1>3. ASSUME NEW listed, NEW done, ReconcileRefused(listed, done) PROVE LoopInv'
  <2>1. WellKept(table')
    BY <1>1, <1>3, TargetsTyped, BreaksKeeps DEF ReconcileRefused
  <2>2. /\ mode' = mode /\ batch' = {} /\ pending' = {} /\ last' = last /\ tick' = tick /\ stop' = stop
        /\ stream' = stream /\ failed' = failed /\ safe' = safe /\ alarm' = alarm /\ phase' = "ending"
    BY <1>1, <1>3 DEF ReconcileRefused, quoting, mood, TypeOK
  <2>. QED
    BY <1>1, <2>1, <2>2, AfterCall DEF TypeOK
<1>. QED
  BY <1>2, <1>3

\* The orders of a tick are placed.
LEMMA SubmitAllKeeps ==
  ASSUME NEW t, WellKept(t), NEW intents \in SUBSET Intents, OnePlaceASlot(intents),
         SubmitAll(intents, t),
         \A p \in intents, i \in OpenIds(t) :
            t[i].side = p.side /\ t[i].level = p.level => t[i].doubted
  PROVE  /\ WellKept(table') /\ batch' \subseteq DOMAIN table'
         /\ phase' \in {"submitting", "settling"} /\ (batch' # {} <=> phase' = "submitting")
<1>1. PICK e \in Views(t, safe') :
         LET places == Approved(intents, e)
         IN  /\ \E new \in Created(places) : table' = t \o new
             /\ batch' = Len(t) + 1 .. Len(t) + Cardinality(places)
             /\ phase' = IF places = {} THEN "settling" ELSE "submitting"
  BY DEF SubmitAll
<1> DEFINE places == Approved(intents, e)
<1>2. PICK new \in Created(places) : table' = t \o new
  BY <1>1
<1>3. /\ batch' = Len(t) + 1 .. Len(t) + Cardinality(places)
      /\ phase' = IF places = {} THEN "settling" ELSE "submitting"
  BY <1>1
<1>4. WellKept(t \o new) /\ Len(t \o new) = Len(t) + Cardinality(places)
  BY SubmitKept
<1>5. places \in SUBSET Intents /\ OnePlaceASlot(places)
  BY DEF Approved, OnePlaceASlot
<1> HIDE DEF places
<1>6. Cardinality(places) \in Nat /\ (places = {} <=> Cardinality(places) = 0)
  BY <1>5, PlacesBounded
<1>7. Len(t) \in Nat /\ DOMAIN (t \o new) = 1 .. Len(t) + Cardinality(places)
  BY <1>4, StatusesTyped
<1>8. batch' \subseteq DOMAIN table' /\ (batch' # {} <=> places # {})
  BY <1>2, <1>3, <1>6, <1>7
<1>. QED
  BY <1>2, <1>3, <1>4, <1>8

\* A tick: it clears the slots of its places before it fills them.
LEMMA TickKeeps ==
  ASSUME LoopInv, NEW wanted \in Wanted, NEW admin \in BOOLEAN, Tick(wanted, admin)
  PROVE  LoopInv'
<1> DEFINE places == Quoted(wanted)
           cancels == {o.id : o \in Dropped(wanted)}
<1>1. WellKept(table) /\ TypeOK
  BY DEF LoopInv
<1>2. places \in SUBSET Intents /\ OnePlaceASlot(places)
  BY QuotedFacts
<1>3. cancels \in SUBSET OpenIds(table) /\ cancels \in SUBSET Ids
  BY <1>1, DroppedWork DEF OpenIds, Ids
<1>4. /\ safe' = (admin \/ alarm)
      /\ last' = QE!Requoted(last, places, tick)
      /\ \/ cancels = {} /\ pending' = {} /\ SubmitAll(places, table)
         \/ cancels # {} /\ pending' = places /\ MarkCanceling(cancels, "canceling")
         \/ pending' = {} /\ \E done \in SUBSET cancels : MarkRefused(cancels, done, "ending")
      /\ UNCHANGED <<mode, tick, alarm, stop, stream, failed, reports>>
  BY DEF Tick, Quoted, Dropped
<1>5. \A p \in places, i \in OpenIds(table) :
         table[i].side = p.side /\ table[i].level = p.level =>
            i \in cancels \/ (table[i].doubted /\ cancels # {})
  <2>1. ASSUME NEW p \in places, NEW i \in OpenIds(table), table[i].side = p.side, table[i].level = p.level
        PROVE  i \in cancels \/ (table[i].doubted /\ Dropped(wanted) # {})
    BY <1>1, <2>1, SlotIsCleared
  <2>2. Dropped(wanted) # {} => cancels # {}
    OBVIOUS
  <2>. QED
    BY <2>1, <2>2
<1> HIDE DEF places, cancels
<1>6. last' \in [Slots -> Nat]
  BY <1>1, <1>4 DEF TypeOK, QE!Requoted
<1>7. safe' \in BOOLEAN /\ alarm' \in BOOLEAN /\ stop' \in BOOLEAN /\ failed' \in BOOLEAN
      /\ mode' \in Modes /\ tick' \in Nat /\ stream' \in {"off", "running", "ended"}
  BY <1>1, <1>4 DEF TypeOK
<1>8. CASE cancels = {} /\ pending' = {} /\ SubmitAll(places, table)
  <2>1. \A p \in places, i \in OpenIds(table) :
           table[i].side = p.side /\ table[i].level = p.level => table[i].doubted
    BY <1>5, <1>8
  <2>2. /\ WellKept(table') /\ batch' \subseteq DOMAIN table'
        /\ phase' \in {"submitting", "settling"} /\ (batch' # {} <=> phase' = "submitting")
    BY <1>1, <1>2, <1>8, <2>1, SubmitAllKeeps
  <2>. QED
    BY <1>6, <1>7, <1>8, <2>2, AfterCall
<1>9. CASE cancels # {} /\ pending' = places /\ MarkCanceling(cancels, "canceling")
  <2>1. /\ Completes(cancels, All(cancels, "CANCELING"))
        /\ table' = AfterMoves(cancels, All(cancels, "CANCELING"))
        /\ batch' = cancels /\ phase' = "canceling"
    BY <1>9 DEF MarkCanceling
  <2>2. /\ WellKept(table') /\ Progress(table, table') /\ DOMAIN table' = Ids
        /\ \A i \in cancels : table'[i].status = "CANCELING"
    BY <1>1, <1>3, <2>1, TargetsTyped, CompletesKeeps
  <2>3. TypeOK'
    <3>1. (\A i \in Ids : table[i].status \in Statuses)'
      BY <2>2, StatusesTyped DEF Ids
    <3>2. (batch \subseteq Ids)' /\ batch' # {}
      BY <1>3, <1>9, <2>1, <2>2 DEF Ids
    <3>. QED
      BY <1>6, <1>7, <2>1, <3>1, <3>2 DEF TypeOK, Phases
  <2>4. BatchIsMarked'
    BY <2>1, <2>2 DEF BatchIsMarked
  <2>5. SlotsCleared'
    <3>1. ASSUME NEW p \in places, NEW i \in OpenIds(table'),
                 table'[i].side = p.side, table'[i].level = p.level, ~table'[i].doubted
          PROVE  i \in cancels
      <4>1. /\ i \in OpenIds(table) /\ ~table[i].doubted
            /\ table[i].side = p.side /\ table[i].level = p.level
        BY <2>2, <3>1 DEF Progress
      <4>. QED
        BY <1>5, <4>1
    <3>. QED
      BY <1>9, <2>1, <3>1 DEF SlotsCleared
  <2>6. AllNamed' /\ ShutdownLeavesOnlyDoubt'
    BY <2>1 DEF AllNamed, ShutdownLeavesOnlyDoubt
  <2>7. (pending \in SUBSET Intents)' /\ OnePlaceASlot(pending)'
    BY <1>2, <1>9
  <2>. QED
    BY <2>2, <2>3, <2>4, <2>5, <2>6, <2>7 DEF LoopInv
<1>10. CASE pending' = {} /\ \E done \in SUBSET cancels : MarkRefused(cancels, done, "ending")
  <2>1. PICK done \in SUBSET cancels : MarkRefused(cancels, done, "ending")
    BY <1>10
  <2>2. /\ Breaks(cancels, All(cancels, "CANCELING"), done)
        /\ table' = AfterMoves(done, All(cancels, "CANCELING"))
        /\ batch' = {} /\ phase' = "ending"
    BY <2>1 DEF MarkRefused
  <2>3. WellKept(table')
    BY <1>1, <1>3, <2>2, TargetsTyped, BreaksKeeps
  <2>. QED
    BY <1>6, <1>7, <1>10, <2>2, <2>3, AfterCall
<1>. QED
  BY <1>4, <1>8, <1>9, <1>10

\* What the answer of a batch cancel leaves of the orders in it: none works,
\* except one that has been in doubt.
LEMMA CanceledFacts ==
  ASSUME LoopInv, phase \in {"canceling", "shutdown"}, NEW accepted \in BOOLEAN,
         Completes(batch, CancelTargets(accepted)),
         NEW u, u = AfterMoves(batch, CancelTargets(accepted))
  PROVE  /\ WellKept(u) /\ Progress(table, u) /\ Len(u) = Len(table)
         /\ \A i \in OpenIds(u) : i \in batch => u[i].doubted
<1>1. WellKept(table) /\ TypeOK /\ batch \in SUBSET Ids
  BY DEF LoopInv, TypeOK
<1>2. /\ WellKept(u) /\ Progress(table, u) /\ Len(u) = Len(table)
      /\ \A i \in batch : u[i].status = CancelTargets(accepted)[i]
  BY <1>1, TargetsTyped, CompletesKeeps
<1>3. ASSUME NEW i \in OpenIds(u), i \in batch PROVE u[i].doubted
  <2>1. IsOpen(u[i].status) /\ u[i].status = CancelTargets(accepted)[i]
    BY <1>2, <1>3 DEF OpenIds
  <2>2. u[i].status # "CANCELED" /\ u[i].status # "UNKNOWN"
    BY <2>1 DEF IsOpen, NonTerminal
  <2>3. u[i].status = table[i].status /\ table[i].status # "CANCELING"
    BY <1>3, <2>1, <2>2 DEF CancelTargets
  <2>4. \/ u[i].doubted
        \/ i \in OpenIds(table) /\ (table[i].doubted => u[i].doubted)
    BY <1>2 DEF Progress
  <2>5. i \in OpenIds(table) => table[i].doubted
    BY <1>3, <2>3 DEF LoopInv, BatchIsMarked
  <2>. QED
    BY <2>4, <2>5
<1>. QED
  BY <1>2, <1>3

LEMMA CancelSteps ==
  ASSUME LoopInv,
         \/ \E accepted \in BOOLEAN : CancelAnswered(accepted)
         \/ \E accepted \in BOOLEAN, done \in SUBSET Records : CancelRaises(accepted, done)
  PROVE  LoopInv'
<1>1. WellKept(table) /\ TypeOK /\ batch \in SUBSET Ids
  BY DEF LoopInv, TypeOK
<1>2. ASSUME NEW accepted \in BOOLEAN, CancelAnswered(accepted) PROVE LoopInv'
  <2> DEFINE u == AfterMoves(batch, CancelTargets(accepted))
  <2>1. /\ phase = "canceling" /\ Completes(batch, CancelTargets(accepted))
        /\ SubmitAll(pending, u) /\ pending' = {} /\ safe' = safe
        /\ UNCHANGED <<mode, last, tick, alarm, stop, stream, failed, reports>>
    BY <1>2 DEF CancelAnswered
  <2>2. /\ WellKept(u) /\ Progress(table, u)
        /\ \A i \in OpenIds(u) : i \in batch => u[i].doubted
    BY <2>1, CanceledFacts
  <2> HIDE DEF u
  <2>3. ASSUME NEW p \in pending, NEW i \in OpenIds(u), u[i].side = p.side, u[i].level = p.level
        PROVE  u[i].doubted
    <3>1. \/ u[i].doubted
          \/ i \in OpenIds(table) /\ table[i].side = p.side /\ table[i].level = p.level
             /\ (table[i].doubted => u[i].doubted)
      BY <2>2, <2>3 DEF Progress
    <3>2. SlotsCleared
      BY DEF LoopInv
    <3>. QED
      BY <2>2, <3>1, <3>2 DEF SlotsCleared
  <2>4. pending \in SUBSET Intents /\ OnePlaceASlot(pending)
    BY DEF LoopInv
  <2>5. /\ WellKept(table') /\ batch' \subseteq DOMAIN table'
        /\ phase' \in {"submitting", "settling"} /\ (batch' # {} <=> phase' = "submitting")
    BY <2>1, <2>2, <2>3, <2>4, SubmitAllKeeps
  <2>. QED
    BY <1>1, <2>1, <2>5, AfterCall DEF TypeOK
<1>3. ASSUME NEW accepted \in BOOLEAN, NEW done, CancelRaises(accepted, done) PROVE LoopInv'
  <2>1. /\ Breaks(batch, CancelTargets(accepted), done)
        /\ table' = AfterMoves(done, CancelTargets(accepted))
        /\ batch' = {} /\ pending' = {} /\ phase' = "ending"
        /\ UNCHANGED <<mode, last, tick, safe, alarm, stop, stream, failed, reports>>
    BY <1>3 DEF CancelRaises, mood
  <2>2. WellKept(table')
    BY <1>1, <2>1, TargetsTyped, BreaksKeeps
  <2>. QED
    BY <1>1, <2>1, <2>2, AfterCall DEF TypeOK
<1>. QED
  BY <1>2, <1>3

LEMMA SubmitSteps ==
  ASSUME LoopInv,
         \/ \E target \in [batch -> SubmitStatuses] : SubmitAnswered(target)
         \/ \E target \in [batch -> SubmitStatuses], done \in SUBSET Records : SubmitRaises(target, done)
  PROVE  LoopInv'
<1>1. WellKept(table) /\ TypeOK /\ batch \in SUBSET Ids
  BY DEF LoopInv, TypeOK
<1>2. ASSUME NEW target \in [batch -> SubmitStatuses], SubmitAnswered(target) PROVE LoopInv'
  <2>1. /\ Completes(batch, target) /\ table' = AfterMoves(batch, target)
        /\ batch' = {} /\ pending' = {} /\ phase' = "settling"
        /\ UNCHANGED <<mode, last, tick, safe, alarm, stop, stream, failed, reports>>
    BY <1>1, <1>2 DEF SubmitAnswered, quoting, mood, TypeOK
  <2>2. WellKept(table')
    BY <1>1, <2>1, TargetsTyped, CompletesKeeps
  <2>. QED
    BY <1>1, <2>1, <2>2, AfterCall DEF TypeOK
<1>3. ASSUME NEW target \in [batch -> SubmitStatuses], NEW done, SubmitRaises(target, done) PROVE LoopInv'
  <2>1. /\ Breaks(batch, target, done) /\ table' = AfterMoves(done, target)
        /\ batch' = {} /\ pending' = {} /\ phase' = "ending"
        /\ UNCHANGED <<mode, last, tick, safe, alarm, stop, stream, failed, reports>>
    BY <1>1, <1>3 DEF SubmitRaises, quoting, mood, TypeOK
  <2>2. WellKept(table')
    BY <1>1, <2>1, TargetsTyped, BreaksKeeps
  <2>. QED
    BY <1>1, <2>1, <2>2, AfterCall DEF TypeOK
<1>. QED
  BY <1>2, <1>3

LEMMA ShutdownSteps ==
  ASSUME LoopInv,
         \/ CancelAll
         \/ \E accepted \in BOOLEAN : ShutdownAnswered(accepted)
         \/ \E accepted \in BOOLEAN, done \in SUBSET Records : ShutdownRaises(accepted, done)
  PROVE  LoopInv'
<1>1. WellKept(table) /\ TypeOK /\ batch \in SUBSET Ids
  BY DEF LoopInv, TypeOK
<1>2. LeftOpen \in SUBSET Ids
  BY DEF LeftOpen, OpenIds, Ids
<1>3. CASE CancelAll
  <2>1. /\ phase = "ending" /\ pending' = {} /\ pending = {}
        /\ UNCHANGED <<mode, last, tick, safe, alarm, stop, reports>>
    BY <1>1, <1>3 DEF CancelAll, quoting, TypeOK
  <2>2. CASE LeftOpen # {} /\ MarkCanceling(LeftOpen, "shutdown") /\ UNCHANGED <<stream, failed>>
    <3>1. /\ Completes(LeftOpen, All(LeftOpen, "CANCELING"))
          /\ table' = AfterMoves(LeftOpen, All(LeftOpen, "CANCELING"))
          /\ batch' = LeftOpen /\ phase' = "shutdown"
      BY <2>2 DEF MarkCanceling
    <3>2. /\ WellKept(table') /\ Progress(table, table') /\ DOMAIN table' = Ids
          /\ \A i \in LeftOpen : table'[i].status = "CANCELING"
      <4>1. \A i \in LeftOpen : /\ All(LeftOpen, "CANCELING")[i] = "CANCELING"
                               /\ All(LeftOpen, "CANCELING")[i] \in Statuses
        BY <1>1, TargetsTyped
      <4> DEFINE target == All(LeftOpen, "CANCELING")
                 u == AfterMoves(LeftOpen, target)
      <4>2. /\ WellKept(u) /\ Progress(table, u) /\ DOMAIN u = Ids
            /\ \A i \in LeftOpen : u[i].status = target[i]
        BY <1>1, <1>2, <3>1, <4>1, CompletesKeeps
      <4>. QED
        BY <3>1, <4>1, <4>2
    <3>3. TypeOK'
      <4>1. (\A i \in Ids : table[i].status \in Statuses)'
        BY <3>2, StatusesTyped DEF Ids
      <4>2. (batch \subseteq Ids)' /\ batch' # {}
        BY <1>2, <2>2, <3>1, <3>2 DEF Ids
      <4>. QED
        BY <1>1, <2>1, <2>2, <3>1, <4>1, <4>2 DEF TypeOK, Phases
    <3>4. BatchIsMarked'
      BY <3>1, <3>2 DEF BatchIsMarked
    <3>5. AllNamed'
      BY <3>1, <3>2 DEF AllNamed, Progress, LeftOpen
    <3>6. SlotsCleared' /\ ShutdownLeavesOnlyDoubt' /\ (pending \in SUBSET Intents)'
          /\ OnePlaceASlot(pending)'
      BY <2>1, <3>1 DEF SlotsCleared, ShutdownLeavesOnlyDoubt, OnePlaceASlot
    <3>. QED
      BY <3>2, <3>3, <3>4, <3>5, <3>6 DEF LoopInv
  <2>3. CASE LeftOpen = {} /\ Close /\ UNCHANGED <<table, batch, failed>>
    <3>1. /\ WellKept(table') /\ batch' = {} /\ phase' = "stopped" /\ stream' = "ended"
          /\ OpenIds(table') = {} /\ failed' = failed
      BY <1>1, <2>1, <2>3 DEF Close, LeftOpen, TypeOK
    <3>. QED
      BY <1>1, <2>1, <3>1, AfterCall DEF TypeOK
  <2>4. CASE /\ \E done \in SUBSET LeftOpen : MarkRefused(LeftOpen, done, "stopped")
             /\ failed' = TRUE /\ UNCHANGED stream
    <3>1. PICK done \in SUBSET LeftOpen : MarkRefused(LeftOpen, done, "stopped")
      BY <2>4
    <3>2. /\ Breaks(LeftOpen, All(LeftOpen, "CANCELING"), done)
          /\ table' = AfterMoves(done, All(LeftOpen, "CANCELING"))
          /\ batch' = {} /\ phase' = "stopped"
      BY <3>1 DEF MarkRefused
    <3>3. WellKept(table')
      BY <1>1, <1>2, <3>2, TargetsTyped, BreaksKeeps
    <3>. QED
      BY <1>1, <2>1, <2>4, <3>2, <3>3, AfterCall DEF TypeOK
  <2>. QED
    BY <1>3, <2>2, <2>3, <2>4 DEF CancelAll
<1>4. ASSUME NEW accepted \in BOOLEAN, ShutdownAnswered(accepted) PROVE LoopInv'
  <2>1. /\ phase = "shutdown" /\ Completes(batch, CancelTargets(accepted))
        /\ table' = AfterMoves(batch, CancelTargets(accepted))
        /\ batch' = {} /\ pending' = {} /\ phase' = "stopped" /\ stream' = "ended"
        /\ UNCHANGED <<mode, last, tick, safe, alarm, stop, failed, reports>>
    BY <1>1, <1>4 DEF ShutdownAnswered, Close, quoting, TypeOK
  <2>2. /\ WellKept(table') /\ Progress(table, table')
        /\ \A i \in OpenIds(table') : i \in batch => table'[i].doubted
    BY <2>1, CanceledFacts
  <2>3. ASSUME NEW i \in OpenIds(table') PROVE table'[i].doubted
    <3>1. table'[i].doubted \/ (i \in OpenIds(table) /\ (table[i].doubted => table'[i].doubted))
      BY <2>2 DEF Progress
    <3>2. AllNamed
      BY DEF LoopInv
    <3>. QED
      BY <2>1, <2>2, <3>1, <3>2 DEF AllNamed
  <2>. QED
    BY <1>1, <2>1, <2>2, <2>3, AfterCall DEF TypeOK
<1>5. ASSUME NEW accepted \in BOOLEAN, NEW done, ShutdownRaises(accepted, done) PROVE LoopInv'
  <2>1. /\ Breaks(batch, CancelTargets(accepted), done)
        /\ table' = AfterMoves(done, CancelTargets(accepted))
        /\ batch' = {} /\ pending' = {} /\ phase' = "stopped" /\ failed' = TRUE
        /\ UNCHANGED <<mode, last, tick, safe, alarm, stop, stream, reports>>
    BY <1>1, <1>5 DEF ShutdownRaises, quoting, TypeOK
  <2>2. WellKept(table')
    BY <1>1, <2>1, TargetsTyped, BreaksKeeps
  <2>. QED
    BY <1>1, <2>1, <2>2, AfterCall DEF TypeOK
<1>. QED
  BY <1>3, <1>4, <1>5

-----------------------------------------------------------------------------
(* The theorems.                                                             *)

LEMMA LoopStep == LoopInv /\ [Next]_vars => LoopInv'
<1> SUFFICES ASSUME LoopInv, [Next]_vars PROVE LoopInv'
  OBVIOUS
<1>1. CASE Proceed
  BY <1>1, QuietSteps, StartSteps, CancelSteps, SubmitSteps, ShutdownSteps DEF Proceed
<1>2. CASE Ticks
  BY <1>2, TickKeeps DEF Ticks
<1>3. CASE Others
  BY <1>3, QuietSteps, StreamSteps DEF Others
<1>4. CASE UNCHANGED vars
  BY <1>4, QuietSteps
<1>. QED
  BY <1>1, <1>2, <1>3, <1>4 DEF Next

\* A run of the engine keeps the inductive invariant (MMApplication.run,
\* tick_once and _execute_intents, app.py:82-204); so the table that it leaves in
\* the order store is again one that the next run may start with.
THEOREM RunKeepsItsTable == Spec => []LoopInv
BY InitHolds, LoopStep, PTL DEF Spec

\* The gateway call that the loop waits for is about records that exist, and no
\* intent outlives its tick (app.py:189-204).
THEOREM LoopIsTyped == Spec => []TypeOK
BY RunKeepsItsTable, LoopInvImplies, PTL

\* The quote engine and the cancels before the places let no two working orders
\* into one slot, unless one of them was in doubt (quote/engine.py:119,
\* app.py:197): for any number of levels, orders and reports.
THEOREM AlwaysOnePerSlotUnlessDoubted == Spec => []OnePerSlotUnlessDoubted
BY RunKeepsItsTable, LoopInvImplies, PTL

\* However the reports and answers come, the engine's live orders pass the limit
\* of the risk engine by less than one order per slot (risk/engine.py:76).
THEOREM OpenCountAlwaysBounded == Spec => []OpenCountBounded
BY RunKeepsItsTable, LoopInvImplies, PTL

\* A run whose cancel_all did not raise leaves no order working that was never in
\* doubt, and has closed its stream (app.py:95-99).
THEOREM ShutdownAlwaysLeavesOnlyDoubt == Spec => []ShutdownLeavesOnlyDoubt
<1>1. LoopInv => ShutdownLeavesOnlyDoubt
  BY DEF LoopInv
<1>. QED
  BY <1>1, RunKeepsItsTable, PTL

\* What a run leaves when it stops is a table that the next run may start with.
THEOREM RunLeavesWellKept == Spec => [](phase = "stopped" => WellKept(table))
<1>1. LoopInv => (phase = "stopped" => WellKept(table))
  BY DEF LoopInv
<1>. QED
  BY <1>1, RunKeepsItsTable, PTL

-----------------------------------------------------------------------------
(* What the console shows after a run.                                       *)

\* The orders that the exchange lists, as the console keys them.
Listed(listed, o) == listed \cup (Len(table) + 1 .. Len(table) + Len(o))

\* Between an open record and the listing there is a difference that matters.
Differs(listed, o) ==
    \/ OpenIds(table) \ listed # {}
    \/ Listed(listed, o) \ OpenIds(table) # {}
    \/ AnyUnknown(table)

\* The console's differences of a live run whose exchange answers.
LEMMA ShownIsDifference ==
  ASSUME LoopInv, mode = "live", NEW listed \in SUBSET Ids, NEW o \in Seq({Orphan})
  PROVE  /\ Console!UnknownGate(Shown(listed, o, TRUE)) <=> Differs(listed, o)
         /\ \A i \in OpenIds(table) \cap listed :
               table[i].status # "OPEN" => \E d \in Shown(listed, o, TRUE) : d.severity = "warn"
<1> DEFINE R == Listed(listed, o)
           remote == [ok |-> TRUE, orders |-> Listing(listed, o)]
<1>1. /\ Ids = 1 .. Len(table) /\ Len(table) \in Nat /\ Len(o) \in Nat
      /\ OpenIds(table) \in SUBSET Ids /\ R \in SUBSET Nat
      /\ OpenIds(table) \cap R = OpenIds(table) \cap listed
      /\ \A i \in Ids : table[i].status \in Statuses
  <2>1. /\ Ids = 1 .. Len(table) /\ Len(table) \in Nat /\ OpenIds(table) \in SUBSET Ids
        /\ \A i \in Ids : table[i].status \in Statuses
    BY TableFacts DEF LoopInv, WellKept, Ids
  <2>2. Len(o) \in Nat
    OBVIOUS
  <2>3. \A k \in Len(table) + 1 .. Len(table) + Len(o) : k \in Nat /\ k \notin Ids
    BY <2>1, <2>2
  <2>4. R = listed \cup (Len(table) + 1 .. Len(table) + Len(o))
    BY DEF Listed
  <2>5. listed \in SUBSET Nat
    BY <2>1
  <2> HIDE DEF R
  <2>. QED
    BY <2>1, <2>2, <2>3, <2>4, <2>5
<1>2. Console!With(OrderFile, Console!OpenStatuses) = OpenIds(table)
  BY <1>1 DEF Console!With, Console!OpenStatuses, OrderFile, OpenIds, IsOpen, Ids, Statuses, NonTerminal, Terminal
<1>3. Console!With(OrderFile, {"UNKNOWN"}) = {i \in Ids : table[i].status = "UNKNOWN"}
  BY DEF Console!With, OrderFile
<1>4. Console!With(Listing(listed, o), Console!OpenStatuses) = R
  BY DEF Console!With, Console!OpenStatuses, Listing, Listed
<1>5. Console!Remote(mode, TRUE, TRUE, TRUE, Listing(listed, o)) = remote
  BY DEF Console!Remote
<1> DEFINE lost == {Console!Diff("local_open_missing_remote", "critical", k) : k \in OpenIds(table) \ R}
           orphans == {Console!Diff("remote_open_orphan", "critical", k) : k \in R \ OpenIds(table)}
           differing == {k \in OpenIds(table) \cap R : OrderFile[k] # Listing(listed, o)[k]}
           mismatches == {Console!Diff("status_mismatch", "warn", k) : k \in differing}
           doubted == {Console!Diff("local_unknown_order", "critical", k) :
                          k \in {i \in Ids : table[i].status = "UNKNOWN"}}
           found == lost \cup orphans \cup mismatches \cup doubted
<1>6. Shown(listed, o, TRUE) = IF found = {} THEN {Console!Diff("matched", "info", Console!NoKey)} ELSE found
  <2>1. remote.ok = TRUE /\ remote.orders = Listing(listed, o)
    OBVIOUS
  <2>2. Console!With(remote.orders, Console!OpenStatuses) = R
    BY <1>4, <2>1
  <2> DEFINE info == {Console!Diff("remote_sync_unavailable", "info", Console!NoKey) :
                         x \in {y \in {Console!NoKey} : ~remote.ok}}
  <2>3. info = {}
    BY <2>1
  <2>4. Console!Diffs(OrderFile, remote) =
          LET f == info
                   \cup {Console!Diff("local_open_missing_remote", "critical", k) :
                            k \in {x \in OpenIds(table) \ R : remote.ok}}
                   \cup {Console!Diff("remote_open_orphan", "critical", k) : k \in R \ OpenIds(table)}
                   \cup {Console!Diff("status_mismatch", "warn", k) :
                            k \in {x \in OpenIds(table) \cap R : OrderFile[x] # remote.orders[x]}}
                   \cup {Console!Diff("local_unknown_order", "critical", k) :
                            k \in Console!With(OrderFile, {"UNKNOWN"})}
          IN  IF f = {} THEN {Console!Diff("matched", "info", Console!NoKey)} ELSE f
    BY <1>2, <2>2, Zenon DEF Console!Diffs
  <2>5. {x \in OpenIds(table) \ R : remote.ok} = OpenIds(table) \ R
    BY <2>1
  <2>6. {x \in OpenIds(table) \cap R : OrderFile[x] # remote.orders[x]} = differing
    BY <2>1
  <2> HIDE DEF info, remote, R, differing
  <2>7. Console!Diffs(OrderFile, remote) = IF found = {} THEN {Console!Diff("matched", "info", Console!NoKey)} ELSE found
    <3>1. info \cup lost \cup orphans \cup mismatches \cup doubted = found
      BY <2>3
    <3>. QED
      BY <1>3, <2>4, <2>5, <2>6, <3>1, Zenon
  <2>. QED
    BY <1>5, <2>7 DEF Shown
<1>7. \A d \in found : d.severity \in {"critical", "warn"}
  BY DEF Console!Diff
<1>8. (\E d \in found : d.severity = "critical") <=> lost \cup orphans \cup doubted # {}
  BY DEF Console!Diff
<1>9. Console!UnknownGate(Shown(listed, o, TRUE)) <=> lost \cup orphans \cup doubted # {}
  <2>1. Console!Diff("matched", "info", Console!NoKey).severity # "critical"
    BY DEF Console!Diff
  <2> HIDE DEF found, lost, orphans, doubted
  <2>2. CASE found = {}
    BY <1>6, <1>8, <2>1, <2>2 DEF Console!UnknownGate
  <2>3. CASE found # {}
    BY <1>6, <1>8, <2>3 DEF Console!UnknownGate
  <2>. QED
    BY <2>2, <2>3
<1>10. lost \cup orphans \cup doubted # {} <=> Differs(listed, o)
  <2>1. lost # {} <=> OpenIds(table) \ listed # {}
    BY <1>1
  <2>2. orphans # {} <=> Listed(listed, o) \ OpenIds(table) # {}
    OBVIOUS
  <2>3. doubted # {} <=> AnyUnknown(table)
    BY DEF AnyUnknown, Ids
  <2>. QED
    BY <2>1, <2>2, <2>3 DEF Differs
<1>11. ASSUME NEW i \in OpenIds(table) \cap listed, table[i].status # "OPEN"
       PROVE  \E d \in Shown(listed, o, TRUE) : d.severity = "warn"
  <2>1. i \in R /\ Listing(listed, o)[i] = "OPEN" /\ OrderFile[i] = table[i].status
    BY <1>1 DEF Listing, Listed, OrderFile
  <2>2. Console!Diff("status_mismatch", "warn", i) \in found
    BY <1>11, <2>1
  <2> HIDE DEF found
  <2>3. Console!Diff("status_mismatch", "warn", i) \in Shown(listed, o, TRUE)
    BY <1>6, <2>2
  <2>. QED
    BY <2>3 DEF Console!Diff
<1>. QED
  BY <1>9, <1>10, <1>11

\* What the reconciliation at the next start makes of the records.
LEMMA ReconcileFacts ==
  ASSUME LoopInv, mode = "live", NEW listed \in SUBSET Ids, NEW o \in Seq({Orphan})
  PROVE  /\ Completes(Ids, Target(listed)) <=>
               \A i \in listed : CanTransition(table[i].status, "OPEN")
         /\ AnyUnknown(AfterMoves(Ids, Target(listed)) \o o) <=>
               \/ \E i \in Ids \ listed : IsOpen(table[i].status) \/ table[i].status = "UNKNOWN"
               \/ 1 .. Len(o) # {}
<1>1. /\ Ids = 1 .. Len(table) /\ Len(table) \in Nat /\ Len(o) \in Nat
      /\ \A i \in Ids : table[i] \in Recorded /\ table[i].status \in Statuses
  BY TableFacts DEF LoopInv, WellKept, Ids
<1>2. ASSUME NEW i \in Ids
      PROVE  /\ Target(listed)[i] \in Statuses
             /\ i \in listed => Target(listed)[i] = "OPEN"
             /\ i \notin listed => /\ CanTransition(table[i].status, Target(listed)[i])
                                   /\ Target(listed)[i] = "UNKNOWN" <=>
                                         IsOpen(table[i].status) \/ table[i].status = "UNKNOWN"
  <2>1. Target(listed)[i] = IF i \in listed THEN "OPEN"
                            ELSE IF IsOpen(table[i].status) THEN "UNKNOWN" ELSE table[i].status
    BY DEF Target
  <2>2. CASE i \in listed
    BY <2>1, <2>2 DEF Statuses, NonTerminal
  <2>3. CASE i \notin listed /\ IsOpen(table[i].status)
    <3>1. Target(listed)[i] = "UNKNOWN"
      BY <2>1, <2>3
    <3>2. CanTransition(table[i].status, "UNKNOWN")
      BY <2>3 DEF CanTransition, IsOpen, NonTerminal, Terminal, ValidNext
    <3>. QED
      BY <2>3, <3>1, <3>2 DEF Statuses, NonTerminal
  <2>4. CASE i \notin listed /\ ~IsOpen(table[i].status)
    BY <1>1, <2>1, <2>4 DEF CanTransition
  <2>. QED
    BY <2>2, <2>3, <2>4
<1>3. Completes(Ids, Target(listed)) <=> \A i \in listed : CanTransition(table[i].status, "OPEN")
  BY <1>2 DEF Completes
<1> DEFINE u == AfterMoves(Ids, Target(listed))
<1>4. /\ u = [i \in Ids |-> u[i]] /\ DOMAIN u = 1 .. Len(table)
      /\ \A i \in Ids : u[i] \in Recorded /\ u[i].status = Target(listed)[i]
  <2>1. u = [i \in Ids |-> Moved(table[i], Target(listed)[i])]
    BY DEF AfterMoves
  <2>2. \A r \in Recorded, new \in Statuses : Moved(r, new) \in Recorded
    <3>1. ASSUME NEW r \in Recorded, NEW new \in Statuses PROVE Moved(r, new) \in Recorded
      <4>1. CASE new \in Terminal
        <5>1. NoLevel \in NoLevel .. Levels
          BY LoopAssumption DEF NoLevel
        <5>. QED
          BY <4>1, <5>1 DEF Moved, Record, Recorded
      <4>2. CASE new \notin Terminal
        <5> DEFINE d == r.doubted \/ new = "UNKNOWN"
        <5>1. d \in BOOLEAN /\ Moved(r, new) = [r EXCEPT !.status = new, !.doubted = d]
          BY <4>2 DEF Moved, Recorded
        <5> HIDE DEF d
        <5>. QED
          BY <5>1 DEF Recorded
      <4>. QED
        BY <4>1, <4>2
    <3>. QED
      BY <3>1
  <2>. QED
    BY <1>1, <1>2, <2>1, <2>2, MovedStatus
<1> HIDE DEF u
<1>5. u \in Seq(Recorded) /\ Len(u) = Len(table)
  <2>1. u \in [1 .. Len(table) -> Recorded]
    BY <1>1, <1>4
  <2>2. u \in Seq(Recorded)
    BY <1>1, <2>1, SeqDef
  <2>. QED
    BY <1>1, <1>4, <2>2
<1>6. /\ DOMAIN (u \o o) = 1 .. Len(table) + Len(o)
      /\ \A i \in 1 .. Len(table) + Len(o) :
            (u \o o)[i] = IF i <= Len(table) THEN u[i] ELSE o[i - Len(table)]
  <2>1. o \in Seq(Recorded)
    BY OrphanFacts
  <2>2. /\ u \o o \in Seq(Recorded) /\ Len(u \o o) = Len(u) + Len(o)
        /\ \A i \in 1 .. Len(u) + Len(o) : (u \o o)[i] = IF i <= Len(u) THEN u[i] ELSE o[i - Len(u)]
    BY <1>5, <2>1, ConcatProperties
  <2>. QED
    BY <1>5, <2>2
<1>7. ASSUME NEW k \in 1 .. Len(o)
      PROVE  Len(table) + k \in DOMAIN (u \o o) /\ (u \o o)[Len(table) + k].status = "UNKNOWN"
  <2>1. /\ Len(table) + k \in 1 .. Len(table) + Len(o) /\ ~(Len(table) + k <= Len(table))
        /\ Len(table) + k - Len(table) = k
    BY <1>1
  <2>2. o[k] = Orphan
    OBVIOUS
  <2>. QED
    BY <1>6, <2>1, <2>2, OrphanFacts
<1>8. ASSUME NEW i \in Ids PROVE i \in DOMAIN (u \o o) /\ (u \o o)[i].status = Target(listed)[i]
  <2>1. i \in 1 .. Len(table) + Len(o) /\ i <= Len(table)
    BY <1>1
  <2>. QED
    BY <1>4, <1>6, <2>1
<1>9. ASSUME NEW i \in DOMAIN (u \o o) PROVE i \in Ids \/ 1 .. Len(o) # {}
  <2>1. i \in Nat /\ i \in 1 .. Len(table) + Len(o)
    BY <1>1, <1>6
  <2>2. CASE i <= Len(table)
    BY <1>1, <2>1, <2>2
  <2>3. CASE ~(i <= Len(table))
    <3>1. 1 <= Len(o)
      BY <1>1, <2>1, <2>3
    <3>2. 1 \in 1 .. Len(o)
      BY <1>1, <3>1
    <3>. QED
      BY <3>2
  <2>. QED
    BY <2>2, <2>3
<1>10. AnyUnknown(u \o o) <=> \/ \E i \in Ids \ listed : IsOpen(table[i].status) \/ table[i].status = "UNKNOWN"
                              \/ 1 .. Len(o) # {}
  <2>1. ASSUME AnyUnknown(u \o o), 1 .. Len(o) = {}
        PROVE  \E i \in Ids \ listed : IsOpen(table[i].status) \/ table[i].status = "UNKNOWN"
    <3>1. PICK i \in DOMAIN (u \o o) : (u \o o)[i].status = "UNKNOWN"
      BY <2>1 DEF AnyUnknown
    <3>2. i \in Ids /\ Target(listed)[i] = "UNKNOWN"
      BY <1>8, <1>9, <2>1, <3>1
    <3>. QED
      BY <1>2, <3>2
  <2>2. ASSUME NEW i \in Ids \ listed, IsOpen(table[i].status) \/ table[i].status = "UNKNOWN"
        PROVE  AnyUnknown(u \o o)
    BY <1>2, <1>8, <2>2 DEF AnyUnknown
  <2>3. ASSUME 1 .. Len(o) # {} PROVE AnyUnknown(u \o o)
    BY <1>7, <2>3 DEF AnyUnknown
  <2>. QED
    BY <2>1, <2>2, <2>3
<1>. QED
  BY <1>3, <1>10 DEF u

LEMMA ForeseesHolds == LoopInv => ConsoleForeseesReconcile
<1> SUFFICES ASSUME LoopInv, mode = "live", NEW listed \in SUBSET Ids, NEW o \in Listings
             PROVE  LET shown == Shown(listed, o, TRUE)
                        gate == Console!UnknownGate(shown)
                        completes == Completes(Ids, Target(listed))
                        doubt == AnyUnknown(AfterMoves(Ids, Target(listed)) \o o)
                    IN  /\ completes /\ doubt => gate
                        /\ ~completes => \E d \in shown : d.severity # "info"
                        /\ gate => ~completes \/ doubt \/ \E i \in listed : table[i].status = "UNKNOWN"
                        /\ \A d \in Shown(listed, o, FALSE) : d.type # "matched"
  BY DEF ConsoleForeseesReconcile
<1>1. o \in Seq({Orphan})
  BY LoopAssumption
<1>2. /\ Ids = 1 .. Len(table) /\ Len(table) \in Nat /\ Len(o) \in Nat
      /\ \A i \in Ids : table[i].status \in Statuses
      /\ OpenIds(table) = {i \in Ids : IsOpen(table[i].status)}
  <2>1. table \in Seq(Recorded)
    BY DEF LoopInv, WellKept
  <2>2. /\ Ids = 1 .. Len(table) /\ Len(table) \in Nat
        /\ \A i \in Ids : table[i].status \in Statuses
    BY <2>1, TableFacts DEF Ids
  <2>3. OpenIds(table) = {i \in Ids : IsOpen(table[i].status)}
    BY DEF OpenIds, Ids
  <2>4. Len(o) \in Nat
    BY <1>1
  <2>. QED
    BY <2>2, <2>3, <2>4
<1> DEFINE gate == Console!UnknownGate(Shown(listed, o, TRUE))
           completes == Completes(Ids, Target(listed))
           doubt == AnyUnknown(AfterMoves(Ids, Target(listed)) \o o)
<1>3. gate <=> Differs(listed, o)
  BY <1>1, ShownIsDifference
<1>4. completes <=> \A i \in listed : CanTransition(table[i].status, "OPEN")
  BY <1>1, ReconcileFacts
<1>5. doubt <=> \/ \E i \in Ids \ listed : IsOpen(table[i].status) \/ table[i].status = "UNKNOWN"
                \/ 1 .. Len(o) # {}
  BY <1>1, ReconcileFacts
<1>6. ASSUME NEW i \in Ids
      PROVE  \/ IsOpen(table[i].status)
             \/ table[i].status = "UNKNOWN"
             \/ table[i].status \in Terminal /\ ~CanTransition(table[i].status, "OPEN")
  BY <1>2 DEF IsOpen, Statuses, Terminal, NonTerminal, CanTransition
<1>7. Listed(listed, o) \ listed # {} <=> 1 .. Len(o) # {}
  <2>1. \A k \in 1 .. Len(o) : Len(table) + k \in Listed(listed, o) \ listed
    BY <1>2 DEF Listed
  <2>2. \A k \in Listed(listed, o) \ listed : k - Len(table) \in 1 .. Len(o)
    BY <1>2 DEF Listed
  <2>. QED
    BY <2>1, <2>2
<1>8. OpenIds(table) \subseteq Ids /\ \A k \in Listed(listed, o) \ listed : k \notin Ids
  BY <1>2 DEF Listed
<1> HIDE DEF gate, completes, doubt
<1>9. ASSUME doubt PROVE gate
  <2>1. CASE 1 .. Len(o) # {}
    BY <1>3, <1>7, <1>8, <2>1 DEF Differs
  <2>2. CASE \E i \in Ids \ listed : IsOpen(table[i].status) \/ table[i].status = "UNKNOWN"
    BY <1>2, <1>3, <2>2 DEF Differs, AnyUnknown, Ids
  <2>. QED
    BY <1>5, <1>9, <2>1, <2>2
<1>10. ASSUME ~completes PROVE \E d \in Shown(listed, o, TRUE) : d.severity # "info"
  <2>1. PICK i \in listed : ~CanTransition(table[i].status, "OPEN")
    BY <1>4, <1>10
  <2>2. CASE IsOpen(table[i].status)
    <3>1. i \in OpenIds(table) \cap listed /\ table[i].status # "OPEN"
      BY <1>2, <2>1, <2>2 DEF CanTransition
    <3>2. PICK d \in Shown(listed, o, TRUE) : d.severity = "warn"
      BY <1>1, <3>1, ShownIsDifference
    <3>. QED
      BY <3>2
  <2>3. CASE ~IsOpen(table[i].status)
    <3>1. i \in Listed(listed, o) \ OpenIds(table)
      BY <1>2, <2>3 DEF Listed
    <3>2. gate
      BY <1>3, <3>1 DEF Differs
    <3>3. PICK d \in Shown(listed, o, TRUE) : d.severity = "critical"
      BY <3>2 DEF gate, Console!UnknownGate
    <3>. QED
      BY <3>3
  <2>. QED
    BY <2>2, <2>3
<1>11. ASSUME gate, completes, \A i \in listed : table[i].status # "UNKNOWN" PROVE doubt
  <2>1. CASE OpenIds(table) \ listed # {}
    BY <1>2, <1>5, <2>1
  <2>2. CASE Listed(listed, o) \ OpenIds(table) # {}
    <3>1. PICK k \in Listed(listed, o) : k \notin OpenIds(table)
      BY <2>2
    <3>2. k \notin listed
      BY <1>2, <1>4, <1>6, <1>11, <3>1
    <3>. QED
      BY <1>5, <1>7, <3>1, <3>2
  <2>3. CASE AnyUnknown(table)
    BY <1>5, <1>11, <2>3 DEF AnyUnknown, Ids
  <2>. QED
    BY <1>3, <1>11, <2>1, <2>2, <2>3 DEF Differs
<1>12. ASSUME NEW d \in Shown(listed, o, FALSE) PROVE d.type # "matched"
  <2> DEFINE remote == Console!Remote(mode, TRUE, FALSE, TRUE, Listing(listed, o))
             notice == Console!Diff("remote_sync_unavailable", "info", Console!NoKey)
  <2>1. remote.ok = FALSE
    BY DEF Console!Remote
  <2> HIDE DEF remote
  <2>2. \E found : /\ notice \in found /\ \A x \in found : x.type # "matched"
                   /\ Console!Diffs(OrderFile, remote) =
                         IF found = {} THEN {Console!Diff("matched", "info", Console!NoKey)} ELSE found
    BY <2>1 DEF Console!Diffs, Console!Diff
  <2>. QED
    BY <1>12, <2>2 DEF Shown, remote
<1>. QED
  BY <1>9, <1>10, <1>11, <1>12 DEF gate, completes, doubt

\* The console's page foretells what the next start will do with the records that
\* a run has left (admin_server.py:1328-1406, oms/manager.py:231-251,
\* app.py:84-91): for every table that a run can leave, every part of it that the
\* exchange still lists and any number of orders that it lists besides.
THEOREM ConsoleAlwaysForeseesReconcile == Spec => []ConsoleForeseesReconcile
BY RunKeepsItsTable, ForeseesHolds, PTL

-----------------------------------------------------------------------------
(* The drills.                                                               *)

\* What the engine looks at with no order at all.
Fresh == View(<<>>, FALSE, 1, 0, 0)

\* Of the records, the rules look only at those that are open on the symbol, and
\* for one in doubt.
LooksLike(e, f, symbol) ==
    /\ e.safe = f.safe /\ e.dailyPnl = f.dailyPnl /\ e.markets = f.markets /\ e.now = f.now
    /\ e.base = f.base /\ e.available = f.available
    /\ Risk!OpenIn(e, symbol) = Risk!OpenIn(f, symbol)
    /\ Risk!InDoubt(e) = Risk!InDoubt(f)

LEMMA BreaksAlike ==
  ASSUME NEW e, NEW f, NEW i, LooksLike(e, f, i.symbol), NEW rule
  PROVE  Risk!Breaks(rule, i, e) = Risk!Breaks(rule, i, f)
<1>1. Risk!OpenOf(e, i) = Risk!OpenOf(f, i)
  BY DEF Risk!OpenOf, LooksLike
<1>. QED
  BY <1>1, Zenon DEF Risk!Breaks, LooksLike

LEMMA OrderIsList == DOMAIN Risk!Order = 1 .. 17
BY DEF Risk!Order

\* A refusal names the first rule that is broken.
LEMMA FirstIsNamed ==
  ASSUME NEW e, NEW i, NEW k \in DOMAIN Risk!Order, Risk!Breaks(Risk!Order[k], i, e),
         \A j \in 1 .. k - 1 : ~Risk!Breaks(Risk!Order[j], i, e)
  PROVE  Risk!Validate(i, e) = Risk!Order[k]
<1> DEFINE first(l) == /\ Risk!Breaks(Risk!Order[l], i, e)
                       /\ \A j \in 1 .. l - 1 : ~Risk!Breaks(Risk!Order[j], i, e)
           chosen == CHOOSE l \in DOMAIN Risk!Order : first(l)
<1>1. chosen \in DOMAIN Risk!Order /\ first(chosen)
  BY Zenon
<1>2. Risk!Validate(i, e) = Risk!Order[chosen]
  BY Zenon DEF Risk!Validate
<1> HIDE DEF chosen
<1>3. k \in Int /\ chosen \in Int /\ k >= 1 /\ chosen >= 1
  BY <1>1, OrderIsList
<1>4. ~(chosen < k) /\ ~(k < chosen)
  BY <1>1, <1>3
<1>. QED
  BY <1>2, <1>3, <1>4

LEMMA ValidatedAlike ==
  ASSUME NEW e, NEW f, NEW i, LooksLike(e, f, i.symbol)
  PROVE  Risk!Validate(i, e) = Risk!Validate(i, f)
<1>1. \A k : Risk!Breaks(Risk!Order[k], i, e) = Risk!Breaks(Risk!Order[k], i, f)
  BY BreaksAlike
<1>2. CASE \A k \in DOMAIN Risk!Order : ~Risk!Breaks(Risk!Order[k], i, e)
  BY <1>1, <1>2, Zenon DEF Risk!Validate
<1>3. CASE ~\A k \in DOMAIN Risk!Order : ~Risk!Breaks(Risk!Order[k], i, e)
  <2> DEFINE broken == {k \in 1 .. 17 : Risk!Breaks(Risk!Order[k], i, e)}
  <2>1. broken \in SUBSET Nat /\ broken # {}
    BY <1>3, OrderIsList
  <2>2. PICK k \in broken : \A j \in broken : k <= j
    BY <2>1, NatHasLeast
  <2>3. /\ k \in DOMAIN Risk!Order /\ Risk!Breaks(Risk!Order[k], i, e)
        /\ \A j \in 1 .. k - 1 : ~Risk!Breaks(Risk!Order[j], i, e)
    <3>1. k \in 1 .. 17 /\ Risk!Breaks(Risk!Order[k], i, e)
      BY <2>2
    <3>2. ASSUME NEW j \in 1 .. k - 1 PROVE j \in 1 .. 17 /\ j < k
      BY <3>1
    <3>3. ASSUME NEW j \in 1 .. k - 1 PROVE ~Risk!Breaks(Risk!Order[j], i, e)
      <4>1. j \notin broken
        BY <2>2, <3>1, <3>2
      <4>. QED
        BY <3>2, <4>1
    <3>. QED
      BY <3>1, <3>3, OrderIsList
  <2>4. Risk!Validate(i, e) = Risk!Order[k]
    BY <2>3, FirstIsNamed
  <2>5. /\ Risk!Breaks(Risk!Order[k], i, f)
        /\ \A j \in 1 .. k - 1 : ~Risk!Breaks(Risk!Order[j], i, f)
    BY <1>1, <2>3, Zenon
  <2>6. Risk!Validate(i, f) = Risk!Order[k]
    BY <2>3, <2>5, FirstIsNamed
  <2>. QED
    BY <2>4, <2>6
<1>. QED
  BY <1>2, <1>3

\* What the engine looks at in a drill, apart from balances and profit.
Sight(alert, markets, orders) ==
    [safe |-> alert, dailyPnl |-> 0, markets |-> markets, now |-> Market.received + 0,
     orders |-> orders, base |-> [s \in {Symbol} |-> 1], available |-> [s \in {Symbol} |-> 1]]

\* Records that are over make no difference to it.
LEMMA OverIsUnseen ==
  ASSUME NEW alert, NEW markets, NEW over, \A o \in over : o.status \in Terminal, NEW orders, NEW s
  PROVE  LooksLike(Sight(alert, markets, over \cup orders), Sight(alert, markets, orders), s)
<1> DEFINE e == Sight(alert, markets, over \cup orders)
           f == Sight(alert, markets, orders)
<1>1. /\ e.safe = f.safe /\ e.dailyPnl = f.dailyPnl /\ e.markets = f.markets /\ e.now = f.now
      /\ e.base = f.base /\ e.available = f.available
      /\ e.orders = over \cup orders /\ f.orders = orders
  BY DEF Sight
<1>2. \A o \in over : ~Risk!IsOpen(o.status) /\ o.status # "UNKNOWN"
  BY DEF Risk!IsOpen, Risk!NonTerminal, Risk!Terminal, Risk!Statuses, Terminal, NonTerminal, Statuses
<1> HIDE DEF e, f
<1>3. Risk!OpenIn(e, s) = Risk!OpenIn(f, s)
  BY <1>1, <1>2 DEF Risk!OpenIn
<1>4. Risk!InDoubt(e) = Risk!InDoubt(f)
  BY <1>1, <1>2 DEF Risk!InDoubt
<1>. QED
  BY <1>1, <1>3, <1>4 DEF LooksLike, e, f

Both(over, orders) == over \cup orders

LEMMA ValidatedBesideOver ==
  ASSUME NEW over, \A o \in over : o.status \in Terminal, NEW alert, NEW markets, NEW orders, NEW i
  PROVE  Risk!Validate(i, Sight(alert, markets, Both(over, orders)))
            = Risk!Validate(i, Sight(alert, markets, orders))
BY OverIsUnseen, ValidatedAlike DEF Both

\* Sight, of a balance and a time that are fixed.
SightOf(alert, markets, orders, now, balance) ==
    [safe |-> alert, dailyPnl |-> 0, markets |-> markets, now |-> now,
     orders |-> orders, base |-> balance, available |-> balance]

SafeSet(e, a) == [e EXCEPT !.safe = a]
MarketsSet(e, m) == [e EXCEPT !.markets = m]
OrdersSet(e, o) == [e EXCEPT !.orders = o]
MarketsIn(e) == e.markets
OrdersIn(e) == e.orders

LEMMA SightReplaced ==
  ASSUME NEW alert, NEW markets, NEW orders
  PROVE  /\ \A a : SafeSet(Sight(alert, markets, orders), a) = Sight(a, markets, orders)
         /\ \A m : MarketsSet(Sight(alert, markets, orders), m) = Sight(alert, m, orders)
         /\ \A o : OrdersSet(Sight(alert, markets, orders), o) = Sight(alert, markets, o)
         /\ MarketsIn(Sight(alert, markets, orders)) = markets
         /\ OrdersIn(Sight(alert, markets, orders)) = orders
<1>1. PICK now, balance : now = Market.received + 0 /\ balance = [s \in {Symbol} |-> 1]
  OBVIOUS
<1>2. \A a, m, o : Sight(a, m, o) = SightOf(a, m, o, now, balance)
  BY <1>1, Zenon DEF Sight, SightOf
<1>3. PICK e : e = SightOf(alert, markets, orders, now, balance)
  OBVIOUS
<1>4. ASSUME NEW a PROVE SafeSet(e, a) = SightOf(a, markets, orders, now, balance)
  BY <1>3 DEF SightOf, SafeSet
<1>5. ASSUME NEW m PROVE MarketsSet(e, m) = SightOf(alert, m, orders, now, balance)
  BY <1>3 DEF SightOf, MarketsSet
<1>6. ASSUME NEW o PROVE OrdersSet(e, o) = SightOf(alert, markets, o, now, balance)
  BY <1>3 DEF SightOf, OrdersSet
<1>7. MarketsIn(e) = markets /\ OrdersIn(e) = orders
  BY <1>3 DEF SightOf, MarketsIn, OrdersIn
<1>8. e = Sight(alert, markets, orders)
  BY <1>2, <1>3, Zenon
<1>. QED
  BY <1>2, <1>4, <1>5, <1>6, <1>7, <1>8, Zenon

\* What the drills ask.
LEMMA SafeModeDrillIs ==
  ASSUME NEW on, on = TRUE, NEW alert, NEW markets, NEW orders
  PROVE  SafeModeDrill(Sight(alert, markets, orders))
            <=> Risk!Validate(DrillIntent, Sight(on, markets, orders)) = "safe_mode"
<1>1. SafeSet(Sight(alert, markets, orders), on) = Sight(on, markets, orders)
  <2>1. \A a : SafeSet(Sight(alert, markets, orders), a) = Sight(a, markets, orders)
    BY SightReplaced
  <2>. QED
    BY <2>1, Zenon
<1>. QED
  BY <1>1, Zenon DEF SafeModeDrill, SafeSet

LongAgo(e) == [e EXCEPT !.markets[Symbol].received = @ - 10000]
Older(markets) == [markets EXCEPT ![Symbol].received = @ - 10000]

LEMMA StaleDrillIs ==
  ASSUME NEW alert, NEW markets, NEW orders
  PROVE  StaleDrill(Sight(alert, markets, orders))
            <=> Risk!Validate(DrillIntent, Sight(alert, Older(markets), orders)) = "stale_market"
<1>1. PICK e : e = Sight(alert, markets, orders)
  OBVIOUS
<1>2. MarketsIn(Sight(alert, markets, orders)) = markets
  BY SightReplaced
<1>3. e.markets = markets
  BY <1>1, <1>2, Zenon DEF MarketsIn
<1>4. LongAgo(e) = [e EXCEPT !.markets = [markets EXCEPT ![Symbol].received = @ - 10000]]
  BY <1>3 DEF LongAgo
<1>5. MarketsSet(Sight(alert, markets, orders), Older(markets)) = Sight(alert, Older(markets), orders)
  BY SightReplaced
<1>6. LongAgo(e) = MarketsSet(e, Older(markets))
  BY <1>4 DEF Older, MarketsSet
<1>7. LongAgo(e) = Sight(alert, Older(markets), orders)
  BY <1>1, <1>5, <1>6, Zenon
<1>8. StaleDrill(e) <=> Risk!Validate(DrillIntent, LongAgo(e)) = "stale_market"
  BY DEF StaleDrill, LongAgo
<1>. QED
  BY <1>1, <1>7, <1>8, Zenon

\* The record that UnknownDrill adds.
Doubtful == [id |-> 0, strategy |-> "drill", symbol |-> Symbol, side |-> "buy", level |-> 1,
             price |-> DrillIntent.price, remaining |-> DrillIntent.size, status |-> "UNKNOWN"]

LEMMA UnknownDrillIs ==
  ASSUME NEW alert, NEW markets, NEW orders
  PROVE  UnknownDrill(Sight(alert, markets, orders))
            <=> Risk!Validate(DrillIntent, Sight(alert, markets, Both(orders, {Doubtful}))) = "unknown_order"
<1>1. PICK e : e = Sight(alert, markets, orders)
  OBVIOUS
<1>2. OrdersIn(Sight(alert, markets, orders)) = orders
  BY SightReplaced
<1>3. OrdersSet(Sight(alert, markets, orders), Both(orders, {Doubtful}))
        = Sight(alert, markets, Both(orders, {Doubtful}))
  BY SightReplaced
<1>4. OrdersIn(e) = orders
  BY <1>1, <1>2, Zenon
<1>5. UnknownDrill(e) <=>
        Risk!Validate(DrillIntent, OrdersSet(e, Both(OrdersIn(e), {Doubtful}))) = "unknown_order"
  BY Zenon DEF UnknownDrill, Doubtful, OrdersSet, OrdersIn, Both
<1>. QED
  BY <1>1, <1>3, <1>4, <1>5, Zenon

\* So records that are over make no difference to any drill.
LEMMA DrillsBesideOver ==
  ASSUME NEW alert, NEW markets, NEW over, \A o \in over : o.status \in Terminal
  PROVE  DrillsPass(Sight(alert, markets, {})) => DrillsPass(Sight(alert, markets, over))
<1> DEFINE e == Sight(alert, markets, over)
           f == Sight(alert, markets, {})
<1>1. \A a, m, orders, i : Risk!Validate(i, Sight(a, m, Both(over, orders)))
                           = Risk!Validate(i, Sight(a, m, orders))
  BY ValidatedBesideOver
<1>2. Both(over, {}) = over /\ Both(over, Both({}, {Doubtful})) = Both(over, {Doubtful})
  BY DEF Both
<1>3. ASSUME NEW a, NEW m, NEW i
      PROVE  Risk!Validate(i, Sight(a, m, over)) = Risk!Validate(i, Sight(a, m, {}))
  <2>1. Risk!Validate(i, Sight(a, m, Both(over, {}))) = Risk!Validate(i, Sight(a, m, {}))
    BY <1>1
  <2>. QED
    BY <1>2, <2>1, Zenon
<1>4. SafeModeDrill(e) <=> SafeModeDrill(f)
  <2>1. PICK on : on = TRUE
    OBVIOUS
  <2>2. SafeModeDrill(e) <=> Risk!Validate(DrillIntent, Sight(on, markets, over)) = "safe_mode"
    BY <2>1, SafeModeDrillIs, Zenon
  <2>3. SafeModeDrill(f) <=> Risk!Validate(DrillIntent, Sight(on, markets, {})) = "safe_mode"
    BY <2>1, SafeModeDrillIs, Zenon
  <2>. QED
    BY <1>3, <2>2, <2>3, Zenon
<1>5. CrossingDrill(e) <=> CrossingDrill(f)
  BY <1>3, Zenon DEF CrossingDrill
<1>6. StaleDrill(e) <=> StaleDrill(f)
  <2>1. StaleDrill(e) <=> Risk!Validate(DrillIntent, Sight(alert, Older(markets), over)) = "stale_market"
    BY StaleDrillIs, Zenon
  <2>2. StaleDrill(f) <=> Risk!Validate(DrillIntent, Sight(alert, Older(markets), {})) = "stale_market"
    BY StaleDrillIs, Zenon
  <2>. QED
    BY <1>3, <2>1, <2>2, Zenon
<1>7. UnknownDrill(e) <=> UnknownDrill(f)
  <2>1. UnknownDrill(e) <=>
          Risk!Validate(DrillIntent, Sight(alert, markets, Both(over, {Doubtful}))) = "unknown_order"
    BY UnknownDrillIs, Zenon
  <2>2. UnknownDrill(f) <=>
          Risk!Validate(DrillIntent, Sight(alert, markets, Both({}, {Doubtful}))) = "unknown_order"
    BY UnknownDrillIs, Zenon
  <2>3. Risk!Validate(DrillIntent, Sight(alert, markets, Both(over, Both({}, {Doubtful}))))
          = Risk!Validate(DrillIntent, Sight(alert, markets, Both({}, {Doubtful})))
    BY <1>1, Zenon
  <2>. QED
    BY <1>2, <2>1, <2>2, <2>3, Zenon
<1>. QED
  BY <1>4, <1>5, <1>6, <1>7, Zenon DEF DrillsPass

\* A run that leaves everything over leaves an engine like a fresh one.
LEMMA DrillsAlike ==
  ASSUME LoopInv, ~safe, \A i \in Ids : table[i].status \in Terminal, DrillsPass(Fresh)
  PROVE  DrillsPass(AfterRun)
<1>1. safe = FALSE
  BY DEF LoopInv, TypeOK
<1>2. PICK off, markets, over : /\ off = FALSE /\ markets = [s \in {Symbol} |-> Market]
                               /\ over = {Seen(table, i) : i \in DOMAIN table}
  OBVIOUS
<1>3. AfterRun = Sight(off, markets, over)
  BY <1>1, <1>2, Zenon DEF AfterRun, View, Sight
<1>4. Fresh = Sight(off, markets, {})
  <2>1. {Seen(<<>>, i) : i \in DOMAIN <<>>} = {}
    OBVIOUS
  <2>. QED
    BY <1>2, <2>1, Zenon DEF Fresh, View, Sight
<1>5. \A o \in over : o.status \in Terminal
  BY <1>2 DEF Seen, Ids
<1>6. DrillsPass(Sight(off, markets, {})) => DrillsPass(Sight(off, markets, over))
  BY <1>5, DrillsBesideOver
<1>. QED
  BY <1>3, <1>4, <1>6, Zenon

\* What the drills say is settled by the configuration and the market: where each
\* rule refuses its intent on an engine without records, it does so after any run
\* that left nothing open, nothing in doubt and no alarm (risk/drills.py,
\* scripts/generate_acceptance_report.py:36).
THEOREM DrillsAlwaysPassAfterCleanRun == DrillsPass(Fresh) => (Spec => []DrillsPassAfterCleanRun)
<1> SUFFICES ASSUME DrillsPass(Fresh) PROVE Spec => []DrillsPassAfterCleanRun
  OBVIOUS
<1>1. LoopInv => DrillsPassAfterCleanRun
  BY DrillsAlike DEF DrillsPassAfterCleanRun
<1>. QED
  BY <1>1, RunKeepsItsTable, PTL

=============================================================================
