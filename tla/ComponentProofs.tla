-------------------------- MODULE ComponentProofs ---------------------------
(* Theorems about the rate limiter, the order book and the order stores, for *)
(* any number of threads, calls, levels, versions and records.               *)
EXTENDS RateLimiter, MarketData, OrderStores,
        FiniteSetTheorems, WellFoundedInduction, SequenceTheorems, TLAPS

-----------------------------------------------------------------------------
(* Natural numbers: the smallest member of a set.                            *)

\* A set of natural numbers that is not empty has a smallest member.
LEMMA NatHasLeast ==
  ASSUME NEW S \in SUBSET Nat, S # {}
  PROVE  \E i \in S : \A j \in S : i <= j
<1> DEFINE Below == {0 .. n : n \in S}
<1>1. Below \subseteq FiniteSubsetsOf(Nat) /\ Below # {}
  <2>1. ASSUME NEW n \in S PROVE IsFiniteSet(0 .. n) /\ 0 .. n \in SUBSET Nat
    BY FS_Interval
  <2>. QED
    BY <2>1 DEF FiniteSubsetsOf
<1>2. PICK x \in Below : \A y \in Below : <<y, x>> \notin StrictSubsetOrdering(Nat)
  <2>1. IsWellFoundedOn(StrictSubsetOrdering(Nat), FiniteSubsetsOf(Nat))
    BY FS_StrictSubsetOrderingWellFounded
  <2>. QED
    BY <1>1, <2>1, WFMin
<1>3. PICK i \in S : x = 0 .. i
  BY <1>2
<1>4. ASSUME NEW j \in S, j < i PROVE FALSE
  <2>1. 0 .. j \subseteq 0 .. i /\ i \in 0 .. i /\ i \notin 0 .. j
    BY <1>4
  <2>2. <<0 .. j, 0 .. i>> \in StrictSubsetOrdering(Nat)
    BY <2>1 DEF StrictSubsetOrdering
  <2>. QED
    BY <1>2, <1>3, <2>2
<1>. QED
  BY <1>4

-----------------------------------------------------------------------------
(* RateLimiter.                                                              *)

\* Admissions are in the order of time; the calls that are kept are the last
\* of them, and those that are not kept are out of the window.
WindowInv ==
    /\ now \in Nat /\ admitted \in Seq(Nat) /\ calls \in Seq(Nat)
    /\ \A i, j \in DOMAIN admitted : i < j => admitted[i] <= admitted[j]
    /\ \A i \in DOMAIN admitted : admitted[i] <= now
    /\ Len(calls) <= Len(admitted)
    /\ \A k \in 1 .. Len(calls) : calls[k] = admitted[Len(admitted) - Len(calls) + k]
    /\ \A i \in 1 .. Len(admitted) - Len(calls) : now - admitted[i] >= Window
    /\ WindowNeverExceeded

\* What is true of the calls that are left once outdated ones have been dropped
\* at the front.
Suffix(c) ==
    /\ c \in Seq(Nat) /\ Len(c) <= Len(admitted)
    /\ \A k \in 1 .. Len(c) : c[k] = admitted[Len(admitted) - Len(c) + k]
    /\ \A i \in 1 .. Len(admitted) - Len(c) : now - admitted[i] >= Window

\* Pruning drops nothing that is in the window.
LEMMA PrunedIsSuffix == WindowInv => Suffix(Pruned(calls))
<1> SUFFICES ASSUME WindowInv PROVE Suffix(Pruned(calls))
  OBVIOUS
<1> USE LimiterAssumption
<1> DEFINE live == {i \in DOMAIN calls : now - calls[i] < Window}
<1>1. /\ now \in Nat /\ calls \in Seq(Nat) /\ admitted \in Seq(Nat)
      /\ Len(calls) \in Nat /\ Len(admitted) \in Nat /\ Len(calls) <= Len(admitted)
      /\ DOMAIN calls = 1 .. Len(calls) /\ DOMAIN admitted = 1 .. Len(admitted)
      /\ \A i \in 1 .. Len(calls) : calls[i] \in Nat
      /\ \A i \in 1 .. Len(admitted) : admitted[i] \in Nat
  BY DEF WindowInv
<1>a. /\ \A k \in 1 .. Len(calls) : calls[k] = admitted[Len(admitted) - Len(calls) + k]
      /\ \A i \in 1 .. Len(admitted) - Len(calls) : now - admitted[i] >= Window
  BY DEF WindowInv
<1>b. ASSUME NEW i \in 1 .. Len(admitted), i > Len(admitted) - Len(calls)
      PROVE  LET k == i - (Len(admitted) - Len(calls))
             IN  k \in 1 .. Len(calls) /\ calls[k] = admitted[i]
  <2> DEFINE k == i - (Len(admitted) - Len(calls))
  <2>1. k \in 1 .. Len(calls) /\ Len(admitted) - Len(calls) + k = i
    BY <1>1, <1>b
  <2>2. calls[k] = admitted[Len(admitted) - Len(calls) + k]
    BY <1>a, <2>1
  <2>. QED
    BY <2>1, <2>2
<1>2. CASE live = {}
  <2>1. Pruned(calls) = <<>>
    BY <1>2 DEF Pruned
  <2>2. \A i \in 1 .. Len(calls) : now - calls[i] >= Window
    <3> SUFFICES ASSUME NEW i \in 1 .. Len(calls), now - calls[i] < Window PROVE FALSE
      BY <1>1
    <3>. QED
      BY <1>1, <1>2
  <2>3. ASSUME NEW i \in 1 .. Len(admitted) PROVE now - admitted[i] >= Window
    <3>1. CASE i <= Len(admitted) - Len(calls)
      BY <1>1, <1>a, <3>1
    <3>2. CASE i > Len(admitted) - Len(calls)
      BY <1>b, <2>2, <3>2
    <3>. QED
      BY <3>1, <3>2
  <2>. QED
    BY <1>1, <2>1, <2>3 DEF Suffix
<1>3. CASE live # {}
  <2> DEFINE first == Least(live)
  <2>1. first \in live /\ \A j \in live : first <= j
    <3>1. live \in SUBSET Nat
      BY <1>1
    <3>2. \E i \in live : \A j \in live : i <= j
      BY <1>3, <3>1, NatHasLeast
    <3>. QED
      BY <3>2 DEF Least
  <2>2. first \in 1 .. Len(calls)
    BY <1>1, <2>1
  <2>3. Pruned(calls) = SubSeq(calls, first, Len(calls))
    BY <1>3 DEF Pruned
  <2> HIDE DEF first
  <2>4. \A i \in 1 .. first - 1 : now - calls[i] >= Window
    <3> SUFFICES ASSUME NEW i \in 1 .. first - 1, now - calls[i] < Window PROVE FALSE
      BY <1>1, <2>2
    <3>1. i \in live /\ i < first
      BY <1>1, <2>2
    <3>. QED
      BY <1>1, <2>1, <2>2, <3>1
  <2> HIDE DEF live
  <2>5. /\ Pruned(calls) \in Seq(Nat) /\ Len(Pruned(calls)) = Len(calls) - first + 1
        /\ \A k \in 1 .. Len(calls) - first + 1 : Pruned(calls)[k] = calls[first + k - 1]
    <3>1. first \in Int /\ Len(calls) \in Int /\ \A i \in first .. Len(calls) : calls[i] \in Nat
      BY <1>1, <2>2
    <3>2. first <= Len(calls)
      BY <1>1, <2>2
    <3>. QED
      BY <2>3, <3>1, <3>2, SubSeqProperties
  <2>6. ASSUME NEW k \in 1 .. Len(Pruned(calls))
        PROVE  Pruned(calls)[k] = admitted[Len(admitted) - Len(Pruned(calls)) + k]
    <3>1. first + k - 1 \in 1 .. Len(calls)
      BY <1>1, <2>2, <2>5
    <3>2. calls[first + k - 1] = admitted[Len(admitted) - Len(calls) + (first + k - 1)]
      BY <1>1, <1>a, <3>1
    <3>. QED
      BY <1>1, <2>2, <2>5, <3>1, <3>2
  <2>7. ASSUME NEW i \in 1 .. Len(admitted) - Len(Pruned(calls))
        PROVE  now - admitted[i] >= Window
    <3>1. CASE i <= Len(admitted) - Len(calls)
      BY <1>1, <1>a, <3>1, <2>2, <2>5
    <3>2. CASE i > Len(admitted) - Len(calls)
      <4>1. i \in 1 .. Len(admitted) /\ i - (Len(admitted) - Len(calls)) \in 1 .. first - 1
        <5>1. i \in 1 .. Len(admitted) - (Len(calls) - first + 1)
          BY <2>5
        <5>. QED
          BY <1>1, <3>2, <2>2, <5>1
      <4>. QED
        BY <1>b, <2>4, <3>2, <4>1
    <3>. QED
      BY <3>1, <3>2
  <2>. QED
    BY <1>1, <2>2, <2>5, <2>6, <2>7 DEF Suffix
<1>. QED
  BY <1>2, <1>3

\* Dropping outdated calls keeps the invariant.
LEMMA PruneKeeps ==
  ASSUME WindowInv, calls' = Pruned(calls), UNCHANGED <<now, admitted>>
  PROVE  WindowInv'
BY PrunedIsSuffix DEF WindowInv, Suffix, WindowNeverExceeded

\* An admission keeps it: when fewer than MaxCalls calls are left, the one that
\* was admitted MaxCalls admissions before is not among them.
LEMMA AdmitKeeps ==
  ASSUME WindowInv, Admit, UNCHANGED now
  PROVE  WindowInv'
<1> USE LimiterAssumption
<1> DEFINE c == Pruned(calls)
           n == Len(admitted)
           p == Len(c)
<1>1. /\ now \in Nat /\ admitted \in Seq(Nat) /\ n \in Nat /\ DOMAIN admitted = 1 .. n
      /\ c \in Seq(Nat) /\ p \in Nat /\ p <= n /\ p < MaxCalls
      /\ \A i \in 1 .. n : admitted[i] \in Nat /\ admitted[i] <= now
  BY PrunedIsSuffix DEF WindowInv, Suffix, Admit, HasRoom
<1>2. /\ \A k \in 1 .. p : c[k] = admitted[n - p + k]
      /\ \A i \in 1 .. n - p : now - admitted[i] >= Window
  BY PrunedIsSuffix DEF Suffix
<1>3. /\ admitted' \in Seq(Nat) /\ Len(admitted') = n + 1 /\ DOMAIN admitted' = 1 .. n + 1
      /\ \A i \in 1 .. n : admitted'[i] = admitted[i]
      /\ admitted'[n + 1] = now
  BY <1>1, AppendProperties DEF Admit
<1>4. /\ calls' \in Seq(Nat) /\ Len(calls') = p + 1
      /\ \A k \in 1 .. p : calls'[k] = c[k]
      /\ calls'[p + 1] = now
  BY <1>1, AppendProperties DEF Admit
<1> HIDE DEF c, n, p
<1>5. ASSUME NEW i \in 1 .. n + 1, NEW j \in 1 .. n + 1, i < j
      PROVE  admitted'[i] <= admitted'[j]
  <2>1. CASE j = n + 1
    BY <1>1, <1>3, <1>5, <2>1
  <2>2. CASE j \in 1 .. n
    <3>1. admitted[i] <= admitted[j]
      <4>1. i \in DOMAIN admitted /\ j \in DOMAIN admitted
        BY <1>1, <1>5, <2>2
      <4>. QED
        BY <1>5, <4>1 DEF WindowInv
    <3>. QED
      BY <1>1, <1>3, <1>5, <2>2, <3>1
  <2>. QED
    BY <1>1, <2>1, <2>2
<1>6. \A i \in 1 .. n + 1 : admitted'[i] <= now
  BY <1>1, <1>3
<1>7. ASSUME NEW k \in 1 .. p + 1
      PROVE  calls'[k] = admitted'[(n + 1) - (p + 1) + k]
  <2>1. CASE k = p + 1
    BY <1>1, <1>3, <1>4, <2>1
  <2>2. CASE k \in 1 .. p
    <3>1. n - p + k \in 1 .. n /\ (n + 1) - (p + 1) + k = n - p + k
      BY <1>1, <2>2
    <3>. QED
      BY <1>2, <1>3, <1>4, <2>2, <3>1
  <2>. QED
    BY <1>1, <2>1, <2>2
<1>8. ASSUME NEW i \in 1 .. (n + 1) - (p + 1)
      PROVE  now - admitted'[i] >= Window
  <2>1. i \in 1 .. n /\ i \in 1 .. n - p
    BY <1>1
  <2>. QED
    BY <1>2, <1>3, <2>1
<1>9. ASSUME NEW i \in 1 .. n + 1, i + MaxCalls \in 1 .. n + 1
      PROVE  admitted'[i + MaxCalls] - admitted'[i] >= Window
  <2>1. CASE i + MaxCalls = n + 1
    <3>1. i \in 1 .. n - p /\ i \in 1 .. n
      BY <1>1, <1>9, <2>1
    <3>. QED
      BY <1>2, <1>3, <2>1, <3>1
  <2>2. CASE i + MaxCalls \in 1 .. n
    <3>1. i \in 1 .. n
      BY <1>1, <2>2
    <3>2. admitted[i + MaxCalls] - admitted[i] >= Window
      BY <1>1, <2>2, <3>1 DEF WindowInv, WindowNeverExceeded
    <3>. QED
      BY <1>3, <2>2, <3>1, <3>2
  <2>. QED
    BY <1>1, <1>9, <2>1, <2>2
<1>. QED
  <2>1. now' = now /\ p + 1 <= n + 1
    BY <1>1
  <2>. QED
    BY <1>1, <1>3, <1>4, <1>5, <1>6, <1>7, <1>8, <1>9, <2>1 DEF WindowInv, WindowNeverExceeded

\* No window of the length Window holds more than MaxCalls admissions, for any
\* number of threads, any interleaving and any delay between two looks.
THEOREM WindowAlwaysKept == LimiterSpec => []WindowNeverExceeded
<1>1. LimiterInit => WindowInv
  BY EmptySeq DEF LimiterInit, WindowInv, WindowNeverExceeded
<1>2. WindowInv /\ [LimiterNext]_limiterVars => WindowInv'
  <2> SUFFICES ASSUME WindowInv, [LimiterNext]_limiterVars PROVE WindowInv'
    OBVIOUS
  <2>1. ASSUME NEW t \in Threads, Allow(t) PROVE WindowInv'
    BY <2>1, AdmitKeeps, PruneKeeps DEF Allow, Refuse
  <2>2. ASSUME NEW t \in Threads, BeginWait(t) PROVE WindowInv'
    BY <2>2 DEF BeginWait, WindowInv, WindowNeverExceeded
  <2>3. ASSUME NEW t \in Threads, Look(t) PROVE WindowInv'
    BY <2>3, AdmitKeeps, PruneKeeps DEF Look, Refuse
  <2>4. CASE Snapshot
    BY <2>4, PruneKeeps DEF Snapshot
  <2>5. CASE Tick
    <3>1. now' = now + 1 /\ UNCHANGED <<calls, admitted>>
      BY <2>5 DEF Tick
    <3>2. \A i \in DOMAIN admitted : admitted[i] \in Nat
      BY DEF WindowInv
    <3>3. \A i \in 1 .. Len(admitted) - Len(calls) : i \in DOMAIN admitted
      BY DEF WindowInv
    <3>. QED
      BY <3>1, <3>2, <3>3, LimiterAssumption DEF WindowInv, WindowNeverExceeded
  <2>6. CASE UNCHANGED limiterVars
    BY <2>6 DEF limiterVars, WindowInv, WindowNeverExceeded
  <2>. QED
    BY <2>1, <2>2, <2>3, <2>4, <2>5, <2>6 DEF LimiterNext
<1>3. WindowInv => WindowNeverExceeded
  BY DEF WindowInv
<1>. QED
  BY <1>1, <1>2, <1>3, PTL DEF LimiterSpec

-----------------------------------------------------------------------------
(* MarketData.                                                               *)

Half == [Prices -> Sizes \cup {0}]
Book == [bids : Half, asks : Half]

\* The book has the version it claims to have, and that version exists.
BookInv ==
    /\ feed \in Seq(Book) /\ feed # <<>>
    /\ book \in Book
    /\ version = NoVersion \/ (version \in DOMAIN feed /\ book = feed[version])
    /\ BookIsItsVersion

\* A function that is overwritten where it differs from another is that other.
LEMMA DifferenceApplied ==
  ASSUME NEW old \in Half, NEW new \in Half, NEW S \in SUBSET Prices,
         \A p \in Prices : p \in S \/ old[p] = new[p]
  PROVE  Applied(old, [p \in S |-> new[p]]) = new
BY DEF Applied, Half

\* An accepted message makes the book that of the message's version.
LEMMA FollowingIsNext ==
  ASSUME BookInv, NEW v \in 1 .. Len(feed), NEW type \in {"snapshot", "update"},
         type = "update" => v > 1, Follows(Message(type, v))
  PROVE  /\ Applied(book.bids, Message(type, v).bids) = feed[v].bids
         /\ Applied(book.asks, Message(type, v).asks) = feed[v].asks
<1>1. feed[v] \in Book /\ book \in Book
  BY DEF BookInv
<1>2. CASE type = "snapshot"
  <2>1. Message(type, v).bids = [p \in Prices |-> feed[v].bids[p]]
    BY <1>1, <1>2 DEF Message, Book, Half
  <2>2. Message(type, v).asks = [p \in Prices |-> feed[v].asks[p]]
    BY <1>1, <1>2 DEF Message, Book, Half
  <2>. QED
    BY <1>1, <2>1, <2>2, DifferenceApplied DEF Book
<1>3. CASE type = "update"
  <2>1. version # NoVersion /\ v = version + 1
    BY <1>3 DEF Follows, Message
  <2>2. version \in 1 .. Len(feed) /\ v - 1 = version /\ book = feed[v - 1]
    BY <2>1 DEF BookInv
  <2>3. Message(type, v).bids = [p \in {p \in Prices : feed[v].bids[p] # book.bids[p]} |-> feed[v].bids[p]]
    BY <1>3, <2>2 DEF Message
  <2>4. Message(type, v).asks = [p \in {p \in Prices : feed[v].asks[p] # book.asks[p]} |-> feed[v].asks[p]]
    BY <1>3, <2>2 DEF Message
  <2>5. feed[v].bids \in Half /\ feed[v].asks \in Half /\ book.bids \in Half /\ book.asks \in Half
    BY <1>1 DEF Book
  <2>6. Applied(book.bids, Message(type, v).bids) = feed[v].bids
    BY <2>3, <2>5, DifferenceApplied
  <2>7. Applied(book.asks, Message(type, v).asks) = feed[v].asks
    BY <2>4, <2>5, DifferenceApplied
  <2>. QED
    BY <2>6, <2>7
<1>. QED
  BY <1>2, <1>3

\* A step of the exchange's book adds a version.
LEMMA BookMovesKeeps == BookInv /\ BookMoves => BookInv'
<1> SUFFICES ASSUME BookInv, BookMoves PROVE BookInv'
  OBVIOUS
<1>1. feed \in Seq(Book) /\ feed # <<>> /\ Len(feed) \in 1 .. Len(feed) /\ feed[Len(feed)] \in Book
  BY DEF BookInv
<1>2. PICK side \in {"bids", "asks"}, p \in Prices, s \in Sizes :
        feed' = Append(feed, [feed[Len(feed)] EXCEPT ![side][p] = s])
  BY DEF BookMoves
<1>3. [feed[Len(feed)] EXCEPT ![side][p] = s] \in Book
  <2>1. feed[Len(feed)].bids \in Half /\ feed[Len(feed)].asks \in Half
    BY <1>1 DEF Book
  <2>2. CASE side = "bids"
    BY <1>1, <2>1, <2>2 DEF Book, Half
  <2>3. CASE side = "asks"
    BY <1>1, <2>1, <2>3 DEF Book, Half
  <2>. QED
    BY <2>2, <2>3
<1>4. /\ feed' \in Seq(Book) /\ feed' # <<>> /\ DOMAIN feed \subseteq DOMAIN feed'
      /\ \A v \in DOMAIN feed : feed'[v] = feed[v]
  BY <1>1, <1>2, <1>3, AppendProperties
<1>5. UNCHANGED <<book, version, market>>
  BY DEF BookMoves
<1>. QED
  <2>1. book' \in Book /\ (version' = NoVersion \/ (version' \in DOMAIN feed' /\ book' = feed'[version']))
    BY <1>4, <1>5 DEF BookInv
  <2>2. ASSUME NEW v \in DOMAIN feed, market = Top(feed[v])
        PROVE  \E w \in DOMAIN feed' : market' = Top(feed'[w])
    BY <1>4, <1>5, <2>2
  <2>3. BookIsItsVersion'
    BY <1>5, <2>1, <2>2 DEF BookInv, BookIsItsVersion
  <2>. QED
    BY <1>4, <2>1, <2>3 DEF BookInv

\* However the messages of the exchange are lost, repeated and reordered, the
\* book is the one of its version and the published market was the market once.
THEOREM BookAlwaysItsVersion == MarketSpec => []BookIsItsVersion
<1>1. MarketInit => BookInv
  BY DEF MarketInit, BookInv, BookIsItsVersion, Book, Half, Empty
<1>2. BookInv /\ [MarketNext]_marketVars => BookInv'
  <2> SUFFICES ASSUME BookInv, [MarketNext]_marketVars PROVE BookInv'
    OBVIOUS
  <2>1. CASE BookMoves
    BY <2>1, BookMovesKeeps
  <2>2. ASSUME NEW v \in 1 .. Len(feed), NEW type \in {"snapshot", "update"},
               type = "update" => v > 1, DepthApplied(Message(type, v))
        PROVE  BookInv'
    <3>1. UNCHANGED feed /\ market' = Top(book')
      BY <2>2 DEF DepthApplied
    <3>2. CASE Follows(Message(type, v))
      <4>1. feed[v] \in Book
        BY DEF BookInv
      <4>2. book' = feed[v] /\ version' = v
        BY <2>2, <3>2, <4>1, FollowingIsNext DEF DepthApplied, Message, Book
      <4>. QED
        BY <3>1, <4>1, <4>2 DEF BookInv, BookIsItsVersion
    <3>3. CASE ~Follows(Message(type, v))
      <4>1. UNCHANGED <<book, version>> /\ version # NoVersion
        BY <2>2, <3>3 DEF DepthApplied, Old
      <4>2. version \in DOMAIN feed /\ book = feed[version]
        BY <4>1 DEF BookInv
      <4>. QED
        BY <3>1, <4>1, <4>2 DEF BookInv, BookIsItsVersion
    <3>. QED
      BY <3>2, <3>3
  <2>3. ASSUME NEW u, DepthGap(u) PROVE BookInv'
    BY <2>3 DEF DepthGap, BookInv, BookIsItsVersion
  <2>4. ASSUME NEW v \in 1 .. Len(feed), Ticker(v) PROVE BookInv'
    <3>1. v \in DOMAIN feed
      BY DEF BookInv
    <3>. QED
      BY <2>4, <3>1 DEF Ticker, BookInv, BookIsItsVersion
  <2>5. CASE UNCHANGED marketVars
    BY <2>5 DEF marketVars, BookInv, BookIsItsVersion
  <2>. QED
    BY <2>1, <2>2, <2>3, <2>4, <2>5 DEF MarketNext
<1>3. BookInv => BookIsItsVersion
  BY DEF BookInv
<1>. QED
  BY <1>1, <1>2, <1>3, PTL DEF MarketSpec

-----------------------------------------------------------------------------
(* OrderStores.                                                              *)

\* What a call has put together when it is about to commit is what the call is
\* to make of the table.
StoreInv ==
    /\ stage \in {"idle", "open", "upserted", "ready", "committed"}
    /\ backend \in {"json", "sqlite", "postgres"}
    /\ IF stage = "idle" THEN call = Contract!NoCall ELSE call \in Contract!Calls
    /\ (stage = "open" /\ backend # "json") => work = durable
    /\ stage = "upserted" => call.kind = "save" /\ work = Contract!With(call.rows, durable)
    /\ stage = "ready" => work = Contract!Effect(call, durable)

\* What the calls are.
LEMMA CallIsWrite ==
  ASSUME NEW c \in Contract!Calls
  PROVE  /\ c # Contract!NoCall
         /\ c.kind \in {"save", "save_order"}
         /\ c.kind = "save" => c.rows \in Contract!Tables
<1>1. CASE c \in {[kind |-> "save", rows |-> t] : t \in Contract!Tables}
  BY <1>1 DEF Contract!NoCall
<1>2. CASE c \in {[kind |-> "save_order", rows |-> [x \in {id} |-> v]] : id \in Ids, v \in Values}
  <2>1. PICK id \in Ids, v \in Values : c = [kind |-> "save_order", rows |-> [x \in {id} |-> v]]
    BY <1>2
  <2>. QED
    BY <2>1 DEF Contract!NoCall
<1>. QED
  BY <1>1, <1>2 DEF Contract!Calls

\* The steps of a call keep it so; deleting what was not given leaves what was.
LEMMA StoreStep == StoreInv /\ [StoreNext]_storeVars => StoreInv'
<1> SUFFICES ASSUME StoreInv, [StoreNext]_storeVars PROVE StoreInv'
  OBVIOUS
<1> USE DEF StoreInv
<1>1. ASSUME NEW c \in Contract!Calls, Open(c) PROVE StoreInv'
  BY <1>1 DEF Open
<1>2. CASE Dump
  <2>1. call.kind \in {"save", "save_order"}
    BY <1>2, CallIsWrite DEF Dump
  <2>2. work' = Contract!Effect(call, durable)
    BY <1>2, <2>1 DEF Dump, NewFile, Contract!Effect
  <2>. QED
    BY <1>2, <2>2 DEF Dump
<1>3. CASE UpsertRows
  <2>1. work' = Contract!With(call.rows, durable) /\ call \in Contract!Calls
        /\ UNCHANGED <<backend, durable, call>>
    BY <1>3 DEF UpsertRows, Upsert
  <2>2. CASE call.kind = "save"
    BY <1>3, <2>1, <2>2 DEF UpsertRows
  <2>3. CASE call.kind = "save_order"
    BY <1>3, <2>1, <2>3 DEF UpsertRows, Contract!Effect
  <2>. QED
    BY <2>1, <2>2, <2>3, CallIsWrite
<1>4. CASE DeleteOthers
  <2>1. call \in Contract!Calls /\ call.kind = "save" /\ work = Contract!With(call.rows, durable)
        /\ UNCHANGED <<backend, durable, call>> /\ stage' = "ready"
    BY <1>4 DEF DeleteOthers
  <2>2. work' = [id \in DOMAIN work \cap DOMAIN call.rows |-> work[id]]
    BY <1>4 DEF DeleteOthers
  <2>3. work' = call.rows
    <3>1. call.rows \in Contract!Tables
      BY <2>1, CallIsWrite
    <3>2. [id \in DOMAIN work \cap DOMAIN call.rows |-> work[id]] = call.rows
      <4>1. call.rows = [id \in DOMAIN call.rows |-> call.rows[id]]
        BY <3>1 DEF Contract!Tables
      <4>2. DOMAIN work \cap DOMAIN call.rows = DOMAIN call.rows
        BY <2>1 DEF Contract!With
      <4>3. \A id \in DOMAIN call.rows : work[id] = call.rows[id]
        BY <2>1 DEF Contract!With
      <4>. QED
        BY <4>1, <4>2, <4>3
    <3>. QED
      BY <2>2, <3>2
  <2>. QED
    BY <2>1, <2>3 DEF Contract!Effect
<1>5. CASE Commit
  BY <1>5 DEF Commit
<1>6. ASSUME NEW result, Closed(result) PROVE StoreInv'
  BY <1>6 DEF Closed
<1>7. CASE Load
  BY <1>7 DEF Load
<1>8. CASE UNCHANGED storeVars
  BY <1>8 DEF storeVars
<1>. QED
  BY <1>1, <1>2, <1>3, <1>4, <1>5, <1>6, <1>7, <1>8 DEF StoreNext, Return, Raise, Crash

\* Every step of a store is a step of the contract, or does not show.
LEMMA StoreStepRefines ==
  StoreInv /\ [StoreNext]_storeVars => [Contract!Next]_Contract!vars
<1> SUFFICES ASSUME StoreInv, [StoreNext]_storeVars PROVE [Contract!Next]_Contract!vars
  OBVIOUS
<1> USE DEF StoreInv, Contract!vars
<1>1. ASSUME NEW c \in Contract!Calls, Open(c) PROVE Contract!Begin(c)
  BY <1>1 DEF Open, Contract!Begin
<1>2. CASE Dump \/ UpsertRows \/ DeleteOthers
  BY <1>2 DEF Dump, UpsertRows, Upsert, DeleteOthers
<1>3. CASE Commit
  <2>1. durable' = Contract!Effect(call, durable) /\ call # Contract!NoCall
    BY <1>3, CallIsWrite DEF Commit
  <2>2. Contract!Apply
    BY <1>3, <2>1 DEF Commit, Contract!Apply
  <2>. QED
    BY <2>2 DEF Contract!Next
<1>4. CASE Return
  BY <1>4, CallIsWrite DEF Return, Closed, Contract!End, Contract!Next
<1>5. CASE Raise
  BY <1>5, CallIsWrite DEF Raise, Closed, Contract!End, Contract!Next
<1>6. CASE Crash
  BY <1>6, CallIsWrite DEF Crash, Closed, Contract!End, Contract!Next
<1>7. CASE Load
  BY <1>7 DEF Load, Contract!Read, Contract!Next
<1>8. CASE UNCHANGED storeVars
  BY <1>8 DEF storeVars
<1>. QED
  BY <1>1, <1>2, <1>3, <1>4, <1>5, <1>6, <1>7, <1>8 DEF StoreNext, Contract!Next

\* Each of the three stores replaces its table in one instant between a call and
\* its return, for any set of orders, whichever step raises or is the last.
THEOREM StoresAreAtomic == StoreSpec => ActsAsOneWrite
<1>1. StoreInit => StoreInv /\ Contract!Init
  BY DEF StoreInit, StoreInv, Backend, Contract!Init
<1>. QED
  BY <1>1, StoreStep, StoreStepRefines, PTL DEF StoreSpec, ActsAsOneWrite, Contract!Spec

=============================================================================
