---------------------------- MODULE ConsoleProofs ----------------------------
(* Theorems about the admin console, the configuration file and its reloader *)
(* (MCConsole), for any number of threads and requests and any symbols,      *)
(* strategies, users and roles.                                              *)
EXTENDS MCConsole, FiniteSetTheorems, SequenceTheorems, TLAPS

Places == {"idle", "reading", "writing", "forgetting", "recording", "signing"}
Editing == {"reading", "writing", "forgetting"}
Files == Configs(Symbols, Strategies)

\* A thread has a granted edit while it makes it; then only that it made one.
Flow ==
    \A t \in Threads :
        /\ pc[t] \in Editing => request[t] \in Requests /\ IsEdit(request[t])
        /\ pc[t] = "idle" => request[t] = None
        /\ pc[t] \in {"recording", "signing"} => request[t] \in {None, Edit}

FileInv ==
    /\ pc \in [Threads -> Places]
    /\ request \in [Threads -> Requests \cup {None, Edit}]
    /\ Flow
    /\ config \in Files /\ Coherent(config)
    /\ copy \in [Threads -> Files] /\ \A t \in Threads : Coherent(copy[t])

-----------------------------------------------------------------------------
(* Edits of the file.                                                        *)

\* Every edit of a coherent configuration leaves a coherent one.
LEMMA EditedCoherent ==
  ASSUME NEW c \in Files, Coherent(c), NEW r \in Requests, IsEdit(r)
  PROVE  Edited(c, r) \in Files /\ Coherent(Edited(c, r))
<1>1. /\ c.symbols \in SUBSET Symbols /\ c.rules \in SUBSET Symbols /\ c.prices \in SUBSET Symbols
      /\ c.malformed \in SUBSET Symbols /\ c.strategies \in SUBSET Strategies
      /\ c = [symbols |-> c.symbols, rules |-> c.rules, prices |-> c.prices,
              malformed |-> c.malformed, strategies |-> c.strategies]
  BY DEF Files, Configs
<1>0. ASSUME NEW a, NEW b, NEW p, NEW m, NEW st
      PROVE  [c EXCEPT !.symbols = a, !.rules = b, !.prices = p, !.malformed = m, !.strategies = st]
                = [symbols |-> a, rules |-> b, prices |-> p, malformed |-> m, strategies |-> st]
  <2> DEFINE d1 == [c EXCEPT !.symbols = a]
             d2 == [d1 EXCEPT !.rules = b]
             d3 == [d2 EXCEPT !.prices = p]
             d4 == [d3 EXCEPT !.malformed = m]
             d5 == [d4 EXCEPT !.strategies = st]
  <2>1. [c EXCEPT !.symbols = a, !.rules = b, !.prices = p, !.malformed = m, !.strategies = st] = d5
    BY Zenon
  <2>2. d1 = [symbols |-> a, rules |-> c.rules, prices |-> c.prices,
              malformed |-> c.malformed, strategies |-> c.strategies]
    BY <1>1
  <2> HIDE DEF d1
  <2>3. d2 = [symbols |-> a, rules |-> b, prices |-> c.prices,
              malformed |-> c.malformed, strategies |-> c.strategies]
    BY <2>2
  <2> HIDE DEF d2
  <2>4. d3 = [symbols |-> a, rules |-> b, prices |-> p, malformed |-> c.malformed, strategies |-> c.strategies]
    BY <2>3
  <2> HIDE DEF d3
  <2>5. d4 = [symbols |-> a, rules |-> b, prices |-> p, malformed |-> m, strategies |-> c.strategies]
    BY <2>4
  <2> HIDE DEF d4
  <2>6. d5 = [symbols |-> a, rules |-> b, prices |-> p, malformed |-> m, strategies |-> st]
    BY <2>5
  <2>. QED
    BY <2>1, <2>6
<1>2. CASE r.path = "/api/symbols"
  <2>1. Edited(c, r) = SaveSymbol(c, r.symbol, r.wellFormed)
    BY <1>2 DEF Edited
  <2>2. r.symbol \in Symbols
    BY <1>2 DEF Requests
  <2> DEFINE e == SaveSymbol(c, r.symbol, r.wellFormed)
  <2>3. /\ e = [symbols |-> e.symbols, rules |-> e.rules, prices |-> e.prices,
                malformed |-> e.malformed, strategies |-> e.strategies]
        /\ e.symbols = c.symbols \cup {r.symbol} /\ e.rules = c.rules \cup {r.symbol}
        /\ e.prices = c.prices \cup {r.symbol} /\ e.strategies = c.strategies
        /\ e.malformed \in SUBSET (c.malformed \cup {r.symbol})
    <3> DEFINE m == IF r.wellFormed THEN c.malformed \ {r.symbol} ELSE c.malformed \cup {r.symbol}
    <3>1. e = [symbols |-> c.symbols \cup {r.symbol}, rules |-> c.rules \cup {r.symbol},
               prices |-> c.prices \cup {r.symbol}, malformed |-> m, strategies |-> c.strategies]
      <4> DEFINE a == c.symbols \cup {r.symbol}
                 b == c.rules \cup {r.symbol}
                 p == c.prices \cup {r.symbol}
      <4>1. e = [c EXCEPT !.symbols = a, !.rules = b, !.prices = p, !.malformed = m]
        BY Zenon DEF SaveSymbol
      <4> HIDE DEF a, b, p, m, e
      <4>2. e = [symbols |-> a, rules |-> b, prices |-> p, malformed |-> m, strategies |-> c.strategies]
        BY <4>1, <1>0
      <4>. QED
        BY <4>2 DEF a, b, p
    <3>2. m \in SUBSET (c.malformed \cup {r.symbol})
      OBVIOUS
    <3> HIDE DEF e, m
    <3>. QED
      BY <3>1, <3>2
  <2> HIDE DEF e
  <2>4. e \in Files
    <3>1. e.symbols \in SUBSET Symbols /\ e.rules \in SUBSET Symbols /\ e.prices \in SUBSET Symbols
          /\ e.malformed \in SUBSET Symbols /\ e.strategies \in SUBSET Strategies
      BY <1>1, <2>2, <2>3
    <3>. QED
      BY <2>3, <3>1 DEF Files, Configs
  <2>5. Coherent(e)
    BY <2>3 DEF Coherent
  <2>. QED
    BY <2>1, <2>4, <2>5 DEF e
<1>3. CASE r.path = "/api/symbols/delete"
  <2>1. Edited(c, r) = DeleteSymbol(c, r.symbol)
    BY <1>3 DEF Edited
  <2> DEFINE e == DeleteSymbol(c, r.symbol)
  <2>3. /\ e = [symbols |-> e.symbols, rules |-> e.rules, prices |-> e.prices,
                malformed |-> e.malformed, strategies |-> e.strategies]
        /\ e.symbols = c.symbols \ {r.symbol} /\ e.rules = c.rules \ {r.symbol}
        /\ e.prices = c.prices \ {r.symbol} /\ e.strategies \in SUBSET c.strategies
        /\ e.malformed \in SUBSET c.malformed
    <3> DEFINE S == {s \in c.strategies : s.symbol # r.symbol}
    <3>1. e = [symbols |-> c.symbols \ {r.symbol}, rules |-> c.rules \ {r.symbol},
               prices |-> c.prices \ {r.symbol}, malformed |-> c.malformed \ {r.symbol}, strategies |-> S]
      <4> DEFINE a == c.symbols \ {r.symbol}
                 b == c.rules \ {r.symbol}
                 p == c.prices \ {r.symbol}
                 m == c.malformed \ {r.symbol}
      <4>1. e = [c EXCEPT !.symbols = a, !.rules = b, !.prices = p, !.malformed = m, !.strategies = S]
        BY Zenon DEF DeleteSymbol
      <4> HIDE DEF a, b, p, m, e, S
      <4>2. e = [symbols |-> a, rules |-> b, prices |-> p, malformed |-> m, strategies |-> S]
        BY <4>1, <1>0
      <4>. QED
        BY <4>2 DEF a, b, p, m
    <3>2. S \in SUBSET c.strategies
      OBVIOUS
    <3> HIDE DEF e, S
    <3>. QED
      BY <3>1, <3>2
  <2> HIDE DEF e
  <2>4. e \in Files
    <3>1. e.symbols \in SUBSET Symbols /\ e.rules \in SUBSET Symbols /\ e.prices \in SUBSET Symbols
          /\ e.malformed \in SUBSET Symbols /\ e.strategies \in SUBSET Strategies
      BY <1>1, <2>3
    <3>. QED
      BY <2>3, <3>1 DEF Files, Configs
  <2>5. Coherent(e)
    BY <2>3 DEF Coherent
  <2>. QED
    BY <2>1, <2>4, <2>5 DEF e
<1>a. ASSUME NEW S \in SUBSET Strategies, \A s, z \in S : Key(s) = Key(z) => s = z,
             NEW e, e = [c EXCEPT !.strategies = S]
      PROVE  e \in Files /\ Coherent(e)
  <2>1. e = [symbols |-> c.symbols, rules |-> c.rules, prices |-> c.prices,
             malformed |-> c.malformed, strategies |-> S]
    BY <1>1, <1>a
  <2>2. e \in Files
    BY <1>1, <2>1 DEF Files, Configs
  <2>. QED
    BY <1>a, <2>1, <2>2 DEF Coherent
<1>4. CASE r.path = "/api/strategies"
  <2>1. Edited(c, r) = SaveStrategy(c, r.item)
    BY <1>4 DEF Edited
  <2>2. r.item \in Strategies
    BY <1>4 DEF Requests
  <2> DEFINE S == {s \in c.strategies : Key(s) # Key(r.item)} \cup {r.item}
  <2>3. S \in SUBSET Strategies /\ \A s, z \in S : Key(s) = Key(z) => s = z
    BY <1>1, <2>2 DEF Coherent
  <2>4. SaveStrategy(c, r.item) = [c EXCEPT !.strategies = S]
    BY DEF SaveStrategy
  <2> HIDE DEF S
  <2>. QED
    BY <1>a, <2>1, <2>3, <2>4
<1>5. CASE r.path = "/api/strategies/delete"
  <2>1. Edited(c, r) = DeleteStrategy(c, r.key)
    BY <1>5 DEF Edited
  <2> DEFINE S == {s \in c.strategies : Key(s) # r.key}
  <2>3. S \in SUBSET Strategies /\ \A s, z \in S : Key(s) = Key(z) => s = z
    BY <1>1 DEF Coherent
  <2>4. DeleteStrategy(c, r.key) = [c EXCEPT !.strategies = S]
    BY DEF DeleteStrategy
  <2> HIDE DEF S
  <2>. QED
    BY <1>a, <2>1, <2>3, <2>4
<1>. QED
  BY <1>2, <1>3, <1>4, <1>5 DEF IsEdit

-----------------------------------------------------------------------------
(* The file under the steps of the threads.                                  *)

LEMMA FileInitInv == ConsoleInit => FileInv
<1> SUFFICES ASSUME ConsoleInit PROVE FileInv
  OBVIOUS
<1>1. FirstConfig \in Files /\ Coherent(FirstConfig)
  BY ConsoleAssumption DEF Files
<1>2. /\ pc = [t \in Threads |-> "idle"] /\ request = [t \in Threads |-> None]
      /\ copy = [t \in Threads |-> FirstConfig] /\ config = FirstConfig
  BY DEF ConsoleInit
<1>3. pc \in [Threads -> Places] /\ request \in [Threads -> Requests \cup {None, Edit}]
      /\ copy \in [Threads -> Files]
  BY <1>1, <1>2 DEF Places
<1>. QED
  BY <1>1, <1>2, <1>3 DEF FileInv, Flow, Editing

\* A step of one thread: what it makes of its own variables decides.
LEMMA ThreadKeeps ==
  ASSUME FileInv, NEW t \in Threads, NEW place \in Places, NEW r, NEW c \in Files,
         pc' = [pc EXCEPT ![t] = place], request' = [request EXCEPT ![t] = r],
         copy' = [copy EXCEPT ![t] = c], Coherent(c),
         config' \in Files, Coherent(config)',
         place \in Editing => r \in Requests /\ IsEdit(r),
         place = "idle" => r = None,
         place \in {"recording", "signing"} => r \in {None, Edit}
  PROVE  FileInv'
<1>1. r \in Requests \cup {None, Edit}
  BY DEF Places, Editing
<1>2. /\ pc' \in [Threads -> Places] /\ request' \in [Threads -> Requests \cup {None, Edit}]
      /\ copy' \in [Threads -> Files]
      /\ pc'[t] = place /\ request'[t] = r /\ copy'[t] = c
      /\ \A x \in Threads : x # t => pc'[x] = pc[x] /\ request'[x] = request[x] /\ copy'[x] = copy[x]
  BY <1>1 DEF FileInv
<1>3. Flow'
  <2> SUFFICES ASSUME NEW x \in Threads
               PROVE  /\ pc'[x] \in Editing => request'[x] \in Requests /\ IsEdit(request'[x])
                      /\ pc'[x] = "idle" => request'[x] = None
                      /\ pc'[x] \in {"recording", "signing"} => request'[x] \in {None, Edit}
    BY DEF Flow, IsEdit
  <2>1. CASE x = t
    BY <1>2, <2>1
  <2>2. CASE x # t
    BY <1>2, <2>2 DEF FileInv, Flow
  <2>. QED
    BY <2>1, <2>2
<1>4. ASSUME NEW x \in Threads PROVE Coherent(copy'[x])
  BY <1>2 DEF FileInv
<1>5. (\A x \in Threads : Coherent(copy[x]))'
  BY <1>4 DEF Coherent
<1>. QED
  BY <1>2, <1>3, <1>5 DEF FileInv

\* Arrive, Login, Read, Write, Forget and BeginRow are steps of one thread.
LEMMA ThreadStepKeeps ==
  ASSUME FileInv, NEW t \in Threads,
         \/ \E u \in Users, r \in Requests : Arrive(t, u, r)
         \/ \E u \in Users, right \in BOOLEAN : Login(t, u, right)
         \/ Read(t) \/ Write(t) \/ Forget(t) \/ BeginRow(t)
  PROVE  FileInv'
<1>1. /\ pc \in [Threads -> Places] /\ request \in [Threads -> Requests \cup {None, Edit}]
      /\ copy \in [Threads -> Files] /\ config \in Files /\ Coherent(config) /\ Coherent(copy[t])
      /\ pc[t] \in Editing => request[t] \in Requests /\ IsEdit(request[t])
      /\ pc[t] = "idle" => request[t] = None
      /\ pc[t] \in {"recording", "signing"} => request[t] \in {None, Edit}
  BY DEF FileInv, Flow
<1>2. /\ request = [request EXCEPT ![t] = request[t]] /\ copy = [copy EXCEPT ![t] = copy[t]]
      /\ copy[t] \in Files
  BY <1>1
<1>3. /\ "reading" \in Places /\ "writing" \in Places /\ "forgetting" \in Places
      /\ "recording" \in Places /\ "signing" \in Places
      /\ "reading" \in Editing /\ "writing" \in Editing /\ "forgetting" \in Editing
      /\ "recording" \notin Editing /\ "signing" \notin Editing
  BY DEF Places, Editing
<1>4. config' = config => config' \in Files /\ Coherent(config)'
  BY <1>1 DEF Coherent
<1>5. FirstConfig \in Files /\ Coherent(FirstConfig)
  BY ConsoleAssumption DEF Files
<1>6. ASSUME NEW u \in Users, NEW r \in Requests, Arrive(t, u, r) PROVE FileInv'
  <2>1. pc[t] = "idle" /\ UNCHANGED <<config, copy>>
    BY <1>6 DEF Arrive, MayArrive
  <2>2. CASE Granted(u, r) /\ IsEdit(r)
    <3>1. request' = [request EXCEPT ![t] = r] /\ pc' = [pc EXCEPT ![t] = "reading"]
      BY <1>6, <2>2 DEF Arrive, Goto
    <3>. QED
      BY <1>1, <1>2, <1>3, <1>4, <2>1, <2>2, <3>1, ThreadKeeps
  <2>3. CASE ~(Granted(u, r) /\ IsEdit(r))
    <3>1. request' = request /\ pc' = [pc EXCEPT ![t] = "recording"]
      BY <1>6, <2>3 DEF Arrive, Goto
    <3>. QED
      BY <1>1, <1>2, <1>3, <1>4, <2>1, <3>1, ThreadKeeps
  <2>. QED
    BY <2>2, <2>3
<1>7. ASSUME NEW u \in Users, NEW right \in BOOLEAN, Login(t, u, right) PROVE FileInv'
  <2>1. /\ pc[t] = "idle" /\ UNCHANGED <<config, copy, request>>
        /\ pc' = [pc EXCEPT ![t] = "recording"]
    BY <1>7 DEF Login, MayArrive, Goto
  <2>. QED
    BY <1>1, <1>2, <1>3, <1>4, <2>1, ThreadKeeps
<1>8. CASE Read(t)
  <2>1. pc[t] = "reading" /\ config' = config /\ copy' = [copy EXCEPT ![t] = config]
    BY <1>8 DEF Read
  <2>2. \/ pc' = [pc EXCEPT ![t] = "writing"] /\ request' = request
        \/ pc' = [pc EXCEPT ![t] = "recording"] /\ request' = [request EXCEPT ![t] = None]
    BY <1>8 DEF Read, Goto
  <2>3. CASE pc' = [pc EXCEPT ![t] = "writing"] /\ request' = request
    BY <1>1, <1>2, <1>3, <1>4, <2>1, <2>3, ThreadKeeps
  <2>4. CASE pc' = [pc EXCEPT ![t] = "recording"] /\ request' = [request EXCEPT ![t] = None]
    BY <1>1, <1>2, <1>3, <1>4, <2>1, <2>4, ThreadKeeps
  <2>. QED
    BY <2>2, <2>3, <2>4
<1>9. CASE Write(t)
  <2>1. pc[t] = "writing" /\ config' = Edited(copy[t], request[t])
    BY <1>9 DEF Write
  <2>2. Edited(copy[t], request[t]) \in Files /\ Coherent(Edited(copy[t], request[t]))
    BY <1>1, <1>2, <1>3, <2>1, EditedCoherent
  <2>3. config' \in Files /\ Coherent(config)'
    BY <2>1, <2>2 DEF Coherent
  <2>4. \/ pc' = [pc EXCEPT ![t] = "forgetting"] /\ request' = request /\ copy' = copy
        \/ /\ pc' = [pc EXCEPT ![t] = "recording"] /\ request' = [request EXCEPT ![t] = Edit]
           /\ copy' = [copy EXCEPT ![t] = FirstConfig]
    BY <1>9 DEF Write, Made, Goto
  <2>5. CASE pc' = [pc EXCEPT ![t] = "forgetting"] /\ request' = request /\ copy' = copy
    BY <1>1, <1>2, <1>3, <2>1, <2>3, <2>5, ThreadKeeps
  <2>6. CASE /\ pc' = [pc EXCEPT ![t] = "recording"] /\ request' = [request EXCEPT ![t] = Edit]
             /\ copy' = [copy EXCEPT ![t] = FirstConfig]
    BY <1>3, <1>5, <2>3, <2>6, ThreadKeeps
  <2>. QED
    BY <2>4, <2>5, <2>6
<1>10. CASE Forget(t)
  <2>1. /\ config' = config
        /\ pc' = [pc EXCEPT ![t] = "recording"] /\ request' = [request EXCEPT ![t] = Edit]
        /\ copy' = [copy EXCEPT ![t] = FirstConfig]
    BY <1>10 DEF Forget, Made, Goto
  <2>. QED
    BY <1>3, <1>4, <1>5, <2>1, ThreadKeeps
<1>11. CASE BeginRow(t)
  <2>1. /\ pc[t] = "recording" /\ UNCHANGED <<config, copy, request>>
        /\ pc' = [pc EXCEPT ![t] = "signing"]
    BY <1>11 DEF BeginRow, Goto
  <2>. QED
    BY <1>1, <1>2, <1>3, <1>4, <2>1, ThreadKeeps
<1>. QED
  BY <1>6, <1>7, <1>8, <1>9, <1>10, <1>11

\* Threads that are done, or die, forget what they had.
LEMMA ForgettingKeeps ==
  ASSUME FileInv, NEW ts \in SUBSET Threads, Forgetting(ts), config' = config
  PROVE  FileInv'
<1>1. /\ pc' = [t \in Threads |-> IF t \in ts THEN "idle" ELSE pc[t]]
      /\ request' = [t \in Threads |-> IF t \in ts THEN None ELSE request[t]]
      /\ copy' = [t \in Threads |-> IF t \in ts THEN FirstConfig ELSE copy[t]]
  BY DEF Forgetting
<1>2. FirstConfig \in Files /\ Coherent(FirstConfig)
  BY ConsoleAssumption DEF Files
<1>3. /\ pc' \in [Threads -> Places] /\ request' \in [Threads -> Requests \cup {None, Edit}]
      /\ copy' \in [Threads -> Files]
  <2>1. /\ pc \in [Threads -> Places] /\ request \in [Threads -> Requests \cup {None, Edit}]
        /\ copy \in [Threads -> Files] /\ "idle" \in Places
    BY DEF FileInv, Places
  <2>. QED
    BY <1>1, <1>2, <2>1
<1>4. Flow'
  <2> SUFFICES ASSUME NEW x \in Threads
               PROVE  /\ pc'[x] \in Editing => request'[x] \in Requests /\ IsEdit(request'[x])
                      /\ pc'[x] = "idle" => request'[x] = None
                      /\ pc'[x] \in {"recording", "signing"} => request'[x] \in {None, Edit}
    BY DEF Flow, IsEdit
  <2>1. CASE x \in ts
    BY <1>1, <2>1 DEF Editing
  <2>2. CASE x \notin ts
    BY <1>1, <2>2 DEF FileInv, Flow
  <2>. QED
    BY <2>1, <2>2
<1>5. \A x \in Threads : Coherent(copy'[x])
  BY <1>1, <1>2 DEF FileInv
<1>6. (\A x \in Threads : Coherent(copy[x]))' /\ Coherent(config)'
  BY <1>5 DEF FileInv, Coherent
<1>. QED
  BY <1>3, <1>4, <1>6 DEF FileInv

LEMMA FileStepInv == FileInv /\ [ConsoleNext]_consoleVars => FileInv'
<1> SUFFICES ASSUME FileInv, [ConsoleNext]_consoleVars PROVE FileInv'
  OBVIOUS
<1>1. ASSUME UNCHANGED <<pc, request, config, copy>> PROVE FileInv'
  BY <1>1 DEF FileInv, Flow, IsEdit, Coherent
<1>2. CASE UNCHANGED consoleVars
  BY <1>1, <1>2 DEF consoleVars
<1>3. ASSUME NEW t \in Threads, EndRow(t) PROVE FileInv'
  <2>1. {t} \in SUBSET Threads
    OBVIOUS
  <2>. QED
    BY <1>3, <2>1, ForgettingKeeps DEF EndRow
<1>4. ASSUME NEW u \in Users, Expire(u) PROVE FileInv'
  BY <1>1, <1>4 DEF Expire
<1>5. CASE Die
  BY <1>5, ForgettingKeeps DEF Die
<1>. QED
  BY <1>2, <1>3, <1>4, <1>5, ThreadStepKeeps DEF ConsoleNext

\* A step of the composition is one of the console or leaves its variables.
LEMMA ConsoleSteps == [Next]_vars => [ConsoleNext]_consoleVars
<1>1. ASSUME Reloader!ReloaderNext PROVE UNCHANGED <<config, mtime>>
  BY <1>1 DEF Reloader!ReloaderNext, Reloader!Stat, Reloader!Read, Reloader!Load
<1>. QED
  BY <1>1 DEF Next, vars, consoleVars

\* However edits of several threads overwrite each other, the file loads as soon
\* as it names a symbol and its numbers are numbers, and no two strategies have
\* the same key (admin_server.py:160-188, 959-992, 1201).
THEOREM FileAlwaysCoherent == Spec => []FileStaysCoherent
<1>1. Init => FileInv
  BY FileInitInv DEF Init
<1>2. FileInv /\ [Next]_vars => FileInv'
  BY FileStepInv, ConsoleSteps
<1>3. FileInv => FileStaysCoherent
  BY DEF FileInv, FileStaysCoherent, Coherent, Loads
<1>. QED
  BY <1>1, <1>2, <1>3, PTL DEF Spec

-----------------------------------------------------------------------------
(* The record.                                                               *)

Lines == [sig : Nat, prev : Nat, edit : BOOLEAN]

\* Edits that have been written and wait for their row, and rows of edits.
Owed == {t \in Threads : pc[t] = "forgetting" \/ request[t] = Edit}
EditRows == {i \in DOMAIN log : log[i].edit}

\* While nothing has gone wrong, every line is a row that names the one before
\* it, and the thread that is at a row, the only one, has read the last of them.
RowsInv ==
    /\ log \in Seq(Lines) /\ signed \in Nat /\ previous \in [Threads -> Nat]
    /\ raced \in BOOLEAN /\ torn \in BOOLEAN /\ died \in BOOLEAN
    /\ torn => died
    /\ ~torn => \A i \in DOMAIN log : log[i].sig > 0
    /\ ~torn /\ ~raced =>
          /\ \A i \in DOMAIN log : log[i].prev = IF i = 1 THEN NoSignature ELSE log[i - 1].sig
          /\ \A t \in Signing : previous[t] = LastSignature
    /\ ~raced => \A t, u \in Signing : t = u

\* While the process has not died, no edit is without its row or a thread that
\* will write it.
CountInv ==
    /\ writes \in Nat
    /\ ~died => writes = Cardinality(EditRows) + Cardinality(Owed)

LEMMA LastInLog ==
  ASSUME log \in Seq(Lines), log # <<>>
  PROVE  /\ Len(log) \in Nat \ {0} /\ DOMAIN log = 1 .. Len(log) /\ Len(log) \in DOMAIN log
         /\ log[Len(log)] \in Lines /\ log[Len(log)].sig \in Nat
<1>1. Len(log) \in Nat /\ DOMAIN log = 1 .. Len(log) /\ \A i \in 1 .. Len(log) : log[i] \in Lines
  OBVIOUS
<1>2. Len(log) # 0
  BY EmptySeq
<1>3. Len(log) \in 1 .. Len(log)
  BY <1>1, <1>2
<1>. QED
  BY <1>1, <1>2, <1>3 DEF Lines

LEMMA LinesOfLog ==
  ASSUME log \in Seq(Lines)
  PROVE  /\ LastSignature \in Nat
         /\ \A line \in Lines : WithLine(line) \in Seq(Lines)
         /\ (\A i \in DOMAIN log : log[i].sig > 0) =>
               \A line \in Lines : WithLine(line) = Append(log, line)
<1>1. Spoiled \in Lines /\ Torn.sig = 0
  BY DEF Spoiled, Torn, Lines, NoSignature
<1>2. LastSignature \in Nat
  BY LastInLog DEF LastSignature, NoSignature
<1>3. ASSUME NEW line \in Lines PROVE WithLine(line) \in Seq(Lines)
  <2>1. CASE log # <<>> /\ log[Len(log)] = Torn
    BY <1>1, <2>1, LastInLog DEF WithLine
  <2>2. CASE ~(log # <<>> /\ log[Len(log)] = Torn)
    BY <1>3, <2>2 DEF WithLine
  <2>. QED
    BY <2>1, <2>2
<1>4. ASSUME \A i \in DOMAIN log : log[i].sig > 0, NEW line \in Lines
      PROVE  WithLine(line) = Append(log, line)
  <2>1. ~(log # <<>> /\ log[Len(log)] = Torn)
    BY <1>1, <1>4, LastInLog
  <2>. QED
    BY <2>1 DEF WithLine
<1>. QED
  BY <1>2, <1>3, <1>4

LEMMA RecordInitInv == ConsoleInit => RowsInv /\ CountInv
<1> SUFFICES ASSUME ConsoleInit PROVE RowsInv /\ CountInv
  OBVIOUS
<1>1. /\ log = <<>> /\ signed = 0 /\ Signing = {} /\ writes = 0
      /\ raced = FALSE /\ torn = FALSE /\ died = FALSE
  BY DEF ConsoleInit, Signing
<1>2. previous \in [Threads -> Nat]
  BY DEF ConsoleInit, NoSignature
<1>3. RowsInv
  <2>1. log \in Seq(Lines) /\ DOMAIN log = {}
    BY <1>1
  <2>. QED
    BY <1>1, <1>2, <2>1 DEF RowsInv
<1>4. EditRows = {} /\ Owed = {}
  BY <1>1, ConsoleAssumption DEF ConsoleInit, EditRows, Owed
<1>5. Cardinality(EditRows) = 0 /\ Cardinality(Owed) = 0
  BY <1>4, FS_EmptySet
<1>. QED
  BY <1>1, <1>3, <1>5 DEF CountInv

\* What BeginRow and EndRow and Die do not touch stays as it is.
LEMMA RowsUntouched ==
  ASSUME RowsInv, UNCHANGED <<log, signed, previous, raced, torn, died>>, Signing' \in SUBSET Signing
  PROVE  RowsInv'
BY DEF RowsInv, LastSignature, NoSignature

\* A thread starts its row: alone, or the record says no more.
LEMMA BeginRowKeeps ==
  ASSUME FileInv, RowsInv, NEW t \in Threads, BeginRow(t)
  PROVE  RowsInv'
<1>1. /\ previous' = [previous EXCEPT ![t] = LastSignature]
      /\ raced' = (raced \/ Signing # {})
      /\ pc' = [pc EXCEPT ![t] = "signing"]
      /\ UNCHANGED <<log, signed, torn, died>>
  BY DEF BeginRow, Goto
<1>2. pc \in [Threads -> Places] /\ log \in Seq(Lines) /\ previous \in [Threads -> Nat] /\ raced \in BOOLEAN
  BY DEF FileInv, RowsInv
<1>3. previous' \in [Threads -> Nat] /\ previous'[t] = LastSignature
  BY <1>1, <1>2, LinesOfLog
<1>4. ~raced' => ~raced /\ Signing = {} /\ Signing' = {t}
  BY <1>1, <1>2 DEF Signing
<1>5. LastSignature' = LastSignature /\ raced' \in BOOLEAN
  BY <1>1, <1>2 DEF LastSignature
<1>. QED
  BY <1>1, <1>2, <1>3, <1>4, <1>5 DEF RowsInv, NoSignature

\* A thread ends its row, which comes after the last one.
LEMMA EndRowKeeps ==
  ASSUME FileInv, RowsInv, NEW t \in Threads, EndRow(t)
  PROVE  RowsInv'
<1> DEFINE row == [sig |-> signed + 1, prev |-> previous[t], edit |-> request[t] = Edit]
<1>1. /\ pc[t] = "signing" /\ log' = WithLine(row) /\ signed' = signed + 1
      /\ pc' = [x \in Threads |-> IF x \in {t} THEN "idle" ELSE pc[x]]
      /\ previous' = [x \in Threads |-> IF x \in {t} THEN NoSignature ELSE previous[x]]
      /\ UNCHANGED <<raced, torn, died>>
  BY DEF EndRow, Forgetting
<1>2. /\ log \in Seq(Lines) /\ signed \in Nat /\ previous \in [Threads -> Nat]
      /\ Len(log) \in Nat /\ DOMAIN log = 1 .. Len(log) /\ \A i \in DOMAIN log : log[i] \in Lines
      /\ raced \in BOOLEAN /\ torn \in BOOLEAN /\ died \in BOOLEAN
  BY DEF RowsInv
<1>3. row \in Lines /\ row.sig > 0 /\ row.prev = previous[t]
  BY <1>2 DEF Lines
<1> HIDE DEF row
<1>4. log' \in Seq(Lines) /\ signed' \in Nat /\ previous' \in [Threads -> Nat]
  BY <1>1, <1>2, <1>3, LinesOfLog DEF NoSignature
<1>5. ~torn => log' = Append(log, row)
  BY <1>1, <1>2, <1>3, LinesOfLog DEF RowsInv
<1>6. ~torn => /\ Len(log') = Len(log) + 1 /\ DOMAIN log' = 1 .. Len(log) + 1
               /\ \A i \in 1 .. Len(log) : log'[i] = log[i]
               /\ log'[Len(log) + 1] = row
  BY <1>2, <1>3, <1>5, AppendProperties
<1>7. ~raced => Signing = {t} /\ Signing' = {}
  <2>1. t \in Signing
    BY <1>1 DEF Signing
  <2>2. Signing' = Signing \ {t}
    BY <1>1 DEF Signing
  <2>. QED
    BY <2>1, <2>2 DEF RowsInv
<1>8. ~torn' => \A i \in DOMAIN log' : log'[i].sig > 0
  BY <1>1, <1>2, <1>3, <1>6 DEF RowsInv
<1>9. ASSUME ~torn', ~raced', NEW i \in DOMAIN log'
      PROVE  log'[i].prev = IF i = 1 THEN NoSignature ELSE log'[i - 1].sig
  <2>0. ~torn /\ ~raced
    BY <1>1, <1>9
  <2>1. CASE i \in DOMAIN log
    <3>1. log[i].prev = IF i = 1 THEN NoSignature ELSE log[i - 1].sig
      BY <2>0, <2>1 DEF RowsInv
    <3>2. log'[i] = log[i] /\ (i # 1 => log'[i - 1] = log[i - 1])
      BY <1>2, <1>6, <2>0, <2>1
    <3>. QED
      BY <3>1, <3>2
  <2>2. CASE i = Len(log) + 1
    <3>1. previous[t] = LastSignature
      BY <1>7, <2>0 DEF RowsInv
    <3>2. log'[i].prev = LastSignature
      BY <1>3, <1>6, <2>0, <2>2, <3>1
    <3>3. CASE log = <<>>
      BY <2>2, <3>2, <3>3, EmptySeq DEF LastSignature
    <3>4. CASE log # <<>>
      <4>1. LastSignature = log[Len(log)].sig /\ i # 1 /\ i - 1 = Len(log) /\ Len(log) \in 1 .. Len(log)
        BY <1>2, <2>2, <3>4, LastInLog DEF LastSignature
      <4>. QED
        BY <1>6, <2>0, <3>2, <4>1
    <3>. QED
      BY <3>3, <3>4
  <2>. QED
    BY <1>2, <1>6, <2>0, <2>1, <2>2
<1>10. (torn => died)' /\ raced' \in BOOLEAN /\ torn' \in BOOLEAN /\ died' \in BOOLEAN
  BY <1>1, <1>2 DEF RowsInv
<1>11. ~raced' => Signing' = {}
  BY <1>1, <1>7
<1>. QED
  BY <1>4, <1>8, <1>9, <1>10, <1>11 DEF RowsInv, NoSignature

\* The process dies in a row or outside of one.
LEMMA DieKeepsRows ==
  ASSUME RowsInv, Die
  PROVE  RowsInv'
<1>1. /\ \/ UNCHANGED <<log, torn>>
         \/ log' = WithLine(Torn) /\ torn' = TRUE
      /\ died' = TRUE /\ UNCHANGED <<signed, raced>>
      /\ pc' = [x \in Threads |-> IF x \in Threads THEN "idle" ELSE pc[x]]
      /\ previous' = [x \in Threads |-> IF x \in Threads THEN NoSignature ELSE previous[x]]
  BY DEF Die, Forgetting
<1>2. Signing' = {} /\ previous' \in [Threads -> Nat]
  BY <1>1 DEF Signing, NoSignature
<1>3. Torn \in Lines
  BY DEF Torn, Lines, NoSignature
<1>4. log' \in Seq(Lines)
  BY <1>1, <1>3, LinesOfLog DEF RowsInv
<1>. QED
  BY <1>1, <1>2, <1>4 DEF RowsInv, NoSignature

LEMMA RowsStepInv == FileInv /\ RowsInv /\ [ConsoleNext]_consoleVars => RowsInv'
<1> SUFFICES ASSUME FileInv, RowsInv, [ConsoleNext]_consoleVars PROVE RowsInv'
  OBVIOUS
<1>1. pc \in [Threads -> Places]
  BY DEF FileInv
<1>2. CASE UNCHANGED consoleVars
  <2>1. Signing' \in SUBSET Signing
    BY <1>2 DEF consoleVars, Signing
  <2>. QED
    BY <1>2, <2>1, RowsUntouched DEF consoleVars
<1>3. ASSUME NEW t \in Threads, NEW place \in Places, place # "signing", pc' = [pc EXCEPT ![t] = place],
             UNCHANGED <<log, signed, previous, raced, torn, died>>
      PROVE  RowsInv'
  <2>1. Signing' \in SUBSET Signing
    BY <1>1, <1>3 DEF Signing
  <2>. QED
    BY <1>3, <2>1, RowsUntouched
<1>4. /\ "reading" \in Places /\ "writing" \in Places /\ "forgetting" \in Places /\ "recording" \in Places
  BY DEF Places
<1>5. ASSUME NEW t \in Threads, NEW u \in Users, NEW r \in Requests, Arrive(t, u, r) PROVE RowsInv'
  <2>1. /\ UNCHANGED <<log, signed, previous, raced, torn, died>>
        /\ pc' = [pc EXCEPT ![t] = "reading"] \/ pc' = [pc EXCEPT ![t] = "recording"]
    BY <1>5 DEF Arrive, Goto
  <2>. QED
    BY <1>3, <1>4, <2>1
<1>6. ASSUME NEW t \in Threads, NEW u \in Users, NEW right \in BOOLEAN, Login(t, u, right) PROVE RowsInv'
  BY <1>3, <1>4, <1>6 DEF Login, Goto
<1>7. ASSUME NEW t \in Threads, Read(t) PROVE RowsInv'
  <2>1. /\ UNCHANGED <<log, signed, previous, raced, torn, died>>
        /\ pc' = [pc EXCEPT ![t] = "writing"] \/ pc' = [pc EXCEPT ![t] = "recording"]
    BY <1>7 DEF Read, Goto
  <2>. QED
    BY <1>3, <1>4, <2>1
<1>8. ASSUME NEW t \in Threads, Write(t) PROVE RowsInv'
  <2>1. /\ UNCHANGED <<log, signed, previous, raced, torn, died>>
        /\ pc' = [pc EXCEPT ![t] = "forgetting"] \/ pc' = [pc EXCEPT ![t] = "recording"]
    BY <1>8 DEF Write, Made, Goto
  <2>. QED
    BY <1>3, <1>4, <2>1
<1>9. ASSUME NEW t \in Threads, Forget(t) PROVE RowsInv'
  BY <1>3, <1>4, <1>9 DEF Forget, Made, Goto
<1>10. ASSUME NEW u \in Users, Expire(u) PROVE RowsInv'
  <2>1. Signing' \in SUBSET Signing
    BY <1>10 DEF Expire, Signing
  <2>. QED
    BY <1>10, <2>1, RowsUntouched DEF Expire
<1>. QED
  BY <1>2, <1>5, <1>6, <1>7, <1>8, <1>9, <1>10, BeginRowKeeps, EndRowKeeps, DieKeepsRows DEF ConsoleNext

\* A step that makes and writes nothing keeps the count.
LEMMA CountUntouched ==
  ASSUME CountInv, UNCHANGED <<writes, log>>, ~died' => ~died /\ Owed' = Owed
  PROVE  CountInv'
BY DEF CountInv, EditRows

\* The set of edits without a row is finite, and what it gains and loses.
LEMMA OwedFinite ==
  /\ IsFiniteSet(Owed) /\ Cardinality(Owed) \in Nat
  /\ \A t \in Threads \ Owed : Cardinality(Owed \cup {t}) = Cardinality(Owed) + 1
  /\ \A t \in Owed : Cardinality(Owed \ {t}) = Cardinality(Owed) - 1
<1>1. IsFiniteSet(Owed)
  BY ConsoleAssumption, FS_Subset DEF Owed
<1>. QED
  BY <1>1, FS_CardinalityType, FS_AddElement, FS_RemoveElement

LEMMA EditRowsFinite ==
  ASSUME log \in Seq(Lines)
  PROVE  /\ IsFiniteSet(EditRows) /\ Cardinality(EditRows) \in Nat
         /\ EditRows \in SUBSET (1 .. Len(log)) /\ Len(log) + 1 \notin EditRows
<1>1. EditRows \in SUBSET (1 .. Len(log)) /\ Len(log) + 1 \notin 1 .. Len(log)
  BY DEF EditRows
<1>2. IsFiniteSet(1 .. Len(log))
  BY FS_Interval
<1>. QED
  BY <1>1, <1>2, FS_Subset, FS_CardinalityType

\* A write owes a row.
LEMMA WriteCounts ==
  ASSUME FileInv, RowsInv, CountInv, NEW t \in Threads, Write(t)
  PROVE  CountInv'
<1>1. /\ pc \in [Threads -> Places] /\ request \in [Threads -> Requests \cup {None, Edit}]
      /\ pc[t] = "writing" /\ request[t] \in Requests /\ Edit \notin Requests
      /\ writes' = writes + 1 /\ UNCHANGED <<log, died>>
  BY ConsoleAssumption DEF FileInv, Flow, Editing, Write
<1>2. t \notin Owed
  BY <1>1 DEF Owed
<1>3. \/ pc' = [pc EXCEPT ![t] = "forgetting"] /\ request' = request
      \/ pc' = [pc EXCEPT ![t] = "recording"] /\ request' = [request EXCEPT ![t] = Edit]
  BY DEF Write, Made, Goto
<1>4. Owed' = Owed \cup {t}
  <2>1. ASSUME NEW x \in Threads PROVE x \in Owed' <=> x \in Owed \/ x = t
    BY <1>1, <1>3 DEF Owed
  <2>. QED
    BY <2>1 DEF Owed
<1>5. EditRows' = EditRows
  BY <1>1 DEF EditRows
<1>6. Cardinality(Owed') = Cardinality(Owed) + 1
  BY <1>2, <1>4, OwedFinite
<1>7. ASSUME ~died PROVE writes' = Cardinality(EditRows) + Cardinality(Owed')
  <2>1. writes = Cardinality(EditRows) + Cardinality(Owed) /\ writes \in Nat
    BY <1>7 DEF CountInv
  <2>2. Cardinality(EditRows) + (Cardinality(Owed) + 1) = writes + 1
    <3>1. Cardinality(EditRows) \in Nat
      BY EditRowsFinite DEF RowsInv
    <3>. QED
      BY <2>1, <3>1, OwedFinite
  <2>. QED
    BY <1>1, <1>6, <2>2
<1>. QED
  BY <1>1, <1>5, <1>7 DEF CountInv

\* A row pays for an edit.
LEMMA EndRowCounts ==
  ASSUME FileInv, RowsInv, CountInv, NEW t \in Threads, EndRow(t)
  PROVE  CountInv'
<1> DEFINE row == [sig |-> signed + 1, prev |-> previous[t], edit |-> request[t] = Edit]
<1>1. /\ pc[t] = "signing" /\ log' = WithLine(row) /\ UNCHANGED <<writes, died>>
      /\ pc' = [x \in Threads |-> IF x \in {t} THEN "idle" ELSE pc[x]]
      /\ request' = [x \in Threads |-> IF x \in {t} THEN None ELSE request[x]]
  BY DEF EndRow, Forgetting
<1>2. /\ log \in Seq(Lines) /\ signed \in Nat /\ previous \in [Threads -> Nat]
      /\ Len(log) \in Nat /\ DOMAIN log = 1 .. Len(log)
  BY DEF RowsInv
<1>3. row \in Lines /\ (row.edit <=> request[t] = Edit)
  <2>1. row \in Lines
    BY <1>2 DEF Lines
  <2>2. row.edit = (request[t] = Edit)
    BY Zenon
  <2>. QED
    BY <2>1, <2>2
<1> SUFFICES ASSUME ~died PROVE CountInv'
  BY <1>1 DEF CountInv
<1> HIDE DEF row
<1>4. log' = Append(log, row)
  BY <1>1, <1>2, <1>3, LinesOfLog DEF RowsInv
<1>5. /\ DOMAIN log' = 1 .. Len(log) + 1
      /\ \A i \in 1 .. Len(log) : log'[i] = log[i]
      /\ log'[Len(log) + 1] = row
  BY <1>2, <1>3, <1>4, AppendProperties
<1>6. Owed' = Owed \ {t} /\ (t \in Owed <=> request[t] = Edit)
  <2>1. t \in Owed <=> request[t] = Edit
    BY <1>1 DEF Owed
  <2>2. ASSUME NEW x \in Threads PROVE x \in Owed' <=> x \in Owed /\ x # t
    BY <1>1, ConsoleAssumption DEF Owed
  <2>. QED
    BY <2>1, <2>2 DEF Owed
<1>7. EditRows' = IF request[t] = Edit THEN EditRows \cup {Len(log) + 1} ELSE EditRows
  BY <1>2, <1>3, <1>5 DEF EditRows
<1>8. IsFiniteSet(EditRows) /\ Cardinality(EditRows) \in Nat /\ Len(log) + 1 \notin EditRows
  BY <1>2, EditRowsFinite
<1>9. writes = Cardinality(EditRows) + Cardinality(Owed) /\ writes \in Nat
  BY DEF CountInv
<1>10. Cardinality(EditRows') + Cardinality(Owed') = Cardinality(EditRows) + Cardinality(Owed)
  <2>1. CASE request[t] = Edit
    <3>1. Cardinality(EditRows') = Cardinality(EditRows) + 1
      BY <1>7, <1>8, <2>1, FS_AddElement
    <3>2. Cardinality(Owed') = Cardinality(Owed) - 1
      BY <1>6, <2>1, OwedFinite
    <3>. QED
      BY <1>8, <3>1, <3>2, OwedFinite
  <2>2. CASE request[t] # Edit
    <3>1. Owed' = Owed
      BY <1>6, <2>2
    <3>. QED
      BY <1>7, <2>2, <3>1
  <2>. QED
    BY <2>1, <2>2
<1>. QED
  BY <1>1, <1>9, <1>10 DEF CountInv

LEMMA CountStepInv == FileInv /\ RowsInv /\ CountInv /\ [ConsoleNext]_consoleVars => CountInv'
<1> SUFFICES ASSUME FileInv, RowsInv, CountInv, [ConsoleNext]_consoleVars PROVE CountInv'
  OBVIOUS
<1>1. /\ pc \in [Threads -> Places] /\ request \in [Threads -> Requests \cup {None, Edit}]
      /\ Edit \notin Requests /\ None # Edit
  BY ConsoleAssumption DEF FileInv
<1>2. CASE UNCHANGED consoleVars
  BY <1>2, CountUntouched DEF consoleVars, Owed
<1>3. ASSUME NEW t \in Threads, NEW place \in Places, NEW r,
             pc' = [pc EXCEPT ![t] = place], request' = [request EXCEPT ![t] = r],
             UNCHANGED <<writes, log, died>>,
             (place = "forgetting" \/ r = Edit) <=> t \in Owed
      PROVE  CountInv'
  <2>1. ASSUME NEW x \in Threads PROVE x \in Owed' <=> x \in Owed
    BY <1>1, <1>3, <2>1 DEF Owed
  <2>2. Owed' = Owed
    BY <2>1 DEF Owed
  <2>. QED
    BY <1>3, <2>2, CountUntouched
<1>4. /\ "reading" \in Places /\ "writing" \in Places /\ "forgetting" \in Places /\ "recording" \in Places
      /\ "signing" \in Places
  BY DEF Places
<1>5. ASSUME NEW t \in Threads
      PROVE  /\ pc[t] = "idle" => t \notin Owed /\ request[t] = None
             /\ pc[t] \in {"reading", "writing"} => t \notin Owed /\ request[t] \in Requests
             /\ request = [request EXCEPT ![t] = request[t]]
  BY <1>1 DEF FileInv, Flow, Editing, Owed
<1>6. ASSUME NEW t \in Threads, NEW u \in Users, NEW r \in Requests, Arrive(t, u, r) PROVE CountInv'
  <2>1. pc[t] = "idle" /\ UNCHANGED <<writes, log, died>>
    BY <1>6 DEF Arrive, MayArrive
  <2>2. \/ pc' = [pc EXCEPT ![t] = "reading"] /\ request' = [request EXCEPT ![t] = r]
        \/ pc' = [pc EXCEPT ![t] = "recording"] /\ request' = request
    BY <1>6 DEF Arrive, Goto
  <2>3. CASE pc' = [pc EXCEPT ![t] = "reading"] /\ request' = [request EXCEPT ![t] = r]
    <3>1. ~("reading" = "forgetting" \/ r = Edit) /\ t \notin Owed
      BY <1>1, <1>5, <2>1
    <3>. QED
      BY <1>3, <1>4, <2>1, <2>3, <3>1
  <2>4. CASE pc' = [pc EXCEPT ![t] = "recording"] /\ request' = request
    <3>1. ~("recording" = "forgetting" \/ request[t] = Edit) /\ t \notin Owed
      BY <1>1, <1>5, <2>1
    <3>. QED
      BY <1>3, <1>4, <1>5, <2>1, <2>4, <3>1
  <2>. QED
    BY <2>2, <2>3, <2>4
<1>7. ASSUME NEW t \in Threads, NEW u \in Users, NEW right \in BOOLEAN, Login(t, u, right) PROVE CountInv'
  <2>1. /\ pc[t] = "idle" /\ UNCHANGED <<writes, log, died, request>>
        /\ pc' = [pc EXCEPT ![t] = "recording"]
    BY <1>7 DEF Login, MayArrive, Goto
  <2>2. ~("recording" = "forgetting" \/ request[t] = Edit) /\ t \notin Owed
    BY <1>1, <1>5, <2>1
  <2>. QED
    BY <1>3, <1>4, <1>5, <2>1, <2>2
<1>8. ASSUME NEW t \in Threads, Read(t) PROVE CountInv'
  <2>1. pc[t] = "reading" /\ UNCHANGED <<writes, log, died>>
    BY <1>8 DEF Read
  <2>2. \/ pc' = [pc EXCEPT ![t] = "writing"] /\ request' = request
        \/ pc' = [pc EXCEPT ![t] = "recording"] /\ request' = [request EXCEPT ![t] = None]
    BY <1>8 DEF Read, Goto
  <2>3. CASE pc' = [pc EXCEPT ![t] = "writing"] /\ request' = request
    <3>1. ~("writing" = "forgetting" \/ request[t] = Edit) /\ t \notin Owed
      BY <1>1, <1>5, <2>1
    <3>. QED
      BY <1>3, <1>4, <1>5, <2>1, <2>3, <3>1
  <2>4. CASE pc' = [pc EXCEPT ![t] = "recording"] /\ request' = [request EXCEPT ![t] = None]
    <3>1. ~("recording" = "forgetting" \/ None = Edit) /\ t \notin Owed
      BY <1>1, <1>5, <2>1
    <3>. QED
      BY <1>3, <1>4, <2>1, <2>4, <3>1
  <2>. QED
    BY <2>2, <2>3, <2>4
<1>9. ASSUME NEW t \in Threads, Forget(t) PROVE CountInv'
  <2>1. /\ pc[t] = "forgetting" /\ UNCHANGED <<writes, log, died>>
        /\ pc' = [pc EXCEPT ![t] = "recording"] /\ request' = [request EXCEPT ![t] = Edit]
    BY <1>9 DEF Forget, Made, Goto
  <2>2. t \in Owed
    BY <2>1 DEF Owed
  <2>. QED
    BY <1>3, <1>4, <2>1, <2>2
<1>10. ASSUME NEW t \in Threads, BeginRow(t) PROVE CountInv'
  <2>1. /\ pc[t] = "recording" /\ UNCHANGED <<writes, log, died, request>>
        /\ pc' = [pc EXCEPT ![t] = "signing"]
    BY <1>10 DEF BeginRow, Goto
  <2>2. ("signing" = "forgetting" \/ request[t] = Edit) <=> t \in Owed
    BY <2>1 DEF Owed
  <2>. QED
    BY <1>3, <1>4, <1>5, <2>1, <2>2
<1>11. ASSUME NEW u \in Users, Expire(u) PROVE CountInv'
  BY <1>11, CountUntouched DEF Expire, Owed
<1>12. CASE Die
  BY <1>12 DEF Die, CountInv
<1>. QED
  BY <1>2, <1>6, <1>7, <1>8, <1>9, <1>10, <1>11, <1>12, WriteCounts, EndRowCounts DEF ConsoleNext

\* When every line is a row that names the one before it, verify_chain is
\* content.
LEMMA RowsMakeChain == RowsInv => ChainHolds \/ raced \/ torn
<1> SUFFICES ASSUME RowsInv, ~raced, ~torn PROVE ChainHolds
  OBVIOUS
<1>1. /\ log \in Seq(Lines) /\ Len(log) \in Nat /\ DOMAIN log = 1 .. Len(log)
      /\ \A i \in DOMAIN log : log[i].sig > 0
      /\ \A i \in DOMAIN log : log[i].prev = IF i = 1 THEN NoSignature ELSE log[i - 1].sig
  BY DEF RowsInv
<1>2. \A i \in DOMAIN log : Readable(i)
  <2>1. Torn.sig = 0 /\ Spoiled.sig = 0
    BY DEF Torn, Spoiled, NoSignature
  <2>. QED
    BY <1>1, <2>1 DEF Readable
<1>3. ASSUME NEW i \in DOMAIN log PROVE ReadableBefore(i) = 1 .. i - 1
  BY <1>1, <1>2 DEF ReadableBefore
<1>4. ASSUME NEW i \in DOMAIN log
      PROVE  IF ReadableBefore(i) = {} THEN log[i].prev = NoSignature
             ELSE \E j \in ReadableBefore(i) :
                     (\A k \in ReadableBefore(i) : k <= j) /\ log[i].prev = log[j].sig
  <2>1. CASE i = 1
    <3>1. ReadableBefore(i) = {}
      BY <1>3, <2>1
    <3>. QED
      BY <1>1, <2>1, <3>1
  <2>2. CASE i # 1
    <3>1. i - 1 \in ReadableBefore(i) /\ \A k \in ReadableBefore(i) : k <= i - 1
      BY <1>1, <1>3, <2>2
    <3>2. log[i].prev = log[i - 1].sig
      BY <1>1, <2>2
    <3>. QED
      BY <3>1, <3>2
  <2>. QED
    BY <2>1, <2>2
<1>. QED
  BY <1>4 DEF ChainHolds

\* The record can be trusted: its chain is broken only when two threads made a
\* row at a time or a row was written in part, and unless the process died in a
\* request every configuration that was written has its row, or will have
\* (admin_server.py:124-189, 227-244, 487-564).
THEOREM RecordAlwaysTellsTruth == Spec => []RecordTellsTruth
<1> DEFINE Inv == FileInv /\ RowsInv /\ CountInv
<1>1. Init => Inv
  BY FileInitInv, RecordInitInv DEF Init
<1>2. Inv /\ [Next]_vars => Inv'
  BY FileStepInv, RowsStepInv, CountStepInv, ConsoleSteps
<1>3. Inv => RecordTellsTruth
  BY RowsMakeChain DEF CountInv, RecordTellsTruth, EditRows, Owed
<1>. QED
  BY <1>1, <1>2, <1>3, PTL DEF Spec

-----------------------------------------------------------------------------
(* The reloader.                                                             *)

\* The time that is known is never ahead of the file's, nor is the one that a
\* check has found, which is news; and with the file's own time the reloader has
\* the file's own content, read or loaded.
ReloaderInv ==
    /\ mtime \in Nat \ {0} /\ lastMtime \in Nat /\ found \in Nat
    /\ lastMtime <= mtime /\ found <= mtime
    /\ found # 0 => lastMtime < found
    /\ found = 0 => read = {}
    /\ \A c \in read : found = mtime => c = config
    /\ lastMtime = mtime /\ Loads(config) => lastSettings = config

LEMMA ReloaderStepInv == ReloaderInv /\ [Next]_vars => ReloaderInv'
<1> SUFFICES ASSUME ReloaderInv, [Next]_vars PROVE ReloaderInv'
  OBVIOUS
<1> USE DEF ReloaderInv
<1>1. CASE UNCHANGED <<config, mtime, lastMtime, lastSettings, found, read>>
  BY <1>1 DEF Loads
<1>2. ASSUME mtime' = mtime + 1, UNCHANGED reloaderVars PROVE ReloaderInv'
  BY <1>2 DEF reloaderVars
<1>3. CASE UNCHANGED vars
  BY <1>1, <1>3 DEF vars, consoleVars, reloaderVars
<1>4. CASE ConsoleNext /\ UNCHANGED reloaderVars
  <2>1. ASSUME NEW t \in Threads, Write(t) PROVE ReloaderInv'
    BY <1>2, <1>4, <2>1 DEF Write
  <2>2. CASE UNCHANGED <<config, mtime>>
    BY <1>1, <1>4, <2>2 DEF reloaderVars
  <2>3. (\E t \in Threads : Write(t)) \/ UNCHANGED <<config, mtime>>
    BY <1>4 DEF ConsoleNext, Arrive, Login, Read, Forget, BeginRow, EndRow, Expire, Die
  <2>. QED
    BY <2>1, <2>2, <2>3
<1>5. CASE Reloader!Stat
  BY <1>5 DEF Reloader!Stat, Loads
<1>6. CASE Reloader!Read
  BY <1>6 DEF Reloader!Read, Loads
<1>7. ASSUME NEW c \in read, Reloader!Load(c) PROVE ReloaderInv'
  <2>1. /\ lastMtime' = found /\ found' = 0 /\ read' = {} /\ UNCHANGED <<config, mtime>>
        /\ Loads(c) => lastSettings' = c
    BY <1>7 DEF Reloader!Load, Reloader!Noted, Reloader!Loads, Loads
  <2>2. found = mtime => c = config
    OBVIOUS
  <2>. QED
    BY <2>1, <2>2 DEF Loads
<1>. QED
  BY <1>3, <1>4, <1>5, <1>6, <1>7 DEF Next, Reloader!ReloaderNext

\* A good configuration that has settled is the one in use, whatever was written
\* and read in between and whichever loads failed (reloader.py:25-46).
THEOREM SettledFileAlwaysLoaded == Spec => []SettledFileIsLoaded
<1>1. Init => ReloaderInv
  BY DEF Init, ConsoleInit, Reloader!ReloaderInit, ReloaderInv
<1>2. ReloaderInv => SettledFileIsLoaded
  BY DEF ReloaderInv, SettledFileIsLoaded, Reloader!SettledFileIsLoaded, Reloader!Loads, Loads
<1>. QED
  BY <1>1, <1>2, ReloaderStepInv, PTL DEF Spec
=============================================================================
