------------------------ MODULE PaperTradingProofs ------------------------
(***************************************************************************)
(* Theorems about PaperTrading, for every set of orders and symbols and    *)
(* all prices, sizes, fees and balances: types, the agreement of the OMS   *)
(* with the paper exchange, the standstill after a loss, what is frozen,   *)
(* and that the books explain the account.                                 *)
(*                                                                         *)
(* SidesAgree speaks of the moments between two pieces of work only.  The  *)
(* inductive invariant says what holds of an order at each stage of the    *)
(* work that concerns it: while the exchange has yet to serve it, and      *)
(* while its answer waits to be applied.                                   *)
(*                                                                         *)
(* BookMatchesAccount adds fractions over all symbols, with a fold.  Two   *)
(* facts make it provable: profit taken less the cost of the position is   *)
(* a whole number, though neither is, and the fold is a recursive function *)
(* on the subsets of Symbols, which has one solution.                      *)
(***************************************************************************)
EXTENDS PaperTrading, FiniteSetTheorems, WellFoundedInduction, TLAPS

Busy == work.todo \cup {a.id : a \in work.answers}

\* What SidesAgree says of an open order and of one that is over.
Settled(i) ==
    /\ IsOpen(status[i]) <=> IsPaperOpen(i)
    /\ IsPaperOpen(i) => /\ filled[i] + remaining[i] = request[i].size
                         /\ status[i] = IF filled[i] = 0 THEN "OPEN" ELSE "PARTIALLY_FILLED"

Over(i) ==
    /\ status[i] = "FILLED" => filled[i] = request[i].size
    /\ status[i] = "CANCELED" => filled[i] = 0
    /\ status[i] = "PARTIALLY_CANCELED" => filled[i] \in 1..(request[i].size - 1)

\* A record has a request; without a record there is no fill.
Known(i) ==
    /\ status[i] # NoRecord => request[i] \in Request
    /\ status[i] = NoRecord => filled[i] = 0

\* An order the exchange has yet to serve.
Waiting(i) ==
    /\ work.op = "submit" => status[i] = "SUBMITTING" /\ remaining[i] = 0 /\ filled[i] = 0
    /\ work.op \in {"cancel", "shutdown"} =>
          status[i] = "CANCELING" /\ remaining[i] > 0 /\ filled[i] + remaining[i] = request[i].size
    /\ work.op = "match" => remaining[i] > 0 /\ Settled(i)

\* An order whose answer is still to be applied.
Served(a) ==
    /\ work.op = "submit" =>
          /\ status[a.id] = "SUBMITTING" /\ filled[a.id] = 0
          /\ \/ a.accepted /\ a.status = "OPEN" /\ remaining[a.id] = request[a.id].size
             \/ ~a.accepted /\ a.status = "REJECTED" /\ remaining[a.id] = 0
    /\ work.op \in {"cancel", "shutdown"} =>
          /\ status[a.id] = "CANCELING" /\ remaining[a.id] = 0
          /\ \/ a.status = "CANCELED" /\ filled[a.id] = 0
             \/ a.status = "PARTIALLY_CANCELED" /\ filled[a.id] \in 1..(request[a.id].size - 1)
    /\ work.op = "match" =>
          /\ a.size > 0 /\ filled[a.id] + a.size + remaining[a.id] = request[a.id].size
          /\ status[a.id] = IF filled[a.id] = 0 THEN "OPEN" ELSE "PARTIALLY_FILLED"

\* Work concerns an order once.
OneTask ==
    /\ \A a \in work.answers : a.id \notin work.todo
    /\ \A a, b \in work.answers : a.id = b.id => a = b
    /\ work.op \in {"start", "idle"} => work.todo = {} /\ work.answers = {}

\* An engine with an order in doubt is in safe mode and has no open order.
DoubtBlocks ==
    work.op # "start" /\ (\E i \in Orders : status[i] = "UNKNOWN") =>
        safe /\ \A j \in Orders : ~IsOpen(status[j])

PInv ==
    /\ TypeOK
    /\ OneTask
    /\ DoubtBlocks
    /\ \A i \in Orders : Known(i) /\ Over(i)
    /\ work.op = "start" => \A i \in Orders : remaining[i] = 0
    /\ work.op # "start" => \A i \in Orders \ Busy : Settled(i)
    /\ \A i \in work.todo : Waiting(i)
    /\ \A a \in work.answers : Served(a)

-----------------------------------------------------------------------------
(* Arithmetic and the state machine.                                       *)

\* Half of an order is a positive part of it.
LEMMA HalfIsPart ==
    ASSUME NEW n \in Sizes
    PROVE  n \in Nat \ {0} /\ n \div 2 \in 1..n
  BY HalfAssumption, SMT

\* A fill takes a positive part of what remains.
LEMMA FillIsPart ==
    ASSUME NEW i, request[i] \in Request, remaining[i] \in Nat \ {0}
    PROVE  FillSize(i) \in 1..remaining[i]
<1>1. request[i].size \in Sizes
  BY DEF Request
<1>2. request[i].size \div 2 \in 1..request[i].size /\ request[i].size \in Nat
  BY <1>1, HalfIsPart
<1> DEFINE h == request[i].size \div 2
<1>3. h \in Nat \ {0}
  BY <1>2
<1>4. FillSize(i) = IF remaining[i] <= h THEN remaining[i] ELSE h
  BY DEF FillSize
<1> QED BY <1>3, <1>4

\* Amounts are integers.
LEMMA AmountsAreIntegers ==
    ASSUME NEW i, request[i] \in Request, NEW n \in Int
    PROVE  /\ Coin(i) \in Currencies
           /\ Locked(i, n) \in Int
           /\ \A c \in Currencies : Received(i, n, c) \in Int
<1>1. request[i].price \in Prices /\ request[i].symbol \in Symbols
  BY DEF Request
<1>2. request[i].price \in Int
  <2>1. \A p \in Prices : p \in Int
    BY PriceAssumption
  <2> QED BY <1>1, <2>1, Zenon
<1>3. /\ Value(i, n) \in Int
      /\ Fee(i, n) \in Int
  BY <1>2, AmountAssumption DEF Value, Fee
<1>4. Coin(i) \in Currencies /\ Locked(i, n) \in Int
  BY <1>1, <1>3 DEF Coin, Currencies, Locked
<1>5. ASSUME NEW c \in Currencies
      PROVE  Received(i, n, c) \in Int
  <2> DEFINE v == Value(i, n)
             f == Fee(i, n)
  <2>1. v \in Int /\ f \in Int
    BY <1>3
  <2>2. (IF request[i].side = "BUY" THEN 0 ELSE v) - f \in Int
    <3> HIDE DEF v, f
    <3> QED BY <2>1
  <2> QED BY <2>2 DEF Received
<1> QED BY <1>4, <1>5

\* An order may be canceled when it is open or partially filled, not when it is
\* in doubt.
LEMMA Cancelable ==
    /\ CanTransition("OPEN", "CANCELING")
    /\ CanTransition("PARTIALLY_FILLED", "CANCELING")
    /\ ~CanTransition("UNKNOWN", "CANCELING")
  BY SMT DEF CanTransition, ValidNext, Terminal

-----------------------------------------------------------------------------
(* The start of a process.                                                 *)

\* A process that starts, with whatever records the store holds.
LEMMA Restarts ==
    ASSUME PInv, NewProcess,
           request' \in [Orders -> Request \cup {NoRequest}],
           status' \in [Orders -> Statuses \cup {NoRecord}],
           filled' \in [Orders -> Nat],
           kills' \in Nat,
           \A i \in Orders : Known(i)' /\ Over(i)'
    PROVE  PInv'
<1>1. work' = Working("start", {}, {}) /\ safe' = FALSE
  BY DEF NewProcess
<1>2. remaining' = [i \in Orders |-> 0] /\ frozen' = [c \in Currencies |-> 0]
  BY DEF NewProcess, PaperFresh
<1>3. avail' \in [Currencies -> Int]
  BY AmountAssumption DEF NewProcess, PaperFresh, ConfiguredBalance
<1>4. TypeOK'
  <2>1. work' \in WorkType
    BY <1>1 DEF WorkType, Working, Ops
  <2>2. remaining' \in [Orders -> Nat] /\ frozen' \in [Currencies -> Int]
    BY <1>2
  <2>3. safe' \in BOOLEAN
    BY <1>1
  <2> QED BY <1>3, <2>1, <2>2, <2>3 DEF TypeOK
<1>5. work'.op = "start" /\ work'.todo = {} /\ work'.answers = {}
  BY <1>1 DEF Working
<1>6. OneTask' /\ DoubtBlocks'
  BY <1>5 DEF OneTask, DoubtBlocks
<1> QED BY <1>2, <1>4, <1>5, <1>6 DEF PInv

LEMMA InitPInv == Init => PInv
<1> SUFFICES ASSUME Init PROVE PInv
  OBVIOUS
<1>1. work = Working("start", {}, {}) /\ safe = FALSE /\ kills = 0
  BY DEF Init
<1>2. remaining = [i \in Orders |-> 0] /\ frozen = [c \in Currencies |-> 0]
  BY DEF Init
<1>3. avail \in [Currencies -> Int]
  BY AmountAssumption DEF Init, ConfiguredBalance
<1>4. /\ request = [i \in Orders |-> NoRequest]
      /\ status = [i \in Orders |-> NoRecord]
      /\ filled = [i \in Orders |-> 0]
  BY DEF Init
<1>5. TypeOK
  <2>1. work \in WorkType
    BY <1>1 DEF WorkType, Working, Ops
  <2>2. remaining \in [Orders -> Nat] /\ frozen \in [Currencies -> Int]
    BY <1>2
  <2>3. /\ request \in [Orders -> Request \cup {NoRequest}]
        /\ status \in [Orders -> Statuses \cup {NoRecord}]
        /\ filled \in [Orders -> Nat]
    BY <1>4
  <2> QED BY <1>1, <1>3, <2>1, <2>2, <2>3 DEF TypeOK
<1>6. work.op = "start" /\ work.todo = {} /\ work.answers = {}
  BY <1>1 DEF Working
<1>7. OneTask /\ DoubtBlocks
  BY <1>6 DEF OneTask, DoubtBlocks
<1>8. \A i \in Orders : Known(i) /\ Over(i)
  BY <1>4 DEF Known, Over, NoRecord
<1> QED BY <1>2, <1>5, <1>6, <1>7, <1>8 DEF PInv

LEMMA MarkMissingInv ==
    ASSUME PInv, NEW i \in Orders, MarkMissing(i)
    PROVE  PInv'
<1>1. /\ work.op = "start" /\ IsOpen(status[i])
      /\ status' = [status EXCEPT ![i] = "UNKNOWN"]
      /\ UNCHANGED <<request, filled, remaining, avail, frozen, safe, work, kills>>
  BY DEF MarkMissing, Transition, paper, book
<1>2. TypeOK /\ OneTask /\ work.todo = {} /\ work.answers = {}
  BY <1>1 DEF PInv, OneTask
<1>3. TypeOK'
  BY <1>1, <1>2 DEF TypeOK, Statuses, NonTerminal
<1>4. OneTask' /\ DoubtBlocks'
  BY <1>1, <1>2 DEF OneTask, DoubtBlocks
<1>5. ASSUME NEW j \in Orders
      PROVE  Known(j)' /\ Over(j)'
  <2>1. Known(j) /\ Over(j)
    BY DEF PInv
  <2>2. status'[j] = IF j = i THEN "UNKNOWN" ELSE status[j]
    BY <1>1, <1>2 DEF TypeOK
  <2>3. status[i] # NoRecord
    BY <1>1 DEF IsOpen, NonTerminal, NoRecord
  <2> QED BY <1>1, <2>1, <2>2, <2>3 DEF Known, Over, NoRecord
<1> QED BY <1>1, <1>2, <1>3, <1>4, <1>5 DEF PInv

LEMMA StartUpInv ==
    ASSUME PInv, StartUp
    PROVE  PInv'
<1>1. /\ work.op = "start" /\ \A i \in Orders : ~IsOpen(status[i])
      /\ safe' = (\E i \in Orders : status[i] = "UNKNOWN")
      /\ work' = Idle
      /\ UNCHANGED <<request, status, filled, remaining, avail, frozen, kills>>
  BY DEF StartUp, records, paper, book
<1>2. work'.op = "idle" /\ work'.todo = {} /\ work'.answers = {} /\ work' \in WorkType
  BY <1>1 DEF Idle, Working, WorkType, Ops
<1>3. safe' \in BOOLEAN
  BY <1>1
<1>4. TypeOK'
  BY <1>1, <1>2, <1>3 DEF PInv, TypeOK
<1>5. OneTask' /\ DoubtBlocks'
  BY <1>1, <1>2 DEF OneTask, DoubtBlocks
<1>6. \A i \in Orders : Known(i)' /\ Over(i)'
  BY <1>1 DEF PInv, Known, Over
<1>7. \A i \in Orders : Settled(i)'
  BY <1>1 DEF PInv, Settled, IsPaperOpen
<1> QED BY <1>2, <1>4, <1>5, <1>6, <1>7 DEF PInv

-----------------------------------------------------------------------------
(* One order of the work is served, one answer is applied.                 *)

\* The exchange serves order i with answer ans.
LEMMA ServeKeeps ==
    ASSUME PInv, NEW i \in work.todo, NEW ans \in Answer, ans.id = i,
           work' = Working(work.op, work.todo \ {i}, work.answers \cup {ans}),
           UNCHANGED <<request, status, filled, safe, kills>>,
           remaining' \in [Orders -> Nat],
           avail' \in [Currencies -> Int], frozen' \in [Currencies -> Int],
           \A j \in Orders \ {i} : remaining'[j] = remaining[j],
           Served(ans)'
    PROVE  PInv'
<1>1. TypeOK /\ OneTask /\ work \in WorkType
  BY DEF PInv, TypeOK
<1>2. /\ work.todo \subseteq Orders /\ work.answers \subseteq Answer /\ work.op \in Ops
      /\ \A a \in work.answers : a.id \in Orders
  BY <1>1 DEF WorkType, Answer
<1>3. /\ work'.op = work.op /\ work'.todo = work.todo \ {i}
      /\ work'.answers = work.answers \cup {ans}
  BY DEF Working
<1>4. work' \in WorkType
  <2>1. /\ work.todo \ {i} \in SUBSET Orders
        /\ work.answers \cup {ans} \in SUBSET Answer
    BY <1>2
  <2> QED BY <1>2, <2>1 DEF WorkType, Working
<1>5. TypeOK'
  BY <1>1, <1>4 DEF TypeOK
<1>6. work.op \notin {"start", "idle"}
  BY <1>1 DEF OneTask
<1>7. \A a \in work.answers : a.id # i
  BY <1>1 DEF OneTask
<1>8. OneTask'
  <2>1. \A a \in work'.answers : a.id \notin work'.todo
    BY <1>1, <1>3 DEF OneTask
  <2>2. \A a, b \in work'.answers : a.id = b.id => a = b
    BY <1>1, <1>3, <1>7 DEF OneTask
  <2> QED BY <1>3, <1>6, <2>1, <2>2 DEF OneTask
<1>9. DoubtBlocks'
  BY <1>3 DEF PInv, DoubtBlocks
<1>10. \A j \in Orders : Known(j)' /\ Over(j)'
  BY DEF PInv, Known, Over
<1>11. Busy' = Busy
  BY <1>3 DEF Busy
<1>12. ASSUME NEW j \in Orders \ Busy
       PROVE  Settled(j)'
  <2>1. j # i /\ Settled(j)
    BY <1>6 DEF Busy, PInv
  <2> QED BY <2>1 DEF Settled, IsPaperOpen
<1>13. ASSUME NEW j \in work.todo \ {i}
       PROVE  Waiting(j)'
  <2>1. Waiting(j) /\ j \in Orders \ {i}
    BY <1>2 DEF PInv
  <2> QED BY <1>3, <2>1 DEF Waiting, Settled, IsPaperOpen
<1>14. ASSUME NEW a \in work.answers
       PROVE  Served(a)'
  <2>1. Served(a) /\ a.id \in Orders \ {i}
    BY <1>2, <1>7 DEF PInv
  <2> QED BY <1>3, <2>1 DEF Served
<1>15. /\ \A j \in work'.todo : Waiting(j)'
       /\ \A a \in work'.answers : Served(a)'
  BY <1>3, <1>13, <1>14
<1>16. /\ work'.op # "start"
       /\ \A j \in Orders \ Busy' : Settled(j)'
  BY <1>3, <1>6, <1>11, <1>12
<1> QED BY <1>5, <1>8, <1>9, <1>10, <1>15, <1>16 DEF PInv

\* The engine applies answer a, which moves its order to status `new`.
LEMMA ApplyKeeps ==
    ASSUME PInv, NEW a \in work.answers, work.todo = {},
           work' = After(a),
           UNCHANGED <<request, remaining, avail, frozen, safe, kills>>,
           NEW new \in Statuses \ {"UNKNOWN"},
           status' = [status EXCEPT ![a.id] = new],
           filled' \in [Orders -> Nat],
           \A j \in Orders \ {a.id} : filled'[j] = filled[j],
           Over(a.id)', Settled(a.id)'
    PROVE  PInv'
<1>1. TypeOK /\ OneTask /\ work \in WorkType
  BY DEF PInv, TypeOK
<1>2. /\ work.answers \subseteq Answer /\ work.op \in Ops
      /\ \A b \in work.answers : b.id \in Orders
  BY <1>1 DEF WorkType, Answer
<1>3. work.op \notin {"start", "idle"} /\ Served(a)
  BY <1>1 DEF OneTask, PInv
<1>4. IsOpen(status[a.id])
  BY <1>2, <1>3 DEF Served, Ops, IsOpen, NonTerminal
<1>5. \A j \in Orders : status[j] # "UNKNOWN"
  BY <1>2, <1>3, <1>4 DEF PInv, DoubtBlocks
<1>6. /\ work' \in WorkType /\ work'.todo = {} /\ work'.op # "start"
      /\ work'.answers = work.answers \ {a}
      /\ \/ work'.op = work.op
         \/ work'.op = "idle" /\ work'.answers = {}
  <2>1. CASE work.answers = {a}
    <3>1. work' = [op |-> "idle", todo |-> {}, answers |-> {}]
      BY <2>1 DEF After, Idle, Working
    <3> QED BY <2>1, <3>1 DEF WorkType, Ops
  <2>2. CASE work.answers # {a}
    <3>1. work.answers \ {a} \in SUBSET Answer
      BY <1>2
    <3>2. work' = [op |-> work.op, todo |-> {}, answers |-> work.answers \ {a}]
      BY <2>2 DEF After, Working
    <3>3. work' \in WorkType
      BY <1>2, <3>1, <3>2 DEF WorkType
    <3>4. work'.todo = {} /\ work'.op = work.op /\ work'.answers = work.answers \ {a}
      BY <3>2
    <3> QED BY <1>3, <3>3, <3>4
  <2> QED BY <2>1, <2>2
<1>7. \A j \in Orders : status'[j] = IF j = a.id THEN new ELSE status[j]
  BY <1>1, <1>2 DEF TypeOK
<1>8. TypeOK'
  <2>1. status' \in [Orders -> Statuses \cup {NoRecord}]
    BY <1>1 DEF TypeOK
  <2> QED BY <1>1, <1>6, <2>1 DEF TypeOK
<1>9. OneTask'
  BY <1>1, <1>3, <1>6 DEF OneTask
<1>10. DoubtBlocks'
  BY <1>5, <1>7 DEF DoubtBlocks
<1>11. ASSUME NEW j \in Orders
       PROVE  Known(j)' /\ Over(j)'
  <2>1. Known(j) /\ Over(j)
    BY DEF PInv
  <2>2. CASE j = a.id
    <3>1. status[j] # NoRecord /\ status'[j] # NoRecord
      BY <1>4, <1>7, <2>2 DEF IsOpen, NoRecord, NonTerminal, Statuses, Terminal
    <3> QED BY <2>1, <2>2, <3>1 DEF Known
  <2>3. CASE j # a.id
    BY <1>7, <2>1, <2>3 DEF Known, Over
  <2> QED BY <2>2, <2>3
<1>12. Busy = {b.id : b \in work.answers} /\ Busy' = {b.id : b \in work.answers \ {a}}
  BY <1>6 DEF Busy
<1>13. ASSUME NEW j \in Orders \ Busy'
       PROVE  Settled(j)'
  <2>1. CASE j = a.id
    BY <2>1
  <2>2. CASE j # a.id
    <3>1. j \notin Busy
      BY <1>12, <2>2
    <3>2. Settled(j)
      BY <1>3, <3>1 DEF PInv
    <3> QED BY <1>7, <2>2, <3>2 DEF Settled, IsPaperOpen
  <2> QED BY <2>1, <2>2
<1>14. ASSUME NEW b \in work'.answers
       PROVE  Served(b)'
  <2>1. b \in work.answers /\ b # a /\ work'.op = work.op
    BY <1>6
  <2>2. b.id # a.id /\ b.id \in Orders /\ Served(b)
    BY <1>1, <1>2, <2>1 DEF OneTask, PInv
  <2> QED BY <1>7, <2>1, <2>2 DEF Served
<1> QED BY <1>6, <1>8, <1>9, <1>10, <1>11, <1>13, <1>14 DEF PInv

-----------------------------------------------------------------------------
(* Submitting.                                                             *)

\* An idle engine concerns itself with no order.
LEMMA IdleSettles ==
    ASSUME PInv, work = Idle
    PROVE  /\ work.op = "idle" /\ work.todo = {} /\ work.answers = {}
           /\ \A i \in Orders : Settled(i)
<1>1. work.op = "idle" /\ work.todo = {} /\ work.answers = {}
  BY DEF Idle, Working
<1>2. Busy = {}
  BY <1>1 DEF Busy
<1> QED BY <1>1, <1>2 DEF PInv

\* The records of a batch that is about to be sent.
LEMMA RecordBatch ==
    ASSUME PInv, NEW S \in SUBSET Orders, NEW req \in [S -> Request],
           \A i \in S : status[i] = NoRecord,
           request' = [i \in Orders |-> IF i \in S THEN req[i] ELSE request[i]],
           UNCHANGED filled,
           NEW new \in [S -> {"CREATED", "SUBMITTING"}],
           status' = [i \in Orders |-> IF i \in S THEN new[i] ELSE status[i]]
    PROVE  /\ request' \in [Orders -> Request \cup {NoRequest}]
           /\ status' \in [Orders -> Statuses \cup {NoRecord}]
           /\ filled' \in [Orders -> Nat]
           /\ \A i \in Orders : Known(i)' /\ Over(i)'
<1>1. TypeOK
  BY DEF PInv
<1>2. \A i \in S : req[i] \in Request /\ new[i] \in {"CREATED", "SUBMITTING"}
  OBVIOUS
<1>3. {"CREATED", "SUBMITTING"} \subseteq Statuses
  BY DEF Statuses, NonTerminal
<1>4. ASSUME NEW i \in Orders
      PROVE  Known(i)' /\ Over(i)'
  <2>1. Known(i) /\ Over(i)
    BY DEF PInv
  <2>2. CASE i \in S
    <3>1. status'[i] \in {"CREATED", "SUBMITTING"} /\ request'[i] \in Request
      BY <1>2, <2>2
    <3> QED BY <3>1 DEF Known, Over, NoRecord
  <2>3. CASE i \notin S
    <3>1. status'[i] = status[i] /\ request'[i] = request[i]
      BY <2>3
    <3> QED BY <2>1, <3>1 DEF Known, Over
  <2> QED BY <2>2, <2>3
<1> QED BY <1>1, <1>2, <1>3, <1>4 DEF TypeOK

LEMMA SubmitBeginInv ==
    ASSUME PInv, NEW S \in SUBSET Orders, NEW req \in [S -> Request], SubmitBegin(S, req)
    PROVE  PInv'
<1>1. /\ work = Idle /\ ~safe
      /\ \A i \in S : status[i] = NoRecord
      /\ request' = [i \in Orders |-> IF i \in S THEN req[i] ELSE request[i]]
      /\ status' = [i \in Orders |-> IF i \in S THEN "SUBMITTING" ELSE status[i]]
      /\ work' = Working("submit", S, {})
      /\ UNCHANGED <<filled, remaining, avail, frozen, safe, kills>>
  BY DEF SubmitBegin, Permits, paper
<1>2. /\ work.op = "idle" /\ work.todo = {} /\ work.answers = {}
      /\ \A i \in Orders : Settled(i)
  BY <1>1, IdleSettles
<1>3. work'.op = "submit" /\ work'.todo = S /\ work'.answers = {} /\ work' \in WorkType
  BY <1>1 DEF Working, WorkType, Ops
<1>4. /\ request' \in [Orders -> Request \cup {NoRequest}]
      /\ status' \in [Orders -> Statuses \cup {NoRecord}]
      /\ \A i \in Orders : Known(i)' /\ Over(i)'
  <2> DEFINE new == [i \in S |-> "SUBMITTING"]
  <2>1. new \in [S -> {"CREATED", "SUBMITTING"}]
    OBVIOUS
  <2>2. status' = [i \in Orders |-> IF i \in S THEN new[i] ELSE status[i]]
    BY <1>1
  <2> HIDE DEF new
  <2> QED BY <1>1, <2>1, <2>2, RecordBatch
<1>5. TypeOK'
  BY <1>1, <1>3, <1>4 DEF PInv, TypeOK
<1>6. OneTask'
  BY <1>3 DEF OneTask
<1>7. DoubtBlocks'
  <2>1. \A i \in Orders : status[i] # "UNKNOWN"
    BY <1>1, <1>2 DEF PInv, DoubtBlocks
  <2>2. \A i \in Orders : status'[i] # "UNKNOWN"
    BY <1>1, <2>1
  <2> QED BY <2>2 DEF DoubtBlocks
<1>8. ASSUME NEW i \in Orders \ Busy'
      PROVE  Settled(i)'
  <2>1. i \notin S
    BY <1>3 DEF Busy
  <2> QED BY <1>1, <1>2, <2>1 DEF Settled, IsPaperOpen
<1>9. ASSUME NEW i \in S
      PROVE  Waiting(i)'
  <2>1. filled[i] = 0 /\ remaining[i] = 0
    <3>1. Known(i) /\ Settled(i) /\ remaining[i] \in Nat
      BY <1>2 DEF PInv, TypeOK
    <3> QED BY <1>1, <3>1 DEF Known, Settled, IsPaperOpen, IsOpen, NonTerminal, NoRecord
  <2> QED BY <1>1, <1>3, <2>1 DEF Waiting
<1> QED BY <1>3, <1>4, <1>5, <1>6, <1>7, <1>8, <1>9 DEF PInv

LEMMA DieCreatingInv ==
    ASSUME PInv, NEW S \in SUBSET Orders, NEW i \in S, NEW req \in [S -> Request],
           DieCreating(S, i, req)
    PROVE  PInv'
<1>1. /\ \A j \in S : status[j] = NoRecord
      /\ request' = [j \in Orders |-> IF j \in S THEN req[j] ELSE request[j]]
      /\ status' = [j \in Orders |-> IF j = i THEN "CREATED"
                                     ELSE IF j \in S THEN "SUBMITTING" ELSE status[j]]
      /\ UNCHANGED filled
      /\ NewProcess /\ kills' = kills + 1 /\ kills \in Nat
  BY DEF DieCreating, Die, PInv, TypeOK
<1> DEFINE new == [j \in S |-> IF j = i THEN "CREATED" ELSE "SUBMITTING"]
<1>2. new \in [S -> {"CREATED", "SUBMITTING"}]
  OBVIOUS
<1>3. status' = [j \in Orders |-> IF j \in S THEN new[j] ELSE status[j]]
  BY <1>1
<1> HIDE DEF new
<1>4. /\ request' \in [Orders -> Request \cup {NoRequest}]
      /\ status' \in [Orders -> Statuses \cup {NoRecord}]
      /\ filled' \in [Orders -> Nat]
      /\ \A j \in Orders : Known(j)' /\ Over(j)'
  BY <1>1, <1>2, <1>3, RecordBatch
<1> QED BY <1>1, <1>4, Restarts

LEMMA ServeSubmitInv ==
    ASSUME PInv, NEW i \in Orders, ServeSubmit(i)
    PROVE  PInv'
<1>1. /\ work.op = "submit" /\ i \in work.todo
      /\ UNCHANGED <<request, status, filled, safe, kills>>
  BY DEF ServeSubmit, records
<1>2. TypeOK /\ Known(i) /\ Waiting(i)
  BY <1>1 DEF PInv
<1>3. status[i] = "SUBMITTING" /\ remaining[i] = 0 /\ filled[i] = 0
  BY <1>1, <1>2 DEF Waiting
<1>4. request[i] \in Request /\ request[i].size \in Sizes
  <2>1. request[i] \in Request
    BY <1>2, <1>3 DEF Known, NoRecord
  <2> QED BY <2>1 DEF Request
<1>5. request[i].size \in Nat /\ request[i].size \in Int
  BY <1>4, HalfIsPart
<1>6. CASE PaperSubmit(i) /\ work' = Working("submit", work.todo \ {i}, work.answers \cup
                {[id |-> i, accepted |-> TRUE, status |-> "OPEN", size |-> 0]})
  <2> DEFINE ans == [id |-> i, accepted |-> TRUE, status |-> "OPEN", size |-> 0]
  <2>1. ans \in Answer /\ ans.id = i
    BY DEF Answer, Statuses, NonTerminal
  <2>2. Coin(i) \in Currencies /\ Locked(i, request[i].size) \in Int
    BY <1>4, <1>5, AmountsAreIntegers
  <2>3. /\ avail' \in [Currencies -> Int] /\ frozen' \in [Currencies -> Int]
        /\ remaining' \in [Orders -> Nat]
        /\ remaining'[i] = request[i].size
        /\ \A j \in Orders \ {i} : remaining'[j] = remaining[j]
    BY <1>2, <1>5, <1>6, <2>2 DEF PaperSubmit, TypeOK
  <2>4. work'.op = "submit"
    BY <1>6 DEF Working
  <2>5. Served(ans)'
    BY <1>1, <1>3, <2>3, <2>4 DEF Served
  <2>6. work' = Working(work.op, work.todo \ {i}, work.answers \cup {ans})
    BY <1>1, <1>6
  <2> HIDE DEF ans
  <2> QED BY <1>1, <2>1, <2>3, <2>5, <2>6, ServeKeeps
<1>7. CASE work' = Working("submit", work.todo \ {i}, work.answers \cup
                {[id |-> i, accepted |-> FALSE, status |-> "REJECTED", size |-> 0]})
           /\ UNCHANGED paper
  <2> DEFINE ans == [id |-> i, accepted |-> FALSE, status |-> "REJECTED", size |-> 0]
  <2>1. ans \in Answer /\ ans.id = i
    BY DEF Answer, Statuses, Terminal
  <2>2. UNCHANGED <<remaining, avail, frozen>>
    BY <1>7 DEF paper
  <2>3. work'.op = "submit"
    BY <1>7 DEF Working
  <2>4. Served(ans)'
    BY <1>1, <1>3, <2>2, <2>3 DEF Served
  <2>5. work' = Working(work.op, work.todo \ {i}, work.answers \cup {ans})
    BY <1>1, <1>7
  <2>6. /\ remaining' \in [Orders -> Nat]
        /\ avail' \in [Currencies -> Int] /\ frozen' \in [Currencies -> Int]
        /\ \A j \in Orders \ {i} : remaining'[j] = remaining[j]
    BY <1>2, <2>2 DEF TypeOK
  <2> HIDE DEF ans
  <2> QED BY <1>1, <2>1, <2>4, <2>5, <2>6, ServeKeeps
<1> QED BY <1>6, <1>7 DEF ServeSubmit

LEMMA ApplySubmitAckInv ==
    ASSUME PInv, NEW a \in work.answers, ApplySubmitAck(a)
    PROVE  PInv'
<1> DEFINE new == AckTarget(a.accepted, a.status)
<1>1. /\ work.op = "submit" /\ work.todo = {} /\ work' = After(a)
      /\ status' = [status EXCEPT ![a.id] = new]
      /\ UNCHANGED <<request, filled, remaining, avail, frozen, safe, kills>>
  BY DEF ApplySubmitAck, Transition, paper, book
<1>2. TypeOK /\ Served(a) /\ a.id \in Orders
  BY DEF PInv, TypeOK, WorkType, Answer
<1>3. /\ filled[a.id] = 0
      /\ \/ new = "OPEN" /\ remaining[a.id] = request[a.id].size
         \/ new = "REJECTED" /\ remaining[a.id] = 0
  BY <1>1, <1>2 DEF Served, AckTarget
<1>4. request[a.id].size \in Nat \ {0} /\ remaining[a.id] \in Nat
  <2>1. request[a.id] \in Request
    BY <1>1, <1>2 DEF PInv, Known, Served, NoRecord
  <2>2. request[a.id].size \in Sizes
    BY <2>1 DEF Request
  <2> QED BY <1>2, <2>2, HalfIsPart DEF TypeOK
<1>5. new \in Statuses \ {"UNKNOWN"}
  BY <1>3 DEF Statuses, Terminal, NonTerminal
<1>6. status'[a.id] = new /\ filled' \in [Orders -> Nat]
      /\ \A j \in Orders \ {a.id} : filled'[j] = filled[j]
  BY <1>1, <1>2 DEF TypeOK
<1> HIDE DEF new
<1>7. Over(a.id)'
  BY <1>3, <1>6 DEF Over
<1>8. Settled(a.id)'
  BY <1>1, <1>3, <1>4, <1>6 DEF Settled, IsPaperOpen, IsOpen, NonTerminal
<1> QED BY <1>1, <1>5, <1>6, <1>7, <1>8, ApplyKeeps

-----------------------------------------------------------------------------
(* Canceling.                                                              *)

\* An idle engine can cancel exactly its open orders.
LEMMA OnlyOpenCancel ==
    ASSUME PInv, work = Idle, NEW i \in Orders, status[i] \in NonTerminal
    PROVE  CanTransition(status[i], "CANCELING") <=> IsOpen(status[i])
<1>1. Settled(i)
  BY IdleSettles
<1>2. CASE IsOpen(status[i])
  <2>1. status[i] \in {"OPEN", "PARTIALLY_FILLED"}
    BY <1>1, <1>2 DEF Settled
  <2> QED BY <1>2, <2>1, Cancelable
<1>3. CASE ~IsOpen(status[i])
  <2>1. status[i] = "UNKNOWN"
    BY <1>3 DEF IsOpen
  <2> QED BY <1>3, <2>1, Cancelable
<1> QED BY <1>2, <1>3

LEMMA CancelBeginInv ==
    ASSUME PInv, NEW S \in SUBSET Orders, NEW op \in {"cancel", "shutdown"}, CancelBegin(S, op)
    PROVE  PInv'
<1> DEFINE active == {i \in S : status[i] \in NonTerminal}
<1>1. /\ work = Idle
      /\ \A i \in active : CanTransition(status[i], "CANCELING")
      /\ status' = [i \in Orders |-> IF i \in active THEN "CANCELING" ELSE status[i]]
      /\ work' = IF active = {} THEN Idle ELSE Working(op, active, {})
      /\ UNCHANGED <<request, filled, remaining, avail, frozen, safe, kills>>
  BY DEF CancelBegin, paper
<1>2. active \subseteq Orders /\ \A i \in active : status[i] \in NonTerminal
  OBVIOUS
<1>3. /\ work.op = "idle" /\ work.todo = {} /\ work.answers = {} /\ work \in WorkType
      /\ \A i \in Orders : Settled(i)
  BY <1>1, IdleSettles DEF PInv, TypeOK
<1>4. \A i \in active : IsOpen(status[i])
  BY <1>1, <1>2, OnlyOpenCancel
<1> HIDE DEF active
<1>5. /\ work' \in WorkType /\ work'.todo = active /\ work'.answers = {}
      /\ active = {} => work'.op = "idle"
      /\ active # {} => work'.op = op
  <2>1. CASE active = {}
    BY <1>1, <1>3, <2>1
  <2>2. CASE active # {}
    <3>1. work' = [op |-> op, todo |-> active, answers |-> {}]
      BY <1>1, <2>2 DEF Working
    <3> QED BY <1>2, <2>2, <3>1 DEF WorkType, Ops
  <2> QED BY <2>1, <2>2
<1>6. \A i \in Orders : status'[i] = IF i \in active THEN "CANCELING" ELSE status[i]
  BY <1>1
<1>7. TypeOK'
  <2>1. status' \in [Orders -> Statuses \cup {NoRecord}]
    BY <1>1 DEF PInv, TypeOK, Statuses, NonTerminal
  <2> QED BY <1>1, <1>5, <2>1 DEF PInv, TypeOK
<1>8. OneTask'
  BY <1>5 DEF OneTask
<1>9. DoubtBlocks'
  <2>1. SUFFICES ASSUME NEW i \in Orders, status'[i] = "UNKNOWN"
                 PROVE  safe' /\ \A j \in Orders : ~IsOpen(status'[j])
    BY DEF DoubtBlocks
  <2>2. status[i] = "UNKNOWN"
    BY <1>6, <2>1
  <2>3. safe /\ \A j \in Orders : ~IsOpen(status[j])
    BY <1>3, <2>2 DEF PInv, DoubtBlocks
  <2> QED BY <1>1, <1>2, <1>4, <1>6, <2>3
<1>10. ASSUME NEW i \in Orders
       PROVE  Known(i)' /\ Over(i)'
  <2>1. Known(i) /\ Over(i)
    BY DEF PInv
  <2>2. CASE i \in active
    <3>1. status[i] # NoRecord /\ status'[i] = "CANCELING"
      BY <1>2, <1>6, <2>2 DEF NoRecord, NonTerminal
    <3> QED BY <1>1, <2>1, <3>1 DEF Known, Over, NoRecord
  <2>3. CASE i \notin active
    BY <1>1, <1>6, <2>1, <2>3 DEF Known, Over
  <2> QED BY <2>2, <2>3
<1>11. ASSUME NEW i \in Orders \ Busy'
       PROVE  Settled(i)'
  <2>1. i \notin active
    BY <1>5 DEF Busy
  <2> QED BY <1>1, <1>3, <1>6, <2>1 DEF Settled, IsPaperOpen
<1>12. ASSUME NEW i \in active
       PROVE  Waiting(i)'
  <2>1. remaining[i] > 0 /\ filled[i] + remaining[i] = request[i].size
    BY <1>2, <1>3, <1>4 DEF Settled, IsPaperOpen
  <2>2. work'.op \in {"cancel", "shutdown"}
    BY <1>5
  <2> QED BY <1>1, <1>2, <1>6, <2>1, <2>2 DEF Waiting
<1>13. work'.op # "start"
  BY <1>5
<1> QED BY <1>5, <1>7, <1>8, <1>9, <1>10, <1>11, <1>12, <1>13 DEF PInv

\* A refused cancel finds no open order to move before it.
LEMMA RefusedMovesNothing ==
    ASSUME PInv, NEW done \in SUBSET Orders, NEW i \in Orders, CancelRefused(done, i)
    PROVE  done = {}
<1>1. /\ work = Idle
      /\ \A j \in done : status[j] \in NonTerminal /\ CanTransition(status[j], "CANCELING")
      /\ status[i] \in NonTerminal /\ ~CanTransition(status[i], "CANCELING")
  BY DEF CancelRefused
<1>2. status[i] = "UNKNOWN" /\ work.op = "idle"
  BY <1>1, OnlyOpenCancel, IdleSettles DEF IsOpen
<1>3. \A j \in Orders : ~IsOpen(status[j])
  BY <1>2 DEF PInv, DoubtBlocks
<1> QED BY <1>1, <1>3, OnlyOpenCancel

LEMMA CancelRefusedInv ==
    ASSUME PInv, NEW done \in SUBSET Orders, NEW i \in Orders, CancelRefused(done, i)
    PROVE  PInv'
<1>1. done = {}
  BY RefusedMovesNothing
<1>2. /\ status' = [j \in Orders |-> IF j \in done THEN "CANCELING" ELSE status[j]]
      /\ safe' = TRUE
      /\ UNCHANGED <<request, filled, remaining, avail, frozen, work, kills>>
  BY DEF CancelRefused, paper
<1>3. status' = status
  BY <1>1, <1>2 DEF PInv, TypeOK
<1>4. TypeOK' /\ OneTask' /\ DoubtBlocks'
  BY <1>2, <1>3 DEF PInv, TypeOK, OneTask, DoubtBlocks
<1>5. Busy' = Busy
  BY <1>2 DEF Busy
<1>6. \A j \in Orders : /\ Known(j)' = Known(j) /\ Over(j)' = Over(j)
                        /\ Settled(j)' = Settled(j) /\ Waiting(j)' = Waiting(j)
  BY <1>2, <1>3 DEF Known, Over, Settled, IsPaperOpen, Waiting
<1>7. \A a \in work.answers : Served(a)' = Served(a)
  BY <1>2, <1>3 DEF Served
<1>8. work.todo \subseteq Orders
  BY DEF PInv, TypeOK, WorkType
<1> QED BY <1>2, <1>4, <1>5, <1>6, <1>7, <1>8 DEF PInv

LEMMA ServeCancelInv ==
    ASSUME PInv, NEW i \in Orders, ServeCancel(i)
    PROVE  PInv'
<1> DEFINE ans == [id |-> i, accepted |-> IsPaperOpen(i), status |-> CancelStatus(i), size |-> 0]
<1>1. /\ work.op \in {"cancel", "shutdown"} /\ i \in work.todo
      /\ UNCHANGED <<request, status, filled, safe, kills>>
      /\ work' = Working(work.op, work.todo \ {i}, work.answers \cup {ans})
  BY DEF ServeCancel, records
<1>2. TypeOK /\ Known(i) /\ Waiting(i)
  BY <1>1 DEF PInv
<1>3. /\ status[i] = "CANCELING" /\ remaining[i] > 0
      /\ filled[i] + remaining[i] = request[i].size
  BY <1>1, <1>2 DEF Waiting
<1>4. request[i] \in Request /\ request[i].size \in Sizes
  <2>1. request[i] \in Request
    BY <1>2, <1>3 DEF Known, NoRecord
  <2> QED BY <2>1 DEF Request
<1>5. request[i].size \in Nat /\ remaining[i] \in Nat /\ filled[i] \in Nat
  BY <1>2, <1>4, HalfIsPart DEF TypeOK
<1>6. PaperCancel(i)
  BY <1>3 DEF ServeCancel, IsPaperOpen
<1>7. Coin(i) \in Currencies /\ Locked(i, remaining[i]) \in Int
  BY <1>4, <1>5, AmountsAreIntegers
<1>8. /\ avail' \in [Currencies -> Int] /\ frozen' \in [Currencies -> Int]
      /\ remaining' \in [Orders -> Nat]
      /\ remaining'[i] = 0
      /\ \A j \in Orders \ {i} : remaining'[j] = remaining[j]
  BY <1>2, <1>6, <1>7 DEF PaperCancel, TypeOK
<1>9. \/ CancelStatus(i) = "CANCELED" /\ filled[i] = 0
      \/ CancelStatus(i) = "PARTIALLY_CANCELED" /\ filled[i] \in 1..(request[i].size - 1)
  BY <1>3, <1>5 DEF CancelStatus, IsPaperOpen
<1>10. ans \in Answer /\ ans.id = i /\ ans.status = CancelStatus(i)
  <2>1. CancelStatus(i) \in Statuses /\ IsPaperOpen(i) \in BOOLEAN
    BY <1>9 DEF Statuses, Terminal, IsPaperOpen
  <2> QED BY <2>1 DEF Answer
<1>11. work'.op \in {"cancel", "shutdown"}
  BY <1>1 DEF Working
<1>12. PICK a \in Answer : a = ans
  BY <1>10
<1>13. /\ a.id = i /\ a.status = CancelStatus(i)
       /\ work' = Working(work.op, work.todo \ {i}, work.answers \cup {a})
  BY <1>1, <1>10, <1>12
<1>14. Served(a)'
  BY <1>1, <1>3, <1>8, <1>9, <1>11, <1>13 DEF Served
<1> HIDE DEF ans
<1> QED BY <1>1, <1>8, <1>13, <1>14, ServeKeeps

LEMMA ApplyCancelAckInv ==
    ASSUME PInv, NEW a \in work.answers, ApplyCancelAck(a)
    PROVE  PInv'
<1>1. /\ work.op \in {"cancel", "shutdown"} /\ work.todo = {}
      /\ UNCHANGED <<request, filled, kills>>
  BY DEF ApplyCancelAck
<1>2. TypeOK /\ Served(a) /\ a.id \in Orders
  BY DEF PInv, TypeOK, WorkType, Answer
<1>3. /\ status[a.id] = "CANCELING" /\ remaining[a.id] = 0
      /\ \/ a.status = "CANCELED" /\ filled[a.id] = 0
         \/ a.status = "PARTIALLY_CANCELED" /\ filled[a.id] \in 1..(request[a.id].size - 1)
  BY <1>1, <1>2 DEF Served
<1>4. status' = [status EXCEPT ![a.id] = a.status]
  BY <1>3 DEF ApplyCancelAck, Transition
<1>5. a.status \in Statuses \ {"UNKNOWN"}
  BY <1>3 DEF Statuses, Terminal
<1>6. status'[a.id] = a.status /\ filled' \in [Orders -> Nat]
      /\ status' \in [Orders -> Statuses \cup {NoRecord}]
      /\ \A j \in Orders \ {a.id} : filled'[j] = filled[j] /\ status'[j] = status[j]
  BY <1>1, <1>2, <1>4, <1>5 DEF TypeOK
<1>7. Over(a.id)'
  BY <1>1, <1>3, <1>6 DEF Over
<1>8. CASE NewProcess
  <2>1. ASSUME NEW j \in Orders
        PROVE  Known(j)' /\ Over(j)'
    <3>1. Known(j) /\ Over(j)
      BY DEF PInv
    <3>2. CASE j = a.id
      BY <1>1, <1>3, <1>6, <1>7, <3>1, <3>2 DEF Known, NoRecord
    <3>3. CASE j # a.id
      BY <1>1, <1>6, <3>1, <3>3 DEF Known, Over
    <3> QED BY <3>2, <3>3
  <2> QED BY <1>1, <1>2, <1>6, <1>8, <2>1, Restarts DEF TypeOK
<1>9. CASE work' = After(a) /\ UNCHANGED <<paper, safe, book>>
  <2>1. UNCHANGED <<remaining, avail, frozen, safe>>
    BY <1>9 DEF paper
  <2>2. Settled(a.id)'
    BY <1>3, <1>6, <2>1 DEF Settled, IsPaperOpen, IsOpen, NonTerminal
  <2> QED BY <1>1, <1>4, <1>5, <1>6, <1>7, <1>9, <2>1, <2>2, ApplyKeeps
<1> QED BY <1>8, <1>9 DEF ApplyCancelAck

-----------------------------------------------------------------------------
(* Stopping and dying.                                                     *)

\* A new process over unchanged records.
LEMMA RestartUnchanged ==
    ASSUME PInv, NewProcess, UNCHANGED records, kills' \in Nat
    PROVE  PInv'
<1>1. UNCHANGED <<request, status, filled>>
  BY DEF records
<1>2. \A i \in Orders : Known(i)' /\ Over(i)'
  BY <1>1 DEF PInv, Known, Over
<1> QED BY <1>1, <1>2, Restarts DEF PInv, TypeOK

LEMMA StopInv ==
    ASSUME PInv, Stop
    PROVE  PInv'
  BY RestartUnchanged DEF Stop, PInv, TypeOK

LEMMA KillInv ==
    ASSUME PInv, Kill
    PROVE  PInv'
  BY RestartUnchanged DEF Kill, Die, PInv, TypeOK

-----------------------------------------------------------------------------
(* Fills.                                                                  *)

LEMMA MatchInv ==
    ASSUME PInv, NEW s \in Symbols, NEW bid \in Prices, NEW ask \in Prices, Match(s, bid, ask)
    PROVE  PInv'
<1> DEFINE T == Crossed(s, bid, ask)
<1>1. /\ work = Idle /\ T # {}
      /\ work' = Working("match", T, {})
      /\ UNCHANGED <<request, status, filled, remaining, avail, frozen, safe, kills>>
  BY DEF Match, records, paper
<1>2. T \subseteq Orders /\ \A i \in T : IsPaperOpen(i)
  BY DEF Crossed
<1>3. work.op = "idle" /\ \A i \in Orders : Settled(i)
  BY <1>1, IdleSettles
<1>4. PICK S \in SUBSET Orders : S = T
  BY <1>2
<1>5. work'.op = "match" /\ work'.todo = S /\ work'.answers = {} /\ work' \in WorkType
  <2>1. work' = [op |-> "match", todo |-> S, answers |-> {}]
    BY <1>1, <1>4 DEF Working
  <2> QED BY <2>1 DEF WorkType, Ops
<1>6. \A i \in S : IsPaperOpen(i)
  BY <1>2, <1>4
<1> HIDE DEF T
<1>7. TypeOK' /\ OneTask'
  BY <1>1, <1>5 DEF PInv, TypeOK, OneTask
<1>8. DoubtBlocks'
  BY <1>1, <1>3, <1>5 DEF PInv, DoubtBlocks
<1>9. \A i \in Orders : Known(i)' /\ Over(i)' /\ Settled(i)'
  BY <1>1, <1>3 DEF PInv, Known, Over, Settled, IsPaperOpen
<1>10. \A i \in S : Waiting(i)'
  BY <1>1, <1>5, <1>6, <1>9 DEF Waiting, IsPaperOpen
<1> QED BY <1>5, <1>7, <1>8, <1>9, <1>10 DEF PInv

LEMMA ServeFillInv ==
    ASSUME PInv, NEW i \in Orders, ServeFill(i)
    PROVE  PInv'
<1> DEFINE ans == [id |-> i, accepted |-> TRUE, status |-> "FILLED", size |-> FillSize(i)]
<1>1. /\ work.op = "match" /\ i \in work.todo /\ PaperFill(i)
      /\ UNCHANGED <<request, status, filled, safe, kills>>
      /\ work' = Working(work.op, work.todo \ {i}, work.answers \cup {ans})
  BY DEF ServeFill, records
<1>2. TypeOK /\ Known(i) /\ Waiting(i)
  BY <1>1 DEF PInv
<1>3. /\ remaining[i] > 0 /\ filled[i] + remaining[i] = request[i].size
      /\ status[i] = IF filled[i] = 0 THEN "OPEN" ELSE "PARTIALLY_FILLED"
  BY <1>1, <1>2 DEF Waiting, Settled, IsPaperOpen
<1>4. request[i] \in Request /\ request[i].size \in Sizes
  <2>1. request[i] \in Request
    BY <1>2, <1>3 DEF Known, NoRecord
  <2> QED BY <2>1 DEF Request
<1>5. request[i].size \in Nat /\ remaining[i] \in Nat \ {0} /\ filled[i] \in Nat
  BY <1>2, <1>3, <1>4, HalfIsPart DEF TypeOK
<1>6. FillSize(i) \in 1..remaining[i]
  BY <1>4, <1>5, FillIsPart
<1>7. PICK n \in 1..remaining[i] : n = FillSize(i)
  BY <1>6
<1>8. PICK a \in Answer : a = [id |-> i, accepted |-> TRUE, status |-> "FILLED", size |-> n]
  <2>1. n \in Nat
    BY <1>5, <1>7
  <2> QED BY <2>1 DEF Answer, Statuses, Terminal
<1>9. a.id = i /\ a.size = n /\ work' = Working(work.op, work.todo \ {i}, work.answers \cup {a})
  BY <1>1, <1>7, <1>8
<1>10. /\ Coin(i) \in Currencies /\ Locked(i, n) \in Int
       /\ \A c \in Currencies : Received(i, n, c) \in Int
  BY <1>4, <1>5, <1>7, AmountsAreIntegers
<1>11. /\ remaining' = [remaining EXCEPT ![i] = @ - n]
       /\ frozen' = [frozen EXCEPT ![Coin(i)] = @ - Locked(i, n)]
       /\ avail' = [c \in Currencies |-> avail[c] + Received(i, n, c)]
  BY <1>1, <1>7 DEF PaperFill
<1>12. avail' \in [Currencies -> Int] /\ frozen' \in [Currencies -> Int]
  BY <1>2, <1>10, <1>11 DEF TypeOK
<1>13. remaining[i] - n \in Nat
  BY <1>5, <1>7
<1>14. /\ remaining' \in [Orders -> Nat]
       /\ remaining'[i] = remaining[i] - n
       /\ \A j \in Orders \ {i} : remaining'[j] = remaining[j]
  BY <1>2, <1>11, <1>13 DEF TypeOK
<1>15. work'.op = "match"
  BY <1>1 DEF Working
<1>16. n > 0 /\ filled[i] + n + (remaining[i] - n) = request[i].size
  BY <1>3, <1>5, <1>7
<1>17. Served(a)'
  BY <1>1, <1>3, <1>9, <1>14, <1>15, <1>16 DEF Served
<1> HIDE DEF ans
<1> QED BY <1>1, <1>9, <1>12, <1>14, <1>17, ServeKeeps

LEMMA ApplyOneFillInv ==
    ASSUME PInv, NEW a \in work.answers, ApplyOneFill(a)
    PROVE  PInv'
<1> DEFINE i == a.id
           total == FilledAfter(i, a.size)
           new == FillTarget(i, total)
<1>1. /\ work.op = "match" /\ work.todo = {} /\ work' = After(a)
      /\ status' = [status EXCEPT ![i] = new]
      /\ filled' = [filled EXCEPT ![i] = total]
      /\ UNCHANGED <<request, remaining, avail, frozen, safe, kills>>
  BY DEF ApplyOneFill, Transition, paper
<1>2. TypeOK /\ Served(a) /\ i \in Orders /\ a.size \in Nat
  BY DEF PInv, TypeOK, WorkType, Answer
<1>3. /\ a.size > 0 /\ filled[i] + a.size + remaining[i] = request[i].size
      /\ status[i] = IF filled[i] = 0 THEN "OPEN" ELSE "PARTIALLY_FILLED"
  BY <1>1, <1>2 DEF Served
<1>4. request[i].size \in Nat /\ remaining[i] \in Nat /\ filled[i] \in Nat
  <2>1. request[i] \in Request
    BY <1>2, <1>3 DEF PInv, Known, NoRecord
  <2>2. request[i].size \in Sizes
    BY <2>1 DEF Request
  <2> QED BY <1>2, <2>2, HalfIsPart DEF TypeOK
<1>5. total = filled[i] + a.size /\ total \in Nat /\ total # 0
  BY <1>2, <1>3, <1>4 DEF FilledAfter
<1>6. new = IF remaining[i] = 0 THEN "FILLED" ELSE "PARTIALLY_FILLED"
  <2>1. total + remaining[i] = request[i].size
    BY <1>3, <1>5
  <2> HIDE DEF total
  <2>2. total >= request[i].size <=> remaining[i] = 0
    BY <1>4, <1>5, <2>1
  <2> QED BY <2>2 DEF FillTarget
<1>7. new \in Statuses \ {"UNKNOWN"}
  BY <1>6 DEF Statuses, Terminal, NonTerminal
<1>8. /\ status'[i] = new /\ filled'[i] = filled[i] + a.size
      /\ filled' \in [Orders -> Nat]
      /\ \A j \in Orders \ {i} : filled'[j] = filled[j]
  BY <1>1, <1>2, <1>5 DEF TypeOK
<1> HIDE DEF new, total
<1>9. Over(i)'
  BY <1>1, <1>3, <1>4, <1>6, <1>8 DEF Over
<1>10. Settled(i)'
  BY <1>1, <1>2, <1>3, <1>4, <1>6, <1>8 DEF Settled, IsPaperOpen, IsOpen, NonTerminal
<1> HIDE DEF i
<1>11. i = a.id
  BY DEF i
<1>12. Over(a.id)' /\ Settled(a.id)' /\ status' = [status EXCEPT ![a.id] = new]
       /\ \A j \in Orders \ {a.id} : filled'[j] = filled[j]
  BY <1>1, <1>8, <1>9, <1>10 DEF i
<1>13. PICK t \in Statuses \ {"UNKNOWN"} : t = new
  BY <1>7
<1>14. status' = [status EXCEPT ![a.id] = t]
  BY <1>12, <1>13
<1> QED BY <1>1, <1>8, <1>12, <1>14, ApplyKeeps

-----------------------------------------------------------------------------
(* The theorems.                                                           *)

\* Every step keeps the invariant.
LEMMA StepKeeps == PInv /\ [Next]_vars => PInv'
<1> SUFFICES ASSUME PInv, [Next]_vars PROVE PInv'
  OBVIOUS
<1>1. CASE \E i \in Orders : MarkMissing(i)
  BY <1>1, MarkMissingInv
<1>2. CASE StartUp
  BY <1>2, StartUpInv
<1>3. CASE \E S \in (SUBSET Orders) \ {{}} : \E req \in [S -> Request] : SubmitBegin(S, req)
  BY <1>3, SubmitBeginInv
<1>4. CASE \E S \in (SUBSET Orders) \ {{}} : \E i \in S, req \in [S -> Request] :
               DieCreating(S, i, req)
  BY <1>4, DieCreatingInv
<1>5. CASE \E i \in Orders : ServeSubmit(i)
  BY <1>5, ServeSubmitInv
<1>6. CASE \E a \in work.answers : ApplySubmitAck(a)
  BY <1>6, ApplySubmitAckInv
<1>7. CASE \E S \in SUBSET Orders, op \in {"cancel", "shutdown"} : CancelBegin(S, op)
  BY <1>7, CancelBeginInv
<1>8. CASE Stop
  BY <1>8, StopInv
<1>9. CASE \E done \in SUBSET Orders, i \in Orders : CancelRefused(done, i)
  BY <1>9, CancelRefusedInv
<1>10. CASE \E i \in Orders : ServeCancel(i)
  BY <1>10, ServeCancelInv
<1>11. CASE \E a \in work.answers : ApplyCancelAck(a)
  BY <1>11, ApplyCancelAckInv
<1>12. CASE \E s \in Symbols, bid, ask \in Prices : bid < ask /\ Match(s, bid, ask)
  BY <1>12, MatchInv
<1>13. CASE \E i \in Orders : ServeFill(i)
  BY <1>13, ServeFillInv
<1>14. CASE \E a \in work.answers : ApplyOneFill(a)
  BY <1>14, ApplyOneFillInv
<1>15. CASE Kill
  BY <1>15, KillInv
<1>16. CASE UNCHANGED vars
  <2>1. UNCHANGED <<request, status, filled, remaining, avail, frozen, safe, work, kills>>
    BY <1>16 DEF vars, records, paper
  <2>2. TypeOK' /\ OneTask' /\ DoubtBlocks' /\ Busy' = Busy
    BY <2>1 DEF PInv, TypeOK, OneTask, DoubtBlocks, Busy
  <2>3. \A j \in Orders : /\ Known(j)' = Known(j) /\ Over(j)' = Over(j)
                          /\ Settled(j)' = Settled(j) /\ Waiting(j)' = Waiting(j)
    BY <2>1 DEF Known, Over, Settled, IsPaperOpen, Waiting
  <2>4. \A a \in work.answers : Served(a)' = Served(a)
    BY <2>1 DEF Served
  <2>5. work.todo \subseteq Orders
    BY DEF PInv, TypeOK, WorkType
  <2> QED BY <2>1, <2>2, <2>3, <2>4, <2>5 DEF PInv
<1> QED BY <1>1, <1>2, <1>3, <1>4, <1>5, <1>6, <1>7, <1>8, <1>9, <1>10, <1>11, <1>12,
           <1>13, <1>14, <1>15, <1>16 DEF Next

LEMMA PaperInductive == Spec => []PInv
  BY InitPInv, StepKeeps, PTL DEF Spec

\* Types: in particular no order has a negative size left and every answer
\* the engine holds concerns an order it has a request for.
THEOREM PaperTypeCorrect == Spec => []TypeOK
<1>1. PInv => TypeOK
  BY DEF PInv
<1> QED BY <1>1, PaperInductive, PTL

\* Between two pieces of work the OMS and the paper exchange agree on which
\* orders are open, on what is left of them and on whether they have traded.
THEOREM SidesAgreeAlways == Spec => []SidesAgree
<1>1. PInv => SidesAgree
  <2> SUFFICES ASSUME PInv, work.op = "idle" , NEW i \in Orders
               PROVE  Settled(i) /\ Over(i)
    BY DEF SidesAgree, Settled, Over
  <2>1. Busy = {}
    BY DEF PInv, OneTask, Busy
  <2> QED BY <2>1 DEF PInv
<1> QED BY <1>1, PaperInductive, PTL

\* While an order is in doubt the engine has no work, and is in safe mode when
\* it is ready for some.
LEMMA DoubtIsQuiet ==
    ASSUME PInv, NEW i \in Orders, status[i] = "UNKNOWN"
    PROVE  /\ work.answers = {}
           /\ work = Idle => safe
<1>1. work = Idle => safe
  BY DEF Idle, Working, PInv, DoubtBlocks
<1>2. CASE work.op \in {"start", "idle"}
  BY <1>1, <1>2 DEF PInv, OneTask
<1>3. CASE work.op \notin {"start", "idle"}
  <2>1. \A j \in Orders : ~IsOpen(status[j])
    BY <1>3 DEF PInv, DoubtBlocks
  <2>2. ASSUME NEW a \in work.answers
        PROVE  FALSE
    <3>1. Served(a) /\ a.id \in Orders /\ work.op \in Ops
      BY DEF PInv, TypeOK, WorkType, Answer
    <3>2. status[a.id] \in {"SUBMITTING", "CANCELING", "OPEN", "PARTIALLY_FILLED"}
      BY <1>3, <3>1 DEF Served, Ops
    <3> QED BY <2>1, <3>1, <3>2 DEF IsOpen, NonTerminal
  <2> QED BY <1>1, <2>2
<1> QED BY <1>2, <1>3

\* No step moves an order in doubt, or makes a record while one is.
LEMMA DoubtHalts ==
    ASSUME PInv, [Next]_vars, NEW i \in Orders, status[i] = "UNKNOWN"
    PROVE  /\ status'[i] = "UNKNOWN"
           /\ \A j \in Orders : status[j] = NoRecord => status'[j] = NoRecord
<1>1. work.answers = {} /\ (work = Idle => safe) /\ status \in [Orders -> Statuses \cup {NoRecord}]
  BY DoubtIsQuiet DEF PInv, TypeOK
<1>2. CASE \E j \in Orders : MarkMissing(j)
  <2>1. PICK j \in Orders : MarkMissing(j)
    BY <1>2
  <2>2. status' = [status EXCEPT ![j] = "UNKNOWN"] /\ IsOpen(status[j])
    BY <2>1 DEF MarkMissing, Transition
  <2>3. status[j] # NoRecord
    BY <2>2 DEF IsOpen, NonTerminal, NoRecord
  <2> QED BY <1>1, <2>2, <2>3
<1>3. CASE \E S \in SUBSET Orders, op \in {"cancel", "shutdown"} : CancelBegin(S, op)
  <2>1. PICK S \in SUBSET Orders, op \in {"cancel", "shutdown"} : CancelBegin(S, op)
    BY <1>3
  <2>2. \A j \in S : status[j] \in NonTerminal => CanTransition(status[j], "CANCELING")
    BY <2>1 DEF CancelBegin
  <2>3. \A j \in Orders : \/ status'[j] = status[j]
                          \/ j \in S /\ status[j] \in NonTerminal
    BY <2>1 DEF CancelBegin
  <2>4. ~(i \in S /\ status[i] \in NonTerminal)
    BY <2>2, Cancelable
  <2>5. NoRecord \notin NonTerminal
    BY DEF NoRecord, NonTerminal
  <2> QED BY <2>3, <2>4, <2>5
<1>4. CASE \E done \in SUBSET Orders, j \in Orders : CancelRefused(done, j)
  <2>1. PICK done \in SUBSET Orders, j \in Orders : CancelRefused(done, j)
    BY <1>4
  <2>2. done = {}
    BY <2>1, RefusedMovesNothing
  <2>3. status' = [k \in Orders |-> IF k \in done THEN "CANCELING" ELSE status[k]]
    BY <2>1 DEF CancelRefused
  <2> QED BY <2>2, <2>3
<1>5. CASE UNCHANGED status
  BY <1>5
<1>6. ~(\E S \in (SUBSET Orders) \ {{}} : \E req \in [S -> Request] : SubmitBegin(S, req))
  BY <1>1 DEF SubmitBegin, Permits
<1>7. ~(\E S \in (SUBSET Orders) \ {{}} : \E j \in S, req \in [S -> Request] :
            DieCreating(S, j, req))
  BY <1>1 DEF DieCreating, Permits
<1>8. StartUp \/ Stop \/ Kill \/ UNCHANGED vars => UNCHANGED status
  BY DEF StartUp, Stop, Kill, vars, records
<1>9. \A j \in Orders : ServeSubmit(j) \/ ServeCancel(j) \/ ServeFill(j) => UNCHANGED status
  BY DEF ServeSubmit, ServeCancel, ServeFill, records
<1>10. \A s \in Symbols, bid, ask \in Prices : Match(s, bid, ask) => UNCHANGED status
  BY DEF Match, records
<1> QED BY <1>1, <1>2, <1>3, <1>4, <1>5, <1>6, <1>7, <1>8, <1>9, <1>10 DEF Next

\* An engine that has lost orders to a death keeps them in doubt for ever and
\* records no new one.
THEOREM LossStops == Spec => LossStopsTrading
<1> DEFINE Halt == \A i \in Orders :
                     status[i] = "UNKNOWN" =>
                       /\ status'[i] = "UNKNOWN"
                       /\ \A j \in Orders : status[j] = NoRecord => status'[j] = NoRecord
<1>1. PInv /\ [Next]_vars => [Halt]_vars
  BY DoubtHalts
<1> QED BY <1>1, PaperInductive, PTL DEF LossStopsTrading, Spec
-----------------------------------------------------------------------------
(* Sums, counted unit by unit.                                             *)

\* The units of one member are as many as its amount, and no others.
LEMMA UnitsOfOne ==
    ASSUME NEW x, NEW n \in Nat
    PROVE  IsFiniteSet({x} \X (1..n)) /\ Cardinality({x} \X (1..n)) = n
<1>1. IsFiniteSet({x}) /\ Cardinality({x}) = 1
  BY FS_Singleton, Zenon
<1>2. IsFiniteSet(1..n) /\ Cardinality(1..n) = n
  BY FS_Interval
<1> DEFINE I == 1..n
<1> HIDE DEF I
<1>3. /\ IsFiniteSet({x} \X I)
      /\ Cardinality({x} \X I) = Cardinality({x}) * Cardinality(I)
  BY <1>1, <1>2, FS_Product, Zenon DEF I
<1>4. Cardinality(I) = n
  BY <1>2 DEF I
<1>5. Cardinality({x} \X I) = n
  BY <1>1, <1>3, <1>4
<1> QED BY <1>3, <1>5 DEF I

\* A sum is a natural number, and nothing sums up to 0.
LEMMA TotalIsNat ==
    ASSUME NEW f, NEW S, IsFiniteSet(Units(f, S))
    PROVE  Total(f, S) \in Nat
  BY FS_CardinalityType DEF Total

LEMMA TotalOfNothing ==
    ASSUME NEW f, NEW S, \A x \in S : f[x] = 0
    PROVE  IsFiniteSet(Units(f, S)) /\ Total(f, S) = 0
<1>1. Units(f, S) = {}
  BY DEF Units
<1> QED BY <1>1, FS_EmptySet DEF Total

\* What x adds to a sum.
Part(f, S, x) == IF x \in S THEN f[x] ELSE 0

\* Taking one member out of a sum takes its units.
LEMMA UnitsApart ==
    ASSUME NEW f, NEW S, NEW x, Part(f, S, x) \in Nat
    PROVE  /\ Units(f, S) = Units(f, S \ {x}) \cup ({x} \X (1..Part(f, S, x)))
           /\ Units(f, S \ {x}) \cap ({x} \X (1..Part(f, S, x))) = {}
<1> DEFINE one == {x} \X (1..Part(f, S, x))
           rest == Units(f, S \ {x})
<1>1. CASE x \in S
  BY <1>1, SMT DEF Units, Part
<1>2. CASE x \notin S
  <2>1. Part(f, S, x) = 0 /\ S \ {x} = S
    BY <1>2 DEF Part
  <2>2. one = {}
    BY <2>1
  <2> QED BY <2>1, <2>2
<1> QED BY <1>1, <1>2

\* A sum is finite when it is without one of its members.
LEMMA TotalWhole ==
    ASSUME NEW f, NEW S, NEW x, Part(f, S, x) \in Nat,
           IsFiniteSet(Units(f, S \ {x}))
    PROVE  IsFiniteSet(Units(f, S))
<1>1. IsFiniteSet({x} \X (1..Part(f, S, x)))
  BY UnitsOfOne
<1>2. IsFiniteSet(Units(f, S \ {x}) \cup ({x} \X (1..Part(f, S, x))))
  BY <1>1, FS_Union
<1> QED BY <1>2, UnitsApart

\* A sum apart from one of its members.
LEMMA TotalApart ==
    ASSUME NEW f, NEW S, NEW x, Part(f, S, x) \in Nat,
           IsFiniteSet(Units(f, S))
    PROVE  /\ IsFiniteSet(Units(f, S \ {x}))
           /\ Total(f, S) = Total(f, S \ {x}) + Part(f, S, x)
<1> DEFINE one == {x} \X (1..Part(f, S, x))
           rest == Units(f, S \ {x})
<1>1. Units(f, S) = rest \cup one /\ rest \cap one = {}
  BY UnitsApart
<1>2. IsFiniteSet(one) /\ Cardinality(one) = Part(f, S, x)
  BY UnitsOfOne
<1> HIDE DEF one, rest
<1>3. IsFiniteSet(rest)
  <2>1. rest \in SUBSET Units(f, S)
    BY <1>1
  <2> QED BY <2>1, FS_Subset
<1>4. Cardinality(rest \cup one) = Cardinality(rest) + Cardinality(one) - Cardinality(rest \cap one)
  BY <1>2, <1>3, FS_Union
<1>5. Cardinality(rest \cap one) = 0 /\ Cardinality(rest) \in Nat
  BY <1>1, <1>3, FS_EmptySet, FS_CardinalityType
<1> QED BY <1>1, <1>2, <1>3, <1>4, <1>5 DEF Total, rest

\* A sum moves with one of its members.
LEMMA TotalMoves ==
    ASSUME NEW f, NEW g, NEW S, NEW T, NEW x, S \ {x} = T \ {x},
           \A y \in S \ {x} : f[y] = g[y],
           Part(f, S, x) \in Nat, Part(g, T, x) \in Nat,
           IsFiniteSet(Units(f, S))
    PROVE  /\ IsFiniteSet(Units(g, T))
           /\ Total(f, S) \in Nat /\ Total(g, T) \in Nat
           /\ Total(g, T) = Total(f, S) - Part(f, S, x) + Part(g, T, x)
<1>1. Units(f, S \ {x}) = Units(g, T \ {x})
  BY SMT DEF Units
<1>2. /\ IsFiniteSet(Units(f, S \ {x}))
      /\ Total(f, S) = Total(f, S \ {x}) + Part(f, S, x)
  BY TotalApart
<1>3. IsFiniteSet(Units(g, T \ {x}))
  BY <1>1, <1>2
<1>4. /\ IsFiniteSet(Units(g, T))
      /\ Total(g, T) = Total(g, T \ {x}) + Part(g, T, x)
  <2>1. IsFiniteSet(Units(g, T))
    BY <1>3, TotalWhole
  <2> QED BY <2>1, TotalApart
<1>5. Total(f, S \ {x}) = Total(g, T \ {x}) /\ Total(f, S \ {x}) \in Nat
  BY <1>1, <1>2, TotalIsNat DEF Total
<1> QED BY <1>2, <1>4, <1>5

\* A sum stays where its members do.
LEMMA TotalStays ==
    ASSUME NEW f, NEW g, NEW S, NEW T, S = T, \A y \in S : f[y] = g[y]
    PROVE  Units(f, S) = Units(g, T) /\ Total(f, S) = Total(g, T)
<1>1. Units(f, S) = Units(g, T)
  BY SMT DEF Units
<1> QED BY <1>1 DEF Total
-----------------------------------------------------------------------------
(* Funds.  Three sums explain every balance at every moment: what open     *)
(* orders need, the fees the book has seen, and the fills that have been   *)
(* settled at the exchange and wait to be applied.                         *)

\* The fills that wait to be applied, their fees and sizes.
Unapplied == IF work.op = "match" THEN work.answers ELSE {}
FillFees == [a \in Unapplied |-> Fee(a.id, a.size)]
FillSizes == [a \in Unapplied |-> a.size]
Traded(s, side) == {a \in Unapplied : request[a.id].symbol = s /\ request[a.id].side = side}

BookTyped ==
    /\ pnl = [s \in Symbols |-> pnl[s]]
    /\ surplus \in [Symbols -> [size : Nat, cash : Nat]]
    /\ \A s \in Symbols : /\ DOMAIN pnl[s] = {"position", "avgCost", "realized", "fees"}
                          /\ pnl[s].position \in Nat /\ pnl[s].fees \in Nat

\* What is frozen is what open orders need, and only finitely many do.
Reserved(c) == frozen[c] = Total(Needs, Needing(c)) /\ IsFiniteSet(Units(Needs, Needing(c)))

\* Without the fees no balance would be negative, those of waiting fills
\* included.
Covered ==
    /\ \A s \in Symbols : avail[s] >= 0
    /\ IsFiniteSet(Units(FeesPaid, Symbols)) /\ IsFiniteSet(Units(FillFees, Unapplied))
    /\ avail[Quote] + Total(FeesPaid, Symbols) + Total(FillFees, Unapplied) >= 0

\* A base balance moved by the position of the book and by the waiting fills.
Explained(s) ==
    /\ \A side \in Sides : IsFiniteSet(Units(FillSizes, Traded(s, side)))
    /\ avail[s] + frozen[s] = StartBase + pnl[s].position - surplus[s].size
                              + Total(FillSizes, Traded(s, "BUY")) - Total(FillSizes, Traded(s, "SELL"))

FundsInv ==
    /\ BookTyped
    /\ \A c \in Currencies : Reserved(c)
    /\ Covered
    /\ \A s \in Symbols : Explained(s)
\* Amounts are natural numbers and add up.
LEMMA AmountsAddUp ==
    ASSUME NEW i, request[i] \in Request, NEW m \in Nat, NEW n \in Nat
    PROVE  /\ Value(i, m) \in Nat /\ Fee(i, m) \in Nat /\ Locked(i, m) \in Nat
           /\ Locked(i, 0) = 0
           /\ Locked(i, m + n) = Locked(i, m) + Locked(i, n)
           /\ Coin(i) \in Currencies
<1>1. request[i].price \in Prices /\ request[i].symbol \in Symbols
  BY DEF Request
<1>2. PICK p \in Nat : p = request[i].price
  <2>1. \A q \in Prices : q \in Nat
    BY PriceAssumption
  <2> QED BY <1>1, <2>1, Zenon
<1>3. Scale \in Nat /\ FeeRate \in Nat
  BY AmountAssumption
<1>4. \A k \in Nat : p * k * Scale \in Nat /\ p * k * FeeRate \in Nat
  <2>1. \A a, b, c \in Nat : a * b * c \in Nat
    OBVIOUS
  <2> QED BY <1>3, <2>1, Zenon
<1>5. p * (m + n) * Scale = p * m * Scale + p * n * Scale /\ p * 0 * Scale = 0
  BY <1>3
<1>6. \A k \in Nat : Value(i, k) = p * k * Scale /\ Fee(i, k) = p * k * FeeRate
  BY <1>2, Zenon DEF Value, Fee
<1>7. m + n \in Nat /\ 0 \in Nat
  OBVIOUS
<1>8. /\ Value(i, m) \in Nat /\ Fee(i, m) \in Nat
      /\ Value(i, 0) = 0 /\ Value(i, m + n) = Value(i, m) + Value(i, n)
  BY <1>4, <1>5, <1>6, <1>7
<1>9. Coin(i) \in Currencies
  BY <1>1 DEF Coin, Currencies
<1> QED BY <1>8, <1>9 DEF Locked

\* The funds of a new process.
LEMMA FundsFresh ==
    ASSUME NewProcess
    PROVE  FundsInv'
<1>1. /\ work' = Working("start", {}, {}) /\ pnl' = EmptyBook /\ surplus' = NoSurplus
      /\ remaining' = [i \in Orders |-> 0]
      /\ avail' = ConfiguredBalance /\ frozen' = [c \in Currencies |-> 0]
  BY DEF NewProcess, PaperFresh
<1>2. BookTyped'
  <2>1. surplus' \in [Symbols -> [size : Nat, cash : Nat]]
    BY <1>1 DEF NoSurplus
  <2>2. pnl' = [s \in Symbols |-> pnl'[s]]
    BY <1>1 DEF EmptyBook
  <2>3. \A s \in Symbols : /\ DOMAIN pnl'[s] = {"position", "avgCost", "realized", "fees"}
                           /\ pnl'[s].position \in Nat /\ pnl'[s].fees \in Nat
    BY <1>1 DEF EmptyBook, Empty
  <2> QED BY <2>1, <2>2, <2>3 DEF BookTyped
<1>3. ASSUME NEW c \in Currencies
      PROVE  Reserved(c)'
  <2>1. Needing(c)' = {}
    BY <1>1 DEF Needing, IsPaperOpen
  <2>2. IsFiniteSet(Units(Needs, Needing(c))') /\ Total(Needs, Needing(c))' = 0
    BY <2>1, TotalOfNothing DEF Total, Units
  <2> QED BY <1>1, <2>2 DEF Reserved
<1>4. Unapplied' = {}
  BY <1>1 DEF Unapplied, Working
<1>5. ASSUME NEW s \in Symbols, NEW side
      PROVE  /\ IsFiniteSet(Units(FillSizes, Traded(s, side))')
             /\ Total(FillSizes, Traded(s, side))' = 0
  <2>1. Traded(s, side)' = {}
    BY <1>4 DEF Traded
  <2> QED BY <2>1, TotalOfNothing DEF Total, Units
<1>6. Covered'
  <2>1. \A s \in Symbols : FeesPaid'[s] = 0
    BY <1>1 DEF FeesPaid, EmptyBook, Empty
  <2>2. IsFiniteSet(Units(FeesPaid, Symbols)') /\ Total(FeesPaid, Symbols)' = 0
    BY <2>1, TotalOfNothing DEF Total, Units
  <2>3. IsFiniteSet(Units(FillFees, Unapplied)') /\ Total(FillFees, Unapplied)' = 0
    BY <1>4, TotalOfNothing DEF Total, Units
  <2>4. avail'[Quote] >= 0 /\ \A s \in Symbols : avail'[s] >= 0
    BY <1>1, AmountAssumption DEF ConfiguredBalance, Currencies
  <2>5. avail'[Quote] \in Int
    BY <1>1, AmountAssumption DEF ConfiguredBalance, Currencies
  <2> QED BY <2>2, <2>3, <2>4, <2>5 DEF Covered
<1>7. ASSUME NEW s \in Symbols
      PROVE  Explained(s)'
  <2>1. avail'[s] = StartBase /\ frozen'[s] = 0 /\ pnl'[s].position = 0 /\ surplus'[s].size = 0
    BY <1>1, CurrencyAssumption DEF ConfiguredBalance, Currencies, EmptyBook, Empty, NoSurplus
  <2>2. StartBase \in Nat
    BY AmountAssumption
  <2> QED BY <1>5, <2>1, <2>2 DEF Explained
<1> QED BY <1>2, <1>3, <1>6, <1>7 DEF FundsInv

\* Steps that leave balances, open orders and the book alone, outside a match.
LEMMA FundsStill ==
    ASSUME FundsInv, UNCHANGED <<remaining, avail, frozen, pnl, surplus>>,
           \A i \in Orders : IsPaperOpen(i) => request'[i] = request[i],
           Unapplied = {}, Unapplied' = {}
    PROVE  FundsInv'
<1>1. BookTyped'
  BY DEF FundsInv, BookTyped
<1>2. ASSUME NEW c \in Currencies
      PROVE  Reserved(c)'
  <2>1. Needing(c)' = Needing(c)
    BY DEF Needing, IsPaperOpen, Coin
  <2>2. \A i \in Needing(c) : Needs[i] = Needs'[i]
    BY DEF Needing, IsPaperOpen, Needs, Locked, Value
  <2>3. /\ Units(Needs, Needing(c))' = Units(Needs, Needing(c))
        /\ Total(Needs, Needing(c))' = Total(Needs, Needing(c))
    BY <2>1, <2>2, TotalStays DEF Total, Units
  <2> QED BY <2>3 DEF FundsInv, Reserved
<1>3. Covered'
  <2>1. FeesPaid' = FeesPaid
    BY DEF FeesPaid
  <2>2. FillFees' = FillFees
    BY DEF FillFees
  <2> QED BY <2>1, <2>2 DEF FundsInv, Covered, Total, Units
<1>4. ASSUME NEW s \in Symbols
      PROVE  Explained(s)'
  <2>1. FillSizes' = FillSizes
    BY DEF FillSizes
  <2>2. \A side : Traded(s, side)' = Traded(s, side)
    BY DEF Traded
  <2> QED BY <2>1, <2>2 DEF FundsInv, Explained, Total, Units
<1> QED BY <1>1, <1>2, <1>3, <1>4 DEF FundsInv

\* One open order comes to need more or less, and as much more or less is frozen.
LEMMA ReservedMoves ==
    ASSUME TypeOK, \A c \in Currencies : Reserved(c), UNCHANGED request,
           NEW i \in Orders, request[i] \in Request, NEW m \in Nat,
           remaining' = [remaining EXCEPT ![i] = m],
           frozen' = [frozen EXCEPT ![Coin(i)] = @ + Locked(i, m) - Locked(i, remaining[i])]
    PROVE  \A c \in Currencies : Reserved(c)'
<1>1. /\ remaining'[i] = m /\ remaining[i] \in Nat
      /\ \A j \in Orders \ {i} : remaining'[j] = remaining[j]
  BY DEF TypeOK
<1>2. /\ Locked(i, m) \in Nat /\ Locked(i, remaining[i]) \in Nat /\ Locked(i, 0) = 0
      /\ Coin(i) \in Currencies
  BY <1>1, AmountsAddUp
<1>3. \A j \in Orders, n \in Nat : Locked(j, n)' = Locked(j, n) /\ Coin(j)' = Coin(j)
  BY DEF Locked, Value, Coin
<1>4. Needs[i] = Locked(i, remaining[i]) /\ Needs'[i] = Locked(i, m)
  BY <1>1, <1>3 DEF Needs
<1>5. \A j \in Orders \ {i} : Needs'[j] = Needs[j]
  BY <1>1 DEF Needs, Locked, Value
<1>6. ASSUME NEW c \in Currencies
      PROVE  Reserved(c)'
  <2>1. Needing(c) \ {i} = Needing(c)' \ {i}
    BY <1>1 DEF Needing, IsPaperOpen, Coin
  <2>2. \A j \in Needing(c) \ {i} : Needs[j] = Needs'[j]
    BY <1>5 DEF Needing
  <2>3. i \in Needing(c) <=> remaining[i] > 0 /\ Coin(i) = c
    BY DEF Needing, IsPaperOpen
  <2>4. i \in Needing(c)' <=> m > 0 /\ Coin(i) = c
    BY <1>1, <1>3 DEF Needing, IsPaperOpen, Coin
  <2>5. /\ Part(Needs, Needing(c), i) = IF Coin(i) = c THEN Locked(i, remaining[i]) ELSE 0
        /\ Part(Needs', Needing(c)', i) = IF Coin(i) = c THEN Locked(i, m) ELSE 0
    BY <1>1, <1>2, <1>4, <2>3, <2>4 DEF Part
  <2>6. Part(Needs, Needing(c), i) \in Nat /\ Part(Needs', Needing(c)', i) \in Nat
    BY <1>2, <2>5
  <2>7. frozen[c] = Total(Needs, Needing(c)) /\ IsFiniteSet(Units(Needs, Needing(c)))
    BY DEF Reserved
  <2>8. /\ IsFiniteSet(Units(Needs', Needing(c)'))
        /\ Total(Needs, Needing(c)) \in Nat
        /\ Total(Needs', Needing(c)') = Total(Needs, Needing(c)) - Part(Needs, Needing(c), i)
                                        + Part(Needs', Needing(c)', i)
    BY <2>1, <2>2, <2>6, <2>7, TotalMoves
  <2>9. frozen'[c] = IF Coin(i) = c THEN frozen[c] + Locked(i, m) - Locked(i, remaining[i])
                     ELSE frozen[c]
    BY <1>2 DEF TypeOK
  <2>10. frozen'[c] = Total(Needs', Needing(c)')
    BY <1>2, <2>5, <2>7, <2>8, <2>9
  <2> QED BY <2>8, <2>10 DEF Reserved, Total, Units
<1> QED BY <1>6
\* An order is placed or canceled: what it needs moves between the available
\* and the frozen part of one balance.
LEMMA FundsMove ==
    ASSUME TypeOK, FundsInv, UNCHANGED <<request, pnl, surplus>>,
           Unapplied = {}, Unapplied' = {},
           NEW i \in Orders, request[i] \in Request, NEW m \in Nat,
           NEW d \in Int, d = Locked(i, m) - Locked(i, remaining[i]),
           remaining' = [remaining EXCEPT ![i] = m],
           avail' = [avail EXCEPT ![Coin(i)] = @ - d],
           frozen' = [frozen EXCEPT ![Coin(i)] = @ + d],
           d <= 0 \/ avail[Coin(i)] >= d
    PROVE  FundsInv'
<1>1. /\ Locked(i, m) \in Nat /\ Locked(i, remaining[i]) \in Nat
      /\ Coin(i) \in Currencies
  BY AmountsAddUp DEF TypeOK
<1>2. /\ avail \in [Currencies -> Int] /\ frozen \in [Currencies -> Int]
      /\ Quote \in Currencies /\ Symbols \subseteq Currencies
  BY DEF TypeOK, Currencies
<1>3. /\ \A c \in Currencies : avail'[c] = IF c = Coin(i) THEN avail[c] - d ELSE avail[c]
      /\ \A c \in Currencies : frozen'[c] = IF c = Coin(i) THEN frozen[c] + d ELSE frozen[c]
  BY <1>2
<1>4. BookTyped'
  BY DEF FundsInv, BookTyped
<1>5. \A c \in Currencies : Reserved(c)'
  <2>1. frozen[Coin(i)] + d = frozen[Coin(i)] + Locked(i, m) - Locked(i, remaining[i])
    BY <1>1, <1>2
  <2>2. frozen' = [frozen EXCEPT ![Coin(i)] = @ + Locked(i, m) - Locked(i, remaining[i])]
    BY <2>1
  <2> QED BY <2>2, ReservedMoves DEF FundsInv
<1>6. Covered'
  <2>1. FeesPaid' = FeesPaid /\ FillFees' = FillFees
    BY DEF FeesPaid, FillFees
  <2>2. \A s \in Symbols : avail'[s] >= 0
    BY <1>2, <1>3 DEF FundsInv, Covered
  <2>3. /\ Total(FeesPaid, Symbols) \in Nat /\ Total(FillFees, Unapplied) \in Nat
        /\ avail[Quote] + Total(FeesPaid, Symbols) + Total(FillFees, Unapplied) >= 0
    BY TotalIsNat DEF FundsInv, Covered
  <2>4. avail'[Quote] + Total(FeesPaid, Symbols) + Total(FillFees, Unapplied) >= 0
    BY <1>2, <1>3, <2>3
  <2> QED BY <2>1, <2>2, <2>4 DEF FundsInv, Covered, Total, Units
<1>7. ASSUME NEW s \in Symbols
      PROVE  Explained(s)'
  <2>1. FillSizes' = FillSizes /\ \A side : Traded(s, side)' = Traded(s, side)
    BY DEF FillSizes, Traded
  <2>2. avail'[s] + frozen'[s] = avail[s] + frozen[s]
    BY <1>2, <1>3
  <2> QED BY <2>1, <2>2 DEF FundsInv, Explained, Total, Units
<1> QED BY <1>4, <1>5, <1>6, <1>7 DEF FundsInv

LEMMA ServeSubmitFunds ==
    ASSUME PInv, FundsInv, NEW i \in Orders, ServeSubmit(i)
    PROVE  FundsInv'
<1>1. /\ work.op = "submit" /\ i \in work.todo
      /\ UNCHANGED <<request, status, pnl, surplus>>
  BY DEF ServeSubmit, records, book
<1>2. Unapplied = {} /\ Unapplied' = {}
  BY <1>1 DEF Unapplied, ServeSubmit, Working
<1>3. TypeOK /\ Waiting(i) /\ Known(i)
  BY <1>1 DEF PInv
<1>4. status[i] = "SUBMITTING" /\ remaining[i] = 0
  BY <1>1, <1>3 DEF Waiting
<1>5. request[i] \in Request
  BY <1>3, <1>4 DEF Known, NoRecord
<1>6. CASE PaperSubmit(i)
  <2>1. request[i].size \in Nat
    BY <1>5, HalfIsPart DEF Request
  <2>2. PICK m \in Nat : m = request[i].size
    BY <2>1
  <2>3. Locked(i, m) \in Nat /\ Locked(i, remaining[i]) = 0
    BY <1>4, <1>5, AmountsAddUp
  <2>4. PICK d \in Int : d = Locked(i, m)
    BY <2>3
  <2>5. /\ remaining' = [remaining EXCEPT ![i] = m]
        /\ avail' = [avail EXCEPT ![Coin(i)] = @ - d]
        /\ frozen' = [frozen EXCEPT ![Coin(i)] = @ + d]
        /\ avail[Coin(i)] >= d
    BY <1>6, <2>2, <2>4 DEF PaperSubmit, Takes
  <2>6. d = Locked(i, m) - Locked(i, remaining[i])
    BY <2>3, <2>4
  <2> QED BY <1>1, <1>2, <1>3, <1>5, <2>5, <2>6, FundsMove
<1>7. CASE UNCHANGED paper
  <2>1. UNCHANGED <<remaining, avail, frozen>>
    BY <1>7 DEF paper
  <2> QED BY <1>1, <1>2, <2>1, FundsStill
<1> QED BY <1>6, <1>7 DEF ServeSubmit

LEMMA ServeCancelFunds ==
    ASSUME PInv, FundsInv, NEW i \in Orders, ServeCancel(i)
    PROVE  FundsInv'
<1>1. /\ work.op \in {"cancel", "shutdown"} /\ i \in work.todo
      /\ UNCHANGED <<request, status, pnl, surplus>>
  BY DEF ServeCancel, records, book
<1>2. Unapplied = {} /\ Unapplied' = {}
  BY <1>1 DEF Unapplied, ServeCancel, Working
<1>3. TypeOK /\ Waiting(i) /\ Known(i)
  BY <1>1 DEF PInv
<1>4. status[i] = "CANCELING" /\ remaining[i] > 0 /\ remaining[i] \in Nat
  BY <1>1, <1>3 DEF Waiting, TypeOK
<1>5. request[i] \in Request
  BY <1>3, <1>4 DEF Known, NoRecord
<1>6. /\ Locked(i, remaining[i]) \in Nat /\ Locked(i, 0) = 0 /\ Coin(i) \in Currencies
  BY <1>4, <1>5, AmountsAddUp
<1>7. PICK d \in Int : d = Locked(i, 0) - Locked(i, remaining[i])
  BY <1>6
<1>8. d <= 0 /\ Locked(i, remaining[i]) = -d
  BY <1>6, <1>7
<1>9. avail[Coin(i)] \in Int /\ frozen[Coin(i)] \in Int
  BY <1>3, <1>6 DEF TypeOK
<1>10. /\ avail[Coin(i)] + Locked(i, remaining[i]) = avail[Coin(i)] - d
       /\ frozen[Coin(i)] - Locked(i, remaining[i]) = frozen[Coin(i)] + d
  BY <1>8, <1>9
<1>11. /\ remaining' = [remaining EXCEPT ![i] = 0]
       /\ avail' = [avail EXCEPT ![Coin(i)] = @ + Locked(i, remaining[i])]
       /\ frozen' = [frozen EXCEPT ![Coin(i)] = @ - Locked(i, remaining[i])]
  BY <1>4 DEF ServeCancel, IsPaperOpen, PaperCancel
<1>12. /\ avail' = [avail EXCEPT ![Coin(i)] = @ - d]
       /\ frozen' = [frozen EXCEPT ![Coin(i)] = @ + d]
  BY <1>10, <1>11
<1> QED BY <1>1, <1>2, <1>3, <1>5, <1>7, <1>8, <1>11, <1>12, FundsMove
\* A fill is settled at the exchange and waits to be applied.
LEMMA ServeFillFunds ==
    ASSUME PInv, FundsInv, NEW i \in Orders, ServeFill(i)
    PROVE  FundsInv'
<1>1. /\ work.op = "match" /\ i \in work.todo /\ PaperFill(i)
      /\ UNCHANGED <<request, status, pnl, surplus>>
  BY DEF ServeFill, records, book
<1>2. TypeOK /\ Known(i) /\ Waiting(i) /\ OneTask
  BY <1>1 DEF PInv
<1>3. remaining[i] \in Nat \ {0} /\ status[i] # NoRecord
  BY <1>1, <1>2 DEF Waiting, Settled, IsPaperOpen, TypeOK, IsOpen, NonTerminal, NoRecord
<1>4. request[i] \in Request /\ request[i].symbol \in Symbols /\ request[i].side \in Sides
  <2>1. request[i] \in Request
    BY <1>2, <1>3 DEF Known
  <2> QED BY <2>1 DEF Request
<1>5. PICK n \in 1..remaining[i] : n = FillSize(i)
  BY <1>3, <1>4, FillIsPart
<1>6. PICK m \in Nat : m = remaining[i] - n
  BY <1>3, <1>5
<1>7. n \in Nat /\ m + n = remaining[i]
  BY <1>3, <1>5, <1>6
<1>8. /\ Fee(i, n) \in Nat /\ Value(i, n) \in Nat /\ Locked(i, n) \in Nat /\ Locked(i, m) \in Nat
      /\ Locked(i, remaining[i]) = Locked(i, m) + Locked(i, n)
      /\ Coin(i) \in Currencies
  BY <1>4, <1>7, AmountsAddUp
<1>9. /\ remaining' = [remaining EXCEPT ![i] = m]
      /\ frozen' = [frozen EXCEPT ![Coin(i)] = @ - Locked(i, n)]
      /\ avail' = [c \in Currencies |-> avail[c] + Received(i, n, c)]
  BY <1>1, <1>5, <1>6 DEF PaperFill
<1>10. /\ avail \in [Currencies -> Int] /\ frozen \in [Currencies -> Int]
       /\ Quote \in Currencies /\ Symbols \subseteq Currencies /\ Quote \notin Symbols
  BY <1>2, CurrencyAssumption DEF TypeOK, Currencies
<1> DEFINE a == [id |-> i, accepted |-> TRUE, status |-> "FILLED", size |-> n]
<1>11. /\ Unapplied = work.answers /\ Unapplied' = Unapplied \cup {a}
       /\ a \notin Unapplied /\ a.id = i /\ a.size = n
  <2>1. /\ work'.op = "match" /\ work'.answers = work.answers \cup {a}
    BY <1>1, <1>5 DEF ServeFill, Working
  <2>2. a.id = i /\ a.size = n
    OBVIOUS
  <2>3. a \notin work.answers
    BY <1>1, <1>2, <2>2 DEF OneTask
  <2> HIDE DEF a
  <2> QED BY <1>1, <2>1, <2>2, <2>3 DEF Unapplied
<1> HIDE DEF a
<1>12. \A b \in Unapplied : FillFees'[b] = FillFees[b] /\ FillSizes'[b] = FillSizes[b]
  BY <1>1, <1>11 DEF FillFees, FillSizes, Fee
<1>13. FillFees'[a] = Fee(i, n) /\ FillSizes'[a] = n
  BY <1>1, <1>11 DEF FillFees, FillSizes, Fee
<1>14. \A c \in Currencies : Reserved(c)'
  <2>1. frozen[Coin(i)] - Locked(i, n) = frozen[Coin(i)] + Locked(i, m) - Locked(i, remaining[i])
    BY <1>8, <1>10
  <2>2. frozen' = [frozen EXCEPT ![Coin(i)] = @ + Locked(i, m) - Locked(i, remaining[i])]
    BY <1>9, <2>1
  <2> QED BY <1>1, <1>2, <1>4, <1>9, <2>2, ReservedMoves DEF FundsInv
<1>15. Covered'
  <2>1. ASSUME NEW s \in Symbols
        PROVE  avail'[s] >= 0
    <3>1. Received(i, n, s) \in Nat
      BY <1>7, <1>10 DEF Received
    <3>2. avail[s] >= 0 /\ avail[s] \in Int /\ avail'[s] = avail[s] + Received(i, n, s)
      BY <1>9, <1>10 DEF FundsInv, Covered
    <3> QED BY <3>1, <3>2
  <2>2. Part(FillFees, Unapplied, a) = 0 /\ Part(FillFees', Unapplied', a) = Fee(i, n)
    BY <1>11, <1>13 DEF Part
  <2>3. Unapplied \ {a} = Unapplied' \ {a}
    BY <1>11
  <2>3a. \A b \in Unapplied \ {a} : FillFees[b] = FillFees'[b]
    BY <1>12
  <2>4. IsFiniteSet(Units(FillFees, Unapplied))
    BY DEF FundsInv, Covered
  <2>5. Part(FillFees, Unapplied, a) \in Nat /\ Part(FillFees', Unapplied', a) \in Nat
    BY <1>8, <2>2
  <2>6. /\ IsFiniteSet(Units(FillFees', Unapplied'))
        /\ Total(FillFees, Unapplied) \in Nat /\ Total(FillFees', Unapplied') \in Nat
        /\ Total(FillFees', Unapplied') = Total(FillFees, Unapplied)
              - Part(FillFees, Unapplied, a) + Part(FillFees', Unapplied', a)
    BY <2>3, <2>3a, <2>4, <2>5, TotalMoves
  <2>7. Total(FillFees', Unapplied') = Total(FillFees, Unapplied) + Fee(i, n)
    BY <1>8, <2>2, <2>6
  <2>8. FeesPaid' = FeesPaid
    BY <1>1 DEF FeesPaid
  <2>9. /\ IsFiniteSet(Units(FeesPaid, Symbols)) /\ Total(FeesPaid, Symbols) \in Nat
        /\ avail[Quote] + Total(FeesPaid, Symbols) + Total(FillFees, Unapplied) >= 0
    BY TotalIsNat DEF FundsInv, Covered
  <2>10. Received(i, n, Quote) = (IF request[i].side = "BUY" THEN 0 ELSE Value(i, n)) - Fee(i, n)
    BY <1>4, <1>10 DEF Received
  <2>11. Received(i, n, Quote) \in Int /\ Received(i, n, Quote) + Fee(i, n) >= 0
    BY <1>8, <2>10
  <2>12. avail'[Quote] = avail[Quote] + Received(i, n, Quote) /\ avail[Quote] \in Int
    BY <1>9, <1>10
  <2>13. avail'[Quote] + Total(FeesPaid, Symbols) + Total(FillFees', Unapplied') >= 0
    BY <1>8, <2>6, <2>7, <2>9, <2>11, <2>12
  <2> QED BY <2>1, <2>6, <2>8, <2>9, <2>13 DEF Covered, Total, Units
<1>16. ASSUME NEW s \in Symbols
       PROVE  Explained(s)'
  <2>1. ASSUME NEW side \in Sides
        PROVE  /\ IsFiniteSet(Units(FillSizes', Traded(s, side)'))
               /\ Total(FillSizes, Traded(s, side)) \in Nat
               /\ Total(FillSizes', Traded(s, side)') = Total(FillSizes, Traded(s, side))
                     + (IF request[i].symbol = s /\ request[i].side = side THEN n ELSE 0)
    <3>1. /\ a \notin Traded(s, side)
          /\ a \in Traded(s, side)' <=> request[i].symbol = s /\ request[i].side = side
          /\ Traded(s, side) \ {a} = Traded(s, side)' \ {a}
          /\ Traded(s, side) \subseteq Unapplied
      BY <1>1, <1>11 DEF Traded
    <3>2. \A b \in Traded(s, side) \ {a} : FillSizes[b] = FillSizes'[b]
      BY <1>12, <3>1
    <3>3. /\ Part(FillSizes, Traded(s, side), a) = 0
          /\ Part(FillSizes', Traded(s, side)', a) =
                IF request[i].symbol = s /\ request[i].side = side THEN n ELSE 0
      BY <1>13, <3>1 DEF Part
    <3>4. /\ Part(FillSizes, Traded(s, side), a) \in Nat
          /\ Part(FillSizes', Traded(s, side)', a) \in Nat
      BY <1>7, <3>3
    <3>5. IsFiniteSet(Units(FillSizes, Traded(s, side)))
      BY DEF FundsInv, Explained
    <3>6. /\ IsFiniteSet(Units(FillSizes', Traded(s, side)'))
          /\ Total(FillSizes, Traded(s, side)) \in Nat
          /\ Total(FillSizes', Traded(s, side)') = Total(FillSizes, Traded(s, side))
                - Part(FillSizes, Traded(s, side), a) + Part(FillSizes', Traded(s, side)', a)
      BY <3>1, <3>2, <3>4, <3>5, TotalMoves
    <3> QED BY <1>7, <3>3, <3>6
  <2> DEFINE bought == Total(FillSizes, Traded(s, "BUY"))
             sold == Total(FillSizes, Traded(s, "SELL"))
             bought1 == Total(FillSizes', Traded(s, "BUY")')
             sold1 == Total(FillSizes', Traded(s, "SELL")')
  <2>2. /\ bought \in Nat /\ sold \in Nat
        /\ bought1 = bought + (IF request[i].symbol = s /\ request[i].side = "BUY" THEN n ELSE 0)
        /\ sold1 = sold + (IF request[i].symbol = s /\ request[i].side = "SELL" THEN n ELSE 0)
    BY <2>1 DEF Sides
  <2>3. /\ avail'[s] = avail[s] + (IF request[i].symbol = s /\ request[i].side = "BUY" THEN n ELSE 0)
        /\ frozen'[s] = frozen[s] - (IF request[i].symbol = s /\ request[i].side = "SELL" THEN n ELSE 0)
    <3>1. Received(i, n, s) = IF request[i].symbol = s /\ request[i].side = "BUY" THEN n ELSE 0
      BY <1>10 DEF Received
    <3>2. frozen'[s] = IF s = Coin(i) THEN frozen[s] - Locked(i, n) ELSE frozen[s]
      BY <1>9, <1>10
    <3>3. /\ s = Coin(i) <=> request[i].symbol = s /\ request[i].side = "SELL"
          /\ s = Coin(i) => Locked(i, n) = n
      BY <1>4, <1>10 DEF Coin, Locked, Sides
    <3> QED BY <1>7, <1>9, <1>10, <3>1, <3>2, <3>3
  <2>4. /\ avail[s] + frozen[s] = StartBase + pnl[s].position - surplus[s].size + bought - sold
        /\ avail[s] \in Int /\ frozen[s] \in Int /\ StartBase \in Int
        /\ pnl[s].position \in Int /\ surplus[s].size \in Int
    BY <1>10, AmountAssumption DEF FundsInv, Explained, BookTyped
  <2> HIDE DEF bought, sold, bought1, sold1
  <2>5. avail'[s] + frozen'[s] = StartBase + pnl[s].position - surplus[s].size + bought1 - sold1
    BY <1>7, <2>2, <2>3, <2>4
  <2> QED BY <1>1, <2>1, <2>5 DEF Explained, Total, Units, bought1, sold1
<1>17. BookTyped'
  BY <1>1 DEF FundsInv, BookTyped
<1> QED BY <1>14, <1>15, <1>16, <1>17 DEF FundsInv
\* What a fill does to position and fees, whatever it does to cost and profit.
LEMMA BookMoves ==
    ASSUME NEW p, DOMAIN p = {"position", "avgCost", "realized", "fees"},
           p.position \in Nat, p.fees \in Nat,
           NEW side, NEW price, NEW n \in Nat, NEW fee \in Nat
    PROVE  /\ DOMAIN ApplyFill(p, side, price, n, fee) = {"position", "avgCost", "realized", "fees"}
           /\ ApplyFill(p, side, price, n, fee).fees = p.fees + fee
           /\ ApplyFill(p, side, price, n, fee).position =
                 IF side = "BUY" THEN p.position + n
                 ELSE p.position - (IF n <= p.position THEN n ELSE p.position)
<1> DEFINE traded == IF side = "BUY" THEN ApplyBuy(p, price, n) ELSE ApplySell(p, price, n)
<1>1. /\ DOMAIN ApplyBuy(p, price, n) = DOMAIN p
      /\ ApplyBuy(p, price, n).fees = p.fees
      /\ ApplyBuy(p, price, n).position = p.position + n
  BY Zenon DEF ApplyBuy
<1>2. /\ DOMAIN ApplySell(p, price, n) = DOMAIN p
      /\ ApplySell(p, price, n).fees = p.fees
      /\ ApplySell(p, price, n).position = p.position - (IF n <= p.position THEN n ELSE p.position)
  BY Zenon DEF ApplySell
<1>3. /\ DOMAIN traded = DOMAIN p /\ traded.fees = p.fees
      /\ traded.position = IF side = "BUY" THEN p.position + n
                           ELSE p.position - (IF n <= p.position THEN n ELSE p.position)
  BY <1>1, <1>2, Zenon
<1>4. ApplyFill(p, side, price, n, fee) = [traded EXCEPT !.fees = @ + fee]
  BY DEF ApplyFill
<1> HIDE DEF traded
<1> QED BY <1>3, <1>4

\* A waiting fill is applied to the records and to the book.
LEMMA ApplyOneFillFunds ==
    ASSUME PInv, FundsInv, NEW a \in work.answers, ApplyOneFill(a)
    PROVE  FundsInv'
<1> DEFINE i == a.id
           n == a.size
           z == request[i].symbol
           beyond == SoldBeyond(i, n)
<1>1. /\ work.op = "match" /\ work.todo = {} /\ work' = After(a)
      /\ UNCHANGED <<request, remaining, avail, frozen>>
  BY DEF ApplyOneFill, paper
<1>2. /\ pnl' = [pnl EXCEPT ![z] = ApplyFill(@, request[i].side, request[i].price * Scale, n, Fee(i, n))]
      /\ surplus' = [surplus EXCEPT ![z] = [size |-> @.size + beyond, cash |-> @.cash + Value(i, beyond)]]
  BY Zenon DEF ApplyOneFill
<1>3. TypeOK /\ Served(a) /\ Known(i) /\ i \in Orders /\ n \in Nat
  BY DEF PInv, TypeOK, WorkType, Answer
<1>4. status[i] # NoRecord
  BY <1>1, <1>3 DEF Served, NoRecord
<1>5. request[i] \in Request /\ z \in Symbols /\ request[i].side \in Sides
  <2>1. request[i] \in Request
    BY <1>3, <1>4 DEF Known
  <2> QED BY <2>1 DEF Request
<1>6. /\ pnl = [s \in Symbols |-> pnl[s]]
      /\ surplus \in [Symbols -> [size : Nat, cash : Nat]]
      /\ \A s \in Symbols : /\ DOMAIN pnl[s] = {"position", "avgCost", "realized", "fees"}
                            /\ pnl[s].position \in Nat /\ pnl[s].fees \in Nat
  BY DEF FundsInv, BookTyped
<1>7. PICK k \in Nat : k = beyond
  <2>1. pnl[z].position \in Nat
    BY <1>5, <1>6
  <2>2. beyond = IF request[i].side = "SELL" /\ n > pnl[z].position THEN n - pnl[z].position ELSE 0
    BY DEF SoldBeyond
  <2> QED BY <1>3, <2>1, <2>2
<1>8. PICK fee \in Nat : fee = Fee(i, n)
  BY <1>3, <1>5, AmountsAddUp
<1>9. Value(i, k) \in Nat
  BY <1>5, AmountsAddUp
<1>10. /\ Unapplied = work.answers /\ Unapplied' = Unapplied \ {a}
  <2>1. CASE work.answers = {a}
    <3>1. work'.answers = {}
      BY <1>1, <2>1 DEF After, Idle, Working
    <3> QED BY <1>1, <2>1, <3>1 DEF Unapplied
  <2>2. CASE work.answers # {a}
    <3>1. work'.op = "match" /\ work'.answers = work.answers \ {a}
      BY <1>1, <2>2 DEF After, Working
    <3> QED BY <1>1, <3>1 DEF Unapplied
  <2> QED BY <2>1, <2>2
<1> DEFINE q == ApplyFill(pnl[z], request[i].side, request[i].price * Scale, n, fee)
<1>11. /\ DOMAIN q = {"position", "avgCost", "realized", "fees"}
       /\ q.fees = pnl[z].fees + fee
       /\ q.position = IF request[i].side = "BUY" THEN pnl[z].position + n
                       ELSE pnl[z].position - (IF n <= pnl[z].position THEN n ELSE pnl[z].position)
  <2>1. PICK p : p = pnl[z]
    OBVIOUS
  <2>2. PICK price : price = request[i].price * Scale
    OBVIOUS
  <2>3. PICK side : side = request[i].side
    OBVIOUS
  <2>4. PICK m \in Nat : m = n
    BY <1>3
  <2>5. /\ DOMAIN p = {"position", "avgCost", "realized", "fees"}
        /\ p.position \in Nat /\ p.fees \in Nat
    BY <1>5, <1>6, <2>1
  <2>6. /\ DOMAIN ApplyFill(p, side, price, m, fee) = {"position", "avgCost", "realized", "fees"}
        /\ ApplyFill(p, side, price, m, fee).fees = p.fees + fee
        /\ ApplyFill(p, side, price, m, fee).position =
              IF side = "BUY" THEN p.position + m
              ELSE p.position - (IF m <= p.position THEN m ELSE p.position)
    BY <2>5, BookMoves
  <2>7. q = ApplyFill(p, side, price, m, fee)
    BY <2>1, <2>2, <2>3, <2>4
  <2> HIDE DEF q
  <2> QED BY <2>1, <2>3, <2>4, <2>6, <2>7
<1>12. pnl' = [pnl EXCEPT ![z] = q]
  BY <1>2, <1>8
<1> HIDE DEF q
<1>13. pnl'[z] = q /\ \A s \in Symbols \ {z} : pnl'[s] = pnl[s]
  BY <1>5, <1>6, <1>12
<1>14. pnl' = [s \in Symbols |-> pnl'[s]]
  BY <1>6, <1>12
<1>15. /\ surplus'[z] = [size |-> surplus[z].size + k, cash |-> surplus[z].cash + Value(i, k)]
       /\ \A s \in Symbols \ {z} : surplus'[s] = surplus[s]
  BY <1>2, <1>5, <1>6, <1>7
<1>16. q.position \in Nat /\ q.fees \in Nat
  BY <1>3, <1>5, <1>6, <1>11
<1>17. BookTyped'
  <2>1. surplus' \in [Symbols -> [size : Nat, cash : Nat]]
    <3>1. surplus[z].size + k \in Nat /\ surplus[z].cash + Value(i, k) \in Nat
      BY <1>5, <1>6, <1>9
    <3>2. [size |-> surplus[z].size + k, cash |-> surplus[z].cash + Value(i, k)] \in [size : Nat, cash : Nat]
      BY <3>1
    <3> QED BY <1>2, <1>5, <1>6, <1>7, <3>2
  <2>2. \A s \in Symbols : /\ DOMAIN pnl'[s] = {"position", "avgCost", "realized", "fees"}
                           /\ pnl'[s].position \in Nat /\ pnl'[s].fees \in Nat
    BY <1>6, <1>11, <1>13, <1>16
  <2> QED BY <1>14, <2>1, <2>2 DEF BookTyped
<1>18. \A c \in Currencies : Reserved(c)'
  <2>1. Needs' = Needs
    BY <1>1 DEF Needs, Locked, Value
  <2>2. \A c \in Currencies : Needing(c)' = Needing(c)
    BY <1>1 DEF Needing, IsPaperOpen, Coin
  <2> QED BY <1>1, <2>1, <2>2 DEF FundsInv, Reserved, Total, Units
<1>19. \A b \in Unapplied \ {a} : FillFees'[b] = FillFees[b] /\ FillSizes'[b] = FillSizes[b]
  BY <1>1, <1>10 DEF FillFees, FillSizes, Fee
<1>20. FillFees[a] = fee /\ FillSizes[a] = n
  BY <1>8, <1>10 DEF FillFees, FillSizes
<1>21. Covered'
  <2>1. Unapplied \ {a} = Unapplied' \ {a}
    BY <1>10
  <2>2. \A b \in Unapplied \ {a} : FillFees[b] = FillFees'[b]
    BY <1>19
  <2>3. Part(FillFees, Unapplied, a) = fee /\ Part(FillFees', Unapplied', a) = 0
    BY <1>10, <1>20 DEF Part
  <2>4. Part(FillFees, Unapplied, a) \in Nat /\ Part(FillFees', Unapplied', a) \in Nat
    BY <2>3
  <2>5. IsFiniteSet(Units(FillFees, Unapplied))
    BY DEF FundsInv, Covered
  <2>6. /\ IsFiniteSet(Units(FillFees', Unapplied'))
        /\ Total(FillFees, Unapplied) \in Nat /\ Total(FillFees', Unapplied') \in Nat
        /\ Total(FillFees', Unapplied') = Total(FillFees, Unapplied)
              - Part(FillFees, Unapplied, a) + Part(FillFees', Unapplied', a)
    BY <2>1, <2>2, <2>4, <2>5, TotalMoves
  <2>7. FeesPaid[z] = pnl[z].fees /\ FeesPaid'[z] = pnl[z].fees + fee
    BY <1>5, <1>11, <1>13 DEF FeesPaid
  <2>8. \A s \in Symbols \ {z} : FeesPaid[s] = FeesPaid'[s]
    BY <1>13 DEF FeesPaid
  <2>9. Part(FeesPaid, Symbols, z) = pnl[z].fees /\ Part(FeesPaid', Symbols, z) = pnl[z].fees + fee
    BY <1>5, <2>7 DEF Part
  <2>10. Part(FeesPaid, Symbols, z) \in Nat /\ Part(FeesPaid', Symbols, z) \in Nat
    BY <1>5, <1>6, <2>9
  <2>11. IsFiniteSet(Units(FeesPaid, Symbols))
    BY DEF FundsInv, Covered
  <2>12. /\ IsFiniteSet(Units(FeesPaid', Symbols))
         /\ Total(FeesPaid, Symbols) \in Nat /\ Total(FeesPaid', Symbols) \in Nat
         /\ Total(FeesPaid', Symbols) = Total(FeesPaid, Symbols)
              - Part(FeesPaid, Symbols, z) + Part(FeesPaid', Symbols, z)
    BY <2>8, <2>10, <2>11, TotalMoves
  <2>13. avail[Quote] + Total(FeesPaid, Symbols) + Total(FillFees, Unapplied) >= 0
    BY DEF FundsInv, Covered
  <2>14. avail[Quote] \in Int /\ pnl[z].fees \in Nat
    BY <1>3, <1>5, <1>6 DEF TypeOK, Currencies
  <2>15. avail[Quote] + Total(FeesPaid', Symbols) + Total(FillFees', Unapplied') >= 0
    BY <2>3, <2>6, <2>9, <2>12, <2>13, <2>14
  <2>16. avail' = avail /\ \A s \in Symbols : avail[s] >= 0
    BY <1>1 DEF FundsInv, Covered
  <2> QED BY <2>6, <2>12, <2>15, <2>16 DEF Covered, Total, Units
<1>22. ASSUME NEW s \in Symbols
       PROVE  Explained(s)'
  <2>1. ASSUME NEW side \in Sides
        PROVE  /\ IsFiniteSet(Units(FillSizes', Traded(s, side)'))
               /\ Total(FillSizes', Traded(s, side)') \in Nat
               /\ Total(FillSizes, Traded(s, side)) = Total(FillSizes', Traded(s, side)')
                     + (IF z = s /\ request[i].side = side THEN n ELSE 0)
    <3>1. /\ a \notin Traded(s, side)'
          /\ a \in Traded(s, side) <=> z = s /\ request[i].side = side
          /\ Traded(s, side) \ {a} = Traded(s, side)' \ {a}
          /\ Traded(s, side) \subseteq Unapplied
      BY <1>1, <1>10 DEF Traded
    <3>2. \A b \in Traded(s, side) \ {a} : FillSizes[b] = FillSizes'[b]
      BY <1>19, <3>1
    <3>3. /\ Part(FillSizes', Traded(s, side)', a) = 0
          /\ Part(FillSizes, Traded(s, side), a) =
                IF z = s /\ request[i].side = side THEN n ELSE 0
      BY <1>20, <3>1 DEF Part
    <3>4. /\ Part(FillSizes, Traded(s, side), a) \in Nat
          /\ Part(FillSizes', Traded(s, side)', a) \in Nat
      BY <1>3, <3>3
    <3>5. IsFiniteSet(Units(FillSizes, Traded(s, side)))
      BY DEF FundsInv, Explained
    <3>6. /\ IsFiniteSet(Units(FillSizes', Traded(s, side)'))
          /\ Total(FillSizes, Traded(s, side)) \in Nat
          /\ Total(FillSizes', Traded(s, side)') \in Nat
          /\ Total(FillSizes', Traded(s, side)') = Total(FillSizes, Traded(s, side))
                - Part(FillSizes, Traded(s, side), a) + Part(FillSizes', Traded(s, side)', a)
      BY <3>1, <3>2, <3>4, <3>5, TotalMoves
    <3> QED BY <1>3, <3>3, <3>6
  <2> DEFINE bought == Total(FillSizes, Traded(s, "BUY"))
             sold == Total(FillSizes, Traded(s, "SELL"))
             bought1 == Total(FillSizes', Traded(s, "BUY")')
             sold1 == Total(FillSizes', Traded(s, "SELL")')
  <2>2. /\ bought1 \in Nat /\ sold1 \in Nat
        /\ bought = bought1 + (IF z = s /\ request[i].side = "BUY" THEN n ELSE 0)
        /\ sold = sold1 + (IF z = s /\ request[i].side = "SELL" THEN n ELSE 0)
    BY <2>1 DEF Sides
  <2>3. /\ avail[s] + frozen[s] = StartBase + pnl[s].position - surplus[s].size + bought - sold
        /\ avail[s] \in Int /\ frozen[s] \in Int /\ StartBase \in Int
        /\ pnl[s].position \in Nat /\ surplus[s].size \in Nat
    BY <1>3, <1>6, AmountAssumption DEF FundsInv, Explained, TypeOK, Currencies
  <2>4. k = IF request[i].side = "SELL" /\ n > pnl[z].position THEN n - pnl[z].position ELSE 0
    BY <1>7 DEF SoldBeyond
  <2>5. pnl'[z].position = pnl[z].position + (IF request[i].side = "BUY" THEN n ELSE 0)
                              - (IF request[i].side = "SELL" THEN n ELSE 0) + k
    BY <1>3, <1>5, <1>6, <1>11, <1>13, <2>4 DEF Sides
  <2>6. surplus'[z].size = surplus[z].size + k
    BY <1>15
  <2> HIDE DEF bought, sold, bought1, sold1
  <2>7. avail[s] + frozen[s] = StartBase + pnl'[s].position - surplus'[s].size + bought1 - sold1
    <3>1. CASE s = z
      <4>1. pnl'[s].position - surplus'[s].size = pnl[s].position - surplus[s].size
                + (IF request[i].side = "BUY" THEN n ELSE 0) - (IF request[i].side = "SELL" THEN n ELSE 0)
        BY <1>3, <2>3, <2>5, <2>6, <3>1
      <4>2. pnl'[s].position \in Int /\ surplus'[s].size \in Int
        BY <1>13, <1>16, <2>3, <2>6, <3>1
      <4>3. CASE request[i].side = "BUY"
        <5>1. /\ bought = bought1 + n /\ sold = sold1
              /\ pnl'[s].position - surplus'[s].size = pnl[s].position - surplus[s].size + n
          BY <1>3, <2>2, <2>3, <3>1, <4>1, <4>3
        <5> QED BY <1>3, <2>2, <2>3, <4>2, <5>1
      <4>4. CASE request[i].side = "SELL"
        <5>1. /\ bought = bought1 /\ sold = sold1 + n
              /\ pnl'[s].position - surplus'[s].size = pnl[s].position - surplus[s].size - n
          BY <1>3, <2>2, <2>3, <3>1, <4>1, <4>4
        <5> QED BY <1>3, <2>2, <2>3, <4>2, <5>1
      <4> QED BY <1>5, <4>3, <4>4 DEF Sides
    <3>2. CASE s # z
      <4>1. pnl'[s] = pnl[s] /\ surplus'[s] = surplus[s] /\ bought1 = bought /\ sold1 = sold
        BY <1>13, <1>15, <2>2, <3>2
      <4> QED BY <2>3, <4>1
    <3> QED BY <3>1, <3>2
  <2> QED BY <1>1, <2>1, <2>7 DEF Explained, Total, Units, bought1, sold1
<1> QED BY <1>17, <1>18, <1>21, <1>22 DEF FundsInv
\* New orders are recorded where there was no order, so no open one is renamed.
LEMMA SubmitBeginFunds ==
    ASSUME PInv, FundsInv, NEW S \in (SUBSET Orders) \ {{}}, NEW req \in [S -> Request],
           SubmitBegin(S, req)
    PROVE  FundsInv'
<1>1. /\ work = Idle /\ \A i \in S : status[i] = NoRecord
      /\ request' = [i \in Orders |-> IF i \in S THEN req[i] ELSE request[i]]
      /\ work' = Working("submit", S, {})
      /\ UNCHANGED <<remaining, avail, frozen, pnl, surplus>>
  BY DEF SubmitBegin, paper, book
<1>2. Unapplied = {} /\ Unapplied' = {}
  BY <1>1 DEF Unapplied, Idle, Working
<1>3. \A i \in Orders : Settled(i)
  BY <1>1, IdleSettles
<1>4. ASSUME NEW i \in Orders, IsPaperOpen(i)
      PROVE  request'[i] = request[i]
  <2>1. status[i] # NoRecord
    BY <1>3, <1>4 DEF Settled, IsOpen, NonTerminal, NoRecord
  <2> QED BY <1>1, <2>1
<1> QED BY <1>1, <1>2, <1>4, FundsStill

\* Every step keeps the funds explained.
LEMMA StepKeepsFunds == PInv /\ FundsInv /\ [Next]_vars => FundsInv'
<1> SUFFICES ASSUME PInv, FundsInv, [Next]_vars PROVE FundsInv'
  OBVIOUS
<1>1. CASE \E i \in Orders : MarkMissing(i)
  <2>1. PICK i \in Orders : MarkMissing(i)
    BY <1>1
  <2>2. /\ UNCHANGED <<request, remaining, avail, frozen, pnl, surplus>>
        /\ work.op = "start" /\ work' = work
    BY <2>1 DEF MarkMissing, paper, book
  <2>3. Unapplied = {} /\ Unapplied' = {}
    BY <2>2 DEF Unapplied
  <2> QED BY <2>2, <2>3, FundsStill
<1>2. CASE StartUp
  <2>1. /\ UNCHANGED <<request, remaining, avail, frozen, pnl, surplus>>
        /\ work.op = "start" /\ work' = Idle
    BY <1>2 DEF StartUp, records, paper, book
  <2>2. Unapplied = {} /\ Unapplied' = {}
    BY <2>1 DEF Unapplied, Idle, Working
  <2> QED BY <2>1, <2>2, FundsStill
<1>3. CASE \E S \in (SUBSET Orders) \ {{}} : \E req \in [S -> Request] : SubmitBegin(S, req)
  BY <1>3, SubmitBeginFunds
<1>4. CASE \E S \in (SUBSET Orders) \ {{}} : \E i \in S, req \in [S -> Request] :
               DieCreating(S, i, req)
  <2>1. NewProcess
    BY <1>4 DEF DieCreating, Die
  <2> QED BY <2>1, FundsFresh
<1>5. CASE \E i \in Orders : ServeSubmit(i)
  BY <1>5, ServeSubmitFunds
<1>6. CASE \E a \in work.answers : ApplySubmitAck(a)
  <2>1. PICK a \in work.answers : ApplySubmitAck(a)
    BY <1>6
  <2>2. /\ UNCHANGED <<request, remaining, avail, frozen, pnl, surplus>>
        /\ work.op = "submit" /\ work' = After(a)
    BY <2>1 DEF ApplySubmitAck, paper, book
  <2>3. Unapplied = {} /\ Unapplied' = {}
    BY <2>2 DEF Unapplied, After, Idle, Working
  <2> QED BY <2>2, <2>3, FundsStill
<1>7. CASE \E S \in SUBSET Orders, op \in {"cancel", "shutdown"} : CancelBegin(S, op)
  <2>1. PICK S \in SUBSET Orders, op \in {"cancel", "shutdown"} : CancelBegin(S, op)
    BY <1>7
  <2>2. UNCHANGED <<request, remaining, avail, frozen, pnl, surplus>> /\ work = Idle
    BY <2>1 DEF CancelBegin, paper, book
  <2>3. \/ work' = Idle
        \/ work' = Working(op, {i \in S : status[i] \in NonTerminal}, {})
    BY <2>1 DEF CancelBegin
  <2>4. Unapplied = {} /\ Unapplied' = {}
    BY <2>2, <2>3 DEF Unapplied, Idle, Working
  <2> QED BY <2>2, <2>4, FundsStill
<1>8. CASE Stop
  BY <1>8, FundsFresh DEF Stop
<1>9. CASE \E done \in SUBSET Orders, i \in Orders : CancelRefused(done, i)
  <2>1. PICK done \in SUBSET Orders, i \in Orders : CancelRefused(done, i)
    BY <1>9
  <2>2. /\ UNCHANGED <<request, remaining, avail, frozen, pnl, surplus>>
        /\ work = Idle /\ work' = work
    BY <2>1 DEF CancelRefused, paper, book
  <2>3. Unapplied = {} /\ Unapplied' = {}
    BY <2>2 DEF Unapplied, Idle, Working
  <2> QED BY <2>2, <2>3, FundsStill
<1>10. CASE \E i \in Orders : ServeCancel(i)
  BY <1>10, ServeCancelFunds
<1>11. CASE \E a \in work.answers : ApplyCancelAck(a)
  <2>1. PICK a \in work.answers : ApplyCancelAck(a)
    BY <1>11
  <2>2. CASE NewProcess
    BY <2>2, FundsFresh
  <2>3. CASE work' = After(a) /\ UNCHANGED <<paper, safe, book>>
    <3>1. /\ UNCHANGED <<request, remaining, avail, frozen, pnl, surplus>>
          /\ work.op \in {"cancel", "shutdown"} /\ work' = After(a)
      BY <2>1, <2>3 DEF ApplyCancelAck, paper, book
    <3>2. Unapplied = {} /\ Unapplied' = {}
      BY <3>1 DEF Unapplied, After, Idle, Working
    <3> QED BY <3>1, <3>2, FundsStill
  <2> QED BY <2>1, <2>2, <2>3 DEF ApplyCancelAck
<1>12. CASE \E s \in Symbols, bid, ask \in Prices : bid < ask /\ Match(s, bid, ask)
  <2>1. PICK s \in Symbols, bid, ask \in Prices : Match(s, bid, ask)
    BY <1>12
  <2>2. /\ UNCHANGED <<request, remaining, avail, frozen, pnl, surplus>>
        /\ work = Idle /\ work'.answers = {}
    BY <2>1 DEF Match, records, paper, book, Working
  <2>3. Unapplied = {} /\ Unapplied' = {}
    BY <2>2 DEF Unapplied, Idle, Working
  <2> QED BY <2>2, <2>3, FundsStill
<1>13. CASE \E i \in Orders : ServeFill(i)
  BY <1>13, ServeFillFunds
<1>14. CASE \E a \in work.answers : ApplyOneFill(a)
  BY <1>14, ApplyOneFillFunds
<1>15. CASE Kill
  BY <1>15, FundsFresh DEF Kill, Die
<1>16. CASE UNCHANGED vars
  <2>1. UNCHANGED <<request, remaining, avail, frozen, work, pnl, surplus>>
    BY <1>16 DEF vars, records, paper, book
  <2>2. /\ Unapplied' = Unapplied /\ FillFees' = FillFees /\ FillSizes' = FillSizes
        /\ FeesPaid' = FeesPaid /\ Needs' = Needs
        /\ \A c \in Currencies : Needing(c)' = Needing(c)
        /\ \A s \in Symbols, side \in Sides : Traded(s, side)' = Traded(s, side)
    BY <2>1 DEF Unapplied, FillFees, FillSizes, FeesPaid, Needs, Needing, Traded, Fee,
                Locked, Value, Coin, IsPaperOpen
  <2>3. BookTyped'
    BY <2>1 DEF FundsInv, BookTyped
  <2>4. \A c \in Currencies : Reserved(c)'
    BY <2>1, <2>2 DEF FundsInv, Reserved, Total, Units
  <2>5. Covered'
    BY <2>1, <2>2 DEF FundsInv, Covered, Total, Units
  <2>6. \A s \in Symbols : Explained(s)'
    BY <2>1, <2>2 DEF FundsInv, Explained, Total, Units, Sides
  <2> QED BY <2>3, <2>4, <2>5, <2>6 DEF FundsInv
<1> QED BY <1>1, <1>2, <1>3, <1>4, <1>5, <1>6, <1>7, <1>8, <1>9, <1>10, <1>11, <1>12,
           <1>13, <1>14, <1>15, <1>16 DEF Next

LEMMA InitFunds == Init => FundsInv
<1> SUFFICES ASSUME Init PROVE FundsInv
  OBVIOUS
<1>1. /\ work = Working("start", {}, {}) /\ pnl = EmptyBook /\ surplus = NoSurplus
      /\ remaining = [i \in Orders |-> 0]
      /\ avail = ConfiguredBalance /\ frozen = [c \in Currencies |-> 0]
  BY DEF Init
<1>2. BookTyped
  BY <1>1 DEF BookTyped, EmptyBook, Empty, NoSurplus
<1>3. ASSUME NEW c \in Currencies
      PROVE  Reserved(c)
  <2>1. Needing(c) = {}
    BY <1>1 DEF Needing, IsPaperOpen
  <2> QED BY <1>1, <2>1, TotalOfNothing DEF Reserved
<1>4. Unapplied = {}
  BY <1>1 DEF Unapplied, Working
<1>5. Covered
  <2>1. \A s \in Symbols : FeesPaid[s] = 0
    BY <1>1 DEF FeesPaid, EmptyBook, Empty
  <2>2. IsFiniteSet(Units(FeesPaid, Symbols)) /\ Total(FeesPaid, Symbols) = 0
    BY <2>1, TotalOfNothing
  <2>3. IsFiniteSet(Units(FillFees, Unapplied)) /\ Total(FillFees, Unapplied) = 0
    BY <1>4, TotalOfNothing
  <2>4. avail[Quote] \in Nat /\ \A s \in Symbols : avail[s] >= 0
    BY <1>1, AmountAssumption DEF ConfiguredBalance, Currencies
  <2> QED BY <2>2, <2>3, <2>4 DEF Covered
<1>6. ASSUME NEW s \in Symbols
      PROVE  Explained(s)
  <2>1. ASSUME NEW side \in Sides
        PROVE  /\ IsFiniteSet(Units(FillSizes, Traded(s, side)))
               /\ Total(FillSizes, Traded(s, side)) = 0
    <3>1. Traded(s, side) = {}
      BY <1>4 DEF Traded
    <3> QED BY <3>1, TotalOfNothing
  <2>2. avail[s] = StartBase /\ frozen[s] = 0 /\ pnl[s].position = 0 /\ surplus[s].size = 0
    BY <1>1, CurrencyAssumption DEF ConfiguredBalance, Currencies, EmptyBook, Empty, NoSurplus
  <2>3. StartBase \in Nat
    BY AmountAssumption
  <2> QED BY <2>1, <2>2, <2>3 DEF Explained, Sides
<1> QED BY <1>2, <1>3, <1>5, <1>6 DEF FundsInv

LEMMA FundsInductive == Spec => []FundsInv
<1>1. PInv /\ PInv' /\ FundsInv /\ [Next]_vars => FundsInv'
  BY StepKeepsFunds
<1> QED BY <1>1, InitFunds, PaperInductive, PTL DEF Spec

\* What PaperExchange has frozen is what its open orders still need, for any
\* orders, fills, cancels, refusals and restarts.
THEOREM FrozenIsAlwaysReserved == Spec => []FrozenIsReserved
<1>1. FundsInv => FrozenIsReserved
  BY DEF FundsInv, Reserved, FrozenIsReserved
<1> QED BY <1>1, FundsInductive, PTL

\* No reservation and no base balance of PaperExchange falls below zero, and the
\* quote balance by no more than the fees of PnlTracker.
THEOREM AlwaysOnlyFeesOverdraw == Spec => []OnlyFeesOverdraw
<1>1. PInv /\ FundsInv => OnlyFeesOverdraw
  <2> SUFFICES ASSUME PInv, FundsInv PROVE OnlyFeesOverdraw
    OBVIOUS
  <2>1. \A c \in Currencies : frozen[c] >= 0
    BY TotalIsNat DEF FundsInv, Reserved
  <2>2. \A s \in Symbols : avail[s] >= 0
    BY DEF FundsInv, Covered
  <2>3. ASSUME work.op # "match"
        PROVE  avail[Quote] + Total(FeesPaid, Symbols) >= 0
    <3>1. Unapplied = {}
      BY <2>3 DEF Unapplied
    <3>2. Total(FillFees, Unapplied) = 0
      BY <3>1, TotalOfNothing
    <3>3. Total(FeesPaid, Symbols) \in Nat /\ avail[Quote] \in Int
      BY TotalIsNat DEF FundsInv, Covered, PInv, TypeOK, Currencies
    <3>4. avail[Quote] + Total(FeesPaid, Symbols) + Total(FillFees, Unapplied) >= 0
      BY DEF FundsInv, Covered
    <3> QED BY <3>2, <3>3, <3>4
  <2> QED BY <2>1, <2>2, <2>3 DEF OnlyFeesOverdraw
<1> QED BY <1>1, PaperInductive, FundsInductive, PTL

\* Once all fills are applied, every base balance of PaperExchange has moved by
\* the position of PnlTracker, apart from what was sold beyond it: the first
\* half of BookMatchesAccount.
THEOREM BaseAlwaysMatches == Spec => [](work.op # "match" => \A s \in Symbols : BaseMatches(s))
<1>1. PInv /\ FundsInv => (work.op # "match" => \A s \in Symbols : BaseMatches(s))
  <2> SUFFICES ASSUME PInv, FundsInv, work.op # "match", NEW s \in Symbols
               PROVE  BaseMatches(s)
    OBVIOUS
  <2>1. Unapplied = {}
    BY DEF Unapplied
  <2>2. Traded(s, "BUY") = {} /\ Traded(s, "SELL") = {}
    BY <2>1 DEF Traded
  <2>3. Total(FillSizes, Traded(s, "BUY")) = 0 /\ Total(FillSizes, Traded(s, "SELL")) = 0
    BY <2>2, TotalOfNothing
  <2>4. /\ pnl[s].position \in Nat /\ surplus[s].size \in Nat /\ StartBase \in Nat
    BY AmountAssumption DEF FundsInv, BookTyped
  <2> QED BY <2>3, <2>4 DEF FundsInv, Explained, BaseMatches
<1> QED BY <1>1, PaperInductive, FundsInductive, PTL

-----------------------------------------------------------------------------
(* Least members.                                                         *)

\* A set of natural numbers that is not empty has a smallest member.
LEMMA NatHasLeast ==
  ASSUME NEW S \in SUBSET Nat, S # {}
  PROVE  \E i \in S : \A j \in S : i <= j
<1> DEFINE Below == {0 .. n : n \in S}
<1>1. Below \subseteq FiniteSubsetsOf(Nat) /\ Below # {}
  <2>1. ASSUME NEW n \in S PROVE IsFiniteSet(0 .. n) /\ 0 .. n \in SUBSET Nat
    BY FS_Interval
  <2>. QED
    BY <2>1 DEF FiniteSubsetsOf
<1>2. PICK x \in Below : \A y \in Below : <<y, x>> \notin StrictSubsetOrdering(Nat)
  <2>1. IsWellFoundedOn(StrictSubsetOrdering(Nat), FiniteSubsetsOf(Nat))
    BY FS_StrictSubsetOrderingWellFounded
  <2>. QED
    BY <1>1, <2>1, WFMin
<1>3. PICK i \in S : x = 0 .. i
  BY <1>2
<1>4. ASSUME NEW j \in S, j < i PROVE FALSE
  <2>1. 0 .. j \subseteq 0 .. i /\ i \in 0 .. i /\ i \notin 0 .. j
    BY <1>4
  <2>2. <<0 .. j, 0 .. i>> \in StrictSubsetOrdering(Nat)
    BY <2>1 DEF StrictSubsetOrdering
  <2>. QED
    BY <1>2, <1>3, <2>2
<1>. QED
  BY <1>4

\* A set of indices has a greatest member.
LEMMA IndexHasGreatest ==
  ASSUME NEW n \in Nat, NEW S \in SUBSET (1 .. n), S # {}
  PROVE  \E i \in S : \A j \in S : j <= i
<1> DEFINE T == {n - i : i \in S}
<1>1. T \in SUBSET Nat /\ T # {}
  <2>1. \A i \in S : i \in 1 .. n /\ n - i \in Nat
    OBVIOUS
  <2>. QED
    BY <2>1
<1>2. PICK k \in T : \A j \in T : k <= j
  BY <1>1, NatHasLeast
<1>3. PICK i \in S : k = n - i
  OBVIOUS
<1>4. ASSUME NEW j \in S PROVE j <= i
  <2>1. n - j \in T
    OBVIOUS
  <2>2. n - i <= n - j
    BY <1>2, <1>3, <2>1
  <2>3. i \in Int /\ j \in Int /\ n \in Int
    OBVIOUS
  <2>. QED
    BY <2>2, <2>3
<1>. QED
  BY <1>4

-----------------------------------------------------------------------------
(* Fractions.                                                              *)

Fraction == [num : Int, den : Nat \ {0}]

\* The value of p is n / d.
Is(p, n, d) == p.num * d = n * p.den

\* A number that g divides is g times its quotient.
LEMMA Exact ==
  ASSUME NEW n \in Int, NEW g \in Nat \ {0}, n % g = 0
  PROVE  n \div g \in Int /\ n = g * (n \div g)
  OBVIOUS

\* Frac divides by the greatest common divisor.
LEMMA FracDivides ==
  ASSUME NEW n \in Int, NEW d \in Nat \ {0}
  PROVE  \E g \in 1 .. d : /\ n % g = 0 /\ d % g = 0
                           /\ \A k \in 1 .. d : n % k = 0 /\ d % k = 0 => k <= g
                           /\ Frac(n, d) = [num |-> n \div g, den |-> d \div g]
<1> DEFINE common == {k \in 1 .. d : n % k = 0 /\ d % k = 0}
<1>1. 1 \in common /\ common \in SUBSET (1 .. d)
  OBVIOUS
<1>2. \E k \in common : \A j \in common : j <= k
  BY <1>1, IndexHasGreatest
<1> DEFINE g == CHOOSE k \in common : \A j \in common : j <= k
<1>3. g \in common /\ \A j \in common : j <= g
  BY <1>2, Zenon
<1>4. Frac(n, d) = [num |-> n \div g, den |-> d \div g]
  BY DEF Frac
<1> HIDE DEF g
<1>. QED
  BY <1>3, <1>4

\* Frac reduces a fraction without changing its value.
LEMMA FracIs ==
  ASSUME NEW n \in Int, NEW d \in Nat \ {0}
  PROVE  Frac(n, d) \in Fraction /\ Is(Frac(n, d), n, d)
<1>1. PICK g \in 1 .. d : /\ n % g = 0 /\ d % g = 0
                          /\ Frac(n, d) = [num |-> n \div g, den |-> d \div g]
  BY FracDivides
<1>2. PICK a \in Int : a = n \div g /\ n = g * a
  BY <1>1, Exact
<1>3. PICK b \in Int : b = d \div g /\ d = g * b
  BY <1>1, Exact
<1>4. b \in Nat \ {0}
  BY <1>3
<1>5. a * d = n * b
  <2>1. a * (g * b) = (g * a) * b
    OBVIOUS
  <2>. QED
    BY <1>2, <1>3, <2>1
<1>. QED
  BY <1>1, <1>2, <1>3, <1>4, <1>5 DEF Fraction, Is

\* A whole value has denominator one.
LEMMA WholeFrac ==
  ASSUME NEW n \in Int, NEW d \in Nat \ {0}
  PROVE  Frac(n * d, d) = [num |-> n, den |-> 1]
<1>1. PICK m \in Int : m = n * d
  OBVIOUS
<1>2. PICK g \in 1 .. d : /\ m % g = 0 /\ d % g = 0
                          /\ \A k \in 1 .. d : m % k = 0 /\ d % k = 0 => k <= g
                          /\ Frac(m, d) = [num |-> m \div g, den |-> d \div g]
  BY FracDivides
<1>3. m % d = 0 /\ d % d = 0 /\ m \div d = n /\ d \div d = 1
  BY <1>1
<1>4. g = d
  BY <1>2, <1>3
<1>. QED
  BY <1>1, <1>2, <1>3, <1>4

\* Factors.
LEMMA Cancel ==
  ASSUME NEW x \in Int, NEW y \in Int, NEW k \in Nat \ {0}, x * k = y * k
  PROVE  x = y
  OBVIOUS

\* The products that the proofs below rearrange.
LEMMA Swap ==
  ASSUME NEW x \in Int, NEW y \in Int, NEW z \in Int
  PROVE  x * y \in Int /\ x * y = y * x /\ (x * y) * z = x * (y * z) /\ (x * y) * z = (x * z) * y
  OBVIOUS

\* A product of positive numbers is positive.
LEMMA Positive ==
  ASSUME NEW x \in Nat \ {0}, NEW y \in Nat \ {0}
  PROVE  x * y \in Nat \ {0}
<1>1. x * y > 0 /\ x * y \in Int
  OBVIOUS
<1>. QED
  BY <1>1

\* The same value over another denominator.
LEMMA FracSame ==
  ASSUME NEW a \in Int, NEW b \in Nat \ {0}, NEW n \in Int, NEW d \in Nat \ {0}, a * d = n * b
  PROVE  Frac(a, b) \in Fraction /\ Is(Frac(a, b), n, d)
<1>1. Frac(a, b) \in Fraction /\ Is(Frac(a, b), a, b)
  BY FracIs
<1>2. PICK x \in Int, y \in Nat \ {0} : Frac(a, b) = [num |-> x, den |-> y]
  BY <1>1 DEF Fraction
<1>3. x * b = a * y
  BY <1>1, <1>2 DEF Is
<1>4. (x * d) * b = (n * y) * b
  <2>1. (x * d) * b = (x * b) * d
    BY Swap
  <2>2. (a * y) * d = (a * d) * y
    BY Swap
  <2>3. (n * b) * y = (n * y) * b
    BY Swap
  <2>. QED
    BY <1>3, <2>1, <2>2, <2>3
<1>5. x * d = n * y
  <2>1. x * d \in Int /\ n * y \in Int
    BY Swap
  <2>. QED
    BY <1>4, <2>1, Cancel
<1>. QED
  BY <1>1, <1>2, <1>5 DEF Is

\* A fraction over a multiple of the denominator.
LEMMA IsScales ==
  ASSUME NEW p \in Fraction, NEW n \in Int, NEW d \in Nat \ {0}, Is(p, n, d), NEW k \in Nat \ {0}
  PROVE  Is(p, n * k, d * k) /\ d * k \in Nat \ {0}
<1>1. PICK x \in Int, y \in Nat \ {0} : p = [num |-> x, den |-> y]
  BY DEF Fraction
<1>2. x * d = n * y
  BY <1>1 DEF Is
<1>3. (x * d) * k = x * (d * k) /\ (n * y) * k = (n * k) * y
  BY Swap
<1>. QED
  BY <1>1, <1>2, <1>3, Positive DEF Is

\* What Plus makes of two fractions over one denominator.
LEMMA PlusTerms ==
  ASSUME NEW p \in Fraction, NEW q \in Fraction, NEW n \in Int, NEW m \in Int, NEW d \in Nat \ {0},
         Is(p, n, d), Is(q, m, d)
  PROVE  \E a \in Int, b \in Nat \ {0} : Plus(p, q) = Frac(a, b) /\ a * d = (n + m) * b
<1>1. PICK x \in Int, y \in Nat \ {0} : p = [num |-> x, den |-> y]
  BY DEF Fraction
<1>2. PICK u \in Int, v \in Nat \ {0} : q = [num |-> u, den |-> v]
  BY DEF Fraction
<1>3. x * d = n * y /\ u * d = m * v
  BY <1>1, <1>2 DEF Is
<1>4. Plus(p, q) = Frac(x * v + u * y, y * v)
  BY <1>1, <1>2 DEF Plus
<1>5. x * v \in Int /\ u * y \in Int /\ y * v \in Nat \ {0}
  BY Swap, Positive
<1>6. (x * v + u * y) * d = (n + m) * (y * v)
  <2>1. (x * v + u * y) * d = (x * v) * d + (u * y) * d
    OBVIOUS
  <2>2. (x * v) * d = (x * d) * v /\ (u * y) * d = (u * d) * y
    BY Swap
  <2>3. (n * y) * v = n * (y * v) /\ (m * v) * y = m * (v * y) /\ v * y = y * v
    BY Swap
  <2>4. n * (y * v) + m * (y * v) = (n + m) * (y * v)
    BY <1>5
  <2>. QED
    BY <1>3, <2>1, <2>2, <2>3, <2>4
<1>. QED
  BY <1>4, <1>5, <1>6

\* The sum of two fractions, over a common denominator.
LEMMA PlusIs ==
  ASSUME NEW p \in Fraction, NEW q \in Fraction, NEW n \in Int, NEW m \in Int, NEW d \in Nat \ {0},
         Is(p, n, d), Is(q, m, d)
  PROVE  Plus(p, q) \in Fraction /\ Is(Plus(p, q), n + m, d)
<1>1. PICK a \in Int, b \in Nat \ {0} : Plus(p, q) = Frac(a, b) /\ a * d = (n + m) * b
  BY PlusTerms
<1>2. n + m \in Int
  OBVIOUS
<1>. QED
  BY <1>1, <1>2, FracSame

\* Two fractions whose sum is whole.
LEMMA PlusWhole ==
  ASSUME NEW p \in Fraction, NEW q \in Fraction, NEW n \in Int, NEW m \in Int, NEW d \in Nat \ {0},
         Is(p, n, d), Is(q, m, d), NEW w \in Int, n + m = w * d
  PROVE  Plus(p, q) = [num |-> w, den |-> 1]
<1>1. PICK a \in Int, b \in Nat \ {0} : Plus(p, q) = Frac(a, b) /\ a * d = (n + m) * b
  BY PlusTerms
<1>2. (w * d) * b = (w * b) * d /\ w * b \in Int
  BY Swap
<1>3. a = w * b
  BY <1>1, <1>2, Cancel
<1>. QED
  BY <1>1, <1>3, WholeFrac

\* A multiple of a fraction.
LEMMA TimesIs ==
  ASSUME NEW p \in Fraction, NEW n \in Int, NEW d \in Nat \ {0}, Is(p, n, d), NEW k \in Int
  PROVE  Times(p, k) \in Fraction /\ Is(Times(p, k), n * k, d)
<1>1. PICK x \in Int, y \in Nat \ {0} : p = [num |-> x, den |-> y]
  BY DEF Fraction
<1>2. x * d = n * y
  BY <1>1 DEF Is
<1>3. (x * k) * d = (x * d) * k /\ (n * y) * k = (n * k) * y /\ x * k \in Int /\ n * k \in Int
  BY Swap
<1>4. Times(p, k) = Frac(x * k, y)
  BY <1>1 DEF Times
<1>5. (x * k) * d = (n * k) * y
  BY <1>2, <1>3
<1>. QED
  BY <1>3, <1>4, <1>5, FracSame

\* A whole number as a fraction.
LEMMA WholeIs ==
  ASSUME NEW n \in Int, NEW d \in Nat \ {0}
  PROVE  /\ Frac(n, 1) = [num |-> n, den |-> 1]
         /\ Frac(n, 1) \in Fraction /\ Is(Frac(n, 1), n * d, d)
<1>1. Frac(n * 1, 1) = [num |-> n, den |-> 1] /\ n * 1 = n
  BY WholeFrac
<1>2. n * d \in Int
  BY Swap
<1>. QED
  BY <1>1, <1>2 DEF Fraction, Is

-----------------------------------------------------------------------------
(* The book of a symbol.                                                   *)

\* The book of a symbol.
Books == [position : Nat, avgCost : Fraction, realized : Fraction, fees : Nat]

\* Profit taken, less what the position cost, is w: both are fractions, over a
\* common denominator d.
Earned(p, w) ==
    \E r, c \in Int, d \in Nat \ {0} :
        Is(p.realized, r, d) /\ Is(p.avgCost, c, d) /\ r - c * p.position = w * d

\* Zero, over any denominator.
LEMMA ZeroIs ==
  ASSUME NEW d \in Nat \ {0}
  PROVE  Zero \in Fraction /\ Is(Zero, 0, d)
  BY DEF Zero, Fraction, Is

\* A new book has earned nothing.
LEMMA EmptyEarned == Empty \in Books /\ Earned(Empty, 0)
<1>1. Zero \in Fraction /\ Is(Zero, 0, 1)
  BY ZeroIs
<1>. QED
  BY <1>1 DEF Empty, Books, Earned

\* What the book says came in is a whole number, although costs and profits
\* are not.
LEMMA NetCashIs ==
  ASSUME NEW p \in Books, NEW w \in Int, Earned(p, w)
  PROVE  NetCash(p) = [num |-> w - p.fees, den |-> 1]
<1>1. PICK r \in Int, c \in Int, d \in Nat \ {0} :
         Is(p.realized, r, d) /\ Is(p.avgCost, c, d) /\ r - c * p.position = w * d
  BY DEF Earned
<1>2. p.realized \in Fraction /\ p.avgCost \in Fraction /\ p.position \in Nat /\ p.fees \in Nat
  BY DEF Books
<1>3. PICK k \in Int, f \in Int : k = p.position /\ f = -p.fees
  BY <1>2
<1>4. PICK cost \in Int : cost = c * k
  BY Swap
<1>5. Times(p.avgCost, k) \in Fraction /\ Is(Times(p.avgCost, k), cost, d)
  BY <1>1, <1>2, <1>4, TimesIs
<1>6. PICK spent \in Fraction : spent = Times(Times(p.avgCost, k), -1) /\ Is(spent, cost * (-1), d)
  <2>1. -1 \in Int
    OBVIOUS
  <2>. QED
    BY <1>5, <2>1, TimesIs
<1>7. PICK made \in Fraction : made = Plus(p.realized, spent) /\ Is(made, r + cost * (-1), d)
  <2>1. cost * (-1) \in Int
    OBVIOUS
  <2>. QED
    BY <1>1, <1>2, <1>6, <2>1, PlusIs
<1>8. r + cost * (-1) = w * d
  BY <1>1, <1>3, <1>4
<1>9. Frac(f, 1) \in Fraction /\ Is(Frac(f, 1), f * d, d)
  BY WholeIs
<1>10. w * d + f * d = (w + f) * d /\ w * d \in Int /\ f * d \in Int /\ w + f \in Int
  BY Swap
<1>11. Plus(made, Frac(f, 1)) = [num |-> w + f, den |-> 1]
  BY <1>7, <1>8, <1>9, <1>10, PlusWhole
<1>12. NetCash(p) = Plus(made, Frac(f, 1))
  BY <1>3, <1>6, <1>7 DEF NetCash
<1>. QED
  BY <1>2, <1>3, <1>11, <1>12

\* A purchase spends its value.
LEMMA BuyEarns ==
  ASSUME NEW p \in Books, NEW w \in Int, Earned(p, w), NEW price \in Int, NEW size \in Nat \ {0}
  PROVE  /\ ApplyBuy(p, price, size) \in Books
         /\ Earned(ApplyBuy(p, price, size), w - price * size)
         /\ ApplyBuy(p, price, size).fees = p.fees
<1>1. PICK r \in Int, c \in Int, d \in Nat \ {0} :
         Is(p.realized, r, d) /\ Is(p.avgCost, c, d) /\ r - c * p.position = w * d
  BY DEF Earned
<1>2. p.realized \in Fraction /\ p.avgCost \in Fraction /\ p.position \in Nat /\ p.fees \in Nat
  BY DEF Books
<1>3. PICK k \in Int : k = p.position
  BY <1>2
<1>4. PICK held \in Nat \ {0} : held = p.position + size
  BY <1>2
<1>5. PICK cost \in Int, value \in Int : cost = c * k /\ value = price * size
  BY Swap
<1>6. Times(p.avgCost, k) \in Fraction /\ Is(Times(p.avgCost, k), cost, d)
  BY <1>1, <1>2, <1>5, TimesIs
<1>7. Frac(value, 1) \in Fraction /\ Is(Frac(value, 1), value * d, d)
  BY WholeIs
<1>8. PICK total \in Int : total = cost + value * d
  BY Swap
<1>9. PICK paid \in Fraction : paid = Plus(Times(p.avgCost, k), Frac(value, 1)) /\ Is(paid, total, d)
  <2>1. value * d \in Int
    BY Swap
  <2>. QED
    BY <1>6, <1>7, <1>8, <2>1, PlusIs
<1>10. PICK x \in Int, y \in Nat \ {0} : paid = [num |-> x, den |-> y]
  BY DEF Fraction
<1>11. x * d = total * y
  BY <1>9, <1>10 DEF Is
<1>12. PICK over \in Nat \ {0} : over = d * held
  BY Positive
<1>13. Frac(x, y * held) \in Fraction /\ Is(Frac(x, y * held), total, over)
  <2>1. x * (d * held) = (x * d) * held /\ (total * y) * held = total * (y * held)
    BY Swap
  <2>2. x * over = total * (y * held) /\ y * held \in Nat \ {0}
    BY <1>11, <1>12, <2>1, Positive
  <2>. QED
    BY <2>2, FracSame
<1>14. Is(p.realized, r * held, over) /\ r * held \in Int
  BY <1>1, <1>2, <1>12, IsScales, Swap
<1>15. r * held - total * held = (w - value) * over
  <2>1. r - total = (w - value) * d
    <3>1. (w - value) * d = w * d - value * d
      OBVIOUS
    <3>2. r - cost = w * d /\ w * d \in Int /\ value * d \in Int
      BY <1>1, <1>3, <1>5, Swap
    <3>. QED
      BY <1>8, <3>1, <3>2
  <2>2. r * held - total * held = (r - total) * held
    OBVIOUS
  <2>3. PICK v \in Int : v = w - value
    OBVIOUS
  <2>4. (v * d) * held = v * (d * held)
    BY Swap
  <2>. QED
    BY <1>12, <2>1, <2>2, <2>3, <2>4
<1>16. ApplyBuy(p, price, size) = [p EXCEPT !.avgCost = Frac(x, y * held), !.position = held]
  <2>1. paid = Plus(Times(p.avgCost, p.position), Frac(price * size, 1))
    BY <1>3, <1>5, <1>9
  <2>2. paid.num = x /\ paid.den = y
    BY <1>10
  <2>3. ApplyBuy(p, price, size) = [p EXCEPT !.avgCost = Frac(paid.num, paid.den * held), !.position = held]
    BY <1>4, <2>1, Zenon DEF ApplyBuy
  <2>. QED
    BY <2>2, <2>3, Zenon
<1> DEFINE q == ApplyBuy(p, price, size)
<1>17. /\ q \in Books /\ q.fees = p.fees /\ q.realized = p.realized
       /\ q.avgCost = Frac(x, y * held) /\ q.position = held
  BY <1>2, <1>4, <1>13, <1>16 DEF Books
<1> HIDE DEF q
<1>18. Is(q.realized, r * held, over) /\ Is(q.avgCost, total, over)
       /\ r * held - total * q.position = (w - value) * over
  BY <1>13, <1>14, <1>15, <1>17
<1>19. Earned(q, w - value)
  BY <1>14, <1>18 DEF Earned
<1>. QED
  BY <1>5, <1>17, <1>19 DEF q

\* A sale brings in the value of the part the book held.
LEMMA SellEarns ==
  ASSUME NEW p \in Books, NEW w \in Int, Earned(p, w), NEW price \in Int, NEW size \in Nat,
         NEW closed \in Nat, closed = IF size <= p.position THEN size ELSE p.position
  PROVE  /\ ApplySell(p, price, size) \in Books
         /\ Earned(ApplySell(p, price, size), w + price * closed)
         /\ ApplySell(p, price, size).fees = p.fees
<1>1. PICK r \in Int, c \in Int, d \in Nat \ {0} :
         Is(p.realized, r, d) /\ Is(p.avgCost, c, d) /\ r - c * p.position = w * d
  BY DEF Earned
<1>2. p.realized \in Fraction /\ p.avgCost \in Fraction /\ p.position \in Nat /\ p.fees \in Nat
  BY DEF Books
<1>3. PICK left \in Nat : left = p.position - closed
  BY <1>2
<1>4. PICK base \in Fraction : base = Times(p.avgCost, -1) /\ Is(base, c * (-1), d)
  <2>1. -1 \in Int
    OBVIOUS
  <2>. QED
    BY <1>1, <1>2, <2>1, TimesIs
<1>5. PICK each \in Int : each = price * d + c * (-1)
  BY Swap
<1>6. PICK gain \in Fraction : gain = Plus(Frac(price, 1), base) /\ Is(gain, each, d)
  <2>1. Frac(price, 1) \in Fraction /\ Is(Frac(price, 1), price * d, d)
    BY WholeIs
  <2>2. price * d \in Int /\ c * (-1) \in Int
    BY Swap
  <2>. QED
    BY <1>4, <1>5, <2>1, <2>2, PlusIs
<1>7. PICK profit \in Fraction : profit = Times(gain, closed) /\ Is(profit, each * closed, d)
  <2>1. closed \in Int
    OBVIOUS
  <2>. QED
    BY <1>6, <2>1, TimesIs
<1>8. PICK part \in Int, r1 \in Int : part = each * closed /\ r1 = r + part
  BY Swap
<1>9. Plus(p.realized, profit) \in Fraction /\ Is(Plus(p.realized, profit), r1, d)
  BY <1>1, <1>2, <1>7, <1>8, PlusIs
<1>10. r1 - c * left = (w + price * closed) * d
  <2>1. part = (price * d) * closed + (c * (-1)) * closed
    <3>1. (price * d + c * (-1)) * closed = (price * d) * closed + (c * (-1)) * closed
      OBVIOUS
    <3>. QED
      BY <1>5, <1>8, <3>1
  <2>2. (price * d) * closed = (price * closed) * d
    BY Swap
  <2>3. (c * (-1)) * closed = -(c * closed)
    OBVIOUS
  <2>4. c * p.position = c * left + c * closed
    <3>1. p.position = left + closed
      BY <1>2, <1>3
    <3>2. c * (left + closed) = c * left + c * closed
      OBVIOUS
    <3>. QED
      BY <3>1, <3>2
  <2>5. PICK e1 \in Int, e2 \in Int, e3 \in Int, e4 \in Int :
           e1 = c * left /\ e2 = c * closed /\ e3 = w * d /\ e4 = price * closed
    BY Swap
  <2>6. PICK e5 \in Int : e5 = e4 * d
    BY Swap
  <2>7. (w + e4) * d = w * d + e4 * d
    OBVIOUS
  <2>8. part = e5 - e2
    BY <2>1, <2>2, <2>3, <2>5, <2>6
  <2>9. r - (e1 + e2) = e3
    BY <1>1, <2>4, <2>5
  <2>10. r1 - e1 = e3 + e5
    BY <1>8, <2>8, <2>9
  <2>. QED
    BY <2>5, <2>6, <2>7, <2>10
<1> DEFINE q == ApplySell(p, price, size)
<1>11. q = [p EXCEPT !.realized = Plus(p.realized, profit), !.position = left,
                     !.avgCost = IF p.position = closed THEN Zero ELSE p.avgCost]
  BY <1>3, <1>4, <1>6, <1>7, Zenon DEF ApplySell
<1>12. /\ q \in Books /\ q.fees = p.fees /\ q.realized = Plus(p.realized, profit) /\ q.position = left
       /\ q.avgCost = IF left = 0 THEN Zero ELSE p.avgCost
  <2> HIDE DEF q
  <2>1. PICK avg \in Fraction : avg = IF p.position = closed THEN Zero ELSE p.avgCost
    BY <1>2, ZeroIs
  <2>2. PICK made \in Fraction : made = Plus(p.realized, profit)
    BY <1>9
  <2>3. q = [p EXCEPT !.realized = made, !.position = left, !.avgCost = avg]
    BY <1>11, <2>1, <2>2
  <2>4. q \in Books /\ q.fees = p.fees /\ q.realized = made /\ q.position = left /\ q.avgCost = avg
    BY <2>3 DEF Books
  <2>5. p.position = closed <=> left = 0
    BY <1>2, <1>3
  <2>. QED
    BY <2>1, <2>2, <2>4, <2>5
<1> HIDE DEF q
<1>13. \E c1 \in Int : Is(q.avgCost, c1, d) /\ r1 - c1 * left = (w + price * closed) * d
  <2>1. CASE left = 0
    <3>1. Is(q.avgCost, 0, d) /\ c * left = 0 /\ 0 * left = 0
      BY <1>12, <2>1, ZeroIs
    <3>. QED
      BY <1>10, <3>1
  <2>2. CASE left # 0
    BY <1>1, <1>10, <1>12, <2>2
  <2>. QED
    BY <2>1, <2>2
<1>14. Earned(q, w + price * closed)
  BY <1>9, <1>12, <1>13 DEF Earned
<1>. QED
  BY <1>12, <1>14 DEF q

\* What a fill of a request does to the book, and what is sold beyond it.
LEMMA FillEarns ==
  ASSUME NEW p \in Books, NEW w \in Int, Earned(p, w), NEW price \in Int, NEW size \in Nat \ {0},
         NEW side, NEW fee \in Nat, NEW closed \in Nat,
         closed = IF size <= p.position THEN size ELSE p.position
  PROVE  /\ ApplyFill(p, side, price, size, fee) \in Books
         /\ ApplyFill(p, side, price, size, fee).fees = p.fees + fee
         /\ Earned(ApplyFill(p, side, price, size, fee),
                   IF side = "BUY" THEN w - price * size ELSE w + price * closed)
<1> DEFINE v == IF side = "BUY" THEN w - price * size ELSE w + price * closed
           q == IF side = "BUY" THEN ApplyBuy(p, price, size) ELSE ApplySell(p, price, size)
           z == ApplyFill(p, side, price, size, fee)
<1>1. q \in Books /\ Earned(q, v) /\ q.fees = p.fees
  <2>1. CASE side = "BUY"
    BY <2>1, BuyEarns
  <2>2. CASE side # "BUY"
    <3>1. size \in Nat
      OBVIOUS
    <3>. QED
      BY <2>2, <3>1, SellEarns
  <2>. QED
    BY <2>1, <2>2
<1>2. z = [q EXCEPT !.fees = @ + fee]
  BY DEF ApplyFill
<1> HIDE DEF q, z
<1>3. p.fees \in Nat
  BY DEF Books
<1>4. /\ z \in Books /\ z.fees = p.fees + fee
      /\ z.realized = q.realized /\ z.avgCost = q.avgCost /\ z.position = q.position
  BY <1>1, <1>2, <1>3 DEF Books
<1>5. Earned(z, v)
  BY <1>1, <1>4, Zenon DEF Earned
<1>. QED
  BY <1>4, <1>5 DEF z
-----------------------------------------------------------------------------
(* Sums over the symbols.                                                  *)

\* Numbers above zero and below it are summed apart.
Ups(w) == [s \in Symbols |-> IF w[s] > 0 THEN w[s] ELSE 0]
Downs(w) == [s \in Symbols |-> IF w[s] < 0 THEN -w[s] ELSE 0]
Net(w, S) == Total(Ups(w), S) - Total(Downs(w), S)

\* Amounts of finitely many symbols have a total.
LEMMA TotalFinite ==
  ASSUME NEW f, NEW S \in SUBSET Symbols, \A s \in S : f[s] \in Nat
  PROVE  IsFiniteSet(Units(f, S)) /\ Total(f, S) \in Nat
<1> DEFINE one == [s \in S |-> {s} \X (1..f[s])]
           ones == {one[s] : s \in S}
<1>1. IsFiniteSet(S)
  BY CurrencyAssumption, FS_Subset
<1>2. IsFiniteSet(ones)
  <2>1. one \in Surjection(S, ones)
    BY DEF Surjection
  <2>. QED
    BY <1>1, <2>1, FS_Surjection
<1>3. ASSUME NEW s \in S PROVE IsFiniteSet(one[s])
  <2>1. PICK n \in Nat : n = f[s]
    OBVIOUS
  <2>2. one[s] = {s} \X (1..n)
    BY <2>1
  <2>. QED
    BY <2>2, UnitsOfOne
<1>4. Units(f, S) = UNION ones
  BY DEF Units
<1>. QED
  BY <1>2, <1>3, <1>4, FS_UNION, TotalIsNat

\* One more number.
LEMMA NetAdds ==
  ASSUME NEW w \in [Symbols -> Int], NEW S \in SUBSET Symbols, NEW x \in S
  PROVE  Net(w, S) \in Int /\ Net(w, S \ {x}) \in Int /\ Net(w, S) = Net(w, S \ {x}) + w[x]
<1>1. \A s \in Symbols : Ups(w)[s] \in Nat /\ Downs(w)[s] \in Nat /\ Ups(w)[s] - Downs(w)[s] = w[s]
  BY DEF Ups, Downs
<1>2. IsFiniteSet(Units(Ups(w), S)) /\ IsFiniteSet(Units(Downs(w), S))
  BY <1>1, TotalFinite
<1>3. Part(Ups(w), S, x) = Ups(w)[x] /\ Part(Downs(w), S, x) = Downs(w)[x]
  BY DEF Part
<1>4. /\ Total(Ups(w), S) = Total(Ups(w), S \ {x}) + Ups(w)[x]
      /\ Total(Downs(w), S) = Total(Downs(w), S \ {x}) + Downs(w)[x]
  BY <1>1, <1>2, <1>3, TotalApart
<1>5. Total(Ups(w), S \ {x}) \in Nat /\ Total(Downs(w), S \ {x}) \in Nat
  BY <1>1, TotalFinite
<1>. QED
  BY <1>1, <1>4, <1>5 DEF Net

\* A net sum over no symbol.
LEMMA NetOfNothing == ASSUME NEW w PROVE Net(w, {}) = 0
  BY TotalOfNothing DEF Net

\* What SumOf takes from the rest of a set.
SumStep(f, g, S) ==
    IF S = {} THEN Zero ELSE LET x == CHOOSE s \in S : TRUE IN Plus(f[x], g[S \ {x}])

\* The fold of SumOf is a recursive function on the subsets of Symbols.
LEMMA SumUnfolds ==
  ASSUME NEW f
  PROVE  SumOf(f) = (CHOOSE g : g = [S \in SUBSET Symbols |-> SumStep(f, g, S)])[Symbols]
  BY DEF SumOf, MapThenFoldSet, SumStep

\* A whole number as a fraction.
Whole(n) == [num |-> n, den |-> 1]

\* Whole numbers add up as numbers do.
LEMMA PlusWholes ==
  ASSUME NEW n \in Int, NEW m \in Int
  PROVE  Plus(Whole(n), Whole(m)) = Whole(n + m) /\ Frac(n, 1) = Whole(n)
<1>1. Frac(n, 1) = Whole(n) /\ Frac(n, 1) \in Fraction /\ Is(Frac(n, 1), n * 1, 1)
  BY WholeIs DEF Whole
<1>2. Frac(m, 1) = Whole(m) /\ Frac(m, 1) \in Fraction /\ Is(Frac(m, 1), m * 1, 1)
  BY WholeIs DEF Whole
<1>3. PICK k \in Int : k = n + m
  OBVIOUS
<1>4. n * 1 \in Int /\ m * 1 \in Int /\ n * 1 + m * 1 = k * 1
  BY <1>3
<1>5. Plus(Frac(n, 1), Frac(m, 1)) = [num |-> k, den |-> 1]
  BY <1>1, <1>2, <1>4, PlusWhole
<1>. QED
  BY <1>1, <1>2, <1>3, <1>5 DEF Whole

\* The sum of whole numbers is the one counted unit by unit, whichever member
\* is taken next.
LEMMA SumIsNet ==
  ASSUME NEW w \in [Symbols -> Int], NEW f, \A s \in Symbols : f[s] = Whole(w[s])
  PROVE  SumOf(f) = Whole(Net(w, Symbols))
<1> DEFINE Sums(g) == g = [S \in SUBSET Symbols |-> SumStep(f, g, S)]
           known == [S \in SUBSET Symbols |-> Whole(Net(w, S))]
           sum == CHOOSE g : Sums(g)
<1>1. ASSUME NEW S \in SUBSET Symbols, S # {}, NEW g, NEW x \in S, x = CHOOSE s \in S : TRUE,
             g[S \ {x}] = Whole(Net(w, S \ {x}))
      PROVE  SumStep(f, g, S) = Whole(Net(w, S))
  <2>1. PICK n \in Int, m \in Int : n = w[x] /\ m = Net(w, S \ {x}) /\ Net(w, S) = m + n
    BY NetAdds
  <2>2. SumStep(f, g, S) = Plus(f[x], g[S \ {x}])
    BY <1>1, Zenon DEF SumStep
  <2>3. f[x] = Whole(n) /\ g[S \ {x}] = Whole(m)
    BY <1>1, <2>1
  <2>4. n + m = m + n
    OBVIOUS
  <2>. QED
    BY <2>1, <2>2, <2>3, <2>4, PlusWholes
<1>2. ASSUME NEW g PROVE SumStep(f, g, {}) = Whole(Net(w, {}))
  BY NetOfNothing DEF SumStep, Whole, Zero
<1>3. ASSUME NEW S \in SUBSET Symbols, S # {}
      PROVE  (CHOOSE s \in S : TRUE) \in S
  BY <1>3
<1>4. Sums(known)
  <2>1. ASSUME NEW S \in SUBSET Symbols PROVE SumStep(f, known, S) = Whole(Net(w, S))
    <3>1. CASE S = {}
      BY <1>2, <3>1
    <3>2. CASE S # {}
      <4>1. PICK x \in S : x = CHOOSE s \in S : TRUE
        BY <1>3, <3>2
      <4>2. known[S \ {x}] = Whole(Net(w, S \ {x}))
        OBVIOUS
      <4>. QED
        BY <1>1, <3>2, <4>1, <4>2
    <3>. QED
      BY <3>1, <3>2
  <2>. QED
    BY <2>1
<1>5. Sums(sum)
  <2> HIDE DEF Sums, known
  <2>. QED
    BY <1>4, Zenon
<1> HIDE DEF sum, known
<1>6. \A S \in SUBSET Symbols : sum[S] = Whole(Net(w, S))
  <2> DEFINE Wrong == {S \in SUBSET Symbols : sum[S] # Whole(Net(w, S))}
  <2> SUFFICES ASSUME Wrong # {} PROVE FALSE
    OBVIOUS
  <2>1. Wrong \subseteq FiniteSubsetsOf(Symbols)
    BY CurrencyAssumption, FS_Subset DEF FiniteSubsetsOf
  <2>2. PICK S \in Wrong : \A T \in Wrong : <<T, S>> \notin StrictSubsetOrdering(Symbols)
    BY <2>1, FS_StrictSubsetOrderingWellFounded, WFMin
  <2>3. sum[S] = SumStep(f, sum, S)
    BY <1>5
  <2>4. S # {}
    BY <1>2, <2>2, <2>3
  <2>5. PICK x \in S : x = CHOOSE s \in S : TRUE
    BY <1>3, <2>4
  <2>6. S \ {x} \notin Wrong
    <3>1. <<S \ {x}, S>> \in StrictSubsetOrdering(Symbols)
      BY DEF StrictSubsetOrdering
    <3>. QED
      BY <2>2, <3>1
  <2>7. sum[S \ {x}] = Whole(Net(w, S \ {x}))
    BY <2>6
  <2>8. sum[S] = Whole(Net(w, S))
    BY <1>1, <2>3, <2>4, <2>5, <2>7
  <2>. QED
    BY <2>8
<1>7. SumOf(f) = sum[Symbols]
  BY SumUnfolds DEF sum
<1>. QED
  BY <1>6, <1>7

\* A sum moves with one of its numbers.
LEMMA NetMoves ==
  ASSUME NEW w \in [Symbols -> Int], NEW v \in [Symbols -> Int], NEW x \in Symbols,
         \A s \in Symbols \ {x} : w[s] = v[s]
  PROVE  Net(w, Symbols) \in Int /\ Net(v, Symbols) = Net(w, Symbols) - w[x] + v[x]
<1>1. Net(w, Symbols \ {x}) = Net(v, Symbols \ {x})
  <2>1. \A s \in Symbols \ {x} : Ups(w)[s] = Ups(v)[s] /\ Downs(w)[s] = Downs(v)[s]
    BY DEF Ups, Downs
  <2>. QED
    BY <2>1, TotalStays DEF Net
<1>2. /\ Net(w, Symbols) \in Int /\ Net(w, Symbols \ {x}) \in Int
      /\ Net(w, Symbols) = Net(w, Symbols \ {x}) + w[x]
  BY NetAdds
<1>3. Net(v, Symbols) = Net(v, Symbols \ {x}) + v[x]
  BY NetAdds
<1>4. w[x] \in Int /\ v[x] \in Int
  OBVIOUS
<1>. QED
  BY <1>1, <1>2, <1>3, <1>4

\* A net sum of zeros.
LEMMA NetOfZeros ==
  ASSUME NEW w, \A s \in Symbols : w[s] = 0
  PROVE  Net(w, Symbols) = 0
<1>1. \A s \in Symbols : Ups(w)[s] = 0 /\ Downs(w)[s] = 0
  BY DEF Ups, Downs
<1>2. Total(Ups(w), Symbols) = 0 /\ Total(Downs(w), Symbols) = 0
  BY <1>1, TotalOfNothing
<1>. QED
  BY <1>2 DEF Net

-----------------------------------------------------------------------------
(* Cash.  The quote balance moved by what the books account for and by the   *)
(* fills that wait to be applied, with their fees.                           *)

\* What each waiting fill is worth, and the waiting fills of a side.
FillValues == [a \in Unapplied |-> Value(a.id, a.size)]
Dealt(side) == {a \in Unapplied : request[a.id].side = side}

\* w is the cash each symbol accounts for.
Booked(w) ==
    \A s \in Symbols : \E e \in Int : Earned(pnl[s], e) /\ w[s] = e - pnl[s].fees + surplus[s].cash

CashInv ==
    /\ pnl \in [Symbols -> Books]
    /\ surplus \in [Symbols -> [size : Nat, cash : Nat]]
    /\ \A side \in Sides : IsFiniteSet(Units(FillValues, Dealt(side)))
    /\ IsFiniteSet(Units(FillFees, Unapplied))
    /\ \E w \in [Symbols -> Int] :
          /\ Booked(w)
          /\ avail[Quote] + frozen[Quote] = StartQuote + Net(w, Symbols)
                 + Total(FillValues, Dealt("SELL")) - Total(FillValues, Dealt("BUY"))
                 - Total(FillFees, Unapplied)

\* Nothing waits to be applied.
LEMMA NothingWaits ==
    ASSUME Unapplied = {}
    PROVE  /\ \A side : Dealt(side) = {}
           /\ \A side : IsFiniteSet(Units(FillValues, Dealt(side))) /\ Total(FillValues, Dealt(side)) = 0
           /\ IsFiniteSet(Units(FillFees, Unapplied)) /\ Total(FillFees, Unapplied) = 0
<1>1. \A side : Dealt(side) = {}
  BY DEF Dealt
<1>2. ASSUME NEW side
      PROVE  IsFiniteSet(Units(FillValues, Dealt(side))) /\ Total(FillValues, Dealt(side)) = 0
  BY <1>1, TotalOfNothing
<1> QED BY <1>1, <1>2, TotalOfNothing

\* A book in which nothing was written.
LEMMA NothingBooked ==
    ASSUME pnl = EmptyBook, surplus = NoSurplus, Unapplied = {}, avail = ConfiguredBalance,
           frozen = [c \in Currencies |-> 0]
    PROVE  CashInv
<1> DEFINE w == [s \in Symbols |-> 0]
<1>1. w \in [Symbols -> Int] /\ Net(w, Symbols) = 0
  BY NetOfZeros
<1>2. \A s \in Symbols : pnl[s] = Empty /\ surplus[s] = [size |-> 0, cash |-> 0]
  BY DEF EmptyBook, NoSurplus
<1>3. pnl \in [Symbols -> Books] /\ surplus \in [Symbols -> [size : Nat, cash : Nat]]
  BY EmptyEarned DEF EmptyBook, NoSurplus
<1>4. Booked(w)
  <2>1. ASSUME NEW s \in Symbols
        PROVE  Earned(pnl[s], 0) /\ w[s] = 0 - pnl[s].fees + surplus[s].cash
    BY <1>2, EmptyEarned DEF Empty
  <2> QED BY <2>1 DEF Booked
<1>5. avail[Quote] = StartQuote /\ frozen[Quote] = 0 /\ StartQuote \in Nat
  BY AmountAssumption DEF ConfiguredBalance, Currencies
<1> HIDE DEF w
<1>6. /\ \A side \in Sides : IsFiniteSet(Units(FillValues, Dealt(side)))
      /\ IsFiniteSet(Units(FillFees, Unapplied))
      /\ Total(FillValues, Dealt("SELL")) = 0 /\ Total(FillValues, Dealt("BUY")) = 0
      /\ Total(FillFees, Unapplied) = 0
  BY NothingWaits
<1>7. avail[Quote] + frozen[Quote] = StartQuote + Net(w, Symbols)
         + Total(FillValues, Dealt("SELL")) - Total(FillValues, Dealt("BUY")) - Total(FillFees, Unapplied)
  BY <1>1, <1>5, <1>6
<1> QED BY <1>1, <1>3, <1>4, <1>6, <1>7 DEF CashInv

\* A new process starts with the configured balance and an empty book.
LEMMA CashFresh ==
    ASSUME NewProcess
    PROVE  CashInv'
<1>1. /\ pnl' = EmptyBook /\ surplus' = NoSurplus /\ avail' = ConfiguredBalance
      /\ frozen' = [c \in Currencies |-> 0]
  BY DEF NewProcess, PaperFresh
<1>2. Unapplied' = {}
  BY DEF NewProcess, Unapplied, Working
<1>3. (/\ pnl = EmptyBook /\ surplus = NoSurplus /\ Unapplied = {} /\ avail = ConfiguredBalance
       /\ frozen = [c \in Currencies |-> 0])'
  BY <1>1, <1>2 DEF EmptyBook, NoSurplus, ConfiguredBalance
<1>4. (pnl = EmptyBook /\ surplus = NoSurplus /\ Unapplied = {} /\ avail = ConfiguredBalance
       /\ frozen = [c \in Currencies |-> 0] => CashInv)'
  BY NothingBooked, PTL
<1> QED BY <1>3, <1>4

\* Outside a match, cash only moves between available and frozen.
LEMMA CashStill ==
    ASSUME CashInv, UNCHANGED <<pnl, surplus>>, Unapplied = {}, Unapplied' = {},
           avail'[Quote] + frozen'[Quote] = avail[Quote] + frozen[Quote]
    PROVE  CashInv'
<1>1. PICK w \in [Symbols -> Int] :
          /\ Booked(w)
          /\ avail[Quote] + frozen[Quote] = StartQuote + Net(w, Symbols)
                 + Total(FillValues, Dealt("SELL")) - Total(FillValues, Dealt("BUY"))
                 - Total(FillFees, Unapplied)
  BY DEF CashInv
<1>2. Booked(w)'
  BY <1>1 DEF Booked, Earned
<1>3. FillValues' = FillValues /\ FillFees' = FillFees /\ \A side : Dealt(side)' = Dealt(side)
  BY DEF FillValues, FillFees, Dealt
<1>4. /\ (\A side \in Sides : IsFiniteSet(Units(FillValues, Dealt(side))))'
      /\ IsFiniteSet(Units(FillFees, Unapplied))'
  BY <1>3 DEF CashInv, Units
<1>5. /\ Total(FillValues, Dealt("SELL"))' = Total(FillValues, Dealt("SELL"))
      /\ Total(FillValues, Dealt("BUY"))' = Total(FillValues, Dealt("BUY"))
      /\ Total(FillFees, Unapplied)' = Total(FillFees, Unapplied)
  BY <1>3 DEF Total, Units
<1>6. pnl' \in [Symbols -> Books] /\ surplus' \in [Symbols -> [size : Nat, cash : Nat]]
  BY DEF CashInv
<1>7. avail'[Quote] + frozen'[Quote] = StartQuote + Net(w, Symbols)
         + Total(FillValues, Dealt("SELL"))' - Total(FillValues, Dealt("BUY"))'
         - Total(FillFees, Unapplied)'
  BY <1>1, <1>5
<1> QED BY <1>2, <1>4, <1>6, <1>7 DEF CashInv

\* An order is placed or canceled: what it reserves moves inside one balance.
LEMMA ReserveKeepsTotal ==
    ASSUME TypeOK, NEW i, Coin(i) \in Currencies, NEW d \in Int,
           \/ /\ avail' = [avail EXCEPT ![Coin(i)] = @ - d]
              /\ frozen' = [frozen EXCEPT ![Coin(i)] = @ + d]
           \/ /\ avail' = [avail EXCEPT ![Coin(i)] = @ + d]
              /\ frozen' = [frozen EXCEPT ![Coin(i)] = @ - d]
    PROVE  avail'[Quote] + frozen'[Quote] = avail[Quote] + frozen[Quote]
<1>1. /\ avail \in [Currencies -> Int] /\ frozen \in [Currencies -> Int] /\ Quote \in Currencies
  BY DEF TypeOK, Currencies
<1> QED BY <1>1

\* Placing an order freezes funds and moves no total.
LEMMA ServeSubmitCash ==
    ASSUME PInv, CashInv, NEW i \in Orders, ServeSubmit(i)
    PROVE  CashInv'
<1>1. work.op = "submit" /\ i \in work.todo /\ UNCHANGED <<pnl, surplus>>
  BY DEF ServeSubmit, book
<1>2. Unapplied = {} /\ Unapplied' = {}
  BY <1>1 DEF Unapplied, ServeSubmit, Working
<1>3. TypeOK /\ Waiting(i) /\ Known(i)
  BY <1>1 DEF PInv
<1>4. status[i] = "SUBMITTING"
  BY <1>1, <1>3 DEF Waiting
<1>5. request[i] \in Request
  BY <1>3, <1>4 DEF Known, NoRecord
<1>6. avail'[Quote] + frozen'[Quote] = avail[Quote] + frozen[Quote]
  <2>1. CASE PaperSubmit(i)
    <3>1. PICK m \in Nat : m = request[i].size
      BY <1>5, HalfIsPart DEF Request
    <3>2. PICK d \in Int : d = Locked(i, m)
      BY <1>5, AmountsAddUp
    <3>3. Coin(i) \in Currencies
      BY <1>5, <3>1, AmountsAddUp
    <3>4. /\ avail' = [avail EXCEPT ![Coin(i)] = @ - d]
          /\ frozen' = [frozen EXCEPT ![Coin(i)] = @ + d]
      BY <2>1, <3>1, <3>2 DEF PaperSubmit
    <3> QED BY <1>3, <3>3, <3>4, ReserveKeepsTotal
  <2>2. CASE UNCHANGED paper
    BY <2>2 DEF paper
  <2> QED BY <2>1, <2>2 DEF ServeSubmit
<1> QED BY <1>1, <1>2, <1>6, CashStill

\* Canceling an order releases funds and moves no total.
LEMMA ServeCancelCash ==
    ASSUME PInv, CashInv, NEW i \in Orders, ServeCancel(i)
    PROVE  CashInv'
<1>1. work.op \in {"cancel", "shutdown"} /\ i \in work.todo /\ UNCHANGED <<pnl, surplus>>
  BY DEF ServeCancel, book
<1>2. Unapplied = {} /\ Unapplied' = {}
  BY <1>1 DEF Unapplied, ServeCancel, Working
<1>3. TypeOK /\ Waiting(i) /\ Known(i)
  BY <1>1 DEF PInv
<1>4. status[i] = "CANCELING"
  BY <1>1, <1>3 DEF Waiting
<1>5. request[i] \in Request
  BY <1>3, <1>4 DEF Known, NoRecord
<1>6. avail'[Quote] + frozen'[Quote] = avail[Quote] + frozen[Quote]
  <2>1. CASE PaperCancel(i)
    <3>1. PICK m \in Nat : m = remaining[i]
      BY <1>3 DEF TypeOK
    <3>2. PICK d \in Int : d = Locked(i, m)
      BY <1>5, AmountsAddUp
    <3>3. Coin(i) \in Currencies
      BY <1>5, <3>1, AmountsAddUp
    <3>4. /\ avail' = [avail EXCEPT ![Coin(i)] = @ + d]
          /\ frozen' = [frozen EXCEPT ![Coin(i)] = @ - d]
      BY <2>1, <3>1, <3>2 DEF PaperCancel
    <3> QED BY <1>3, <3>3, <3>4, ReserveKeepsTotal
  <2>2. CASE UNCHANGED paper
    BY <2>2 DEF paper
  <2> QED BY <2>1, <2>2 DEF ServeCancel
<1> QED BY <1>1, <1>2, <1>6, CashStill

\* A fill is settled at the exchange: it pays, or is paid, at once, and the
\* book hears of it later.
LEMMA ServeFillCash ==
    ASSUME PInv, CashInv, NEW i \in Orders, ServeFill(i)
    PROVE  CashInv'
<1>1. /\ work.op = "match" /\ i \in work.todo /\ PaperFill(i)
      /\ UNCHANGED <<request, pnl, surplus>>
  BY DEF ServeFill, records, book
<1>2. TypeOK /\ Known(i) /\ Waiting(i) /\ OneTask
  BY <1>1 DEF PInv
<1>3. remaining[i] \in Nat \ {0} /\ status[i] # NoRecord
  BY <1>1, <1>2 DEF Waiting, Settled, IsPaperOpen, TypeOK, IsOpen, NonTerminal, NoRecord
<1>4. request[i] \in Request /\ request[i].symbol \in Symbols /\ request[i].side \in Sides
  <2>1. request[i] \in Request
    BY <1>2, <1>3 DEF Known
  <2> QED BY <2>1 DEF Request
<1>5. PICK n \in 1..remaining[i] : n = FillSize(i)
  BY <1>3, <1>4, FillIsPart
<1>6. n \in Nat
  BY <1>3, <1>5
<1>7. PICK fee \in Nat, value \in Nat : fee = Fee(i, n) /\ value = Value(i, n)
  BY <1>4, <1>6, AmountsAddUp
<1>8. /\ frozen' = [frozen EXCEPT ![Coin(i)] = @ - Locked(i, n)]
      /\ avail' = [c \in Currencies |-> avail[c] + Received(i, n, c)]
  BY <1>1, <1>5 DEF PaperFill
<1>9. /\ avail \in [Currencies -> Int] /\ frozen \in [Currencies -> Int]
      /\ Quote \in Currencies /\ Symbols \subseteq Currencies /\ Quote \notin Symbols
  BY <1>2, CurrencyAssumption DEF TypeOK, Currencies
<1>10. avail'[Quote] + frozen'[Quote] = avail[Quote] + frozen[Quote]
           + (IF request[i].side = "SELL" THEN value ELSE 0)
           - (IF request[i].side = "BUY" THEN value ELSE 0) - fee
  <2>1. Received(i, n, Quote) = (IF request[i].side = "BUY" THEN 0 ELSE value) - fee
    BY <1>4, <1>7, <1>9 DEF Received
  <2>2. avail'[Quote] = avail[Quote] + Received(i, n, Quote)
    BY <1>8, <1>9
  <2>3. frozen'[Quote] = IF request[i].side = "BUY" THEN frozen[Quote] - value ELSE frozen[Quote]
    <3>1. Coin(i) = Quote <=> request[i].side = "BUY"
      BY <1>4, <1>9 DEF Coin
    <3>2. request[i].side = "BUY" => Locked(i, n) = value
      BY <1>7 DEF Locked
    <3> QED BY <1>8, <1>9, <3>1, <3>2
  <2>4. avail[Quote] \in Int /\ frozen[Quote] \in Int
    BY <1>9
  <2> QED BY <1>4, <1>7, <2>1, <2>2, <2>3, <2>4 DEF Sides
<1> DEFINE a == [id |-> i, accepted |-> TRUE, status |-> "FILLED", size |-> n]
<1>11. /\ Unapplied = work.answers /\ Unapplied' = Unapplied \cup {a}
       /\ a \notin Unapplied /\ a.id = i /\ a.size = n
  <2>1. /\ work'.op = "match" /\ work'.answers = work.answers \cup {a}
    BY <1>1, <1>5 DEF ServeFill, Working
  <2>2. a.id = i /\ a.size = n
    OBVIOUS
  <2>3. a \notin work.answers
    BY <1>1, <1>2, <2>2 DEF OneTask
  <2> HIDE DEF a
  <2> QED BY <1>1, <2>1, <2>2, <2>3 DEF Unapplied
<1> HIDE DEF a
<1>12. \A b \in Unapplied : FillFees'[b] = FillFees[b] /\ FillValues'[b] = FillValues[b]
  BY <1>1, <1>11 DEF FillFees, FillValues, Fee, Value
<1>13. FillFees'[a] = fee /\ FillValues'[a] = value
  BY <1>1, <1>7, <1>11 DEF FillFees, FillValues, Fee, Value
<1>14. /\ IsFiniteSet(Units(FillFees', Unapplied'))
       /\ Total(FillFees, Unapplied) \in Nat
       /\ Total(FillFees', Unapplied') = Total(FillFees, Unapplied) + fee
  <2>1. Part(FillFees, Unapplied, a) = 0 /\ Part(FillFees', Unapplied', a) = fee
    BY <1>11, <1>13 DEF Part
  <2>2. Part(FillFees, Unapplied, a) \in Nat /\ Part(FillFees', Unapplied', a) \in Nat
    BY <2>1
  <2>3. Unapplied \ {a} = Unapplied' \ {a} /\ \A b \in Unapplied \ {a} : FillFees[b] = FillFees'[b]
    BY <1>11, <1>12
  <2>4. IsFiniteSet(Units(FillFees, Unapplied))
    BY DEF CashInv
  <2>5. /\ IsFiniteSet(Units(FillFees', Unapplied'))
        /\ Total(FillFees, Unapplied) \in Nat /\ Total(FillFees', Unapplied') \in Nat
        /\ Total(FillFees', Unapplied') = Total(FillFees, Unapplied)
              - Part(FillFees, Unapplied, a) + Part(FillFees', Unapplied', a)
    BY <2>2, <2>3, <2>4, TotalMoves
  <2> QED BY <2>1, <2>5
<1>15. ASSUME NEW side \in Sides
       PROVE  /\ IsFiniteSet(Units(FillValues', Dealt(side)'))
              /\ Total(FillValues, Dealt(side)) \in Nat
              /\ Total(FillValues', Dealt(side)') = Total(FillValues, Dealt(side))
                    + (IF request[i].side = side THEN value ELSE 0)
  <2>1. /\ a \notin Dealt(side)
        /\ a \in Dealt(side)' <=> request[i].side = side
        /\ Dealt(side) \ {a} = Dealt(side)' \ {a}
        /\ Dealt(side) \subseteq Unapplied
    BY <1>1, <1>11 DEF Dealt
  <2>2. \A b \in Dealt(side) \ {a} : FillValues[b] = FillValues'[b]
    BY <1>12, <2>1
  <2>3. /\ Part(FillValues, Dealt(side), a) = 0
        /\ Part(FillValues', Dealt(side)', a) = IF request[i].side = side THEN value ELSE 0
    BY <1>13, <2>1 DEF Part
  <2>4. /\ Part(FillValues, Dealt(side), a) \in Nat /\ Part(FillValues', Dealt(side)', a) \in Nat
    BY <1>7, <2>3
  <2>5. IsFiniteSet(Units(FillValues, Dealt(side)))
    BY DEF CashInv
  <2>6. /\ IsFiniteSet(Units(FillValues', Dealt(side)'))
        /\ Total(FillValues, Dealt(side)) \in Nat
        /\ Total(FillValues', Dealt(side)') = Total(FillValues, Dealt(side))
              - Part(FillValues, Dealt(side), a) + Part(FillValues', Dealt(side)', a)
    BY <2>1, <2>2, <2>4, <2>5, TotalMoves
  <2> QED BY <1>7, <2>3, <2>6
<1>16. PICK w \in [Symbols -> Int] :
          /\ Booked(w)
          /\ avail[Quote] + frozen[Quote] = StartQuote + Net(w, Symbols)
                 + Total(FillValues, Dealt("SELL")) - Total(FillValues, Dealt("BUY"))
                 - Total(FillFees, Unapplied)
  BY DEF CashInv
<1>17. Booked(w)'
  BY <1>1, <1>16 DEF Booked, Earned
<1>18. avail'[Quote] + frozen'[Quote] = StartQuote + Net(w, Symbols)
          + Total(FillValues', Dealt("SELL")') - Total(FillValues', Dealt("BUY")')
          - Total(FillFees', Unapplied')
  <2>1. PICK u \in Int : u = StartQuote + Net(w, Symbols)
    <3>1. Symbols \in SUBSET Symbols /\ \A s \in Symbols : w[s] \in Int
      OBVIOUS
    <3>2. Net(w, Symbols) \in Int
      <4>1. CASE Symbols = {}
        BY <4>1, NetOfZeros
      <4>2. CASE Symbols # {}
        BY <4>2, NetAdds
      <4> QED BY <4>1, <4>2
    <3> QED BY <3>2, AmountAssumption
  <2>2. PICK b \in Nat, s \in Nat, f \in Nat :
           b = Total(FillValues, Dealt("BUY")) /\ s = Total(FillValues, Dealt("SELL"))
           /\ f = Total(FillFees, Unapplied)
    BY <1>14, <1>15 DEF Sides
  <2>3. /\ Total(FillValues', Dealt("BUY")') = b + (IF request[i].side = "BUY" THEN value ELSE 0)
        /\ Total(FillValues', Dealt("SELL")') = s + (IF request[i].side = "SELL" THEN value ELSE 0)
        /\ Total(FillFees', Unapplied') = f + fee
    BY <1>14, <1>15, <2>2 DEF Sides
  <2>4. avail[Quote] + frozen[Quote] = u + s - b - f
    BY <1>16, <2>1, <2>2
  <2> QED BY <1>7, <1>10, <2>1, <2>3, <2>4
<1>19. pnl' \in [Symbols -> Books] /\ surplus' \in [Symbols -> [size : Nat, cash : Nat]]
  BY <1>1 DEF CashInv
<1> QED BY <1>14, <1>15, <1>17, <1>18, <1>19 DEF CashInv, Total, Units

\* The net sum over the symbols is a number.
LEMMA NetIsInt ==
    ASSUME NEW w \in [Symbols -> Int]
    PROVE  Net(w, Symbols) \in Int
<1>1. CASE Symbols = {}
  BY <1>1, NetOfZeros
<1>2. CASE Symbols # {}
  BY <1>2, NetAdds
<1> QED BY <1>1, <1>2

\* What the book of a symbol accounts for when a fill of request i is applied.
LEMMA FillIsBooked ==
    ASSUME NEW i, request[i] \in Request, NEW p \in Books, NEW e \in Int, Earned(p, e),
           NEW n \in Nat \ {0}, NEW fee \in Nat, NEW k \in Nat,
           k = IF request[i].side = "SELL" /\ n > p.position THEN n - p.position ELSE 0,
           NEW q, q = ApplyFill(p, request[i].side, request[i].price * Scale, n, fee)
    PROVE  /\ q \in Books
           /\ \E d \in Int :
                 /\ Earned(q, d)
                 /\ d - q.fees + Value(i, k) =
                       e - p.fees + (IF request[i].side = "SELL" THEN Value(i, n) ELSE 0)
                       - (IF request[i].side = "BUY" THEN Value(i, n) ELSE 0) - fee
<1>1. request[i].side \in Sides /\ request[i].price \in Prices
  BY DEF Request
<1>2. PICK c \in Nat : c = request[i].price
  <2>1. \A x \in Prices : x \in Nat
    BY PriceAssumption
  <2> QED BY <1>1, <2>1
<1>3. PICK side \in Sides : side = request[i].side
  BY <1>1
<1>4. Scale \in Nat
  BY AmountAssumption
<1>5. PICK price \in Int : price = c * Scale
  BY <1>4, Swap
<1>6. p.position \in Nat /\ p.fees \in Nat
  BY DEF Books
<1>7. PICK closed \in Nat : closed = IF n <= p.position THEN n ELSE p.position
  BY <1>6
<1>8. q = ApplyFill(p, side, price, n, fee)
  BY <1>2, <1>3, <1>5
<1>9. /\ q \in Books /\ q.fees = p.fees + fee
      /\ Earned(q, IF side = "BUY" THEN e - price * n ELSE e + price * closed)
  BY <1>7, <1>8, FillEarns
<1>10. \A m \in Nat : Value(i, m) = price * m /\ price * m \in Int
  <2>1. \A m \in Nat : Value(i, m) = c * m * Scale
    BY <1>2 DEF Value
  <2>2. \A m \in Nat : c * m * Scale = (c * Scale) * m
    BY <1>4, Swap
  <2>3. \A m \in Nat : price * m \in Int
    BY Swap
  <2> QED BY <1>5, <2>1, <2>2, <2>3
<1>11. PICK pn \in Int, pc \in Int, pk \in Int : pn = price * n /\ pc = price * closed /\ pk = price * k
  BY Swap
<1>12. Value(i, n) = pn /\ Value(i, k) = pk
  BY <1>10, <1>11
<1>13. CASE side = "BUY"
  <2>1. k = 0 /\ pk = 0
    <3>1. k = 0
      BY <1>3, <1>13
    <3>2. price * 0 = 0
      OBVIOUS
    <3> QED BY <1>11, <3>1, <3>2
  <2>2. Earned(q, e - pn)
    BY <1>9, <1>11, <1>13
  <2>3. e - pn - q.fees + pk = e - p.fees + 0 - pn - fee
    BY <1>6, <1>9, <2>1
  <2> QED BY <1>3, <1>9, <1>12, <1>13, <2>2, <2>3
<1>14. CASE side = "SELL"
  <2>1. pc + pk = pn
    <3>1. n = closed + k
      BY <1>3, <1>6, <1>7, <1>14
    <3>2. price * (closed + k) = price * closed + price * k
      OBVIOUS
    <3> QED BY <1>11, <3>1, <3>2
  <2>2. Earned(q, e + pc)
    BY <1>9, <1>11, <1>14
  <2>3. request[i].side = "SELL" /\ request[i].side # "BUY"
    BY <1>3, <1>14
  <2>4. PICK d \in Int : d = e + pc
    OBVIOUS
  <2>5. Earned(q, d) /\ d - q.fees + pk = e - p.fees + pn - 0 - fee
    <3>1. Earned(q, d)
      BY <2>2, <2>4
    <3>2. d - q.fees + pk = e - p.fees + pn - 0 - fee
      BY <1>6, <1>9, <2>1, <2>4
    <3> QED BY <3>1, <3>2
  <2> QED BY <1>9, <1>12, <2>3, <2>5
<1> QED BY <1>13, <1>14 DEF Sides

\* A waiting fill is applied to the records and to the book.
LEMMA ApplyOneFillCash ==
    ASSUME PInv, CashInv, NEW a \in work.answers, ApplyOneFill(a)
    PROVE  CashInv'
<1> DEFINE i == a.id
           n == a.size
           z == request[i].symbol
           side1 == request[i].side
<1>1. /\ work.op = "match" /\ work.todo = {} /\ work' = After(a)
      /\ UNCHANGED <<request, remaining, avail, frozen>>
  BY DEF ApplyOneFill, paper
<1>2. /\ pnl' = [pnl EXCEPT ![z] = ApplyFill(@, side1, request[i].price * Scale, n, Fee(i, n))]
      /\ surplus' = [surplus EXCEPT ![z] = [size |-> @.size + SoldBeyond(i, n),
                                            cash |-> @.cash + Value(i, SoldBeyond(i, n))]]
  BY Zenon DEF ApplyOneFill
<1>3. TypeOK /\ Served(a) /\ Known(i) /\ i \in Orders /\ n \in Nat
  BY DEF PInv, TypeOK, WorkType, Answer
<1>4. status[i] # NoRecord /\ n \in Nat \ {0}
  BY <1>1, <1>3 DEF Served, NoRecord
<1>5. request[i] \in Request /\ z \in Symbols /\ side1 \in Sides
  <2>1. request[i] \in Request
    BY <1>3, <1>4 DEF Known
  <2> QED BY <2>1 DEF Request
<1>6. pnl \in [Symbols -> Books] /\ surplus \in [Symbols -> [size : Nat, cash : Nat]]
  BY DEF CashInv
<1>7. PICK p \in Books : p = pnl[z]
  BY <1>5, <1>6
<1>8. PICK k \in Nat : k = SoldBeyond(i, n)
                       /\ k = IF side1 = "SELL" /\ n > p.position THEN n - p.position ELSE 0
  <2>1. p.position \in Nat
    BY DEF Books
  <2>2. SoldBeyond(i, n) = IF side1 = "SELL" /\ n > p.position THEN n - p.position ELSE 0
    BY <1>7 DEF SoldBeyond
  <2> QED BY <1>3, <2>1, <2>2
<1>9. PICK fee \in Nat, value \in Nat, beyond \in Nat :
         fee = Fee(i, n) /\ value = Value(i, n) /\ beyond = Value(i, k)
  BY <1>3, <1>5, AmountsAddUp
<1>10. PICK q : q = ApplyFill(p, side1, request[i].price * Scale, n, fee)
  OBVIOUS
<1>11. pnl' = [pnl EXCEPT ![z] = q]
  BY <1>2, <1>7, <1>9, <1>10
<1>12. /\ surplus'[z] = [size |-> surplus[z].size + k, cash |-> surplus[z].cash + beyond]
       /\ \A s \in Symbols \ {z} : surplus'[s] = surplus[s]
  BY <1>2, <1>5, <1>6, <1>8, <1>9
<1>13. PICK w \in [Symbols -> Int] :
          /\ Booked(w)
          /\ avail[Quote] + frozen[Quote] = StartQuote + Net(w, Symbols)
                 + Total(FillValues, Dealt("SELL")) - Total(FillValues, Dealt("BUY"))
                 - Total(FillFees, Unapplied)
  BY DEF CashInv
<1>14. PICK e \in Int : Earned(p, e) /\ w[z] = e - p.fees + surplus[z].cash
  BY <1>5, <1>7, <1>13 DEF Booked
<1> DEFINE moved == (IF side1 = "SELL" THEN value ELSE 0) - (IF side1 = "BUY" THEN value ELSE 0) - fee
<1>15. q \in Books /\ \E d \in Int : Earned(q, d) /\ d - q.fees + beyond = e - p.fees + moved
  BY <1>4, <1>5, <1>8, <1>9, <1>10, <1>14, FillIsBooked
<1>16. PICK d \in Int : Earned(q, d) /\ d - q.fees + beyond = e - p.fees + moved
  BY <1>15
<1>17. PICK m \in Int : m = moved
  BY <1>9
<1> HIDE DEF moved
<1>18. PICK v \in [Symbols -> Int] : v[z] = w[z] + m /\ \A s \in Symbols \ {z} : w[s] = v[s]
  <2>1. [w EXCEPT ![z] = w[z] + m] \in [Symbols -> Int]
    BY <1>5
  <2> QED BY <1>5, <2>1
<1>19. Booked(v)'
  <2>1. ASSUME NEW s \in Symbols
        PROVE  \E x \in Int : Earned(pnl'[s], x) /\ v[s] = x - pnl'[s].fees + surplus'[s].cash
    <3>1. CASE s = z
      <4>1. pnl'[s] = q
        BY <1>5, <1>6, <1>11, <3>1
      <4>2. q.fees \in Nat /\ p.fees \in Nat /\ surplus[z].cash \in Nat
        BY <1>5, <1>6, <1>15 DEF Books
      <4>3. surplus'[z].cash = surplus[z].cash + beyond
        BY <1>12
      <4>4. v[z] = d - q.fees + surplus'[z].cash
        BY <1>14, <1>16, <1>17, <1>18, <4>2, <4>3
      <4> QED BY <1>16, <3>1, <4>1, <4>4
    <3>2. CASE s # z
      <4>1. pnl'[s] = pnl[s] /\ surplus'[s] = surplus[s] /\ v[s] = w[s]
        BY <1>6, <1>11, <1>12, <1>18, <3>2
      <4> QED BY <1>13, <4>1 DEF Booked
    <3> QED BY <3>1, <3>2
  <2> QED BY <2>1 DEF Booked, Earned
<1>20. Net(w, Symbols) \in Int /\ Net(v, Symbols) = Net(w, Symbols) + m
  <2>1. Net(w, Symbols) \in Int /\ Net(v, Symbols) = Net(w, Symbols) - w[z] + v[z]
    BY <1>5, <1>18, NetMoves
  <2>2. w[z] \in Int
    BY <1>5
  <2> QED BY <1>18, <2>1, <2>2
<1>21. Unapplied = work.answers /\ Unapplied' = Unapplied \ {a}
  <2>1. CASE work.answers = {a}
    <3>1. work'.answers = {}
      BY <1>1, <2>1 DEF After, Idle, Working
    <3> QED BY <1>1, <2>1, <3>1 DEF Unapplied
  <2>2. CASE work.answers # {a}
    <3>1. work'.op = "match" /\ work'.answers = work.answers \ {a}
      BY <1>1, <2>2 DEF After, Working
    <3> QED BY <1>1, <3>1 DEF Unapplied
  <2> QED BY <2>1, <2>2
<1>22. \A b \in Unapplied \ {a} : FillFees'[b] = FillFees[b] /\ FillValues'[b] = FillValues[b]
  BY <1>1, <1>21 DEF FillFees, FillValues, Fee, Value
<1>23. FillFees[a] = fee /\ FillValues[a] = value
  BY <1>9, <1>21 DEF FillFees, FillValues
<1>24. /\ IsFiniteSet(Units(FillFees', Unapplied'))
       /\ Total(FillFees', Unapplied') \in Nat
       /\ Total(FillFees, Unapplied) = Total(FillFees', Unapplied') + fee
  <2>1. Part(FillFees, Unapplied, a) = fee /\ Part(FillFees', Unapplied', a) = 0
    BY <1>21, <1>23 DEF Part
  <2>2. Part(FillFees, Unapplied, a) \in Nat /\ Part(FillFees', Unapplied', a) \in Nat
    BY <2>1
  <2>3. Unapplied \ {a} = Unapplied' \ {a} /\ \A b \in Unapplied \ {a} : FillFees[b] = FillFees'[b]
    BY <1>21, <1>22
  <2>4. IsFiniteSet(Units(FillFees, Unapplied))
    BY DEF CashInv
  <2>5. /\ IsFiniteSet(Units(FillFees', Unapplied'))
        /\ Total(FillFees, Unapplied) \in Nat /\ Total(FillFees', Unapplied') \in Nat
        /\ Total(FillFees', Unapplied') = Total(FillFees, Unapplied)
              - Part(FillFees, Unapplied, a) + Part(FillFees', Unapplied', a)
    BY <2>2, <2>3, <2>4, TotalMoves
  <2> QED BY <2>1, <2>5
<1>25. ASSUME NEW side \in Sides
       PROVE  /\ IsFiniteSet(Units(FillValues', Dealt(side)'))
              /\ Total(FillValues', Dealt(side)') \in Nat
              /\ Total(FillValues, Dealt(side)) = Total(FillValues', Dealt(side)')
                    + (IF side1 = side THEN value ELSE 0)
  <2>1. /\ a \notin Dealt(side)'
        /\ a \in Dealt(side) <=> side1 = side
        /\ Dealt(side) \ {a} = Dealt(side)' \ {a}
        /\ Dealt(side) \subseteq Unapplied
    BY <1>1, <1>21 DEF Dealt
  <2>2. \A b \in Dealt(side) \ {a} : FillValues[b] = FillValues'[b]
    BY <1>22, <2>1
  <2>3. /\ Part(FillValues', Dealt(side)', a) = 0
        /\ Part(FillValues, Dealt(side), a) = IF side1 = side THEN value ELSE 0
    BY <1>23, <2>1 DEF Part
  <2>4. /\ Part(FillValues, Dealt(side), a) \in Nat /\ Part(FillValues', Dealt(side)', a) \in Nat
    BY <1>9, <2>3
  <2>5. IsFiniteSet(Units(FillValues, Dealt(side)))
    BY DEF CashInv
  <2>6. /\ IsFiniteSet(Units(FillValues', Dealt(side)'))
        /\ Total(FillValues, Dealt(side)) \in Nat /\ Total(FillValues', Dealt(side)') \in Nat
        /\ Total(FillValues', Dealt(side)') = Total(FillValues, Dealt(side))
              - Part(FillValues, Dealt(side), a) + Part(FillValues', Dealt(side)', a)
    BY <2>1, <2>2, <2>4, <2>5, TotalMoves
  <2> QED BY <1>9, <2>3, <2>6
<1>26. avail'[Quote] + frozen'[Quote] = StartQuote + Net(v, Symbols)
          + Total(FillValues', Dealt("SELL")') - Total(FillValues', Dealt("BUY")')
          - Total(FillFees', Unapplied')
  <2>1. PICK b \in Nat, s \in Nat, f \in Nat, u \in Int :
           b = Total(FillValues', Dealt("BUY")') /\ s = Total(FillValues', Dealt("SELL")')
           /\ f = Total(FillFees', Unapplied') /\ u = Net(w, Symbols)
    BY <1>20, <1>24, <1>25 DEF Sides
  <2>2. /\ Total(FillValues, Dealt("BUY")) = b + (IF side1 = "BUY" THEN value ELSE 0)
        /\ Total(FillValues, Dealt("SELL")) = s + (IF side1 = "SELL" THEN value ELSE 0)
        /\ Total(FillFees, Unapplied) = f + fee
    BY <1>24, <1>25, <2>1 DEF Sides
  <2>3. m = (IF side1 = "SELL" THEN value ELSE 0) - (IF side1 = "BUY" THEN value ELSE 0) - fee
    BY <1>17 DEF moved
  <2>4. StartQuote \in Nat
    BY AmountAssumption
  <2>5. StartQuote + u + (s + (IF side1 = "SELL" THEN value ELSE 0))
           - (b + (IF side1 = "BUY" THEN value ELSE 0)) - (f + fee) = StartQuote + (u + m) + s - b - f
    BY <1>5, <2>3, <2>4
  <2>6. Net(v, Symbols) = u + m
    BY <1>20, <2>1
  <2> QED BY <1>1, <1>13, <2>1, <2>2, <2>5, <2>6
<1>27. pnl' \in [Symbols -> Books] /\ surplus' \in [Symbols -> [size : Nat, cash : Nat]]
  <2>1. pnl' \in [Symbols -> Books]
    BY <1>6, <1>11, <1>15
  <2>2. surplus[z].size + k \in Nat /\ surplus[z].cash + beyond \in Nat
    BY <1>5, <1>6
  <2>3. [size |-> surplus[z].size + k, cash |-> surplus[z].cash + beyond] \in [size : Nat, cash : Nat]
    BY <2>2
  <2>4. surplus' = [surplus EXCEPT ![z] = [size |-> surplus[z].size + k, cash |-> surplus[z].cash + beyond]]
    BY <1>2, <1>8, <1>9
  <2> QED BY <1>6, <2>1, <2>3, <2>4
<1> QED BY <1>18, <1>19, <1>24, <1>25, <1>26, <1>27 DEF CashInv, Total, Units

\* Every step keeps the account of the cash.
LEMMA StepKeepsCash == PInv /\ CashInv /\ [Next]_vars => CashInv'
<1> SUFFICES ASSUME PInv, CashInv, [Next]_vars PROVE CashInv'
  OBVIOUS
<1>1. CASE \E i \in Orders : MarkMissing(i)
  <2>1. PICK i \in Orders : MarkMissing(i)
    BY <1>1
  <2>2. /\ UNCHANGED <<request, remaining, avail, frozen, pnl, surplus>>
        /\ work.op = "start" /\ work' = work
    BY <2>1 DEF MarkMissing, paper, book
  <2>3. Unapplied = {} /\ Unapplied' = {}
    BY <2>2 DEF Unapplied
  <2> QED BY <2>2, <2>3, CashStill
<1>2. CASE StartUp
  <2>1. /\ UNCHANGED <<request, remaining, avail, frozen, pnl, surplus>>
        /\ work.op = "start" /\ work' = Idle
    BY <1>2 DEF StartUp, records, paper, book
  <2>2. Unapplied = {} /\ Unapplied' = {}
    BY <2>1 DEF Unapplied, Idle, Working
  <2> QED BY <2>1, <2>2, CashStill
<1>3. CASE \E S \in (SUBSET Orders) \ {{}} : \E req \in [S -> Request] : SubmitBegin(S, req)
  <2>1. /\ UNCHANGED <<avail, frozen, pnl, surplus>> /\ work = Idle /\ work'.answers = {}
    BY <1>3 DEF SubmitBegin, paper, book, Working
  <2>2. Unapplied = {} /\ Unapplied' = {}
    BY <2>1 DEF Unapplied, Idle, Working
  <2> QED BY <2>1, <2>2, CashStill
<1>4. CASE \E S \in (SUBSET Orders) \ {{}} : \E i \in S, req \in [S -> Request] :
               DieCreating(S, i, req)
  <2>1. NewProcess
    BY <1>4 DEF DieCreating, Die
  <2> QED BY <2>1, CashFresh
<1>5. CASE \E i \in Orders : ServeSubmit(i)
  BY <1>5, ServeSubmitCash
<1>6. CASE \E a \in work.answers : ApplySubmitAck(a)
  <2>1. PICK a \in work.answers : ApplySubmitAck(a)
    BY <1>6
  <2>2. /\ UNCHANGED <<request, remaining, avail, frozen, pnl, surplus>>
        /\ work.op = "submit" /\ work' = After(a)
    BY <2>1 DEF ApplySubmitAck, paper, book
  <2>3. Unapplied = {} /\ Unapplied' = {}
    BY <2>2 DEF Unapplied, After, Idle, Working
  <2> QED BY <2>2, <2>3, CashStill
<1>7. CASE \E S \in SUBSET Orders, op \in {"cancel", "shutdown"} : CancelBegin(S, op)
  <2>1. PICK S \in SUBSET Orders, op \in {"cancel", "shutdown"} : CancelBegin(S, op)
    BY <1>7
  <2>2. UNCHANGED <<request, remaining, avail, frozen, pnl, surplus>> /\ work = Idle
    BY <2>1 DEF CancelBegin, paper, book
  <2>3. \/ work' = Idle
        \/ work' = Working(op, {i \in S : status[i] \in NonTerminal}, {})
    BY <2>1 DEF CancelBegin
  <2>4. Unapplied = {} /\ Unapplied' = {}
    BY <2>2, <2>3 DEF Unapplied, Idle, Working
  <2> QED BY <2>2, <2>4, CashStill
<1>8. CASE Stop
  BY <1>8, CashFresh DEF Stop
<1>9. CASE \E done \in SUBSET Orders, i \in Orders : CancelRefused(done, i)
  <2>1. PICK done \in SUBSET Orders, i \in Orders : CancelRefused(done, i)
    BY <1>9
  <2>2. /\ UNCHANGED <<request, remaining, avail, frozen, pnl, surplus>>
        /\ work = Idle /\ work' = work
    BY <2>1 DEF CancelRefused, paper, book
  <2>3. Unapplied = {} /\ Unapplied' = {}
    BY <2>2 DEF Unapplied, Idle, Working
  <2> QED BY <2>2, <2>3, CashStill
<1>10. CASE \E i \in Orders : ServeCancel(i)
  BY <1>10, ServeCancelCash
<1>11. CASE \E a \in work.answers : ApplyCancelAck(a)
  <2>1. PICK a \in work.answers : ApplyCancelAck(a)
    BY <1>11
  <2>2. CASE NewProcess
    BY <2>2, CashFresh
  <2>3. CASE work' = After(a) /\ UNCHANGED <<paper, safe, book>>
    <3>1. /\ UNCHANGED <<request, remaining, avail, frozen, pnl, surplus>>
          /\ work.op \in {"cancel", "shutdown"} /\ work' = After(a)
      BY <2>1, <2>3 DEF ApplyCancelAck, paper, book
    <3>2. Unapplied = {} /\ Unapplied' = {}
      BY <3>1 DEF Unapplied, After, Idle, Working
    <3> QED BY <3>1, <3>2, CashStill
  <2> QED BY <2>1, <2>2, <2>3 DEF ApplyCancelAck
<1>12. CASE \E s \in Symbols, bid, ask \in Prices : bid < ask /\ Match(s, bid, ask)
  <2>1. PICK s \in Symbols, bid, ask \in Prices : Match(s, bid, ask)
    BY <1>12
  <2>2. /\ UNCHANGED <<request, remaining, avail, frozen, pnl, surplus>>
        /\ work = Idle /\ work'.answers = {}
    BY <2>1 DEF Match, records, paper, book, Working
  <2>3. Unapplied = {} /\ Unapplied' = {}
    BY <2>2 DEF Unapplied, Idle, Working
  <2> QED BY <2>2, <2>3, CashStill
<1>13. CASE \E i \in Orders : ServeFill(i)
  BY <1>13, ServeFillCash
<1>14. CASE \E a \in work.answers : ApplyOneFill(a)
  BY <1>14, ApplyOneFillCash
<1>15. CASE Kill
  BY <1>15, CashFresh DEF Kill, Die
<1>16. CASE UNCHANGED vars
  <2>1. UNCHANGED <<request, remaining, avail, frozen, work, pnl, surplus>>
    BY <1>16 DEF vars, records, paper, book
  <2>2. /\ Unapplied' = Unapplied /\ FillFees' = FillFees /\ FillValues' = FillValues
        /\ \A side : Dealt(side)' = Dealt(side)
    BY <2>1 DEF Unapplied, FillFees, FillValues, Dealt, Fee, Value
  <2>3. PICK w \in [Symbols -> Int] :
           /\ Booked(w)
           /\ avail[Quote] + frozen[Quote] = StartQuote + Net(w, Symbols)
                  + Total(FillValues, Dealt("SELL")) - Total(FillValues, Dealt("BUY"))
                  - Total(FillFees, Unapplied)
    BY DEF CashInv
  <2>4. Booked(w)'
    BY <2>1, <2>3 DEF Booked, Earned
  <2>5. /\ (\A side \in Sides : IsFiniteSet(Units(FillValues, Dealt(side))))'
        /\ IsFiniteSet(Units(FillFees, Unapplied))'
    BY <2>2 DEF CashInv, Units
  <2>6. avail'[Quote] + frozen'[Quote] = StartQuote + Net(w, Symbols)
           + Total(FillValues, Dealt("SELL"))' - Total(FillValues, Dealt("BUY"))'
           - Total(FillFees, Unapplied)'
    BY <2>1, <2>2, <2>3 DEF Total, Units
  <2>7. pnl' \in [Symbols -> Books] /\ surplus' \in [Symbols -> [size : Nat, cash : Nat]]
    BY <2>1 DEF CashInv
  <2> QED BY <2>4, <2>5, <2>6, <2>7 DEF CashInv
<1> QED BY <1>1, <1>2, <1>3, <1>4, <1>5, <1>6, <1>7, <1>8, <1>9, <1>10, <1>11, <1>12,
           <1>13, <1>14, <1>15, <1>16 DEF Next

\* The account of the cash holds at the start.
LEMMA InitCash == Init => CashInv
<1> SUFFICES ASSUME Init PROVE CashInv
  OBVIOUS
<1>1. Unapplied = {}
  BY DEF Init, Unapplied, Working
<1> QED BY <1>1, NothingBooked DEF Init

\* The account of the cash holds of every behaviour.
LEMMA CashInductive == Spec => []CashInv
<1>1. PInv /\ PInv' /\ CashInv /\ [Next]_vars => CashInv'
  BY StepKeepsCash
<1> QED BY <1>1, InitCash, PaperInductive, PTL DEF Spec

\* Once all fills are applied, the quote balance of PaperExchange has moved by
\* what the books of all symbols account for.
LEMMA CashMatches ==
    ASSUME CashInv, TypeOK, work.op # "match"
    PROVE  Frac(avail[Quote] + frozen[Quote] - StartQuote, 1) = SumOf(CashExplained)
<1>1. Unapplied = {}
  BY DEF Unapplied
<1>2. /\ Total(FillValues, Dealt("SELL")) = 0 /\ Total(FillValues, Dealt("BUY")) = 0
      /\ Total(FillFees, Unapplied) = 0
  BY <1>1, NothingWaits
<1>3. PICK w \in [Symbols -> Int] :
         /\ Booked(w)
         /\ avail[Quote] + frozen[Quote] = StartQuote + Net(w, Symbols)
                + Total(FillValues, Dealt("SELL")) - Total(FillValues, Dealt("BUY"))
                - Total(FillFees, Unapplied)
  BY DEF CashInv
<1>4. PICK u \in Int : u = Net(w, Symbols)
  BY NetIsInt
<1>5. PICK c \in Int : c = avail[Quote] + frozen[Quote]
  BY DEF TypeOK, Currencies
<1>6. c - StartQuote = u
  BY <1>2, <1>3, <1>4, <1>5, AmountAssumption
<1>7. Frac(avail[Quote] + frozen[Quote] - StartQuote, 1) = Whole(Net(w, Symbols))
  <2>1. Frac(u, 1) = Whole(u)
    BY PlusWholes
  <2>2. avail[Quote] \in Int /\ frozen[Quote] \in Int
    BY DEF TypeOK, Currencies
  <2>3. avail[Quote] + frozen[Quote] - StartQuote = u
    BY <1>5, <1>6, <2>2, AmountAssumption
  <2> QED BY <1>4, <2>1, <2>3
<1>8. ASSUME NEW s \in Symbols
      PROVE  CashExplained[s] = Whole(w[s])
  <2>1. PICK p \in Books : p = pnl[s]
    BY DEF CashInv
  <2>2. PICK x \in Nat : x = surplus[s].cash
    BY DEF CashInv
  <2>3. PICK e \in Int : Earned(p, e) /\ w[s] = e - p.fees + x
    BY <1>3, <2>1, <2>2 DEF Booked
  <2>4. PICK n \in Int : n = e - p.fees
    BY <2>1 DEF Books
  <2>5. NetCash(p) = Whole(n)
    BY <2>3, <2>4, NetCashIs DEF Whole
  <2>6. Frac(x, 1) = Whole(x) /\ Plus(Whole(n), Whole(x)) = Whole(n + x)
    <3>1. x \in Int
      OBVIOUS
    <3> QED BY <3>1, PlusWholes
  <2>7. CashExplained[s] = Plus(NetCash(p), Frac(x, 1))
    BY <2>1, <2>2 DEF CashExplained
  <2> QED BY <2>3, <2>4, <2>5, <2>6, <2>7
<1>9. SumOf(CashExplained) = Whole(Net(w, Symbols))
  BY <1>8, SumIsNet
<1> QED BY <1>7, <1>9

\* Once all fills are applied, PnlTracker explains the account of PaperExchange:
\* every base balance by the position, and the quote balance by profits taken,
\* cost of the positions and fees of all symbols, apart from what was sold
\* beyond a position.
THEOREM BookAlwaysMatchesAccount == Spec => []BookMatchesAccount
<1>1. /\ TypeOK /\ CashInv /\ (work.op # "match" => \A s \in Symbols : BaseMatches(s))
      => BookMatchesAccount
  BY CashMatches DEF BookMatchesAccount
<1> QED BY <1>1, PaperTypeCorrect, BaseAlwaysMatches, CashInductive, PTL

=============================================================================
