---------------------------- MODULE PaperTrading ----------------------------
(***************************************************************************)
(* The engine in paper mode: the OMS (src/src/mm/oms/manager.py) and PnL   *)
(* (src/src/mm/accounting/pnl.py) on top of the paper exchange, from the   *)
(* start of a process to its shutdown or death.                            *)
(*                                                                         *)
(* Nothing in paper mode suspends inside a tick, so the engine goes        *)
(* through one piece of work (`work`) at a time, in small steps between    *)
(* which only the death of the process may come.  The paper exchange and   *)
(* the PnL live in memory; the order records survive in the store, which   *)
(* every step that changes a record writes.  Which orders a strategy       *)
(* places and when is left open.                                           *)
(***************************************************************************)
EXTENDS OrderState, PaperExchange, PnlBook, FiniteSetsExt

CONSTANT MaxKills     \* bound: process deaths

ASSUME KillAssumption == MaxKills \in Nat

NoRecord == "NONE"

Ops == {"start", "idle", "submit", "cancel", "shutdown", "match"}

\* An acknowledgement, or a fill of `size` units.
Answer == [id : Orders, accepted : BOOLEAN, status : Statuses, size : Nat]

VARIABLES
    status, filled,     \* OrderManager._orders, and the store
    safe,               \* an internal reason for safe mode is set
    work,               \* what the engine is doing: op, orders to do, answers to apply
    pnl,                \* PnlTracker, per symbol
    surplus,            \* sold beyond the position of the book: size and cash
    kills               \* process deaths so far

records == <<request, status, filled>>
book == <<pnl, surplus>>
vars == <<records, paper, safe, work, book, kills>>

WorkType == [op : Ops, todo : SUBSET Orders, answers : SUBSET Answer]
Working(op, todo, answers) == [op |-> op, todo |-> todo, answers |-> answers]
Idle == Working("idle", {}, {})

EmptyBook == [s \in Symbols |-> Empty]
NoSurplus == [s \in Symbols |-> [size |-> 0, cash |-> 0]]

Init ==
    /\ request = [i \in Orders |-> NoRequest]
    /\ status = [i \in Orders |-> NoRecord]
    /\ filled = [i \in Orders |-> 0]
    /\ remaining = [i \in Orders |-> 0]
    /\ avail = ConfiguredBalance
    /\ frozen = [c \in Currencies |-> 0]
    /\ safe = FALSE
    /\ work = Working("start", {}, {})
    /\ pnl = EmptyBook /\ surplus = NoSurplus
    /\ kills = 0

\* A new process: a new exchange, a new book, the records of the store.
NewProcess ==
    /\ PaperFresh
    /\ safe' = FALSE
    /\ work' = Working("start", {}, {})
    /\ pnl' = EmptyBook /\ surplus' = NoSurplus

Die == kills < MaxKills /\ kills' = kills + 1 /\ NewProcess

\* OrderManager._transition, with the store.
Transition(i, new) ==
    /\ CanTransition(status[i], new)
    /\ status' = [status EXCEPT ![i] = new]

-----------------------------------------------------------------------------
(* Start-up.                                                               *)

\* reconcile_open_orders at start-up, where the exchange lists no order: every
\* local open order is put in doubt, one after the other.
MarkMissing(i) ==
    /\ work.op = "start"
    /\ IsOpen(status[i]) /\ ~IsPaperOpen(i)
    /\ Transition(i, "UNKNOWN")
    /\ UNCHANGED <<request, filled, paper, safe, work, book, kills>>

\* MarketMakerApp.run enters safe mode when an order is in doubt, and ticks.
StartUp ==
    /\ work.op = "start"
    /\ \A i \in Orders : ~IsOpen(status[i])
    /\ safe' = (\E i \in Orders : status[i] = "UNKNOWN")
    /\ work' = Idle
    /\ UNCHANGED <<records, paper, book, kills>>

-----------------------------------------------------------------------------
(* Submitting a batch.                                                     *)

\* What RiskEngine.validate asks of the engine before any order: it is not in
\* safe mode and no order is in doubt.
Permits == ~safe /\ \A i \in Orders : status[i] # "UNKNOWN"

\* OrderManager.submit_batch up to the gateway: records are created and saved
\* as SUBMITTING.
SubmitBegin(S, req) ==
    /\ work = Idle /\ Permits
    /\ \A i \in S : status[i] = NoRecord
    /\ request' = [i \in Orders |-> IF i \in S THEN req[i] ELSE request[i]]
    /\ status' = [i \in Orders |-> IF i \in S THEN "SUBMITTING" ELSE status[i]]
    /\ work' = Working("submit", S, {})
    /\ UNCHANGED <<filled, paper, safe, book, kills>>

\* The process dies while it records a batch, one record still CREATED.
DieCreating(S, i, req) ==
    /\ work = Idle /\ Permits
    /\ \A j \in S : status[j] = NoRecord
    /\ request' = [j \in Orders |-> IF j \in S THEN req[j] ELSE request[j]]
    /\ status' = [j \in Orders |-> IF j = i THEN "CREATED"
                                  ELSE IF j \in S THEN "SUBMITTING" ELSE status[j]]
    /\ Die
    /\ UNCHANGED filled

\* PaperExchange.submit_order, one order of the batch after the other.
ServeSubmit(i) ==
    /\ work.op = "submit" /\ i \in work.todo
    /\ \/ /\ PaperSubmit(i)
          /\ work' = Working("submit", work.todo \ {i}, work.answers \cup
                {[id |-> i, accepted |-> TRUE, status |-> "OPEN", size |-> 0]})
       \/ /\ ~Takes(i)
          /\ work' = Working("submit", work.todo \ {i}, work.answers \cup
                {[id |-> i, accepted |-> FALSE, status |-> "REJECTED", size |-> 0]})
          /\ UNCHANGED paper
    /\ UNCHANGED <<records, safe, book, kills>>

\* What the engine does after it has applied answer a.
After(a) ==
    IF work.answers = {a} THEN Idle ELSE Working(work.op, {}, work.answers \ {a})

\* OrderManager.apply_order_ack, when the whole batch has been answered.
ApplySubmitAck(a) ==
    /\ work.op = "submit" /\ work.todo = {} /\ a \in work.answers
    /\ Transition(a.id, AckTarget(a.accepted, a.status))
    /\ work' = After(a)
    /\ UNCHANGED <<request, filled, paper, safe, book, kills>>

-----------------------------------------------------------------------------
(* Canceling a batch, for new quotes, by command, or before the process    *)
(* stops.                                                                  *)

\* OrderManager.cancel_batch up to the gateway: missing and terminal records
\* are skipped.  At shutdown all open orders are canceled.
CancelBegin(S, op) ==
    LET active == {i \in S : status[i] \in NonTerminal}
    IN  /\ work = Idle
        /\ op = "shutdown" => S = {i \in Orders : IsOpen(status[i])}
        /\ \A i \in active : CanTransition(status[i], "CANCELING")
        /\ status' = [i \in Orders |-> IF i \in active THEN "CANCELING" ELSE status[i]]
        /\ work' = IF active = {} THEN Idle ELSE Working(op, active, {})
        /\ UNCHANGED <<request, filled, paper, safe, book, kills>>

\* The shutdown of a process without open orders.
Stop ==
    /\ work = Idle
    /\ \A i \in Orders : ~IsOpen(status[i])
    /\ NewProcess
    /\ UNCHANGED <<records, kills>>

\* cancel_batch for a command that names an order in doubt: its transition is
\* refused, those moved before it stay CANCELING, the command has failed and
\* the engine enters safe mode (_apply_runtime_commands).
CancelRefused(done, i) ==
    /\ work = Idle
    /\ \A j \in done : status[j] \in NonTerminal /\ CanTransition(status[j], "CANCELING")
    /\ status[i] \in NonTerminal /\ ~CanTransition(status[i], "CANCELING")
    /\ status' = [j \in Orders |-> IF j \in done THEN "CANCELING" ELSE status[j]]
    /\ safe' = TRUE
    /\ UNCHANGED <<request, filled, paper, work, book, kills>>

\* The status PaperExchange.cancel_order answers with.
CancelStatus(i) ==
    IF ~IsPaperOpen(i) THEN "UNKNOWN"
    ELSE IF remaining[i] < request[i].size THEN "PARTIALLY_CANCELED" ELSE "CANCELED"

\* PaperExchange.cancel_order, one order of the batch after the other.
ServeCancel(i) ==
    /\ work.op \in {"cancel", "shutdown"} /\ i \in work.todo
    /\ IF IsPaperOpen(i) THEN PaperCancel(i) ELSE UNCHANGED paper
    /\ work' = Working(work.op, work.todo \ {i}, work.answers \cup
            {[id |-> i, accepted |-> IsPaperOpen(i), status |-> CancelStatus(i), size |-> 0]})
    /\ UNCHANGED <<records, safe, book, kills>>

\* OrderManager.apply_cancel_ack, when the whole batch has been answered; at
\* shutdown the process ends with the last one.
ApplyCancelAck(a) ==
    /\ work.op \in {"cancel", "shutdown"} /\ work.todo = {} /\ a \in work.answers
    /\ IF a.accepted \/ status[a.id] = "CANCELING"
       THEN Transition(a.id, a.status)
       ELSE UNCHANGED status
    /\ IF work.op = "shutdown" /\ work.answers = {a}
       THEN NewProcess
       ELSE work' = After(a) /\ UNCHANGED <<paper, safe, book>>
    /\ UNCHANGED <<request, filled, kills>>

-----------------------------------------------------------------------------
(* Fills.                                                                  *)

\* tick_once: a market snapshot fills orders at the exchange.
Match(symbol, bid, ask) ==
    /\ work = Idle
    /\ Crossed(symbol, bid, ask) # {}
    /\ work' = Working("match", Crossed(symbol, bid, ask), {})
    /\ UNCHANGED <<records, paper, safe, book, kills>>

\* One round of simulate_fills.  All fills are settled at the exchange before
\* the first is applied to the records.
ServeFill(i) ==
    /\ work.op = "match" /\ i \in work.todo
    /\ PaperFill(i)
    /\ work' = Working("match", work.todo \ {i}, work.answers \cup
            {[id |-> i, accepted |-> TRUE, status |-> "FILLED", size |-> FillSize(i)]})
    /\ UNCHANGED <<records, safe, book, kills>>

\* Mutant: a fill is compared with half the order, the size of one fill.
FillTargetTooEarly(i, total) ==
    IF total >= request[i].size \div 2 THEN "FILLED" ELSE "PARTIALLY_FILLED"

\* The target status of OrderManager.apply_fill.
FillTarget(i, total) == IF total >= request[i].size THEN "FILLED" ELSE "PARTIALLY_FILLED"

\* The record's new filled size, cut off at its size.
FilledAfter(i, n) ==
    IF filled[i] + n > request[i].size THEN request[i].size ELSE filled[i] + n

\* What a fill sells beyond the position of the book.
SoldBeyond(i, n) ==
    LET held == pnl[request[i].symbol].position
    IN  IF request[i].side = "SELL" /\ n > held THEN n - held ELSE 0

\* OrderManager.apply_fill and PnlTracker.apply_fill for one fill.
ApplyOneFill(a) ==
    LET i == a.id
        s == request[i].symbol
        beyond == SoldBeyond(i, a.size)
    IN  /\ work.op = "match" /\ work.todo = {} /\ a \in work.answers
        /\ Transition(i, FillTarget(i, FilledAfter(i, a.size)))
        /\ filled' = [filled EXCEPT ![i] = FilledAfter(i, a.size)]
        /\ pnl' = [pnl EXCEPT ![s] = ApplyFill(@, request[i].side, request[i].price * Scale,
                                               a.size, Fee(i, a.size))]
        /\ surplus' = [surplus EXCEPT ![s] = [size |-> @.size + beyond,
                                              cash |-> @.cash + Value(i, beyond)]]
        /\ work' = After(a)
        /\ UNCHANGED <<request, paper, safe, kills>>

Kill == Die /\ UNCHANGED records

-----------------------------------------------------------------------------
Next ==
    \/ \E i \in Orders : MarkMissing(i)
    \/ StartUp
    \/ \E S \in (SUBSET Orders) \ {{}} : \E req \in [S -> Request] : SubmitBegin(S, req)
    \/ \E S \in (SUBSET Orders) \ {{}} : \E i \in S, req \in [S -> Request] : DieCreating(S, i, req)
    \/ \E i \in Orders : ServeSubmit(i)
    \/ \E a \in work.answers : ApplySubmitAck(a)
    \/ \E S \in SUBSET Orders, op \in {"cancel", "shutdown"} : CancelBegin(S, op)
    \/ Stop
    \/ \E done \in SUBSET Orders, i \in Orders : CancelRefused(done, i)
    \/ \E i \in Orders : ServeCancel(i)
    \/ \E a \in work.answers : ApplyCancelAck(a)
    \/ \E s \in Symbols, bid, ask \in Prices : bid < ask /\ Match(s, bid, ask)
    \/ \E i \in Orders : ServeFill(i)
    \/ \E a \in work.answers : ApplyOneFill(a)
    \/ Kill

Spec == Init /\ [][Next]_vars

-----------------------------------------------------------------------------
(* Properties.                                                             *)

TypeOK ==
    /\ request \in [Orders -> Request \cup {NoRequest}]
    /\ status \in [Orders -> Statuses \cup {NoRecord}]
    /\ filled \in [Orders -> Nat] /\ remaining \in [Orders -> Nat]
    /\ avail \in [Currencies -> Int] /\ frozen \in [Currencies -> Int]
    /\ safe \in BOOLEAN
    /\ work \in WorkType
    /\ kills \in Nat

\* The sum of amount[x], a natural number, over the x in S, counted unit by unit.
Units(amount, S) == UNION {{x} \X (1..amount[x]) : x \in S}
Total(amount, S) == Cardinality(Units(amount, S))

\* What each open order still needs, and the open orders that need currency c.
Needs == [i \in Orders |-> Locked(i, remaining[i])]
Needing(c) == {i \in Orders : IsPaperOpen(i) /\ Coin(i) = c}

\* What is frozen is what the open orders still need, in every currency: no
\* sequence of fills, cancels, refusals and restarts leaves funds locked for
\* no order or an order without funds.
FrozenIsReserved == \A c \in Currencies : frozen[c] = Total(Needs, Needing(c))

\* Base currencies moved by the position of the book, apart from what was sold
\* beyond it.
BaseMatches(s) == avail[s] + frozen[s] = StartBase + pnl[s].position - surplus[s].size

\* Cash that a symbol accounts for, sales beyond the position included.
CashExplained == [s \in Symbols |-> Plus(NetCash(pnl[s]), Frac(surplus[s].cash, 1))]

\* The sum of the fractions f[s].
SumOf(f) == MapThenFoldSet(Plus, Zero, LAMBDA s : f[s], LAMBDA S : CHOOSE s \in S : TRUE, Symbols)

\* Once all fills are applied, PnL explains the account: base moved by the
\* position, and quote by profits taken, cost of the position and fees, apart
\* from what was sold beyond the position, which the book leaves out.
BookMatchesAccount ==
    work.op # "match" =>
        /\ \A s \in Symbols : BaseMatches(s)
        /\ Frac(avail[Quote] + frozen[Quote] - StartQuote, 1) = SumOf(CashExplained)

FeesPaid == [s \in Symbols |-> pnl[s].fees]

\* Only fees may overdraw the account: without them every balance, and with
\* them every reservation and every base balance, stays at or above zero.
OnlyFeesOverdraw ==
    /\ \A c \in Currencies : frozen[c] >= 0
    /\ \A s \in Symbols : avail[s] >= 0
    /\ work.op # "match" => avail[Quote] + Total(FeesPaid, Symbols) >= 0

\* Between two pieces of work the OMS and the paper exchange agree: the same
\* orders are open, with the same size left, and a status that says whether
\* they have traded.
SidesAgree ==
    work.op = "idle" =>
        \A i \in Orders :
            /\ IsOpen(status[i]) <=> IsPaperOpen(i)
            /\ IsPaperOpen(i) => /\ filled[i] + remaining[i] = request[i].size
                                 /\ status[i] = IF filled[i] = 0 THEN "OPEN" ELSE "PARTIALLY_FILLED"
            /\ status[i] = "FILLED" => filled[i] = request[i].size
            /\ status[i] = "CANCELED" => filled[i] = 0
            /\ status[i] = "PARTIALLY_CANCELED" => filled[i] \in 1..(request[i].size - 1)

\* Orders that a death of the process took from the paper exchange stay in
\* doubt for ever, and no process that finds such an order records a new one:
\* an engine that was not stopped cleanly does not trade on.
LossStopsTrading ==
    [][\A i \in Orders :
          status[i] = "UNKNOWN" => /\ status'[i] = "UNKNOWN"
                                   /\ \A j \in Orders : status[j] = NoRecord => status'[j] = NoRecord]_vars

=============================================================================
