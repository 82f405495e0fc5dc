---------------------------- MODULE TradingLoop -----------------------------
(***************************************************************************)
(* The life of the engine process on one symbol (src/src/mm/app.py):       *)
(* start-up, ticks that turn quotes into cancels and places, the private   *)
(* stream that changes the same records while the loop waits for the       *)
(* gateway, and shutdown.  Composes the quote engine, the risk engine and  *)
(* the order table.                                                        *)
(*                                                                         *)
(* asyncio runs the code between two awaits without interruption: an       *)
(* action is such a piece, and StreamReport may come only while `phase`    *)
(* says that the loop waits.  Every order has size one and is filled whole.*)
(***************************************************************************)
EXTENDS Integers, Sequences, FiniteSets, OrderState

CONSTANTS BPS,           \* as in RiskEngine
          Symbol, Strategy,
          Rule,          \* the symbol's market rule
          Limits,        \* RiskSettings
          Levels,        \* levels of quotes on each side
          Prices,        \* prices a strategy may want, of each side
          Market,        \* the market: [bid, ask, received]
          Tables,        \* tables of records that the order store may hold
          Listings,      \* whether the exchange lists orders of theirs
          MaxOrders,     \* bound on the number of records
          MaxReports,    \* bound on the number of rows on the stream
          Interval,      \* min_requote_interval_ms, in ticks
          DrillIntent    \* RiskDrillSuite._sample_place_intent

Modes == {"live", "dry_run"}
NoLevel == 0

QE == INSTANCE QuoteEngine WITH Denominator <- 1
Risk == INSTANCE RiskEngine WITH Rules <- [s \in {Symbol} |-> Rule]
Console == INSTANCE ConsoleView

VARIABLES
    mode,     \* trading_mode: LIVE, or LIVE_DRY_RUN with a DryRunExchange
    table,    \* OrderManager._orders, in the order of their creation
    phase,    \* where the loop waits
    batch,    \* the orders in the gateway call it waits for
    pending,  \* place intents of the tick, not yet validated
    last,     \* QuoteEngine._last_requote_ms, in ticks; 0 is never
    tick,     \* ticks begun, as far as the requote interval can see
    safe,     \* RiskEngine.safe_mode
    alarm,    \* _internal_safe_mode_reasons is not empty
    stop,     \* _stop_requested
    stream,   \* _private_stream_task: "off", "running", "ended"
    failed,   \* run left cancel_all by an exception
    reports   \* counts rows of the stream, for MaxReports

vars == <<mode, table, phase, batch, pending, last, tick, safe, alarm, stop, stream, failed, reports>>
mood == <<safe, alarm, stop, stream, failed, reports>>
quoting == <<pending, last, tick>>

Phases == {"starting", "reconciling", "ticking", "canceling", "submitting", "settling", "ending",
           "shutdown", "stopped"}
Waiting == {"starting", "reconciling", "ticking", "canceling", "submitting", "settling", "shutdown"}

Slots == {<<Strategy, Symbol, side, l>> : side \in {"buy", "sell"}, l \in 1..Levels}

\* What is kept of a record; `doubted` is history: it has been UNKNOWN.
Record(side, level, price, status) ==
    [side |-> side, level |-> level, price |-> price, status |-> status,
     doubted |-> status = "UNKNOWN"]

\* An order of somebody else, or of a lost store (_orphan_record).
Orphan == Record("unknown", NoLevel, 0, "UNKNOWN")

\* A record as the engines see it.
Seen(t, i) == [id |-> i, strategy |-> Strategy, symbol |-> Symbol, side |-> t[i].side,
               level |-> t[i].level, price |-> t[i].price, remaining |-> 1, status |-> t[i].status]

Ids == DOMAIN table
OpenIds(t) == {i \in DOMAIN t : IsOpen(t[i].status)}
OpenOrders == {Seen(table, i) : i \in OpenIds(table)}
AnyUnknown(t) == \E i \in DOMAIN t : t[i].status = "UNKNOWN"

\* What a record can be.
Recorded == [side : {"buy", "sell", "unknown", "none"}, level : NoLevel .. Levels, price : Int,
             status : Statuses, doubted : BOOLEAN]

\* The engine's own orders that are not over.
Live(t) == {i \in DOMAIN t : t[i].level # NoLevel /\ t[i].status \in NonTerminal}

\* The tables that a run starts with, and leaves: a working order with a later
\* live one in its slot has been in doubt, and not too many orders live.
WellKept(t) ==
    /\ t \in Seq(Recorded)
    /\ \A i \in DOMAIN t : t[i].status = "UNKNOWN" => t[i].doubted
    /\ \A i \in OpenIds(t), j \in Live(t) :
          i < j /\ t[i].side = t[j].side /\ t[i].level = t[j].level => t[i].doubted
    /\ Cardinality(Live(t)) <= Limits.maxOpenOrders - 1 + Cardinality(Slots)

ASSUME LoopAssumption ==
    /\ Levels \in Nat /\ Interval \in Nat /\ Limits.maxOpenOrders \in Nat
    /\ Rule.priceStep \in Nat \ {0} /\ Rule.sizeStep \in Nat \ {0}
    /\ Market.bid \in Int /\ Market.ask \in Int
    /\ Prices["buy"] \subseteq Int /\ Prices["sell"] \subseteq Int
    /\ \A t \in Tables : WellKept(t)
    /\ \A orphans \in Listings : orphans \in Seq({Orphan})

\* Moving a record on.  Of a record that is over nobody reads but the status.
Moved(r, new) ==
    IF new \in Terminal THEN Record("none", NoLevel, 0, new)
    ELSE [r EXCEPT !.status = new, !.doubted = @ \/ new = "UNKNOWN"]

\* A loop that moves the orders of S to their targets, one after the other: it
\* gets through all of them, or it has moved those in `done` when a transition
\* is refused (OrderStateError).
Completes(S, target) == \A i \in S : CanTransition(table[i].status, target[i])
Breaks(S, target, done) ==
    /\ \E i \in S \ done : ~CanTransition(table[i].status, target[i])
    /\ \A i \in done : i \in S /\ CanTransition(table[i].status, target[i])
AfterMoves(done, target) ==
    [i \in Ids |-> IF i \in done THEN Moved(table[i], target[i]) ELSE table[i]]

All(S, new) == [i \in S |-> new]

-----------------------------------------------------------------------------
Init ==
    /\ mode \in Modes
    /\ table \in Tables
    /\ phase = "starting"
    /\ batch = {} /\ pending = {}
    /\ last = [s \in Slots |-> 0] /\ tick = Interval
    /\ safe = FALSE /\ alarm = FALSE /\ stop = FALSE /\ failed = FALSE
    /\ stream = "off" /\ reports = 0

\* run, up to the answer of the first balance request.
Connect ==
    /\ phase = "starting"
    /\ phase' = "reconciling"
    /\ stream' = "running"
    /\ UNCHANGED <<mode, table, batch, quoting, safe, alarm, stop, failed, reports>>

\* Any request of the loop other than a batch may raise, at start-up or in a
\* tick: run goes to its finally.
RequestFails ==
    /\ phase \in {"reconciling", "ticking", "settling"}
    /\ phase' = "ending"
    /\ UNCHANGED <<mode, table, batch, quoting, mood>>

\* reconcile_open_orders at start-up: `listed` are the records that the
\* exchange names, as OPEN; the other open ones are put in doubt unless the
\* gateway is a dry run.
Target(listed) == [i \in Ids |-> IF i \in listed THEN "OPEN"
                                 ELSE IF IsOpen(table[i].status) /\ mode = "live" THEN "UNKNOWN"
                                 ELSE table[i].status]

Reconcile(listed, orphans) ==
    /\ phase = "reconciling"
    /\ Completes(Ids, Target(listed))
    /\ table' = AfterMoves(Ids, Target(listed)) \o orphans
    /\ alarm' = (alarm \/ AnyUnknown(table'))
    /\ safe' = (safe \/ alarm')
    /\ phase' = "ticking"
    /\ UNCHANGED <<mode, batch, quoting, stop, stream, failed, reports>>

\* A record cannot become what the exchange says it is.
ReconcileRefused(listed, done) ==
    /\ phase = "reconciling"
    /\ Breaks(Ids, Target(listed), done)
    /\ table' = AfterMoves(done, Target(listed))
    /\ phase' = "ending"
    /\ UNCHANGED <<mode, batch, quoting, mood>>

-----------------------------------------------------------------------------
(* A tick.                                                                 *)

\* Mutant: the loop does not look whether it is to stop.
StopSeenNever == FALSE

\* The condition of the loop in run.
StopSeen == stop

\* Mutant: the gateway is asked about orders that are OPEN only.
MarkCancelingOpen(S, next) ==
    /\ Completes(S, All(S, "CANCELING"))
    /\ table' = AfterMoves(S, All(S, "CANCELING"))
    /\ batch' = {i \in S : table[i].status = "OPEN"}
    /\ phase' = next

\* cancel_batch up to the gateway, for the orders in S.
MarkCanceling(S, next) ==
    /\ Completes(S, All(S, "CANCELING"))
    /\ table' = AfterMoves(S, All(S, "CANCELING"))
    /\ batch' = S
    /\ phase' = next

\* The loop over cancels stops at a record that cannot be cancelled.
MarkRefused(S, done, next) ==
    /\ Breaks(S, All(S, "CANCELING"), done)
    /\ table' = AfterMoves(done, All(S, "CANCELING"))
    /\ batch' = {}
    /\ phase' = next

\* What RiskEngine.validate looks at, with table t.  Balances, profit and the
\* age of the market after the awaits are whatever the other modules allow.
View(t, alert, held, profit, age) ==
    [safe |-> alert, dailyPnl |-> profit, markets |-> [s \in {Symbol} |-> Market],
     now |-> Market.received + age, orders |-> {Seen(t, i) : i \in DOMAIN t},
     base |-> [s \in {Symbol} |-> held], available |-> [s \in {Symbol} |-> held]]

Views(t, alert) == {View(t, alert, held, 0, 0) : held \in {0, 1, Limits.maxPosition}}
                     \cup {View(t, alert, 1, -Limits.maxDailyLoss, 0),
                           View(t, alert, 1, 0, Limits.staleAfter + 1)}

Approved(intents, e) == {p \in intents : Risk!Validate(p, e) = "approved"}

\* The records that submit_batch creates, in an order of their slots.
Created(places) ==
    {s \in [1..Cardinality(places) -> {Record(p.side, p.level, p.price, "SUBMITTING") : p \in places}] :
        \A p \in places : \E k \in DOMAIN s : s[k].side = p.side /\ s[k].level = p.level}

\* The second half of _execute_intents, after the cancels with table t: all
\* place intents are validated, then submit_batch records those that passed and
\* calls the gateway.
SubmitAll(intents, t) ==
    \E e \in Views(t, safe') :
        LET places == Approved(intents, e)
        IN  /\ \E new \in Created(places) : table' = t \o new
            /\ batch' = Len(t) + 1 .. Len(t) + Cardinality(places)
            /\ phase' = IF places = {} THEN "settling" ELSE "submitting"

\* A place may only be asked for when there is room for its record.
Room(places) == Len(table) + Cardinality(places) <= MaxOrders

\* The synchronous part of tick_once, from the switches to the first await of
\* _execute_intents: `wanted` are the quotes, `admin` the switch.
Tick(wanted, admin) ==
    LET places == QE!Places(<<wanted>>, OpenOrders, [s \in {Symbol} |-> Market],
                            [s \in {Symbol} |-> Rule], last, tick, Interval)
        cancels == {o.id : o \in QE!Cancels(<<wanted>>, OpenOrders, places)}
    IN  /\ phase = "ticking" /\ ~StopSeen
        /\ Room(places)
        /\ safe' = (admin \/ alarm)
        /\ last' = QE!Requoted(last, places, tick)
        /\ \/ /\ cancels = {}
              /\ pending' = {}
              /\ SubmitAll(places, table)
           \/ /\ cancels # {}
              /\ pending' = places
              /\ MarkCanceling(cancels, "canceling")
           \/ /\ pending' = {}
              /\ \E done \in SUBSET cancels : MarkRefused(cancels, done, "ending")
        /\ UNCHANGED <<mode, tick, alarm, stop, stream, failed, reports>>

\* Mutant: an order whose cancel was not answered stays as it is.
CancelTargetsHopeful(accepted) ==
    [i \in batch |-> IF accepted THEN "CANCELED" ELSE table[i].status]

\* What the answer of a batch cancel asks for: the gateway answers for all of
\* its orders alike.
CancelTargets(accepted) ==
    [i \in batch |-> IF accepted THEN "CANCELED"
                     ELSE IF table[i].status = "CANCELING" THEN "UNKNOWN" ELSE table[i].status]

\* A dry run answers every request well.
MayAnswer(accepted) == accepted \/ mode = "live"

CancelAnswered(accepted) ==
    /\ phase = "canceling" /\ MayAnswer(accepted)
    /\ Completes(batch, CancelTargets(accepted))
    /\ UNCHANGED safe
    /\ SubmitAll(pending, AfterMoves(batch, CancelTargets(accepted)))
    /\ pending' = {}
    /\ UNCHANGED <<mode, last, tick, alarm, stop, stream, failed, reports>>

\* An answer that a record has outrun ends the tick and the run.
CancelRaises(accepted, done) ==
    /\ phase = "canceling" /\ MayAnswer(accepted)
    /\ Breaks(batch, CancelTargets(accepted), done)
    /\ table' = AfterMoves(done, CancelTargets(accepted))
    /\ batch' = {} /\ pending' = {}
    /\ phase' = "ending"
    /\ UNCHANGED <<mode, last, tick, mood>>

SubmitStatuses == IF mode = "live" THEN {"OPEN", "REJECTED", "UNKNOWN"} ELSE {"OPEN"}

SubmitAnswered(target) ==
    /\ phase = "submitting"
    /\ Completes(batch, target)
    /\ table' = AfterMoves(batch, target)
    /\ batch' = {}
    /\ phase' = "settling"
    /\ UNCHANGED <<mode, quoting, mood>>

SubmitRaises(target, done) ==
    /\ phase = "submitting"
    /\ Breaks(batch, target, done)
    /\ table' = AfterMoves(done, target)
    /\ batch' = {}
    /\ phase' = "ending"
    /\ UNCHANGED <<mode, quoting, mood>>

\* The balances are refreshed, the tick is over and the loop sleeps.  Ticks
\* are counted only while a requote may still be too early.
Settled ==
    /\ phase = "settling"
    /\ phase' = "ticking"
    /\ IF \E s \in Slots : last[s] # 0 /\ tick + 1 - last[s] < Interval
       THEN tick' = tick + 1 /\ UNCHANGED last
       ELSE tick' = Interval /\ last' = [s \in Slots |-> 0]
    /\ UNCHANGED <<mode, table, batch, pending, mood>>

LoopEnds ==
    /\ phase = "ticking" /\ StopSeen
    /\ phase' = "ending"
    /\ UNCHANGED <<mode, table, batch, quoting, mood>>

-----------------------------------------------------------------------------
(* Shutdown: the finally of run.                                           *)

\* Mutant: only untouched orders are cancelled.
LeftOpenUntouched == {i \in Ids : table[i].status = "OPEN"}

\* The orders that cancel_all names.
LeftOpen == OpenIds(table)

\* _stop_private_stream and gateway.close, which end the run.
Close == phase' = "stopped" /\ stream' = "ended"

CancelAll ==
    /\ phase = "ending"
    /\ \/ /\ LeftOpen # {}
          /\ MarkCanceling(LeftOpen, "shutdown")
          /\ UNCHANGED <<stream, failed>>
       \/ /\ LeftOpen = {}
          /\ Close
          /\ UNCHANGED <<table, batch, failed>>
       \/ /\ \E done \in SUBSET LeftOpen : MarkRefused(LeftOpen, done, "stopped")
          /\ failed' = TRUE
          /\ UNCHANGED stream
    /\ UNCHANGED <<mode, quoting, safe, alarm, stop, reports>>

ShutdownAnswered(accepted) ==
    /\ phase = "shutdown" /\ MayAnswer(accepted)
    /\ Completes(batch, CancelTargets(accepted))
    /\ table' = AfterMoves(batch, CancelTargets(accepted))
    /\ batch' = {}
    /\ Close
    /\ UNCHANGED <<mode, quoting, safe, alarm, stop, failed, reports>>

\* cancel_all raises: neither the stream nor the gateway is closed.
ShutdownRaises(accepted, done) ==
    /\ phase = "shutdown" /\ MayAnswer(accepted)
    /\ Breaks(batch, CancelTargets(accepted), done)
    /\ table' = AfterMoves(done, CancelTargets(accepted))
    /\ batch' = {}
    /\ phase' = "stopped" /\ failed' = TRUE
    /\ UNCHANGED <<mode, quoting, safe, alarm, stop, stream, reports>>

-----------------------------------------------------------------------------
(* The private stream and the operator, while the loop waits.              *)

\* After a message the stream's task sees that it is to stop.
AfterMessage == IF stop THEN "ended" ELSE "running"

Reported == {"OPEN", "FILLED", "CANCELED", "UNKNOWN"}

\* One row about a record that the exchange knows.  A status it cannot move to
\* raises, which is an alarm in live mode; a record in doubt is one in any mode.
StreamReport(i, new) ==
    /\ phase \in Waiting /\ stream = "running" /\ mode = "live"
    /\ i \in Ids /\ table[i].status # new
    /\ table' = IF CanTransition(table[i].status, new) THEN AfterMoves({i}, All({i}, new)) ELSE table
    /\ alarm' = (alarm \/ ~CanTransition(table[i].status, new) \/ new = "UNKNOWN")
    /\ safe' = (safe \/ alarm')
    /\ stream' = AfterMessage
    /\ reports < MaxReports /\ reports' = reports + 1
    /\ UNCHANGED <<mode, phase, batch, quoting, stop, failed>>

\* One row about an order without a record.
StreamOrphan ==
    /\ phase \in Waiting /\ stream = "running"
    /\ Len(table) + Cardinality(pending) < MaxOrders /\ \A i \in Ids : table[i].side # "unknown"
    /\ table' = Append(table, Orphan)
    /\ alarm' = TRUE /\ safe' = TRUE
    /\ stream' = AfterMessage
    /\ reports < MaxReports /\ reports' = reports + 1
    /\ UNCHANGED <<mode, phase, batch, quoting, stop, failed>>

RequestStop ==
    /\ phase \in Waiting /\ ~stop
    /\ stop' = TRUE
    /\ UNCHANGED <<mode, table, phase, batch, quoting, safe, alarm, stream, failed, reports>>

-----------------------------------------------------------------------------
(* The risk drills (src/src/mm/risk/drills.py), which an acceptance report *)
(* runs on the engine after its run.                                       *)

AfterRun == View(table, safe, 1, 0, 0)

SafeModeDrill(e) == Risk!Validate(DrillIntent, [e EXCEPT !.safe = TRUE]) = "safe_mode"

CrossingDrill(e) ==
    Risk!Validate([DrillIntent EXCEPT !.price = Market.ask, !.side = "buy"], e) = "post_only_cross"

StaleDrill(e) ==
    Risk!Validate(DrillIntent, [e EXCEPT !.markets[Symbol].received = @ - 10000]) = "stale_market"

UnknownDrill(e) ==
    LET unknown == [id |-> 0, strategy |-> "drill", symbol |-> Symbol, side |-> "buy", level |-> 1,
                    price |-> DrillIntent.price, remaining |-> DrillIntent.size, status |-> "UNKNOWN"]
    IN  Risk!Validate(DrillIntent, [e EXCEPT !.orders = @ \cup {unknown}]) = "unknown_order"

DrillsPass(e) == SafeModeDrill(e) /\ CrossingDrill(e) /\ StaleDrill(e) /\ UnknownDrill(e)

-----------------------------------------------------------------------------
(* The console on the order file that a run has left, while the exchange   *)
(* lists the orders in `listed` as open and some that the file lacks.      *)

OrderFile == [i \in Ids |-> table[i].status]
Listing(listed, orphans) ==
    [k \in listed \cup (Len(table) + 1 .. Len(table) + Len(orphans)) |-> "OPEN"]
Shown(listed, orphans, credentials) ==
    Console!Diffs(OrderFile, Console!Remote(mode, TRUE, credentials, TRUE, Listing(listed, orphans)))

-----------------------------------------------------------------------------
Wanted == {{[strategy |-> s[1], symbol |-> s[2], side |-> s[3], level |-> s[4], price |-> f[s], size |-> 1] :
               s \in {t \in Slots : f[t] # 0}} :
              f \in {g \in [Slots -> Prices["buy"] \cup Prices["sell"] \cup {0}] :
                         \A s \in Slots : g[s] \in Prices[s[3]] \cup {0}}}

Records == 1..MaxOrders

Listable(S) == S \subseteq {i \in Ids : table[i].status \in NonTerminal}

\* What the loop's task does when the call it waits for is answered or fails.
Proceed ==
    \/ Connect
    \/ phase = "reconciling" /\ \E listed \in SUBSET Records, o \in Listings :
          Listable(listed) /\ Reconcile(listed, o)
    \/ phase = "reconciling" /\ \E listed, done \in SUBSET Records :
          Listable(listed) /\ ReconcileRefused(listed, done)
    \/ \E accepted \in BOOLEAN : CancelAnswered(accepted)
    \/ phase = "canceling" /\ \E accepted \in BOOLEAN, done \in SUBSET Records : CancelRaises(accepted, done)
    \/ phase = "submitting" /\ \E target \in [batch -> SubmitStatuses] : SubmitAnswered(target)
    \/ phase = "submitting" /\ \E target \in [batch -> SubmitStatuses], done \in SUBSET Records :
          SubmitRaises(target, done)
    \/ Settled
    \/ LoopEnds
    \/ CancelAll
    \/ \E accepted \in BOOLEAN : ShutdownAnswered(accepted)
    \/ phase = "shutdown" /\ \E accepted \in BOOLEAN, done \in SUBSET Records : ShutdownRaises(accepted, done)

Ticks == phase = "ticking" /\ \E wanted \in Wanted, admin \in BOOLEAN : Tick(wanted, admin)

Others ==
    \/ RequestFails
    \/ \E i \in Records, new \in Reported : StreamReport(i, new)
    \/ StreamOrphan
    \/ RequestStop

Next == Proceed \/ Ticks \/ Others

Spec == Init /\ [][Next]_vars

\* The engine's task is scheduled, and every request it waits for has a timeout.
LiveSpec == Spec /\ WF_vars(Proceed)

-----------------------------------------------------------------------------
\* Types; the gateway call that the loop waits for is about records that exist,
\* and no intent outlives its tick.
TypeOK ==
    /\ mode \in Modes /\ phase \in Phases
    /\ \A i \in Ids : table[i].status \in Statuses
    /\ batch \subseteq Ids
    /\ batch # {} <=> phase \in {"canceling", "submitting", "shutdown"}
    /\ pending # {} => phase = "canceling"
    /\ last \in [Slots -> Nat] /\ tick \in Nat
    /\ safe \in BOOLEAN /\ alarm \in BOOLEAN /\ stop \in BOOLEAN /\ failed \in BOOLEAN
    /\ stream \in {"off", "running", "ended"}

\* Never two working orders in one slot, except that one of them had been in
\* doubt: the quote engine sees no order in doubt, and the stream may bring it
\* back between the tick's look at the table and the check of the new order
\* (quote/engine.py:119, app.py:197, risk/engine.py:61).
OnePerSlotUnlessDoubted ==
    \A i, j \in OpenIds(table) :
        (/\ i # j /\ table[i].level # NoLevel
         /\ table[i].side = table[j].side /\ table[i].level = table[j].level)
            => table[i].doubted \/ table[j].doubted

\* All places of a tick pass a check that counts none of the others, so the
\* limit on open orders may be passed, but by less than one order per slot,
\* orders in doubt included (app.py:197-204, risk/engine.py:76).
OpenCountBounded ==
    Cardinality({i \in Ids : table[i].level # NoLevel /\ table[i].status \in NonTerminal})
        <= Limits.maxOpenOrders - 1 + Cardinality(Slots)

\* After a run whose cancel_all did not raise, no record says that an order is
\* working, except one that had been in doubt and that the stream brought back
\* during the last call; and the stream is closed (app.py:95-99).
ShutdownLeavesOnlyDoubt ==
    (phase = "stopped" /\ ~failed) => /\ \A i \in OpenIds(table) : table[i].doubted
                                      /\ stream = "ended"

\* The drills tell what the engine is worth: after a run that left nothing
\* working or in doubt and no alarm, each of them sees its own rule refuse
\* (risk/drills.py, scripts/generate_acceptance_report.py:36).
DrillsPassAfterCleanRun ==
    (phase = "stopped" /\ ~failed /\ ~safe /\ \A i \in Ids : table[i].status \in Terminal) =>
        DrillsPass(AfterRun)

\* The console foretells the next start.  It raises the gate whenever the
\* reconciliation at start-up would put the engine in safe mode; it shows more
\* than information whenever that reconciliation would be refused; it raises the
\* gate for nothing else, except for an order in doubt that the reconciliation
\* settles; and it never says "matched" unless the exchange was asked
\* (scripts/admin_server.py:1328-1406, oms/manager.py:231-251, app.py:84-91).
ConsoleForeseesReconcile ==
    (phase = "stopped" /\ mode = "live") =>
        \A listed \in SUBSET Ids, o \in Listings :
            LET shown == Shown(listed, o, TRUE)
                gate == Console!UnknownGate(shown)
                completes == Completes(Ids, Target(listed))
                doubt == AnyUnknown(AfterMoves(Ids, Target(listed)) \o o)
            IN  /\ completes /\ doubt => gate
                /\ ~completes => \E d \in shown : d.severity # "info"
                /\ gate => ~completes \/ doubt \/ \E i \in listed : table[i].status = "UNKNOWN"
                /\ \A d \in Shown(listed, o, FALSE) : d.type # "matched"

\* A request to stop is honoured, whatever the engine is doing, and whichever of
\* its calls raise.
StopsWhenAsked == stop ~> phase = "stopped"

=============================================================================
