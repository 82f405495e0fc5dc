---------------------------- MODULE OrderManager ----------------------------
(***************************************************************************)
(* The order management system (src/src/mm/oms) between the engine task,   *)
(* which calls it, the BitMart REST gateway, which it calls, the private   *)
(* order stream, which updates it, and the order store, which outlives the *)
(* process.                                                                *)
(*                                                                         *)
(* Everything runs on one event loop, so code between two awaits is one    *)
(* step.  The engine has at most one gateway call in flight (`call`);      *)
(* the private stream and the exchange move while it waits, and a late     *)
(* answer is applied to whatever the records have become.  A loop over     *)
(* orders is one step that may stop early: at the first transition the     *)
(* state machine refuses (OrderStateError), at the first record the store  *)
(* cannot save, or because the process dies.                               *)
(***************************************************************************)
EXTENDS OrderState, Naturals, Sequences, FiniteSets

CONSTANTS
    Own,         \* client order ids this engine may submit
    Foreign,     \* ids of orders somebody else placed on the account
    Symbols,     \* the configured symbols
    SymbolOf,    \* the symbol of every order
    Size,        \* order size, in units that trade one by one
    PageLimit,   \* most orders an open-orders answer lists (200 in the code)
    MaxStream,   \* bound: reports waiting in the private stream
    MaxKills     \* bound: process deaths

ASSUME SizeAssumption == Size \in Nat \ {0}
ASSUME BoundAssumption == MaxStream \in Nat /\ MaxKills \in Nat
ASSUME IdAssumption == Own \cap Foreign = {}

Ids == Own \cup Foreign

ASSUME SymbolAssumption == SymbolOf \in [Ids -> Symbols]

\* The orders of one symbol.
OrdersOf(symbol) == {i \in Ids : SymbolOf[i] = symbol}

NoRecord == "NONE"       \* no OrderRecord under this id

\* What the exchange holds for an id; only the first two may still trade.
XLive == {"new", "partially_filled"}
XFinal == {"filled", "canceled", "partially_canceled", "failed"}
XStates == {"none"} \cup XLive \cup XFinal

Report == [id : Ids, status : Statuses, filled : 0..Size]

Ops == {"idle", "submit", "cancel", "ask_open", "got_open", "ask_order", "got_order"}

VARIABLES
    status, filled,              \* OrderManager._orders
    savedStatus, savedFilled,    \* the order store
    call,                        \* the engine's gateway call in flight
    placing, canceling,          \* requests on the network, not yet served
    xstate, xfilled,             \* the exchange's own orders
    connected, stream,           \* the private stream and its waiting reports
    booked,                      \* size of the FillEvents the stream emitted
    presumed,                    \* CANCELED on no more than the answer of a batch cancel
    raised,                      \* why submits and cancels of this process raised
    reconciled,                  \* orders of the symbols this process has reconciled
    kills                        \* process deaths so far

memory == <<status, filled>>
store == <<savedStatus, savedFilled>>
net == <<placing, canceling>>
exchange == <<xstate, xfilled>>
link == <<connected, stream>>
history == <<booked, presumed, raised, reconciled, kills>>
vars == <<memory, store, call, net, exchange, link, history>>

\* A call as it is made: none of its orders served, nothing answered.
NewCall(op, ids) == [op |-> op, ids |-> ids, served |-> {}, answer |-> {}]

Idle == NewCall("idle", {})

CallType == [op : Ops, ids : SUBSET Ids, served : SUBSET Ids, answer : SUBSET Report]

Init ==
    /\ status = [i \in Ids |-> NoRecord]
    /\ filled = [i \in Ids |-> 0]
    /\ savedStatus = status
    /\ savedFilled = filled
    /\ call = Idle
    /\ placing = {} /\ canceling = {}
    /\ xstate = [i \in Ids |-> "none"]
    /\ xfilled = [i \in Ids |-> 0]
    /\ connected = FALSE /\ stream = <<>>
    /\ booked = [i \in Ids |-> 0]
    /\ presumed = {}
    /\ raised = {}
    /\ reconciled = {}
    /\ kills = 0

-----------------------------------------------------------------------------
(* Reports: how the gateway and the stream name the exchange's states.     *)

\* Mutant: the cumulative filled size of a report is added to what is known.
HigherAdds(a, b) == a + b

\* max(record.filled_size, update.filled_size)
Higher(a, b) == IF a >= b THEN a ELSE b

\* Mutant: a state name without an entry in the table is passed on as it is.
RestStatusUnmapped(x) == IF x = "failed" THEN x ELSE "UNKNOWN"

\* BitMartRestGateway._parse_order_update
RestStatus(x) ==
    CASE x = "new" -> "OPEN"
      [] x = "partially_filled" -> "PARTIALLY_FILLED"
      [] x = "filled" -> "FILLED"
      [] x = "canceled" -> "CANCELED"
      [] x = "partially_canceled" -> "PARTIALLY_CANCELED"
      [] x = "failed" -> "REJECTED"
      [] OTHER -> "UNKNOWN"

\* parse_private_order_update: "failed" is not in its table.
StreamStatus(x) == IF x = "failed" THEN "UNKNOWN" ELSE RestStatus(x)

RestReport(i) == [id |-> i, status |-> RestStatus(xstate[i]), filled |-> xfilled[i]]

-----------------------------------------------------------------------------
(* Loops over orders.  Each order of `done` moves to new[i] with filled    *)
(* size size[i] and is saved.  A loop that raises stops at the order of    *)
(* `bad`: its filled size changed before its transition was refused, or    *)
(* its status changed as well before the store failed to save it.          *)

Accepts(i, s) == status[i] = NoRecord \/ CanTransition(status[i], s)

\* A store that raises may have saved the record (OrderStores), so that the loop
\* stops behind an order of `done`.
LoopEnds(todo, new, done, bad, how) ==
    /\ \A i \in done : Accepts(i, new[i])
    /\ \/ how = "returned" /\ done = todo /\ bad = {}
       \/ how = "refused" /\ \E i \in todo \ done : ~Accepts(i, new[i]) /\ bad = {i}
       \/ /\ how = "unsaved"
          /\ \/ bad = {} /\ done # {}
             \/ \E i \in todo \ done : Accepts(i, new[i]) /\ bad = {i}
       \/ how = "killed" /\ bad = {}

Updated(f, S, g) == [i \in Ids |-> IF i \in S THEN g[i] ELSE f[i]]

Saves(done, new, size) ==
    /\ savedStatus' = Updated(savedStatus, done, new)
    /\ savedFilled' = Updated(savedFilled, done, size)

\* A process that dies comes back with what the store holds.
Remembers(done, bad, new, size, how) ==
    LET moved == IF how = "unsaved" THEN done \cup bad ELSE done
    IN  IF how = "killed"
        THEN status' = savedStatus' /\ filled' = savedFilled'
        ELSE status' = Updated(status, moved, new) /\ filled' = Updated(filled, done \cup bad, size)

\* OrderManager._transition and _persist for the orders of a loop.
Writes(done, bad, new, size, how) ==
    Saves(done, new, size) /\ Remembers(done, bad, new, size, how)

\* What ends with the step: an exception is remembered; a dead process has no
\* call in flight and no stream, and requests it sent stay on their way.  An
\* order is presumed canceled when the answer of a batch cancel made it so.
Ends(how, op, next) ==
    /\ reconciled' = IF how = "killed" THEN {}
                     ELSE IF how = "returned" /\ op = "reconcile" THEN reconciled \cup call.ids
                     ELSE reconciled
    /\ presumed' = {i \in Ids : /\ status'[i] = "CANCELED"
                                /\ \/ i \in presumed
                                   \/ call.op = "cancel" /\ status[i] \notin Terminal}
    /\ IF how = "killed"
       THEN /\ raised' = {}
            /\ kills < MaxKills
            /\ kills' = kills + 1
            /\ call' = Idle
            /\ connected' = FALSE /\ stream' = <<>>
       ELSE /\ raised' = IF how # "returned" /\ op \in {"submit", "cancel"}
                         THEN raised \cup {<<op, how>>} ELSE raised
            /\ UNCHANGED <<kills, link>>
            /\ call' = IF how = "returned" THEN next ELSE Idle

-----------------------------------------------------------------------------
(* The engine's calls.                                                     *)

\* OrderManager.submit_batch up to the gateway call: every record is created,
\* saved, moved to SUBMITTING and saved before anything is sent.  Ids are new
\* (new_client_order_id).  A loop that stops may leave an order saved as CREATED
\* (`half`), which is SUBMITTING in memory when its second save failed (`begun`),
\* or CREATED in memory only (`bad`).
SubmitBegin(S, how, done, bad, half, begun) ==
    LET saved == [i \in Ids |-> IF i \in half THEN "CREATED" ELSE "SUBMITTING"]
        new == [i \in Ids |-> IF i \in bad \cup (half \ begun) THEN "CREATED" ELSE "SUBMITTING"]
        size == [i \in Ids |-> 0]
    IN  /\ call = Idle
        /\ how \in {"returned", "unsaved", "killed"}
        /\ half \subseteq done /\ \A i, j \in half \cup bad : i = j
        /\ how = "returned" => half = {}
        /\ begun # {} => how = "unsaved"
        /\ LoopEnds(S, new, done, bad, how)
        /\ Saves(done, saved, size)
        /\ Remembers(done, bad, new, size, how)
        /\ placing' = IF how = "returned" THEN placing \cup S ELSE placing
        /\ Ends(how, "submit", NewCall("submit", S))
        /\ UNCHANGED <<canceling, exchange, booked>>

\* An accepted submit of the same request, whose row the gateway may read for a
\* refused order: the rows of an answer are matched by client order id or else
\* by position.
RowOfAnother(i) ==
    \E j \in call.served \ {i} : SymbolOf[j] = SymbolOf[i] /\ xstate[j] # "failed"

\* The rest of submit_batch.  The gateway gives (accepted, OPEN) for an order it
\* finds a row for and (refused, UNKNOWN) for anything else: a refused row, a
\* missing row, an HTTP error or a timeout.  A gateway that raises instead puts
\* every order in doubt, which is the case acked = {}.
SubmitAnswered(acked, done, how) ==
    LET new == [i \in Ids |-> IF i \in acked THEN AckTarget(TRUE, "OPEN")
                              ELSE AckTarget(FALSE, "UNKNOWN")]
    IN  /\ call.op = "submit"
        /\ acked \subseteq {i \in call.served : xstate[i] # "failed" \/ RowOfAnother(i)}
        /\ done \subseteq call.ids
        /\ \E bad \in SUBSET call.ids :
              /\ LoopEnds(call.ids, new, done, bad, how)
              /\ Writes(done, bad, new, filled, how)
        /\ Ends(how, "submit", Idle)
        /\ UNCHANGED <<net, exchange, booked>>

\* OrderManager.cancel_batch up to the gateway call: missing and terminal
\* records are skipped; a record that cannot go to CANCELING raises, and what
\* was moved before it stays CANCELING with no request sent.
CancelBegin(S, done, how) ==
    LET new == [i \in Ids |-> "CANCELING"]
        active == {i \in S : status[i] \in NonTerminal}
    IN  /\ call = Idle
        /\ done \subseteq active
        /\ \E bad \in SUBSET active :
              /\ LoopEnds(active, new, done, bad, how)
              /\ Writes(done, bad, new, filled, how)
        /\ canceling' = IF how = "returned" THEN canceling \cup active ELSE canceling
        /\ Ends(how, "cancel", IF active = {} THEN Idle
                               ELSE NewCall("cancel", active))
        /\ UNCHANGED <<placing, exchange, booked>>

\* The rest of cancel_batch.  The gateway sends one request per symbol, reads no
\* row of an answer and says CANCELED of every order of an answered request,
\* whatever became of it; it does not know of the others, which are put in doubt
\* if they are still CANCELING.  When the gateway raises, every order is.
CancelAnswered(answered, exception, done, how) ==
    LET accepted == {i \in call.ids : SymbolOf[i] \in answered}
        new == [i \in Ids |-> IF i \in accepted THEN "CANCELED" ELSE "UNKNOWN"]
        todo == IF exception THEN call.ids
                ELSE accepted \cup {i \in call.ids : status[i] = "CANCELING"}
    IN  /\ call.op = "cancel"
        /\ accepted \subseteq call.served
        /\ exception => answered = {}
        /\ done \subseteq todo
        /\ \E bad \in SUBSET todo :
              /\ LoopEnds(todo, new, done, bad, how)
              /\ Writes(done, bad, new, filled, how)
        /\ Ends(how, "cancel", Idle)
        /\ UNCHANGED <<net, exchange, booked>>

\* ReconciliationService.reconcile_open_orders asks for one symbol's open orders.
AskOpenOrders(symbol) ==
    /\ call = Idle
    /\ call' = NewCall("ask_open", OrdersOf(symbol))
    /\ UNCHANGED <<memory, store, net, exchange, link, history>>

\* Mutant: local open orders the exchange does not list are left alone.
MissingIgnored(seen) == {}

\* The local open orders of the symbol that were not listed.
Missing(seen) == {i \in call.ids \ seen : IsOpen(status[i])}

\* OrderManager.reconcile_open_orders on the snapshot that came back: listed
\* orders are updated or adopted as orphans, then every local open order that
\* is not listed is put in doubt.
ReconcileApply(done, bad, how) ==
    LET seen == {r.id : r \in call.answer}
        rep == [i \in seen |-> CHOOSE r \in call.answer : r.id = i]
        missing == Missing(seen)
        new == [i \in Ids |-> IF i \in seen /\ status[i] # NoRecord THEN rep[i].status
                              ELSE "UNKNOWN"]
        size == [i \in Ids |-> IF i \in seen THEN Higher(filled[i], rep[i].filled)
                               ELSE filled[i]]
    IN  /\ call.op = "got_open"
        /\ done \subseteq seen \cup missing
        /\ done \cap missing # {} => seen \subseteq done
        /\ LoopEnds(seen \cup missing, new, done, bad, how)
        /\ Writes(done, bad, new, size, how)
        /\ Ends(how, "reconcile", Idle)
        /\ UNCHANGED <<net, exchange, booked>>

\* ReconciliationService.repair_unknown_orders asks for one order in doubt.
AskOrder(i) ==
    /\ call = Idle
    /\ status[i] = "UNKNOWN"
    /\ call' = NewCall("ask_order", {i})
    /\ UNCHANGED <<memory, store, net, exchange, link, history>>

\* The rest of repair_unknown_orders for that order.
RepairApply(r, done, bad, how) ==
    LET new == [i \in Ids |-> r.status]
        size == [i \in Ids |-> Higher(filled[i], r.filled)]
        todo == IF r.status = "UNKNOWN" THEN {} ELSE {r.id}
    IN  /\ call.op = "got_order"
        /\ done \subseteq todo
        /\ LoopEnds(todo, new, done, bad, how)
        /\ Writes(done, bad, new, size, how)
        /\ Ends(how, "repair", Idle)
        /\ UNCHANGED <<net, exchange, booked>>

\* A query fails (error answer, timeout, order not found): it raises and the
\* records keep their statuses.
QueryFails ==
    /\ call.op \in {"ask_open", "ask_order"}
    /\ call' = Idle
    /\ UNCHANGED <<memory, store, net, exchange, link, history>>

\* The process dies while nothing is being written and starts again from the
\* store (OrderManager.__init__).
Kill ==
    /\ Writes({}, {}, status, filled, "killed")
    /\ Ends("killed", "none", Idle)
    /\ UNCHANGED <<net, exchange, booked>>

-----------------------------------------------------------------------------
(* The exchange, as far as the gateway and the stream show it.             *)

Reportable == connected => Len(stream) < MaxStream

Push(i, x, n) ==
    /\ Reportable
    /\ stream' = IF connected
                 THEN Append(stream, [id |-> i, status |-> StreamStatus(x), filled |-> n])
                 ELSE stream
    /\ UNCHANGED connected

Moves(i, x, n) ==
    /\ xstate' = [xstate EXCEPT ![i] = x]
    /\ xfilled' = [xfilled EXCEPT ![i] = n]
    /\ Push(i, x, n)

\* A submit request is served, in time or long after the caller gave up: the
\* order goes live or is refused (post-only, balance, minimum).
ServePlace(i, x) ==
    /\ i \in placing
    /\ x \in {"new", "failed"}
    /\ placing' = placing \ {i}
    /\ Moves(i, x, 0)
    /\ call' = [call EXCEPT !.served =
                    IF call.op = "submit" /\ i \in call.ids THEN @ \cup {i} ELSE @]
    /\ UNCHANGED <<memory, store, canceling, history>>

\* A live order is canceled.
Cancels(i) ==
    /\ xstate[i] \in XLive
    /\ Moves(i, IF xfilled[i] = 0 THEN "canceled" ELSE "partially_canceled", xfilled[i])

\* A cancel request is served.  An order that is over stays so, a live one is
\* canceled or is left as it is (not found under the identifier sent, or not
\* cancelable); the rows of the answer tell, but nobody reads them.
ServeCancel(i) ==
    /\ i \in canceling
    /\ canceling' = canceling \ {i}
    /\ Cancels(i) \/ UNCHANGED <<exchange, link>>
    /\ call' = [call EXCEPT !.served =
                    IF call.op = "cancel" /\ i \in call.ids THEN @ \cup {i} ELSE @]
    /\ UNCHANGED <<memory, store, placing, history>>

\* One unit of a live order trades.
Trade(i) ==
    /\ xstate[i] \in XLive
    /\ Moves(i, IF xfilled[i] + 1 = Size THEN "filled" ELSE "partially_filled", xfilled[i] + 1)
    /\ UNCHANGED <<memory, store, call, net, history>>

\* Somebody else uses the account, or cancels one of the orders there; so does
\* this engine when a record holds the exchange's identifier of another order.
Outsider(i) ==
    /\ \/ i \in Foreign /\ xstate[i] = "none" /\ Moves(i, "new", 0)
       \/ Cancels(i)
    /\ UNCHANGED <<memory, store, call, net, history>>

\* The stream reports an order once more.
Repeat(i) ==
    /\ connected /\ xstate[i] # "none"
    /\ Push(i, xstate[i], xfilled[i])
    /\ UNCHANGED <<memory, store, call, net, exchange, history>>

Answered(op, ids) == [op |-> op, ids |-> call.ids, served |-> {},
                      answer |-> {RestReport(i) : i \in ids}]

LiveAsked == {j \in call.ids : xstate[j] \in XLive}

\* An open-orders answer lists every live order asked for, or as many as a page
\* takes.
OpenPage(S) == Cardinality(S) = PageLimit \/ S = LiveAsked

\* The exchange answers a query with what it holds now.
ServeQuery ==
    /\ \/ /\ call.op = "ask_open"
          /\ \E S \in SUBSET LiveAsked :
                /\ OpenPage(S)
                /\ call' = Answered("got_open", S)
       \/ /\ call.op = "ask_order"
          /\ \A i \in call.ids : xstate[i] # "none"
          /\ call' = Answered("got_order", call.ids)
    /\ UNCHANGED <<memory, store, net, exchange, link, history>>

-----------------------------------------------------------------------------
(* The private stream task.                                                *)

\* BitMartPrivateStreamProcessor._apply_order_rows for one row.  An unknown id
\* becomes an orphan record in doubt.  A growing filled size is emitted as a
\* FillEvent unless the record ends in doubt.  A refused transition or a record
\* that is not saved ends the connection, and the reports behind it are lost.
StreamApply(how, done, bad) ==
    LET m == Head(stream)
        new == [i \in Ids |-> IF status[i] = NoRecord THEN "UNKNOWN" ELSE m.status]
        size == [i \in Ids |-> Higher(filled[i], m.filled)]
        fill == IF status[m.id] # NoRecord /\ m.status # "UNKNOWN" THEN size[m.id] - filled[m.id] ELSE 0
    IN  /\ how # "killed"
        /\ LoopEnds({m.id}, new, done, bad, how)
        /\ Writes(done, bad, new, size, how)
        /\ IF how = "returned"
           THEN /\ stream' = Tail(stream)
                /\ booked' = [booked EXCEPT ![m.id] = @ + fill]
                /\ UNCHANGED connected
           ELSE /\ stream' = <<>> /\ connected' = FALSE
                /\ UNCHANGED booked
        /\ presumed' = IF m.status = "CANCELED" THEN presumed \ {m.id} ELSE presumed
        /\ UNCHANGED <<call, net, exchange, raised, reconciled, kills>>

\* The connection opens, or closes and takes the waiting reports with it.
StreamConnect ==
    /\ ~connected
    /\ connected' = TRUE
    /\ UNCHANGED <<memory, store, call, net, exchange, stream, history>>

StreamDrop ==
    /\ connected
    /\ connected' = FALSE /\ stream' = <<>>
    /\ UNCHANGED <<memory, store, call, net, exchange, history>>

-----------------------------------------------------------------------------
Outcomes == {"returned", "refused", "unsaved", "killed"}

Engine ==
    \/ \E S \in (SUBSET {i \in Own : status[i] = NoRecord}) \ {{}}, how \in Outcomes :
          \E done, bad \in SUBSET S :
             \E half \in SUBSET done : \E begun \in SUBSET half :
                SubmitBegin(S, how, done, bad, half, begun)
    \/ \E S \in (SUBSET Ids) \ {{}}, how \in Outcomes :
          \E done \in SUBSET S : CancelBegin(S, done, how)
    \/ \E acked, done \in SUBSET call.ids, how \in Outcomes : SubmitAnswered(acked, done, how)
    \/ \E answered \in SUBSET Symbols, done \in SUBSET call.ids,
          exception \in BOOLEAN, how \in Outcomes :
          CancelAnswered(answered, exception, done, how)
    \/ \E symbol \in Symbols : AskOpenOrders(symbol)
    \/ \E done, bad \in SUBSET call.ids, how \in Outcomes : ReconcileApply(done, bad, how)
    \/ \E i \in Ids : AskOrder(i)
    \/ \E r \in call.answer, how \in Outcomes :
          \E done, bad \in SUBSET {r.id} : RepairApply(r, done, bad, how)
    \/ QueryFails
    \/ Kill

Exchange ==
    \/ \E i \in Ids :
          \/ \E x \in {"new", "failed"} : ServePlace(i, x)
          \/ ServeCancel(i)
          \/ Trade(i)
          \/ Outsider(i)
          \/ Repeat(i)
    \/ ServeQuery

Stream ==
    \/ /\ stream # <<>>
       /\ \E how \in Outcomes, done, bad \in SUBSET {Head(stream).id} : StreamApply(how, done, bad)
    \/ StreamConnect
    \/ StreamDrop

Next == Engine \/ Exchange \/ Stream

Spec == Init /\ [][Next]_vars

-----------------------------------------------------------------------------
(* Properties.                                                             *)

TypeOK ==
    /\ status \in [Ids -> Statuses \cup {NoRecord}]
    /\ savedStatus \in [Ids -> Statuses \cup {NoRecord}]
    /\ filled \in [Ids -> 0..Size] /\ savedFilled \in [Ids -> 0..Size]
    /\ call \in CallType
    /\ placing \subseteq Own /\ canceling \subseteq Ids
    /\ xstate \in [Ids -> XStates] /\ xfilled \in [Ids -> 0..Size]
    /\ connected \in BOOLEAN
    /\ stream \in Seq(Report)
    /\ booked \in [Ids -> Nat]
    /\ presumed \subseteq Ids
    /\ raised \subseteq {"submit", "cancel"} \X {"refused", "unsaved"}
    /\ reconciled \subseteq Ids
    /\ kills \in Nat

\* An order that can trade: its request is on the network or it is live.
Exposed(i) == i \in placing \/ xstate[i] \in XLive

\* Every order of ours that can trade is recorded, in memory and durably, in a
\* status that is neither terminal nor the CREATED of an order never sent: no
\* timeout, late answer, stale report, refused transition, failing save or
\* process death makes the OMS believe that a working order is over or never
\* existed.  What can is the answer of a batch cancel (CanceledIsOver).
NoInvisibleExposure ==
    \A i \in Own : Exposed(i) =>
        \A s \in {status[i], savedStatus[i]} :
            \/ s \in NonTerminal \ {"CREATED"}
            \/ i \in presumed /\ s = "CANCELED"

\* Expected by docs/canary_runbook.md:71 (after stopping and canceling, no order
\* of ours rests at the exchange): an order recorded CANCELED is not live.  The
\* gateway says CANCELED of every order of an answered batch cancel, unread.
CanceledIsOver == \A i \in Own : status[i] = "CANCELED" => xstate[i] \notin XLive

\* Fills are real and counted once: what the stream handed to PnL never exceeds
\* what is saved, that never exceeds what is known in memory, and that never
\* exceeds what traded, whatever is repeated, late, lost, unsaved or restarted.
FillsAreReal ==
    \A i \in Ids : /\ booked[i] <= savedFilled[i]
                   /\ savedFilled[i] <= filled[i]
                   /\ filled[i] <= xfilled[i]

\* A record in SUBMITTING or CANCELING belongs to the call in flight, unless a
\* submit or cancel of this process was cut short by an exception or the process
\* has not reconciled the order's symbol since it was restarted.
TransientHasOwner ==
    raised = {} =>
        \A i \in Ids : status[i] \in {"SUBMITTING", "CANCELING"} =>
            \/ call.op \in {"submit", "cancel"} /\ i \in call.ids
            \/ kills > 0 /\ i \notin reconciled

\* A terminal status is never left.  One that is saved is what memory says and
\* what every restart finds; one the store failed to save can only be lost by a
\* restart.
TerminalIsFinal ==
    [][\A i \in Ids :
          /\ savedStatus[i] \in Terminal =>
                savedStatus'[i] = savedStatus[i] /\ status'[i] = savedStatus[i]
          /\ status[i] \in Terminal /\ kills' = kills => status'[i] = status[i]]_vars

\* The store is a ledger of exposure, and a restart does not show in it.
Ledger == INSTANCE ExposureLedger WITH
    Orders <- Own,
    ledger <- {i \in Own : savedStatus[i] \in NonTerminal},
    closed <- {i \in Own : savedStatus[i] \in Terminal \ {"CANCELED"}}
              \cup {i \in Own \ presumed : savedStatus[i] = "CANCELED"},
    presumed <- {i \in Own \cap presumed : savedStatus[i] = "CANCELED"},
    answered <- {i \in Own : call.op = "cancel" /\ i \in call.served},
    exposed <- {i \in Own : Exposed(i)}

\* The OMS implements the exposure ledger: entries are durable before an order
\* is let out and are closed when it cannot trade any more or when a cancel
\* request for it was answered.
ImplementsLedger == Ledger!Spec

\* Expected by tests/test_bitmart_private_stream.py (a private fill can arrive
\* before the REST acknowledgement): the answer of a submit call can always be
\* applied.  The state machine refuses FILLED -> OPEN, so it cannot.
AckAlwaysApplies == <<"submit", "refused">> \notin raised

=============================================================================
