---------------------------- MODULE PrivateFills ----------------------------
(***************************************************************************)
(* How executions on the exchange become fills in the engine in live mode: *)
(* the WebSocket connection (src/src/mm/exchange/bitmart/ws_client.py),    *)
(* the rows it brings (private_stream.py), what they do to the records     *)
(* (oms/manager.py), and what the stream's task does with the fills and    *)
(* with errors (app.py).  Meanwhile a REST reconciliation or the answer of *)
(* a cancel changes the same records.                                      *)
(***************************************************************************)
EXTENDS Integers, Sequences, OrderState

CONSTANTS Orders,    \* orders on the exchange, all of size Size
          Named,     \* those whose rows carry a client_order_id
          Own,       \* those with a record
          Size,
          MaxQueue   \* bound on rows under way

ASSUME OrdersAssumption == Named \subseteq Orders /\ Own \subseteq Named /\ Size \in Nat

VARIABLES truth,    \* external: status and executed size of each order
          queue,    \* external: rows on the connection
          up,       \* logged in and subscribed
          rec,      \* OrderManager._orders; "NONE" is no record
          handed,   \* size given to PnL and hedging as fills, per order
          rest,     \* history: filled_size first learnt by REST
          missed,   \* history: the exchange had news while nobody listened
          alarm     \* an internal safe mode reason is set

fillVars == <<truth, queue, up, rec, handed, rest, missed, alarm>>

Larger(a, b) == IF a >= b THEN a ELSE b

FillsInit ==
    /\ truth = [o \in Orders |-> [status |-> "OPEN", filled |-> 0]]
    /\ queue = <<>> /\ up = FALSE
    /\ rec = [o \in Orders |-> [status |-> IF o \in Own THEN "SUBMITTING" ELSE "NONE", filled |-> 0]]
    /\ handed = [o \in Orders |-> 0] /\ rest = [o \in Orders |-> 0]
    /\ missed = FALSE /\ alarm = FALSE

-----------------------------------------------------------------------------
(* External: the exchange, which tells those who are subscribed.           *)

Tell(o) ==
    IF up THEN /\ Len(queue) < MaxQueue
               /\ queue' = Append(queue, [order |-> o, status |-> truth'[o].status,
                                          filled |-> truth'[o].filled])
               /\ UNCHANGED missed
    ELSE missed' = TRUE /\ UNCHANGED queue

Working(o) == truth[o].status \in {"OPEN", "PARTIALLY_FILLED"}

Execute(o) ==
    /\ Working(o)
    /\ \E filled \in truth[o].filled + 1 .. Size :
          truth' = [truth EXCEPT ![o] = [status |-> IF filled = Size THEN "FILLED" ELSE "PARTIALLY_FILLED",
                                         filled |-> filled]]
    /\ Tell(o)
    /\ UNCHANGED <<up, rec, handed, rest, alarm>>

CancelOnExchange(o) ==
    /\ Working(o)
    /\ truth' = [truth EXCEPT ![o].status = IF @ = "OPEN" THEN "CANCELED" ELSE "PARTIALLY_CANCELED"]
    /\ Tell(o)
    /\ UNCHANGED <<up, rec, handed, rest, alarm>>

-----------------------------------------------------------------------------
(* The connection: stream of the client, _run_private_stream.              *)

\* Connected, logged in and subscribed.
Subscribe == ~up /\ up' = TRUE /\ UNCHANGED <<truth, queue, rec, handed, rest, missed, alarm>>

Drop == up' = FALSE /\ queue' = <<>>

\* The server closes the connection in order: the client reconnects by itself
\* and nobody is told; what was on its way is lost.
CloseInOrder ==
    /\ up /\ Drop
    /\ missed' = (missed \/ queue # <<>>)
    /\ UNCHANGED <<truth, rec, handed, rest, alarm>>

\* The connection breaks, or a login fails or is not answered in time.
ConnectionFails ==
    /\ Drop
    /\ alarm' = TRUE
    /\ UNCHANGED <<truth, rec, handed, rest, missed>>

-----------------------------------------------------------------------------
(* apply_message, over the rows of a message.                              *)

Before == [rec |-> rec, fills |-> [o \in Orders |-> 0], unknown |-> FALSE, raised |-> FALSE]

\* apply_order_update: filled_size grows before the transition is checked.
Updated(r, status, filled) ==
    [status |-> IF CanTransition(r.status, status) THEN status ELSE r.status,
     filled |-> Larger(r.filled, filled)]

\* Mutant: the fill is what the row says, not what it adds.
FillOfTotal(r, new, status) == IF status = "UNKNOWN" THEN 0 ELSE new.filled

\* The fill a row makes: what the record has grown by, unless it is in doubt.
Fill(r, new, status) == IF status = "UNKNOWN" THEN 0 ELSE new.filled - r.filled

\* One row of _apply_order_rows; after one that raised no other is looked at.
ApplyRow(s, row) ==
    LET o == row.order
        r == s.rec[o]
        status == IF o \in Named THEN row.status ELSE "UNKNOWN"
        new == Updated(r, status, row.filled)
    IN  IF s.raised THEN s
        ELSE IF r.status = "NONE"
        THEN [s EXCEPT !.rec[o] = [status |-> "UNKNOWN", filled |-> row.filled], !.unknown = TRUE]
        ELSE IF ~CanTransition(r.status, status)
        THEN [s EXCEPT !.rec[o] = new, !.raised = TRUE]
        ELSE [s EXCEPT !.rec[o] = new,
                       !.fills[o] = @ + Fill(r, new, status),
                       !.unknown = @ \/ status = "UNKNOWN"]

\* _consume_private_stream with a message of n rows, one or two.  When a row raises, the
\* fills of the rows before it are not reported either.
Receive(n) ==
    LET first == ApplyRow(Before, queue[1])
        after == IF n = 1 THEN first ELSE ApplyRow(first, queue[2])
    IN  /\ up /\ n <= Len(queue)
        /\ rec' = after.rec
        /\ handed' = IF after.raised THEN handed ELSE [o \in Orders |-> handed[o] + after.fills[o]]
        /\ alarm' = (alarm \/ after.unknown \/ after.raised)
        /\ IF after.raised THEN Drop ELSE queue' = SubSeq(queue, n + 1, Len(queue)) /\ UNCHANGED up
        /\ UNCHANGED <<truth, rest, missed>>

-----------------------------------------------------------------------------
(* The other writers of the records.                                       *)

\* reconcile_open_orders names an order that is working.
ReconcileRow(o) ==
    /\ o \in Named /\ Working(o)
    /\ IF rec[o].status = "NONE"
       THEN /\ rec' = [rec EXCEPT ![o] = [status |-> "UNKNOWN", filled |-> truth[o].filled]]
            /\ alarm' = TRUE
            /\ UNCHANGED rest
       ELSE /\ CanTransition(rec[o].status, truth[o].status)
            /\ rec' = [rec EXCEPT ![o] = Updated(rec[o], truth[o].status, truth[o].filled)]
            /\ rest' = [rest EXCEPT ![o] = @ + rec'[o].filled - rec[o].filled]
            /\ UNCHANGED alarm
    /\ UNCHANGED <<truth, queue, up, handed, missed>>

Becomes(o, status) ==
    /\ rec' = [rec EXCEPT ![o].status = status]
    /\ UNCHANGED <<truth, queue, up, handed, rest, missed, alarm>>

\* The answer of a submit, or none.  (An answer that the record has outrun ends
\* the run: OrderManager.)
Acknowledged(o) == rec[o].status = "SUBMITTING" /\ \E status \in {"OPEN", "UNKNOWN"} : Becomes(o, status)

CancelAsked(o) == IsOpen(rec[o].status) /\ CanTransition(rec[o].status, "CANCELING") /\ Becomes(o, "CANCELING")

\* The answer of a batch cancel, or none: when there is one, each of its orders
\* counts as CANCELED, whatever its row of the answer says.
CancelAnswered(o) == rec[o].status = "CANCELING" /\ \E status \in {"CANCELED", "UNKNOWN"} : Becomes(o, status)

FillsNext ==
    \/ \E o \in Orders : Execute(o) \/ CancelOnExchange(o) \/ ReconcileRow(o)
    \/ \E o \in Own : Acknowledged(o) \/ CancelAsked(o) \/ CancelAnswered(o)
    \/ Subscribe \/ CloseInOrder \/ ConnectionFails
    \/ \E n \in 1..2 : Receive(n)

FillsSpec == FillsInit /\ [][FillsNext]_fillVars

-----------------------------------------------------------------------------
\* PnL and hedging are given no execution twice; and while no alarm is raised
\* and nothing was missed between two connections, they have been given every
\* execution that is not still under way, except what a reconciliation found
\* first.  So a refused row, a cancel that did not cancel, an order without a
\* name or in doubt never lose a fill quietly (private_stream.py:70-101,
\* app.py:377-424, rest.py:220-252).
FillsReachTheBooks ==
    /\ \A o \in Orders : handed[o] + rest[o] <= truth[o].filled
    /\ (~alarm /\ ~missed /\ queue = <<>>) =>
            \A o \in Orders : handed[o] + rest[o] = truth[o].filled

=============================================================================
