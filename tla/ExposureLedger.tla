--------------------------- MODULE ExposureLedger ---------------------------
(***************************************************************************)
(* What the order management promises about exposure, without statuses,    *)
(* acknowledgements, failing saves or crashes: an order that may trade is  *)
(* in a durable ledger before it can trade and leaves the ledger only when *)
(* it can never trade again, or on the word of an answered cancel request. *)
(* A restart is not a step of this specification: it must not be visible   *)
(* here.                                                                   *)
(***************************************************************************)
CONSTANT Orders

VARIABLES
    ledger,    \* orders recorded as possibly working
    closed,    \* orders recorded as over, which they are
    presumed,  \* orders recorded as over because a cancel request was answered
    answered,  \* orders of the cancel call in flight whose request was answered
    exposed    \* orders that can trade: on their way to the exchange or live there

vars == <<ledger, closed, presumed, answered, exposed>>

Init ==
    /\ ledger = {} /\ closed = {} /\ presumed = {}
    /\ answered = {}
    /\ exposed = {}

\* New orders are written down; those of `sent` are then let out.
Place(S, sent) ==
    /\ S \cap (ledger \cup closed \cup presumed) = {}
    /\ sent \subseteq S
    /\ ledger' = ledger \cup S
    /\ exposed' = exposed \cup sent
    /\ UNCHANGED <<closed, presumed, answered>>

\* An order stops being able to trade: filled, canceled or refused.
Settle(o) ==
    /\ o \in exposed
    /\ exposed' = exposed \ {o}
    /\ UNCHANGED <<ledger, closed, presumed, answered>>

\* A cancel request for an order is answered; the order is over, or it is not.
Answer(o) ==
    /\ o \in ledger \cup closed \cup presumed
    /\ answered' = answered \cup {o}
    /\ exposed' \in {exposed, exposed \ {o}}
    /\ UNCHANGED <<ledger, closed, presumed>>

\* Orders that cannot trade any more are closed, those included that were only
\* presumed over; others leave the ledger on the word of an answered cancel
\* request.  The call may end.
Close(S, word) ==
    /\ S \subseteq (ledger \cup presumed) \ exposed
    /\ word \subseteq (ledger \cap answered) \ S
    /\ ledger' = ledger \ (S \cup word)
    /\ closed' = closed \cup S
    /\ presumed' = (presumed \ S) \cup word
    /\ answered' \in {answered, {}}
    /\ UNCHANGED exposed

Next ==
    \/ \E S \in SUBSET Orders, sent \in SUBSET Orders : Place(S, sent)
    \/ \E o \in Orders : Settle(o) \/ Answer(o)
    \/ \E S, word \in SUBSET Orders : Close(S, word)

Spec == Init /\ [][Next]_vars

=============================================================================
