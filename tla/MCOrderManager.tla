--------------------------- MODULE MCOrderManager ---------------------------
(* TLC instances of OrderManager: symmetric own ids of one symbol, with an   *)
(* outsider's order in another, and a bound that lets one id at a time be in *)
(* play where the history of a single order is what is explored (long        *)
(* partial fills, a deep stream, orphans).                                   *)
EXTENDS OrderManager, TLC, FiniteSets

Symmetry == Permutations(Own)

\* The own orders share a symbol; an outsider's order has the other one.
OurSymbol == "ours"
OtherSymbol == "other"
MCSymbols == {OurSymbol} \cup (IF Foreign = {} THEN {} ELSE {OtherSymbol})
MCSymbolOf == [i \in Ids |-> IF i \in Own THEN OurSymbol ELSE OtherSymbol]

InPlay == {i \in Ids : status[i] # NoRecord \/ xstate[i] # "none" \/ i \in placing}

OneInPlay == Cardinality(InPlay) <= 1

\* States that differ in nothing a run's properties read, or that what they read
\* ever depends on, are one: statuses do not depend on filled sizes, no step
\* depends on what is only remembered for a property, and TransientHasOwner asks
\* for the reconciled orders of a restarted process in which nothing raised.
Said(r) == <<r.id, r.status>>
StatusView ==
    <<status, savedStatus, placing, canceling, xstate, connected,
      call.op, call.ids, call.served, {Said(r) : r \in call.answer},
      [k \in DOMAIN stream |-> Said(stream[k])],
      presumed, kills, raised = {}, IF raised = {} /\ kills > 0 THEN reconciled ELSE {}>>
FillView == <<memory, store, call, net, exchange, link, booked, kills>>

=============================================================================
