----------------------------- MODULE OrderState -----------------------------
(***************************************************************************)
(* The order statuses of the OMS and the transitions it accepts            *)
(* (src/src/mm/common/types.py, src/src/mm/oms/state.py), together with    *)
(* the rule that turns an acknowledgement into a target status.            *)
(***************************************************************************)

\* Terminal statuses: no other status is accepted after one of these.
Terminal == {"FILLED", "CANCELED", "PARTIALLY_CANCELED", "REJECTED", "EXPIRED"}

NonTerminal == {"CREATED", "SUBMITTING", "ACKED", "OPEN", "PARTIALLY_FILLED",
                "CANCELING", "UNKNOWN"}

Statuses == Terminal \cup NonTerminal

\* VALID_TRANSITIONS.get(current, set())
ValidNext(current) ==
    CASE current = "CREATED" ->
            {"SUBMITTING", "REJECTED", "UNKNOWN"}
      [] current = "SUBMITTING" ->
            {"ACKED", "OPEN", "PARTIALLY_FILLED", "FILLED", "CANCELED",
             "PARTIALLY_CANCELED", "REJECTED", "UNKNOWN"}
      [] current = "ACKED" ->
            {"OPEN", "PARTIALLY_FILLED", "FILLED", "CANCELING", "CANCELED", "UNKNOWN"}
      [] current = "OPEN" ->
            {"PARTIALLY_FILLED", "FILLED", "CANCELING", "CANCELED", "UNKNOWN"}
      [] current = "PARTIALLY_FILLED" ->
            {"FILLED", "CANCELING", "PARTIALLY_CANCELED", "CANCELED", "UNKNOWN"}
      [] current = "CANCELING" ->
            {"CANCELED", "PARTIALLY_CANCELED", "FILLED", "UNKNOWN"}
      [] current = "UNKNOWN" ->
            {"OPEN", "PARTIALLY_FILLED", "FILLED", "CANCELED",
             "PARTIALLY_CANCELED", "REJECTED", "EXPIRED"}
      [] OTHER -> {}

\* Mutants of CanTransition: the terminal test is missing, so that a report
\* that differs from a terminal status is accepted after it; and a terminal
\* order may be put back in doubt.
CanTransitionNoTerminal(current, new) ==
    current = new \/ current \in Terminal \/ new \in ValidNext(current)
CanTransitionTerminalToUnknown(current, new) ==
    \/ current = new
    \/ current \in Terminal /\ new = "UNKNOWN"
    \/ new \in ValidNext(current)

\* Mutant: a cancel may be asked for an order in doubt.
CanTransitionDoubtCancels(current, new) ==
    \/ current = new
    \/ current = "UNKNOWN" /\ new = "CANCELING"
    \/ current \notin Terminal /\ new \in ValidNext(current)

\* Staying where it is is always accepted, in a terminal status too.
CanTransition(current, new) ==
    \/ current = new
    \/ current \notin Terminal /\ new \in ValidNext(current)

\* Mutant: an acknowledgement that was not positive rejects the order, also when
\* the gateway only says that it does not know.
AckTargetRejectsUnknown(accepted, ackStatus) ==
    IF accepted THEN "OPEN" ELSE "REJECTED"

\* OrderManager.apply_order_ack: the status an acknowledgement asks for.
AckTarget(accepted, ackStatus) ==
    CASE accepted /\ ackStatus \in {"ACKED", "CREATED", "SUBMITTING"} -> "OPEN"
      [] accepted /\ ackStatus \notin {"ACKED", "CREATED", "SUBMITTING"} -> ackStatus
      [] ~accepted /\ ackStatus = "UNKNOWN" -> "UNKNOWN"
      [] OTHER -> "REJECTED"

\* OrderManager.open_orders: what the engine regards as working in the market.
IsOpen(status) == status \in NonTerminal \ {"UNKNOWN"}

=============================================================================
