---------------------------- MODULE ConsoleView -----------------------------
(***************************************************************************)
(* What the order pages of the admin console (src/scripts/admin_server.py) *)
(* say about the orders in the order store (`local`) and those that the    *)
(* exchange lists (`remote`): functions from an order's key to its status. *)
(***************************************************************************)
EXTENDS Integers, FiniteSets

\* Mutant: an order that is being cancelled is not open.
OpenStatusesUntouched == {"CREATED", "SUBMITTING", "ACKED", "OPEN", "PARTIALLY_FILLED"}

\* open_order_statuses and terminal_order_statuses.
OpenStatuses == {"CREATED", "SUBMITTING", "ACKED", "OPEN", "PARTIALLY_FILLED", "CANCELING"}
TerminalStatuses == {"FILLED", "CANCELED", "PARTIALLY_CANCELED", "REJECTED", "EXPIRED"}

With(orders, statuses) == {k \in DOMAIN orders : orders[k] \in statuses}

\* order_summary.
Summary(orders) == [total |-> Cardinality(DOMAIN orders),
                    open |-> Cardinality(With(orders, OpenStatuses)),
                    unknown |-> Cardinality(With(orders, {"UNKNOWN"})),
                    terminal |-> Cardinality(With(orders, TerminalStatuses))]

\* remote_order_payload: the exchange is asked in these modes, with a
\* configuration that loads and credentials, and it answers.
Remote(trading, loads, credentials, answers, listing) ==
    IF trading \in {"live_read_only", "live_dry_run", "live"} /\ loads /\ credentials /\ answers
    THEN [ok |-> TRUE, orders |-> listing]
    ELSE [ok |-> FALSE, orders |-> [k \in {} |-> "OPEN"]]

Diff(type, severity, key) == [type |-> type, severity |-> severity, key |-> key]
NoKey == 0

\* build_reconcile_diffs.
Diffs(local, remote) ==
    LET localOpen == With(local, OpenStatuses)
        remoteOpen == With(remote.orders, OpenStatuses)
        found ==
            {Diff("remote_sync_unavailable", "info", NoKey) : x \in {y \in {NoKey} : ~remote.ok}}
            \cup {Diff("local_open_missing_remote", "critical", k) :
                     k \in {x \in localOpen \ remoteOpen : remote.ok}}
            \cup {Diff("remote_open_orphan", "critical", k) : k \in remoteOpen \ localOpen}
            \cup {Diff("status_mismatch", "warn", k) :
                     k \in {x \in localOpen \cap remoteOpen : local[x] # remote.orders[x]}}
            \cup {Diff("local_unknown_order", "critical", k) : k \in With(local, {"UNKNOWN"})}
    IN  IF found = {} THEN {Diff("matched", "info", NoKey)} ELSE found

\* reconcile_payload's unknown_gate.
UnknownGate(diffs) == \E d \in diffs : d.severity = "critical"

=============================================================================
