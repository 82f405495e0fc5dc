---------------------------- MODULE AtomicStore -----------------------------
(***************************************************************************)
(* What the order manager relies on when it persists: a write replaces the *)
(* stored table in one instant between the call and its return, however    *)
(* the process ends, and whoever reads sees a table of some instant.       *)
(***************************************************************************)
CONSTANTS Ids, Values   \* order ids, and what a record may hold

Tables == UNION {[S -> Values] : S \in SUBSET Ids}

NoCall == [kind |-> "none", rows |-> <<>>]
Calls == {[kind |-> "save", rows |-> t] : t \in Tables}
             \cup {[kind |-> "save_order", rows |-> [x \in {id} |-> v]] : id \in Ids, v \in Values}

VARIABLES table,     \* what load would return
          call,      \* the call under way
          applied,   \* it has taken effect
          reply,     \* of the last call that is over: "ok", "failed", "lost"
          seen       \* what the console read last

vars == <<table, call, applied, reply, seen>>

\* A table with some rows replaced or added.
With(rows, t) == [id \in DOMAIN rows \cup DOMAIN t |-> IF id \in DOMAIN rows THEN rows[id] ELSE t[id]]

\* save replaces everything, save_order one record.
Effect(c, t) == IF c.kind = "save" THEN c.rows ELSE With(c.rows, t)

Init == table = <<>> /\ call = NoCall /\ applied = FALSE /\ reply = "ok" /\ seen = <<>>

Begin(c) == call = NoCall /\ call' = c /\ UNCHANGED <<table, applied, reply, seen>>

Apply == call # NoCall /\ ~applied /\ applied' = TRUE /\ table' = Effect(call, table)
            /\ UNCHANGED <<call, reply, seen>>

\* A call that returns has taken effect; one that raises may have.
End(result) ==
    /\ call # NoCall
    /\ result = "ok" => applied
    /\ call' = NoCall /\ applied' = FALSE /\ reply' = result
    /\ UNCHANGED <<table, seen>>

Read == seen' = table /\ UNCHANGED <<table, call, applied, reply>>

Next ==
    \/ \E c \in Calls : Begin(c)
    \/ Apply
    \/ \E result \in {"ok", "failed", "lost"} : End(result)
    \/ Read

Spec == Init /\ [][Next]_vars

=============================================================================
