---------------------------- MODULE OrderStores -----------------------------
(***************************************************************************)
(* The three order stores (src/src/mm/persistence/order_store.py): a JSON  *)
(* file that is rewritten as a whole, and a table in SQLite or PostgreSQL  *)
(* that a transaction changes.  One engine writes, the console reads, the  *)
(* process may die between any two steps.                                  *)
(***************************************************************************)
CONSTANTS Ids, Values

VARIABLES backend,   \* the store that build_order_store made
          durable,   \* the JSON file, or the committed rows
          work,      \* the temporary file, or the transaction's own view
          stage,     \* how far the call is
          call, reply, seen

storeVars == <<backend, durable, work, stage, call, reply, seen>>

\* The write contract, with the durable table and the commit point as its view.
Contract == INSTANCE AtomicStore WITH table <- durable, applied <- stage = "committed"

Torn == "torn"   \* a file of which a part is written

Schemes == {"postgres://", "postgresql://", "sqlite://", "*.db", "*.sqlite", "*.sqlite3", "*.json"}

\* build_order_store.
Backend(path) ==
    CASE path \in {"postgres://", "postgresql://"} -> "postgres"
      [] path \in {"sqlite://", "*.db", "*.sqlite", "*.sqlite3"} -> "sqlite"
      [] OTHER -> "json"

StoreInit ==
    /\ \E path \in Schemes : backend = Backend(path)
    /\ durable = <<>> /\ work = <<>> /\ stage = "idle"
    /\ call = Contract!NoCall /\ reply = "ok" /\ seen = <<>>

\* JsonOrderStore: the new table is put together (save_order loads the file for
\* it) and a temporary file is made; for the others a connection is opened.
Open(c) ==
    /\ stage = "idle"
    /\ call' = c
    /\ stage' = "open"
    /\ work' = IF backend = "json" THEN Torn ELSE durable
    /\ UNCHANGED <<backend, durable, reply, seen>>

\* The table that a JSON store is to hold.
NewFile == IF call.kind = "save" THEN call.rows
           ELSE Contract!With(call.rows, durable)

Dump ==
    /\ backend = "json" /\ stage = "open"
    /\ work' = NewFile
    /\ stage' = "ready"
    /\ UNCHANGED <<backend, durable, call, reply, seen>>

\* Mutant: every statement is its own transaction.
UpsertAutocommit ==
    /\ work' = Contract!With(call.rows, work)
    /\ durable' = work'

\* _upsert_rows.
Upsert ==
    /\ work' = Contract!With(call.rows, work)
    /\ UNCHANGED durable

UpsertRows ==
    /\ backend # "json" /\ stage = "open"
    /\ Upsert
    /\ stage' = IF call.kind = "save" THEN "upserted" ELSE "ready"
    /\ UNCHANGED <<backend, call, reply, seen>>

\* save deletes the rows it was not given; all of them when it was given none.
DeleteOthers ==
    /\ stage = "upserted"
    /\ work' = [id \in DOMAIN work \cap DOMAIN call.rows |-> work[id]]
    /\ stage' = "ready"
    /\ UNCHANGED <<backend, durable, call, reply, seen>>

\* os.replace, or conn.commit.
Commit ==
    /\ stage = "ready"
    /\ durable' = work
    /\ stage' = "committed"
    /\ UNCHANGED <<backend, work, call, reply, seen>>

Closed(result) ==
    /\ stage' = "idle" /\ work' = <<>>
    /\ call' = Contract!NoCall /\ reply' = result
    /\ UNCHANGED <<backend, durable, seen>>

Return == stage = "committed" /\ Closed("ok")

\* A step raises: the temporary file is unlinked, the connection closed without
\* a commit.  A PostgreSQL server may have committed although commit raises.
Raise ==
    /\ stage \in {"open", "upserted", "ready"} \/ (stage = "committed" /\ backend = "postgres")
    /\ Closed("failed")

\* The process dies; a temporary file stays and is read by nobody.
Crash == stage # "idle" /\ Closed("lost")

\* load by the console, in another process.
Load == seen' = durable /\ UNCHANGED <<backend, durable, work, stage, call, reply>>

StoreNext ==
    \/ \E c \in Contract!Calls : Open(c)
    \/ Dump \/ UpsertRows \/ DeleteOthers \/ Commit \/ Return \/ Raise \/ Crash \/ Load

StoreSpec == StoreInit /\ [][StoreNext]_storeVars

-----------------------------------------------------------------------------
\* Each store acts as one atomic write: neither a crash nor an error in the
\* middle leaves a mixture, a call that returned is durable, and the console
\* reads nothing else (order_store.py:38-49, 73-95, 190-214).
ActsAsOneWrite == Contract!Spec

=============================================================================
