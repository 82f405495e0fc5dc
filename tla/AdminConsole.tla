---------------------------- MODULE AdminConsole ----------------------------
(***************************************************************************)
(* The admin console (src/scripts/admin_server.py): a threading HTTP       *)
(* server.  A request is authorised, perhaps refused, served, and put on a *)
(* signed record, each row of which names the signature of the row before. *)
(* The threads share the sessions, the configuration file and the audit    *)
(* file, and take no lock.                                                 *)
(*                                                                         *)
(* Requests that touch the strategy states, the kill switch and the        *)
(* command queue only are served in module RuntimeControl; here they are   *)
(* authorised and recorded.                                                *)
(***************************************************************************)
EXTENDS Integers, Sequences, FiniteSets, ConfigFile

CONSTANTS Threads,
          Users,           \* principals, with
          Role,            \* their roles, and
          Tokens,          \* those who have a token instead of a session
          Symbols, Strategies,
          FirstConfig,     \* the file's content at the start
          MaxRows,         \* bound on requests
          MaxWrites,       \* bound on granted edits
          None, Edit       \* no edit; an edit that was made

VARIABLES sessions,    \* users with a session that has not expired
          config, mtime,
          states,      \* strategy_state.json: keys that have a state
          log,         \* the lines of the audit file: rows [sig, prev, edit] and others
          signed,      \* signatures made so far
          pc, request, \* of each thread: where it is, and with what granted edit
          copy,        \* of each thread: the configuration it has read
          previous,    \* of each thread: the signature it has read
          writes,      \* history: configurations written
          raced, torn, died   \* history: two rows were made at a time, a row was
                         \* written in part, the process died in a request

consoleVars == <<sessions, config, mtime, states, log, signed, pc, request, copy, previous,
                 writes, raced, torn, died>>

NoSignature == 0

\* Lines that cannot be read: part of a row, without and with an end of line.
Torn == [sig |-> NoSignature, prev |-> 0, edit |-> FALSE]
Spoiled == [sig |-> NoSignature, prev |-> 1, edit |-> FALSE]

Busy == {t \in Threads : pc[t] # "idle"}

ConsoleInit ==
    /\ sessions = {}
    /\ config = FirstConfig /\ mtime = 1
    /\ states = {Key(s) : s \in FirstConfig.strategies}
    /\ log = <<>> /\ signed = 0
    /\ pc = [t \in Threads |-> "idle"] /\ request = [t \in Threads |-> None]
    /\ copy = [t \in Threads |-> FirstConfig] /\ previous = [t \in Threads |-> NoSignature]
    /\ writes = 0 /\ raced = FALSE /\ torn = FALSE /\ died = FALSE

-----------------------------------------------------------------------------
(* Who may do what.                                                        *)

Permissions(role) ==
    CASE role = "viewer" -> {"read"}
      [] role = "operator" -> {"read", "operate"}
      [] role = "admin" -> {"read", "operate", "configure", "trade", "admin"}
      [] OTHER -> {"read"}

\* POST_PERMISSIONS.get(path, "admin").
Needed(path) ==
    CASE path \in {"/api/exchanges", "/api/symbols", "/api/strategies"} -> "configure"
      [] path \in {"/api/exchanges/test", "/api/auth/logout"} -> "read"
      [] path \in {"/api/strategies/state", "/api/strategies/stop-cancel",
                   "/api/orders/cancel-plan", "/api/risk/kill-switch"} -> "operate"
      [] OTHER -> "admin"

\* expected_confirmation gives a phrase.
NeedsPhrase(r) ==
    \/ r.path \in {"/api/symbols/delete", "/api/strategies/delete",
                   "/api/strategies/stop-cancel", "/api/risk/kill-switch"}
    \/ r.path = "/api/strategies/state" /\ r.starts

Executes(r) == r.path = "/api/strategies/stop-cancel" /\ r.execute

\* authenticate: a live session or a token.
Known(u) == u \in sessions \cup Tokens

\* _authorize, execution_permission_error_for and confirmation_error_for.
Granted(u, r) ==
    /\ Known(u)
    /\ Needed(r.path) \in Permissions(Role[u])
    /\ Executes(r) => "trade" \in Permissions(Role[u])
    /\ NeedsPhrase(r) => r.confirmed

IsEdit(r) == r.path \in {"/api/symbols", "/api/symbols/delete", "/api/strategies",
                         "/api/strategies/delete"}

Edited(c, r) ==
    CASE r.path = "/api/symbols" -> SaveSymbol(c, r.symbol, r.wellFormed)
      [] r.path = "/api/symbols/delete" -> DeleteSymbol(c, r.symbol)
      [] r.path = "/api/strategies" -> SaveStrategy(c, r.item)
      [] r.path = "/api/strategies/delete" -> DeleteStrategy(c, r.key)

-----------------------------------------------------------------------------
Goto(t, place) == pc' = [pc EXCEPT ![t] = place]

Requests ==
    {[path |-> "/api/symbols", symbol |-> s, wellFormed |-> w] : s \in Symbols, w \in BOOLEAN}
        \cup {[path |-> "/api/symbols/delete", symbol |-> s, confirmed |-> c] : s \in Symbols, c \in BOOLEAN}
        \cup {[path |-> "/api/strategies", item |-> i] : i \in Strategies}
        \cup {[path |-> "/api/strategies/delete", key |-> Key(i), confirmed |-> TRUE] : i \in Strategies}
        \cup {[path |-> "/api/strategies/stop-cancel", execute |-> TRUE, confirmed |-> TRUE],
              [path |-> "/api/strategies/state", starts |-> FALSE],
              [path |-> "/api/auth/logout"]}

\* The file at the start is one that the bot has been run with.
ASSUME ConsoleAssumption ==
    /\ IsFiniteSet(Threads)
    /\ None \notin Requests /\ Edit \notin Requests /\ None # Edit
    /\ FirstConfig \in Configs(Symbols, Strategies) /\ Coherent(FirstConfig)

\* Every request makes at most one row.
MayArrive(t) == pc[t] = "idle" /\ Len(log) + Cardinality(Busy) < MaxRows
MayEdit == writes + Cardinality({t \in Threads : pc[t] \in {"reading", "writing"}}) < MaxWrites

\* do_POST up to the handler: it serves an edit next, and has dealt with
\* anything else but for the record.
Arrive(t, u, r) ==
    /\ MayArrive(t)
    /\ IF Granted(u, r) /\ IsEdit(r)
       THEN MayEdit /\ request' = [request EXCEPT ![t] = r] /\ Goto(t, "reading")
       ELSE UNCHANGED request /\ Goto(t, "recording")
    /\ sessions' = IF Granted(u, r) /\ r.path = "/api/auth/logout" THEN sessions \ {u} ELSE sessions
    /\ UNCHANGED <<config, mtime, states, log, signed, copy, previous, writes, raced, torn, died>>

\* login, with the right password or not.
Login(t, u, right) ==
    /\ MayArrive(t) /\ u \notin Tokens
    /\ Goto(t, "recording")
    /\ sessions' = IF right THEN sessions \cup {u} ELSE sessions
    /\ UNCHANGED <<config, mtime, states, log, signed, request, copy, previous, writes, raced, torn, died>>

\* The time to live of a session is over.
Expire(u) ==
    /\ u \in sessions
    /\ sessions' = sessions \ {u}
    /\ UNCHANGED <<config, mtime, states, log, signed, pc, request, copy, previous, writes,
                   raced, torn, died>>

\* read_config.  A strategy to delete must be there, and must have no open
\* orders (in the order file) unless the deletion is forced.
Read(t) ==
    /\ pc[t] = "reading"
    /\ copy' = [copy EXCEPT ![t] = config]
    /\ LET deletes == request[t].path = "/api/strategies/delete"
           there == \E s \in config.strategies : Key(s) = request[t].key
       IN  \/ (deletes => there) /\ Goto(t, "writing") /\ UNCHANGED request
           \/ deletes /\ Goto(t, "recording") /\ request' = [request EXCEPT ![t] = None]
    /\ UNCHANGED <<sessions, config, mtime, states, log, signed, previous, writes,
                   raced, torn, died>>

IsDeletion(r) == r.path \in {"/api/symbols/delete", "/api/strategies/delete"}

\* All that is left of a request is that it was a successful edit.
Made(t) ==
    /\ request' = [request EXCEPT ![t] = Edit]
    /\ copy' = [copy EXCEPT ![t] = FirstConfig]
    /\ Goto(t, "recording")

\* write_config replaces the file.  A deletion goes on to the states.
Write(t) ==
    /\ pc[t] = "writing"
    /\ config' = Edited(copy[t], request[t])
    /\ mtime' = mtime + 1
    /\ writes' = writes + 1
    /\ IF IsDeletion(request[t]) THEN Goto(t, "forgetting") /\ UNCHANGED <<request, copy>> ELSE Made(t)
    /\ UNCHANGED <<sessions, states, log, signed, previous, raced, torn, died>>

\* What a deletion takes out of strategy_state.json: the strategy, or those of
\* the symbol and all entries whose key names the symbol.
Forgotten(c, r) ==
    IF r.path = "/api/strategies/delete" THEN {r.key}
    ELSE {Key(s) : s \in {x \in c.strategies : x.symbol = r.symbol}}
             \cup {k \in states : Len(k) = 2 /\ k[2] = r.symbol}

Forget(t) ==
    /\ pc[t] = "forgetting"
    /\ states' = states \ Forgotten(copy[t], request[t])
    /\ Made(t)
    /\ UNCHANGED <<sessions, config, mtime, log, signed, previous, writes, raced, torn, died>>

-----------------------------------------------------------------------------
(* append_audit.                                                           *)

Signing == {t \in Threads : pc[t] = "signing"}

\* Mutant: the signature of the first row.
LastSignatureFirst == IF log = <<>> THEN NoSignature ELSE log[1].sig

\* _last_signature: none, too, when the last line cannot be read.
LastSignature == IF log = <<>> THEN NoSignature ELSE log[Len(log)].sig

BeginRow(t) ==
    /\ pc[t] = "recording"
    /\ previous' = [previous EXCEPT ![t] = LastSignature]
    /\ raced' = (raced \/ Signing # {})
    /\ Goto(t, "signing")
    /\ UNCHANGED <<sessions, config, mtime, states, log, signed, request, copy, writes, torn, died>>

\* The file with another line, which spoils one that has no end.
WithLine(line) ==
    IF log # <<>> /\ log[Len(log)] = Torn THEN [log EXCEPT ![Len(log)] = Spoiled]
    ELSE Append(log, line)

Forgetting(ts) ==
    /\ pc' = [t \in Threads |-> IF t \in ts THEN "idle" ELSE pc[t]]
    /\ request' = [t \in Threads |-> IF t \in ts THEN None ELSE request[t]]
    /\ copy' = [t \in Threads |-> IF t \in ts THEN FirstConfig ELSE copy[t]]
    /\ previous' = [t \in Threads |-> IF t \in ts THEN NoSignature ELSE previous[t]]

EndRow(t) ==
    /\ pc[t] = "signing"
    /\ log' = WithLine([sig |-> signed + 1, prev |-> previous[t], edit |-> request[t] = Edit])
    /\ signed' = signed + 1
    /\ Forgetting({t})
    /\ UNCHANGED <<sessions, config, mtime, states, writes, raced, torn, died>>

\* The process dies and is started again; at worst a row is half written.
Die ==
    /\ Busy # {}
    /\ \/ UNCHANGED <<log, torn>>
       \/ Signing # {} /\ log' = WithLine(Torn) /\ torn' = TRUE
    /\ sessions' = {}
    /\ Forgetting(Threads)
    /\ died' = TRUE
    /\ UNCHANGED <<config, mtime, states, signed, writes, raced>>

-----------------------------------------------------------------------------
ConsoleNext ==
    \/ \E t \in Threads :
          \/ MayArrive(t) /\ \E u \in Users, r \in Requests : Arrive(t, u, r)
          \/ \E u \in Users, right \in BOOLEAN : Login(t, u, right)
          \/ Read(t) \/ Write(t) \/ Forget(t) \/ BeginRow(t) \/ EndRow(t)
    \/ \E u \in Users : Expire(u)
    \/ Die

-----------------------------------------------------------------------------
\* verify_chain over the lines that can be read: each names the signature of the
\* one before it.
Readable(i) == log[i] \notin {Torn, Spoiled}
ReadableBefore(i) == {k \in 1 .. i - 1 : Readable(k)}
ChainHolds ==
    \A i \in DOMAIN log : Readable(i) =>
        IF ReadableBefore(i) = {} THEN log[i].prev = NoSignature
        ELSE \E j \in ReadableBefore(i) :
                (\A k \in ReadableBefore(i) : k <= j) /\ log[i].prev = log[j].sig

\* The record can be trusted: its chain is broken only when two threads made a
\* row at a time or a row was written in part, and unless the process died in a
\* request every configuration that was written has its row, or will have
\* (admin_server.py:124-189, 227-244, 487-564).
RecordTellsTruth ==
    /\ ChainHolds \/ raced \/ torn
    /\ died \/ writes = Cardinality({i \in DOMAIN log : log[i].edit})
                         + Cardinality({t \in Threads : pc[t] = "forgetting" \/ request[t] = Edit})

\* However edits of several threads overwrite each other, the file loads as soon
\* as it names a symbol and its numbers are numbers, and no two strategies have
\* the same key (admin_server.py:160-188, 959-992, 1201).
FileStaysCoherent ==
    /\ config.symbols # {} /\ config.malformed = {} => Loads(config)
    /\ \A s, z \in config.strategies : Key(s) = Key(z) => s = z

=============================================================================
