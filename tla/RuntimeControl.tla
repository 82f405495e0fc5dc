--------------------------- MODULE RuntimeControl ---------------------------
(***************************************************************************)
(* The engine (src/src/mm/app.py, src/src/mm/runtime/control.py) and the   *)
(* admin server (src/scripts/admin_server.py), which share four JSON       *)
(* files: strategy states, risk switch, command queue and configuration.   *)
(*                                                                         *)
(* A file is read and replaced as a whole, each of which is atomic, and    *)
(* nothing is locked: every thread of the server changes a file by writing *)
(* a changed copy of what it read earlier, and so does the engine with the *)
(* command queue.  The engine's tick is a sequence of phases; its private  *)
(* stream task runs where the tick awaits something.                       *)
(***************************************************************************)
EXTENDS Naturals, FiniteSets

CONSTANTS
    Strategies,   \* strategy keys
    Commands,     \* command ids, all "stop_cancel_strategy"
    Threads,      \* threads of the admin server, one request each at a time
    Asked,        \* the kinds of requests that are made
    MaxKills      \* bound: ends of the engine process

ASSUME EndsAssumption == MaxKills \in Nat
ASSUME NamesAssumption == "none" \notin Strategies \cup Commands

Kinds == {"pause", "resume", "stop", "delete"}
ASSUME AskedAssumption == Asked \subseteq Kinds
Steps == {"read_states", "write_states", "plan", "read_queue", "write_queue",
          "read_config", "write_config"}
CommandStates == {"none", "pending", "processing", "done", "failed"}
Queues == [Commands -> CommandStates]
NoQueue == [c \in Commands |-> "none"]

\* Where a tick is; in Suspending it awaits something or sleeps before it.
Phases == {"down", "states", "risk", "commands", "scan", "execute", "quote", "validate", "submit"}
Suspending == {"states", "execute", "quote", "validate", "submit"}

VARIABLES
    pauses,       \* strategy_state.json: strategies whose status is paused
    switch,       \* risk_state.json: safe_mode
    queue,        \* commands.json: status of each command
    config,       \* configuration: its strategies
    tasks,        \* requests the server's threads are at: kind, step, of
    heldPauses, heldQueue, heldConfig,  \* the copies they read
    about,        \* the strategy a command is for
    phase,        \* the engine: where its tick is
    loaded,       \* StrategyEngine.plugins
    paused,       \* StrategyEngine.paused_strategy_keys
    safe,         \* RiskEngine.safe_mode
    alarm,        \* _internal_safe_mode_reasons is not empty
    copy,         \* the payload of _apply_runtime_commands
    current,      \* the command it executes
    places,       \* strategies with an order to be placed in this tick
    working,      \* strategies with an open order, in the OMS and its store
    doubtful,     \* strategies with an UNKNOWN order there
    begun,        \* how often the engine began to execute a command
    stopped,      \* strategies answered to be paused and not asked for since
    overlap,      \* files that were written from an outdated copy
    kills

files == <<pauses, switch, queue, config>>
server == <<tasks, heldPauses, heldQueue, heldConfig, about>>
book == <<working, doubtful>>
engine == <<phase, loaded, paused, safe, alarm, copy, current, places>>
history == <<begun, stopped, overlap, kills>>
vars == <<files, server, engine, book, history>>

NoTask == [kind |-> "none", step |-> "none", of |-> "none"]
Task == [kind : Kinds, step : Steps, of : Strategies]

Init ==
    /\ pauses = {} /\ switch = FALSE
    /\ queue = NoQueue /\ config = Strategies
    /\ tasks = [t \in Threads |-> NoTask]
    /\ heldPauses = [t \in Threads |-> {}]
    /\ heldQueue = [t \in Threads |-> NoQueue]
    /\ heldConfig = [t \in Threads |-> {}]
    /\ about = [c \in Commands |-> "none"]
    /\ phase = "down" /\ loaded = {} /\ paused = {}
    /\ safe = FALSE /\ alarm = FALSE
    /\ copy = NoQueue /\ current = "none" /\ places = {}
    /\ working = {} /\ doubtful = {}
    /\ begun = [c \in Commands |-> 0]
    /\ stopped = {} /\ overlap = {}
    /\ kills = 0

\* A file is replaced by somebody whose copy was read as `held`.
Replaces(file, held, present) ==
    overlap' = IF held = present THEN overlap ELSE overlap \cup {file}

-----------------------------------------------------------------------------
(* The admin server.                                                       *)

Goes(t, step) == tasks' = [tasks EXCEPT ![t].step = step]
Finishes(t) == tasks' = [tasks EXCEPT ![t] = NoTask]

\* Nobody else is about to change the state of strategy s.
Alone(t, s) == \A u \in Threads \ {t} : tasks[u].of # s

\* A request arrives.  stop_cancel_strategy needs a configured strategy.
Request(t, kind, s) ==
    /\ tasks[t] = NoTask
    /\ kind = "stop" => s \in config
    /\ tasks' = [tasks EXCEPT ![t] =
            [kind |-> kind, of |-> s,
             step |-> IF kind = "delete" THEN "read_config" ELSE "read_states"]]
    /\ stopped' = stopped \ {s}
    /\ UNCHANGED <<files, heldPauses, heldQueue, heldConfig, about, engine, book,
                   begun, overlap, kills>>

\* delete_strategy reads the configuration and refuses a strategy with open
\* orders (without force), or one it does not find.
ReadConfig(t) ==
    /\ tasks[t].step = "read_config"
    /\ IF tasks[t].of \in config \ working
       THEN Goes(t, "write_config") /\ heldConfig' = [heldConfig EXCEPT ![t] = config]
       ELSE Finishes(t) /\ UNCHANGED heldConfig
    /\ UNCHANGED <<files, heldPauses, heldQueue, about, engine, book, history>>

WriteConfig(t) ==
    /\ tasks[t].step = "write_config"
    /\ config' = heldConfig[t] \ {tasks[t].of}
    /\ Replaces("config", heldConfig[t], config)
    /\ heldConfig' = [heldConfig EXCEPT ![t] = {}]
    /\ Goes(t, "read_states")
    /\ UNCHANGED <<pauses, switch, queue, heldPauses, heldQueue, about, engine, book,
                   begun, stopped, kills>>

ReadStates(t) ==
    /\ tasks[t].step = "read_states"
    /\ heldPauses' = [heldPauses EXCEPT ![t] = pauses]
    /\ Goes(t, "write_states")
    /\ UNCHANGED <<files, heldQueue, heldConfig, about, engine, book, history>>

\* update_strategy_state and delete_strategy: the strategy's entry is set, or
\* taken out, which has the effect of a resume.
NewPauses(kind, held, s) == IF kind \in {"pause", "stop"} THEN held \cup {s} ELSE held \ {s}

WriteStates(t) ==
    LET s == tasks[t].of
        kind == tasks[t].kind
    IN  /\ tasks[t].step = "write_states"
        /\ pauses' = NewPauses(kind, heldPauses[t], s)
        /\ Replaces("states", heldPauses[t], pauses)
        /\ heldPauses' = [heldPauses EXCEPT ![t] = {}]
        /\ stopped' = IF kind \in {"pause", "stop"} /\ Alone(t, s) THEN stopped \cup {s} ELSE stopped
        /\ IF kind = "stop" THEN Goes(t, "plan") ELSE Finishes(t)
        /\ UNCHANGED <<switch, queue, config, heldQueue, heldConfig, about, engine, book,
                       begun, kills>>

\* cancel_plan: a strategy without open orders needs no command.
Plan(t) ==
    /\ tasks[t].step = "plan"
    /\ IF tasks[t].of \in working THEN Goes(t, "read_queue") ELSE Finishes(t)
    /\ UNCHANGED <<files, heldPauses, heldQueue, heldConfig, about, engine, book, history>>

\* queue_runtime_command
ReadQueue(t) ==
    /\ tasks[t].step = "read_queue"
    /\ heldQueue' = [heldQueue EXCEPT ![t] = queue]
    /\ Goes(t, "write_queue")
    /\ UNCHANGED <<files, heldPauses, heldConfig, about, engine, book, history>>

WriteQueue(t, c) ==
    /\ tasks[t].step = "write_queue"
    /\ about[c] = "none"
    /\ about' = [about EXCEPT ![c] = tasks[t].of]
    /\ queue' = [heldQueue[t] EXCEPT ![c] = "pending"]
    /\ Replaces("queue", heldQueue[t], queue)
    /\ heldQueue' = [heldQueue EXCEPT ![t] = NoQueue]
    /\ Finishes(t)
    /\ UNCHANGED <<pauses, switch, config, heldPauses, heldConfig, engine, book,
                   begun, stopped, kills>>

\* update_kill_switch writes the file without reading it.
SetSwitch ==
    /\ switch' = ~switch
    /\ UNCHANGED <<pauses, queue, config, server, engine, book, history>>

-----------------------------------------------------------------------------
(* The engine.                                                             *)

\* MarketMakerApp.run up to its first tick.  An open order the exchange does not
\* list is in doubt, one in doubt that it lists is open again; any that stays in
\* doubt is a reason for safe mode.
Start(lost, found) ==
    /\ phase = "down"
    /\ lost \subseteq working /\ found \subseteq doubtful
    /\ phase' = "states"
    /\ loaded' = config /\ paused' = {}
    /\ working' = (working \ lost) \cup found
    /\ doubtful' = (doubtful \ found) \cup lost
    /\ alarm' = (doubtful' # {}) /\ safe' = (doubtful' # {})
    /\ UNCHANGED <<files, server, copy, current, places, history>>

\* RuntimeControlReader.load, first file.
ReadPauses ==
    /\ phase = "states"
    /\ paused' = pauses
    /\ phase' = "risk"
    /\ UNCHANGED <<files, server, loaded, safe, alarm, copy, current, places, book, history>>

\* Mutant: the switch decides alone, so that a resume ends internal safe mode.
SafeBySwitch(on, internal) == on

\* _apply_runtime_controls: safe mode for an operator's or an internal reason.
Safe(on, internal) == on \/ internal

\* RuntimeControlReader.load, second file, and _apply_runtime_controls.
ReadSwitch ==
    /\ phase = "risk"
    /\ safe' = Safe(switch, alarm)
    /\ phase' = "commands"
    /\ UNCHANGED <<files, server, loaded, paused, alarm, copy, current, places, book, history>>

\* _read_runtime_commands
ReadCommands ==
    /\ phase = "commands"
    /\ copy' = queue
    /\ phase' = "scan"
    /\ UNCHANGED <<files, server, loaded, paused, safe, alarm, current, places, book, history>>

\* Mutant: a command is marked in memory only, until it has been executed.
MarkUnsaved(c) ==
    /\ copy' = [copy EXCEPT ![c] = "processing"]
    /\ UNCHANGED <<queue, overlap>>

\* Mutant: a changed copy is saved, the payload itself stays as it was.
MarkSaved(c) ==
    /\ queue' = [copy EXCEPT ![c] = "processing"]
    /\ Replaces("queue", copy, queue)
    /\ UNCHANGED copy

\* A command is marked as processing, in the payload and in the file.
Mark(c) ==
    /\ copy' = [copy EXCEPT ![c] = "processing"]
    /\ queue' = copy'
    /\ Replaces("queue", copy, queue)

Execute(c) ==
    /\ phase = "scan" /\ copy[c] = "pending"
    /\ Mark(c)
    /\ current' = c
    /\ begun' = [begun EXCEPT ![c] = @ + 1]
    /\ phase' = "execute"
    /\ UNCHANGED <<pauses, switch, config, server, loaded, paused, safe, alarm, places,
                   book, stopped, kills>>

\* What a command wrote when it has ended.
Write(result) ==
    /\ copy' = [copy EXCEPT ![current] = result]
    /\ queue' = copy'
    /\ Replaces("queue", copy, queue)
    /\ current' = "none"
    /\ phase' = "scan"
    /\ UNCHANGED <<pauses, switch, config, server, loaded, paused, places, begun, stopped, kills>>

\* The cancel batches of the command have ended.  An order whose request failed
\* is in doubt, and that raises no alarm.  One that was in doubt when they began,
\* and is open by now, is left.
ExecutedWell(left, doubts) ==
    /\ phase = "execute"
    /\ left \subseteq working \cap {about[current]}
    /\ doubts \subseteq working \cap {about[current]}
    /\ Write("done")
    /\ working' = (working \ {about[current]}) \cup left
    /\ doubtful' = doubtful \cup doubts
    /\ UNCHANGED <<safe, alarm>>

\* A batch raised, at an order that may not become CANCELING or whose store
\* failed; those of earlier batches are closed or in doubt.
ExecutedBadly(left, doubts) ==
    /\ phase = "execute"
    /\ left \subseteq working \cap {about[current]}
    /\ doubts \subseteq working \cap {about[current]}
    /\ Write("failed")
    /\ working' = (working \ {about[current]}) \cup left
    /\ doubtful' = doubtful \cup doubts
    /\ alarm' = TRUE /\ safe' = TRUE

ScanEnds ==
    /\ phase = "scan"
    /\ \A c \in Commands : copy[c] # "pending"
    /\ copy' = NoQueue
    /\ phase' = "quote"
    /\ UNCHANGED <<files, server, loaded, paused, safe, alarm, current, places, book, history>>

\* Mutant: the orders of a paused strategy are not compared with its quotes.
KeepablePaused(quoted) == quoted \cup paused

\* build_order_intents: an order stays only at a place its strategy quotes.
Keepable(quoted) == quoted

\* generate_quotes, build_order_intents and the cancels of _execute_intents.
\* Prices and levels are left out: a strategy that quotes may keep its orders
\* and may place new ones.  An order that is not kept is closed, or in doubt
\* when its cancel failed.
Quote(quoted, kept, doubts, new) ==
    /\ phase = "quote"
    /\ quoted \subseteq loaded \ paused
    /\ kept \subseteq working \cap Keepable(quoted)
    /\ doubts \subseteq working
    /\ new \subseteq quoted
    /\ working' = kept
    /\ doubtful' = doubtful \cup doubts
    /\ places' = new
    /\ phase' = "validate"
    /\ UNCHANGED <<files, server, loaded, paused, safe, alarm, copy, current, history>>

\* Mutant: safe mode does not stop new orders.
RefusedUnsafe == doubtful # {}

\* RiskEngine.validate refuses every new order, or judges each by its limits.
Refused == safe \/ doubtful # {}

Validate(passed) ==
    /\ phase = "validate"
    /\ passed \subseteq places
    /\ Refused => passed = {}
    /\ places' = passed
    /\ phase' = "submit"
    /\ UNCHANGED <<files, server, loaded, paused, safe, alarm, copy, current, book, history>>

\* submit_batch for a strategy's orders.  The exchange may refuse any of them,
\* and those of a request that failed are in doubt.
Submit(s, accepted, doubted) ==
    /\ phase = "submit" /\ s \in places
    /\ places' = places \ {s}
    /\ working' = IF accepted THEN working \cup {s} ELSE working
    /\ doubtful' = IF doubted THEN doubtful \cup {s} ELSE doubtful
    /\ UNCHANGED <<files, server, phase, loaded, paused, safe, alarm, copy, current, history>>

TickEnds ==
    /\ phase = "submit" /\ places = {}
    /\ phase' = "states"
    /\ UNCHANGED <<files, server, loaded, paused, safe, alarm, copy, current, places, book, history>>

\* The stream task fails, or met an order in doubt.
Alarm ==
    /\ phase \in Suspending
    /\ alarm' = TRUE /\ safe' = TRUE
    /\ UNCHANGED <<files, server, phase, loaded, paused, copy, current, places, book, history>>

\* The stream task is told that the orders of a strategy are closed.
Closed(s) ==
    /\ phase \in Suspending
    /\ working' = working \ {s}
    /\ doubtful' = doubtful \ {s}
    /\ UNCHANGED <<files, server, engine, history>>

\* The stream task is told that an order in doubt is open.
Reappears(s) ==
    /\ phase \in Suspending
    /\ s \in doubtful
    /\ doubtful' = doubtful \ {s}
    /\ working' = working \cup {s}
    /\ UNCHANGED <<files, server, engine, history>>

\* The process ends, killed or by an exception of a tick.  cancel_all may have
\* been tried: some orders are gone and some in doubt.
Die(left, doubts) ==
    /\ phase # "down"
    /\ kills < MaxKills
    /\ kills' = kills + 1
    /\ left \subseteq working /\ doubts \subseteq working \ left
    /\ working' = left
    /\ doubtful' = doubtful \cup doubts
    /\ phase' = "down"
    /\ loaded' = {} /\ paused' = {}
    /\ alarm' = FALSE /\ safe' = FALSE
    /\ copy' = NoQueue /\ current' = "none" /\ places' = {}
    /\ UNCHANGED <<files, server, begun, stopped, overlap>>

-----------------------------------------------------------------------------
Serve ==
    \/ \E t \in Threads :
        \/ \E kind \in Asked, s \in Strategies : Request(t, kind, s)
        \/ ReadConfig(t)
        \/ WriteConfig(t)
        \/ ReadStates(t)
        \/ WriteStates(t)
        \/ Plan(t)
        \/ ReadQueue(t)
        \/ \E c \in Commands : WriteQueue(t, c)
    \/ SetSwitch

Tick ==
    \/ ReadPauses
    \/ ReadSwitch
    \/ ReadCommands
    \/ \E c \in Commands : Execute(c)
    \/ \E left, doubts \in SUBSET Strategies :
        ExecutedWell(left, doubts) \/ ExecutedBadly(left, doubts)
    \/ ScanEnds
    \/ \E quoted, kept, doubts, new \in SUBSET Strategies : Quote(quoted, kept, doubts, new)
    \/ \E passed \in SUBSET Strategies : Validate(passed)
    \/ \E s \in Strategies, accepted, doubted \in BOOLEAN : Submit(s, accepted, doubted)
    \/ TickEnds

Next ==
    \/ Serve
    \/ Tick
    \/ \E lost, found \in SUBSET Strategies : Start(lost, found)
    \/ Alarm
    \/ \E s \in Strategies : Closed(s) \/ Reappears(s)
    \/ \E left, doubts \in SUBSET Strategies : Die(left, doubts)

\* A tick goes on while the process lives: every call it awaits has a time
\* limit.  Nothing restarts a process, and nobody has to ask the server.
Spec == Init /\ [][Next]_vars /\ WF_vars(Tick)

-----------------------------------------------------------------------------
\* All variables have their types, and the command being executed is one the
\* engine's payload shows as processing.
TypeOK ==
    /\ pauses \in SUBSET Strategies /\ switch \in BOOLEAN
    /\ queue \in Queues /\ config \in SUBSET Strategies
    /\ tasks \in [Threads -> Task \cup {NoTask}]
    /\ heldPauses \in [Threads -> SUBSET Strategies]
    /\ heldQueue \in [Threads -> Queues]
    /\ heldConfig \in [Threads -> SUBSET Strategies]
    /\ about \in [Commands -> Strategies \cup {"none"}]
    /\ phase \in Phases
    /\ loaded \in SUBSET Strategies /\ paused \in SUBSET Strategies
    /\ safe \in BOOLEAN /\ alarm \in BOOLEAN
    /\ copy \in Queues
    /\ current \in Commands \cup {"none"}
    /\ phase = "execute" => current \in Commands /\ copy[current] = "processing"
    /\ places \in SUBSET Strategies
    /\ working \in SUBSET Strategies /\ doubtful \in SUBSET Strategies
    /\ begun \in [Commands -> Nat]
    /\ stopped \in SUBSET Strategies
    /\ overlap \in SUBSET {"states", "queue", "config"}
    /\ kills \in 0 .. MaxKills

\* Safe mode entered for a reason of the engine's own outlives every reading
\* of the switch, whatever the operator sets it to, until the process ends.
AlarmHolds == alarm => safe

\* While nobody has overwritten a command file he did not know, every command
\* that was queued is in the file, and the file tells the truth: execution of a
\* command has begun once if it is past pending, and not before, also when the
\* process died during it.
QueueTellsTruth ==
    "queue" \notin overlap =>
        \A c \in Commands :
            /\ about[c] # "none" => queue[c] # "none"
            /\ begun[c] = IF queue[c] \in {"none", "pending"} THEN 0 ELSE 1

\* A queued command stays in the command file, for the engine to execute.
QueuedIsKept == \A c \in Commands : about[c] # "none" => queue[c] # "none"

\* While nobody has overwritten a state file he did not know, a strategy that
\* was answered to be paused, and has not been the subject of a request since,
\* is paused in the file, whatever was done to other strategies.
PausesKept == "states" \notin overlap => stopped \subseteq pauses

\* If the kill switch stays on and the engine up, it sooner or later stops
\* placing orders for good, whatever its tick was at.
KillSwitchHolds ==
    <>[](switch /\ phase # "down") => <>[](phase = "submit" => places = {})

\* If a strategy stays paused and the engine up, it sooner or later has no
\* open order, and gets none again, unless orders whose cancels failed are
\* reported to be open time and again.
PauseEmptiesBook ==
    \A s \in Strategies :
        <>[](s \in pauses /\ phase # "down") =>
            \/ <>[](s \notin working)
            \/ []<><<Reappears(s)>>_vars

\* If the kill switch stays on and the engine up, no open order is left, unless
\* orders whose cancels failed are reported to be open time and again.
\* docs/market_maker_development_plan.md:771 says the switch cancels orders.
KillSwitchEmptiesBook ==
    <>[](switch /\ phase # "down") =>
        <>[](working = {}) \/ \E s \in Strategies : []<><<Reappears(s)>>_vars
=============================================================================
