------------------------ MODULE RuntimeControlProofs ------------------------
(* Theorems about RuntimeControl, for every set of strategies, commands and  *)
(* server threads, every mix of requests and any number of engine ends.      *)
EXTENDS RuntimeControl, TLAPS

USE EndsAssumption, AskedAssumption, NamesAssumption

\* An empty queue is a queue.
LEMMA NoQueueIsQueue == NoQueue \in Queues
  BY DEF NoQueue, Queues, CommandStates

\* The initial state has the types.
LEMMA TypeInit == Init => TypeOK
<1> SUFFICES ASSUME Init PROVE TypeOK
  OBVIOUS
<1>1. kills \in 0 .. MaxKills /\ begun \in [Commands -> Nat]
  BY DEF Init
<1>2. /\ tasks \in [Threads -> Task \cup {NoTask}]
      /\ heldPauses \in [Threads -> SUBSET Strategies]
      /\ heldConfig \in [Threads -> SUBSET Strategies]
      /\ about \in [Commands -> Strategies \cup {"none"}]
  BY DEF Init
<1>3. heldQueue \in [Threads -> Queues] /\ queue \in Queues /\ copy \in Queues
  BY NoQueueIsQueue DEF Init
<1>. QED
  BY <1>1, <1>2, <1>3 DEF Init, TypeOK, Phases

\* The server's steps keep the types.
LEMMA TypeServe == TypeOK /\ Serve => TypeOK'
<1> SUFFICES ASSUME TypeOK, Serve PROVE TypeOK'
  OBVIOUS
<1> USE DEF TypeOK
<1>1. ASSUME NEW t \in Threads, NEW kind \in Asked, NEW s \in Strategies, Request(t, kind, s)
      PROVE  TypeOK'
  <2>1. [kind |-> kind, of |-> s,
         step |-> IF kind = "delete" THEN "read_config" ELSE "read_states"] \in Task
    BY DEF Task, Kinds, Steps
  <2>. QED
    BY <1>1, <2>1 DEF Request, files, server, engine, book, history
<1>2. ASSUME NEW t \in Threads, NEW step \in Steps, tasks[t] # NoTask, Goes(t, step)
      PROVE  tasks' \in [Threads -> Task \cup {NoTask}]
  BY <1>2 DEF Goes, Task
<1>3. ASSUME NEW t \in Threads, Finishes(t)
      PROVE  tasks' \in [Threads -> Task \cup {NoTask}]
  BY <1>3 DEF Finishes
<1>4. ASSUME NEW t \in Threads, tasks[t].step \in Steps
      PROVE  tasks[t] \in Task /\ tasks[t] # NoTask /\ tasks[t].of \in Strategies
  BY <1>4 DEF Task, NoTask, Steps
<1>5. ASSUME NEW t \in Threads, ReadConfig(t) PROVE TypeOK'
  <2>1. tasks' \in [Threads -> Task \cup {NoTask}]
    BY <1>2, <1>3, <1>4, <1>5 DEF ReadConfig, Steps
  <2>. QED
    BY <1>5, <2>1 DEF ReadConfig, files, engine, book, history
<1>6. ASSUME NEW t \in Threads, WriteConfig(t) PROVE TypeOK'
  <2>1. tasks' \in [Threads -> Task \cup {NoTask}]
    BY <1>2, <1>4, <1>6 DEF WriteConfig, Steps
  <2>. QED
    BY <1>6, <2>1 DEF WriteConfig, Replaces, engine, book
<1>7. ASSUME NEW t \in Threads, ReadStates(t) PROVE TypeOK'
  <2>1. tasks' \in [Threads -> Task \cup {NoTask}]
    BY <1>2, <1>4, <1>7 DEF ReadStates, Steps
  <2>. QED
    BY <1>7, <2>1 DEF ReadStates, files, engine, book, history
<1>8. ASSUME NEW t \in Threads, WriteStates(t) PROVE TypeOK'
  <2>1. tasks' \in [Threads -> Task \cup {NoTask}] /\ tasks[t].of \in Strategies
    BY <1>2, <1>3, <1>4, <1>8 DEF WriteStates, Steps
  <2>. QED
    BY <1>8, <2>1 DEF WriteStates, NewPauses, Replaces, engine, book
<1>9. ASSUME NEW t \in Threads, Plan(t) PROVE TypeOK'
  <2>1. tasks' \in [Threads -> Task \cup {NoTask}]
    BY <1>2, <1>3, <1>4, <1>9 DEF Plan, Steps
  <2>. QED
    BY <1>9, <2>1 DEF Plan, files, engine, book, history
<1>10. ASSUME NEW t \in Threads, ReadQueue(t) PROVE TypeOK'
  <2>1. tasks' \in [Threads -> Task \cup {NoTask}]
    BY <1>2, <1>4, <1>10 DEF ReadQueue, Steps
  <2>. QED
    BY <1>10, <2>1 DEF ReadQueue, files, engine, book, history
<1>11. ASSUME NEW t \in Threads, NEW c \in Commands, WriteQueue(t, c) PROVE TypeOK'
  <2>1. tasks' \in [Threads -> Task \cup {NoTask}] /\ tasks[t].of \in Strategies
    BY <1>3, <1>4, <1>11 DEF WriteQueue, Steps
  <2>. QED
    BY <1>11, <2>1 DEF WriteQueue, Replaces, Queues, NoQueue, CommandStates, engine, book
<1>12. CASE SetSwitch
  BY <1>12 DEF SetSwitch, server, engine, book, history
<1>. QED
  BY <1>1, <1>5, <1>6, <1>7, <1>8, <1>9, <1>10, <1>11, <1>12 DEF Serve

\* The engine's steps keep the types.
LEMMA TypeTick == TypeOK /\ Tick => TypeOK'
<1> SUFFICES ASSUME TypeOK, Tick PROVE TypeOK'
  OBVIOUS
<1> USE DEF TypeOK, files, server, book, history
<1>1. CASE ReadPauses
  BY <1>1 DEF ReadPauses, Phases
<1>2. CASE ReadSwitch
  BY <1>2 DEF ReadSwitch, Safe, Phases
<1>3. CASE ReadCommands
  BY <1>3 DEF ReadCommands, Phases
<1>4. ASSUME NEW c \in Commands, Execute(c) PROVE TypeOK'
  <2>1. copy' \in Queues /\ copy'[c] = "processing" /\ queue' \in Queues
    BY <1>4 DEF Execute, Mark, Queues, CommandStates
  <2>2. begun' \in [Commands -> Nat]
    BY <1>4 DEF Execute
  <2>. QED
    BY <1>4, <2>1, <2>2 DEF Execute, Mark, Replaces, Phases
<1>5. ASSUME NEW result \in {"done", "failed"}, phase = "execute", Write(result)
      PROVE  /\ copy' \in Queues /\ queue' \in Queues
             /\ phase' = "scan" /\ current' = "none"
             /\ overlap' \in SUBSET {"states", "queue", "config"}
  BY <1>5 DEF Write, Replaces, Queues, CommandStates
<1>6. ASSUME NEW left \in SUBSET Strategies, NEW doubts \in SUBSET Strategies,
             ExecutedWell(left, doubts)
      PROVE  TypeOK'
  BY <1>5, <1>6 DEF ExecutedWell, Write, Phases
<1>7. ASSUME NEW left \in SUBSET Strategies, NEW doubts \in SUBSET Strategies,
             ExecutedBadly(left, doubts)
      PROVE  TypeOK'
  BY <1>5, <1>7 DEF ExecutedBadly, Write, Phases
<1>8. CASE ScanEnds
  BY <1>8, NoQueueIsQueue DEF ScanEnds, Phases
<1>9. ASSUME NEW quoted \in SUBSET Strategies, NEW kept \in SUBSET Strategies,
             NEW doubts \in SUBSET Strategies, NEW new \in SUBSET Strategies,
             Quote(quoted, kept, doubts, new)
      PROVE  TypeOK'
  BY <1>9 DEF Quote, Phases
<1>10. ASSUME NEW passed \in SUBSET Strategies, Validate(passed) PROVE TypeOK'
  BY <1>10 DEF Validate, Phases
<1>11. ASSUME NEW s \in Strategies, NEW accepted \in BOOLEAN, NEW doubted \in BOOLEAN,
              Submit(s, accepted, doubted)
       PROVE  TypeOK'
  BY <1>11 DEF Submit, Phases
<1>12. CASE TickEnds
  BY <1>12 DEF TickEnds, Phases
<1> HIDE DEF TypeOK, files, server, book, history
<1>. QED
  BY <1>1, <1>2, <1>3, <1>4, <1>6, <1>7, <1>8, <1>9, <1>10, <1>11, <1>12, Zenon DEF Tick

\* Every step keeps the types.
LEMMA TypeStep == TypeOK /\ [Next]_vars => TypeOK'
<1> SUFFICES ASSUME TypeOK, [Next]_vars PROVE TypeOK'
  OBVIOUS
<1>1. CASE Serve
  BY <1>1, TypeServe
<1>2. CASE Tick
  BY <1>2, TypeTick
<1> USE DEF TypeOK, files, server, book, history
<1>3. ASSUME NEW lost \in SUBSET Strategies, NEW found \in SUBSET Strategies, Start(lost, found)
      PROVE  TypeOK'
  BY <1>3 DEF Start, Phases
<1>4. CASE Alarm
  BY <1>4 DEF Alarm
<1>5. ASSUME NEW s \in Strategies, Closed(s) \/ Reappears(s) PROVE TypeOK'
  BY <1>5 DEF Closed, Reappears, engine
<1>6. ASSUME NEW left \in SUBSET Strategies, NEW doubts \in SUBSET Strategies, Die(left, doubts)
      PROVE  TypeOK'
  <2>1. kills' \in 0 .. MaxKills
    BY <1>6 DEF Die
  <2>. QED
    BY <1>6, <2>1, NoQueueIsQueue DEF Die, Phases
<1>7. CASE UNCHANGED vars
  BY <1>7 DEF vars, engine
<1>. QED
  BY <1>1, <1>2, <1>3, <1>4, <1>5, <1>6, <1>7 DEF Next

\* The variables have their types, whatever the server and the engine do, and
\* the command being executed is shown as processing by the engine's payload.
THEOREM ControlTypeCorrect == Spec => []TypeOK
  BY TypeInit, TypeStep, PTL DEF Spec

-----------------------------------------------------------------------------
\* An alarm of the engine's own keeps it in safe mode for the life of the
\* process: no switch an operator sets ends it.
THEOREM AlarmAlwaysHolds == Spec => []AlarmHolds
<1>1. Init => AlarmHolds
  BY DEF Init, AlarmHolds
<1>2. TypeOK /\ AlarmHolds /\ [Next]_vars => AlarmHolds'
  <2> SUFFICES ASSUME TypeOK, AlarmHolds, [Next]_vars PROVE AlarmHolds'
    OBVIOUS
  <2> USE DEF AlarmHolds
  <2>1. CASE Serve
    BY <2>1 DEF Serve, Request, ReadConfig, WriteConfig, ReadStates, WriteStates, Plan,
                ReadQueue, WriteQueue, SetSwitch, engine
  <2>2. CASE Tick
    <3>1. CASE ReadSwitch
      BY <3>1 DEF ReadSwitch, Safe
    <3>2. CASE \E left, doubts \in SUBSET Strategies : ExecutedBadly(left, doubts)
      BY <3>2 DEF ExecutedBadly
    <3>3. CASE /\ ~ReadSwitch
               /\ ~\E left, doubts \in SUBSET Strategies : ExecutedBadly(left, doubts)
      BY <2>2, <3>3 DEF Tick, ReadPauses, ReadCommands, Execute, ExecutedWell, ScanEnds,
                        Quote, Validate, Submit, TickEnds
    <3>. QED
      BY <3>1, <3>2, <3>3
  <2>3. CASE Alarm
    BY <2>3 DEF Alarm
  <2>4. ASSUME NEW lost \in SUBSET Strategies, NEW found \in SUBSET Strategies,
               Start(lost, found)
        PROVE  AlarmHolds'
    BY <2>4 DEF Start
  <2>5. ASSUME NEW s \in Strategies, Closed(s) \/ Reappears(s) PROVE AlarmHolds'
    BY <2>5 DEF Closed, Reappears, engine
  <2>6. ASSUME NEW left \in SUBSET Strategies, NEW doubts \in SUBSET Strategies,
               Die(left, doubts)
        PROVE  AlarmHolds'
    BY <2>6 DEF Die
  <2>7. CASE UNCHANGED vars
    BY <2>7 DEF vars, engine
  <2>. QED
    BY <2>1, <2>2, <2>3, <2>4, <2>5, <2>6, <2>7 DEF Next
<1>. QED
  BY <1>1, <1>2, ControlTypeCorrect, PTL DEF Spec

-----------------------------------------------------------------------------
(* The command file.                                                       *)

\* What QueueTellsTruth rests on: a command nobody queued is not in the file.
QueueInv ==
    /\ QueueTellsTruth
    /\ "queue" \notin overlap => \A c \in Commands : about[c] = "none" => queue[c] = "none"

\* Steps that leave the file and the history of the commands alone.
LEMMA QueueUntouched ==
    QueueInv /\ UNCHANGED <<queue, about, begun>> /\ overlap \subseteq overlap' => QueueInv'
  BY DEF QueueInv, QueueTellsTruth

\* The server's steps: a command is added to the file that was read, or the
\* file was overwritten.
LEMMA QueueServe == TypeOK /\ QueueInv /\ Serve => QueueInv'
<1> SUFFICES ASSUME TypeOK, QueueInv, Serve PROVE QueueInv'
  OBVIOUS
<1>1. ASSUME NEW t \in Threads, NEW c \in Commands, WriteQueue(t, c) PROVE QueueInv'
  <2>1. tasks[t].of \in Strategies /\ tasks[t].of # "none"
    BY <1>1, NamesAssumption DEF WriteQueue, TypeOK, Task, NoTask
  <2>2. CASE "queue" \in overlap'
    BY <2>2 DEF QueueInv, QueueTellsTruth
  <2>3. CASE "queue" \notin overlap'
    <3>1. "queue" \notin overlap /\ heldQueue[t] = queue
      BY <1>1, <2>3 DEF WriteQueue, Replaces
    <3>2. queue' = [queue EXCEPT ![c] = "pending"] /\ about[c] = "none"
          /\ about' = [about EXCEPT ![c] = tasks[t].of] /\ begun' = begun
      BY <1>1, <3>1 DEF WriteQueue
    <3>3. queue \in [Commands -> CommandStates] /\ about \in [Commands -> Strategies \cup {"none"}]
      BY DEF TypeOK, Queues
    <3>4. queue[c] = "none" /\ begun[c] = 0
      BY <3>1, <3>2 DEF QueueInv, QueueTellsTruth
    <3>. QED
      BY <2>1, <2>3, <3>1, <3>2, <3>3, <3>4 DEF QueueInv, QueueTellsTruth
  <2>. QED
    BY <2>2, <2>3
<1>2. CASE ~\E t \in Threads, c \in Commands : WriteQueue(t, c)
  <2>1. UNCHANGED <<queue, about, begun>> /\ overlap \subseteq overlap'
    BY <1>2 DEF Serve, Request, ReadConfig, WriteConfig, ReadStates, WriteStates, Plan,
                ReadQueue, SetSwitch, Replaces, files, server, history
  <2>. QED
    BY <2>1, QueueUntouched
<1>. QED
  BY <1>1, <1>2

\* What an entry past pending is changed to, in a file that was not
\* overwritten, makes no difference to the truth.
LEMMA QueueWrite ==
  ASSUME TypeOK, QueueInv, phase = "execute",
         NEW result \in {"done", "failed"}, Write(result), about' = about
  PROVE  QueueInv'
<1>1. CASE "queue" \in overlap'
  BY <1>1 DEF QueueInv, QueueTellsTruth
<1>2. CASE "queue" \notin overlap'
  <2>1. "queue" \notin overlap /\ copy = queue
    BY <1>2 DEF Write, Replaces
  <2>2. queue' = [queue EXCEPT ![current] = result] /\ begun' = begun
    BY <2>1 DEF Write
  <2>3. queue \in [Commands -> CommandStates] /\ current \in Commands
        /\ queue[current] = "processing"
    BY <2>1 DEF TypeOK, Queues
  <2>. QED
    BY <1>2, <2>1, <2>2, <2>3 DEF QueueInv, QueueTellsTruth
<1>. QED
  BY <1>1, <1>2

\* The engine's steps: execution begins after it has been written that it
\* does.
LEMMA QueueTick == TypeOK /\ QueueInv /\ Tick => QueueInv'
<1> SUFFICES ASSUME TypeOK, QueueInv, Tick PROVE QueueInv'
  OBVIOUS
<1>1. ASSUME NEW c \in Commands, Execute(c) PROVE QueueInv'
  <2>1. CASE "queue" \in overlap'
    BY <2>1 DEF QueueInv, QueueTellsTruth
  <2>2. CASE "queue" \notin overlap'
    <3>1. "queue" \notin overlap /\ copy = queue
      BY <1>1, <2>2 DEF Execute, Mark, Replaces
    <3>2. queue' = [queue EXCEPT ![c] = "processing"] /\ queue[c] = "pending"
          /\ begun' = [begun EXCEPT ![c] = @ + 1] /\ about' = about
      BY <1>1, <3>1 DEF Execute, Mark, server
    <3>3. queue \in [Commands -> CommandStates] /\ begun \in [Commands -> Nat]
      BY DEF TypeOK, Queues
    <3>4. begun[c] = 0 /\ about[c] # "none"
      BY <3>1, <3>2 DEF QueueInv, QueueTellsTruth
    <3>. QED
      BY <2>2, <3>1, <3>2, <3>3, <3>4 DEF QueueInv, QueueTellsTruth
  <2>. QED
    BY <2>1, <2>2
<1>2. ASSUME NEW left \in SUBSET Strategies, NEW doubts \in SUBSET Strategies,
             ExecutedWell(left, doubts)
      PROVE  QueueInv'
  BY <1>2, QueueWrite DEF ExecutedWell, Write, server
<1>3. ASSUME NEW left \in SUBSET Strategies, NEW doubts \in SUBSET Strategies,
             ExecutedBadly(left, doubts)
      PROVE  QueueInv'
  BY <1>3, QueueWrite DEF ExecutedBadly, Write, server
<1>4. CASE /\ ~\E c \in Commands : Execute(c)
           /\ ~\E left, doubts \in SUBSET Strategies :
                ExecutedWell(left, doubts) \/ ExecutedBadly(left, doubts)
  <2>1. UNCHANGED <<queue, about, begun>> /\ overlap' = overlap
    BY <1>4 DEF Tick, ReadPauses, ReadSwitch, ReadCommands, ScanEnds, Quote, Validate,
                Submit, TickEnds, files, server, history
  <2>. QED
    BY <2>1, QueueUntouched
<1>. QED
  BY <1>1, <1>2, <1>3, <1>4

\* As long as nobody overwrites a command file he did not know, no queued
\* command is lost and none is executed twice, whenever the engine dies.
THEOREM QueueAlwaysTellsTruth == Spec => []QueueTellsTruth
<1>1. Init => QueueInv
  BY DEF Init, QueueInv, QueueTellsTruth, NoQueue
<1>2. TypeOK /\ QueueInv /\ [Next]_vars => QueueInv'
  <2> SUFFICES ASSUME TypeOK, QueueInv, [Next]_vars PROVE QueueInv'
    OBVIOUS
  <2>1. CASE Serve
    BY <2>1, QueueServe
  <2>2. CASE Tick
    BY <2>2, QueueTick
  <2>3. CASE ~Serve /\ ~Tick
    <3>1. UNCHANGED <<queue, about, begun>> /\ overlap' = overlap
      BY <2>3 DEF Next, Start, Alarm, Closed, Reappears, Die, vars, files, server, history
    <3>. QED
      BY <3>1, QueueUntouched
  <2>. QED
    BY <2>1, <2>2, <2>3
<1>3. QueueInv => QueueTellsTruth
  BY DEF QueueInv
<1>. QED
  BY <1>1, <1>2, <1>3, ControlTypeCorrect, PTL DEF Spec

-----------------------------------------------------------------------------
(* The state file.                                                         *)

\* What PausesKept rests on: nobody is about to resume or delete a strategy
\* that was answered to be paused.
PauseInv ==
    /\ PausesKept
    /\ \A t \in Threads :
        /\ tasks[t].kind \in {"resume", "delete"}
        /\ tasks[t].step \in {"read_config", "write_config", "read_states", "write_states"}
        => tasks[t].of \notin stopped

\* Steps that add neither a request nor an answer and leave the file alone.
LEMMA PausesUntouched ==
    PauseInv /\ UNCHANGED <<pauses, tasks, stopped>> /\ overlap \subseteq overlap' => PauseInv'
  BY DEF PauseInv, PausesKept

\* A request that goes on to its next step.
LEMMA PausesGo ==
  ASSUME TypeOK, PauseInv, NEW t \in Threads, NEW step, Goes(t, step),
         step \in {"plan", "read_queue", "write_queue"} \/
         tasks[t].step \in {"read_config", "write_config", "read_states", "write_states"},
         UNCHANGED <<pauses, stopped>>, overlap \subseteq overlap'
  PROVE  PauseInv'
  BY DEF TypeOK, PauseInv, PausesKept, Goes

\* A request that is answered without changing the file.
LEMMA PausesFinish ==
  ASSUME TypeOK, PauseInv, NEW t \in Threads, Finishes(t),
         UNCHANGED <<pauses, stopped>>, overlap \subseteq overlap'
  PROVE  PauseInv'
  BY DEF TypeOK, PauseInv, PausesKept, Finishes, NoTask

\* The entry of a strategy is written into the file that was read, or the file
\* was overwritten.
LEMMA PausesWrite ==
  ASSUME TypeOK, PauseInv, NEW t \in Threads, WriteStates(t)
  PROVE  PauseInv'
<1> DEFINE s == tasks[t].of
           kind == tasks[t].kind
<1>1. s \in Strategies /\ kind \in Kinds
  BY DEF WriteStates, TypeOK, Task, NoTask
<1>2. stopped' = IF kind \in {"pause", "stop"} /\ Alone(t, s) THEN stopped \cup {s} ELSE stopped
  BY DEF WriteStates
<1>3. PausesKept'
  <2>1. CASE "states" \in overlap'
    BY <2>1 DEF PausesKept
  <2>2. CASE "states" \notin overlap'
    <3>1. "states" \notin overlap /\ heldPauses[t] = pauses
      BY <2>2 DEF WriteStates, Replaces
    <3>2. stopped \subseteq pauses /\ pauses' = NewPauses(kind, pauses, s)
      BY <3>1 DEF PauseInv, PausesKept, WriteStates
    <3>3. kind \in {"resume", "delete"} => s \notin stopped
      BY DEF PauseInv, WriteStates
    <3>. QED
      BY <1>1, <1>2, <3>2, <3>3 DEF PausesKept, NewPauses, Kinds
  <2>. QED
    BY <2>1, <2>2
<1>4. tasks'[t] = [tasks[t] EXCEPT !.step = "plan"] \/ tasks'[t] = NoTask
  BY DEF WriteStates, Goes, Finishes, TypeOK
<1>5. \A u \in Threads \ {t} : tasks'[u] = tasks[u]
  BY DEF WriteStates, Goes, Finishes, TypeOK
<1>6. ASSUME NEW u \in Threads,
             tasks'[u].kind \in {"resume", "delete"},
             tasks'[u].step \in {"read_config", "write_config", "read_states", "write_states"}
      PROVE  tasks'[u].of \notin stopped'
  <2>1. u # t
    BY <1>4, <1>6 DEF NoTask, TypeOK, Task
  <2>2. tasks'[u] = tasks[u] /\ tasks[u].of \notin stopped
    BY <1>5, <1>6, <2>1 DEF PauseInv
  <2>. QED
    BY <1>2, <2>1, <2>2 DEF Alone
<1>. QED
  BY <1>3, <1>6 DEF PauseInv

\* The server's steps.
LEMMA PausesServe == TypeOK /\ PauseInv /\ Serve => PauseInv'
<1> SUFFICES ASSUME TypeOK, PauseInv, Serve PROVE PauseInv'
  OBVIOUS
<1>1. ASSUME NEW t \in Threads, NEW kind \in Asked, NEW s \in Strategies, Request(t, kind, s)
      PROVE  PauseInv'
  <2>1. /\ stopped' = stopped \ {s} /\ pauses' = pauses /\ overlap' = overlap
        /\ tasks'[t].of = s /\ \A u \in Threads \ {t} : tasks'[u] = tasks[u]
    BY <1>1 DEF Request, files, TypeOK
  <2>. QED
    BY <2>1 DEF PauseInv, PausesKept
<1>2. ASSUME NEW t \in Threads, ReadConfig(t) PROVE PauseInv'
  BY <1>2, PausesGo, PausesFinish DEF ReadConfig, files, history
<1>3. ASSUME NEW t \in Threads, WriteConfig(t) PROVE PauseInv'
  BY <1>3, PausesGo DEF WriteConfig, Replaces
<1>4. ASSUME NEW t \in Threads, ReadStates(t) PROVE PauseInv'
  BY <1>4, PausesGo DEF ReadStates, files, history
<1>5. ASSUME NEW t \in Threads, WriteStates(t) PROVE PauseInv'
  BY <1>5, PausesWrite
<1>6. ASSUME NEW t \in Threads, Plan(t) PROVE PauseInv'
  BY <1>6, PausesGo, PausesFinish DEF Plan, files, history
<1>7. ASSUME NEW t \in Threads, ReadQueue(t) PROVE PauseInv'
  BY <1>7, PausesGo DEF ReadQueue, files, history
<1>8. ASSUME NEW t \in Threads, NEW c \in Commands, WriteQueue(t, c) PROVE PauseInv'
  BY <1>8, PausesFinish DEF WriteQueue, Replaces
<1>9. CASE SetSwitch
  BY <1>9, PausesUntouched DEF SetSwitch, server, history
<1>. QED
  BY <1>1, <1>2, <1>3, <1>4, <1>5, <1>6, <1>7, <1>8, <1>9 DEF Serve

\* As long as nobody overwrites a state file he did not know, a pause that was
\* answered is kept until somebody asks something else of the strategy.
THEOREM PausesAlwaysKept == Spec => []PausesKept
<1>1. Init => PauseInv
  BY DEF Init, PauseInv, PausesKept, NoTask
<1>2. TypeOK /\ PauseInv /\ [Next]_vars => PauseInv'
  <2> SUFFICES ASSUME TypeOK, PauseInv, [Next]_vars PROVE PauseInv'
    OBVIOUS
  <2>1. CASE Serve
    BY <2>1, PausesServe
  <2>2. CASE Tick
    <3>1. UNCHANGED <<pauses, tasks, stopped>> /\ overlap \subseteq overlap'
      BY <2>2 DEF Tick, ReadPauses, ReadSwitch, ReadCommands, Execute, Mark, ExecutedWell,
                  ExecutedBadly, Write, Replaces, ScanEnds, Quote, Validate, Submit, TickEnds,
                  files, server, history
    <3>. QED
      BY <3>1, PausesUntouched
  <2>3. CASE ~Serve /\ ~Tick
    <3>1. UNCHANGED <<pauses, tasks, stopped>> /\ overlap' = overlap
      BY <2>3 DEF Next, Start, Alarm, Closed, Reappears, Die, vars, files, server, history
    <3>. QED
      BY <3>1, PausesUntouched
  <2>. QED
    BY <2>1, <2>2, <2>3
<1>3. PauseInv => PausesKept
  BY DEF PauseInv
<1>. QED
  BY <1>1, <1>2, <1>3, ControlTypeCorrect, PTL DEF Spec
=============================================================================
