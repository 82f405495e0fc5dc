---------------------------- MODULE RateLimiter -----------------------------
(***************************************************************************)
(* SlidingWindowRateLimiter (src/src/mm/exchange/rate_limit.py), which the *)
(* threads of the REST gateway share.  What a thread does under the lock   *)
(* is one action; between a look and the next one a waiting thread sleeps, *)
(* and may oversleep.  Time is a count of ticks.                           *)
(***************************************************************************)
EXTENDS Integers, Sequences

CONSTANTS Threads,
          MaxCalls, Window,   \* max_calls and window_seconds
          MaxTime             \* bound on the clock

ASSUME LimiterAssumption == MaxCalls \in Nat \ {0} /\ Window \in Nat \ {0}

VARIABLES now,        \* time.monotonic()
          calls,      \* _calls: times of admitted calls, as long as they count
          waiting,    \* threads inside wait()
          due,        \* when a waiting thread looks again
          admitted    \* history: times of all admitted calls

limiterVars == <<now, calls, waiting, due, admitted>>

LimiterInit ==
    /\ now = 0
    /\ calls = <<>> /\ admitted = <<>>
    /\ waiting = {} /\ due = [t \in Threads |-> 0]

\* The first of S.
Least(S) == CHOOSE i \in S : \A j \in S : i <= j

\* Mutant: a call is forgotten one tick too early.
PrunedEarly(c) ==
    LET live == {i \in DOMAIN c : now - c[i] < Window - 1}
    IN  IF live = {} THEN <<>> ELSE SubSeq(c, Least(live), Len(c))

\* _prune: calls leave at the front as long as they are out of the window.
Pruned(c) ==
    LET live == {i \in DOMAIN c : now - c[i] < Window}
    IN  IF live = {} THEN <<>> ELSE SubSeq(c, Least(live), Len(c))

HasRoom == Len(Pruned(calls)) < MaxCalls

Admit ==
    /\ HasRoom
    /\ calls' = Append(Pruned(calls), now)
    /\ admitted' = Append(admitted, now)

Refuse ==
    /\ ~HasRoom
    /\ calls' = Pruned(calls)
    /\ UNCHANGED admitted

\* allow: the caller is told whether it may go on.
Allow(t) ==
    /\ t \notin waiting
    /\ Admit \/ Refuse
    /\ UNCHANGED <<now, waiting, due>>

\* wait: the caller comes back when it is admitted.
BeginWait(t) ==
    /\ t \notin waiting
    /\ waiting' = waiting \cup {t}
    /\ due' = [due EXCEPT ![t] = now]
    /\ UNCHANGED <<now, calls, admitted>>

\* One turn of the loop in wait.
Look(t) ==
    /\ t \in waiting /\ due[t] <= now
    /\ \/ /\ Admit
          /\ waiting' = waiting \ {t}
          /\ due' = [due EXCEPT ![t] = 0]
       \/ /\ Refuse
          /\ due' = [due EXCEPT ![t] = calls'[1] + Window]
          /\ UNCHANGED waiting
    /\ UNCHANGED now

\* snapshot: what it reports is calls', after pruning.
Snapshot ==
    /\ calls' = Pruned(calls)
    /\ UNCHANGED <<now, waiting, due, admitted>>

Tick ==
    /\ now < MaxTime
    /\ now' = now + 1
    /\ UNCHANGED <<calls, waiting, due, admitted>>

LimiterNext ==
    \/ \E t \in Threads : Allow(t) \/ BeginWait(t) \/ Look(t)
    \/ Snapshot
    \/ Tick

LimiterSpec == LimiterInit /\ [][LimiterNext]_limiterVars

-----------------------------------------------------------------------------
\* No window of the given length holds more than max_calls admissions, however
\* the threads that call allow and wait interleave (rate_limit.py:30-49).
WindowNeverExceeded ==
    \A i \in DOMAIN admitted :
        i + MaxCalls \in DOMAIN admitted => admitted[i + MaxCalls] - admitted[i] >= Window

=============================================================================
