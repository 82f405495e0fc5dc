----------------------------- MODULE MCConsole ------------------------------
(***************************************************************************)
(* The console writes the configuration file, the reloader reads it.       *)
(***************************************************************************)
EXTENDS AdminConsole, TLC

VARIABLES lastMtime, lastSettings, found, read

Reloader == INSTANCE ConfigReloader

Basic(symbol) == [id |-> "", name |-> "basic_mm", symbol |-> symbol]
Ladder(symbol) == [id |-> "main", name |-> "ladder_mm", symbol |-> symbol]
MCStrategies == {Basic("BTC"), Ladder("ETH")}
MCFirstConfig == Config({"BTC"}, {Basic("BTC")})
MCRole == [u \in {"root", "op"} |-> IF u = "root" THEN "admin" ELSE "operator"]
Alike == Permutations(Threads)

reloaderVars == <<lastMtime, lastSettings, found, read>>
vars == <<consoleVars, reloaderVars>>

Init == ConsoleInit /\ Reloader!ReloaderInit
Next == \/ ConsoleNext /\ UNCHANGED reloaderVars
        \/ /\ Reloader!ReloaderNext
           /\ UNCHANGED <<sessions, states, log, signed, pc, request, copy, previous, writes,
                          raced, torn, died>>

Spec == Init /\ [][Next]_vars

-----------------------------------------------------------------------------
\* ConfigReloader: a good configuration that has settled is the one in use
\* (reloader.py:25-46).
SettledFileIsLoaded == Reloader!SettledFileIsLoaded

=============================================================================
