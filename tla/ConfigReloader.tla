--------------------------- MODULE ConfigReloader ---------------------------
(***************************************************************************)
(* ConfigReloader (src/src/mm/config/reloader.py): check asks for the      *)
(* modification time of the configuration file and then, when it has       *)
(* changed, loads the file, which somebody may have replaced in between.   *)
(***************************************************************************)
EXTENDS Integers, ConfigFile

VARIABLES config, mtime,   \* the file: its content and modification time
          lastMtime,       \* _last_mtime; 0 is None
          lastSettings,    \* _last_settings: a configuration, or NoSettings
          found,           \* time that getmtime found, 0 outside of a check
          read             \* the content that from_file has read, if it has

reloaderVars == <<lastMtime, lastSettings, found, read>>

NoSettings == Config({}, {})

ReloaderInit == lastMtime = 0 /\ lastSettings = NoSettings /\ found = 0 /\ read = {}

\* The file is looked at; nothing else happens when its time is the one known.
Stat ==
    /\ found = 0 /\ mtime # lastMtime
    /\ found' = mtime
    /\ UNCHANGED <<config, mtime, lastMtime, lastSettings, read>>

\* from_file opens the file and reads it.
Read ==
    /\ found # 0 /\ read = {}
    /\ read' = {config}
    /\ UNCHANGED <<config, mtime, lastMtime, lastSettings, found>>

\* Mutant: the time is asked for again after loading.
NotedLate == mtime

\* The time that check notes, before it loads and whether or not that works.
Noted == found

\* from_file gives the first settings or new ones.  When it raises, the first
\* check is left with none and a later one with those it had.
Load(c) ==
    /\ read = {c}
    /\ lastMtime' = Noted
    /\ lastSettings' = IF Loads(c) THEN c
                       ELSE IF lastMtime = 0 THEN NoSettings ELSE lastSettings
    /\ found' = 0 /\ read' = {}
    /\ UNCHANGED <<config, mtime>>

ReloaderNext == Stat \/ Read \/ \E c \in read : Load(c)

-----------------------------------------------------------------------------
\* A reload that failed is not tried again, and still no good configuration is
\* left unread: once the reloader has nothing more to do, it holds the file's
\* content if that loads (reloader.py:25-46).
SettledFileIsLoaded ==
    (found = 0 /\ lastMtime = mtime /\ Loads(config)) => lastSettings = config

=============================================================================
