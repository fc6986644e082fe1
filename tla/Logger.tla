-------------------------------- MODULE Logger --------------------------------
(***************************************************************************)
(* The logger (modules/core/src/logger.cpp): init() and fini(), the thread *)
(* that looks for the update file every five seconds and reloads the       *)
(* configuration, and the lookups of categories by every thread that logs. *)
(*                                                                         *)
(* cats_ is a hash table without a lock.  A lookup is two steps; when the  *)
(* table is written between them its outcome is undefined: it may find     *)
(* the category, miss it, or end the process.                              *)
(*                                                                         *)
(* zlog and the file system are external: zlog_init(), zlog_reload() and   *)
(* zlog_get_category() may fail.  An operator writes a version of the      *)
(* configuration and then makes the update file.  ensure_dir() and the     *)
(* messages on the console are left out.  The threads that log exist only  *)
(* between init() and fini(): Application shows that.                      *)
(*                                                                         *)
(* A definition with an underscore in its name is a faulty variant of the  *)
(* one that follows it, kept to show that the properties can fail.         *)
(***************************************************************************)
EXTENDS Integers, Sequences

CONSTANTS Threads,             \* the threads that log
          LogCategoryNames,    \* a sequence
          MaxVersion           \* bound: versions of the configuration

ASSUME LoggerAssumption ==
    /\ MaxVersion \in Nat
    /\ LogCategoryNames \in Seq(STRING)

VARIABLES
    initialized,   \* initialized_
    cats,          \* the names in cats_
    stop,          \* stop_flag_
    zlog,          \* "none", "up", "down": before zlog_init(), after it, after zlog_fini()
    main,          \* where the main thread is
    task,          \* where check_config_task() is
    filled,        \* how many names preload_categories() has treated
    denied,        \* the names that zlog has refused a category for
    conf,          \* the version of the configuration file
    file,          \* whether the update file exists
    loaded,        \* the version that zlog has loaded
    spoilt,        \* the latest version that a failed reload met
    asked,         \* the latest version announced while no reload was going on
    lookup,        \* thread |-> what get_category() is doing, or what it returned
    torn           \* the threads whose latest lookup a reload has overlapped

mainVars == <<initialized, stop, main>>
fileVars == <<conf, file, asked>>
zlogVars == <<zlog, loaded, spoilt>>
catVars == <<cats, denied>>
readers == <<lookup, torn>>
vars == <<mainVars, fileVars, zlogVars, catVars, task, filled, readers>>

Categories == {LogCategoryNames[n] : n \in DOMAIN LogCategoryNames}

Init ==
    /\ initialized = FALSE /\ stop = TRUE /\ main = "init"
    /\ conf = 0 /\ file \in BOOLEAN /\ asked = 0
    /\ zlog = "none" /\ loaded = 0 /\ spoilt = 0
    /\ cats = {} /\ denied = {}
    /\ task = "none" /\ filled = 0
    /\ lookup = [t \in Threads |-> "idle"] /\ torn = {}

-----------------------------------------------------------------------------
(* init() *)

InitFails ==
    /\ main = "init"
    /\ main' = "serve"
    /\ UNCHANGED <<initialized, stop, fileVars, zlogVars, catVars, task, filled, readers>>

\* No other thread exists yet, so preload_categories() is one step here.
InitSucceeds ==
    /\ main = "init"
    /\ zlog' = "up" /\ loaded' = conf
    /\ initialized' = TRUE
    /\ cats' \in SUBSET Categories /\ denied' = Categories \ cats'
    /\ main' = "start"
    /\ UNCHANGED <<stop, fileVars, spoilt, task, filled, readers>>

StartThread ==
    /\ main = "start"
    /\ stop' = FALSE
    /\ task' = "loop"
    /\ main' = "serve"
    /\ UNCHANGED <<initialized, fileVars, zlogVars, catVars, filled, readers>>

-----------------------------------------------------------------------------
(* check_config_task() *)

TaskLoop ==
    /\ task = "loop"
    /\ task' = IF stop THEN "done" ELSE "access"
    /\ UNCHANGED <<mainVars, fileVars, zlogVars, catVars, filled, readers>>

TaskAccess ==
    /\ task = "access"
    /\ task' = IF file THEN "reload" ELSE "sleep"
    /\ UNCHANGED <<mainVars, fileVars, zlogVars, catVars, filled, readers>>

ReloadSucceeds ==
    /\ task = "reload"
    /\ loaded' = conf
    /\ task' = "clear"
    /\ UNCHANGED <<mainVars, fileVars, zlog, spoilt, catVars, filled, readers>>

ReloadFails_Cleared ==
    /\ task = "reload"
    /\ spoilt' = conf
    /\ cats' = {}
    /\ task' = "remove"
    /\ UNCHANGED <<mainVars, fileVars, zlog, loaded, denied, filled, readers>>
ReloadFails_Returns ==
    /\ task = "reload"
    /\ spoilt' = conf
    /\ task' = "done"
    /\ UNCHANGED <<mainVars, fileVars, zlog, loaded, catVars, filled, readers>>
ReloadFails ==
    /\ task = "reload"
    /\ spoilt' = conf
    /\ task' = "remove"
    /\ UNCHANGED <<mainVars, fileVars, zlog, loaded, catVars, filled, readers>>

\* No lookup has ended the process.
Alive == \A t \in Threads : lookup[t] # "crash"

\* The threads within a lookup.
Searching == {t \in Threads : lookup[t] = "search"}

PreloadClear ==
    /\ task = "clear"
    /\ cats' = {} /\ denied' = {}
    /\ filled' = 0
    /\ torn' = torn \cup Searching
    /\ task' = "fill"
    /\ UNCHANGED <<mainVars, fileVars, zlogVars, lookup>>

PreloadName ==
    /\ task = "fill" /\ filled < Len(LogCategoryNames)
    /\ LET name == LogCategoryNames[filled + 1]
       IN  \/ /\ cats' = cats \cup {name}
              /\ torn' = torn \cup Searching
              /\ UNCHANGED denied
           \/ /\ denied' = denied \cup {name}    \* zlog_get_category() returns null
              /\ UNCHANGED <<cats, torn>>
    /\ filled' = filled + 1
    /\ UNCHANGED <<mainVars, fileVars, zlogVars, task, lookup>>

PreloadEnd ==
    /\ task = "fill" /\ filled = Len(LogCategoryNames)
    /\ task' = "remove"
    /\ UNCHANGED <<mainVars, fileVars, zlogVars, catVars, filled, readers>>

\* The file is removed also when the reload failed, or when it was made anew since.
TaskRemove ==
    /\ task = "remove"
    /\ file' = FALSE
    /\ task' = "sleep"
    /\ UNCHANGED <<mainVars, conf, asked, zlogVars, catVars, filled, readers>>

TaskSleep ==
    /\ task = "sleep"
    /\ task' = "loop"
    /\ UNCHANGED <<mainVars, fileVars, zlogVars, catVars, filled, readers>>

TaskStep ==
    /\ Alive
    /\ \/ TaskLoop \/ TaskAccess \/ ReloadSucceeds \/ ReloadFails
       \/ PreloadClear \/ PreloadName \/ PreloadEnd \/ TaskRemove \/ TaskSleep

-----------------------------------------------------------------------------
(* get_category() *)

LookupBegin(t) ==
    /\ main = "serve" /\ initialized
    /\ lookup[t] # "search"
    /\ lookup' = [lookup EXCEPT ![t] = "search"]
    /\ torn' = torn \ {t}
    /\ UNCHANGED <<mainVars, fileVars, zlogVars, catVars, task, filled>>

\* The outcomes of a search for name: a null pointer is "denied" when zlog had no such
\* category to give, otherwise "missed".
Outcomes(t, name) ==
    IF t \in torn THEN {"found", "missed", "crash"}
    ELSE IF name \in cats THEN {"found"}
    ELSE IF name \in denied THEN {"denied"} ELSE {"missed"}

LookupEnd(t, name) ==
    /\ lookup[t] = "search"
    /\ \E r \in Outcomes(t, name) : lookup' = [lookup EXCEPT ![t] = r]
    /\ torn' = IF task = "fill" THEN torn \cup {t} ELSE torn
    /\ UNCHANGED <<mainVars, fileVars, zlogVars, catVars, task, filled>>

-----------------------------------------------------------------------------
(* The operator *)

\* A reload is going on: the file was seen and is not removed yet.
Reloading == task \in {"reload", "clear", "fill", "remove"}

\* A new configuration is put in place and announced.
Announce ==
    /\ main # "gone" /\ conf < MaxVersion
    /\ conf' = conf + 1
    /\ file' = TRUE
    /\ asked' = IF Reloading THEN asked ELSE conf'
    /\ UNCHANGED <<mainVars, zlogVars, catVars, task, filled, readers>>

-----------------------------------------------------------------------------
(* fini(), from the destructor: the threads that log are gone *)

FiniAbsent ==
    /\ main = "serve" /\ ~initialized
    /\ main' = "gone"
    /\ UNCHANGED <<initialized, stop, fileVars, zlogVars, catVars, task, filled, readers>>

FiniBegin ==
    /\ main = "serve" /\ initialized /\ Searching = {}
    /\ stop' = TRUE
    /\ main' = "join"
    /\ UNCHANGED <<initialized, fileVars, zlogVars, catVars, task, filled, readers>>

FiniJoin_Skipped ==
    /\ main = "join"
    /\ main' = "clear"
    /\ zlog' = "down"
    /\ UNCHANGED <<initialized, stop, fileVars, loaded, spoilt, catVars, task, filled, readers>>
FiniJoin ==
    /\ main = "join" /\ task = "done"
    /\ main' = "clear"
    /\ zlog' = "down"
    /\ UNCHANGED <<initialized, stop, fileVars, loaded, spoilt, catVars, task, filled, readers>>

FiniClear ==
    /\ main = "clear"
    /\ initialized' = FALSE
    /\ cats' = {}
    /\ main' = "gone"
    /\ UNCHANGED <<stop, fileVars, zlogVars, denied, task, filled, readers>>

\* The end of the program is not for this module to decide.
MainStep == Alive /\ (InitFails \/ InitSucceeds \/ StartThread \/ FiniJoin \/ FiniClear)

Next ==
    \/ MainStep \/ TaskStep
    \/ /\ Alive
       /\ \/ Announce \/ FiniAbsent \/ FiniBegin
          \/ \E t \in Threads : LookupBegin(t) \/ \E name \in Categories : LookupEnd(t, name)

\* The two threads run; nobody has to log, announce anything or end the program.
Spec == Init /\ [][Next]_vars /\ WF_vars(MainStep) /\ WF_vars(TaskStep)

-----------------------------------------------------------------------------
(* Properties *)

\* Every variable has its type.
TypeOK ==
    /\ initialized \in BOOLEAN /\ stop \in BOOLEAN
    /\ main \in {"init", "start", "serve", "join", "clear", "gone"}
    /\ conf \in 0 .. MaxVersion /\ file \in BOOLEAN /\ asked \in 0 .. MaxVersion
    /\ zlog \in {"none", "up", "down"}
    /\ loaded \in 0 .. MaxVersion /\ spoilt \in 0 .. MaxVersion
    /\ cats \subseteq Categories /\ denied \subseteq Categories
    /\ task \in {"none", "loop", "access", "reload", "clear", "fill", "remove", "sleep", "done"}
    /\ filled \in 0 .. Len(LogCategoryNames)
    /\ lookup \in [Threads -> {"idle", "search", "found", "denied", "missed", "crash"}]
    /\ torn \subseteq Threads

\* zlog_fini() and the last cats_.clear() come when the configuration thread has
\* returned, wherever the five seconds of its sleep or a reload were when the program
\* began to end; and while the thread exists zlog is up.
NoUseAfterFini ==
    /\ zlog = "down" => task \in {"none", "done"}
    /\ task \notin {"none", "done"} => zlog = "up" /\ initialized

\* A thread that looks up one of the categories gets it, unless its search overlaps
\* a reload: neither the start of the program, nor a reload that failed, nor the end
\* of one that succeeded loses a message.
LookupsFindCategory ==
    \A t \in Threads : lookup[t] \in {"missed", "crash"} => t \in torn

\* A configuration announced while no reload is going on is loaded, or a later one
\* is, unless zlog refuses it or the program ends: by a failed reload no later one is lost.
UpdateApplied ==
    \A v \in 1 .. MaxVersion :
       (asked = v /\ zlog = "up") ~> (loaded >= v \/ spoilt >= v \/ stop \/ ~Alive)
=============================================================================
