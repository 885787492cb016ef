---------------------------- MODULE ServiceProcess ----------------------------
(***************************************************************************)
(* The life of a service process around its applications: settings read    *)
(* once and kept, logging set up by each create_app over whatever loggers  *)
(* libraries have made by then, readiness following the lifespan.  The     *)
(* environment may change under a running process, and a start may fail.   *)
(***************************************************************************)
EXTENDS Integers, FiniteSets

CONSTANTS
    Apps,        \* FastAPI instances, in a process that may make several
    Loggers,     \* names of standard loggers
    Above,       \* logger -> the loggers its dotted name is below, all of them
    Modules,     \* modules that hold a structlog logger from their import on
    Versions,
    Levels,      \* the levels that have a name, as numbers; 0 is NOTSET
    Warning,     \* logging.WARNING
    Unsupported, \* any other LOG_LEVEL: a string, so Settings accepts it
    Spelled,     \* the valid settings an environment may spell
    None

Settings == [version : Versions, level : Levels \cup {Unsupported},
             muted : SUBSET Loggers]

\* A standard logger; with level 0, NOTSET, it takes that of the nearest one above it
\* that has a level, and at last the level of the root.
Logger == [handlers : {0, 1}, propagate : BOOLEAN, level : Levels \cup {0}]

\* A logger and all above it.
Line(n) == {n} \cup Above[n]

ASSUME ProcessAssumption ==
    /\ Levels \subseteq Nat /\ Warning \in Levels \ {0}
    /\ Unsupported \notin Levels /\ None \notin Versions /\ None \notin Logger
    /\ Spelled \subseteq Settings

\* Names with dots make a tree: of any loggers on one line, one is below the others.
ASSUME HierarchyAssumption ==
    /\ Above \in [Loggers -> SUBSET Loggers]
    /\ \A n \in Loggers : \A m \in Above[n] : n # m /\ Above[m] \subseteq Above[n]
    /\ \A n \in Loggers : \A some \in SUBSET Line(n) :
         some # {} => \E m \in some : some \subseteq Line(m)

VARIABLES
    environment,  \* the settings it spells, or None where validation fails
    cached,       \* what lru_cache keeps for get_settings
    context,      \* the version _service_context adds, None before the first set-up
    root,         \* level of the root logger, None before the first set-up
    loggers,      \* name -> Logger, or None where there is none, at most a placeholder
    seen,         \* loggers that were there at the last set-up
    bound,        \* module -> the version its cached logger adds, or "lazy"
    apps,         \* app -> None, or its version, app.state.ready and lifespan
    lines         \* structured lines: whether an app existed, and their version

vars == <<environment, cached, context, root, loggers, seen, bound, apps, lines>>
logging == <<context, root, loggers, seen>>
------------------------------------------------------------------------------
Greater(a, b) == IF a > b THEN a ELSE b

Init ==
    /\ environment \in Spelled \cup {None}
    /\ cached = None /\ context = None /\ root = None
    /\ loggers = [n \in Loggers |-> None] /\ seen = {}
    /\ bound = [m \in Modules |-> "lazy"]
    /\ apps = [a \in Apps |-> None]
    /\ lines = {}

\* Mutant: the settings are read anew by each caller.
FreshSettings(read) == IF environment = None THEN read ELSE environment

\* get_settings: an exception is not cached, so that the next call reads again.
GetSettings(read) == IF read = None THEN environment ELSE read

\* The level of a logger after the set-up.
LevelOf(settings, n) ==
    IF n \in settings.muted THEN Greater(settings.level, Warning) ELSE settings.level

\* Mutant: a library's own handlers are left to their loggers.
KeepHandlers(settings, n) ==
    [handlers |-> IF loggers[n] = None THEN 0 ELSE loggers[n].handlers,
     propagate |-> TRUE, level |-> LevelOf(settings, n)]

\* What the loop makes of a logger, or of a placeholder, which becomes one.
Normalized(settings, n) ==
    [handlers |-> 0, propagate |-> TRUE, level |-> LevelOf(settings, n)]

\* logging.root.manager.loggerDict: the loggers, and placeholders for those above them.
LoggerDict == UNION {Line(n) : n \in {m \in Loggers : loggers[m] # None}}

\* setup_logging with a level that exists; the root always has one handler.
SetUpLogging(settings) ==
    /\ context' = settings.version
    /\ root' = settings.level
    /\ loggers' = [n \in Loggers |->
                     IF n \in LoggerDict THEN Normalized(settings, n) ELSE None]
    /\ seen' = LoggerDict

\* create_app: a failed validation or an unknown level raises before anything is
\* configured, the latter with the settings cached already.
CreateApp(a) ==
    /\ apps[a] = None
    /\ cached' = GetSettings(cached)
    /\ IF cached' = None \/ cached'.level = Unsupported
       THEN UNCHANGED <<logging, apps>>
       ELSE /\ SetUpLogging(cached')
            /\ apps' = [apps EXCEPT ![a] = [version |-> cached'.version,
                                            ready |-> FALSE, serving |-> FALSE]]
    /\ UNCHANGED <<environment, bound, lines>>

\* Mutant: readiness is cleared only by a shutdown in good order.
CarelessReady(orderly) == ~orderly

\* app.state.ready after the lifespan: the finally clause runs in any case.
ReadyAfter(orderly) == FALSE

\* lifespan, up to its yield and from there on; an application may start again.
Startup(a) ==
    /\ apps[a] # None /\ ~apps[a].serving
    /\ apps' = [apps EXCEPT ![a].ready = TRUE, ![a].serving = TRUE]
    /\ UNCHANGED <<environment, cached, logging, bound, lines>>

Shutdown(a, orderly) ==
    /\ apps[a] # None /\ apps[a].serving
    /\ apps' = [apps EXCEPT ![a].ready = ReadyAfter(orderly), ![a].serving = FALSE]
    /\ UNCHANGED <<environment, cached, logging, bound, lines>>

\* cache_logger_on_first_use, which holds from the first set-up on.
Bind(m) == IF context = None THEN "lazy" ELSE context

AppExists == \E a \in Apps : apps[a] # None

\* A module logs through its lazy structlog logger.
Log(m) ==
    LET version == IF bound[m] = "lazy" THEN context ELSE bound[m] IN
    /\ bound' = [bound EXCEPT ![m] = IF @ = "lazy" THEN Bind(m) ELSE @]
    /\ lines' = lines \cup {[late |-> AppExists, version |-> version]}
    /\ UNCHANGED <<environment, cached, logging, apps>>

\* A library makes its logger, plain or with a handler of its own.
MakeLogger(n) ==
    /\ loggers[n] = None
    /\ \E made \in Logger : loggers' = [loggers EXCEPT ![n] = made]
    /\ UNCHANGED <<environment, cached, context, root, seen, bound, apps, lines>>

\* Somebody edits the variables or the .env file of a running process.
ChangeEnvironment ==
    /\ environment' \in Spelled \cup {None}
    /\ UNCHANGED <<cached, logging, bound, apps, lines>>

Next ==
    \/ \E a \in Apps : CreateApp(a) \/ Startup(a)
                       \/ \E orderly \in BOOLEAN : Shutdown(a, orderly)
    \/ \E m \in Modules : Log(m)
    \/ \E n \in Loggers : MakeLogger(n)
    \/ ChangeEnvironment

Spec == Init /\ [][Next]_vars
------------------------------------------------------------------------------
(* Properties *)

\* All applications of a process, and all it logs once it has one, tell the same
\* version, whatever becomes of the environment in between, however many
\* starts failed, and whichever modules logged too early (core/settings.py: lru_cache).
OneService ==
    /\ \A a \in Apps : apps[a] # None => apps[a].version = cached.version
    /\ \A line \in lines : line.late => line.version = cached.version

\* The loggers from n upwards.
Upwards(n) == {m \in Line(n) : loggers[m] # None}

\* Of loggers on one line, the one below the others.
Nearest(some) == CHOOSE m \in some : some \subseteq Line(m)

\* Logger.getEffectiveLevel: of the nearest logger that has a level.
EffectiveLevel(n) ==
    LET set == {m \in Upwards(n) : loggers[m].level # 0}
    IN  IF set = {} THEN root ELSE loggers[Nearest(set)].level

\* How often a record of this level reaches a handler: those of the loggers upwards,
\* and the root's at last, as far as every logger on the way propagates.
Heard(n, level) ==
    LET reached == {m \in Upwards(n) :
                      \A k \in Upwards(n) : m \in Above[k] => loggers[k].propagate}
    IN  IF level < EffectiveLevel(n) THEN 0
        ELSE Cardinality({m \in reached : loggers[m].handlers # 0})
             + IF \A k \in Upwards(n) : loggers[k].propagate THEN 1 ELSE 0

\* The level from which on a logger of the last set-up is to be heard.  With NOTSET a
\* muted logger mutes those below it; with any other level it mutes but itself.
HeardFrom(settings, n) ==
    IF settings.level = 0 /\ Line(n) \cap settings.muted # {} THEN Warning
    ELSE LevelOf(settings, n)

\* However many applications were made and whatever libraries had configured, a
\* logger that was there at the last set-up is heard exactly once, from its level
\* on, whatever handlers and levels it and those above it had before
\* (core/logging.py: setup_logging).  NOTSET is the level of no record.
HeardOnce ==
    \A n \in seen, level \in Levels \ {0} :
      Heard(n, level) = IF level >= HeardFrom(cached, n) THEN 1 ELSE 0

\* GET /health/ready.
ReadyStatus(a) == IF apps[a].ready THEN 200 ELSE 503

\* An application is ready exactly while its own lifespan runs, restarted or not and
\* whichever way the last one ended (README.md: "initialized application readiness").
ReadyWhileServing ==
    \A a \in Apps : apps[a] # None => (ReadyStatus(a) = 200 <=> apps[a].serving)
==============================================================================
