------------------------- MODULE ServiceProcessProofs -------------------------
(***************************************************************************)
(* Proofs about ServiceProcess, for any number of applications, modules    *)
(* and loggers, any tree of their names, any settings and any levels.      *)
(***************************************************************************)
EXTENDS ServiceProcess, FiniteSetTheorems, TLAPS

App == [version : Versions, ready : BOOLEAN, serving : BOOLEAN]

ProcessTypes ==
    /\ environment \in Spelled \cup {None}
    /\ cached \in Settings \cup {None}
    /\ loggers \in [Loggers -> Logger \cup {None}]
    /\ seen \subseteq Loggers
    /\ bound \in [Modules -> Versions \cup {"lazy"}]
    /\ apps \in [Apps -> App \cup {None}]

\* Logging is set up: by the one settings that are cached for good.
SetUp == /\ context # None /\ cached \in Settings /\ cached # None
         /\ context = cached.version /\ root = cached.level /\ cached.level \in Levels

AppsOK == \A a \in Apps :
            apps[a] # None => /\ SetUp /\ apps[a].version = cached.version
                              /\ apps[a].ready = apps[a].serving
BoundOK == \A m \in Modules : bound[m] = "lazy" \/ (SetUp /\ bound[m] = context)
LinesOK == \A line \in lines : line.late => SetUp /\ line.version = cached.version
SeenOK == \A n \in seen : /\ SetUp /\ loggers[n] = Normalized(cached, n)
                         /\ Line(n) \subseteq seen

\* An application and a set-up come together, and what was derived from the settings
\* at a set-up is still what the cached settings say.
ProcessInv ==
    /\ ProcessTypes
    /\ context # None => SetUp
    /\ AppsOK /\ BoundOK /\ LinesOK /\ SeenOK

USE ProcessAssumption

LEMMA InitProcess == Init => ProcessInv
<1>. SUFFICES ASSUME Init PROVE ProcessInv  OBVIOUS
<1>1. ProcessTypes  BY DEF Init, ProcessTypes
<1>2. AppsOK /\ BoundOK /\ LinesOK /\ SeenOK
  BY DEF Init, AppsOK, BoundOK, LinesOK, SeenOK
<1>. QED  BY <1>1, <1>2 DEF Init, ProcessInv

\* The level a set-up gives is a level that has a name.
LEMMA LevelOfType ==
    ASSUME NEW s \in Settings, s.level \in Levels, NEW n
    PROVE  LevelOf(s, n) \in Levels
  BY DEF LevelOf, Greater

LEMMA NormalizedType ==
    ASSUME NEW s \in Settings, s.level \in Levels, NEW n
    PROVE  Normalized(s, n) \in Logger /\ Normalized(s, n) # None
<1>1. PICK level \in Levels : level = LevelOf(s, n)  BY LevelOfType
<1>2. PICK logger : logger = [handlers |-> 0, propagate |-> TRUE, level |-> level]
  OBVIOUS
<1>3. logger \in Logger  BY <1>2 DEF Logger
<1>4. Normalized(s, n) = logger  BY <1>1, <1>2 DEF Normalized
<1>. QED  BY <1>3, <1>4

\* Whatever is above a logger of the dictionary is in it as well.
LEMMA DictClosed ==
    ASSUME NEW n \in LoggerDict
    PROVE  n \in Loggers /\ Line(n) \subseteq LoggerDict
<1>1. PICK m \in Loggers : loggers[m] # None /\ n \in Line(m)  BY DEF LoggerDict
<1>2. n \in Loggers /\ Line(n) \subseteq Line(m)  BY <1>1, HierarchyAssumption DEF Line
<1>. QED  BY <1>1, <1>2 DEF LoggerDict

\* Once set up, a process keeps its settings, whatever becomes of the environment.
LEMMA SetUpStays ==
    ASSUME SetUp, UNCHANGED <<cached, context, root>>
    PROVE  SetUp'
  BY DEF SetUp

LEMMA CreateStep ==
    ASSUME ProcessInv, NEW a \in Apps, CreateApp(a)
    PROVE  ProcessInv'
<1>. USE DEF ProcessInv, ProcessTypes
<1>1. /\ cached' = GetSettings(cached) /\ cached' \in Settings \cup {None}
      /\ SetUp => cached' = cached
      /\ UNCHANGED <<environment, bound, lines>>
  BY DEF CreateApp, GetSettings, SetUp
<1>2. CASE cached' = None \/ cached'.level = Unsupported
  <2>1. UNCHANGED <<logging, apps>>  BY <1>2 DEF CreateApp
  <2>2. SetUp => SetUp'  BY <1>1, <2>1, SetUpStays DEF logging
  <2>3. SeenOK'
    <3>. SUFFICES ASSUME NEW n \in seen PROVE /\ SetUp' /\ loggers[n] = Normalized(cached', n)
                                            /\ Line(n) \subseteq seen
      BY <2>1 DEF logging, SeenOK, Normalized, LevelOf
    <3>. QED  BY <1>1, <2>2 DEF SeenOK
  <2>. QED  BY <1>1, <2>1, <2>2, <2>3 DEF logging, AppsOK, BoundOK, LinesOK, SetUp
<1>3. CASE ~(cached' = None \/ cached'.level = Unsupported)
  <2>1. PICK s \in Settings : s = cached'  BY <1>1, <1>3
  <2>2. /\ s.level \in Levels /\ s.version \in Versions
    BY <1>3, <2>1 DEF Settings
  <2>3. /\ context' = s.version /\ root' = s.level
        /\ loggers' = [n \in Loggers |->
                         IF n \in LoggerDict THEN Normalized(s, n) ELSE None]
        /\ seen' = LoggerDict
        /\ apps' = [apps EXCEPT ![a] = [version |-> s.version, ready |-> FALSE,
                                        serving |-> FALSE]]
    BY <1>3, <2>1 DEF CreateApp, SetUpLogging
  <2>4. SetUp'  BY <1>3, <2>1, <2>2, <2>3 DEF SetUp
  <2>5. SetUp => context' = context  BY <1>1, <2>1, <2>3 DEF SetUp
  <2>6. PICK app \in App : app = [version |-> s.version, ready |-> FALSE, serving |-> FALSE]
    BY <2>2 DEF App
  <2>7. app.version = s.version /\ app.ready = app.serving  BY <2>6
  <2>8. apps' = [apps EXCEPT ![a] = app]  BY <2>3, <2>6
  <2>9. AppsOK'
    BY <1>1, <2>1, <2>4, <2>7, <2>8 DEF AppsOK
  <2>10. \A n : Normalized(s, n) \in Logger  BY <2>2, NormalizedType
  <2>11. loggers' \in [Loggers -> Logger \cup {None}] /\ seen' \subseteq Loggers
    BY <2>3, <2>10, DictClosed
  <2>12. \A n \in seen' : loggers'[n] = Normalized(s, n) /\ Line(n) \subseteq seen'
    BY <2>3, DictClosed
  <2>13. SeenOK'  BY <2>1, <2>4, <2>12 DEF SeenOK, Normalized, LevelOf
  <2>14. BoundOK'  BY <1>1, <2>4, <2>5 DEF BoundOK
  <2>15. LinesOK'  BY <1>1, <2>4 DEF LinesOK
  <2>. QED  BY <1>1, <2>4, <2>8, <2>9, <2>11, <2>13, <2>14, <2>15
<1>. QED  BY <1>2, <1>3

\* The settings, the set-up and what it left stay, but for loggers made since.
LEMMA SeenStays ==
    ASSUME SeenOK, UNCHANGED <<cached, logging>>
    PROVE  SeenOK'
  BY SetUpStays DEF SeenOK, Normalized, LevelOf, logging

LEMMA LifespanStep ==
    ASSUME ProcessInv, NEW a \in Apps,
           Startup(a) \/ \E orderly \in BOOLEAN : Shutdown(a, orderly)
    PROVE  ProcessInv'
<1>1. UNCHANGED <<environment, cached, logging, bound, lines>>
  BY DEF Startup, Shutdown
<1>2. SeenOK'  BY <1>1, SeenStays DEF ProcessInv
<1>3. PICK on \in BOOLEAN :
        apps[a] # None /\ apps' = [apps EXCEPT ![a].ready = on, ![a].serving = on]
  BY DEF Startup, Shutdown, ReadyAfter
<1>4. PICK app \in App : app = [apps[a] EXCEPT !.ready = on, !.serving = on]
  BY <1>3 DEF ProcessInv, ProcessTypes, App
<1>5. app.version = apps[a].version /\ app.ready = app.serving
  BY <1>3, <1>4 DEF ProcessInv, ProcessTypes, App
<1>6. apps' = [apps EXCEPT ![a] = app]  BY <1>3, <1>4
<1>7. SetUp => SetUp'  BY <1>1, SetUpStays DEF logging
<1>8. AppsOK'
  BY <1>1, <1>3, <1>5, <1>6, <1>7 DEF AppsOK, ProcessInv, ProcessTypes
<1>. QED
  BY <1>1, <1>2, <1>6, <1>7, <1>8 DEF ProcessInv, ProcessTypes, BoundOK, LinesOK, SetUp, logging

LEMMA LogStep ==
    ASSUME ProcessInv, NEW m \in Modules, Log(m)
    PROVE  ProcessInv'
<1>1. PICK version : version = IF bound[m] = "lazy" THEN context ELSE bound[m]
  OBVIOUS
<1>2. /\ UNCHANGED <<environment, cached, logging, apps>>
      /\ bound' = [bound EXCEPT ![m] = IF @ = "lazy" THEN Bind(m) ELSE @]
  BY DEF Log
<1>3. PICK line : line = [late |-> AppExists, version |-> version]  OBVIOUS
<1>4. /\ lines' = lines \cup {line} /\ line.late = AppExists /\ line.version = version
  BY <1>1, <1>3 DEF Log
<1>5. SetUp => SetUp'  BY <1>2, SetUpStays DEF logging
<1>6. SetUp => version = context
  BY <1>1 DEF ProcessInv, BoundOK
<1>7. AppExists => SetUp  BY DEF AppExists, ProcessInv, AppsOK
<1>8. LinesOK'
  BY <1>2, <1>4, <1>5, <1>6, <1>7 DEF LinesOK, ProcessInv, SetUp
<1>9. PICK b : b = IF bound[m] = "lazy" THEN Bind(m) ELSE bound[m]  OBVIOUS
<1>10. b \in Versions \cup {"lazy"} /\ (b = "lazy" \/ (SetUp /\ b = context))
  BY <1>9 DEF Bind, ProcessInv, ProcessTypes, BoundOK, SetUp, Settings
<1>11. bound' = [bound EXCEPT ![m] = b]  BY <1>2, <1>9
<1>12. BoundOK' /\ bound' \in [Modules -> Versions \cup {"lazy"}]
  BY <1>2, <1>5, <1>10, <1>11 DEF BoundOK, ProcessInv, ProcessTypes, logging
<1>13. SeenOK'  BY <1>2, SeenStays DEF ProcessInv
<1>. QED
  BY <1>2, <1>5, <1>8, <1>12, <1>13 DEF ProcessInv, ProcessTypes, AppsOK, SetUp, logging

LEMMA MakeLoggerStep ==
    ASSUME ProcessInv, NEW n \in Loggers, MakeLogger(n)
    PROVE  ProcessInv'
<1>1. /\ UNCHANGED <<environment, cached, context, root, seen, bound, apps, lines>>
      /\ loggers[n] = None
  BY DEF MakeLogger
<1>2. PICK made \in Logger : loggers' = [loggers EXCEPT ![n] = made]
  BY DEF MakeLogger
<1>3. SetUp => SetUp'  BY <1>1, SetUpStays
<1>4. ASSUME NEW s \in seen PROVE /\ SetUp /\ s # n /\ loggers[s] = Normalized(cached, s)
                                /\ Line(s) \subseteq seen
  BY <1>1, NormalizedType DEF ProcessInv, SeenOK, SetUp
<1>5. \A s \in seen : loggers'[s] = loggers[s]
  BY <1>2, <1>4 DEF ProcessInv, ProcessTypes
<1>6. SeenOK'  BY <1>1, <1>3, <1>4, <1>5 DEF SeenOK, Normalized, LevelOf
<1>. QED
  BY <1>1, <1>2, <1>3, <1>6 DEF ProcessInv, ProcessTypes, AppsOK, BoundOK, LinesOK, SetUp

LEMMA ProcessStep == ProcessInv /\ [Next]_vars => ProcessInv'
<1>1. ASSUME ProcessInv, ChangeEnvironment \/ UNCHANGED vars PROVE ProcessInv'
  <2>1. /\ UNCHANGED <<cached, logging, bound, apps, lines>>
        /\ environment' \in Spelled \cup {None}
    BY <1>1 DEF ChangeEnvironment, vars, logging, ProcessInv, ProcessTypes
  <2>2. SeenOK'  BY <1>1, <2>1, SeenStays DEF ProcessInv
  <2>. QED  BY <1>1, <2>1, <2>2 DEF ProcessInv, ProcessTypes, AppsOK, BoundOK, LinesOK, SetUp,
              logging
<1>. QED
  BY <1>1, CreateStep, LifespanStep, LogStep, MakeLoggerStep DEF Next

LEMMA ProcessInvariant == Spec => []ProcessInv
  BY InitProcess, ProcessStep, PTL DEF Spec

\* All applications of a process and all it logs once it has one tell one version,
\* whatever becomes of the environment: the cached settings are read once for good.
THEOREM OneServiceCorrect == Spec => []OneService
<1>1. ProcessInv => OneService
  BY DEF ProcessInv, AppsOK, LinesOK, OneService
<1>. QED  BY <1>1, ProcessInvariant, PTL

\* On a line of loggers as the set-up leaves them, the level in force is the logger's
\* own, or with NOTSET the one of a muted logger on the line.
LEMMA LevelInForce ==
    ASSUME NEW s \in Settings, s.level \in Levels, root = s.level, NEW n \in Loggers,
           Upwards(n) = Line(n), \A m \in Line(n) : loggers[m].level = LevelOf(s, m)
    PROVE  EffectiveLevel(n) = HeardFrom(s, n)
<1>1. PICK set : set = {m \in Line(n) : LevelOf(s, m) # 0}  OBVIOUS
<1>2. PICK near : near = Nearest(set)  OBVIOUS
<1>3. set # {} => near \in set /\ set \subseteq Line(near)
  <2>1. set \in SUBSET Line(n)  BY <1>1
  <2>2. set # {} => \E m \in set : set \subseteq Line(m)  BY <2>1, HierarchyAssumption
  <2>. QED  BY <1>2, <2>2 DEF Nearest
<1>4. EffectiveLevel(n) = IF set = {} THEN s.level ELSE LevelOf(s, near)
  <2>1. {m \in Upwards(n) : loggers[m].level # 0} = set  BY <1>1
  <2>2. EffectiveLevel(n) = IF set = {} THEN root ELSE loggers[near].level
    BY <1>2, <2>1 DEF EffectiveLevel
  <2>. QED  BY <1>1, <1>3, <2>2
<1>5. CASE s.level # 0
  <2>1. \A m : LevelOf(s, m) # 0  BY <1>5 DEF LevelOf, Greater
  <2>2. set = Line(n) /\ n \in set  BY <1>1, <2>1 DEF Line
  <2>3. near = n  BY <1>3, <2>2, HierarchyAssumption DEF Line
  <2>. QED  BY <1>4, <1>5, <2>2, <2>3 DEF HeardFrom
<1>6. CASE s.level = 0
  <2>1. \A m : LevelOf(s, m) = IF m \in s.muted THEN Warning ELSE 0
    BY <1>6 DEF LevelOf, Greater
  <2>2. set = Line(n) \cap s.muted  BY <1>1, <2>1
  <2>3. CASE set = {}
    <3>1. n \notin s.muted  BY <2>2, <2>3 DEF Line
    <3>2. LevelOf(s, n) = 0  BY <2>1, <3>1
    <3>. QED  BY <1>4, <1>6, <2>2, <2>3, <3>2 DEF HeardFrom
  <2>4. CASE set # {}
    <3>1. LevelOf(s, near) = Warning  BY <1>3, <2>1, <2>2, <2>4
    <3>. QED  BY <1>4, <1>6, <2>2, <2>4, <3>1 DEF HeardFrom
  <2>. QED  BY <2>3, <2>4
<1>. QED  BY <1>5, <1>6

\* A logger that was there at the last set-up is heard exactly once, from its level
\* on, for every tree of loggers and every ordering of the levels.
THEOREM HeardOnceCorrect == Spec => []HeardOnce
<1>1. ASSUME ProcessInv, NEW n \in seen, NEW level \in Levels \ {0}
      PROVE  Heard(n, level) = IF level >= HeardFrom(cached, n) THEN 1 ELSE 0
  <2>1. /\ SetUp /\ Line(n) \subseteq seen /\ n \in Loggers
        /\ \A m \in Line(n) : loggers[m] = Normalized(cached, m)
    BY <1>1 DEF ProcessInv, ProcessTypes, SeenOK
  <2>2. /\ cached \in Settings /\ cached.level \in Levels /\ root = cached.level
    BY <2>1 DEF SetUp
  <2>3. ASSUME NEW m \in Line(n)
        PROVE  /\ loggers[m] # None
               /\ loggers[m].handlers = 0 /\ loggers[m].propagate = TRUE
               /\ loggers[m].level = LevelOf(cached, m)
    <3>1. loggers[m] = Normalized(cached, m)  BY <2>1
    <3>2. loggers[m] # None  BY <2>2, <3>1, NormalizedType
    <3>. QED  BY <3>1, <3>2 DEF Normalized
  <2>4. Upwards(n) = Line(n)  BY <2>3 DEF Upwards
  <2>5. PICK from : from = HeardFrom(cached, n)  OBVIOUS
  <2>6. EffectiveLevel(n) = from  BY <2>1, <2>2, <2>3, <2>4, <2>5, LevelInForce
  <2>7. from \in Nat  BY <2>2, <2>5, LevelOfType DEF HeardFrom
  <2>. DEFINE reached == {m \in Upwards(n) :
                            \A k \in Upwards(n) : m \in Above[k] => loggers[k].propagate}
              own == {m \in reached : loggers[m].handlers # 0}
  <2>8. own = {}  BY <2>3, <2>4
  <2>9. Cardinality(own) = 0  BY <2>8, FS_EmptySet
  <2>10. Heard(n, level) = IF level < from THEN 0
                           ELSE Cardinality(own)
                                + IF \A k \in Upwards(n) : loggers[k].propagate THEN 1 ELSE 0
    BY <2>6 DEF Heard
  <2>. HIDE DEF own, reached
  <2>11. \A k \in Upwards(n) : loggers[k].propagate  BY <2>3, <2>4
  <2>. QED  BY <2>5, <2>7, <2>9, <2>10, <2>11
<1>2. ProcessInv => HeardOnce  BY <1>1 DEF HeardOnce
<1>. QED  BY <1>2, ProcessInvariant, PTL

\* Readiness follows the lifespan through every restart and every way one ends.
THEOREM ReadinessCorrect == Spec => []ReadyWhileServing
<1>1. ASSUME ProcessInv, NEW a \in Apps, apps[a] # None
      PROVE  ReadyStatus(a) = 200 <=> apps[a].serving
  BY <1>1 DEF ProcessInv, ProcessTypes, AppsOK, ReadyStatus, App
<1>2. ProcessInv => ReadyWhileServing  BY <1>1 DEF ReadyWhileServing
<1>. QED  BY <1>2, ProcessInvariant, PTL
===============================================================================
