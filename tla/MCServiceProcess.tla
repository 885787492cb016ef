--------------------------- MODULE MCServiceProcess ---------------------------
\* Small instances of ServiceProcess: two applications, two modules, a library with
\* a logger and one below it.
EXTENDS ServiceProcess

CONSTANTS a1, a2, m1, m2, n1, n2

MCApps == {a1, a2}
MCModules == {m1, m2}
MCLoggers == {n1, n2}
MCAbove == [n \in MCLoggers |-> IF n = n2 THEN {n1} ELSE {}]
MCVersions == {"v1", "v2"}
MCLevels == {0, 20, 30}

\* Each level, with the upper, the lower or no logger muted.
MCSpelled ==
    {s \in Settings :
       \/ s.version = "v1" /\ s.level \in {20, Unsupported} /\ s.muted = {}
       \/ s.version = "v1" /\ s.level = 0 /\ s.muted = {n1}
       \/ s.version = "v2" /\ s.level = 20 /\ s.muted = {n1}
       \/ s.version = "v2" /\ s.level \in {0, 30} /\ s.muted = {n2}}
==============================================================================
