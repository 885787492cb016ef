--------------------------- MODULE GroupRefinement ---------------------------
(***************************************************************************)
(* The conditional-write protocol of GroupCommands implements the atomic   *)
(* group of GroupService: the mapping below forgets revisions, snapshots   *)
(* and attempts, lists the stored messages by position and reduces         *)
(* watermarks to the two positions they bound.                             *)
(***************************************************************************)
EXTENDS GroupCommands, Sequences

\* The id stored at a position, and the log entry made of it.
IdAt(stored, p) ==
    CHOOSE m \in MessageIds : stored[m] # None /\ stored[m].position = p

Entry(stored, m) ==
    [id |-> m, sender |-> stored[m].sender, client |-> stored[m].client,
     content |-> stored[m].content, edits |-> stored[m].version - 1]

LogOf(stored, last) == [p \in 1..last |-> Entry(stored, IdAt(stored, p))]

BoundsOf(w) ==
    IF w = None THEN [delivered |-> 0, read |-> 0]
    ELSE [delivered |-> w.delivered.position, read |-> w.read.position]

AcceptedOf(r) ==
    IF r = None THEN None
    ELSE [intent |-> <<r.intent.action, r.intent.dialog, r.intent.actor,
                       r.intent.user>>,
          members |-> r.result.members, version |-> r.result.version]

\* A remembered change is a value of its own.
ASSUME AcceptedAssumption ==
    None \notin [intent : {"add", "remove"} \X Dialogs \X Users \X Users,
                 members : SUBSET Users, version : Nat]

AnswerOf(c) ==
    IF reply[c] = None THEN None
    ELSE IF IsMembership(c)
    THEN [members |-> reply[c].members, version |-> reply[c].version]
    ELSE IF IsSend(c)
    THEN [id |-> reply[c].id, position |-> reply[c].message.position,
          content |-> reply[c].message.content,
          edits |-> reply[c].message.version - 1,
          groupVersion |-> reply[c].groupVersion]
    ELSE [delivered |-> reply[c].watermark.delivered.position,
          read |-> reply[c].watermark.read.position,
          changed |-> reply[c].changed, groupVersion |-> reply[c].groupVersion]

Service == INSTANCE GroupService WITH
    InitialLog <- LogOf([m \in MessageIds |-> IF m \in SeedIds THEN Seed[m] ELSE None],
                        SeedLast),
    members <- group.members,
    owner <- group.owner,
    version <- group.version,
    log <- LogOf(messages, lastPosition),
    bounds <- [u \in Users |-> BoundsOf(receipts[u])],
    accepted <- [k \in CommandIds |-> AcceptedOf(results[k])],
    answer <- [c \in Calls |-> AnswerOf(c)]

\* Every step of the handlers and of the storage is one indivisible step of the
\* promised group, or changes nothing a caller can see: acceptances and refusals
\* alike are right in the state in which they are decided or written, although
\* they are computed from an older snapshot (ADR 0001, application/README.md).
ImplementsService == Service!Spec
==============================================================================
