---------------------------- MODULE GroupService ----------------------------
(***************************************************************************)
(* What the group commands promise to their callers, without revisions,    *)
(* snapshots, attempts or conditional writes: one group whose membership,  *)
(* message log and receipt boundaries change in one indivisible step per   *)
(* accepted command, and every answer, acceptance or refusal, is right at  *)
(* one instant between the call and its answer.                            *)
(*                                                                         *)
(* A call whose answer was lost may still take effect, once, later on.     *)
(***************************************************************************)
EXTENDS Integers, Sequences, FiniteSets

CONSTANTS Calls, Users, Owner, Group, MaxGroupMembers, CommandIds, Texts,
          InitialMembers, InitialLog, Registered, NoAttachments,
          ReadyAttachments, None

VARIABLES
    command,    \* what each call asks for
    members, owner, version,
    log,        \* the history; a message's position is its index
    bounds,     \* user -> delivered and read positions, 0 when never set
    accepted,   \* command_id -> the membership change made under it, or None
    status,     \* "pending", "ok", or the error a call ended with
    answer      \* what an "ok" call returned

svars == <<command, members, owner, version, log, bounds, accepted, status, answer>>

Init ==
    /\ members = InitialMembers
    /\ owner = Owner
    /\ version = 1
    /\ log = InitialLog
    /\ bounds = [u \in Users |-> [delivered |-> 0, read |-> 0]]
    /\ accepted = [k \in CommandIds |-> None]
    /\ status = [c \in Calls |-> "pending"]
    /\ answer = [c \in Calls |-> None]
------------------------------------------------------------------------------
IntentOf(cmd) == <<cmd.kind, cmd.dialog, cmd.actor, cmd.user>>

IsMember(c) == command[c].actor \in members

Answer(c, a) ==
    /\ status' = [status EXCEPT ![c] = "ok"]
    /\ answer' = [answer EXCEPT ![c] = a]

\* Where the log holds the message sent under the call's key; where it holds
\* the message the call acknowledges.
UnderKey(c) == {i \in DOMAIN log : /\ command[c].kind = "send"
                                   /\ log[i].sender = command[c].actor
                                   /\ log[i].client = command[c].client}
AckedAt(c) == {i \in DOMAIN log : /\ command[c].kind \in {"read", "delivered"}
                                  /\ log[i].id = command[c].message}

Larger(a, b) == IF a < b THEN b ELSE a

\* The effect of a membership command, at most once per command id.
Change(c) ==
    LET cmd == command[c] IN
    /\ cmd.kind \in {"add", "remove"}
    /\ accepted[cmd.id] = None
    /\ IsMember(c)
    /\ \/ /\ cmd.kind = "add"
          /\ cmd.user \in Registered \ members
          /\ Cardinality(members) < MaxGroupMembers
          /\ members' = members \cup {cmd.user}
       \/ /\ cmd.kind = "remove"
          /\ cmd.user \in members \ {owner}
          /\ members' = members \ {cmd.user}
    /\ version' = version + 1
    /\ accepted' = [accepted EXCEPT ![cmd.id] =
                      [intent |-> IntentOf(cmd), members |-> members',
                       version |-> version']]
    /\ UNCHANGED <<owner, log, bounds>>

\* The effect of a new send.
Publish(c) ==
    LET cmd == command[c] IN
    /\ cmd.kind = "send"
    /\ UnderKey(c) = {}
    /\ IsMember(c)
    /\ cmd.content.attachments \in {NoAttachments} \cup ReadyAttachments
    /\ log' = Append(log, [id |-> c, sender |-> cmd.actor, client |-> cmd.client,
                           content |-> cmd.content, edits |-> 0])
    /\ UNCHANGED <<members, owner, version, bounds, accepted>>

\* The effect of an ACK of a message by somebody else: boundaries are maxima.
Acknowledge(c, i) ==
    LET u == command[c].actor IN
    /\ IsMember(c)
    /\ i \in AckedAt(c)
    /\ log[i].sender # u
    /\ bounds' = [bounds EXCEPT ![u] =
                    [delivered |-> Larger(@.delivered, i),
                     read |-> IF command[c].kind = "read" THEN Larger(@.read, i)
                              ELSE @.read]]
    /\ UNCHANGED <<members, owner, version, log, accepted>>
------------------------------------------------------------------------------
(* Answers *)

ServeMembership(c) ==
    /\ Change(c)
    /\ Answer(c, [members |-> members', version |-> version'])

\* A repeated command is told what it did the first time.
RecallMembership(c) ==
    LET cmd == command[c] IN
    /\ cmd.kind \in {"add", "remove"}
    /\ accepted[cmd.id] # None
    /\ accepted[cmd.id].intent = IntentOf(cmd)
    /\ Answer(c, [members |-> accepted[cmd.id].members,
                  version |-> accepted[cmd.id].version])
    /\ UNCHANGED <<members, owner, version, log, bounds, accepted>>

Sent(c, i, entry) ==
    [id |-> entry.id, position |-> i, content |-> entry.content,
     edits |-> entry.edits, groupVersion |-> version]

ServeSend(c) ==
    /\ Publish(c)
    /\ Answer(c, Sent(c, Len(log'), log'[Len(log')]))

\* A repeated send is told of the current edition of its message; what it must
\* share with it shrinks to the attachments once the text was edited.
Differs(c, entry) ==
    \/ entry.content.attachments # command[c].content.attachments
    \/ entry.edits = 0 /\ entry.content # command[c].content

RecallSend(c) ==
    /\ IsMember(c)
    /\ \E i \in UnderKey(c) :
         /\ ~Differs(c, log[i])
         /\ Answer(c, Sent(c, i, log[i]))
    /\ UNCHANGED <<members, owner, version, log, bounds, accepted>>

ServeAck(c) ==
    \E i \in AckedAt(c) :
      /\ Acknowledge(c, i)
      /\ Answer(c, [delivered |-> bounds'[command[c].actor].delivered,
                    read |-> bounds'[command[c].actor].read,
                    changed |-> bounds' # bounds,
                    groupVersion |-> version])

\* The refusals that are right in the present state.
Justified(c, error) ==
    LET cmd == command[c] IN
    \/ error = "DialogNotFound" /\ cmd.dialog # Group
    \/ error = "NotGroupMember" /\ ~IsMember(c)
    \/ /\ cmd.kind = "add"
       /\ \/ error = "GroupMemberAlreadyExists" /\ cmd.user \in members
          \/ /\ error = "GroupMemberLimitExceeded"
             /\ Cardinality(members) >= MaxGroupMembers
          \/ error = "UserNotRegistered" /\ cmd.user \notin Registered
    \/ /\ cmd.kind = "remove"
       /\ \/ error = "CannotRemoveOwner" /\ cmd.user = owner
          \/ error = "NotGroupMember" /\ cmd.user \notin members
    \/ /\ error = "GroupMembershipConflict"
       /\ cmd.kind \in {"add", "remove"}
       /\ accepted[cmd.id] # None
       /\ accepted[cmd.id].intent # IntentOf(cmd)
    \/ /\ cmd.kind = "send"
       /\ \/ /\ error = "MessageSendConflict"
             /\ \E i \in UnderKey(c) : Differs(c, log[i])
          \/ /\ error = "AttachmentsNotReady"
             /\ cmd.content.attachments \notin {NoAttachments} \cup ReadyAttachments
    \/ /\ cmd.kind \in {"read", "delivered"}
       /\ \/ error = "MessageNotFound" /\ AckedAt(c) = {}
          \/ /\ error = "NotIncomingMessage"
             /\ \E i \in AckedAt(c) : log[i].sender = cmd.actor

\* The failures that say nothing of the state: a clock behind the stored time,
\* the last of the attempts, a dependency that does not answer.
Excuses == {"InvalidDomainTimestamp", "MessageCreatedAtPrecedesDialog",
            "ConcurrentModification", "Unavailable"}

Refusals == {"DialogNotFound", "NotGroupMember", "GroupMemberAlreadyExists",
             "GroupMemberLimitExceeded", "UserNotRegistered", "CannotRemoveOwner",
             "GroupMembershipConflict", "MessageSendConflict",
             "AttachmentsNotReady", "MessageNotFound", "NotIncomingMessage"}

Fail(c) ==
    /\ \E error \in Excuses \cup Refusals :
         /\ error \in Excuses \/ Justified(c, error)
         /\ status' = [status EXCEPT ![c] = error]
    /\ UNCHANGED <<members, owner, version, log, bounds, accepted, answer>>

Serve(c) ==
    /\ status[c] = "pending"
    /\ \/ ServeMembership(c) \/ RecallMembership(c)
       \/ ServeSend(c) \/ RecallSend(c)
       \/ ServeAck(c)
       \/ Fail(c)

\* A call that ended without an answer takes effect after all.
Land(c) ==
    /\ status[c] = "Unavailable"
    /\ Change(c) \/ Publish(c) \/ \E i \in AckedAt(c) : Acknowledge(c, i)
    /\ UNCHANGED <<status, answer>>

\* The author changes the text of a message.
Edit(i) ==
    /\ \E text \in Texts \ {log[i].content.text} :
         log' = [log EXCEPT ![i].content.text = text, ![i].edits = @ + 1]
    /\ UNCHANGED <<members, owner, version, bounds, accepted, status, answer>>

\* A change that is not one of the commands: the profile, or who owns the group.
Govern ==
    /\ owner' \in members
    /\ version' = version + 1
    /\ UNCHANGED <<members, log, bounds, accepted, status, answer>>

Next ==
    /\ \/ \E c \in Calls : Serve(c) \/ Land(c)
       \/ \E i \in DOMAIN log : Edit(i)
       \/ Govern
    /\ UNCHANGED command

Spec == Init /\ [][Next]_svars
==============================================================================
