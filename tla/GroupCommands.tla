---------------------------- MODULE GroupCommands ----------------------------
(***************************************************************************)
(* The four group command handlers (add_member, remove_member,             *)
(* send_message, advance_receipt) running concurrently against the         *)
(* conditional group storage, for one stored group.                        *)
(*                                                                         *)
(* A call is one invocation of a handler.  Its steps are the stretches of  *)
(* code between two awaits: load the snapshot, read at that revision and   *)
(* decide, ask the external verifier, try to commit.  A commit whose       *)
(* revision went stale sends the call back to the load, at most            *)
(* MaxAttempts times.  A client retry is another call with the same        *)
(* command.  The storage is the atomic port of                             *)
(* ports/persistence/repositories/group_commands.py, with the checks of    *)
(* the in-memory adapter of tests/unit/application/groups/conftest.py.     *)
(***************************************************************************)
EXTENDS GroupDomain

CONSTANTS
    Calls,             \* handler invocations; a call's own fresh ids are itself
    CommandIds,        \* command_id values clients choose
    Dialogs, Group,    \* dialog ids, and the one of the stored group
    InitialMembers, Owner, InitialTitle,
    SeedIds, Seed, SeedLast,  \* history accepted before the calls start
    Workloads,         \* which command each call may be invoked with
    Registered,        \* users Identity confirms
    ReadyAttachments,  \* attachment lists the object storage confirms
    MaxAttempts,       \* MAX_GROUP_COMMAND_ATTEMPTS
    MaxEdits,          \* bound: edits of one message
    SpuriousConflicts, \* may the adapter fail to confirm a revision that holds?
    StaleReads         \* may the adapter return a stale None (against contract)?

Kinds == {"add", "remove", "send", "read", "delivered"}

MembershipCommand == [kind : {"add", "remove"}, dialog : Dialogs, actor : Users,
                      user : Users, id : CommandIds]
SendCommand == [kind : {"send"}, dialog : Dialogs, actor : Users,
                client : ClientIds, content : Content]
AckCommand == [kind : {"read", "delivered"}, dialog : Dialogs, actor : Users,
               message : MessageIds]
Command == MembershipCommand \cup SendCommand \cup AckCommand

ASSUME CallsAssumption ==
    /\ Calls \subseteq MessageIds /\ Calls \subseteq ReceiptIds
    /\ Workloads \subseteq [Calls -> Command]
    /\ MaxAttempts \in Nat \ {0}
    /\ {SpuriousConflicts, StaleReads} \subseteq BOOLEAN

ASSUME GroupAssumption ==
    /\ InitialMembers \subseteq Users /\ Owner \in InitialMembers
    /\ InitialTitle \in Titles
    /\ IsFiniteSet(InitialMembers)
    /\ Cardinality(InitialMembers) <= MaxGroupMembers

\* The history the group starts with: positions 1..SeedLast, one send key each.
ASSUME SeedAssumption ==
    /\ SeedLast \in Nat
    /\ SeedIds \subseteq MessageIds \ Calls
    /\ Seed \in [SeedIds -> Message]
    /\ \A m \in SeedIds : Seed[m].position \in 1..SeedLast
    /\ \A p \in 1..SeedLast : \E m \in SeedIds : Seed[m].position = p
    /\ \A m, n \in SeedIds : m # n =>
          /\ Seed[m].position # Seed[n].position
          /\ ~SameSendKey(Seed[m], Seed[n].sender, Seed[n].client)

VARIABLES
    \* the conditional storage of the group
    group, revision, lastPosition,
    messages,   \* message id -> Message or None
    receipts,   \* user -> ReceiptWatermark or None
    results,    \* command_id -> accepted intent and result, or None
    \* the calls
    command,    \* what each call was invoked with; never changes
    pc, attempt,
    snap,       \* GroupSnapshot of the current attempt
    found,      \* message read for the current attempt (existing or through)
    watermark,  \* receipt read for the current attempt
    now,        \* the clock reading that stamps the candidate
    status, reply

storage == <<group, revision, lastPosition, messages, receipts, results>>
locals == <<snap, found, watermark, now>>
vars == <<storage, command, pc, attempt, locals, status, reply>>
------------------------------------------------------------------------------
Snapshot == [group : GroupDialog, revision : Nat, lastPosition : Nat]

\* A message as one of the reads returns it, with its id.
Found == [id : MessageIds, value : Message]

\* GroupMembershipAcceptance: a command's intent and the group it led to.
Acceptance == [intent : [dialog : Dialogs, actor : Users, user : Users,
                         action : {"add", "remove"}],
               result : GroupDialog]

\* What the handlers return.
SendReply == [id : MessageIds, message : Message, groupVersion : Nat]
AckReply == [watermark : ReceiptWatermark, changed : BOOLEAN, groupVersion : Nat]

Replies == GroupDialog \cup SendReply \cup AckReply

ASSUME NoneAssumption ==
    None \notin Found \cup Acceptance \cup Message \cup ReceiptWatermark
                       \cup Replies

\* Mutant: an add and a remove of one user look the same.
LooseIntent(cmd) == [dialog |-> cmd.dialog, actor |-> cmd.actor, user |-> cmd.user,
                     action |-> "add"]

Intent(cmd) == [dialog |-> cmd.dialog, actor |-> cmd.actor, user |-> cmd.user,
                action |-> cmd.kind]

\* How a call may end: with the errors of the domain, of application/exceptions
\* and of the ports.
Errors == DomainErrors \cup
    {"DialogNotFound", "ConcurrentModification", "GroupMembershipConflict",
     "MessageNotFound", "MessageSendConflict", "UserNotRegistered",
     "AttachmentsNotReady", "Unavailable"}

Stored(m) == messages[m] # None

IsMembership(c) == command[c].kind \in {"add", "remove"}
IsSend(c) == command[c].kind = "send"
IsAck(c) == command[c].kind \in {"read", "delivered"}

Init ==
    /\ group = [members |-> InitialMembers, owner |-> Owner, title |-> InitialTitle,
                avatar |-> None, version |-> 1, updatedAt |-> CreatedAt]
    /\ revision = 1 + SeedLast
    /\ lastPosition = SeedLast
    /\ messages = [m \in MessageIds |-> IF m \in SeedIds THEN Seed[m] ELSE None]
    /\ receipts = [u \in Users |-> None]
    /\ results = [k \in CommandIds |-> None]
    /\ command \in Workloads
    /\ pc = [c \in Calls |-> "load"]
    /\ attempt = [c \in Calls |-> 1]
    /\ snap = [c \in Calls |-> None]
    /\ found = [c \in Calls |-> None]
    /\ watermark = [c \in Calls |-> None]
    /\ now = [c \in Calls |-> CreatedAt]
    /\ status = [c \in Calls |-> "pending"]
    /\ reply = [c \in Calls |-> None]
------------------------------------------------------------------------------
(* Control flow of a handler *)

Goto(c, label) == pc' = [pc EXCEPT ![c] = label]

\* The locals of an attempt go out of scope.
Forget(c) ==
    /\ snap' = [snap EXCEPT ![c] = None]
    /\ found' = [found EXCEPT ![c] = None]
    /\ watermark' = [watermark EXCEPT ![c] = None]
    /\ now' = [now EXCEPT ![c] = CreatedAt]

\* The handler returns r, or raises the error s (then r is None).
Finish(c, s, r) ==
    /\ Goto(c, "done")
    /\ status' = [status EXCEPT ![c] = s]
    /\ reply' = [reply EXCEPT ![c] = r]
    /\ Forget(c)
    /\ UNCHANGED attempt

\* Mutants: an attempt too few, attempts without a limit, attempts not counted.
HastyRetry(c) ==
    IF attempt[c] + 1 = MaxAttempts
    THEN Finish(c, "ConcurrentModification", None)
    ELSE /\ Goto(c, "load")
         /\ attempt' = [attempt EXCEPT ![c] = @ + 1]
         /\ Forget(c)
         /\ UNCHANGED <<status, reply>>

EndlessRetry(c) ==
    /\ Goto(c, "load")
    /\ attempt' = [attempt EXCEPT ![c] = @ + 1]
    /\ Forget(c)
    /\ UNCHANGED <<status, reply>>

UncountedRetry(c) ==
    /\ Goto(c, "load")
    /\ Forget(c)
    /\ UNCHANGED <<attempt, status, reply>>

\* continue in the attempts loop, or the error after it.
Retry(c) ==
    IF attempt[c] = MaxAttempts
    THEN Finish(c, "ConcurrentModification", None)
    ELSE /\ Goto(c, "load")
         /\ attempt' = [attempt EXCEPT ![c] = @ + 1]
         /\ Forget(c)
         /\ UNCHANGED <<status, reply>>

\* The call goes on to its next await with its locals as they are.
Proceed(c, label) ==
    /\ Goto(c, label)
    /\ UNCHANGED <<attempt, status, reply>>

\* get_by_id, and the right to send or read on the loaded group.
Load(c) ==
    /\ pc[c] = "load"
    /\ IF command[c].dialog # Group THEN Finish(c, "DialogNotFound", None)
       ELSE IF ~IsMembership(c) /\ command[c].actor \notin group.members
            THEN Finish(c, "NotGroupMember", None)
       ELSE /\ snap' = [snap EXCEPT ![c] = [group |-> group, revision |-> revision,
                                            lastPosition |-> lastPosition]]
            /\ Proceed(c, "read")
            /\ UNCHANGED <<found, watermark, now>>
    /\ UNCHANGED <<storage, command>>
------------------------------------------------------------------------------
(* Reads at the revision of the snapshot *)

\* Mutant: the revision is not compared.
AnyRevision(c) == TRUE

RevisionHolds(c) == snap[c].revision = revision

\* GroupReadConflictError from any of the reads.
ReadConflict(c) ==
    /\ pc[c] \in {"read", "receipt"}
    /\ SpuriousConflicts \/ ~RevisionHolds(c)
    /\ Retry(c)
    /\ UNCHANGED <<storage, command>>

\* A read that answers: only at the snapshot's revision, unless the adapter
\* breaks the contract and answers with what a lagging replica has.
ReadAnswers(c) == StaleReads \/ RevisionHolds(c)
ReadResults(current) == IF StaleReads THEN {current, None} ELSE {current}

MembershipError(c, instant) ==
    LET cmd == command[c] IN
    IF cmd.kind = "add"
    THEN AddMemberError(snap[c].group, cmd.actor, cmd.user, instant)
    ELSE RemoveMemberError(snap[c].group, cmd.actor, cmd.user, instant)

\* get_membership_result: an accepted command is answered from its stored
\* result, any other is tried on a copy of the loaded group.
ReadMembership(c) ==
    /\ pc[c] = "read" /\ IsMembership(c) /\ ReadAnswers(c)
    /\ \E accepted \in ReadResults(results[command[c].id]) :
         IF accepted # None
         THEN IF accepted.intent # Intent(command[c])
              THEN Finish(c, "GroupMembershipConflict", None)
              ELSE Finish(c, Ok, accepted.result)
         ELSE \E instant \in Clock :
              IF MembershipError(c, instant) # Ok
              THEN Finish(c, MembershipError(c, instant), None)
              ELSE /\ now' = [now EXCEPT ![c] = instant]
                   /\ Proceed(c, IF command[c].kind = "add" THEN "verify" ELSE "commit")
                   /\ UNCHANGED <<snap, found, watermark>>
    /\ UNCHANGED <<storage, command>>

\* RegisteredUsersProtocol.require_registered, after the domain decision.
VerifyRegistered(c) ==
    /\ pc[c] = "verify" /\ IsMembership(c)
    /\ IF command[c].user \in Registered
       THEN Proceed(c, "commit") /\ UNCHANGED locals
       ELSE Finish(c, "UserNotRegistered", None)
    /\ UNCHANGED <<storage, command>>

\* Mutant: of an edited message the attachments are not compared either.
LooseConflict(m, content) == ~IsEdited(m) /\ m.content # content

\* A send key already used means a replay, or a conflict.
ReplayConflict(m, content) ==
    \/ m.content.attachments # content.attachments
    \/ ~IsEdited(m) /\ m.content # content

\* MessagePostingPolicy.create_message on the snapshot.
Post(c) ==
    \E instant \in Clock :
       IF PostError(instant) # Ok
       THEN Finish(c, PostError(instant), None)
       ELSE Proceed(c, "commit") /\ UNCHANGED locals

\* The ids stored under the send key of call c.
SentBefore(c) ==
    {m \in MessageIds : Stored(m) /\ SameSendKey(messages[m], command[c].actor,
                                                 command[c].client)}

\* get_sent_message: a replay is fenced, a new message is verified and posted.
ReadSent(c) ==
    /\ pc[c] = "read" /\ IsSend(c) /\ ReadAnswers(c)
    /\ \/ \E m \in SentBefore(c) :
            IF ReplayConflict(messages[m], command[c].content)
            THEN Finish(c, "MessageSendConflict", None)
            ELSE /\ found' = [found EXCEPT ![c] = [id |-> m, value |-> messages[m]]]
                 /\ Proceed(c, "commit")
                 /\ UNCHANGED <<snap, watermark, now>>
       \/ /\ SentBefore(c) = {} \/ StaleReads
          /\ IF command[c].content.attachments # NoAttachments
             THEN Proceed(c, "verify") /\ UNCHANGED locals
             ELSE Post(c)
    /\ UNCHANGED <<storage, command>>

\* AttachmentVerifierProtocol.require_ready.
VerifyAttachments(c) ==
    /\ pc[c] = "verify" /\ IsSend(c)
    /\ IF command[c].content.attachments \in ReadyAttachments
       THEN Post(c)
       ELSE Finish(c, "AttachmentsNotReady", None)
    /\ UNCHANGED <<storage, command>>

\* get_message: the acknowledged message, if stored.
ReadThrough(c) ==
    /\ pc[c] = "read" /\ IsAck(c) /\ ReadAnswers(c)
    /\ \E m \in ReadResults(messages[command[c].message]) :
         found' = [found EXCEPT ![c] =
                     IF m = None THEN None
                     ELSE [id |-> command[c].message, value |-> m]]
    /\ Proceed(c, "receipt")
    /\ UNCHANGED <<snap, watermark, now, storage, command>>

\* get_receipt, then the watermark is advanced: a fresh one created at
\* `created' when the user has none.
ReadReceipt(c) ==
    /\ pc[c] = "receipt" /\ ReadAnswers(c)
    /\ IF found[c] = None THEN Finish(c, "MessageNotFound", None)
       ELSE \E w \in ReadResults(receipts[command[c].actor]),
               created, instant \in Clock :
            LET base  == IF w = None THEN EmptyReceipt(c, created) ELSE w
                error == AckError(base, snap[c].group, command[c].actor,
                                  command[c].kind,
                                  CheckpointOf(found[c].id, found[c].value),
                                  found[c].value.sender, instant)
            IN  IF error # Ok THEN Finish(c, error, None)
                ELSE /\ watermark' = [watermark EXCEPT ![c] = base]
                     /\ now' = [now EXCEPT ![c] = instant]
                     /\ Proceed(c, "commit")
                     /\ UNCHANGED <<snap, found>>
    /\ UNCHANGED <<storage, command>>
------------------------------------------------------------------------------
(* try_commit and try_commit_membership *)

Acked(c) == CheckpointOf(found[c].id, found[c].value)

\* What the call asks to store: a group, a message, a watermark, or None.
PostsMessage(c) == IsSend(c) /\ found[c] = None
MovesReceipt(c) == IsAck(c) /\ AckChanges(watermark[c], command[c].kind, Acked(c))

NewGroup(c) ==
    IF command[c].kind = "add"
    THEN WithMember(snap[c].group, command[c].user, now[c])
    ELSE WithoutMember(snap[c].group, command[c].user, now[c])

NewMessage(c) ==
    Posted(command[c].actor, command[c].client, command[c].content,
           snap[c].lastPosition + 1)

NewReceipt(c) == Advanced(watermark[c], command[c].kind, Acked(c), now[c])

\* The conditions checked together with the revision.
\* Mutants: the conditions a stale None gets past.
AnyCommand(c) == TRUE
AnyKey(c) ==
    PostsMessage(c) => ~Stored(c) /\ NewMessage(c).position = lastPosition + 1
AnyReceipt(c) == TRUE

CommandUnused(c) == IsMembership(c) => results[command[c].id] = None

MessageFollows(c) ==
    PostsMessage(c) =>
      /\ ~Stored(c)
      /\ SentBefore(c) = {}
      /\ NewMessage(c).position = lastPosition + 1

NotBehind(cp, saved) ==
    \/ saved.position < cp.position
    \/ saved = cp

ReceiptFollows(c) ==
    LET saved == receipts[command[c].actor] IN
    MovesReceipt(c) /\ saved # None =>
      /\ NewReceipt(c).id = saved.id
      /\ NewReceipt(c).version = saved.version + 1
      /\ NotBehind(NewReceipt(c).read, saved.read)
      /\ NotBehind(NewReceipt(c).delivered, saved.delivered)

\* Mutant: a commit that stores nothing is not conditional.
Unfenced(c) ==
    /\ RevisionHolds(c) \/ ~(IsMembership(c) \/ PostsMessage(c) \/ MovesReceipt(c))
    /\ CommandUnused(c)
    /\ MessageFollows(c)
    /\ ReceiptFollows(c)

MayCommit(c) ==
    /\ RevisionHolds(c)
    /\ CommandUnused(c)
    /\ MessageFollows(c)
    /\ ReceiptFollows(c)

NextRevision(c) == revision + 1

NextPosition(c) ==
    IF PostsMessage(c) THEN NewMessage(c).position ELSE lastPosition

NextResults(c) ==
    IF IsMembership(c)
    THEN [results EXCEPT ![command[c].id] =
            [intent |-> Intent(command[c]), result |-> NewGroup(c)]]
    ELSE results

\* One atomic write: the mutation, the next revision, the position of a new
\* message and the result of a membership command.
Apply(c) ==
    /\ revision' = NextRevision(c)
    /\ lastPosition' = NextPosition(c)
    /\ results' = NextResults(c)
    /\ group' = IF IsMembership(c) THEN NewGroup(c) ELSE group
    /\ messages' = IF PostsMessage(c)
                   THEN [messages EXCEPT ![c] = NewMessage(c)] ELSE messages
    /\ receipts' = IF MovesReceipt(c)
                   THEN [receipts EXCEPT ![command[c].actor] = NewReceipt(c)]
                   ELSE receipts

\* Mutant: a replay names the new id of this call.
OwnIdReply(c) ==
    IF IsMembership(c) THEN NewGroup(c)
    ELSE IF IsSend(c)
    THEN [id |-> c,
          message |-> IF PostsMessage(c) THEN NewMessage(c) ELSE found[c].value,
          groupVersion |-> snap[c].group.version]
    ELSE [watermark |-> NewReceipt(c), changed |-> MovesReceipt(c),
          groupVersion |-> snap[c].group.version]

\* What the handler returns once the port has said True.
Reply(c) ==
    IF IsMembership(c) THEN NewGroup(c)
    ELSE IF IsSend(c)
    THEN [id |-> IF PostsMessage(c) THEN c ELSE found[c].id,
          message |-> IF PostsMessage(c) THEN NewMessage(c) ELSE found[c].value,
          groupVersion |-> snap[c].group.version]
    ELSE [watermark |-> NewReceipt(c), changed |-> MovesReceipt(c),
          groupVersion |-> snap[c].group.version]

CommitTrue(c) ==
    /\ pc[c] = "commit" /\ MayCommit(c)
    /\ Apply(c)
    /\ Finish(c, Ok, Reply(c))
    /\ UNCHANGED command

CommitFalse(c) ==
    /\ pc[c] = "commit" /\ ~MayCommit(c)
    /\ Retry(c)
    /\ UNCHANGED <<storage, command>>
------------------------------------------------------------------------------
(* Failures *)

\* StorageUnavailableError, IdentityUnavailableError or cancellation at an
\* await that writes nothing.
Unavailable(c) ==
    /\ pc[c] \in {"load", "read", "receipt", "verify"}
    /\ Finish(c, "Unavailable", None)
    /\ UNCHANGED <<storage, command>>

\* The answer of try_commit is lost: the handler raises, and the write may
\* have been made, may still be made, or may never be.
LoseCommit(c) ==
    /\ pc[c] = "commit"
    /\ Goto(c, "limbo")
    /\ status' = [status EXCEPT ![c] = "Unavailable"]
    /\ UNCHANGED <<storage, command, attempt, locals, reply>>

\* A lost write reaches the storage, under the same conditions.
Land(c) ==
    /\ pc[c] = "limbo" /\ MayCommit(c)
    /\ Apply(c)
    /\ Goto(c, "done")
    /\ Forget(c)
    /\ UNCHANGED <<command, attempt, status, reply>>

\* Mutant: an edit leaves the revision where it is.
QuietEdit(m) ==
    /\ Stored(m) /\ messages[m].version <= MaxEdits
    /\ \E text \in Texts \ {messages[m].content.text} :
         messages' = [messages EXCEPT ![m] = Edited(@, text)]
    /\ UNCHANGED <<revision, group, lastPosition, receipts, results,
                   command, pc, attempt, locals, status, reply>>

\* Another writer of the same history: an accepted Message.edit_text by the
\* author, which advances the common revision.
EditMessage(m) ==
    /\ Stored(m) /\ messages[m].version <= MaxEdits
    /\ \E text \in Texts \ {messages[m].content.text} :
         messages' = [messages EXCEPT ![m] = Edited(@, text)]
    /\ revision' = revision + 1
    /\ UNCHANGED <<group, lastPosition, receipts, results,
                   command, pc, attempt, locals, status, reply>>

\* All calls have returned; a lost write may never land.
Settled ==
    /\ \A c \in Calls : pc[c] \in {"limbo", "done"}
    /\ UNCHANGED vars

\* The steps a running handler owes.
Step(c) ==
    \/ Load(c) \/ ReadConflict(c)
    \/ ReadMembership(c) \/ VerifyRegistered(c)
    \/ ReadSent(c) \/ VerifyAttachments(c)
    \/ ReadThrough(c) \/ ReadReceipt(c)
    \/ CommitTrue(c) \/ CommitFalse(c)

Next ==
    \/ \E c \in Calls : Step(c) \/ Unavailable(c) \/ LoseCommit(c) \/ Land(c)
    \/ \E m \in MessageIds : EditMessage(m)
    \/ Settled

Spec == Init /\ [][Next]_vars

\* The event loop runs every handler, and every port call answers or fails.
Fairness == \A c \in Calls : WF_vars(Step(c))
------------------------------------------------------------------------------
(* Properties *)

StorageTypes ==
    /\ group \in GroupDialog
    /\ revision \in Nat /\ lastPosition \in Nat
    /\ messages \in [MessageIds -> Message \cup {None}]
    /\ receipts \in [Users -> ReceiptWatermark \cup {None}]
    /\ results \in [CommandIds -> Acceptance \cup {None}]

CallTypes ==
    /\ command \in [Calls -> Command]
    /\ pc \in [Calls -> {"load", "read", "receipt", "verify", "commit",
                        "limbo", "done"}]
    /\ attempt \in [Calls -> 1..MaxAttempts]
    /\ snap \in [Calls -> Snapshot \cup {None}]
    /\ found \in [Calls -> Found \cup {None}]
    /\ watermark \in [Calls -> ReceiptWatermark \cup {None}]
    /\ now \in [Calls -> Nat]
    /\ status \in [Calls -> {"pending", Ok} \cup Errors]
    /\ reply \in [Calls -> Replies \cup {None}]

Active(c) == pc[c] \in {"read", "receipt", "verify", "commit", "limbo"}
Decided(c) == pc[c] \in {"verify", "commit", "limbo"}

\* Which locals a handler has at each of its awaits.
LocalsOKAt(c) ==
    /\ Active(c) => snap[c] \in Snapshot /\ command[c].dialog = Group
    /\ pc[c] = "receipt" => IsAck(c)
    /\ pc[c] = "verify" =>
         /\ ~IsAck(c)
         /\ IsMembership(c) => command[c].kind = "add"
         /\ found[c] = None
    /\ pc[c] \in {"commit", "limbo"} /\ IsAck(c) =>
         found[c] # None /\ watermark[c] # None
    /\ IsMembership(c) \/ pc[c] \in {"load", "read"} => found[c] = None

LocalsOK == \A c \in Calls : LocalsOKAt(c)

ValuesOK == StorageTypes /\ CallTypes

\* The values the storage and the locals of the handlers range over: no call
\* starts more than MaxAttempts attempts (range(max_attempts)), and none uses
\* a local that the await it stands at has not assigned.
TypeOK == ValuesOK /\ LocalsOK

\* While the revision of a snapshot holds, what the attempt has read is what is
\* stored: every accepted write, edits and fences included, moves the revision
\* (GroupRevisionRepositoryProtocol).
ReadsCurrentAt(c) ==
    /\ found[c] # None => messages[found[c].id] = found[c].value
    /\ Decided(c) /\ IsMembership(c) => results[command[c].id] = None
    /\ Decided(c) /\ PostsMessage(c) => SentBefore(c) = {}
    /\ Decided(c) /\ IsAck(c) =>
         IF receipts[command[c].actor] = None THEN watermark[c].version = 1
         ELSE watermark[c] = receipts[command[c].actor]

SnapshotCurrentAt(c) ==
    Active(c) =>
      /\ snap[c].revision <= revision
      /\ RevisionHolds(c) => /\ snap[c].group = group
                             /\ snap[c].lastPosition = lastPosition
                             /\ ~StaleReads => ReadsCurrentAt(c)

SnapshotCurrent == \A c \in Calls : SnapshotCurrentAt(c)

\* What a handler found to be allowed on its snapshot stays so until its commit:
\* membership for a send or an ACK, the rules of the domain for a change of
\* members and of a watermark, and Identity's word for an added user.
DecisionStandsAt(c) ==
    /\ Active(c) /\ ~IsMembership(c) => command[c].actor \in snap[c].group.members
    /\ Decided(c) /\ IsMembership(c) => MembershipError(c, now[c]) = Ok
    /\ pc[c] \in {"commit", "limbo"} =>
         /\ command[c].kind = "add" => command[c].user \in Registered
         /\ IsAck(c) =>
              AckError(watermark[c], snap[c].group, command[c].actor,
                       command[c].kind, Acked(c), found[c].value.sender,
                       now[c]) = Ok

DecisionsStand == \A c \in Calls : DecisionStandsAt(c)

Answered(c) == status[c] = Ok

\* The group stays within its rules whatever the interleaving of adds and
\* removes computed on old snapshots: the owner stays, the limit holds when
\* two calls race for the last place, and nobody Identity did not confirm
\* gets in (GroupDialog._validate_invariants, AddGroupMemberHandler).
GroupSound ==
    /\ group.owner \in group.members
    /\ Cardinality(group.members) <= MaxGroupMembers
    /\ group.members \subseteq InitialMembers \cup Registered

\* Positions are 1..last_position without a gap or a repetition, although every
\* sender computes its own from the snapshot it loaded (try_commit: "position
\* is last_position + 1").
HistoryDense ==
    /\ \A m \in MessageIds : Stored(m) => messages[m].position \in 1..lastPosition
    /\ \A m, n \in MessageIds :
          Stored(m) /\ Stored(n) /\ m # n => messages[m].position # messages[n].position
    /\ \A p \in 1..lastPosition : \E m \in MessageIds :
          Stored(m) /\ messages[m].position = p

\* One stored message per (sender, client_message_id), also when a retry races
\* the lost write of the first attempt or reads a stale None (try_commit:
\* "an existing key creates no new record").
SendKeyUnique ==
    \A m, n \in MessageIds :
      Stored(m) /\ Stored(n) /\ m # n
        => ~SameSendKey(messages[m], messages[n].sender, messages[n].client)

\* A boundary of a watermark is a stored message of another author at that
\* very position, and nothing is read that was not delivered.
ReceiptsGrounded ==
    \A u \in Users :
      receipts[u] # None =>
        /\ receipts[u].read.position <= receipts[u].delivered.position
        /\ \A cp \in {receipts[u].read, receipts[u].delivered} \ {NoCheckpoint} :
             /\ Stored(cp.message)
             /\ messages[cp.message].position = cp.position
             /\ messages[cp.message].sender # u

\* A successful ACK holds from then on: whatever other sessions of the same user
\* acknowledge meanwhile, and whatever is edited or posted, the delivery status
\* of the message for her never falls below what the caller was told
\* (MessageDeliveryPolicy on the stored watermark).
AcksHonoured ==
    \A c \in Calls :
      IsAck(c) /\ Answered(c) =>
        /\ Stored(command[c].message)
        /\ DeliveryStatus(receipts[command[c].actor],
                          CheckpointOf(command[c].message, messages[command[c].message]))
             \in Acknowledged(command[c].kind)

\* Every membership version after the first is the work of exactly one command
\* id: a retry after an unknown outcome never applies its change again, on top
\* of what came later (try_commit_membership).
MembershipAppliedOnce ==
    /\ \A k \in CommandIds :
          results[k] # None => results[k].result.version \in 2..group.version
    /\ \A j, k \in CommandIds :
          results[j] # None /\ results[k] # None /\ j # k
            => results[j].result.version # results[k].result.version
    /\ \A v \in 2..group.version : \E k \in CommandIds :
          results[k] # None /\ results[k].result.version = v

\* A send answered with success names the one stored message under its key, at
\* its position and with its attachments; so a call and its retries agree on
\* id and position (SendGroupMessageHandler, replay branch).
SendsAnsweredOnce ==
    \A c \in Calls :
      IsSend(c) /\ Answered(c) =>
        /\ SentBefore(c) = {reply[c].id}
        /\ messages[reply[c].id].position = reply[c].message.position
        /\ messages[reply[c].id].content.attachments
              = command[c].content.attachments

\* A membership call answered with success got the group its own request led
\* to, never the stored result of another intent under the same command id.
MembershipAnswersFit ==
    \A c \in Calls :
      IsMembership(c) /\ Answered(c) =>
        /\ (command[c].user \in reply[c].members) <=> (command[c].kind = "add")
        /\ reply[c] = results[command[c].id].result

\* ConcurrentModificationError is raised only "after confirmed conflicts of the
\* revision" (application/exceptions/groups.py): the history moved at least
\* once for every attempt.
ExhaustedByConflicts ==
    \A c \in Calls :
      status[c] = "ConcurrentModification" => revision > SeedLast + MaxAttempts

\* Success of a send or an ACK, new or replayed, is granted only while the actor
\* is a member and names the membership version it was granted under; and
\* nobody's message or watermark is written after the actor was removed, not
\* even by a write whose answer was lost (ADR 0001).
RightsHoldAtCommit ==
    [][ \A c \in Calls :
          /\ ~IsMembership(c) /\ ~Answered(c) /\ Answered(c)' =>
               /\ command[c].actor \in group.members
               /\ reply'[c].groupVersion = group.version
          /\ messages'[c] # messages[c] /\ ~Stored(c) =>
               command[c].actor \in group.members
          /\ receipts' # receipts => \A u \in Users :
               receipts'[u] # receipts[u] => u \in group.members ]_vars

\* A watermark keeps its identity, its boundaries never move back, and each
\* stored change is the next version.
ReceiptsMonotone ==
    [][ \A u \in Users :
          receipts[u] # None /\ receipts'[u] # receipts[u] =>
            /\ receipts'[u].id = receipts[u].id
            /\ receipts'[u].version = receipts[u].version + 1
            /\ receipts'[u].read.position >= receipts[u].read.position
            /\ receipts'[u].delivered.position >= receipts[u].delivered.position
            /\ receipts'[u].updatedAt >= receipts[u].updatedAt ]_vars

\* Membership versions are consecutive, change one member each and never go back
\* in time, although the handlers' clocks may.
GroupHistoryLinear ==
    [][ group' # group =>
          /\ group'.version = group.version + 1
          /\ group'.updatedAt >= group.updatedAt
          /\ \E u \in Users :
               group'.members = IF u \in group.members THEN group.members \ {u}
                                ELSE group.members \cup {u} ]_vars

\* Every invoked handler returns or raises: the attempts are bounded and each
\* conflict uses one up.
CallsReturn == \A c \in Calls : <>(pc[c] \in {"limbo", "done"})
==============================================================================
