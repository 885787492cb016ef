----------------------------- MODULE GroupDomain -----------------------------
(***************************************************************************)
(* The domain rules: GroupDialog with its six operations, Message and its  *)
(* posting and editing rules, ReceiptWatermark, and the delivery status    *)
(* computed from it.  Everything here is a pure operator on values; who    *)
(* calls it, and what happens between reading the values and storing the   *)
(* result, is the subject of GroupCommands, GroupGovernance and            *)
(* DialogHistory.                                                          *)
(*                                                                         *)
(* Each operation of an aggregate is a pair: the error it raises (in the   *)
(* order in which the code tests, Ok when it raises none) and the value it *)
(* leaves behind.  An aggregate that raises is left as it was.             *)
(***************************************************************************)
EXTENDS Integers, FiniteSets

CONSTANTS
    Users,            \* user identifiers
    MaxGroupMembers,  \* domain/limits.py: MAX_GROUP_MEMBERS
    CreatedAt,        \* created_at of the group
    Clock,            \* instants the clock may return, in any order
    Titles,           \* normalized group titles
    Avatars,          \* object ids an avatar may be
    MessageIds,       \* message identifiers
    ReceiptIds,       \* watermark identifiers
    ClientIds,        \* client_message_id values
    Texts,            \* normalized message texts
    Attachments,      \* ordered attachment lists
    NoAttachments,    \* the empty one
    None              \* Python's None

ASSUME GroupDomainAssumption ==
    /\ MaxGroupMembers \in Nat
    /\ CreatedAt \in Nat
    /\ Clock \subseteq Nat
    /\ NoAttachments \in Attachments
    /\ None \notin MessageIds /\ None \notin Avatars
------------------------------------------------------------------------------
(* Values *)

Content == [text : Texts, attachments : Attachments]

GroupDialog == [members : SUBSET Users, owner : Users, title : Titles,
                avatar : Avatars \cup {None}, version : Nat \ {0}, updatedAt : Nat]

\* Message, stored under its id.  version = 1 until the first real edit, so
\* that the field updated_at is not needed to tell an edited message.
Message == [sender : Users, client : ClientIds, content : Content,
            position : Nat \ {0}, version : Nat \ {0}]

\* MessageCheckpoint, and None as a boundary that was never set.
NoCheckpoint == [position |-> 0, message |-> None]
Checkpoint == [position : Nat \ {0}, message : MessageIds] \cup {NoCheckpoint}

ReceiptWatermark == [id : ReceiptIds, delivered : Checkpoint, read : Checkpoint,
                     version : Nat \ {0}, updatedAt : Nat]

Ok == "ok"

\* The domain errors the group handlers can let out.
DomainErrors ==
    {"NotGroupMember", "GroupMemberAlreadyExists", "GroupMemberLimitExceeded",
     "CannotRemoveOwner", "InvalidDomainTimestamp",
     "MessageCreatedAtPrecedesDialog", "NotIncomingMessage",
     "CheckpointMessageMismatch"}

\* VersionedMutableEntity._mark_updated, once the time has been accepted.
Touched(entity, now) ==
    [entity EXCEPT !.version = @ + 1, !.updatedAt = now]
------------------------------------------------------------------------------
(* GroupDialog *)

\* Mutant: the limit is tested before the new member is counted.
LateLimit(g, actor, user, now) ==
    IF actor \notin g.members THEN "NotGroupMember"
    ELSE IF user \in g.members THEN "GroupMemberAlreadyExists"
    ELSE IF Cardinality(g.members) > MaxGroupMembers
         THEN "GroupMemberLimitExceeded"
    ELSE IF now < g.updatedAt THEN "InvalidDomainTimestamp"
    ELSE Ok

\* Mutant: the time is not compared with the previous update.
AnyTime(g, actor, user, now) ==
    IF actor \notin g.members THEN "NotGroupMember"
    ELSE IF user \in g.members THEN "GroupMemberAlreadyExists"
    ELSE IF Cardinality(g.members \cup {user}) > MaxGroupMembers
         THEN "GroupMemberLimitExceeded"
    ELSE Ok

AddMemberError(g, actor, user, now) ==
    IF actor \notin g.members THEN "NotGroupMember"
    ELSE IF user \in g.members THEN "GroupMemberAlreadyExists"
    ELSE IF Cardinality(g.members \cup {user}) > MaxGroupMembers
         THEN "GroupMemberLimitExceeded"
    ELSE IF now < g.updatedAt THEN "InvalidDomainTimestamp"
    ELSE Ok

WithMember(g, user, now) ==
    Touched([g EXCEPT !.members = @ \cup {user}], now)

RemoveMemberError(g, actor, user, now) ==
    IF actor \notin g.members THEN "NotGroupMember"
    ELSE IF user = g.owner THEN "CannotRemoveOwner"
    ELSE IF user \notin g.members THEN "NotGroupMember"
    ELSE IF now < g.updatedAt THEN "InvalidDomainTimestamp"
    ELSE Ok

WithoutMember(g, user, now) ==
    Touched([g EXCEPT !.members = @ \ {user}], now)

\* rename, change_avatar and remove_avatar: open to every member, and a value
\* equal to the present one changes nothing, not even the time.
ProfileError(g, changed, actor, now) ==
    IF actor \notin g.members THEN "NotGroupMember"
    ELSE IF changed # g /\ now < g.updatedAt THEN "InvalidDomainTimestamp"
    ELSE Ok

\* Mutant: the new owner need not be a member any more.
HandoverToAnyone(g, actor, user, now) ==
    IF actor # g.owner THEN "NotGroupOwner"
    ELSE IF user # g.owner /\ now < g.updatedAt THEN "InvalidDomainTimestamp"
    ELSE Ok

\* change_owner.
HandoverError(g, actor, user, now) ==
    IF actor # g.owner THEN "NotGroupOwner"
    ELSE IF user \notin g.members THEN "NotGroupMember"
    ELSE IF user # g.owner /\ now < g.updatedAt THEN "InvalidDomainTimestamp"
    ELSE Ok

\* Mutant: what equals the present value counts as a change.
AlwaysTouched(entity, changed, now) == Touched(changed, now)

\* _apply_changes: the changed entity is touched, an equal one left alone.
Applied(entity, changed, now) ==
    IF changed = entity THEN entity ELSE Touched(changed, now)
------------------------------------------------------------------------------
(* Message *)

\* MessagePostingPolicy.create_message; the right to send was checked on the
\* same snapshot when it was loaded.
PostError(now) ==
    IF now < CreatedAt THEN "MessageCreatedAtPrecedesDialog" ELSE Ok

Posted(sender, client, content, position) ==
    [sender |-> sender, client |-> client, content |-> content,
     position |-> position, version |-> 1]

IsEdited(m) == m.version > 1

SameSendKey(m, sender, client) == m.sender = sender /\ m.client = client

\* Message.edit_text to a text that differs after normalization.
Edited(m, text) ==
    [m EXCEPT !.content.text = text, !.version = @ + 1]
------------------------------------------------------------------------------
(* ReceiptWatermark *)

EmptyReceipt(id, now) ==
    [id |-> id, delivered |-> NoCheckpoint, read |-> NoCheckpoint,
     version |-> 1, updatedAt |-> now]

CheckpointOf(id, m) == [position |-> m.position, message |-> id]

\* is_delivered / is_read for a boundary; NoCheckpoint covers nothing.
Covers(boundary, cp) == cp.position <= boundary.position

\* The error is_delivered and is_read raise: one position, two messages.
Mismatch(boundary, cp) ==
    boundary.position = cp.position /\ boundary.message # cp.message

\* Mutants: the last ACK wins; a message that is delivered needs no further ACK.
LastAckChanges(w, kind, cp) == cp # (IF kind = "read" THEN w.read ELSE w.delivered)
DeliveredEnough(w, kind, cp) == ~Covers(w.delivered, cp)

AckChanges(w, kind, cp) ==
    ~Covers(IF kind = "read" THEN w.read ELSE w.delivered, cp)

\* What the two boundaries may refuse once the message is known to be incoming.
BoundaryError(w, kind, cp, now) ==
    IF \/ kind = "read" /\ Mismatch(w.read, cp)
       \/ kind = "delivered" /\ Mismatch(w.delivered, cp)
       \/ AckChanges(w, kind, cp) /\ Mismatch(w.delivered, cp)
    THEN "CheckpointMessageMismatch"
    ELSE IF AckChanges(w, kind, cp) /\ now < w.updatedAt
    THEN "InvalidDomainTimestamp"
    ELSE Ok

AckError(w, g, actor, kind, cp, sender, now) ==
    IF actor \notin g.members THEN "NotGroupMember"
    ELSE IF sender = actor THEN "NotIncomingMessage"
    ELSE BoundaryError(w, kind, cp, now)

\* Mutant: reading does not count as delivery.
ReadApart(w, kind, cp, now) ==
    IF ~AckChanges(w, kind, cp) THEN w
    ELSE IF kind = "read" THEN Touched([w EXCEPT !.read = cp], now)
    ELSE Touched([w EXCEPT !.delivered = cp], now)

\* advance_delivered and advance_read; a late ACK leaves the watermark as it
\* is, and reading pulls the delivered boundary up with it.
Advanced(w, kind, cp, now) ==
    IF ~AckChanges(w, kind, cp) THEN w
    ELSE LET delivered == IF Covers(w.delivered, cp) THEN w.delivered ELSE cp
         IN  IF kind = "read"
             THEN Touched([w EXCEPT !.read = cp, !.delivered = delivered], now)
             ELSE Touched([w EXCEPT !.delivered = cp], now)
------------------------------------------------------------------------------
(* MessageDeliveryPolicy *)

\* The status of a message at cp for the recipient whose watermark is w.
DeliveryStatus(w, cp) ==
    IF w = None THEN "SENT"
    ELSE IF Covers(w.read, cp) THEN "READ"
    ELSE IF Covers(w.delivered, cp) THEN "DELIVERED"
    ELSE "SENT"

\* What a successful ACK of this kind makes of the status, at least.
Acknowledged(kind) == IF kind = "read" THEN {"READ"} ELSE {"READ", "DELIVERED"}
==============================================================================
