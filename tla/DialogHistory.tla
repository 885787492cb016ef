---------------------------- MODULE DialogHistory ----------------------------
(***************************************************************************)
(* One dialog of any of the three kinds, its messages and its receipts,    *)
(* under every order of the operations the domain accepts.  The domain     *)
(* keeps no state between calls beyond these aggregates, and the group     *)
(* commands show that concurrent calls take effect one at a time; so what  *)
(* the rules add up to over a long run of legal calls is a question about  *)
(* this sequential machine.                                                *)
(*                                                                         *)
(* A call the domain refuses raises and leaves its aggregate as it was:    *)
(* refusals are the guards, in the form "the error is Ok".                 *)
(***************************************************************************)
EXTENDS GroupDomain, Sequences

CONSTANTS
    StartDialogs,     \* the dialogs to start from, of kind direct, saved or group
    RawTexts,         \* texts as callers pass them
    Normal,           \* what normalization makes of each: a text, Blank or Invalid
    Blank, Invalid,
    RawTitles, NormalTitle,   \* the same for titles: a title or Invalid
    FileLists,        \* attachment lists as callers pass them
    MaxAttachments,   \* domain/limits.py: MAX_MESSAGE_ATTACHMENTS
    MaxChanges        \* bound: messages posted and changes accepted in all

\* DirectDialog and SavedDialog are immutable; only a group has a version.
ImmutableDialog == [kind : {"direct", "saved"}, members : SUBSET Users]
Immutable(kind, members) == [kind |-> kind, members |-> members]

\* GroupDialog.create: whoever creates a group owns it and is a member.
NewGroup(title, owner, members, avatar) ==
    [kind |-> "group", members |-> members \cup {owner}, owner |-> owner,
     title |-> title, avatar |-> avatar, version |-> 1, updatedAt |-> CreatedAt]

Boundary == [position : Nat, message : Nat \cup {None}]
Watermark == [id : Users, delivered : Boundary, read : Boundary,
              version : Nat \ {0}, updatedAt : Nat]

ASSUME HistoryAssumption ==
    /\ Normal \in [RawTexts -> Texts \cup {Blank, Invalid}]
    /\ NormalTitle \in [RawTitles -> Titles \cup {Invalid}]
    /\ Blank # Invalid /\ {Blank, Invalid} \cap (Texts \cup Titles) = {}
    /\ None \notin RawTexts \cup Texts /\ None \notin Clock /\ None \notin Watermark
    /\ \A files \in FileLists : files \in Seq(Avatars)
    /\ MaxAttachments \in Nat /\ MaxChanges \in Nat
    /\ \A d \in StartDialogs :
         /\ \/ \E a, b \in Users : a # b /\ d = Immutable("direct", {a, b})
            \/ \E a \in Users : d = Immutable("saved", {a})
            \/ \E title \in Titles, owner \in Users, members \in SUBSET Users,
                  avatar \in Avatars \cup {None} :
                 d = NewGroup(title, owner, members, avatar)
         /\ Cardinality(d.members) <= MaxGroupMembers

VARIABLES
    dialog,
    history,    \* the messages; a position is an index
    receipts,   \* user -> ReceiptWatermark or None
    changes     \* messages posted and changes accepted so far, for the bound

vars == <<dialog, history, receipts, changes>>
------------------------------------------------------------------------------
(* Access *)

IsGroup == dialog.kind = "group"

\* require_can_send and require_can_read.
Participates(user) == user \in dialog.members

\* Mutant: a group forgets those who left, like a pair that cannot lose anyone.
BothPresent(sender, reader) == Participates(reader) /\ Participates(sender)

\* require_message_access.
Accessible(sender, reader) ==
    Participates(reader) /\ (IsGroup \/ Participates(sender))

SupportsReceipts == dialog.kind # "saved"
------------------------------------------------------------------------------
(* Content *)

\* MessageContent._validate_text: no text and blank text are the same.
TextOf(raw) ==
    IF raw = None THEN None ELSE IF Normal[raw] = Blank THEN None ELSE Normal[raw]

Distinct(files) == \A i, j \in DOMAIN files : files[i] = files[j] => i = j

\* MessageContent.from_parts.
ContentError(text, files) ==
    IF text = Invalid THEN "InvalidMessageText"
    ELSE IF text = None /\ files = <<>> THEN "EmptyMessageContent"
    ELSE IF Len(files) > MaxAttachments \/ ~Distinct(files)
    THEN "InvalidMessageAttachments"
    ELSE Ok

\* _mark_updated of a message, which has no updated_at before its first edit.
EditTimeError(m, instant) ==
    IF instant < m.createdAt \/ (m.updatedAt # None /\ instant < m.updatedAt)
    THEN "InvalidDomainTimestamp" ELSE Ok
------------------------------------------------------------------------------
(* Operations *)

Init ==
    /\ dialog \in StartDialogs
    /\ history = <<>>
    /\ receipts = [u \in Users |-> None]
    /\ changes = 0

\* The bound on runs: an operation that changes something uses up one change.
Counts(changed) ==
    /\ changed => changes < MaxChanges
    /\ changes' = IF changed THEN changes + 1 ELSE changes

\* MessagePostingPolicy.create_message, stored at the next position.
Post(sender, raw, files, instant) ==
    /\ Counts(TRUE)
    /\ Participates(sender)
    /\ ContentError(TextOf(raw), files) = Ok
    /\ PostError(instant) = Ok
    /\ history' = Append(history,
         [sender |-> sender, position |-> Len(history) + 1,
          content |-> [text |-> TextOf(raw), attachments |-> files],
          createdAt |-> instant, updatedAt |-> None, version |-> 1])
    /\ UNCHANGED <<dialog, receipts>>

\* Mutant: the edit keeps no attachments.
EditAll(i, actor, raw, instant) ==
    LET edited == [history[i] EXCEPT !.content = [text |-> TextOf(raw),
                                                  attachments |-> <<>>]]
    IN  /\ actor = history[i].sender
        /\ ContentError(edited.content.text, edited.content.attachments) = Ok
        /\ edited # history[i] => EditTimeError(history[i], instant) = Ok
        /\ Counts(edited # history[i])
        /\ history' = [history EXCEPT ![i] = Applied(@, edited, instant)]
        /\ UNCHANGED <<dialog, receipts>>

\* Message.edit_text: the author's right to edit does not end with membership.
EditText(i, actor, raw, instant) ==
    LET edited == [history[i] EXCEPT !.content.text = TextOf(raw)]
    IN  /\ actor = history[i].sender
        /\ ContentError(edited.content.text, edited.content.attachments) = Ok
        /\ edited # history[i] => EditTimeError(history[i], instant) = Ok
        /\ Counts(edited # history[i])
        /\ history' = [history EXCEPT ![i] = Applied(@, edited, instant)]
        /\ UNCHANGED <<dialog, receipts>>

CheckpointAt(i) == CheckpointOf(i, history[i])

\* Mutant: one's own message may be acknowledged, in a saved dialog too.
OwnAcknowledgeError(w, actor, kind, i, instant) ==
    IF ~Accessible(history[i].sender, actor) THEN "NoAccess"
    ELSE BoundaryError(w, kind, CheckpointAt(i), instant)

\* _checkpoint_for_ack and the boundaries, for a stored or a fresh watermark.
AcknowledgeError(w, actor, kind, i, instant) ==
    IF ~Accessible(history[i].sender, actor) THEN "NoAccess"
    ELSE IF ~SupportsReceipts \/ history[i].sender = actor
    THEN "NotIncomingMessage"
    ELSE BoundaryError(w, kind, CheckpointAt(i), instant)

WatermarkOf(user, instant) ==
    IF receipts[user] = None THEN EmptyReceipt(user, instant) ELSE receipts[user]

\* advance_delivered and advance_read; only a moved watermark is stored.
Acknowledge(i, actor, kind, instant) ==
    LET w == WatermarkOf(actor, instant) IN
    /\ AcknowledgeError(w, actor, kind, i, instant) = Ok
    /\ Counts(AckChanges(w, kind, CheckpointAt(i)))
    /\ receipts' = IF AckChanges(w, kind, CheckpointAt(i))
                   THEN [receipts EXCEPT ![actor] =
                           Advanced(w, kind, CheckpointAt(i), instant)]
                   ELSE receipts
    /\ UNCHANGED <<dialog, history>>

\* The group takes the value an operation leaves, if the operation raises nothing.
Become(error, changed, instant) ==
    /\ error = Ok
    /\ Counts(changed # dialog)
    /\ dialog' = Applied(dialog, changed, instant)
    /\ UNCHANGED <<history, receipts>>

AddMember(actor, user, instant) ==
    Become(AddMemberError(dialog, actor, user, instant),
           [dialog EXCEPT !.members = @ \cup {user}], instant)

RemoveMember(actor, user, instant) ==
    Become(RemoveMemberError(dialog, actor, user, instant),
           [dialog EXCEPT !.members = @ \ {user}], instant)

ChangeOwner(actor, user, instant) ==
    Become(HandoverError(dialog, actor, user, instant),
           [dialog EXCEPT !.owner = user], instant)

\* A title is normalized before it is compared with the present one.
Rename(actor, raw, instant) ==
    LET renamed == [dialog EXCEPT !.title = NormalTitle[raw]] IN
    /\ NormalTitle[raw] # Invalid
    /\ Become(ProfileError(dialog, renamed, actor, instant), renamed, instant)

SetAvatar(actor, avatar, instant) ==
    LET changed == [dialog EXCEPT !.avatar = avatar] IN
    Become(ProfileError(dialog, changed, actor, instant), changed, instant)

MessageOperation ==
    \E actor \in Users, instant \in Clock :
      \/ \E raw \in RawTexts \cup {None}, files \in FileLists :
           Post(actor, raw, files, instant)
      \/ \E i \in DOMAIN history :
           \/ \E raw \in RawTexts \cup {None} : EditText(i, actor, raw, instant)
           \/ \E kind \in {"delivered", "read"} : Acknowledge(i, actor, kind, instant)

GroupOperation ==
    /\ IsGroup
    /\ \E actor \in Users, instant \in Clock :
         \/ \E user \in Users : \/ AddMember(actor, user, instant)
                                \/ RemoveMember(actor, user, instant)
                                \/ ChangeOwner(actor, user, instant)
         \/ \E raw \in RawTitles : Rename(actor, raw, instant)
         \/ \E avatar \in Avatars \cup {None} : SetAvatar(actor, avatar, instant)

Next == MessageOperation \/ GroupOperation

Spec == Init /\ [][Next]_vars
------------------------------------------------------------------------------
(* Properties *)

\* MessageDeliveryPolicy.calculate_status, for those it answers.
Recipients(i) ==
    {u \in Users : Accessible(history[i].sender, u) /\ u # history[i].sender}

Status(i, user) ==
    IF ~SupportsReceipts THEN "SENT"
    ELSE DeliveryStatus(receipts[user], CheckpointAt(i))

Rank == [SENT |-> 0, DELIVERED |-> 1, READ |-> 2]

\* What was delivered or read is never again shown as less, in whatever order
\* the ACKs of a user's sessions arrive and whoever leaves, joins or edits
\* (ReceiptWatermark.advance_delivered: "a late ACK is a no-op").
StatusNeverGoesBack ==
    [][ \A i \in DOMAIN history : \A u \in Recipients(i) \cap Recipients(i)' :
          Rank[Status(i, u)'] >= Rank[Status(i, u)] ]_vars

\* The status tells of the recipients' own ACKs: a history nobody can acknowledge
\* stays SENT, and what counts as read also counts as delivered, up to a message
\* of somebody else that is still there (SavedDialog.supports_receipts).
StatusGrounded ==
    \A u \in Users :
      LET w == receipts[u] IN
      w # None =>
        /\ dialog.kind # "saved"
        /\ Covers(w.delivered, w.read)
        /\ \A cp \in {w.read, w.delivered} \ {NoCheckpoint} :
             /\ cp.message \in DOMAIN history
             /\ CheckpointAt(cp.message) = cp
             /\ history[cp.message].sender # u

\* No run of legal calls ends in a state where a present participant cannot
\* acknowledge an incoming message: authors who left a group leave their
\* messages behind; only a clock behind the watermark may refuse
\* (GroupDialog.require_message_access).
AcksNeverStuck ==
    \A i \in DOMAIN history, u \in dialog.members, kind \in {"delivered", "read"} :
      \/ history[i].sender = u
      \/ \A instant \in Clock :
           LET w == WatermarkOf(u, instant) IN
           instant >= w.updatedAt
             => AcknowledgeError(w, u, kind, i, instant) = Ok

\* A message is never lost, moved or given another author, time or attachment, and
\* an edit leaves something to show; while it counts as unedited it is the message
\* that was posted, and once edited it stays so, even when the old text is restored
\* (Message.edit_text, Message.is_edited).
MessagesKeepIdentity ==
    [][ \A i \in DOMAIN history :
          /\ i \in DOMAIN history'
          /\ history'[i].sender = history[i].sender
          /\ history'[i].createdAt = history[i].createdAt
          /\ history'[i].content.attachments = history[i].content.attachments
          /\ history'[i].content.text \in Texts \/ history'[i].content.attachments # <<>>
          /\ ~IsEdited(history'[i]) => history'[i] = history[i]
          /\ IsEdited(history'[i]) <=> history'[i].updatedAt # None ]_vars

Unstamped(entity) == [entity EXCEPT !.version = 0, !.updatedAt = 0]

\* An aggregate's version counts its real changes: it moves by one exactly when
\* another field does, never back in time, whichever operation is at work
\* (base.py: "each real change increases version exactly by 1").
CountsChange(before, after) ==
    IF Unstamped(after) = Unstamped(before) THEN after = before
    ELSE /\ after.version = before.version + 1
         /\ before.updatedAt # None => after.updatedAt >= before.updatedAt

VersionsCountChanges ==
    [][ /\ IsGroup => CountsChange(dialog, dialog')
        /\ \A i \in DOMAIN history : CountsChange(history[i], history'[i])
        /\ \A u \in Users :
             receipts[u] # None => CountsChange(receipts[u], receipts'[u]) ]_vars
==============================================================================
