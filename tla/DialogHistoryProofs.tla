------------------------- MODULE DialogHistoryProofs -------------------------
(***************************************************************************)
(* Proofs about DialogHistory, for every dialog to start from, any texts,  *)
(* files and instants, and any number of changes: what the domain rules    *)
(* add up to over a run of legal calls.                                    *)
(***************************************************************************)
EXTENDS DialogHistory, TLAPS

Group == [kind : {"group"}, members : SUBSET Users, owner : Users, title : Titles,
          avatar : Avatars \cup {None}, version : Nat \ {0}, updatedAt : Nat]

Parts == [text : Texts \cup {None}, attachments : Seq(Avatars)]
Posting == [sender : Users, position : Nat, content : Parts, createdAt : Clock,
            updatedAt : Clock \cup {None}, version : Nat \ {0}]

\* Only a group is not immutable, and a saved dialog is one of its owner alone.
DialogOK == /\ dialog \in ImmutableDialog \cup Group
            /\ dialog.kind = "saved" => \E a \in Users : dialog.members = {a}

Shows(m) == m.content.text \in Texts \/ m.content.attachments # <<>>

\* A stored message at its place, which was edited exactly if it has a time of edit.
MessageOK(m, i) == /\ m \in Posting /\ m.position = i /\ Shows(m)
                   /\ IsEdited(m) <=> m.updatedAt # None

MessagesOK == /\ history \in Seq(Posting)
              /\ \A i \in DOMAIN history : MessageOK(history[i], i)
              /\ ~IsGroup => \A i \in DOMAIN history : history[i].sender \in dialog.members

\* A boundary of a user's watermark is none, or a stored message of somebody else.
BoundaryOK(u, cp) ==
    \/ cp = NoCheckpoint
    \/ /\ cp.message \in DOMAIN history /\ cp.position = cp.message
       /\ history[cp.message].sender # u

WatermarkOK(u, w) ==
    /\ w \in Watermark /\ SupportsReceipts
    /\ Covers(w.delivered, w.read)
    /\ BoundaryOK(u, w.delivered) /\ BoundaryOK(u, w.read)

ReceiptsOK == /\ receipts \in [Users -> Watermark \cup {None}]
              /\ \A u \in Users : receipts[u] # None => WatermarkOK(u, receipts[u])

HistoryInv == DialogOK /\ MessagesOK /\ ReceiptsOK

------------------------------------------------------------------------------
(* Versions: whatever else changes in an aggregate, Applied moves its version *)

LEMMA GroupCounts ==
    ASSUME NEW g \in Group, NEW c \in Group, NEW t \in Nat,
           c.version = g.version, c.updatedAt = g.updatedAt, c # g => t >= g.updatedAt
    PROVE  Applied(g, c, t) \in Group /\ CountsChange(g, Applied(g, c, t))
<1>1. CASE c = g  BY <1>1 DEF Applied, CountsChange
<1>2. CASE c # g
  <2>1. PICK a : a = [c EXCEPT !.version = c.version + 1, !.updatedAt = t]  OBVIOUS
  <2>2. Applied(g, c, t) = a  BY <1>2, <2>1 DEF Applied, Touched
  <2>3. a \in Group
    <3>1. PICK v \in Nat \ {0} : v = c.version + 1  BY DEF Group
    <3>2. a = [c EXCEPT !.version = v, !.updatedAt = t]  BY <2>1, <3>1
    <3>. QED  BY <3>2 DEF Group
  <2>4. a.version = g.version + 1 /\ a.updatedAt >= g.updatedAt
    BY <1>2, <2>1 DEF Group
  <2>5. \/ c.members # g.members \/ c.owner # g.owner
        \/ c.title # g.title \/ c.avatar # g.avatar
    BY <1>2 DEF Group
  <2>6. \/ a.members # g.members \/ a.owner # g.owner
        \/ a.title # g.title \/ a.avatar # g.avatar
    BY <2>1, <2>5 DEF Group
  <2>7. Unstamped(a) # Unstamped(g)
    <3>1. PICK ua : ua = Unstamped(a)  OBVIOUS
    <3>2. PICK ug : ug = Unstamped(g)  OBVIOUS
    <3>3. /\ ua.members = a.members /\ ua.owner = a.owner
          /\ ua.title = a.title /\ ua.avatar = a.avatar
      BY <2>3, <3>1 DEF Unstamped, Group
    <3>4. /\ ug.members = g.members /\ ug.owner = g.owner
          /\ ug.title = g.title /\ ug.avatar = g.avatar
      BY <3>2 DEF Unstamped, Group
    <3>. QED  BY <2>6, <3>1, <3>2, <3>3, <3>4
  <2>. QED  BY <2>2, <2>3, <2>4, <2>7 DEF CountsChange
<1>. QED  BY <1>1, <1>2

LEMMA GroupStep ==
    ASSUME HistoryInv, GroupOperation
    PROVE  /\ dialog \in Group /\ dialog' \in Group
           /\ CountsChange(dialog, dialog') /\ UNCHANGED <<history, receipts>>
<1>0. PICK g \in Group : g = dialog
  BY DEF GroupOperation, IsGroup, HistoryInv, DialogOK, ImmutableDialog
<1>1. ASSUME NEW c \in Group, NEW t \in Clock, NEW error, Become(error, c, t),
             c.version = g.version, c.updatedAt = g.updatedAt,
             error = Ok /\ c # g => t >= g.updatedAt
      PROVE  /\ dialog' \in Group /\ CountsChange(dialog, dialog')
             /\ UNCHANGED <<history, receipts>>
  BY <1>0, <1>1, GroupCounts, GroupDomainAssumption DEF Become
<1>2. PICK actor \in Users, t \in Clock :
        \/ \E user \in Users : \/ AddMember(actor, user, t)
                               \/ RemoveMember(actor, user, t)
                               \/ ChangeOwner(actor, user, t)
        \/ \E raw \in RawTitles : Rename(actor, raw, t)
        \/ \E avatar \in Avatars \cup {None} : SetAvatar(actor, avatar, t)
  BY DEF GroupOperation
<1>t. t \in Nat /\ g.updatedAt \in Nat  BY GroupDomainAssumption DEF Group
<1>3. ASSUME NEW user \in Users, AddMember(actor, user, t)
      PROVE  /\ dialog' \in Group /\ CountsChange(dialog, dialog')
             /\ UNCHANGED <<history, receipts>>
  <2>1. PICK c \in Group : c = [g EXCEPT !.members = g.members \cup {user}]
    BY DEF Group
  <2>2. Become(AddMemberError(g, actor, user, t), c, t)
    BY <1>0, <1>3, <2>1 DEF AddMember
  <2>3. c.version = g.version /\ c.updatedAt = g.updatedAt  BY <2>1 DEF Group
  <2>4. AddMemberError(g, actor, user, t) = Ok => t >= g.updatedAt
    BY <1>t DEF AddMemberError, Ok
  <2>. QED  BY <1>1, <2>2, <2>3, <2>4
<1>4. ASSUME NEW user \in Users, RemoveMember(actor, user, t)
      PROVE  /\ dialog' \in Group /\ CountsChange(dialog, dialog')
             /\ UNCHANGED <<history, receipts>>
  <2>1. PICK c \in Group : c = [g EXCEPT !.members = g.members \ {user}]
    BY DEF Group
  <2>2. Become(RemoveMemberError(g, actor, user, t), c, t)
    BY <1>0, <1>4, <2>1 DEF RemoveMember
  <2>3. c.version = g.version /\ c.updatedAt = g.updatedAt  BY <2>1 DEF Group
  <2>4. RemoveMemberError(g, actor, user, t) = Ok => t >= g.updatedAt
    BY <1>t DEF RemoveMemberError, Ok
  <2>. QED  BY <1>1, <2>2, <2>3, <2>4
<1>5. ASSUME NEW user \in Users, ChangeOwner(actor, user, t)
      PROVE  /\ dialog' \in Group /\ CountsChange(dialog, dialog')
             /\ UNCHANGED <<history, receipts>>
  <2>1. PICK c \in Group : c = [g EXCEPT !.owner = user]
    BY DEF Group
  <2>2. Become(HandoverError(g, actor, user, t), c, t)
    BY <1>0, <1>5, <2>1 DEF ChangeOwner
  <2>3. /\ c.version = g.version /\ c.updatedAt = g.updatedAt
        /\ c # g => user # g.owner
    BY <2>1 DEF Group
  <2>4. HandoverError(g, actor, user, t) = Ok /\ c # g => t >= g.updatedAt
    BY <1>t, <2>3 DEF HandoverError, Ok
  <2>. QED  BY <1>1, <2>2, <2>3, <2>4
<1>6. ASSUME NEW raw \in RawTitles, Rename(actor, raw, t)
      PROVE  /\ dialog' \in Group /\ CountsChange(dialog, dialog')
             /\ UNCHANGED <<history, receipts>>
  <2>1. NormalTitle[raw] \in Titles  BY <1>6, HistoryAssumption DEF Rename
  <2>2. PICK c \in Group : c = [g EXCEPT !.title = NormalTitle[raw]]
    BY <2>1 DEF Group
  <2>3. Become(ProfileError(g, c, actor, t), c, t)
    BY <1>0, <1>6, <2>2 DEF Rename
  <2>4. c.version = g.version /\ c.updatedAt = g.updatedAt  BY <2>2 DEF Group
  <2>5. ProfileError(g, c, actor, t) = Ok /\ c # g => t >= g.updatedAt
    BY <1>t DEF ProfileError, Ok
  <2>. QED  BY <1>1, <2>3, <2>4, <2>5
<1>7. ASSUME NEW avatar \in Avatars \cup {None}, SetAvatar(actor, avatar, t)
      PROVE  /\ dialog' \in Group /\ CountsChange(dialog, dialog')
             /\ UNCHANGED <<history, receipts>>
  <2>1. PICK c \in Group : c = [g EXCEPT !.avatar = avatar]
    BY DEF Group
  <2>2. Become(ProfileError(g, c, actor, t), c, t)
    BY <1>0, <1>7, <2>1 DEF SetAvatar
  <2>3. c.version = g.version /\ c.updatedAt = g.updatedAt  BY <2>1 DEF Group
  <2>4. ProfileError(g, c, actor, t) = Ok /\ c # g => t >= g.updatedAt
    BY <1>t DEF ProfileError, Ok
  <2>. QED  BY <1>1, <2>2, <2>3, <2>4
<1>. QED  BY <1>0, <1>2, <1>3, <1>4, <1>5, <1>6, <1>7

------------------------------------------------------------------------------
(* Messages *)

\* What passes for content leaves something to show.
LEMMA ContentAccepted ==
    ASSUME NEW raw \in RawTexts \cup {None}, NEW files \in Seq(Avatars),
           ContentError(TextOf(raw), files) = Ok
    PROVE  /\ TextOf(raw) \in Texts \cup {None}
           /\ TextOf(raw) \in Texts \/ files # <<>>
<1>1. PICK text : text = TextOf(raw)  OBVIOUS
<1>2. text \in Texts \cup {None, Invalid}
  BY <1>1, HistoryAssumption DEF TextOf
<1>3. text # Invalid /\ (text # None \/ files # <<>>)
  BY <1>1 DEF ContentError, Ok
<1>. QED  BY <1>1, <1>2, <1>3

LEMMA PostEffect ==
    ASSUME HistoryInv, NEW actor \in Users, NEW raw \in RawTexts \cup {None},
           NEW files \in FileLists, NEW t \in Clock, Post(actor, raw, files, t)
    PROVE  \E m \in Posting :
             /\ history' = Append(history, m) /\ MessageOK(m, Len(history) + 1)
             /\ m.sender \in dialog.members
             /\ UNCHANGED <<dialog, receipts>>
<1>1. files \in Seq(Avatars)  BY HistoryAssumption
<1>2. /\ TextOf(raw) \in Texts \cup {None}
      /\ TextOf(raw) \in Texts \/ files # <<>>
  BY <1>1, ContentAccepted DEF Post
<1>3. PICK content \in Parts : content = [text |-> TextOf(raw), attachments |-> files]
  BY <1>1, <1>2 DEF Parts
<1>4. Len(history) + 1 \in Nat  BY DEF HistoryInv, MessagesOK
<1>5. PICK m : m = [sender |-> actor, position |-> Len(history) + 1, content |-> content,
                    createdAt |-> t, updatedAt |-> None, version |-> 1]
  OBVIOUS
<1>6. m \in Posting  BY <1>4, <1>5 DEF Posting
<1>7. /\ m.position = Len(history) + 1 /\ m.content = content /\ m.updatedAt = None
      /\ m.version = 1 /\ m.sender = actor
  BY <1>5
<1>8. Shows(m)  BY <1>2, <1>3, <1>7 DEF Shows
<1>9. MessageOK(m, Len(history) + 1)
  BY <1>6, <1>7, <1>8 DEF MessageOK, IsEdited
<1>. QED  BY <1>3, <1>5, <1>6, <1>7, <1>9 DEF Post, Participates

\* An edit either changes nothing or the text alone, and then counts.
SameIdentity(m, n) == /\ m.sender = n.sender /\ m.position = n.position
                      /\ m.createdAt = n.createdAt
                      /\ m.content.attachments = n.content.attachments

LEMMA EditEffect ==
    ASSUME HistoryInv, NEW i \in DOMAIN history, NEW actor \in Users,
           NEW raw \in RawTexts \cup {None}, NEW t \in Clock, EditText(i, actor, raw, t)
    PROVE  \E m \in Posting :
             /\ history' = [history EXCEPT ![i] = m] /\ MessageOK(m, i)
             /\ SameIdentity(m, history[i]) /\ CountsChange(history[i], m)
             /\ m = history[i] \/ IsEdited(m)
             /\ UNCHANGED <<dialog, receipts>>
<1>1. PICK h \in Posting : h = history[i]  BY DEF HistoryInv, MessagesOK
<1>2. MessageOK(h, i)  BY <1>1 DEF HistoryInv, MessagesOK
<1>3. PICK text : text = TextOf(raw)  OBVIOUS
<1>4. PICK content : content = [h.content EXCEPT !.text = text]  OBVIOUS
<1>5. PICK edited : edited = [h EXCEPT !.content = content]  OBVIOUS
<1>6. edited = [history[i] EXCEPT !.content.text = TextOf(raw)]
  BY <1>1, <1>3, <1>4, <1>5
<1>7. /\ ContentError(edited.content.text, edited.content.attachments) = Ok
      /\ edited # h => EditTimeError(h, t) = Ok
      /\ history' = [history EXCEPT ![i] = Applied(h, edited, t)]
      /\ UNCHANGED <<dialog, receipts>>
  BY <1>1, <1>6 DEF EditText
<1>8. content.text = text /\ content.attachments = h.content.attachments
  BY <1>4 DEF Posting, Parts
<1>9. edited.content = content  BY <1>5 DEF Posting
<1>10. text \in Texts \cup {None} /\ (text \in Texts \/ content.attachments # <<>>)
  BY <1>3, <1>7, <1>8, <1>9, ContentAccepted DEF Posting, Parts
<1>11. content \in Parts  BY <1>4, <1>10 DEF Posting, Parts
<1>12. edited \in Posting  BY <1>5, <1>11 DEF Posting
<1>13. CASE edited = h
  BY <1>1, <1>2, <1>7, <1>13 DEF Applied, CountsChange, SameIdentity
<1>14. CASE edited # h
  <2>1. PICK v \in Nat \ {0} : v = edited.version + 1  BY <1>12 DEF Posting
  <2>2. PICK m : m = [edited EXCEPT !.version = v, !.updatedAt = t]  OBVIOUS
  <2>3. Applied(h, edited, t) = m  BY <1>14, <2>1, <2>2 DEF Applied, Touched
  <2>4. m \in Posting  BY <1>12, <2>2 DEF Posting
  <2>5. /\ m.content = content /\ m.version = v /\ m.updatedAt = t
        /\ m.sender = h.sender /\ m.position = h.position /\ m.createdAt = h.createdAt
    BY <1>5, <1>9, <1>12, <2>2 DEF Posting
  <2>6. edited.version = h.version  BY <1>5 DEF Posting
  <2>7. v = h.version + 1 /\ v > 1  BY <2>1, <2>6 DEF Posting
  <2>8. content # h.content  BY <1>5, <1>14 DEF Posting
  <2>9. Unstamped(m) # Unstamped(h)
    <3>1. PICK um : um = Unstamped(m)  OBVIOUS
    <3>2. PICK uh : uh = Unstamped(h)  OBVIOUS
    <3>3. um.content = content  BY <2>4, <2>5, <3>1 DEF Unstamped, Posting
    <3>4. uh.content = h.content  BY <3>2 DEF Unstamped, Posting
    <3>. QED  BY <2>8, <3>1, <3>2, <3>3, <3>4
  <2>10. h.updatedAt # None => t >= h.updatedAt
    <3>1. t \in Nat /\ (h.updatedAt # None => h.updatedAt \in Nat)
      BY GroupDomainAssumption DEF Posting
    <3>. QED  BY <1>7, <1>14, <3>1 DEF EditTimeError, Ok
  <2>11. CountsChange(h, m)  BY <2>5, <2>7, <2>9, <2>10 DEF CountsChange
  <2>12. Shows(m)  BY <1>8, <1>10, <2>5 DEF Shows
  <2>13. t # None  BY HistoryAssumption
  <2>14. IsEdited(m)  BY <2>5, <2>7 DEF IsEdited
  <2>15. MessageOK(m, i)  BY <1>2, <2>4, <2>5, <2>12, <2>13, <2>14 DEF MessageOK
  <2>16. SameIdentity(m, h)  BY <1>8, <2>5 DEF SameIdentity
  <2>. QED  BY <1>1, <1>7, <2>3, <2>4, <2>11, <2>14, <2>15, <2>16
<1>. QED  BY <1>13, <1>14

------------------------------------------------------------------------------
(* Receipts *)

LEMMA CheckpointFields ==
    ASSUME MessagesOK, NEW i \in DOMAIN history
    PROVE  /\ CheckpointAt(i) \in Boundary
           /\ CheckpointAt(i).position = i /\ CheckpointAt(i).message = i
           /\ i \in Nat \ {0}
<1>1. history[i].position = i /\ i \in Nat \ {0}  BY DEF MessagesOK, MessageOK
<1>2. PICK cp : cp = CheckpointAt(i)  OBVIOUS
<1>3. cp = [position |-> i, message |-> i]  BY <1>1, <1>2 DEF CheckpointAt, CheckpointOf
<1>. QED  BY <1>1, <1>2, <1>3 DEF Boundary

\* What moving a boundary makes of a watermark.
LEMMA AdvancedWatermark ==
    ASSUME NEW w \in Watermark, NEW kind \in {"delivered", "read"}, NEW cp \in Boundary,
           NEW t \in Nat, AckChanges(w, kind, cp), Covers(w.delivered, w.read),
           t >= w.updatedAt
    PROVE  \E a \in Watermark :
             /\ a = Advanced(w, kind, cp, t)
             /\ a.id = w.id /\ CountsChange(w, a)
             /\ a.delivered \in {w.delivered, cp} /\ a.read \in {w.read, cp}
             /\ Covers(a.delivered, w.delivered) /\ Covers(a.read, w.read)
             /\ Covers(a.delivered, a.read)
<1>1. PICK v \in Nat \ {0} : v = w.version + 1  BY DEF Watermark
<1>2. PICK d \in Boundary :
        d = IF kind = "read" /\ Covers(w.delivered, cp) THEN w.delivered ELSE cp
  BY DEF Watermark
<1>3. PICK r \in Boundary : r = IF kind = "read" THEN cp ELSE w.read
  BY DEF Watermark
<1>4. PICK a : a = [w EXCEPT !.read = r, !.delivered = d, !.version = v, !.updatedAt = t]
  OBVIOUS
<1>5. a \in Watermark  BY <1>4 DEF Watermark
<1>6. /\ a.id = w.id /\ a.read = r /\ a.delivered = d /\ a.version = v /\ a.updatedAt = t
  BY <1>4 DEF Watermark
<1>7. a = Advanced(w, kind, cp, t)
  <2>1. PICK b : b = [w EXCEPT !.read = r, !.delivered = d]  OBVIOUS
  <2>2. b \in Watermark /\ b.version = w.version  BY <2>1 DEF Watermark
  <2>3. a = Touched(b, t)
    BY <1>1, <1>4, <2>1, <2>2 DEF Touched, Watermark
  <2>4. CASE kind = "read"
    BY <1>2, <1>3, <2>1, <2>3, <2>4 DEF Advanced
  <2>5. CASE kind = "delivered"
    <3>1. b = [w EXCEPT !.delivered = cp]
      BY <1>2, <1>3, <2>1, <2>5 DEF Watermark
    <3>. QED  BY <2>3, <2>5, <3>1 DEF Advanced
  <2>. QED  BY <2>4, <2>5
<1>8. /\ cp.position \in Nat /\ w.delivered.position \in Nat /\ w.read.position \in Nat
  BY DEF Watermark, Boundary
<1>9. /\ Covers(d, w.delivered) /\ Covers(r, w.read) /\ Covers(d, r)
      /\ d # w.delivered \/ r # w.read
  BY <1>2, <1>3, <1>8 DEF AckChanges, Covers
<1>10. Unstamped(a) # Unstamped(w)
  <2>1. PICK ua : ua = Unstamped(a)  OBVIOUS
  <2>2. PICK uw : uw = Unstamped(w)  OBVIOUS
  <2>3. ua.delivered = d /\ ua.read = r
    BY <1>5, <1>6, <2>1 DEF Unstamped, Watermark
  <2>4. uw.delivered = w.delivered /\ uw.read = w.read
    BY <2>2 DEF Unstamped, Watermark
  <2>. QED  BY <1>9, <2>1, <2>2, <2>3, <2>4
<1>11. CountsChange(w, a)  BY <1>1, <1>6, <1>10 DEF CountsChange
<1>12. d \in {w.delivered, cp} /\ r \in {w.read, cp}  BY <1>2, <1>3
<1>. QED  BY <1>5, <1>6, <1>7, <1>9, <1>11, <1>12

\* A watermark to be advanced is stored, or it is empty.
LEMMA WatermarkToAdvance ==
    ASSUME HistoryInv, NEW u \in Users, NEW t \in Clock
    PROVE  LET w == WatermarkOf(u, t) IN
           /\ w \in Watermark /\ Covers(w.delivered, w.read)
           /\ BoundaryOK(u, w.delivered) /\ BoundaryOK(u, w.read)
           /\ receipts[u] # None => w = receipts[u]
           /\ receipts[u] = None => w.updatedAt = t
<1>1. CASE receipts[u] # None
  BY <1>1 DEF HistoryInv, ReceiptsOK, WatermarkOK, WatermarkOf
<1>2. CASE receipts[u] = None
  <2>1. PICK none \in Boundary : none = NoCheckpoint  BY DEF Boundary, NoCheckpoint
  <2>2. PICK w : w = [id |-> u, delivered |-> none, read |-> none, version |-> 1,
                      updatedAt |-> t]
    OBVIOUS
  <2>3. WatermarkOf(u, t) = w  BY <1>2, <2>1, <2>2 DEF WatermarkOf, EmptyReceipt
  <2>4. /\ w \in Watermark /\ w.delivered = none /\ w.read = none /\ w.updatedAt = t
    BY <2>2, GroupDomainAssumption DEF Watermark
  <2>5. Covers(none, none)  BY DEF Boundary, Covers
  <2>. QED  BY <1>2, <2>1, <2>3, <2>4, <2>5 DEF BoundaryOK
<1>. QED  BY <1>1, <1>2

\* The status of what a watermark covers never falls.
Later(w, v) == Covers(v.delivered, w.delivered) /\ Covers(v.read, w.read)

LEMMA AckEffect ==
    ASSUME HistoryInv, NEW i \in DOMAIN history, NEW u \in Users,
           NEW kind \in {"delivered", "read"}, NEW t \in Clock, Acknowledge(i, u, kind, t)
    PROVE  /\ UNCHANGED <<dialog, history>>
           /\ \/ receipts' = receipts
              \/ \E a \in Watermark :
                   /\ receipts' = [receipts EXCEPT ![u] = a] /\ WatermarkOK(u, a)
                   /\ receipts[u] # None =>
                        Later(receipts[u], a) /\ CountsChange(receipts[u], a)
<1>1. PICK w : w = WatermarkOf(u, t)  OBVIOUS
<1>2. PICK cp : cp = CheckpointAt(i)  OBVIOUS
<1>3. /\ cp \in Boundary /\ cp.position = i /\ cp.message = i
  BY <1>2, CheckpointFields DEF HistoryInv
<1>4. /\ w \in Watermark /\ Covers(w.delivered, w.read)
      /\ BoundaryOK(u, w.delivered) /\ BoundaryOK(u, w.read)
      /\ receipts[u] # None => w = receipts[u]
      /\ receipts[u] = None => w.updatedAt = t
  BY <1>1, WatermarkToAdvance
<1>5. /\ AcknowledgeError(w, u, kind, i, t) = Ok
      /\ receipts' = IF AckChanges(w, kind, cp)
                     THEN [receipts EXCEPT ![u] = Advanced(w, kind, cp, t)]
                     ELSE receipts
      /\ UNCHANGED <<dialog, history>>
  BY <1>1, <1>2 DEF Acknowledge
<1>6. CASE ~AckChanges(w, kind, cp)  BY <1>5, <1>6
<1>7. CASE AckChanges(w, kind, cp)
  <2>1. /\ SupportsReceipts /\ history[i].sender # u
        /\ BoundaryError(w, kind, cp, t) = Ok
    BY <1>2, <1>5 DEF AcknowledgeError, Ok
  <2>2. t \in Nat /\ w.updatedAt \in Nat  BY <1>4, GroupDomainAssumption DEF Watermark
  <2>3. t >= w.updatedAt  BY <1>7, <2>1, <2>2 DEF BoundaryError, Ok
  <2>4. PICK a \in Watermark :
          /\ a = Advanced(w, kind, cp, t)
          /\ a.id = w.id /\ CountsChange(w, a)
          /\ a.delivered \in {w.delivered, cp} /\ a.read \in {w.read, cp}
          /\ Covers(a.delivered, w.delivered) /\ Covers(a.read, w.read)
          /\ Covers(a.delivered, a.read)
    BY <1>3, <1>4, <1>7, <2>2, <2>3, AdvancedWatermark
  <2>5. BoundaryOK(u, cp)  BY <1>3, <2>1 DEF BoundaryOK
  <2>6. WatermarkOK(u, a)  BY <1>4, <2>1, <2>4, <2>5 DEF WatermarkOK
  <2>. QED  BY <1>4, <1>5, <1>7, <2>4, <2>6 DEF Later
<1>. QED  BY <1>6, <1>7

------------------------------------------------------------------------------
(* The invariant, and what no step may take back *)

MessagesKept == \A i \in DOMAIN history :
    /\ i \in DOMAIN history'
    /\ SameIdentity(history'[i], history[i]) /\ CountsChange(history[i], history'[i])
    /\ history'[i] = history[i] \/ IsEdited(history'[i])

ReceiptsKept == \A u \in Users :
    receipts[u] # None =>
      /\ receipts'[u] # None /\ Later(receipts[u], receipts'[u])
      /\ CountsChange(receipts[u], receipts'[u])

DialogKept == /\ dialog'.kind = dialog.kind
              /\ IF IsGroup THEN CountsChange(dialog, dialog') ELSE dialog' = dialog

Kept == MessagesKept /\ ReceiptsKept /\ DialogKept

LEMMA Unchanging ==
    ASSUME HistoryInv
    PROVE  /\ UNCHANGED history => MessagesKept
           /\ UNCHANGED receipts => ReceiptsKept
           /\ UNCHANGED dialog => DialogKept
<1>1. UNCHANGED history => MessagesKept  BY DEF MessagesKept, SameIdentity, CountsChange
<1>2. UNCHANGED dialog => DialogKept  BY DEF DialogKept, CountsChange
<1>3. \A w \in Watermark : Later(w, w)  BY DEF Later, Covers, Watermark, Boundary
<1>4. UNCHANGED receipts => ReceiptsKept
  BY <1>3 DEF ReceiptsKept, CountsChange, HistoryInv, ReceiptsOK
<1>. QED  BY <1>1, <1>2, <1>4

\* A boundary stays grounded as long as the messages keep their authors.
LEMMA ReceiptsStay ==
    ASSUME HistoryInv, UNCHANGED receipts, MessagesKept, DialogKept
    PROVE  ReceiptsOK'
<1>1. ASSUME NEW u \in Users, NEW cp, BoundaryOK(u, cp) PROVE BoundaryOK(u, cp)'
  BY <1>1 DEF BoundaryOK, MessagesKept, SameIdentity
<1>2. SupportsReceipts' = SupportsReceipts  BY DEF SupportsReceipts, DialogKept
<1>3. ASSUME NEW u \in Users, NEW w, WatermarkOK(u, w) PROVE WatermarkOK(u, w)'
  BY <1>1, <1>2, <1>3 DEF WatermarkOK
<1>. QED  BY <1>3 DEF HistoryInv, ReceiptsOK

LEMMA PostStep ==
    ASSUME HistoryInv, NEW actor \in Users, NEW raw \in RawTexts \cup {None},
           NEW files \in FileLists, NEW t \in Clock, Post(actor, raw, files, t)
    PROVE  HistoryInv' /\ Kept
<1>1. PICK m \in Posting :
        /\ history' = Append(history, m) /\ MessageOK(m, Len(history) + 1)
        /\ m.sender \in dialog.members /\ UNCHANGED <<dialog, receipts>>
  BY PostEffect
<1>2. /\ history \in Seq(Posting) /\ history' \in Seq(Posting)
      /\ DOMAIN history' = DOMAIN history \cup {Len(history) + 1}
      /\ history'[Len(history) + 1] = m
      /\ \A i \in DOMAIN history : history'[i] = history[i]
  BY <1>1 DEF HistoryInv, MessagesOK
<1>3. MessagesKept  BY <1>2 DEF MessagesKept, SameIdentity, CountsChange
<1>4. MessagesOK'
  BY <1>1, <1>2 DEF HistoryInv, MessagesOK, IsGroup
<1>5. DialogKept /\ ReceiptsKept  BY <1>1, Unchanging
<1>6. ReceiptsOK'  BY <1>1, <1>3, <1>5, ReceiptsStay
<1>7. DialogOK'  BY <1>1 DEF HistoryInv, DialogOK
<1>. QED  BY <1>3, <1>4, <1>5, <1>6, <1>7 DEF HistoryInv, Kept

LEMMA EditStep ==
    ASSUME HistoryInv, NEW i \in DOMAIN history, NEW actor \in Users,
           NEW raw \in RawTexts \cup {None}, NEW t \in Clock, EditText(i, actor, raw, t)
    PROVE  HistoryInv' /\ Kept
<1>1. PICK m \in Posting :
        /\ history' = [history EXCEPT ![i] = m] /\ MessageOK(m, i)
        /\ SameIdentity(m, history[i]) /\ CountsChange(history[i], m)
        /\ m = history[i] \/ IsEdited(m)
        /\ UNCHANGED <<dialog, receipts>>
  BY EditEffect
<1>2. /\ history \in Seq(Posting) /\ history' \in Seq(Posting)
      /\ DOMAIN history' = DOMAIN history /\ history'[i] = m
      /\ \A j \in DOMAIN history : j # i => history'[j] = history[j]
  BY <1>1 DEF HistoryInv, MessagesOK
<1>3. MessagesKept  BY <1>1, <1>2 DEF MessagesKept, SameIdentity, CountsChange
<1>4. MessagesOK'
  BY <1>1, <1>2 DEF HistoryInv, MessagesOK, IsGroup, SameIdentity
<1>5. DialogKept /\ ReceiptsKept  BY <1>1, Unchanging
<1>6. ReceiptsOK'  BY <1>1, <1>3, <1>5, ReceiptsStay
<1>7. DialogOK'  BY <1>1 DEF HistoryInv, DialogOK
<1>. QED  BY <1>3, <1>4, <1>5, <1>6, <1>7 DEF HistoryInv, Kept

LEMMA AckStep ==
    ASSUME HistoryInv, NEW i \in DOMAIN history, NEW u \in Users,
           NEW kind \in {"delivered", "read"}, NEW t \in Clock, Acknowledge(i, u, kind, t)
    PROVE  HistoryInv' /\ Kept
<1>1. /\ UNCHANGED <<dialog, history>>
      /\ \/ receipts' = receipts
         \/ \E a \in Watermark :
              /\ receipts' = [receipts EXCEPT ![u] = a] /\ WatermarkOK(u, a)
              /\ receipts[u] # None =>
                   Later(receipts[u], a) /\ CountsChange(receipts[u], a)
  BY AckEffect
<1>2. DialogOK' /\ MessagesOK' /\ MessagesKept /\ DialogKept
  BY <1>1, Unchanging DEF HistoryInv, DialogOK, MessagesOK, IsGroup
<1>3. CASE receipts' = receipts
  BY <1>2, <1>3, ReceiptsStay, Unchanging DEF HistoryInv, Kept
<1>4. CASE receipts' # receipts
  <2>1. PICK a \in Watermark :
          /\ receipts' = [receipts EXCEPT ![u] = a] /\ WatermarkOK(u, a)
          /\ receipts[u] # None =>
               Later(receipts[u], a) /\ CountsChange(receipts[u], a)
    BY <1>1, <1>4
  <2>2. a # None  BY HistoryAssumption
  <2>3. \A w \in Watermark : Later(w, w)  BY DEF Later, Covers, Watermark, Boundary
  <2>4. ReceiptsKept
    BY <2>1, <2>2, <2>3 DEF ReceiptsKept, CountsChange, HistoryInv, ReceiptsOK
  <2>5. ASSUME NEW v \in Users, NEW w, WatermarkOK(v, w) PROVE WatermarkOK(v, w)'
    BY <1>1, <2>5 DEF WatermarkOK, BoundaryOK, SupportsReceipts
  <2>6. ReceiptsOK'
    BY <2>1, <2>5 DEF HistoryInv, ReceiptsOK
  <2>. QED  BY <1>2, <2>4, <2>6 DEF HistoryInv, Kept
<1>. QED  BY <1>3, <1>4

LEMMA HistoryStep == HistoryInv /\ [Next]_vars => HistoryInv' /\ Kept
<1>. SUFFICES ASSUME HistoryInv, [Next]_vars PROVE HistoryInv' /\ Kept
  OBVIOUS
<1>1. CASE MessageOperation
  BY <1>1, PostStep, EditStep, AckStep DEF MessageOperation
<1>2. CASE GroupOperation
  <2>1. /\ dialog \in Group /\ dialog' \in Group
        /\ CountsChange(dialog, dialog') /\ UNCHANGED <<history, receipts>>
    BY <1>2, GroupStep
  <2>2. dialog.kind = "group" /\ dialog'.kind = "group"  BY <2>1 DEF Group
  <2>3. DialogOK' /\ DialogKept
    BY <2>1, <2>2 DEF DialogOK, DialogKept, IsGroup
  <2>4. MessagesKept /\ ReceiptsKept  BY <2>1, Unchanging
  <2>5. ReceiptsOK'  BY <2>1, <2>3, <2>4, ReceiptsStay
  <2>6. MessagesOK'  BY <2>1, <2>2 DEF HistoryInv, MessagesOK, IsGroup
  <2>. QED  BY <2>3, <2>4, <2>5, <2>6 DEF HistoryInv, Kept
<1>3. CASE UNCHANGED vars
  <2>1. UNCHANGED <<dialog, history, receipts>>  BY <1>3 DEF vars
  <2>2. Kept  BY <2>1, Unchanging DEF Kept
  <2>3. DialogOK' /\ MessagesOK'
    BY <2>1 DEF HistoryInv, DialogOK, MessagesOK, IsGroup
  <2>. QED  BY <2>1, <2>2, <2>3, ReceiptsStay DEF HistoryInv, Kept
<1>. QED  BY <1>1, <1>2, <1>3 DEF Next

LEMMA InitHistory == Init => HistoryInv
<1>. SUFFICES ASSUME Init PROVE HistoryInv  OBVIOUS
<1>1. DialogOK
  <2>1. PICK d \in StartDialogs : d = dialog  BY DEF Init
  <2>2. CASE \E a, b \in Users : a # b /\ d = Immutable("direct", {a, b})
    BY <2>1, <2>2 DEF DialogOK, Immutable, ImmutableDialog
  <2>3. CASE \E a \in Users : d = Immutable("saved", {a})
    BY <2>1, <2>3 DEF DialogOK, Immutable, ImmutableDialog
  <2>4. ASSUME NEW title \in Titles, NEW owner \in Users, NEW members \in SUBSET Users,
               NEW avatar \in Avatars \cup {None}, d = NewGroup(title, owner, members, avatar)
        PROVE  DialogOK
    <3>1. d \in Group /\ d.kind = "group"
      BY <2>4, GroupDomainAssumption DEF NewGroup, Group
    <3>. QED  BY <2>1, <3>1 DEF DialogOK
  <2>5. \/ \E a, b \in Users : a # b /\ d = Immutable("direct", {a, b})
        \/ \E a \in Users : d = Immutable("saved", {a})
        \/ \E title \in Titles, owner \in Users, members \in SUBSET Users,
              avatar \in Avatars \cup {None} :
             d = NewGroup(title, owner, members, avatar)
    BY ONLY HistoryAssumption, d \in StartDialogs
  <2>. QED  BY ONLY <2>2, <2>3, <2>4, <2>5
<1>2. MessagesOK /\ ReceiptsOK  BY DEF Init, MessagesOK, ReceiptsOK
<1>. QED  BY <1>1, <1>2 DEF HistoryInv

LEMMA HistoryInvariant == Spec => []HistoryInv
  BY InitHistory, HistoryStep, PTL DEF Spec

------------------------------------------------------------------------------
(* The theorems *)

\* Receipts tell of their users' own ACKs, of messages of others that are still there.
THEOREM GroundedCorrect == Spec => []StatusGrounded
<1>1. ASSUME HistoryInv, NEW u \in Users, receipts[u] # None
      PROVE  LET w == receipts[u] IN
             /\ dialog.kind # "saved" /\ Covers(w.delivered, w.read)
             /\ \A cp \in {w.read, w.delivered} \ {NoCheckpoint} :
                  /\ cp.message \in DOMAIN history
                  /\ CheckpointAt(cp.message) = cp
                  /\ history[cp.message].sender # u
  <2>1. WatermarkOK(u, receipts[u])  BY <1>1 DEF HistoryInv, ReceiptsOK
  <2>2. ASSUME NEW cp \in Boundary, BoundaryOK(u, cp), cp # NoCheckpoint
        PROVE  /\ cp.message \in DOMAIN history
               /\ CheckpointAt(cp.message) = cp
               /\ history[cp.message].sender # u
    <3>1. cp.message \in DOMAIN history /\ cp.position = cp.message
      BY <2>2 DEF BoundaryOK
    <3>2. PICK c \in Boundary : c = CheckpointAt(cp.message)
      BY <1>1, <3>1, CheckpointFields DEF HistoryInv
    <3>3. c.position = cp.message /\ c.message = cp.message
      BY <1>1, <3>1, <3>2, CheckpointFields DEF HistoryInv
    <3>4. c = cp  BY <3>1, <3>3 DEF Boundary
    <3>. QED  BY <2>2, <3>1, <3>2, <3>4 DEF BoundaryOK
  <2>. QED  BY <2>1, <2>2 DEF WatermarkOK, SupportsReceipts, Watermark
<1>2. HistoryInv => StatusGrounded  BY <1>1 DEF StatusGrounded
<1>. QED  BY <1>2, HistoryInvariant, PTL

\* No history of legal calls leaves a participant unable to acknowledge.
THEOREM AcksCorrect == Spec => []AcksNeverStuck
<1>1. ASSUME HistoryInv, NEW i \in DOMAIN history, NEW u \in dialog.members,
             NEW kind \in {"delivered", "read"}, history[i].sender # u, NEW t \in Clock,
             t >= WatermarkOf(u, t).updatedAt
      PROVE  AcknowledgeError(WatermarkOf(u, t), u, kind, i, t) = Ok
  <2>0. u \in Users
    BY <1>1 DEF HistoryInv, DialogOK, ImmutableDialog, Group
  <2>1. PICK w : w = WatermarkOf(u, t)  OBVIOUS
  <2>2. /\ w \in Watermark /\ BoundaryOK(u, w.delivered) /\ BoundaryOK(u, w.read)
    BY <1>1, <2>0, <2>1, WatermarkToAdvance
  <2>3. PICK cp : cp = CheckpointAt(i)  OBVIOUS
  <2>4. /\ cp.position = i /\ cp.message = i /\ i \in Nat \ {0}
    BY <1>1, <2>3, CheckpointFields DEF HistoryInv
  <2>5. ~IsGroup => history[i].sender \in dialog.members
    BY <1>1 DEF HistoryInv, MessagesOK
  <2>6. SupportsReceipts
    BY <1>1, <2>5 DEF SupportsReceipts, IsGroup, HistoryInv, DialogOK
  <2>7. Accessible(history[i].sender, u)
    BY <2>5 DEF Accessible, Participates
  <2>8. ~Mismatch(w.read, cp) /\ ~Mismatch(w.delivered, cp)
    BY <2>2, <2>4 DEF BoundaryOK, Mismatch, NoCheckpoint
  <2>9. ~(t < w.updatedAt)
    BY <1>1, <2>1, <2>2, GroupDomainAssumption DEF Watermark
  <2>10. BoundaryError(w, kind, cp, t) = Ok  BY <2>8, <2>9 DEF BoundaryError
  <2>. QED  BY <1>1, <2>1, <2>3, <2>6, <2>7, <2>10 DEF AcknowledgeError
<1>2. HistoryInv => AcksNeverStuck  BY <1>1 DEF AcksNeverStuck
<1>. QED  BY <1>2, HistoryInvariant, PTL

\* What a user has received or read is never shown as less again.
THEOREM StatusCorrect == Spec => StatusNeverGoesBack
<1>1. ASSUME HistoryInv, HistoryInv', Kept, NEW i \in DOMAIN history, NEW u \in Users
      PROVE  Rank[Status(i, u)'] >= Rank[Status(i, u)]
  <2>1. PICK cp : cp = CheckpointAt(i)  OBVIOUS
  <2>2. cp.position = i /\ i \in Nat
    BY <1>1, <2>1, CheckpointFields DEF HistoryInv
  <2>3. CheckpointAt(i)' = cp
    BY <1>1, <2>1 DEF Kept, MessagesKept, SameIdentity, CheckpointAt, CheckpointOf
  <2>4. SupportsReceipts' = SupportsReceipts
    BY <1>1 DEF SupportsReceipts, Kept, DialogKept
  <2>5. PICK w : w = receipts[u]  OBVIOUS
  <2>6. PICK v : v = receipts'[u]  OBVIOUS
  <2>7. /\ Status(i, u) = IF ~SupportsReceipts THEN "SENT" ELSE DeliveryStatus(w, cp)
        /\ Status(i, u)' = IF ~SupportsReceipts THEN "SENT" ELSE DeliveryStatus(v, cp)
    BY <2>1, <2>3, <2>4, <2>5, <2>6 DEF Status
  <2>8. w # None => /\ v # None /\ Later(w, v) /\ w \in Watermark /\ v \in Watermark
    BY <1>1, <2>5, <2>6 DEF Kept, ReceiptsKept, HistoryInv, ReceiptsOK
  <2>9. w # None => /\ Covers(w.read, cp) => Covers(v.read, cp)
                    /\ Covers(w.delivered, cp) => Covers(v.delivered, cp)
    BY <2>2, <2>8 DEF Later, Covers, Watermark, Boundary
  <2>10. PICK a : a = Status(i, u)  OBVIOUS
  <2>11. PICK b : b = Status(i, u)'  OBVIOUS
  <2>12. /\ a \in {"SENT", "DELIVERED", "READ"} /\ b \in {"SENT", "DELIVERED", "READ"}
         /\ a = "READ" => b = "READ"
         /\ a = "DELIVERED" => b \in {"DELIVERED", "READ"}
    BY <2>7, <2>8, <2>9, <2>10, <2>11 DEF DeliveryStatus
  <2>13. Rank["SENT"] = 0 /\ Rank["DELIVERED"] = 1 /\ Rank["READ"] = 2  BY DEF Rank
  <2>. QED  BY <2>10, <2>11, <2>12, <2>13
<1>2. HistoryInv /\ HistoryInv' /\ [Next]_vars =>
        [\A i \in DOMAIN history : \A u \in Recipients(i) \cap Recipients(i)' :
           Rank[Status(i, u)'] >= Rank[Status(i, u)]]_vars
  BY <1>1, HistoryStep DEF Recipients
<1>. QED  BY <1>2, HistoryInvariant, PTL DEF Spec, StatusNeverGoesBack

\* No message is lost, moved or given another identity, and it says whether it was edited.
THEOREM IdentityCorrect == Spec => MessagesKeepIdentity
<1>1. ASSUME HistoryInv', Kept, NEW i \in DOMAIN history
      PROVE  /\ i \in DOMAIN history'
             /\ history'[i].sender = history[i].sender
             /\ history'[i].createdAt = history[i].createdAt
             /\ history'[i].content.attachments = history[i].content.attachments
             /\ history'[i].content.text \in Texts \/ history'[i].content.attachments # <<>>
             /\ ~IsEdited(history'[i]) => history'[i] = history[i]
             /\ IsEdited(history'[i]) <=> history'[i].updatedAt # None
  <2>1. /\ i \in DOMAIN history' /\ SameIdentity(history'[i], history[i])
        /\ history'[i] = history[i] \/ IsEdited(history'[i])
    BY <1>1 DEF Kept, MessagesKept
  <2>2. MessageOK(history'[i], i)  BY <1>1, <2>1 DEF HistoryInv, MessagesOK
  <2>. QED  BY <2>1, <2>2 DEF MessageOK, Shows, SameIdentity
<1>2. HistoryInv /\ [Next]_vars =>
        [\A i \in DOMAIN history :
          /\ i \in DOMAIN history'
          /\ history'[i].sender = history[i].sender
          /\ history'[i].createdAt = history[i].createdAt
          /\ history'[i].content.attachments = history[i].content.attachments
          /\ history'[i].content.text \in Texts \/ history'[i].content.attachments # <<>>
          /\ ~IsEdited(history'[i]) => history'[i] = history[i]
          /\ IsEdited(history'[i]) <=> history'[i].updatedAt # None]_vars
  BY <1>1, HistoryStep
<1>. QED  BY <1>2, HistoryInvariant, PTL DEF Spec, MessagesKeepIdentity

\* The version of every aggregate counts its real changes.
THEOREM VersionsCorrect == Spec => VersionsCountChanges
<1>1. HistoryInv /\ [Next]_vars =>
        [/\ IsGroup => CountsChange(dialog, dialog')
         /\ \A i \in DOMAIN history : CountsChange(history[i], history'[i])
         /\ \A u \in Users :
              receipts[u] # None => CountsChange(receipts[u], receipts'[u])]_vars
  BY HistoryStep DEF Kept, MessagesKept, ReceiptsKept, DialogKept
<1>. QED  BY <1>1, HistoryInvariant, PTL DEF Spec, VersionsCountChanges
==============================================================================
