------------------------- MODULE GroupCommandsProofs --------------------------
(***************************************************************************)
(* Proofs about GroupCommands, for every set of calls, users and commands, *)
(* every history to start from and every bound on attempts and edits:      *)
(* types, and on top of them the safety of the protocol, that is the       *)
(* history, the revision and what is decided under it; membership (the     *)
(* rules of the group, its version history and the command ids), the       *)
(* watermarks, what callers are told, and attempts.  The proofs about      *)
(* watermarks and answers do not assume that the reads keep the contract   *)
(* of the port, so they hold for an adapter with stale reads as well.      *)
(***************************************************************************)
EXTENDS GroupCommands, FiniteSetTheorems, TLAPS

(* The values the domain rules build are again of their types. *)

LEMMA TouchedGroupType ==
    ASSUME NEW gr \in GroupDialog, NEW t \in Nat
    PROVE  Touched(gr, t) \in GroupDialog
<1>1. gr.version + 1 \in Nat \ {0}
  BY DEF GroupDialog
<1>2. ASSUME NEW v \in Nat \ {0}
      PROVE  [gr EXCEPT !.version = v, !.updatedAt = t] \in GroupDialog
  BY DEF GroupDialog
<1>. QED  BY <1>1, <1>2 DEF Touched

LEMMA TouchedReceiptType ==
    ASSUME NEW w \in ReceiptWatermark, NEW t \in Nat
    PROVE  Touched(w, t) \in ReceiptWatermark
<1>1. w.version + 1 \in Nat \ {0}
  BY DEF ReceiptWatermark
<1>2. ASSUME NEW v \in Nat \ {0}
      PROVE  [w EXCEPT !.version = v, !.updatedAt = t] \in ReceiptWatermark
  BY DEF ReceiptWatermark
<1>. QED  BY <1>1, <1>2 DEF Touched

LEMMA WithMemberType ==
    ASSUME NEW gr \in GroupDialog, NEW u \in Users, NEW t \in Nat
    PROVE  WithMember(gr, u, t) \in GroupDialog
<1>1. [gr EXCEPT !.members = @ \cup {u}] \in GroupDialog
  BY DEF GroupDialog
<1>. QED  BY <1>1, TouchedGroupType DEF WithMember

LEMMA WithoutMemberType ==
    ASSUME NEW gr \in GroupDialog, NEW u \in Users, NEW t \in Nat
    PROVE  WithoutMember(gr, u, t) \in GroupDialog
<1>1. [gr EXCEPT !.members = @ \ {u}] \in GroupDialog
  BY DEF GroupDialog
<1>. QED  BY <1>1, TouchedGroupType DEF WithoutMember

LEMMA PostedType ==
    ASSUME NEW u \in Users, NEW k \in ClientIds, NEW content \in Content,
           NEW p \in Nat
    PROVE  Posted(u, k, content, p + 1) \in Message
  BY DEF Posted, Message

LEMMA EditedType ==
    ASSUME NEW m \in Message, NEW text \in Texts
    PROVE  Edited(m, text) \in Message
<1>1. m.version + 1 \in Nat \ {0}
  BY DEF Message
<1>2. ASSUME NEW v \in Nat \ {0}
      PROVE  [m EXCEPT !.content.text = text, !.version = v] \in Message
  BY DEF Message, Content
<1>. QED  BY <1>1, <1>2 DEF Edited

LEMMA CheckpointOfType ==
    ASSUME NEW id \in MessageIds, NEW m \in Message
    PROVE  CheckpointOf(id, m) \in Checkpoint
  BY DEF CheckpointOf, Checkpoint, Message

LEMMA EmptyReceiptType ==
    ASSUME NEW id \in ReceiptIds, NEW t \in Nat
    PROVE  EmptyReceipt(id, t) \in ReceiptWatermark
  BY DEF EmptyReceipt, ReceiptWatermark, Checkpoint

LEMMA AdvancedType ==
    ASSUME NEW w \in ReceiptWatermark, NEW kind, NEW cp \in Checkpoint,
           NEW t \in Nat
    PROVE  Advanced(w, kind, cp, t) \in ReceiptWatermark
<1>. DEFINE d == IF Covers(w.delivered, cp) THEN w.delivered ELSE cp
<1>1. d \in Checkpoint
  BY DEF ReceiptWatermark
<1>2. [w EXCEPT !.read = cp, !.delivered = d] \in ReceiptWatermark
  BY <1>1 DEF ReceiptWatermark
<1>3. [w EXCEPT !.delivered = cp] \in ReceiptWatermark
  BY DEF ReceiptWatermark
<1>. HIDE DEF d
<1>4. Touched([w EXCEPT !.read = cp, !.delivered = d], t) \in ReceiptWatermark
  BY <1>2, TouchedReceiptType
<1>5. Touched([w EXCEPT !.delivered = cp], t) \in ReceiptWatermark
  BY <1>3, TouchedReceiptType
<1>. QED  BY <1>4, <1>5 DEF Advanced, d
------------------------------------------------------------------------------
(* Commands by kind, and the errors they end with. *)

LEMMA CommandKinds ==
    ASSUME NEW c \in Calls, command \in [Calls -> Command]
    PROVE  /\ IsMembership(c) => command[c] \in MembershipCommand
           /\ IsSend(c) => command[c] \in SendCommand
           /\ IsAck(c) => command[c] \in AckCommand
           /\ IsMembership(c) \/ IsSend(c) \/ IsAck(c)
  BY DEF Command, MembershipCommand, SendCommand, AckCommand,
         IsMembership, IsSend, IsAck

LEMMA CommandFields ==
    ASSUME NEW c \in Calls, command \in [Calls -> Command]
    PROVE  command[c].actor \in Users /\ command[c].dialog \in Dialogs
  BY DEF Command, MembershipCommand, SendCommand, AckCommand

LEMMA DomainErrorsListed ==
    ASSUME NEW gr, NEW actor, NEW user, NEW t, NEW w, NEW kind, NEW cp, NEW sender
    PROVE  /\ AddMemberError(gr, actor, user, t) \in DomainErrors \cup {Ok}
           /\ RemoveMemberError(gr, actor, user, t) \in DomainErrors \cup {Ok}
           /\ PostError(t) \in DomainErrors \cup {Ok}
           /\ AckError(w, gr, actor, kind, cp, sender, t) \in DomainErrors \cup {Ok}
<1>1. AddMemberError(gr, actor, user, t) \in DomainErrors \cup {Ok}
  BY DEF AddMemberError, DomainErrors, Ok
<1>2. RemoveMemberError(gr, actor, user, t) \in DomainErrors \cup {Ok}
  BY DEF RemoveMemberError, DomainErrors, Ok
<1>3. PostError(t) \in DomainErrors \cup {Ok}
  BY DEF PostError, DomainErrors, Ok
<1>4. AckError(w, gr, actor, kind, cp, sender, t) \in DomainErrors \cup {Ok}
  BY DEF AckError, BoundaryError, DomainErrors, Ok
<1>. QED  BY <1>1, <1>2, <1>3, <1>4
------------------------------------------------------------------------------
(* Type correctness.  The types alone are not inductive: a commit uses the   *)
(* snapshot and the reads of its attempt, and LocalsOK says they are there. *)

LEMMA FinishKeeps ==
    ASSUME NEW c \in Calls, NEW s \in {Ok} \cup Errors, NEW r \in Replies \cup {None},
           CallTypes, LocalsOK, Finish(c, s, r), command' = command
    PROVE  CallTypes' /\ LocalsOK'
<1>1. CreatedAt \in Nat
  BY GroupDomainAssumption
<1>2. CallTypes'
  BY <1>1 DEF CallTypes, Finish, Goto, Forget
<1>3. ASSUME NEW d \in Calls
      PROVE  /\ IsAck(d)' <=> IsAck(d)
             /\ IsMembership(d)' <=> IsMembership(d)
             /\ d # c => /\ pc'[d] = pc[d] /\ snap'[d] = snap[d]
                         /\ found'[d] = found[d] /\ watermark'[d] = watermark[d]
             /\ pc'[c] = "done" /\ found'[c] = None
  BY DEF CallTypes, Finish, Goto, Forget, IsAck, IsMembership
<1>4. LocalsOK'
  BY <1>3 DEF LocalsOK, LocalsOKAt, Active
<1>. QED  BY <1>2, <1>4

LEMMA RetryKeeps ==
    ASSUME NEW c \in Calls, CallTypes, LocalsOK, Retry(c), command' = command
    PROVE  CallTypes' /\ LocalsOK'
<1>1. CreatedAt \in Nat /\ MaxAttempts \in Nat \ {0}
  BY GroupDomainAssumption, CallsAssumption
<1>2. CASE attempt[c] = MaxAttempts
  BY <1>2, FinishKeeps DEF Retry, Errors
<1>3. CASE attempt[c] # MaxAttempts
  <2>1. attempt[c] + 1 \in 1..MaxAttempts
    BY <1>1, <1>3 DEF CallTypes
  <2>2. CallTypes'
    BY <1>1, <1>3, <2>1 DEF CallTypes, Retry, Goto, Forget
  <2>3. ASSUME NEW d \in Calls
        PROVE  /\ IsAck(d)' <=> IsAck(d)
               /\ IsMembership(d)' <=> IsMembership(d)
               /\ d # c => /\ pc'[d] = pc[d] /\ snap'[d] = snap[d]
                           /\ found'[d] = found[d] /\ watermark'[d] = watermark[d]
               /\ pc'[c] = "load" /\ found'[c] = None
    BY <1>3 DEF CallTypes, Retry, Goto, Forget, IsAck, IsMembership
  <2>4. LocalsOK'
    BY <2>3 DEF LocalsOK, LocalsOKAt, Active
  <2>. QED  BY <2>2, <2>4
<1>. QED  BY <1>2, <1>3

LEMMA MutationTypes ==
    ASSUME NEW c \in Calls, ValuesOK, LocalsOK, pc[c] \in {"commit", "limbo"}
    PROVE  /\ snap[c] \in Snapshot
           /\ IsMembership(c) => NewGroup(c) \in GroupDialog
           /\ PostsMessage(c) => NewMessage(c) \in Message
           /\ IsAck(c) => /\ Acked(c) \in Checkpoint
                          /\ watermark[c] \in ReceiptWatermark
                          /\ found[c] \in Found
                          /\ NewReceipt(c) \in ReceiptWatermark
<1>1. snap[c] \in Snapshot
  BY DEF LocalsOK, LocalsOKAt, Active
<1>2. /\ snap[c].group \in GroupDialog /\ snap[c].lastPosition \in Nat
      /\ now[c] \in Nat
  BY <1>1 DEF Snapshot, ValuesOK, CallTypes
<1>3. IsMembership(c) => NewGroup(c) \in GroupDialog
  <2>. HAVE IsMembership(c)
  <2>1. command[c].user \in Users
    BY CommandKinds DEF ValuesOK, CallTypes, MembershipCommand
  <2>. QED  BY <1>2, <2>1, WithMemberType, WithoutMemberType DEF NewGroup
<1>4. PostsMessage(c) => NewMessage(c) \in Message
  <2>. HAVE PostsMessage(c)
  <2>1. /\ command[c].actor \in Users /\ command[c].client \in ClientIds
        /\ command[c].content \in Content
    BY CommandKinds DEF PostsMessage, ValuesOK, CallTypes, SendCommand
  <2>. QED  BY <1>2, <2>1, PostedType DEF NewMessage
<1>5. IsAck(c) => /\ Acked(c) \in Checkpoint
                  /\ watermark[c] \in ReceiptWatermark
                  /\ found[c] \in Found
                  /\ NewReceipt(c) \in ReceiptWatermark
  <2>. HAVE IsAck(c)
  <2>1. watermark[c] \in ReceiptWatermark /\ found[c] \in Found
    BY DEF LocalsOK, LocalsOKAt, ValuesOK, CallTypes
  <2>2. Acked(c) \in Checkpoint
    BY <2>1, CheckpointOfType DEF Acked, Found
  <2>. QED  BY <1>2, <2>1, <2>2, AdvancedType DEF NewReceipt
<1>. QED  BY <1>1, <1>3, <1>4, <1>5

LEMMA ApplyTypes ==
    ASSUME NEW c \in Calls, ValuesOK, LocalsOK, pc[c] \in {"commit", "limbo"},
           Apply(c)
    PROVE  StorageTypes'
<1>1. revision' \in Nat
  BY DEF Apply, NextRevision, ValuesOK, StorageTypes
<1>2. group' \in GroupDialog
  BY MutationTypes DEF Apply, ValuesOK, StorageTypes
<1>3. messages' \in [MessageIds -> Message \cup {None}]
  BY MutationTypes, CallsAssumption DEF Apply, ValuesOK, StorageTypes
<1>4. lastPosition' \in Nat
  <2>1. PostsMessage(c) => NewMessage(c).position \in Nat
    BY MutationTypes DEF Message
  <2>. QED  BY <2>1 DEF Apply, NextPosition, ValuesOK, StorageTypes
<1>5. receipts' \in [Users -> ReceiptWatermark \cup {None}]
  <2>1. MovesReceipt(c) => NewReceipt(c) \in ReceiptWatermark
    BY MutationTypes DEF MovesReceipt
  <2>. QED  BY <2>1 DEF Apply, ValuesOK, StorageTypes
<1>6. results' \in [CommandIds -> Acceptance \cup {None}]
  <2>1. CASE IsMembership(c)
    <3>1. command[c] \in MembershipCommand
      BY <2>1, CommandKinds DEF ValuesOK, CallTypes
    <3>2. [intent |-> Intent(command[c]), result |-> NewGroup(c)] \in Acceptance
      BY <2>1, <3>1, MutationTypes DEF Intent, Acceptance, MembershipCommand
    <3>. QED  BY <2>1, <3>2 DEF Apply, NextResults, ValuesOK, StorageTypes
  <2>2. CASE ~IsMembership(c)
    BY <2>2 DEF Apply, NextResults, ValuesOK, StorageTypes
  <2>. QED  BY <2>1, <2>2
<1>. QED  BY <1>1, <1>2, <1>3, <1>4, <1>5, <1>6 DEF StorageTypes

LEMMA ReplyType ==
    ASSUME NEW c \in Calls, ValuesOK, LocalsOK, pc[c] = "commit"
    PROVE  Reply(c) \in Replies
<1>1. snap[c].group.version \in Nat
  BY MutationTypes DEF Snapshot, GroupDialog
<1>2. CASE IsMembership(c)
  BY <1>2, MutationTypes DEF Reply, Replies
<1>3. CASE IsSend(c)
  <2>1. found[c] = None => NewMessage(c) \in Message
    BY <1>3, MutationTypes DEF PostsMessage
  <2>2. found[c] # None => found[c].id \in MessageIds /\ found[c].value \in Message
    BY DEF ValuesOK, CallTypes, Found
  <2>3. ~IsMembership(c) /\ c \in MessageIds
    BY <1>3, CallsAssumption DEF IsSend, IsMembership
  <2>4. Reply(c) \in SendReply
    BY <1>1, <1>3, <2>1, <2>2, <2>3 DEF Reply, SendReply, PostsMessage
  <2>. QED  BY <2>4 DEF Replies
<1>4. CASE IsAck(c)
  <2>1. ~IsMembership(c) /\ ~IsSend(c)
    BY <1>4 DEF IsSend, IsMembership, IsAck
  <2>2. NewReceipt(c) \in ReceiptWatermark
    BY <1>4, MutationTypes
  <2>3. MovesReceipt(c) \in BOOLEAN
    BY DEF MovesReceipt, AckChanges
  <2>4. Reply(c) \in AckReply
    BY <1>1, <2>1, <2>2, <2>3 DEF Reply, AckReply
  <2>. QED  BY <2>4 DEF Replies
<1>. QED  BY <1>2, <1>3, <1>4, CommandKinds DEF ValuesOK, CallTypes

\* Only the locals of the call that steps need looking at.
LEMMA LocalsFrame ==
    ASSUME NEW c \in Calls, LocalsOK, command' = command, LocalsOKAt(c)',
           \A d \in Calls \ {c} : /\ pc'[d] = pc[d] /\ snap'[d] = snap[d]
                                  /\ found'[d] = found[d]
                                  /\ watermark'[d] = watermark[d]
    PROVE  LocalsOK'
  BY DEF LocalsOK, LocalsOKAt, Active, IsAck, IsMembership

LEMMA NextTypes ==
    ASSUME ValuesOK, LocalsOK, [Next]_vars
    PROVE  ValuesOK' /\ LocalsOK'
<1>. USE DEF ValuesOK
<1>1. CASE UNCHANGED vars
  BY <1>1 DEF vars, storage, locals, StorageTypes, CallTypes, LocalsOK, LocalsOKAt,
              Active, IsAck, IsMembership
<1>. SUFFICES ASSUME Next PROVE ValuesOK' /\ LocalsOK'
  BY <1>1
<1>2. ASSUME NEW c \in Calls, UNCHANGED storage, CallTypes', LocalsOK'
      PROVE  ValuesOK' /\ LocalsOK'
  BY <1>2 DEF storage, StorageTypes
<1>3. ASSUME NEW c \in Calls, Load(c) PROVE ValuesOK' /\ LocalsOK'
  <2>0. UNCHANGED storage /\ command' = command
    BY <1>3 DEF Load
  <2>1. CASE \E e \in Errors : Finish(c, e, None)
    BY <2>0, <2>1, <1>2, FinishKeeps
  <2>2. CASE ~\E e \in Errors : Finish(c, e, None)
    <3>1. /\ pc' = [pc EXCEPT ![c] = "read"]
          /\ snap' = [snap EXCEPT ![c] = [group |-> group, revision |-> revision,
                                          lastPosition |-> lastPosition]]
          /\ command[c].dialog = Group
          /\ pc[c] = "load"
          /\ UNCHANGED <<attempt, status, reply, found, watermark, now>>
      BY <1>3, <2>2 DEF Load, Proceed, Goto, Errors, DomainErrors
    <3>2. snap'[c] \in Snapshot
      BY <3>1 DEF StorageTypes, CallTypes, Snapshot
    <3>3. CallTypes'
      BY <2>0, <3>1, <3>2 DEF CallTypes
    <3>4. LocalsOKAt(c)'
      BY <2>0, <3>1, <3>2 DEF LocalsOK, LocalsOKAt, Active, CallTypes
    <3>5. LocalsOK'
      BY <2>0, <3>1, <3>4, LocalsFrame DEF CallTypes
    <3>. QED  BY <1>2, <2>0, <3>3, <3>5
  <2>. QED  BY <2>1, <2>2
<1>4. ASSUME NEW c \in Calls, ReadConflict(c) PROVE ValuesOK' /\ LocalsOK'
  BY <1>2, <1>4, RetryKeeps DEF ReadConflict
<1>5. ASSUME NEW c \in Calls, ReadMembership(c) PROVE ValuesOK' /\ LocalsOK'
  <2>0. UNCHANGED storage /\ command' = command /\ pc[c] = "read" /\ IsMembership(c)
    BY <1>5 DEF ReadMembership
  <2>1. PICK accepted \in ReadResults(results[command[c].id]) :
          IF accepted # None
          THEN IF accepted.intent # Intent(command[c])
               THEN Finish(c, "GroupMembershipConflict", None)
               ELSE Finish(c, Ok, accepted.result)
          ELSE \E instant \in Clock :
               IF MembershipError(c, instant) # Ok
               THEN Finish(c, MembershipError(c, instant), None)
               ELSE /\ now' = [now EXCEPT ![c] = instant]
                    /\ Proceed(c, IF command[c].kind = "add" THEN "verify" ELSE "commit")
                    /\ UNCHANGED <<snap, found, watermark>>
    BY <1>5 DEF ReadMembership
  <2>2. CASE accepted # None
    <3>1. command[c].id \in CommandIds
      BY <2>0, CommandKinds DEF CallTypes, MembershipCommand
    <3>2. accepted \in Acceptance
      BY <2>2, <3>1 DEF ReadResults, StorageTypes
    <3>3. accepted.result \in Replies
      BY <3>2 DEF Acceptance, Replies
    <3>. QED  BY <1>2, <2>0, <2>1, <2>2, <3>3, FinishKeeps DEF Errors, Ok
  <2>3. CASE accepted = None
    <3>1. PICK instant \in Clock :
            IF MembershipError(c, instant) # Ok
            THEN Finish(c, MembershipError(c, instant), None)
            ELSE /\ now' = [now EXCEPT ![c] = instant]
                 /\ Proceed(c, IF command[c].kind = "add" THEN "verify" ELSE "commit")
                 /\ UNCHANGED <<snap, found, watermark>>
      BY <2>1, <2>3
    <3>2. CASE MembershipError(c, instant) # Ok
      <4>1. MembershipError(c, instant) \in Errors
        BY <3>2, DomainErrorsListed DEF MembershipError, Errors
      <4>. QED  BY <1>2, <2>0, <3>1, <3>2, <4>1, FinishKeeps
    <3>3. CASE MembershipError(c, instant) = Ok
      <4>1. instant \in Nat
        BY GroupDomainAssumption
      <4>2. CallTypes'
        BY <2>0, <3>1, <3>3, <4>1 DEF CallTypes, Proceed, Goto
      <4>3. LocalsOKAt(c)'
        BY <2>0, <3>1, <3>3 DEF CallTypes, LocalsOK, LocalsOKAt, Active, Proceed,
           Goto, IsMembership, IsAck
      <4>4. LocalsOK'
        BY <2>0, <3>1, <3>3, <4>3, LocalsFrame DEF CallTypes, Proceed, Goto
      <4>. QED  BY <1>2, <2>0, <4>2, <4>4
    <3>. QED  BY <3>2, <3>3
  <2>. QED  BY <2>2, <2>3
<1>6. ASSUME NEW c \in Calls, command' = command, UNCHANGED storage, UNCHANGED locals,
             pc[c] = "verify", Proceed(c, "commit")
      PROVE  ValuesOK' /\ LocalsOK'
  <2>1. CallTypes'
    BY <1>6 DEF CallTypes, Proceed, Goto, locals
  <2>2. LocalsOKAt(c)'
    BY <1>6 DEF CallTypes, LocalsOK, LocalsOKAt, Active, Proceed, Goto, locals,
       IsMembership, IsAck
  <2>3. LocalsOK'
    BY <1>6, <2>2, LocalsFrame DEF CallTypes, Proceed, Goto, locals
  <2>. QED  BY <1>2, <1>6, <2>1, <2>3
<1>7. ASSUME NEW c \in Calls, VerifyRegistered(c) PROVE ValuesOK' /\ LocalsOK'
  BY <1>2, <1>6, <1>7, FinishKeeps DEF VerifyRegistered, Errors
<1>8. ASSUME NEW c \in Calls, command' = command, UNCHANGED storage, Post(c),
             LocalsOKAt(c) /\ pc'[c] = "commit" => LocalsOKAt(c)'
      PROVE  ValuesOK' /\ LocalsOK'
  <2>1. PICK instant \in Clock :
          IF PostError(instant) # Ok
          THEN Finish(c, PostError(instant), None)
          ELSE Proceed(c, "commit") /\ UNCHANGED locals
    BY <1>8 DEF Post
  <2>2. CASE PostError(instant) # Ok
    <3>1. PostError(instant) \in Errors
      BY <2>2, DomainErrorsListed DEF Errors
    <3>. QED  BY <1>2, <1>8, <2>1, <2>2, <3>1, FinishKeeps
  <2>3. CASE PostError(instant) = Ok
    <3>1. CallTypes'
      BY <1>8, <2>1, <2>3 DEF CallTypes, Proceed, Goto, locals
    <3>2. LocalsOKAt(c)'
      BY <1>8, <2>1, <2>3 DEF CallTypes, LocalsOK, Proceed, Goto
    <3>3. LocalsOK'
      BY <1>8, <2>1, <2>3, <3>2, LocalsFrame DEF CallTypes, Proceed, Goto, locals
    <3>. QED  BY <1>2, <1>8, <3>1, <3>3
  <2>. QED  BY <2>2, <2>3
<1>9. ASSUME NEW c \in Calls, ReadSent(c) PROVE ValuesOK' /\ LocalsOK'
  <2>0. UNCHANGED storage /\ command' = command /\ pc[c] = "read" /\ IsSend(c)
    BY <1>9 DEF ReadSent
  <2>1. ~IsMembership(c) /\ ~IsAck(c)
    BY <2>0 DEF IsSend, IsMembership, IsAck
  <2>2. CASE \E e \in Errors : Finish(c, e, None)
    BY <2>0, <2>2, <1>2, FinishKeeps
  <2>3. CASE Post(c)
    <3>1. LocalsOKAt(c) /\ pc'[c] = "commit" => LocalsOKAt(c)'
      BY <2>0, <2>1, <2>3 DEF Post, Finish, Proceed, Goto, locals, Forget, CallTypes,
         LocalsOKAt, Active, IsMembership, IsAck
    <3>. QED  BY <1>8, <2>0, <2>3, <3>1
  <2>4. ASSUME NEW m \in MessageIds, Stored(m), Proceed(c, "commit"),
               found' = [found EXCEPT ![c] = [id |-> m, value |-> messages[m]]],
               UNCHANGED <<snap, watermark, now>>
        PROVE  ValuesOK' /\ LocalsOK'
    <3>1. [id |-> m, value |-> messages[m]] \in Found
      BY <2>4 DEF Stored, StorageTypes, Found
    <3>2. CallTypes'
      BY <2>0, <2>4, <3>1 DEF CallTypes, Proceed, Goto
    <3>3. LocalsOKAt(c)'
      BY <2>0, <2>1, <2>4, <3>1 DEF CallTypes, LocalsOK, LocalsOKAt, Active, Proceed,
         Goto, IsMembership, IsAck
    <3>4. LocalsOK'
      BY <2>0, <2>4, <3>3, LocalsFrame DEF CallTypes, Proceed, Goto
    <3>. QED  BY <1>2, <2>0, <3>2, <3>4
  <2>5. CASE Proceed(c, "verify") /\ UNCHANGED locals /\ found[c] = None
    <3>2. CallTypes'
      BY <2>0, <2>5 DEF CallTypes, Proceed, Goto, locals
    <3>3. LocalsOKAt(c)'
      BY <2>0, <2>1, <2>5 DEF CallTypes, LocalsOK, LocalsOKAt, Active, Proceed,
         Goto, IsMembership, IsAck, locals
    <3>4. LocalsOK'
      BY <2>0, <2>5, <3>3, LocalsFrame DEF CallTypes, Proceed, Goto, locals
    <3>. QED  BY <1>2, <2>0, <3>2, <3>4
  <2>6. CASE \E m \in SentBefore(c) :
               IF ReplayConflict(messages[m], command[c].content)
               THEN Finish(c, "MessageSendConflict", None)
               ELSE /\ found' = [found EXCEPT ![c] = [id |-> m, value |-> messages[m]]]
                    /\ Proceed(c, "commit")
                    /\ UNCHANGED <<snap, watermark, now>>
    <3>1. PICK m \in SentBefore(c) :
               IF ReplayConflict(messages[m], command[c].content)
               THEN Finish(c, "MessageSendConflict", None)
               ELSE /\ found' = [found EXCEPT ![c] = [id |-> m, value |-> messages[m]]]
                    /\ Proceed(c, "commit")
                    /\ UNCHANGED <<snap, watermark, now>>
      BY <2>6
    <3>2. m \in MessageIds /\ Stored(m)
      BY DEF SentBefore
    <3>3. "MessageSendConflict" \in Errors
      BY DEF Errors
    <3>. QED  BY <2>2, <2>4, <3>1, <3>2, <3>3
  <2>7. CASE IF command[c].content.attachments # NoAttachments
             THEN Proceed(c, "verify") /\ UNCHANGED locals
             ELSE Post(c)
    <3>1. found[c] = None
      BY <2>0 DEF LocalsOK, LocalsOKAt
    <3>. QED  BY <2>3, <2>5, <2>7, <3>1
  <2>. QED  BY <1>9, <2>6, <2>7 DEF ReadSent
<1>10. ASSUME NEW c \in Calls, VerifyAttachments(c) PROVE ValuesOK' /\ LocalsOK'
  <2>0. UNCHANGED storage /\ command' = command /\ pc[c] = "verify" /\ IsSend(c)
    BY <1>10 DEF VerifyAttachments
  <2>1. CASE Finish(c, "AttachmentsNotReady", None)
    BY <1>2, <2>0, <2>1, FinishKeeps DEF Errors
  <2>2. CASE Post(c)
    <3>1. ~IsMembership(c) /\ ~IsAck(c)
      BY <2>0 DEF IsSend, IsMembership, IsAck
    <3>2. LocalsOKAt(c) /\ pc'[c] = "commit" => LocalsOKAt(c)'
      BY <2>0, <3>1, <2>2 DEF Post, Finish, Proceed, Goto, locals, Forget, CallTypes,
         LocalsOKAt, Active, IsMembership, IsAck
    <3>. QED  BY <1>8, <2>0, <2>2, <3>2
  <2>. QED  BY <1>10, <2>1, <2>2 DEF VerifyAttachments
<1>11. ASSUME NEW c \in Calls, ReadThrough(c) PROVE ValuesOK' /\ LocalsOK'
  <2>0. UNCHANGED storage /\ command' = command /\ pc[c] = "read" /\ IsAck(c)
    BY <1>11 DEF ReadThrough
  <2>1. command[c].message \in MessageIds
    BY <2>0, CommandKinds DEF CallTypes, AckCommand
  <2>2. PICK m \in ReadResults(messages[command[c].message]) :
          found' = [found EXCEPT ![c] =
                      IF m = None THEN None
                      ELSE [id |-> command[c].message, value |-> m]]
    BY <1>11 DEF ReadThrough
  <2>3. m \in Message \cup {None}
    BY <2>1 DEF ReadResults, StorageTypes
  <2>4. (IF m = None THEN None ELSE [id |-> command[c].message, value |-> m])
          \in Found \cup {None}
    BY <2>1, <2>3 DEF Found
  <2>5. Proceed(c, "receipt") /\ UNCHANGED <<snap, watermark, now>>
    BY <1>11 DEF ReadThrough
  <2>6. CallTypes'
    BY <2>0, <2>2, <2>4, <2>5 DEF CallTypes, Proceed, Goto
  <2>7. LocalsOKAt(c)'
    <3>1. ~IsMembership(c)
      BY <2>0 DEF IsMembership, IsAck
    <3>. QED  BY <2>0, <2>5, <3>1 DEF CallTypes, LocalsOK, LocalsOKAt, Active, Proceed,
                Goto, IsMembership, IsAck
  <2>8. LocalsOK'
    BY <2>0, <2>2, <2>5, <2>7, LocalsFrame DEF CallTypes, Proceed, Goto
  <2>. QED  BY <1>2, <2>0, <2>6, <2>8
<1>12. ASSUME NEW c \in Calls, ReadReceipt(c) PROVE ValuesOK' /\ LocalsOK'
  <2>0. /\ UNCHANGED storage /\ command' = command
        /\ pc[c] = "receipt" /\ IsAck(c) /\ ~IsMembership(c)
    BY <1>12 DEF ReadReceipt, LocalsOK, LocalsOKAt, IsAck, IsMembership
  <2>1. CASE \E e \in Errors : Finish(c, e, None)
    BY <1>2, <2>0, <2>1, FinishKeeps
  <2>2. CASE ~\E e \in Errors : Finish(c, e, None)
    <3>1. found[c] # None
      BY <1>12, <2>2 DEF ReadReceipt, Errors
    <3>2. PICK w \in ReadResults(receipts[command[c].actor]),
               created \in Clock, instant \in Clock :
            LET base  == IF w = None THEN EmptyReceipt(c, created) ELSE w
                error == AckError(base, snap[c].group, command[c].actor,
                                  command[c].kind,
                                  CheckpointOf(found[c].id, found[c].value),
                                  found[c].value.sender, instant)
            IN  IF error # Ok THEN Finish(c, error, None)
                ELSE /\ watermark' = [watermark EXCEPT ![c] = base]
                     /\ now' = [now EXCEPT ![c] = instant]
                     /\ Proceed(c, "commit")
                     /\ UNCHANGED <<snap, found>>
      BY <1>12, <3>1 DEF ReadReceipt
    <3>. DEFINE base  == IF w = None THEN EmptyReceipt(c, created) ELSE w
                error == AckError(base, snap[c].group, command[c].actor,
                                  command[c].kind,
                                  CheckpointOf(found[c].id, found[c].value),
                                  found[c].value.sender, instant)
    <3>3. base \in ReceiptWatermark
      <4>1. created \in Nat /\ c \in ReceiptIds
        BY GroupDomainAssumption, CallsAssumption
      <4>2. w \in ReceiptWatermark \cup {None}
        BY CommandFields DEF ReadResults, StorageTypes, CallTypes
      <4>. QED  BY <4>1, <4>2, EmptyReceiptType
    <3>4. error \in DomainErrors \cup {Ok}
      BY DomainErrorsListed
    <3>5. error = Ok
      <4>. HIDE DEF error, base
      <4>1. IF error # Ok THEN Finish(c, error, None) ELSE TRUE
        BY <3>2 DEF error, base
      <4>. QED  BY <2>2, <3>4, <4>1 DEF Errors
    <3>6. /\ watermark' = [watermark EXCEPT ![c] = base]
          /\ now' = [now EXCEPT ![c] = instant]
          /\ Proceed(c, "commit")
          /\ UNCHANGED <<snap, found>>
      BY <3>2, <3>5
    <3>7. instant \in Nat
      BY GroupDomainAssumption
    <3>. HIDE DEF base, error
    <3>8. base # None
      BY <3>3, NoneAssumption
    <3>9. CallTypes'
      BY <2>0, <3>3, <3>6, <3>7 DEF CallTypes, Proceed, Goto
    <3>10. LocalsOKAt(c)'
      BY <2>0, <3>1, <3>6, <3>8 DEF CallTypes, LocalsOK, LocalsOKAt, Active, Proceed,
         Goto, IsMembership, IsAck
    <3>11. LocalsOK'
      BY <2>0, <3>6, <3>10, LocalsFrame DEF CallTypes, Proceed, Goto
    <3>. QED  BY <1>2, <2>0, <3>9, <3>11
  <2>. QED  BY <2>1, <2>2
<1>13. ASSUME NEW c \in Calls, CommitTrue(c) PROVE ValuesOK' /\ LocalsOK'
  <2>1. /\ pc[c] = "commit" /\ Apply(c) /\ Finish(c, Ok, Reply(c))
        /\ command' = command
    BY <1>13 DEF CommitTrue
  <2>2. Reply(c) \in Replies
    BY <2>1, ReplyType
  <2>3. StorageTypes'
    BY <2>1, ApplyTypes
  <2>. QED  BY <2>1, <2>2, <2>3, FinishKeeps
<1>14. ASSUME NEW c \in Calls, CommitFalse(c) PROVE ValuesOK' /\ LocalsOK'
  BY <1>2, <1>14, RetryKeeps DEF CommitFalse
<1>15. ASSUME NEW c \in Calls, Unavailable(c) PROVE ValuesOK' /\ LocalsOK'
  BY <1>2, <1>15, FinishKeeps DEF Unavailable, Errors
<1>16. ASSUME NEW c \in Calls, LoseCommit(c) PROVE ValuesOK' /\ LocalsOK'
  <2>1. CallTypes'
    BY <1>16 DEF LoseCommit, CallTypes, Goto, Errors, locals
  <2>2. LocalsOKAt(c)'
    BY <1>16 DEF CallTypes, LoseCommit, Goto, LocalsOK, LocalsOKAt, Active,
       IsMembership, IsAck, locals
  <2>3. LocalsOK'
    BY <1>16, <2>2, LocalsFrame DEF CallTypes, LoseCommit, Goto, locals
  <2>. QED  BY <1>2, <1>16, <2>1, <2>3 DEF LoseCommit
<1>17. ASSUME NEW c \in Calls, Land(c) PROVE ValuesOK' /\ LocalsOK'
  <2>0. /\ pc[c] = "limbo" /\ Apply(c) /\ Goto(c, "done") /\ Forget(c)
        /\ UNCHANGED <<command, attempt, status, reply>>
    BY <1>17 DEF Land
  <2>1. StorageTypes'
    BY <2>0, ApplyTypes
  <2>2. CallTypes'
    BY <2>0, GroupDomainAssumption DEF CallTypes, Goto, Forget
  <2>3. LocalsOKAt(c)'
    BY <2>0 DEF CallTypes, LocalsOK, LocalsOKAt, Active, Goto, Forget
  <2>4. LocalsOK'
    BY <2>0, <2>3, LocalsFrame DEF CallTypes, Goto, Forget
  <2>. QED  BY <2>1, <2>2, <2>4
<1>18. ASSUME NEW m \in MessageIds, EditMessage(m) PROVE ValuesOK' /\ LocalsOK'
  <2>1. PICK text \in Texts : messages' = [messages EXCEPT ![m] = Edited(@, text)]
    BY <1>18 DEF EditMessage
  <2>2. messages[m] \in Message
    BY <1>18 DEF EditMessage, Stored, StorageTypes
  <2>3. StorageTypes'
    BY <1>18, <2>1, <2>2, EditedType DEF EditMessage, StorageTypes
  <2>4. UNCHANGED <<command, pc, attempt, snap, found, watermark, now, status, reply>>
    BY <1>18 DEF EditMessage, locals
  <2>. QED  BY <2>3, <2>4 DEF CallTypes, LocalsOK, LocalsOKAt, Active, IsAck,
               IsMembership
<1>19. CASE Settled
  BY <1>1, <1>19 DEF Settled
<1>. QED  BY <1>3, <1>4, <1>5, <1>7, <1>9, <1>10, <1>11, <1>12, <1>13, <1>14, <1>15,
            <1>16, <1>17, <1>18, <1>19 DEF Next, Step

LEMMA InitTypes == Init => ValuesOK /\ LocalsOK
<1>. SUFFICES ASSUME Init PROVE ValuesOK /\ LocalsOK
  OBVIOUS
<1>1. GroupDialog = [members : SUBSET Users, owner : Users, title : Titles,
                     avatar : Avatars \cup {None}, version : Nat \ {0},
                     updatedAt : Nat]
  BY DEF GroupDialog
<1>2. group \in GroupDialog
  BY <1>1, GroupAssumption, GroupDomainAssumption DEF Init
<1>3. revision \in Nat /\ lastPosition \in Nat
  BY SeedAssumption DEF Init
<1>4. messages \in [MessageIds -> Message \cup {None}]
  BY SeedAssumption DEF Init
<1>5. /\ receipts \in [Users -> ReceiptWatermark \cup {None}]
      /\ results \in [CommandIds -> Acceptance \cup {None}]
  BY DEF Init
<1>6. CallTypes
  BY CallsAssumption, GroupDomainAssumption DEF Init, CallTypes
<1>7. LocalsOK
  BY DEF Init, LocalsOK, LocalsOKAt, Active
<1>. QED  BY <1>2, <1>3, <1>4, <1>5, <1>6, <1>7 DEF ValuesOK, StorageTypes

\* The storage holds groups, messages, watermarks and results of their types,
\* no handler runs more than MaxAttempts attempts, and none uses a local it has
\* not read (the attempts loop of each handler).
THEOREM TypeCorrect == Spec => []TypeOK
<1>1. Init => TypeOK
  BY InitTypes DEF TypeOK
<1>2. TypeOK /\ [Next]_vars => TypeOK'
  BY NextTypes DEF TypeOK
<1>. QED  BY <1>1, <1>2, PTL DEF Spec
------------------------------------------------------------------------------

(* The message history.  Nothing but the conditions of the port protects it: *)
(* the proofs use neither the snapshots nor what was read, and so hold for   *)
(* an adapter with stale reads too.                                          *)

LEMMA ApplyHistory ==
    ASSUME NEW c \in Calls, ValuesOK, LocalsOK, pc[c] \in {"commit", "limbo"},
           MayCommit(c), Apply(c), HistoryDense, SendKeyUnique
    PROVE  HistoryDense' /\ SendKeyUnique'
<1>1. CASE ~PostsMessage(c)
  BY <1>1 DEF Apply, NextPosition, HistoryDense, SendKeyUnique, Stored
<1>2. CASE PostsMessage(c)
  <2>1. /\ messages' = [messages EXCEPT ![c] = NewMessage(c)]
        /\ lastPosition' = NewMessage(c).position
        /\ ~Stored(c) /\ SentBefore(c) = {}
        /\ NewMessage(c).position = lastPosition + 1
    BY <1>2 DEF Apply, NextPosition, MayCommit, MessageFollows
  <2>2. /\ NewMessage(c) # None /\ c \in MessageIds
        /\ NewMessage(c).sender = command[c].actor
        /\ NewMessage(c).client = command[c].client
    BY <1>2, MutationTypes, NoneAssumption, CallsAssumption DEF NewMessage, Posted
  <2>3. lastPosition \in Nat /\ messages \in [MessageIds -> Message \cup {None}]
    BY DEF ValuesOK, StorageTypes
  <2>4. \A m \in MessageIds : Stored(m)' <=> m = c \/ Stored(m)
    BY <2>1, <2>2, <2>3 DEF Stored
  <2>5. \A m \in MessageIds : m # c => messages'[m] = messages[m]
    BY <2>1, <2>3
  <2>6. messages'[c] = NewMessage(c)
    BY <2>1, <2>2, <2>3
  <2>7. \A m \in MessageIds : Stored(m) => messages[m].position \in 1..lastPosition
    BY DEF HistoryDense
  <2>8. HistoryDense'
    <3>1. \A m \in MessageIds :
            Stored(m)' => messages'[m].position \in 1..lastPosition'
      BY <2>1, <2>3, <2>4, <2>5, <2>6, <2>7
    <3>2. ASSUME NEW m \in MessageIds, NEW n \in MessageIds,
                 Stored(m)', Stored(n)', m # n
          PROVE  messages'[m].position # messages'[n].position
      <4>1. CASE m # c /\ n # c
        BY <3>2, <4>1, <2>4, <2>5 DEF HistoryDense
      <4>2. CASE m = c \/ n = c
        BY <3>2, <4>2, <2>1, <2>3, <2>4, <2>5, <2>6, <2>7
      <4>. QED  BY <4>1, <4>2
    <3>3. ASSUME NEW p \in 1..lastPosition'
          PROVE  \E m \in MessageIds : Stored(m)' /\ messages'[m].position = p
      <4>1. CASE p = lastPosition + 1
        BY <4>1, <2>1, <2>2, <2>4, <2>6
      <4>2. CASE p # lastPosition + 1
        <5>1. p \in 1..lastPosition
          BY <3>3, <4>2, <2>1, <2>3
        <5>2. PICK m \in MessageIds : Stored(m) /\ messages[m].position = p
          BY <5>1 DEF HistoryDense
        <5>. QED  BY <5>2, <2>1, <2>4, <2>5
      <4>. QED  BY <4>1, <4>2
    <3>. QED  BY <3>1, <3>2, <3>3 DEF HistoryDense
  <2>9. SendKeyUnique'
    <3>1. \A m \in MessageIds : Stored(m) =>
            ~SameSendKey(messages[m], command[c].actor, command[c].client)
      BY <2>1 DEF SentBefore
    <3>2. ASSUME NEW m \in MessageIds, NEW n \in MessageIds,
                 Stored(m)', Stored(n)', m # n
          PROVE  ~SameSendKey(messages'[m], messages'[n].sender, messages'[n].client)
      <4>1. CASE m # c /\ n # c
        BY <3>2, <4>1, <2>4, <2>5 DEF SendKeyUnique
      <4>2. CASE n = c
        BY <3>1, <3>2, <4>2, <2>2, <2>4, <2>5, <2>6
      <4>3. CASE m = c
        BY <3>1, <3>2, <4>3, <2>2, <2>4, <2>5, <2>6 DEF SameSendKey
      <4>. QED  BY <4>1, <4>2, <4>3
    <3>. QED  BY <3>2 DEF SendKeyUnique
  <2>. QED  BY <2>8, <2>9
<1>. QED  BY <1>1, <1>2

LEMMA EditHistory ==
    ASSUME NEW e \in MessageIds, ValuesOK, EditMessage(e), HistoryDense, SendKeyUnique
    PROVE  HistoryDense' /\ SendKeyUnique'
<1>1. PICK text \in Texts : messages' = [messages EXCEPT ![e] = Edited(@, text)]
  BY DEF EditMessage
<1>2. /\ messages \in [MessageIds -> Message \cup {None}] /\ messages[e] \in Message
      /\ UNCHANGED lastPosition
  BY DEF EditMessage, Stored, ValuesOK, StorageTypes
<1>3. /\ Edited(messages[e], text) # None
      /\ Edited(messages[e], text).position = messages[e].position
      /\ Edited(messages[e], text).sender = messages[e].sender
      /\ Edited(messages[e], text).client = messages[e].client
  <2>1. Edited(messages[e], text) # None
    BY <1>2, EditedType, NoneAssumption
  <2>. QED  BY <1>2, <2>1 DEF Edited, Message
<1>4. \A m \in MessageIds :
        /\ Stored(m)' <=> Stored(m)
        /\ messages'[m].position = messages[m].position
        /\ messages'[m].sender = messages[m].sender
        /\ messages'[m].client = messages[m].client
  BY <1>1, <1>2, <1>3, NoneAssumption DEF Stored
<1>. QED  BY <1>2, <1>4 DEF HistoryDense, SendKeyUnique, SameSendKey

LEMMA InitHistory == Init => HistoryDense /\ SendKeyUnique
<1>. SUFFICES ASSUME Init PROVE HistoryDense /\ SendKeyUnique
  OBVIOUS
<1>1. \A m \in MessageIds : Stored(m) <=> m \in SeedIds
  BY SeedAssumption, NoneAssumption DEF Init, Stored
<1>2. \A m \in SeedIds : m \in MessageIds /\ messages[m] = Seed[m]
  BY SeedAssumption DEF Init
<1>3. lastPosition = SeedLast
  BY DEF Init
<1>. QED  BY <1>1, <1>2, <1>3, SeedAssumption DEF HistoryDense, SendKeyUnique

LEMMA NextHistory ==
    ASSUME ValuesOK, LocalsOK, HistoryDense, SendKeyUnique, [Next]_vars
    PROVE  HistoryDense' /\ SendKeyUnique'
<1>1. CASE UNCHANGED storage
  BY <1>1 DEF storage, HistoryDense, SendKeyUnique, Stored
<1>2. ASSUME NEW c \in Calls, CommitTrue(c) \/ Land(c)
      PROVE  HistoryDense' /\ SendKeyUnique'
  BY <1>2, ApplyHistory DEF CommitTrue, Land
<1>3. ASSUME NEW m \in MessageIds, EditMessage(m)
      PROVE  HistoryDense' /\ SendKeyUnique'
  BY <1>3, EditHistory
<1>4. CASE UNCHANGED vars \/ Settled
  BY <1>1, <1>4 DEF vars, Settled
<1>5. ASSUME NEW c \in Calls, Step(c) \/ Unavailable(c) \/ LoseCommit(c), ~CommitTrue(c)
      PROVE  UNCHANGED storage
  BY <1>5 DEF Step, Unavailable, LoseCommit, Load, ReadConflict, ReadMembership,
     VerifyRegistered, ReadSent, VerifyAttachments, ReadThrough, ReadReceipt, CommitFalse
<1>. QED  BY <1>1, <1>2, <1>3, <1>4, <1>5 DEF Next, Step

\* Positions are dense and unique and a send key names one message, for any
\* number of senders, retries, lost and late writes and edits.
THEOREM HistoryCorrect == Spec => [](HistoryDense /\ SendKeyUnique)
<1>1. Init => TypeOK /\ HistoryDense /\ SendKeyUnique
  BY InitTypes, InitHistory DEF TypeOK
<1>2. TypeOK /\ HistoryDense /\ SendKeyUnique /\ [Next]_vars
        => (TypeOK /\ HistoryDense /\ SendKeyUnique)'
  BY NextTypes, NextHistory DEF TypeOK
<1>. QED  BY <1>1, <1>2, PTL DEF Spec
------------------------------------------------------------------------------
(* Snapshots.  A step of one call leaves the locals of the others alone, and *)
(* whatever changes the storage moves the revision past every snapshot.      *)

Kept(d) == /\ pc'[d] = pc[d] /\ snap'[d] = snap[d] /\ found'[d] = found[d]
           /\ watermark'[d] = watermark[d] /\ now'[d] = now[d]

LEMMA StepsKeepOthers ==
    ASSUME NEW c \in Calls, ValuesOK,
           Step(c) \/ Unavailable(c) \/ LoseCommit(c) \/ Land(c),
           NEW d \in Calls, d # c
    PROVE  Kept(d) /\ command' = command
<1>. USE DEF ValuesOK, CallTypes, Kept, Goto, Forget, Finish, Retry, Proceed, locals
<1>1. CASE Load(c)
  BY <1>1 DEF Load
<1>2. CASE ReadConflict(c) \/ CommitFalse(c)
  BY <1>2 DEF ReadConflict, CommitFalse
<1>3. CASE ReadMembership(c)
  BY <1>3 DEF ReadMembership
<1>4. CASE VerifyRegistered(c)
  BY <1>4 DEF VerifyRegistered
<1>5. CASE ReadSent(c)
  BY <1>5 DEF ReadSent, Post
<1>6. CASE VerifyAttachments(c)
  BY <1>6 DEF VerifyAttachments, Post
<1>7. CASE ReadThrough(c)
  BY <1>7 DEF ReadThrough
<1>8. CASE ReadReceipt(c)
  BY <1>8 DEF ReadReceipt
<1>9. CASE CommitTrue(c)
  BY <1>9 DEF CommitTrue
<1>10. CASE Unavailable(c) \/ LoseCommit(c) \/ Land(c)
  BY <1>10 DEF Unavailable, LoseCommit, Land
<1>. QED  BY <1>1, <1>2, <1>3, <1>4, <1>5, <1>6, <1>7, <1>8, <1>9, <1>10 DEF Step

LEMMA OnlyCommitsWrite ==
    ASSUME NEW c \in Calls,
           Step(c) \/ Unavailable(c) \/ LoseCommit(c) \/ Land(c)
    PROVE  \/ UNCHANGED storage
           \/ /\ pc[c] \in {"commit", "limbo"} /\ MayCommit(c) /\ Apply(c)
              /\ pc' = [pc EXCEPT ![c] = "done"]
  BY DEF Step, Unavailable, LoseCommit, Land, Load, ReadConflict, ReadMembership,
     VerifyRegistered, ReadSent, VerifyAttachments, ReadThrough, ReadReceipt,
     CommitTrue, CommitFalse, Finish, Goto

LEMMA SnapshotKept ==
    ASSUME NEW d \in Calls, ValuesOK, LocalsOK, SnapshotCurrentAt(d), Kept(d),
           command' = command, UNCHANGED storage \/ revision' = revision + 1
    PROVE  SnapshotCurrentAt(d)'
<1>1. CASE UNCHANGED storage
  BY <1>1 DEF storage, Kept, SnapshotCurrentAt, ReadsCurrentAt, RevisionHolds, Active,
     Decided, PostsMessage, SentBefore, Stored, IsMembership, IsSend, IsAck
<1>2. CASE revision' = revision + 1
  <2>. SUFFICES ASSUME Active(d)' PROVE SnapshotCurrentAt(d)'
    BY DEF SnapshotCurrentAt
  <2>1. Active(d) /\ snap'[d] = snap[d]
    BY DEF Kept, Active
  <2>2. snap[d].revision <= revision
    BY <2>1 DEF SnapshotCurrentAt
  <2>3. snap[d].revision \in Nat /\ revision \in Nat
    BY <2>1 DEF LocalsOK, LocalsOKAt, Snapshot, ValuesOK, StorageTypes
  <2>. QED  BY <1>2, <2>1, <2>2, <2>3 DEF SnapshotCurrentAt, RevisionHolds
<1>. QED  BY <1>1, <1>2

LEMMA DecisionKept ==
    ASSUME NEW d \in Calls, DecisionStandsAt(d), Kept(d), command' = command
    PROVE  DecisionStandsAt(d)'
  BY DEF DecisionStandsAt, Kept, Active, Decided, MembershipError, Acked,
     IsMembership, IsAck

LEMMA SnapshotOfStep ==
    ASSUME NEW c \in Calls, ValuesOK, LocalsOK, SnapshotCurrentAt(c),
           Step(c) \/ Unavailable(c) \/ LoseCommit(c) \/ Land(c)
    PROVE  SnapshotCurrentAt(c)'
<1>. USE DEF ValuesOK, CallTypes
<1>. SUFFICES ASSUME Active(c)' PROVE SnapshotCurrentAt(c)'
  BY DEF SnapshotCurrentAt
<1>1. ASSUME NEW e, NEW r PROVE ~Finish(c, e, r) /\ ~Retry(c)
  BY DEF Finish, Retry, Goto, Active
<1>2. UNCHANGED storage /\ command' = command
  <2>1. pc' # [pc EXCEPT ![c] = "done"]
    BY DEF Active
  <2>2. command' = command
    BY DEF Step, Unavailable, LoseCommit, Land, Load, ReadConflict, ReadMembership,
       VerifyRegistered, ReadSent, VerifyAttachments, ReadThrough, ReadReceipt,
       CommitTrue, CommitFalse
  <2>. QED  BY <2>1, <2>2, OnlyCommitsWrite
<1>3. /\ command'[c] = command[c] /\ revision' = revision /\ messages' = messages
      /\ receipts' = receipts /\ results' = results /\ group' = group
      /\ lastPosition' = lastPosition
  BY <1>2 DEF storage
<1>4. CASE Load(c)
  <2>1. /\ snap'[c] = [group |-> group, revision |-> revision,
                       lastPosition |-> lastPosition]
        /\ pc'[c] = "read" /\ found'[c] = None
    BY <1>1, <1>4 DEF Load, Proceed, Goto, LocalsOK, LocalsOKAt
  <2>2. revision \in Nat
    BY DEF StorageTypes
  <2>. QED  BY <1>3, <2>1, <2>2 DEF SnapshotCurrentAt, ReadsCurrentAt, RevisionHolds,
              Decided
<1>. SUFFICES ASSUME ~Load(c) PROVE SnapshotCurrentAt(c)'
  BY <1>4
<1>5. /\ snap'[c] = snap[c] /\ Active(c)
      /\ snap'[c].revision = snap[c].revision
  BY <1>1 DEF Step, Unavailable, LoseCommit, Land, ReadConflict, ReadMembership,
     VerifyRegistered, ReadSent, VerifyAttachments, ReadThrough, ReadReceipt,
     CommitTrue, CommitFalse, Post, Proceed, Goto, Forget, Active, locals
<1>6. /\ snap[c].revision <= revision
      /\ RevisionHolds(c) => /\ snap[c].group = group
                             /\ snap[c].lastPosition = lastPosition
                             /\ ~StaleReads => ReadsCurrentAt(c)
      /\ RevisionHolds(c)' <=> RevisionHolds(c)
  BY <1>3, <1>5 DEF SnapshotCurrentAt, RevisionHolds
<1>. SUFFICES ASSUME RevisionHolds(c), ~StaleReads, ReadsCurrentAt(c)
              PROVE  ReadsCurrentAt(c)'
  BY <1>3, <1>5, <1>6 DEF SnapshotCurrentAt
<1>7. CASE ReadMembership(c)
  <2>1. results[command[c].id] = None
    BY <1>1, <1>7 DEF ReadMembership, ReadResults
  <2>2. found'[c] = found[c] /\ IsMembership(c)'
    BY <1>1, <1>3, <1>7 DEF ReadMembership, IsMembership
  <2>. QED  BY <1>3, <2>1, <2>2 DEF ReadsCurrentAt, IsMembership, PostsMessage,
              IsSend, IsAck
<1>8. CASE /\ pc[c] = "verify" \/ pc[c] = "commit"
           /\ UNCHANGED locals
  <2>1. /\ found'[c] = found[c] /\ watermark'[c] = watermark[c] /\ Decided(c)
        /\ SentBefore(c)' = SentBefore(c)
    BY <1>3, <1>8 DEF locals, Decided, SentBefore, Stored
  <2>. QED  BY <1>3, <2>1 DEF ReadsCurrentAt, IsMembership, IsSend, IsAck, PostsMessage
<1>9. CASE VerifyRegistered(c) \/ VerifyAttachments(c) \/ LoseCommit(c)
  BY <1>1, <1>8, <1>9 DEF VerifyRegistered, VerifyAttachments, Post, LoseCommit
<1>10. CASE ReadSent(c)
  <2>0. IsSend(c)' /\ ~IsMembership(c)' /\ ~IsAck(c)'
    BY <1>3, <1>10 DEF ReadSent, IsSend, IsMembership, IsAck
  <2>1. ASSUME NEW m \in SentBefore(c),
               found' = [found EXCEPT ![c] = [id |-> m, value |-> messages[m]]]
        PROVE  ReadsCurrentAt(c)'
    <3>1. [id |-> m, value |-> messages[m]] \in Found
      BY <2>1 DEF SentBefore, Stored, StorageTypes, Found
    <3>2. found'[c] = [id |-> m, value |-> messages[m]] /\ found'[c] # None
      BY <2>1, <3>1, NoneAssumption
    <3>. QED  BY <1>3, <2>0, <3>2 DEF ReadsCurrentAt, PostsMessage
  <2>2. CASE SentBefore(c) = {} /\ UNCHANGED locals
    <3>1. SentBefore(c)' = {} /\ found'[c] = None
      BY <1>3, <1>10, <2>2 DEF SentBefore, Stored, locals, ReadSent, LocalsOK, LocalsOKAt
    <3>. QED  BY <2>0, <3>1 DEF ReadsCurrentAt
  <2>. QED  BY <1>1, <1>10, <2>1, <2>2 DEF ReadSent, Post
<1>11. CASE ReadThrough(c)
  <2>0. IsAck(c)' /\ ~IsMembership(c)' /\ ~IsSend(c)' /\ ~Decided(c)'
    BY <1>3, <1>11 DEF ReadThrough, IsSend, IsMembership, IsAck, Proceed, Goto, Decided
  <2>1. found'[c] # None =>
          found'[c] = [id |-> command[c].message, value |-> messages[command[c].message]]
    BY <1>11 DEF ReadThrough, ReadResults
  <2>. QED  BY <1>3, <2>0, <2>1 DEF ReadsCurrentAt
<1>12. CASE ReadReceipt(c)
  <2>0. /\ IsAck(c) /\ IsAck(c)' /\ ~IsMembership(c)' /\ ~IsSend(c)'
        /\ found'[c] = found[c]
    BY <1>1, <1>3, <1>12 DEF ReadReceipt, IsSend, IsMembership, IsAck, LocalsOK, LocalsOKAt
  <2>1. \E created \in Clock :
          watermark'[c] = IF receipts[command[c].actor] = None
                          THEN EmptyReceipt(c, created)
                          ELSE receipts[command[c].actor]
    BY <1>1, <1>12 DEF ReadReceipt, ReadResults
  <2>2. receipts[command[c].actor] = None => watermark'[c].version = 1
    BY <2>1 DEF EmptyReceipt
  <2>3. receipts[command[c].actor] # None =>
          watermark'[c] = receipts[command[c].actor]
    BY <2>1
  <2>. QED  BY <1>3, <2>0, <2>2, <2>3 DEF ReadsCurrentAt, PostsMessage
<1>. QED  BY <1>1, <1>7, <1>9, <1>10, <1>11, <1>12 DEF Step, Unavailable, Land,
            CommitTrue, CommitFalse, ReadConflict, Goto, Active

LEMMA DecisionOfStep ==
    ASSUME NEW c \in Calls, ValuesOK, LocalsOK, DecisionStandsAt(c),
           Step(c) \/ Unavailable(c) \/ LoseCommit(c) \/ Land(c)
    PROVE  DecisionStandsAt(c)'
<1>. USE DEF ValuesOK, CallTypes
<1>. SUFFICES ASSUME Active(c)' PROVE DecisionStandsAt(c)'
  BY DEF DecisionStandsAt, Active, Decided
<1>1. ASSUME NEW e, NEW r PROVE ~Finish(c, e, r) /\ ~Retry(c)
  BY DEF Finish, Retry, Goto, Active
<1>2. /\ command'[c] = command[c]
      /\ IsMembership(c)' <=> IsMembership(c)
      /\ IsAck(c)' <=> IsAck(c)
  <2>1. command' = command
    BY DEF Step, Unavailable, LoseCommit, Land, Load, ReadConflict, ReadMembership,
       VerifyRegistered, ReadSent, VerifyAttachments, ReadThrough, ReadReceipt,
       CommitTrue, CommitFalse
  <2>. QED  BY <2>1 DEF IsMembership, IsAck
<1>3. CASE Load(c)
  BY <1>1, <1>2, <1>3 DEF Load, Proceed, Goto, DecisionStandsAt, Decided
<1>4. CASE ReadMembership(c)
  <2>1. PICK instant \in Clock :
          /\ MembershipError(c, instant) = Ok
          /\ now' = [now EXCEPT ![c] = instant]
          /\ Proceed(c, IF command[c].kind = "add" THEN "verify" ELSE "commit")
          /\ UNCHANGED <<snap, found, watermark>>
    BY <1>1, <1>4 DEF ReadMembership
  <2>2. IsMembership(c) /\ ~IsAck(c) /\ now'[c] = instant
    BY <1>4, <2>1 DEF ReadMembership, IsMembership, IsAck
  <2>3. MembershipError(c, now[c])' = Ok
    BY <1>2, <2>1, <2>2 DEF MembershipError
  <2>. QED  BY <1>2, <2>1, <2>2, <2>3 DEF DecisionStandsAt, Proceed, Goto
<1>5. CASE /\ UNCHANGED locals /\ Active(c)
           /\ pc[c] \in {"verify", "commit"} \/ ~IsMembership(c)
           /\ pc'[c] \in {"commit", "limbo"} =>
                \/ pc[c] = "commit"
                \/ pc[c] = "verify" /\ (IsMembership(c) => command[c].user \in Registered)
                \/ ~IsMembership(c) /\ ~IsAck(c)
  <2>1. /\ snap'[c] = snap[c] /\ found'[c] = found[c] /\ now'[c] = now[c]
        /\ watermark'[c] = watermark[c]
    BY <1>5 DEF locals
  <2>2. pc[c] = "verify" => ~IsAck(c)
    BY DEF LocalsOK, LocalsOKAt
  <2>3. command[c].kind = "add" => IsMembership(c)
    BY DEF IsMembership
  <2>. QED  BY <1>2, <1>5, <2>1, <2>2, <2>3 DEF DecisionStandsAt, Decided,
              MembershipError, Acked
<1>6. CASE VerifyRegistered(c) \/ LoseCommit(c)
  BY <1>1, <1>5, <1>6 DEF VerifyRegistered, LoseCommit, Active
<1>7. CASE VerifyAttachments(c)
  <2>1. pc[c] = "verify" /\ ~IsMembership(c)
    BY <1>7 DEF VerifyAttachments, IsSend, IsMembership
  <2>. QED  BY <1>1, <1>5, <1>7, <2>1 DEF VerifyAttachments, Post, Active
<1>8. CASE ReadSent(c)
  <2>1. pc[c] = "read" /\ ~IsMembership(c) /\ ~IsAck(c) /\ Active(c)
    BY <1>8 DEF ReadSent, IsSend, IsMembership, IsAck, Active
  <2>2. snap' = snap
    BY <1>1, <1>8 DEF ReadSent, Post, locals
  <2>3. command[c].kind # "add"
    BY <2>1 DEF IsMembership
  <2>. QED  BY <1>2, <2>1, <2>2, <2>3 DEF DecisionStandsAt
<1>9. CASE ReadThrough(c)
  BY <1>2, <1>9 DEF ReadThrough, Proceed, Goto, DecisionStandsAt, Active, Decided,
     IsAck, IsMembership
<1>10. CASE ReadReceipt(c)
  <2>1. /\ pc[c] = "receipt" /\ IsAck(c) /\ ~IsMembership(c) /\ Active(c)
        /\ command[c].kind # "add"
    BY <1>10 DEF ReadReceipt, LocalsOK, LocalsOKAt, IsAck, IsMembership, Active
  <2>2. PICK w \in ReadResults(receipts[command[c].actor]),
             created \in Clock, instant \in Clock :
            LET base  == IF w = None THEN EmptyReceipt(c, created) ELSE w
                error == AckError(base, snap[c].group, command[c].actor,
                                  command[c].kind,
                                  CheckpointOf(found[c].id, found[c].value),
                                  found[c].value.sender, instant)
            IN  IF error # Ok THEN Finish(c, error, None)
                ELSE /\ watermark' = [watermark EXCEPT ![c] = base]
                     /\ now' = [now EXCEPT ![c] = instant]
                     /\ Proceed(c, "commit")
                     /\ UNCHANGED <<snap, found>>
    BY <1>1, <1>10 DEF ReadReceipt
  <2>. DEFINE base  == IF w = None THEN EmptyReceipt(c, created) ELSE w
  <2>. HIDE DEF base
  <2>3. /\ AckError(base, snap[c].group, command[c].actor, command[c].kind,
                    Acked(c), found[c].value.sender, instant) = Ok
        /\ watermark' = [watermark EXCEPT ![c] = base]
        /\ now' = [now EXCEPT ![c] = instant]
        /\ UNCHANGED <<snap, found>>
    BY <1>1, <2>2 DEF base, Acked
  <2>4. /\ watermark'[c] = base /\ now'[c] = instant
        /\ Acked(c)' = Acked(c)
    BY <2>3 DEF Acked
  <2>5. AckError(watermark'[c], snap'[c].group, command'[c].actor, command'[c].kind,
                 Acked(c)', found'[c].value.sender, now'[c]) = Ok
    BY <1>2, <2>3, <2>4
  <2>. QED  BY <1>2, <2>1, <2>3, <2>5 DEF DecisionStandsAt
<1>. QED  BY <1>1, <1>3, <1>4, <1>6, <1>7, <1>8, <1>9, <1>10 DEF Step, Unavailable,
            Land, CommitTrue, CommitFalse, ReadConflict, Goto, Active

LEMMA InitSnapshots == Init => SnapshotCurrent /\ DecisionsStand
  BY DEF Init, SnapshotCurrent, SnapshotCurrentAt, DecisionsStand, DecisionStandsAt,
     Active, Decided

LEMMA NextSnapshots ==
    ASSUME ValuesOK, LocalsOK, SnapshotCurrent, DecisionsStand, [Next]_vars
    PROVE  SnapshotCurrent' /\ DecisionsStand'
<1>1. CASE UNCHANGED vars \/ Settled \/ \E m \in MessageIds : EditMessage(m)
  <2>1. /\ command' = command
        /\ UNCHANGED storage \/ revision' = revision + 1
        /\ \A d \in Calls : Kept(d)
    BY <1>1 DEF vars, Settled, EditMessage, locals, Kept
  <2>2. ASSUME NEW d \in Calls PROVE SnapshotCurrentAt(d)' /\ DecisionStandsAt(d)'
    <3>1. SnapshotCurrentAt(d) /\ DecisionStandsAt(d)
      BY DEF SnapshotCurrent, DecisionsStand
    <3>2. Kept(d) /\ command' = command
      BY <2>1
    <3>3. DecisionStandsAt(d)'
      BY <3>1, <3>2, DecisionKept
    <3>. QED  BY <2>1, <3>1, <3>2, SnapshotKept, DecisionKept
  <2>. QED  BY <2>2 DEF SnapshotCurrent, DecisionsStand
<1>2. ASSUME NEW c \in Calls,
             Step(c) \/ Unavailable(c) \/ LoseCommit(c) \/ Land(c)
      PROVE  SnapshotCurrent' /\ DecisionsStand'
  <2>1. UNCHANGED storage \/ revision' = revision + 1
    BY <1>2, OnlyCommitsWrite DEF Apply, NextRevision
  <2>2. ASSUME NEW d \in Calls, d # c
        PROVE  SnapshotCurrentAt(d)' /\ DecisionStandsAt(d)'
    <3>1. Kept(d) /\ command' = command
      BY <1>2, <2>2, StepsKeepOthers
    <3>. QED  BY <2>1, <3>1, SnapshotKept, DecisionKept DEF SnapshotCurrent, DecisionsStand
  <2>3. SnapshotCurrentAt(c)' /\ DecisionStandsAt(c)'
    BY <1>2, SnapshotOfStep, DecisionOfStep DEF SnapshotCurrent, DecisionsStand
  <2>. QED  BY <2>2, <2>3 DEF SnapshotCurrent, DecisionsStand
<1>. QED  BY <1>1, <1>2 DEF Next

\* Whenever the revision of a snapshot still holds, the loaded group, position,
\* message, watermark and absent results are what is stored: every accepted
\* write, edits and fences included, moves the revision.
THEOREM SnapshotsCorrect == Spec => [](SnapshotCurrent /\ DecisionsStand)
<1>1. Init => TypeOK /\ SnapshotCurrent /\ DecisionsStand
  BY InitTypes, InitSnapshots DEF TypeOK
<1>2. TypeOK /\ SnapshotCurrent /\ DecisionsStand /\ [Next]_vars
        => (TypeOK /\ SnapshotCurrent /\ DecisionsStand)'
  BY NextTypes, NextSnapshots DEF TypeOK
<1>. QED  BY <1>1, <1>2, PTL DEF Spec

LEMMA CommitsOnSnapshot ==
    ASSUME NEW c \in Calls, TypeOK, SnapshotCurrent, DecisionsStand,
           pc[c] \in {"commit", "limbo"}, MayCommit(c)
    PROVE  /\ snap[c].group = group
           /\ snap[c].lastPosition = lastPosition
           /\ ~IsMembership(c) => command[c].actor \in group.members
           /\ IsMembership(c) => MembershipError(c, now[c]) = Ok
           /\ command[c].kind = "add" => command[c].user \in Registered
  BY DEF TypeOK, SnapshotCurrent, SnapshotCurrentAt, DecisionsStand, DecisionStandsAt,
     Active, Decided, MayCommit

\* What RightsHoldAtCommit asks of a step.
Right ==
    \A c \in Calls :
       /\ ~IsMembership(c) /\ ~Answered(c) /\ Answered(c)' =>
            /\ command[c].actor \in group.members
            /\ reply'[c].groupVersion = group.version
       /\ messages'[c] # messages[c] /\ ~Stored(c) =>
            command[c].actor \in group.members
       /\ receipts' # receipts => \A u \in Users :
            receipts'[u] # receipts[u] => u \in group.members

LEMMA RightsOfStep ==
    ASSUME TypeOK, SnapshotCurrent, DecisionsStand, [Next]_vars
    PROVE  [Right]_vars
<1>. SUFFICES ASSUME Next PROVE Right
  OBVIOUS
<1>. SUFFICES ASSUME NEW c \in Calls
     PROVE /\ ~IsMembership(c) /\ ~Answered(c) /\ Answered(c)' =>
                /\ command[c].actor \in group.members
                /\ reply'[c].groupVersion = group.version
           /\ messages'[c] # messages[c] /\ ~Stored(c) =>
                command[c].actor \in group.members
           /\ \A u \in Users : receipts'[u] # receipts[u] => u \in group.members
  BY DEF Right
<1>. USE DEF TypeOK, ValuesOK
<1>1. ASSUME NEW e \in Calls, Step(e) \/ Unavailable(e) \/ LoseCommit(e) \/ Land(e)
      PROVE  /\ messages'[c] # messages[c] /\ ~Stored(c) =>
                  command[c].actor \in group.members
             /\ \A u \in Users : receipts'[u] # receipts[u] => u \in group.members
  <2>1. CASE UNCHANGED storage
    BY <2>1 DEF storage
  <2>2. CASE pc[e] \in {"commit", "limbo"} /\ MayCommit(e) /\ Apply(e)
    <3>1. ~IsMembership(e) => command[e].actor \in group.members
      BY <2>2, CommitsOnSnapshot
    <3>2. messages'[c] # messages[c] => c = e /\ PostsMessage(e)
      BY <2>2 DEF Apply, StorageTypes
    <3>3. \A u \in Users : receipts'[u] # receipts[u] =>
                             u = command[e].actor /\ MovesReceipt(e)
      BY <2>2 DEF Apply, StorageTypes
    <3>. QED  BY <3>1, <3>2, <3>3 DEF PostsMessage, MovesReceipt, IsSend, IsAck,
                IsMembership
  <2>. QED  BY <1>1, <2>1, <2>2, OnlyCommitsWrite
<1>2. ASSUME NEW e \in Calls, Step(e) \/ Unavailable(e) \/ LoseCommit(e) \/ Land(e),
             ~IsMembership(c), ~Answered(c), Answered(c)'
      PROVE  command[c].actor \in group.members /\ reply'[c].groupVersion = group.version
  <2>1. CommitTrue(c)
    <3>. USE <1>2 DEF Answered, CallTypes, Finish, Ok, Goto, Retry, Proceed
    <3>1. CASE Load(e) \/ ReadThrough(e) \/ LoseCommit(e) \/ Land(e)
      BY <3>1 DEF Load, ReadThrough, LoseCommit, Land
    <3>2. CASE ReadConflict(e) \/ CommitFalse(e)
      BY <3>2 DEF ReadConflict, CommitFalse
    <3>3. CASE ReadMembership(e)
      BY <3>3 DEF ReadMembership
    <3>4. CASE VerifyRegistered(e) \/ Unavailable(e)
      BY <3>4 DEF VerifyRegistered, Unavailable
    <3>5. CASE ReadSent(e)
      BY <3>5 DEF ReadSent, Post
    <3>6. CASE VerifyAttachments(e)
      BY <3>6 DEF VerifyAttachments, Post
    <3>7. CASE ReadReceipt(e)
      BY <3>7 DEF ReadReceipt
    <3>8. CASE CommitTrue(e)
      BY <3>8 DEF CommitTrue
    <3>. QED  BY <3>1, <3>2, <3>3, <3>4, <3>5, <3>6, <3>7, <3>8 DEF Step
  <2>2. pc[c] = "commit" /\ MayCommit(c) /\ reply'[c] = Reply(c)
    BY <2>1 DEF CommitTrue, Finish, CallTypes
  <2>3. Reply(c).groupVersion = snap[c].group.version
    BY <1>2 DEF Reply
  <2>. QED  BY <1>2, <2>2, <2>3, CommitsOnSnapshot
<1>3. ASSUME NEW m \in MessageIds, EditMessage(m)
      PROVE  /\ messages'[c] # messages[c] => Stored(c)
             /\ receipts' = receipts /\ status' = status
  BY <1>3, CallsAssumption DEF EditMessage, StorageTypes, Stored
<1>4. CASE Settled
  BY <1>4 DEF Settled, vars, storage, Answered
<1>. QED  BY <1>1, <1>2, <1>3, <1>4 DEF Next, Answered

\* Sends, ACKs and their replays are granted, and messages and watermarks are
\* written, only while the actor is a member, under the version answered (ADR
\* 0001): the right checked on an old snapshot is the right at the write.
THEOREM RightsCorrect == Spec => RightsHoldAtCommit
<1>1. TypeOK /\ SnapshotCurrent /\ DecisionsStand /\ [Next]_vars => [Right]_vars
  BY RightsOfStep
<1>2. Init => TypeOK /\ SnapshotCurrent /\ DecisionsStand
  BY InitTypes, InitSnapshots DEF TypeOK
<1>3. TypeOK /\ SnapshotCurrent /\ DecisionsStand /\ [Next]_vars
        => (TypeOK /\ SnapshotCurrent /\ DecisionsStand)'
  BY NextTypes, NextSnapshots DEF TypeOK
<1>. QED  BY <1>1, <1>2, <1>3, PTL DEF Spec, RightsHoldAtCommit, Right
------------------------------------------------------------------------------
(* Membership *)

LEMMA WithMemberFields ==
    ASSUME NEW gr \in GroupDialog, NEW u, NEW t
    PROVE  /\ WithMember(gr, u, t).members = gr.members \cup {u}
           /\ WithMember(gr, u, t).owner = gr.owner
           /\ WithMember(gr, u, t).title = gr.title
           /\ WithMember(gr, u, t).avatar = gr.avatar
           /\ WithMember(gr, u, t).version = gr.version + 1
           /\ WithMember(gr, u, t).updatedAt = t
  BY DEF WithMember, Touched, GroupDialog

LEMMA WithoutMemberFields ==
    ASSUME NEW gr \in GroupDialog, NEW u, NEW t
    PROVE  /\ WithoutMember(gr, u, t).members = gr.members \ {u}
           /\ WithoutMember(gr, u, t).owner = gr.owner
           /\ WithoutMember(gr, u, t).title = gr.title
           /\ WithoutMember(gr, u, t).avatar = gr.avatar
           /\ WithoutMember(gr, u, t).version = gr.version + 1
           /\ WithoutMember(gr, u, t).updatedAt = t
  BY DEF WithoutMember, Touched, GroupDialog

\* What an accepted membership command does to the stored group.
LEMMA MembershipEffect ==
    ASSUME NEW c \in Calls, TypeOK, SnapshotCurrent, DecisionsStand,
           IsFiniteSet(group.members),
           pc[c] \in {"commit", "limbo"}, MayCommit(c), Apply(c), IsMembership(c)
    PROVE  LET user == command[c].user IN
           /\ user \in Users
           /\ group' = NewGroup(c)
           /\ group'.owner = group.owner
           /\ group'.title = group.title /\ group'.avatar = group.avatar
           /\ group'.version = group.version + 1
           /\ group'.updatedAt >= group.updatedAt
           /\ \/ /\ user \notin group.members /\ user \in Registered
                 /\ group'.members = group.members \cup {user}
                 /\ Cardinality(group'.members) <= MaxGroupMembers
              \/ /\ user \in group.members /\ user # group.owner
                 /\ group'.members = group.members \ {user}
<1>1. /\ group \in GroupDialog /\ now[c] \in Nat /\ command[c].user \in Users
      /\ command[c].kind \in {"add", "remove"}
  BY CommandKinds DEF TypeOK, ValuesOK, StorageTypes, CallTypes, MembershipCommand
<1>2. /\ group' = NewGroup(c) /\ snap[c].group = group
      /\ MembershipError(c, now[c]) = Ok
      /\ command[c].kind = "add" => command[c].user \in Registered
  BY CommitsOnSnapshot DEF Apply
<1>3. group.updatedAt \in Nat
  BY <1>1 DEF GroupDialog
<1>4. CASE command[c].kind = "add"
  <2>1. AddMemberError(group, command[c].actor, command[c].user, now[c]) = Ok
    BY <1>2, <1>4 DEF MembershipError
  <2>2. /\ command[c].user \notin group.members
        /\ ~(Cardinality(group.members \cup {command[c].user}) > MaxGroupMembers)
        /\ ~(now[c] < group.updatedAt)
    BY <2>1 DEF AddMemberError, Ok
  <2>3. group' = WithMember(group, command[c].user, now[c])
    BY <1>2, <1>4 DEF NewGroup
  <2>4. /\ group'.members = group.members \cup {command[c].user}
        /\ group'.owner = group.owner /\ group'.version = group.version + 1
        /\ group'.title = group.title /\ group'.avatar = group.avatar
        /\ group'.updatedAt = now[c]
    BY <1>1, <2>3, WithMemberFields
  <2>5. Cardinality(group'.members) <= MaxGroupMembers
    <3>1. Cardinality(group.members \cup {command[c].user}) \in Nat
      BY FS_AddElement, FS_CardinalityType
    <3>. QED  BY <2>2, <2>4, <3>1, GroupDomainAssumption
  <2>6. group'.updatedAt >= group.updatedAt
    BY <1>1, <1>3, <2>2, <2>4
  <2>. QED  BY <1>1, <1>2, <1>4, <2>2, <2>4, <2>5, <2>6
<1>5. CASE command[c].kind = "remove"
  <2>1. RemoveMemberError(group, command[c].actor, command[c].user, now[c]) = Ok
    BY <1>2, <1>5 DEF MembershipError
  <2>2. /\ command[c].user \in group.members /\ command[c].user # group.owner
        /\ ~(now[c] < group.updatedAt)
    BY <2>1 DEF RemoveMemberError, Ok
  <2>3. group' = WithoutMember(group, command[c].user, now[c])
    BY <1>2, <1>5 DEF NewGroup
  <2>4. /\ group'.members = group.members \ {command[c].user}
        /\ group'.owner = group.owner /\ group'.version = group.version + 1
        /\ group'.title = group.title /\ group'.avatar = group.avatar
        /\ group'.updatedAt = now[c]
    BY <1>1, <2>3, WithoutMemberFields
  <2>5. group'.updatedAt >= group.updatedAt
    BY <1>1, <1>3, <2>2, <2>4
  <2>. QED  BY <1>1, <1>2, <2>2, <2>4, <2>5
<1>. QED  BY <1>1, <1>4, <1>5

GroupSafe == IsFiniteSet(group.members) /\ GroupSound

LEMMA InitGroup == Init => GroupSafe /\ MembershipAppliedOnce
<1>. SUFFICES ASSUME Init PROVE GroupSafe /\ MembershipAppliedOnce
  OBVIOUS
<1>1. group.members = InitialMembers /\ group.owner = Owner /\ group.version = 1
  BY DEF Init
<1>2. \A k \in CommandIds : results[k] = None
  BY DEF Init
<1>. QED  BY <1>1, <1>2, GroupAssumption DEF GroupSafe, GroupSound, MembershipAppliedOnce

LEMMA ApplyGroupSafe ==
    ASSUME NEW c \in Calls, TypeOK, SnapshotCurrent, DecisionsStand,
           pc[c] \in {"commit", "limbo"}, MayCommit(c), Apply(c), GroupSafe
    PROVE  GroupSafe'
<1>1. CASE ~IsMembership(c)
  BY <1>1 DEF Apply, GroupSafe, GroupSound
<1>2. CASE IsMembership(c)
  <2>. DEFINE user == command[c].user
  <2>1. /\ group'.owner = group.owner
        /\ \/ /\ user \notin group.members /\ user \in Registered
              /\ group'.members = group.members \cup {user}
              /\ Cardinality(group'.members) <= MaxGroupMembers
           \/ /\ user \in group.members /\ user # group.owner
              /\ group'.members = group.members \ {user}
    BY <1>2, MembershipEffect DEF GroupSafe
  <2>2. CASE /\ user \notin group.members /\ user \in Registered
             /\ group'.members = group.members \cup {user}
             /\ Cardinality(group'.members) <= MaxGroupMembers
    BY <2>1, <2>2, FS_AddElement DEF GroupSafe, GroupSound
  <2>3. CASE /\ user \in group.members /\ user # group.owner
             /\ group'.members = group.members \ {user}
    <3>1. /\ IsFiniteSet(group'.members)
          /\ Cardinality(group'.members) <= Cardinality(group.members)
      BY <2>3, FS_Subset DEF GroupSafe
    <3>2. /\ Cardinality(group'.members) \in Nat
          /\ Cardinality(group.members) \in Nat
      BY <3>1, FS_CardinalityType DEF GroupSafe
    <3>3. Cardinality(group'.members) <= MaxGroupMembers
      BY <3>1, <3>2, GroupDomainAssumption DEF GroupSafe, GroupSound
    <3>. QED  BY <2>1, <2>3, <3>1, <3>3 DEF GroupSafe, GroupSound
  <2>. QED  BY <2>1, <2>2, <2>3
<1>. QED  BY <1>1, <1>2

LEMMA ApplyOnce ==
    ASSUME NEW c \in Calls, TypeOK, SnapshotCurrent, DecisionsStand,
           pc[c] \in {"commit", "limbo"}, MayCommit(c), Apply(c),
           GroupSafe, MembershipAppliedOnce
    PROVE  MembershipAppliedOnce'
<1>1. CASE ~IsMembership(c)
  BY <1>1 DEF Apply, NextResults, MembershipAppliedOnce
<1>2. CASE IsMembership(c)
  <2>. DEFINE id == command[c].id
  <2>1. group' = NewGroup(c) /\ group'.version = group.version + 1
    BY <1>2, MembershipEffect DEF GroupSafe
  <2>3. /\ results \in [CommandIds -> Acceptance \cup {None}]
        /\ id \in CommandIds /\ results[id] = None
        /\ group.version \in Nat \ {0}
    <3>1. command[c] \in MembershipCommand
      BY <1>2, CommandKinds DEF TypeOK, ValuesOK, CallTypes
    <3>2. group.version \in Nat \ {0}
      BY DEF TypeOK, ValuesOK, StorageTypes, GroupDialog
    <3>. QED  BY <1>2, <3>1, <3>2 DEF MayCommit, CommandUnused, MembershipCommand,
                TypeOK, ValuesOK, StorageTypes
  <2>4. results' = [results EXCEPT ![id] =
                      [intent |-> Intent(command[c]), result |-> NewGroup(c)]]
    BY <1>2 DEF Apply, NextResults
  <2>5. [intent |-> Intent(command[c]), result |-> NewGroup(c)] # None
    <3>1. command[c] \in MembershipCommand
      BY <1>2, CommandKinds DEF TypeOK, ValuesOK, CallTypes
    <3>2. NewGroup(c) \in GroupDialog
      BY <1>2, MutationTypes DEF TypeOK
    <3>3. [intent |-> Intent(command[c]), result |-> NewGroup(c)] \in Acceptance
      BY <1>2, <3>1, <3>2 DEF Intent, Acceptance, MembershipCommand, IsMembership
    <3>. QED  BY <3>3, NoneAssumption
  <2>6. /\ results'[id] # None
        /\ results'[id].result.version = group.version + 1
        /\ \A k \in CommandIds : k # id => results'[k] = results[k]
    BY <2>1, <2>3, <2>4, <2>5
  <2>. HIDE DEF id
  <2>7. MembershipAppliedOnce'
    <3>1. \A k \in CommandIds :
            results'[k] # None => results'[k].result.version \in 2..group'.version
      BY <2>1, <2>3, <2>6 DEF MembershipAppliedOnce
    <3>2. ASSUME NEW j \in CommandIds, NEW k \in CommandIds,
                 results'[j] # None, results'[k] # None, j # k
          PROVE  results'[j].result.version # results'[k].result.version
      <4>1. CASE j # id /\ k # id
        BY <2>6, <3>2, <4>1 DEF MembershipAppliedOnce
      <4>2. CASE j = id
        BY <2>3, <2>6, <3>2, <4>2 DEF MembershipAppliedOnce
      <4>3. CASE k = id
        BY <2>3, <2>6, <3>2, <4>3 DEF MembershipAppliedOnce
      <4>. QED  BY <4>1, <4>2, <4>3
    <3>3. ASSUME NEW v \in 2..group'.version
          PROVE  \E k \in CommandIds :
                   results'[k] # None /\ results'[k].result.version = v
      <4>1. CASE v = group.version + 1
        BY <2>3, <2>6, <4>1
      <4>2. CASE v # group.version + 1
        <5>1. v \in 2..group.version
          BY <2>1, <2>3, <3>3, <4>2
        <5>2. PICK k \in CommandIds : results[k] # None /\ results[k].result.version = v
          BY <5>1 DEF MembershipAppliedOnce
        <5>. QED  BY <2>3, <2>6, <5>2
      <4>. QED  BY <4>1, <4>2
    <3>. QED  BY <3>1, <3>2, <3>3 DEF MembershipAppliedOnce
  <2>. QED  BY <2>7
<1>. QED  BY <1>1, <1>2

\* The invariant the membership theorems share.
MembershipInv == /\ TypeOK /\ SnapshotCurrent /\ DecisionsStand
                 /\ GroupSafe /\ MembershipAppliedOnce

LEMMA InitMembership == Init => MembershipInv
  BY InitTypes, InitSnapshots, InitGroup DEF TypeOK, MembershipInv

LEMMA NextMembership ==
    ASSUME MembershipInv, [Next]_vars
    PROVE  MembershipInv'
<1>. USE DEF MembershipInv
<1>1. TypeOK' /\ SnapshotCurrent' /\ DecisionsStand'
  BY NextTypes, NextSnapshots DEF TypeOK
<1>2. CASE UNCHANGED <<group, results>>
  BY <1>1, <1>2 DEF GroupSafe, GroupSound, MembershipAppliedOnce
<1>3. CASE UNCHANGED vars \/ Settled \/ \E m \in MessageIds : EditMessage(m)
  BY <1>2, <1>3 DEF vars, storage, Settled, EditMessage
<1>4. ASSUME NEW c \in Calls,
             Step(c) \/ Unavailable(c) \/ LoseCommit(c) \/ Land(c)
      PROVE  MembershipInv'
  <2>1. CASE UNCHANGED storage
    BY <1>2, <2>1 DEF storage
  <2>2. CASE pc[c] \in {"commit", "limbo"} /\ MayCommit(c) /\ Apply(c)
    BY <1>1, <2>2, ApplyGroupSafe, ApplyOnce
  <2>. QED  BY <1>4, <2>1, <2>2, OnlyCommitsWrite
<1>. QED  BY <1>3, <1>4 DEF Next

\* The owner stays, the limit holds and only confirmed users are in, whatever
\* adds and removes race on old snapshots.
THEOREM GroupCorrect == Spec => []GroupSound
<1>1. MembershipInv => GroupSound
  BY DEF MembershipInv, GroupSafe
<1>. QED  BY <1>1, InitMembership, NextMembership, PTL DEF Spec

\* Membership versions and accepted command ids are in one-to-one
\* correspondence: no retry applies its change a second time.
THEOREM MembershipOnceCorrect == Spec => []MembershipAppliedOnce
<1>1. MembershipInv => MembershipAppliedOnce
  BY DEF MembershipInv
<1>. QED  BY <1>1, InitMembership, NextMembership, PTL DEF Spec

\* Every change of the group is the next version, changes one member and never
\* goes back in time, for any readings of the handlers' clocks.
THEOREM GroupHistoryCorrect == Spec => GroupHistoryLinear
<1>. DEFINE Linear ==
       group' # group =>
          /\ group'.version = group.version + 1
          /\ group'.updatedAt >= group.updatedAt
          /\ \E u \in Users :
               group'.members = IF u \in group.members THEN group.members \ {u}
                                ELSE group.members \cup {u}
<1>1. MembershipInv /\ [Next]_vars => [Linear]_vars
  <2>. SUFFICES ASSUME MembershipInv, Next, group' # group PROVE Linear
    OBVIOUS
  <2>1. PICK c \in Calls : pc[c] \in {"commit", "limbo"} /\ MayCommit(c) /\ Apply(c)
    <3>1. ~Settled /\ ~\E m \in MessageIds : EditMessage(m)
      BY DEF Settled, vars, storage, EditMessage
    <3>. QED  BY <3>1, OnlyCommitsWrite DEF Next, storage
  <2>2. IsMembership(c)
    BY <2>1 DEF Apply
  <2>. QED  BY <2>1, <2>2, MembershipEffect DEF MembershipInv, GroupSafe
<1>. QED  BY <1>1, InitMembership, NextMembership, PTL DEF Spec, GroupHistoryLinear
------------------------------------------------------------------------------

(* Messages.  Once accepted, a message keeps everything but its text and its *)
(* version.                                                                  *)

SameMessage(m, n) == /\ m.position = n.position /\ m.sender = n.sender
                     /\ m.client = n.client
                     /\ m.content.attachments = n.content.attachments

Persists(m) == Stored(m) => Stored(m)' /\ SameMessage(messages'[m], messages[m])

LEMMA MessagesPersist ==
    ASSUME ValuesOK, LocalsOK, [Next]_vars, NEW m \in MessageIds
    PROVE  Persists(m)
<1>. USE DEF Persists, SameMessage
<1>1. CASE UNCHANGED storage
  BY <1>1 DEF storage, Stored
<1>2. CASE UNCHANGED vars \/ Settled
  BY <1>1, <1>2 DEF vars, Settled
<1>3. ASSUME NEW e \in MessageIds, EditMessage(e) PROVE Persists(m)
  <2>1. PICK text \in Texts : messages' = [messages EXCEPT ![e] = Edited(@, text)]
    BY <1>3 DEF EditMessage
  <2>2. messages \in [MessageIds -> Message \cup {None}] /\ messages[e] \in Message
    BY <1>3 DEF EditMessage, Stored, ValuesOK, StorageTypes
  <2>3. /\ Edited(messages[e], text) # None
        /\ SameMessage(Edited(messages[e], text), messages[e])
    <3>1. Edited(messages[e], text) # None
      BY <2>2, EditedType, NoneAssumption
    <3>. QED  BY <2>2, <3>1 DEF Edited, Message, Content
  <2>. QED  BY <2>1, <2>2, <2>3 DEF Stored
<1>4. ASSUME NEW c \in Calls,
             Step(c) \/ Unavailable(c) \/ LoseCommit(c) \/ Land(c)
      PROVE  Persists(m)
  <2>1. CASE MayCommit(c) /\ Apply(c)
    <3>1. /\ messages \in [MessageIds -> Message \cup {None}]
          /\ \/ messages' = messages
             \/ ~Stored(c) /\ messages' = [messages EXCEPT ![c] = NewMessage(c)]
      BY <2>1 DEF MayCommit, MessageFollows, Apply, ValuesOK, StorageTypes
    <3>. QED  BY <3>1 DEF Stored
  <2>. QED  BY <1>1, <1>4, <2>1, OnlyCommitsWrite
<1>. QED  BY <1>2, <1>3, <1>4 DEF Next

\* What was read as a message is stored and still the same message, of the id
\* an ACK names, or under the send key and with the attachments of a send.
FoundOK(c) ==
    found[c] # None =>
      /\ found[c].id \in MessageIds /\ Stored(found[c].id)
      /\ SameMessage(messages[found[c].id], found[c].value)
      /\ IsAck(c) => found[c].id = command[c].message
      /\ IsSend(c) =>
           /\ SameSendKey(found[c].value, command[c].actor, command[c].client)
           /\ found[c].value.content.attachments = command[c].content.attachments

LEMMA FoundKept ==
    ASSUME NEW d \in Calls, FoundOK(d), found'[d] = found[d], command' = command,
           \A m \in MessageIds : Persists(m)
    PROVE  FoundOK(d)'
  BY DEF FoundOK, Persists, SameMessage, IsAck, IsSend

LEMMA FoundOfStep ==
    ASSUME NEW c \in Calls, ValuesOK, LocalsOK, FoundOK(c),
           \A m \in MessageIds : Persists(m),
           Step(c) \/ Unavailable(c) \/ LoseCommit(c) \/ Land(c)
    PROVE  FoundOK(c)'
<1>. USE DEF ValuesOK, CallTypes
<1>1. command' = command
  BY DEF Step, Unavailable, LoseCommit, Land, Load, ReadConflict, ReadMembership,
     VerifyRegistered, ReadSent, VerifyAttachments, ReadThrough, ReadReceipt,
     CommitTrue, CommitFalse
<1>2. CASE found'[c] = None
  BY <1>2 DEF FoundOK
<1>3. CASE found'[c] = found[c]
  BY <1>1, <1>3, FoundKept
<1>4. ASSUME NEW s, NEW r, Finish(c, s, r) \/ Retry(c) PROVE found'[c] = None
  BY <1>4 DEF Finish, Retry, Forget
<1>5. CASE ReadSent(c)
  <2>1. ASSUME NEW m \in SentBefore(c),
               ~ReplayConflict(messages[m], command[c].content),
               found' = [found EXCEPT ![c] = [id |-> m, value |-> messages[m]]],
               messages' = messages
        PROVE  FoundOK(c)'
    <3>1. found'[c] = [id |-> m, value |-> messages[m]]
      BY <2>1
    <3>2. IsSend(c)' /\ ~IsAck(c)'
      BY <1>1, <1>5 DEF ReadSent, IsSend, IsAck
    <3>. QED  BY <1>1, <2>1, <3>1, <3>2 DEF FoundOK, SentBefore, Stored, SameMessage,
                ReplayConflict
  <2>. QED  BY <1>2, <1>3, <1>4, <1>5, <2>1 DEF ReadSent, Post, storage, locals
<1>6. CASE ReadThrough(c)
  <2>1. PICK m \in ReadResults(messages[command[c].message]) :
          found' = [found EXCEPT ![c] =
                      IF m = None THEN None
                      ELSE [id |-> command[c].message, value |-> m]]
    BY <1>6 DEF ReadThrough
  <2>2. CASE m = None
    BY <1>2, <2>1, <2>2
  <2>3. CASE m # None
    <3>1. /\ m = messages[command[c].message] /\ command[c].message \in MessageIds
          /\ messages' = messages
      BY <1>6, <2>3, CommandKinds DEF ReadThrough, ReadResults, AckCommand, storage
    <3>2. found'[c] = [id |-> command[c].message, value |-> m]
      BY <2>1, <2>3
    <3>3. IsAck(c)' /\ ~IsSend(c)'
      BY <1>1, <1>6 DEF ReadThrough, IsSend, IsAck
    <3>. QED  BY <1>1, <2>3, <3>1, <3>2, <3>3 DEF FoundOK, Stored, SameMessage
  <2>. QED  BY <2>2, <2>3
<1>. QED  BY <1>2, <1>3, <1>4, <1>5, <1>6 DEF Step, Unavailable, LoseCommit, Land,
            Load, ReadConflict, ReadMembership, VerifyRegistered, VerifyAttachments,
            ReadReceipt, CommitTrue, CommitFalse, Post, Forget, locals
------------------------------------------------------------------------------
(* Watermarks. *)

LEMMA AdvancedFields ==
    ASSUME NEW w \in ReceiptWatermark, NEW kind \in {"read", "delivered"},
           NEW cp \in Checkpoint, NEW t, AckChanges(w, kind, cp)
    PROVE  LET n == Advanced(w, kind, cp, t) IN
           /\ n.id = w.id /\ n.version = w.version + 1 /\ n.updatedAt = t
           /\ kind = "read" =>
                /\ n.read = cp
                /\ n.delivered = IF Covers(w.delivered, cp) THEN w.delivered ELSE cp
           /\ kind = "delivered" => n.read = w.read /\ n.delivered = cp
<1>. DEFINE d == IF Covers(w.delivered, cp) THEN w.delivered ELSE cp
<1>1. CASE kind = "read"
  <2>. HIDE DEF d
  <2>1. PICK e : e = [w EXCEPT !.read = cp, !.delivered = d]
    OBVIOUS
  <2>2. /\ e.id = w.id /\ e.version = w.version /\ e.read = cp /\ e.delivered = d
        /\ e = [id |-> w.id, delivered |-> d, read |-> cp, version |-> w.version,
                updatedAt |-> w.updatedAt]
    BY <2>1 DEF ReceiptWatermark
  <2>3. Advanced(w, kind, cp, t) = Touched(e, t)
    BY <1>1, <2>1 DEF Advanced, d
  <2>4. /\ Touched(e, t).id = w.id /\ Touched(e, t).version = w.version + 1
        /\ Touched(e, t).updatedAt = t
        /\ Touched(e, t).read = cp /\ Touched(e, t).delivered = d
    BY <2>2 DEF Touched
  <2>. QED  BY <1>1, <2>3, <2>4 DEF d
<1>2. CASE kind = "delivered"
  <2>1. PICK e : e = [w EXCEPT !.delivered = cp]
    OBVIOUS
  <2>2. e = [id |-> w.id, delivered |-> cp, read |-> w.read, version |-> w.version,
             updatedAt |-> w.updatedAt]
    BY <2>1 DEF ReceiptWatermark
  <2>3. Advanced(w, kind, cp, t) = Touched(e, t)
    BY <1>2, <2>1 DEF Advanced
  <2>4. /\ Touched(e, t).id = w.id /\ Touched(e, t).version = w.version + 1
        /\ Touched(e, t).updatedAt = t
        /\ Touched(e, t).read = w.read /\ Touched(e, t).delivered = cp
    BY <2>2 DEF Touched
  <2>. QED  BY <1>2, <2>3, <2>4
<1>. QED  BY <1>1, <1>2

\* A watermark's boundaries are stored messages of other authors than u.
Boundary(cp, u) ==
    \/ cp = NoCheckpoint
    \/ /\ cp.message \in MessageIds /\ Stored(cp.message)
       /\ messages[cp.message].position = cp.position
       /\ messages[cp.message].sender # u

Grounded(w, u) == /\ w.read.position <= w.delivered.position
                  /\ Boundary(w.read, u) /\ Boundary(w.delivered, u)

Fresh(w) == w.version = 1 /\ w.read = NoCheckpoint /\ w.delivered = NoCheckpoint

\* What u's stored watermark w is to a watermark v read earlier.
NotBefore(w, v) ==
    /\ w.version >= v.version
    /\ w.read.position >= v.read.position
    /\ w.delivered.position >= v.delivered.position
    /\ w.version = v.version => w = v

\* The next version of a watermark.
Follows(new, old) ==
    /\ new.id = old.id /\ new.version = old.version + 1
    /\ new.read.position >= old.read.position
    /\ new.delivered.position >= old.delivered.position
    /\ new.updatedAt >= old.updatedAt

ReceiptOK(u) ==
    receipts[u] # None => receipts[u].version >= 2 /\ Grounded(receipts[u], u)

\* What a call advances is fresh, or a version of the actor's watermark that was
\* stored and has only been advanced since.
WatermarkOK(c) ==
    watermark[c] # None =>
      /\ Grounded(watermark[c], command[c].actor)
      /\ \/ Fresh(watermark[c])
         \/ /\ watermark[c].version >= 2 /\ receipts[command[c].actor] # None
            /\ NotBefore(receipts[command[c].actor], watermark[c])

\* Every stored watermark stays, or the next one follows it.
Moves(u) == /\ receipts'[u] = receipts[u] \/ receipts'[u] # None
            /\ receipts[u] # None /\ receipts'[u] # receipts[u]
                 => Follows(receipts'[u], receipts[u])

LEMMA GroundedKept ==
    ASSUME NEW w, NEW u, Grounded(w, u), \A m \in MessageIds : Persists(m)
    PROVE  Grounded(w, u)'
  BY DEF Grounded, Boundary, Persists, SameMessage

\* What a commit makes of a watermark.
LEMMA NewReceiptOK ==
    ASSUME NEW c \in Calls, TypeOK, DecisionsStand, FoundOK(c), WatermarkOK(c),
           ReceiptOK(command[c].actor),
           pc[c] \in {"commit", "limbo"}, MayCommit(c), MovesReceipt(c)
    PROVE  LET u == command[c].actor IN
           /\ u \in Users /\ NewReceipt(c) \in ReceiptWatermark
           /\ NewReceipt(c).version >= 2 /\ Grounded(NewReceipt(c), u)
           /\ receipts[u] # None => Follows(NewReceipt(c), receipts[u])
<1>. DEFINE u == command[c].actor
            w == watermark[c]
            cp == Acked(c)
            n == NewReceipt(c)
            kind == command[c].kind
<1>. USE DEF TypeOK
<1>1. /\ IsAck(c) /\ kind \in {"read", "delivered"} /\ u \in Users
      /\ AckChanges(w, kind, cp) /\ now[c] \in Nat
  BY CommandFields DEF MovesReceipt, IsAck, ValuesOK, CallTypes
<1>2. /\ w \in ReceiptWatermark /\ cp \in Checkpoint /\ found[c] \in Found
      /\ n \in ReceiptWatermark /\ w # None
  BY <1>1, MutationTypes, NoneAssumption
<1>3. AckError(w, snap[c].group, u, kind, cp, found[c].value.sender, now[c]) = Ok
  BY <1>1 DEF DecisionsStand, DecisionStandsAt
<1>4. found[c].value.sender # u /\ ~(now[c] < w.updatedAt)
  BY <1>1, <1>3 DEF AckError, BoundaryError, Ok
<1>5. /\ n.id = w.id /\ n.version = w.version + 1 /\ n.updatedAt = now[c]
      /\ kind = "read" =>
           n.read = cp /\ n.delivered = IF Covers(w.delivered, cp) THEN w.delivered ELSE cp
      /\ kind = "delivered" => n.read = w.read /\ n.delivered = cp
  BY <1>1, <1>2, AdvancedFields DEF NewReceipt
<1>6. /\ w.version \in Nat \ {0} /\ w.updatedAt \in Nat
      /\ w.read.position \in Nat /\ w.delivered.position \in Nat /\ cp.position \in Nat
      /\ n.read.position \in Nat /\ n.delivered.position \in Nat
  BY <1>2 DEF ReceiptWatermark, Checkpoint, NoCheckpoint
<1>7. Boundary(cp, u)
  BY <1>2, <1>4, NoneAssumption DEF FoundOK, SameMessage, Boundary, Acked, CheckpointOf
<1>8. Grounded(w, u)
  BY <1>2 DEF WatermarkOK
<1>. HIDE DEF u, w, cp, n, kind
<1>9. Grounded(n, u)
  <2>1. CASE kind = "read"
    BY <1>5, <1>6, <1>7, <1>8, <2>1 DEF Grounded, Covers
  <2>2. CASE kind = "delivered"
    BY <1>1, <1>5, <1>6, <1>7, <1>8, <2>2 DEF Grounded, AckChanges, Covers
  <2>. QED  BY <1>1, <2>1, <2>2
<1>10. ASSUME receipts[u] # None PROVE Follows(n, receipts[u])
  <2>1. PICK saved \in ReceiptWatermark : saved = receipts[u]
    BY <1>1, <1>10 DEF ValuesOK, StorageTypes
  <2>2. /\ saved.read.position \in Nat /\ saved.delivered.position \in Nat
        /\ saved.version \in Nat \ {0}
    BY <2>1 DEF ReceiptWatermark, Checkpoint, NoCheckpoint
  <2>3. /\ n.id = saved.id /\ n.version = saved.version + 1
        /\ NotBehind(n.read, saved.read) /\ NotBehind(n.delivered, saved.delivered)
    BY <1>10, <2>1 DEF MayCommit, ReceiptFollows, u, n
  <2>4. w.version = saved.version
    BY <1>5, <1>6, <2>2, <2>3
  <2>5. w = saved
    BY <1>2, <1>10, <2>1, <2>2, <2>4 DEF WatermarkOK, Fresh, NotBefore, ReceiptOK, u, w
  <2>6. n.updatedAt >= saved.updatedAt
    BY <1>1, <1>4, <1>5, <1>6, <2>5
  <2>. QED  BY <1>6, <2>1, <2>2, <2>3, <2>6 DEF Follows, NotBehind
<1>. QED  BY <1>1, <1>2, <1>5, <1>6, <1>9, <1>10 DEF u, w, n

LEMMA ReceiptsMove ==
    ASSUME TypeOK, DecisionsStand, [Next]_vars,
           \A c \in Calls : FoundOK(c) /\ WatermarkOK(c),
           \A v \in Users : ReceiptOK(v),
           NEW u \in Users
    PROVE  Moves(u) /\ ReceiptOK(u)'
<1>. USE DEF TypeOK
<1>0. \A m \in MessageIds : Persists(m)
  BY MessagesPersist
<1>1. CASE receipts'[u] = receipts[u]
  BY <1>0, <1>1, GroundedKept DEF Moves, ReceiptOK
<1>2. CASE UNCHANGED vars \/ Settled \/ \E m \in MessageIds : EditMessage(m)
  BY <1>1, <1>2 DEF vars, storage, Settled, EditMessage
<1>3. ASSUME NEW c \in Calls,
             Step(c) \/ Unavailable(c) \/ LoseCommit(c) \/ Land(c),
             receipts'[u] # receipts[u]
      PROVE  Moves(u) /\ ReceiptOK(u)'
  <2>1. /\ pc[c] \in {"commit", "limbo"} /\ MayCommit(c) /\ Apply(c)
    BY <1>3, OnlyCommitsWrite DEF storage
  <2>2. MovesReceipt(c) /\ u = command[c].actor /\ receipts'[u] = NewReceipt(c)
    BY <1>3, <2>1 DEF Apply, ValuesOK, StorageTypes
  <2>3. /\ NewReceipt(c) \in ReceiptWatermark
        /\ NewReceipt(c).version >= 2 /\ Grounded(NewReceipt(c), u)
        /\ receipts[u] # None => Follows(NewReceipt(c), receipts[u])
    BY <2>1, <2>2, NewReceiptOK
  <2>4. PICK n : n = NewReceipt(c)
    OBVIOUS
  <2>5. Grounded(n, u)'
    BY <1>0, <2>3, <2>4, GroundedKept
  <2>. QED  BY <2>2, <2>3, <2>4, <2>5, NoneAssumption DEF Moves, ReceiptOK
<1>. QED  BY <1>1, <1>2, <1>3 DEF Next

LEMMA WatermarkKept ==
    ASSUME NEW d \in Calls, TypeOK, TypeOK', WatermarkOK(d), watermark'[d] = watermark[d],
           command' = command, \A m \in MessageIds : Persists(m),
           \A u \in Users : Moves(u)
    PROVE  WatermarkOK(d)'
<1>. SUFFICES ASSUME watermark[d] # None PROVE WatermarkOK(d)'
  BY DEF WatermarkOK
<1>1. PICK w \in ReceiptWatermark : w = watermark[d]
  BY DEF TypeOK, ValuesOK, CallTypes
<1>2. PICK u \in Users : u = command[d].actor
  BY CommandFields DEF TypeOK, ValuesOK, CallTypes
<1>3. Grounded(w, u)'
  BY <1>1, <1>2, GroundedKept DEF WatermarkOK
<1>4. CASE Fresh(w)
  BY <1>1, <1>2, <1>3, <1>4 DEF WatermarkOK
<1>5. CASE w.version >= 2 /\ receipts[u] # None /\ NotBefore(receipts[u], w)
  <2>1. PICK r \in ReceiptWatermark : r = receipts[u]
    BY <1>5 DEF TypeOK, ValuesOK, StorageTypes
  <2>2. CASE receipts'[u] = r
    BY <1>1, <1>2, <1>3, <1>5, <2>1, <2>2 DEF WatermarkOK
  <2>3. CASE receipts'[u] # r
    <3>1. PICK n \in ReceiptWatermark : n = receipts'[u]
      BY <1>5, <2>1, <2>3 DEF Moves, TypeOK, ValuesOK, StorageTypes
    <3>2. Follows(n, r) /\ receipts'[u] # None
      BY <1>5, <2>1, <2>3, <3>1 DEF Moves
    <3>3. \A x \in {w, r, n} : /\ x.version \in Nat /\ x.read.position \in Nat
                               /\ x.delivered.position \in Nat
      BY <1>1, <2>1, <3>1 DEF ReceiptWatermark, Checkpoint, NoCheckpoint
    <3>4. NotBefore(n, w)
      BY <1>5, <2>1, <3>2, <3>3 DEF NotBefore, Follows
    <3>. QED  BY <1>1, <1>2, <1>3, <1>5, <3>1, <3>2, <3>4 DEF WatermarkOK
  <2>. QED  BY <2>2, <2>3
<1>. QED  BY <1>1, <1>2, <1>4, <1>5 DEF WatermarkOK

LEMMA WatermarkOfStep ==
    ASSUME NEW c \in Calls, TypeOK, TypeOK', WatermarkOK(c),
           \A m \in MessageIds : Persists(m), \A u \in Users : Moves(u) /\ ReceiptOK(u),
           Step(c) \/ Unavailable(c) \/ LoseCommit(c) \/ Land(c)
    PROVE  WatermarkOK(c)'
<1>. USE DEF TypeOK, ValuesOK, CallTypes
<1>1. command' = command
  BY DEF Step, Unavailable, LoseCommit, Land, Load, ReadConflict, ReadMembership,
     VerifyRegistered, ReadSent, VerifyAttachments, ReadThrough, ReadReceipt,
     CommitTrue, CommitFalse
<1>2. CASE watermark'[c] = None
  BY <1>2 DEF WatermarkOK
<1>3. CASE watermark'[c] = watermark[c]
  BY <1>1, <1>3, WatermarkKept
<1>4. ASSUME NEW s, NEW r, Finish(c, s, r) \/ Retry(c) PROVE watermark'[c] = None
  BY <1>4 DEF Finish, Retry, Forget
<1>5. CASE ReadReceipt(c)
  <2>0. CASE found[c] = None
    BY <1>2, <1>4, <1>5, <2>0 DEF ReadReceipt
  <2>. SUFFICES ASSUME found[c] # None PROVE WatermarkOK(c)'
    BY <2>0
  <2>1. PICK w \in ReadResults(receipts[command[c].actor]), created \in Clock :
          \/ watermark'[c] = None
          \/ watermark'[c] = IF w = None THEN EmptyReceipt(c, created) ELSE w
    <3>1. PICK w \in ReadResults(receipts[command[c].actor]),
               created \in Clock, instant \in Clock :
            LET base  == IF w = None THEN EmptyReceipt(c, created) ELSE w
                error == AckError(base, snap[c].group, command[c].actor,
                                  command[c].kind,
                                  CheckpointOf(found[c].id, found[c].value),
                                  found[c].value.sender, instant)
            IN  IF error # Ok THEN Finish(c, error, None)
                ELSE /\ watermark' = [watermark EXCEPT ![c] = base]
                     /\ now' = [now EXCEPT ![c] = instant]
                     /\ Proceed(c, "commit")
                     /\ UNCHANGED <<snap, found>>
      BY <1>5 DEF ReadReceipt
    <3>. DEFINE base == IF w = None THEN EmptyReceipt(c, created) ELSE w
    <3>. HIDE DEF base
    <3>2. watermark'[c] = None \/ watermark'[c] = base
      BY <1>4, <3>1 DEF base
    <3>. QED  BY <3>2 DEF base
  <2>2. PICK u \in Users : u = command[c].actor
    BY CommandFields
  <2>3. receipts'[u] = receipts[u] /\ messages' = messages
    BY <1>5 DEF ReadReceipt, storage
  <2>4. CASE w = None /\ watermark'[c] = EmptyReceipt(c, created)
    <3>1. PICK e : e = EmptyReceipt(c, created)
      OBVIOUS
    <3>2. Fresh(e) /\ Grounded(e, u)'
      BY <3>1 DEF EmptyReceipt, Fresh, Grounded, Boundary, NoCheckpoint
    <3>. QED  BY <1>1, <2>2, <2>4, <3>1, <3>2 DEF WatermarkOK
  <2>5. CASE w # None /\ watermark'[c] = w
    <3>1. w = receipts[u] /\ w \in ReceiptWatermark
      BY <2>1, <2>2, <2>5 DEF ReadResults, StorageTypes
    <3>2. /\ w.version \in Nat /\ w.read.position \in Nat /\ w.delivered.position \in Nat
      BY <3>1 DEF ReceiptWatermark, Checkpoint, NoCheckpoint
    <3>3. Grounded(w, u)' /\ w.version >= 2
      BY <2>5, <3>1, GroundedKept DEF ReceiptOK
    <3>4. NotBefore(w, w)
      BY <3>2 DEF NotBefore
    <3>. QED  BY <1>1, <2>2, <2>3, <2>5, <3>1, <3>3, <3>4 DEF WatermarkOK
  <2>. QED  BY <1>2, <2>1, <2>4, <2>5
<1>. QED  BY <1>2, <1>3, <1>4, <1>5 DEF Step, Unavailable, LoseCommit, Land,
            Load, ReadConflict, ReadMembership, VerifyRegistered, ReadSent,
            VerifyAttachments, ReadThrough, CommitTrue, CommitFalse, Post, Forget, locals

ReceiptsInv ==
    /\ TypeOK /\ SnapshotCurrent /\ DecisionsStand
    /\ \A c \in Calls : FoundOK(c) /\ WatermarkOK(c)
    /\ \A u \in Users : ReceiptOK(u)

LEMMA InitReceipts == Init => ReceiptsInv
<1>1. Init => \A c \in Calls : found[c] = None /\ watermark[c] = None
  BY DEF Init
<1>2. Init => \A u \in Users : receipts[u] = None
  BY DEF Init
<1>. QED  BY <1>1, <1>2, InitTypes, InitSnapshots DEF TypeOK, ReceiptsInv, FoundOK,
            WatermarkOK, ReceiptOK

LEMMA NextReceipts ==
    ASSUME ReceiptsInv, [Next]_vars
    PROVE  ReceiptsInv'
<1>. USE DEF ReceiptsInv
<1>1. TypeOK' /\ SnapshotCurrent' /\ DecisionsStand'
  BY NextTypes, NextSnapshots DEF TypeOK
<1>2. /\ \A m \in MessageIds : Persists(m)
      /\ \A u \in Users : Moves(u) /\ ReceiptOK(u)'
  BY MessagesPersist, ReceiptsMove DEF TypeOK
<1>3. CASE UNCHANGED vars \/ Settled \/ \E m \in MessageIds : EditMessage(m)
  <2>1. UNCHANGED <<command, found, watermark>>
    BY <1>3 DEF vars, Settled, EditMessage, locals
  <2>. QED  BY <1>1, <1>2, <2>1, FoundKept, WatermarkKept
<1>4. ASSUME NEW c \in Calls,
             Step(c) \/ Unavailable(c) \/ LoseCommit(c) \/ Land(c)
      PROVE  ReceiptsInv'
  <2>1. ASSUME NEW d \in Calls, d # c PROVE FoundOK(d)' /\ WatermarkOK(d)'
    <3>1. command' = command /\ found'[d] = found[d] /\ watermark'[d] = watermark[d]
      BY <1>4, <2>1, StepsKeepOthers DEF TypeOK, Kept
    <3>. QED  BY <1>1, <1>2, <3>1, FoundKept, WatermarkKept
  <2>2. FoundOK(c)' /\ WatermarkOK(c)'
    BY <1>1, <1>2, <1>4, FoundOfStep, WatermarkOfStep DEF TypeOK
  <2>. QED  BY <1>1, <1>2, <2>1, <2>2
<1>. QED  BY <1>3, <1>4 DEF Next

\* A boundary of a watermark is a stored message of another author at that very
\* position, and nothing is read that was not delivered, whatever sessions of a
\* user acknowledge at the same time.
THEOREM ReceiptsCorrect == Spec => []ReceiptsGrounded
<1>1. ReceiptsInv => ReceiptsGrounded
  BY DEF ReceiptsInv, ReceiptOK, Grounded, Boundary, ReceiptsGrounded
<1>. QED  BY <1>1, InitReceipts, NextReceipts, PTL DEF Spec

\* A stored watermark keeps its id, and each change of it is the next version,
\* with boundaries and a time that do not go back, also when the receipt read
\* was a stale None.
THEOREM MonotoneCorrect == Spec => ReceiptsMonotone
<1>. DEFINE Monotone ==
       \A u \in Users :
          receipts[u] # None /\ receipts'[u] # receipts[u] =>
            /\ receipts'[u].id = receipts[u].id
            /\ receipts'[u].version = receipts[u].version + 1
            /\ receipts'[u].read.position >= receipts[u].read.position
            /\ receipts'[u].delivered.position >= receipts[u].delivered.position
            /\ receipts'[u].updatedAt >= receipts[u].updatedAt
<1>1. ReceiptsInv /\ [Next]_vars => [Monotone]_vars
  <2>. SUFFICES ASSUME ReceiptsInv, [Next]_vars PROVE Monotone
    OBVIOUS
  <2>1. \A u \in Users : Moves(u)
    BY ReceiptsMove DEF ReceiptsInv
  <2>. QED  BY <2>1 DEF Moves, Follows
<1>. QED  BY <1>1, InitReceipts, NextReceipts, PTL DEF Spec, ReceiptsMonotone
------------------------------------------------------------------------------
(* Answers. *)

\* An accepted membership command led to a group that has the user it adds, or
\* has not the one it removes.
ResultOK(k) ==
    results[k] # None =>
      (results[k].intent.user \in results[k].result.members
         <=> results[k].intent.action = "add")

ResultStays(k) == results[k] # None => results'[k] = results[k]

\* The boundary an ACK moves.
Reached(w, kind) == IF kind = "read" THEN w.read.position ELSE w.delivered.position

ReplyOK(c) ==
    Answered(c) =>
      /\ pc[c] = "done"
      /\ IsMembership(c) =>
           /\ results[command[c].id] # None
           /\ results[command[c].id].intent = Intent(command[c])
           /\ reply[c] = results[command[c].id].result
      /\ IsSend(c) =>
           /\ reply[c].id \in MessageIds /\ Stored(reply[c].id)
           /\ SameMessage(messages[reply[c].id], reply[c].message)
           /\ SameSendKey(reply[c].message, command[c].actor, command[c].client)
           /\ reply[c].message.content.attachments = command[c].content.attachments
      /\ IsAck(c) =>
           /\ Stored(command[c].message) /\ receipts[command[c].actor] # None
           /\ messages[command[c].message].position
                <= Reached(receipts[command[c].actor], command[c].kind)

LEMMA ResultsStay ==
    ASSUME TypeOK, [Next]_vars, NEW k \in CommandIds, ResultOK(k)
    PROVE  ResultStays(k) /\ ResultOK(k)'
<1>. USE DEF TypeOK
<1>1. CASE results' = results
  BY <1>1 DEF ResultStays, ResultOK
<1>2. CASE UNCHANGED vars \/ Settled \/ \E m \in MessageIds : EditMessage(m)
  BY <1>1, <1>2 DEF vars, storage, Settled, EditMessage
<1>3. ASSUME NEW c \in Calls,
             Step(c) \/ Unavailable(c) \/ LoseCommit(c) \/ Land(c),
             results' # results
      PROVE  ResultStays(k) /\ ResultOK(k)'
  <2>1. /\ pc[c] \in {"commit", "limbo"} /\ MayCommit(c) /\ Apply(c)
    BY <1>3, OnlyCommitsWrite DEF storage
  <2>2. PICK a : a = [intent |-> Intent(command[c]), result |-> NewGroup(c)]
    OBVIOUS
  <2>3. /\ IsMembership(c) /\ results[command[c].id] = None
        /\ results' = [results EXCEPT ![command[c].id] = a]
    BY <1>3, <2>1, <2>2 DEF Apply, NextResults, MayCommit, CommandUnused
  <2>4. /\ command[c].kind \in {"add", "remove"} /\ command[c].user \in Users
        /\ snap[c].group \in GroupDialog
    BY <2>1, <2>3, CommandKinds, MutationTypes DEF MembershipCommand, ValuesOK,
       CallTypes, Snapshot
  <2>5. NewGroup(c).members = IF command[c].kind = "add"
                              THEN snap[c].group.members \cup {command[c].user}
                              ELSE snap[c].group.members \ {command[c].user}
    <3>1. CASE command[c].kind = "add"
      <4>1. NewGroup(c) = WithMember(snap[c].group, command[c].user, now[c])
        BY <3>1 DEF NewGroup
      <4>. QED  BY <2>4, <3>1, <4>1, WithMemberFields
    <3>2. CASE command[c].kind = "remove"
      <4>1. NewGroup(c) = WithoutMember(snap[c].group, command[c].user, now[c])
        BY <3>2 DEF NewGroup
      <4>. QED  BY <2>4, <3>2, <4>1, WithoutMemberFields
    <3>. QED  BY <2>4, <3>1, <3>2
  <2>6. a.intent.user \in a.result.members <=> a.intent.action = "add"
    BY <2>2, <2>4, <2>5 DEF Intent
  <2>7. results \in [CommandIds -> Acceptance \cup {None}]
    BY DEF ValuesOK, StorageTypes
  <2>. QED  BY <2>3, <2>6, <2>7 DEF ResultStays, ResultOK
<1>. QED  BY <1>1, <1>2, <1>3 DEF Next

LEMMA ReplyKept ==
    ASSUME NEW d \in Calls, TypeOK, TypeOK', ReplyOK(d),
           status'[d] = status[d], reply'[d] = reply[d], pc'[d] = pc[d],
           command' = command,
           \A m \in MessageIds : Persists(m), \A u \in Users : Moves(u),
           \A k \in CommandIds : ResultStays(k)
    PROVE  ReplyOK(d)'
<1>. USE DEF TypeOK
<1>. SUFFICES ASSUME Answered(d), Answered(d)' PROVE ReplyOK(d)'
  BY DEF ReplyOK, Answered
<1>1. CASE IsMembership(d)
  <2>1. /\ command[d].id \in CommandIds /\ ~IsSend(d)' /\ ~IsAck(d)'
    BY <1>1, CommandKinds DEF MembershipCommand, IsMembership, IsSend, IsAck, ValuesOK,
       CallTypes
  <2>. QED  BY <1>1, <2>1 DEF ReplyOK, ResultStays
<1>2. CASE IsSend(d)
  <2>1. ~IsMembership(d)' /\ ~IsAck(d)'
    BY <1>2 DEF IsMembership, IsSend, IsAck
  <2>. QED  BY <1>2, <2>1 DEF ReplyOK, Persists, SameMessage
<1>3. CASE IsAck(d)
  <2>1. /\ command[d].message \in MessageIds /\ ~IsSend(d)' /\ ~IsMembership(d)'
    BY <1>3, CommandKinds DEF AckCommand, IsMembership, IsSend, IsAck, ValuesOK,
       CallTypes
  <2>2. PICK u \in Users : u = command[d].actor
    BY CommandFields DEF ValuesOK, CallTypes
  <2>3. /\ receipts[u] \in ReceiptWatermark
        /\ receipts'[u] # None /\ receipts'[u] \in ReceiptWatermark
    BY <1>3, <2>2 DEF ReplyOK, Moves, ValuesOK, StorageTypes
  <2>4. PICK p \in Nat : p = messages[command[d].message].position
    BY <1>3, <2>1 DEF ReplyOK, Stored, ValuesOK, StorageTypes, Message
  <2>5. \A w \in ReceiptWatermark : w.read.position \in Nat /\ w.delivered.position \in Nat
    BY DEF ReceiptWatermark, Checkpoint, NoCheckpoint
  <2>6. /\ receipts'[u].read.position >= receipts[u].read.position
        /\ receipts'[u].delivered.position >= receipts[u].delivered.position
    BY <1>3, <2>2, <2>3, <2>5 DEF Moves, Follows, ReplyOK
  <2>7. p <= Reached(receipts'[u], command[d].kind)
    BY <1>3, <2>2, <2>3, <2>4, <2>5, <2>6 DEF ReplyOK, Reached
  <2>8. Stored(command[d].message)' /\ messages'[command[d].message].position = p
    BY <1>3, <2>1, <2>4 DEF ReplyOK, Persists, SameMessage
  <2>. QED  BY <1>3, <2>1, <2>2, <2>3, <2>7, <2>8 DEF ReplyOK, Reached
<1>. QED  BY <1>1, <1>2, <1>3, CommandKinds DEF ValuesOK, CallTypes

LEMMA OthersKeepReplies ==
    ASSUME NEW c \in Calls, ValuesOK,
           Step(c) \/ Unavailable(c) \/ LoseCommit(c) \/ Land(c),
           NEW d \in Calls, d # c
    PROVE  status'[d] = status[d] /\ reply'[d] = reply[d]
<1>. USE DEF ValuesOK, CallTypes, Goto, Finish, Retry, Proceed
<1>1. CASE Load(c) \/ ReadThrough(c)
  BY <1>1 DEF Load, ReadThrough
<1>2. CASE ReadConflict(c) \/ CommitFalse(c)
  BY <1>2 DEF ReadConflict, CommitFalse
<1>3. CASE ReadMembership(c)
  BY <1>3 DEF ReadMembership
<1>4. CASE VerifyRegistered(c)
  BY <1>4 DEF VerifyRegistered
<1>5. CASE ReadSent(c)
  BY <1>5 DEF ReadSent, Post
<1>6. CASE VerifyAttachments(c)
  BY <1>6 DEF VerifyAttachments, Post
<1>7. CASE ReadReceipt(c)
  BY <1>7 DEF ReadReceipt
<1>8. CASE CommitTrue(c) \/ Unavailable(c) \/ LoseCommit(c) \/ Land(c)
  BY <1>8 DEF CommitTrue, Unavailable, LoseCommit, Land
<1>. QED  BY <1>1, <1>2, <1>3, <1>4, <1>5, <1>6, <1>7, <1>8 DEF Step

\* The two places where a handler returns.
LEMMA AnswersGiven ==
    ASSUME NEW c \in Calls, ValuesOK, ReplyOK(c), Answered(c)',
           Step(c) \/ Unavailable(c) \/ LoseCommit(c) \/ Land(c)
    PROVE  \/ CommitTrue(c)
           \/ /\ IsMembership(c) /\ UNCHANGED <<storage, command>>
              /\ results[command[c].id] # None
              /\ results[command[c].id].intent = Intent(command[c])
              /\ reply'[c] = results[command[c].id].result /\ pc'[c] = "done"
<1>. USE DEF ValuesOK, CallTypes, Goto, Finish, Retry, Proceed, Answered, Ok
<1>0. ~Answered(c)
  BY DEF ReplyOK, Step, Unavailable, LoseCommit, Land, Load, ReadConflict,
     ReadMembership, VerifyRegistered, ReadSent, VerifyAttachments, ReadThrough,
     ReadReceipt, CommitTrue, CommitFalse
<1>1. ~(Load(c) \/ ReadThrough(c) \/ LoseCommit(c) \/ Land(c))
  BY <1>0 DEF Load, ReadThrough, LoseCommit, Land
<1>2. ~(ReadConflict(c) \/ CommitFalse(c) \/ VerifyRegistered(c) \/ Unavailable(c))
  BY <1>0 DEF ReadConflict, CommitFalse, VerifyRegistered, Unavailable
<1>3. ~(ReadSent(c) \/ VerifyAttachments(c))
  BY <1>0 DEF ReadSent, VerifyAttachments, Post
<1>4. ~ReadReceipt(c)
  BY <1>0 DEF ReadReceipt
<1>5. CASE ReadMembership(c)
  BY <1>0, <1>5 DEF ReadMembership, ReadResults
<1>. QED  BY <1>1, <1>2, <1>3, <1>4, <1>5 DEF Step

LEMMA ReplyOfCommit ==
    ASSUME NEW c \in Calls, TypeOK, DecisionsStand, FoundOK(c), WatermarkOK(c),
           ReceiptOK(command[c].actor), CommitTrue(c), \A m \in MessageIds : Persists(m)
    PROVE  ReplyOK(c)'
<1>. USE DEF TypeOK, ValuesOK, CallTypes
<1>1. /\ pc[c] = "commit" /\ MayCommit(c) /\ Apply(c) /\ command' = command
      /\ pc'[c] = "done" /\ reply'[c] = Reply(c)
  BY DEF CommitTrue, Finish, Goto
<1>2. /\ IsMembership(c)' <=> IsMembership(c)
      /\ IsSend(c)' <=> IsSend(c)
      /\ IsAck(c)' <=> IsAck(c)
  BY <1>1 DEF IsMembership, IsSend, IsAck
<1>3. CASE IsMembership(c)
  <2>1. PICK a : a = [intent |-> Intent(command[c]), result |-> NewGroup(c)]
    OBVIOUS
  <2>2. command[c] \in MembershipCommand
    BY <1>3, CommandKinds
  <2>3. /\ command[c].id \in CommandIds
        /\ results' = [results EXCEPT ![command[c].id] = a] /\ reply'[c] = a.result
    BY <1>1, <1>3, <2>1, <2>2 DEF Apply, NextResults, Reply, MembershipCommand
  <2>4. a \in Acceptance
    BY <1>1, <1>3, <2>1, <2>2, MutationTypes DEF Intent, Acceptance, MembershipCommand,
       IsMembership
  <2>5. results'[command[c].id] = a /\ a # None /\ a.intent = Intent(command[c])
    BY <2>1, <2>3, <2>4, NoneAssumption DEF StorageTypes
  <2>6. ~IsSend(c) /\ ~IsAck(c) /\ Intent(command[c])' = Intent(command[c])
    BY <1>1, <1>3 DEF IsMembership, IsSend, IsAck, Intent
  <2>. QED  BY <1>1, <1>2, <2>3, <2>5, <2>6 DEF ReplyOK
<1>4. CASE IsSend(c)
  <2>1. ~IsMembership(c) /\ ~IsAck(c)
    BY <1>4 DEF IsMembership, IsSend, IsAck
  <2>2. PICK id, m : /\ id = (IF PostsMessage(c) THEN c ELSE found[c].id)
                     /\ m = (IF PostsMessage(c) THEN NewMessage(c) ELSE found[c].value)
    OBVIOUS
  <2>3. reply'[c].id = id /\ reply'[c].message = m
    BY <1>1, <1>4, <2>1, <2>2 DEF Reply
  <2>4. CASE PostsMessage(c)
    <3>1. /\ id = c /\ c \in MessageIds /\ m = NewMessage(c) /\ m # None
      BY <1>1, <2>2, <2>4, CallsAssumption, MutationTypes, NoneAssumption
    <3>2. messages'[c] = m
      BY <1>1, <2>4, <3>1 DEF Apply, StorageTypes
    <3>3. /\ m.sender = command[c].actor /\ m.client = command[c].client
          /\ m.content = command[c].content
      BY <3>1 DEF NewMessage, Posted
    <3>. QED  BY <1>1, <1>2, <2>1, <2>3, <3>1, <3>2, <3>3 DEF ReplyOK, SameMessage,
                Stored, SameSendKey
  <2>5. CASE ~PostsMessage(c)
    <3>1. found[c] # None /\ id = found[c].id /\ m = found[c].value
      BY <1>4, <2>2, <2>5 DEF PostsMessage
    <3>2. /\ id \in MessageIds /\ Stored(id)' /\ SameMessage(messages'[id], m)
          /\ SameSendKey(m, command[c].actor, command[c].client)
          /\ m.content.attachments = command[c].content.attachments
      BY <1>4, <3>1 DEF FoundOK, Persists, SameMessage
    <3>. QED  BY <1>1, <1>2, <2>1, <2>3, <3>2 DEF ReplyOK
  <2>. QED  BY <2>4, <2>5
<1>5. CASE IsAck(c)
  <2>1. ~IsMembership(c) /\ ~IsSend(c) /\ command[c] \in AckCommand
    BY <1>5, CommandKinds DEF IsMembership, IsSend, IsAck
  <2>2. PICK u \in Users : u = command[c].actor
    BY CommandFields
  <2>3. /\ found[c] \in Found /\ watermark[c] \in ReceiptWatermark
        /\ Acked(c) \in Checkpoint /\ found[c] # None /\ watermark[c] # None
        /\ command[c].message \in MessageIds
        /\ command[c].kind \in {"read", "delivered"}
    BY <1>1, <1>5, <2>1, MutationTypes, NoneAssumption DEF AckCommand
  <2>4. PICK p \in Nat \ {0} : p = found[c].value.position
    BY <2>3 DEF Found, Message
  <2>5. /\ Stored(command[c].message)' /\ messages'[command[c].message].position = p
        /\ Acked(c).position = p
    BY <1>1, <1>5, <2>3, <2>4 DEF FoundOK, Persists, SameMessage, Acked, CheckpointOf
  <2>6. receipts'[u] # None /\ p <= Reached(receipts'[u], command[c].kind)
    <3>1. CASE MovesReceipt(c)
      <4>1. /\ receipts'[u] = NewReceipt(c) /\ NewReceipt(c) # None
        BY <1>1, <1>5, <2>2, <3>1, MutationTypes, NoneAssumption DEF Apply, StorageTypes
      <4>2. Reached(NewReceipt(c), command[c].kind) = Acked(c).position
        <5>1. CASE command[c].kind = "read"
          BY <2>3, <3>1, <5>1, AdvancedFields DEF NewReceipt, MovesReceipt, Reached
        <5>2. CASE command[c].kind = "delivered"
          BY <2>3, <3>1, <5>2, AdvancedFields DEF NewReceipt, MovesReceipt, Reached
        <5>. QED  BY <2>3, <5>1, <5>2
      <4>. QED  BY <2>5, <4>1, <4>2
    <3>2. CASE ~MovesReceipt(c)
      <4>1. receipts'[u] = receipts[u]
        BY <1>1, <3>2 DEF Apply
      <4>2. p <= Reached(watermark[c], command[c].kind)
        BY <1>5, <2>5, <3>2 DEF MovesReceipt, AckChanges, Covers, Reached
      <4>3. ~Fresh(watermark[c])
        BY <4>2 DEF Fresh, Reached, NoCheckpoint
      <4>4. receipts[u] # None /\ NotBefore(receipts[u], watermark[c])
        BY <2>2, <2>3, <4>3 DEF WatermarkOK
      <4>5. receipts[u] \in ReceiptWatermark
        BY <4>4 DEF StorageTypes
      <4>6. \A w \in ReceiptWatermark : w.read.position \in Nat /\ w.delivered.position \in Nat
        BY DEF ReceiptWatermark, Checkpoint, NoCheckpoint
      <4>. QED  BY <2>3, <4>1, <4>2, <4>4, <4>5, <4>6 DEF NotBefore, Reached
    <3>. QED  BY <3>1, <3>2
  <2>. QED  BY <1>1, <1>2, <2>1, <2>2, <2>5, <2>6 DEF ReplyOK, Reached
<1>. QED  BY <1>3, <1>4, <1>5, CommandKinds

LEMMA ReplyOfStep ==
    ASSUME NEW c \in Calls, TypeOK, DecisionsStand, FoundOK(c), WatermarkOK(c), ReplyOK(c),
           ReceiptOK(command[c].actor), \A m \in MessageIds : Persists(m),
           Step(c) \/ Unavailable(c) \/ LoseCommit(c) \/ Land(c)
    PROVE  ReplyOK(c)'
<1>. SUFFICES ASSUME Answered(c)' PROVE ReplyOK(c)'
  BY DEF ReplyOK
<1>1. CASE CommitTrue(c)
  BY <1>1, ReplyOfCommit
<1>2. CASE /\ IsMembership(c) /\ UNCHANGED <<storage, command>>
           /\ results[command[c].id] # None
           /\ results[command[c].id].intent = Intent(command[c])
           /\ reply'[c] = results[command[c].id].result /\ pc'[c] = "done"
  <2>1. /\ ~IsSend(c)' /\ ~IsAck(c)' /\ results' = results /\ command' = command
        /\ Intent(command[c])' = Intent(command[c])
    BY <1>2 DEF IsMembership, IsSend, IsAck, storage, Intent
  <2>. QED  BY <1>2, <2>1 DEF ReplyOK
<1>. QED  BY <1>1, <1>2, AnswersGiven DEF TypeOK

\* The invariant the theorems on answers share.
AnswersInv ==
    /\ ReceiptsInv /\ HistoryDense /\ SendKeyUnique
    /\ \A k \in CommandIds : ResultOK(k)
    /\ \A c \in Calls : ReplyOK(c)

LEMMA InitAnswers == Init => AnswersInv
<1>1. Init => \A c \in Calls : ~Answered(c)
  BY DEF Init, Answered, Ok
<1>2. Init => \A k \in CommandIds : results[k] = None
  BY DEF Init
<1>. QED  BY <1>1, <1>2, InitReceipts, InitHistory DEF AnswersInv, ReplyOK, ResultOK

LEMMA NextAnswers ==
    ASSUME AnswersInv, [Next]_vars
    PROVE  AnswersInv'
<1>1. ReceiptsInv /\ ReceiptsInv' /\ HistoryDense' /\ SendKeyUnique'
  BY NextReceipts, NextHistory DEF AnswersInv, ReceiptsInv, TypeOK
<1>. USE DEF ReceiptsInv
<1>2. \A k \in CommandIds : ResultStays(k) /\ ResultOK(k)'
  BY <1>1, ResultsStay DEF AnswersInv
<1>3. /\ \A m \in MessageIds : Persists(m)
      /\ \A u \in Users : Moves(u)
  BY <1>1, MessagesPersist, ReceiptsMove DEF TypeOK
<1>4. ASSUME NEW d \in Calls, status'[d] = status[d], reply'[d] = reply[d],
             pc'[d] = pc[d], command' = command
      PROVE  ReplyOK(d)'
  BY <1>1, <1>2, <1>3, <1>4, ReplyKept DEF AnswersInv
<1>5. CASE UNCHANGED vars \/ Settled \/ \E m \in MessageIds : EditMessage(m)
  <2>1. UNCHANGED <<command, pc, status, reply>>
    BY <1>5 DEF vars, Settled, EditMessage
  <2>. QED  BY <1>1, <1>2, <1>4, <2>1 DEF AnswersInv
<1>6. ASSUME NEW c \in Calls,
             Step(c) \/ Unavailable(c) \/ LoseCommit(c) \/ Land(c)
      PROVE  AnswersInv'
  <2>1. ASSUME NEW d \in Calls, d # c PROVE ReplyOK(d)'
    BY <1>1, <1>4, <1>6, <2>1, OthersKeepReplies, StepsKeepOthers DEF TypeOK, Kept
  <2>2. command[c].actor \in Users
    BY <1>1, CommandFields DEF TypeOK, ValuesOK, CallTypes
  <2>3. ReplyOK(c)'
    BY <1>1, <1>3, <1>6, <2>2, ReplyOfStep DEF AnswersInv
  <2>. QED  BY <1>1, <1>2, <2>1, <2>3 DEF AnswersInv
<1>. QED  BY <1>5, <1>6, <1>1 DEF Next, AnswersInv

LEMMA MembershipFits == AnswersInv => MembershipAnswersFit
<1>. SUFFICES ASSUME AnswersInv, NEW c \in Calls, IsMembership(c), Answered(c)
              PROVE  /\ (command[c].user \in reply[c].members)
                            <=> (command[c].kind = "add")
                     /\ reply[c] = results[command[c].id].result
  BY DEF MembershipAnswersFit
<1>1. command[c].id \in CommandIds
  BY CommandKinds DEF AnswersInv, ReceiptsInv, TypeOK, ValuesOK, CallTypes,
     MembershipCommand
<1>2. ReplyOK(c) /\ ResultOK(command[c].id)
  BY <1>1 DEF AnswersInv
<1>. QED  BY <1>2 DEF ReplyOK, ResultOK, Intent

\* A membership call that succeeded was told the group its own request led to,
\* never the result of another intent under the same command id.
THEOREM MembershipAnswersCorrect == Spec => []MembershipAnswersFit
  BY MembershipFits, InitAnswers, NextAnswers, PTL DEF Spec

LEMMA SendsFit == AnswersInv => SendsAnsweredOnce
<1>. SUFFICES ASSUME AnswersInv, NEW c \in Calls, IsSend(c), Answered(c)
              PROVE  /\ SentBefore(c) = {reply[c].id}
                     /\ messages[reply[c].id].position = reply[c].message.position
                     /\ messages[reply[c].id].content.attachments
                           = command[c].content.attachments
  BY DEF SendsAnsweredOnce
<1>1. PICK id : id = reply[c].id
  OBVIOUS
<1>2. /\ id \in MessageIds /\ Stored(id) /\ SameMessage(messages[id], reply[c].message)
      /\ SameSendKey(messages[id], command[c].actor, command[c].client)
      /\ reply[c].message.content.attachments = command[c].content.attachments
  BY <1>1 DEF AnswersInv, ReplyOK, SameMessage, SameSendKey
<1>3. id \in SentBefore(c)
  BY <1>2 DEF SentBefore
<1>4. ASSUME NEW m \in SentBefore(c) PROVE m = id
  BY <1>2, <1>4 DEF SentBefore, AnswersInv, SendKeyUnique, SameSendKey
<1>. QED  BY <1>1, <1>2, <1>3, <1>4 DEF SameMessage

\* A send that succeeded names the one message stored under its key, so that a
\* call and its retries agree on id and position.
THEOREM SendAnswersCorrect == Spec => []SendsAnsweredOnce
  BY SendsFit, InitAnswers, NextAnswers, PTL DEF Spec

LEMMA AcksFit == AnswersInv => AcksHonoured
<1>. SUFFICES ASSUME AnswersInv, NEW c \in Calls, IsAck(c), Answered(c)
              PROVE  /\ Stored(command[c].message)
                     /\ DeliveryStatus(receipts[command[c].actor],
                           CheckpointOf(command[c].message,
                                        messages[command[c].message]))
                          \in Acknowledged(command[c].kind)
  BY DEF AcksHonoured
<1>1. /\ Stored(command[c].message) /\ receipts[command[c].actor] # None
      /\ messages[command[c].message].position
           <= Reached(receipts[command[c].actor], command[c].kind)
  BY DEF AnswersInv, ReplyOK
<1>2. command[c].kind = "read" \/ command[c].kind = "delivered"
  BY DEF IsAck
<1>. QED  BY <1>1, <1>2 DEF Reached, DeliveryStatus, Covers, CheckpointOf, Acknowledged

\* A successful ACK holds from then on: the status of the message for her never
\* falls below what the caller was told.
THEOREM AcksCorrect == Spec => []AcksHonoured
  BY AcksFit, InitAnswers, NextAnswers, PTL DEF Spec
------------------------------------------------------------------------------
(* Attempts.  With an adapter that keeps the contract and raises a conflict   *)
(* only when the revision moved, an attempt fails only if it moved.           *)

\* A snapshot is at least as late as the attempts already used up.
ConflictOK(c) ==
    /\ pc[c] = "load" => revision >= SeedLast + attempt[c]
    /\ Active(c) => snap[c].revision >= SeedLast + attempt[c]
    /\ status[c] = "ConcurrentModification" => revision > SeedLast + MaxAttempts
    /\ Stored(c) => pc[c] = "done"

LEMMA UnchangedRevisionCommits ==
    ASSUME NEW c \in Calls, TypeOK, SnapshotCurrent, ConflictOK(c), ~StaleReads,
           pc[c] = "commit", RevisionHolds(c)
    PROVE  MayCommit(c)
<1>. USE DEF TypeOK, ValuesOK, CallTypes
<1>1. ReadsCurrentAt(c) /\ snap[c].lastPosition = lastPosition /\ Decided(c)
  BY DEF SnapshotCurrent, SnapshotCurrentAt, Active, Decided
<1>2. CommandUnused(c)
  BY <1>1 DEF CommandUnused, ReadsCurrentAt
<1>3. MessageFollows(c)
  BY <1>1 DEF MessageFollows, ReadsCurrentAt, ConflictOK, NewMessage, Posted
<1>4. ASSUME MovesReceipt(c), receipts[command[c].actor] # None
      PROVE  /\ NewReceipt(c).id = receipts[command[c].actor].id
             /\ NewReceipt(c).version = receipts[command[c].actor].version + 1
             /\ NotBehind(NewReceipt(c).read, receipts[command[c].actor].read)
             /\ NotBehind(NewReceipt(c).delivered, receipts[command[c].actor].delivered)
  <2>1. /\ IsAck(c) /\ command[c].kind \in {"read", "delivered"}
        /\ watermark[c] = receipts[command[c].actor]
        /\ AckChanges(watermark[c], command[c].kind, Acked(c))
    BY <1>1, <1>4 DEF MovesReceipt, IsAck, ReadsCurrentAt
  <2>2. watermark[c] \in ReceiptWatermark /\ Acked(c) \in Checkpoint /\ now[c] \in Nat
    BY <2>1, MutationTypes
  <2>3. /\ watermark[c].read.position \in Nat /\ watermark[c].delivered.position \in Nat
        /\ Acked(c).position \in Nat
    BY <2>2 DEF ReceiptWatermark, Checkpoint, NoCheckpoint
  <2>4. CASE command[c].kind = "read"
    BY <2>1, <2>2, <2>3, <2>4, AdvancedFields DEF NewReceipt, NotBehind, Covers, AckChanges
  <2>5. CASE command[c].kind = "delivered"
    BY <2>1, <2>2, <2>3, <2>5, AdvancedFields DEF NewReceipt, NotBehind, Covers, AckChanges
  <2>. QED  BY <2>1, <2>4, <2>5
<1>5. ReceiptFollows(c)
  BY <1>4 DEF ReceiptFollows
<1>. QED  BY <1>2, <1>3, <1>5 DEF MayCommit

LEMMA ConflictKept ==
    ASSUME NEW d \in Calls, TypeOK, TypeOK', ConflictOK(d), revision' \in {revision, revision + 1},
           pc'[d] = pc[d], snap'[d] = snap[d], attempt'[d] = attempt[d],
           status'[d] = status[d], Stored(d)' => Stored(d)
    PROVE  ConflictOK(d)'
<1>1. /\ revision \in Nat /\ attempt[d] \in Nat /\ MaxAttempts \in Nat /\ SeedLast \in Nat
  BY CallsAssumption, SeedAssumption DEF TypeOK, ValuesOK, StorageTypes, CallTypes
<1>. QED  BY <1>1 DEF ConflictOK, Active

LEMMA OthersKeepAttempts ==
    ASSUME NEW c \in Calls, ValuesOK,
           Step(c) \/ Unavailable(c) \/ LoseCommit(c) \/ Land(c),
           NEW d \in Calls, d # c
    PROVE  attempt'[d] = attempt[d]
<1>. USE DEF ValuesOK, CallTypes, Goto, Finish, Retry, Proceed
<1>1. CASE Load(c) \/ ReadThrough(c)
  BY <1>1 DEF Load, ReadThrough
<1>2. CASE ReadConflict(c) \/ CommitFalse(c)
  BY <1>2 DEF ReadConflict, CommitFalse
<1>3. CASE ReadMembership(c)
  BY <1>3 DEF ReadMembership
<1>4. CASE VerifyRegistered(c)
  BY <1>4 DEF VerifyRegistered
<1>5. CASE ReadSent(c)
  BY <1>5 DEF ReadSent, Post
<1>6. CASE VerifyAttachments(c)
  BY <1>6 DEF VerifyAttachments, Post
<1>7. CASE ReadReceipt(c)
  BY <1>7 DEF ReadReceipt
<1>8. CASE CommitTrue(c) \/ Unavailable(c) \/ LoseCommit(c) \/ Land(c)
  BY <1>8 DEF CommitTrue, Unavailable, LoseCommit, Land
<1>. QED  BY <1>1, <1>2, <1>3, <1>4, <1>5, <1>6, <1>7, <1>8 DEF Step

LEMMA ConflictOfStep ==
    ASSUME NEW c \in Calls, TypeOK, TypeOK', SnapshotCurrent, ConflictOK(c),
           ~SpuriousConflicts, ~StaleReads,
           Step(c) \/ Unavailable(c) \/ LoseCommit(c) \/ Land(c)
    PROVE  ConflictOK(c)'
<1>. USE DEF TypeOK, ValuesOK, CallTypes
<1>1. /\ revision \in Nat /\ attempt[c] \in Nat /\ MaxAttempts \in Nat /\ SeedLast \in Nat
      /\ Active(c) => snap[c].revision \in Nat /\ snap[c].revision <= revision
  BY CallsAssumption, SeedAssumption DEF StorageTypes, LocalsOK, LocalsOKAt, Snapshot,
     SnapshotCurrent, SnapshotCurrentAt
<1>2. CASE CommitTrue(c) \/ Land(c)
  <2>1. /\ pc'[c] = "done" /\ revision' = revision + 1
        /\ status'[c] = Ok \/ status'[c] = status[c]
    BY <1>2 DEF CommitTrue, Land, Finish, Goto, Apply, NextRevision
  <2>. QED  BY <1>1, <2>1 DEF ConflictOK, Active, Ok
<1>3. CASE ReadConflict(c) \/ CommitFalse(c)
  <2>1. Retry(c) /\ UNCHANGED storage /\ Active(c)
    BY <1>3 DEF ReadConflict, CommitFalse, Active
  <2>2. snap[c].revision # revision
    BY <1>3, UnchangedRevisionCommits DEF ReadConflict, CommitFalse, RevisionHolds
  <2>3. revision > SeedLast + attempt[c] /\ revision' = revision
    BY <1>1, <2>1, <2>2 DEF ConflictOK, storage
  <2>4. ~Stored(c)'
    BY <2>1 DEF ConflictOK, Active, Stored, storage
  <2>5. CASE attempt[c] = MaxAttempts
    BY <1>1, <2>1, <2>3, <2>4, <2>5 DEF Retry, Finish, Goto, ConflictOK, Active
  <2>6. CASE attempt[c] # MaxAttempts
    <3>1. /\ pc'[c] = "load" /\ attempt'[c] = attempt[c] + 1 /\ status'[c] = status[c]
      BY <2>1, <2>6 DEF Retry, Goto
    <3>. QED  BY <1>1, <2>3, <2>4, <3>1 DEF ConflictOK, Active
  <2>. QED  BY <2>5, <2>6
<1>. SUFFICES ASSUME ~CommitTrue(c), ~Land(c), ~ReadConflict(c), ~CommitFalse(c)
              PROVE  ConflictOK(c)'
  BY <1>2, <1>3
<1>4. /\ UNCHANGED storage /\ pc[c] # "done"
  BY OnlyCommitsWrite DEF Step, Unavailable, LoseCommit, Load, ReadMembership,
     VerifyRegistered, ReadSent, VerifyAttachments, ReadThrough, ReadReceipt
<1>5. ~Stored(c)' /\ revision' = revision
  BY <1>4 DEF ConflictOK, Stored, storage
<1>6. ASSUME NEW s, NEW r, Finish(c, s, r), s # "ConcurrentModification"
      PROVE  ConflictOK(c)'
  BY <1>5, <1>6 DEF Finish, Goto, ConflictOK, Active
<1>7. CASE Load(c)
  <2>1. CASE /\ snap' = [snap EXCEPT ![c] = [group |-> group, revision |-> revision,
                                             lastPosition |-> lastPosition]]
             /\ Proceed(c, "read")
    <3>1. /\ snap'[c].revision = revision /\ pc'[c] = "read" /\ attempt' = attempt
          /\ status' = status
      BY <2>1 DEF Proceed, Goto
    <3>. QED  BY <1>5, <1>7, <3>1 DEF Load, ConflictOK, Active
  <2>. QED  BY <1>6, <1>7, <2>1 DEF Load
<1>8. ASSUME Active(c), snap'[c] = snap[c], attempt'[c] = attempt[c], pc'[c] # "load",
             status'[c] # "ConcurrentModification"
      PROVE  ConflictOK(c)'
  BY <1>5, <1>8 DEF ConflictOK
<1>9. ASSUME NEW label \in {"receipt", "verify", "commit"}, Proceed(c, label),
             Active(c), snap'[c] = snap[c]
      PROVE  ConflictOK(c)'
  BY <1>5, <1>9 DEF Proceed, Goto, ConflictOK
<1>10. CASE ReadMembership(c)
  BY <1>6, <1>9, <1>10, DomainErrorsListed DEF ReadMembership, Active, MembershipError,
     DomainErrors, Ok
<1>11. CASE VerifyRegistered(c)
  BY <1>6, <1>9, <1>11 DEF VerifyRegistered, Active, locals
<1>12. CASE ReadSent(c)
  BY <1>6, <1>9, <1>12, DomainErrorsListed DEF ReadSent, Post, Active, locals,
     DomainErrors, Ok
<1>13. CASE VerifyAttachments(c)
  BY <1>6, <1>9, <1>13, DomainErrorsListed DEF VerifyAttachments, Post, Active, locals,
     DomainErrors, Ok
<1>14. CASE ReadThrough(c)
  BY <1>9, <1>14 DEF ReadThrough, Active
<1>15. CASE ReadReceipt(c)
  BY <1>6, <1>9, <1>15, DomainErrorsListed DEF ReadReceipt, Active, DomainErrors, Ok
<1>16. CASE Unavailable(c)
  BY <1>6, <1>16 DEF Unavailable
<1>17. CASE LoseCommit(c)
  BY <1>8, <1>17 DEF LoseCommit, Goto, locals, Active
<1>. QED  BY <1>7, <1>10, <1>11, <1>12, <1>13, <1>14, <1>15, <1>16, <1>17 DEF Step

ConflictsInv == /\ TypeOK /\ SnapshotCurrent /\ DecisionsStand
                /\ \A c \in Calls : ConflictOK(c)

LEMMA InitConflicts == Init => ConflictsInv
<1>. SUFFICES ASSUME Init PROVE ConflictsInv
  OBVIOUS
<1>1. TypeOK /\ SnapshotCurrent /\ DecisionsStand
  BY InitTypes, InitSnapshots DEF TypeOK
<1>2. ASSUME NEW c \in Calls PROVE ConflictOK(c)
  <2>1. /\ pc[c] = "load" /\ attempt[c] = 1 /\ status[c] = "pending"
        /\ revision = 1 + SeedLast /\ SeedLast \in Nat
    BY SeedAssumption DEF Init
  <2>2. ~Stored(c)
    BY CallsAssumption, SeedAssumption DEF Init, Stored
  <2>. QED  BY <2>1, <2>2 DEF ConflictOK, Active
<1>. QED  BY <1>1, <1>2 DEF ConflictsInv

LEMMA NextConflicts ==
    ASSUME ConflictsInv, [Next]_vars, ~SpuriousConflicts, ~StaleReads
    PROVE  ConflictsInv'
<1>. USE DEF ConflictsInv
<1>1. TypeOK' /\ SnapshotCurrent' /\ DecisionsStand'
  BY NextTypes, NextSnapshots DEF TypeOK
<1>2. CASE UNCHANGED vars \/ Settled \/ \E m \in MessageIds : EditMessage(m)
  <2>1. /\ revision' \in {revision, revision + 1}
        /\ UNCHANGED <<pc, snap, attempt, status>>
    BY <1>2 DEF vars, storage, Settled, EditMessage, locals
  <2>2. \A m \in MessageIds : Stored(m)' => Stored(m)
    BY <1>2 DEF vars, storage, Settled, EditMessage, Stored, TypeOK, ValuesOK, StorageTypes
  <2>. QED  BY <1>1, <2>1, <2>2, ConflictKept, CallsAssumption
<1>3. ASSUME NEW c \in Calls,
             Step(c) \/ Unavailable(c) \/ LoseCommit(c) \/ Land(c)
      PROVE  ConflictsInv'
  <2>1. ASSUME NEW d \in Calls, d # c PROVE ConflictOK(d)'
    <3>1. pc'[d] = pc[d] /\ snap'[d] = snap[d] /\ attempt'[d] = attempt[d]
          /\ status'[d] = status[d]
      BY <1>3, <2>1, StepsKeepOthers, OthersKeepReplies, OthersKeepAttempts
         DEF TypeOK, Kept
    <3>2. revision' \in {revision, revision + 1}
      BY <1>3, OnlyCommitsWrite DEF storage, Apply, NextRevision
    <3>3. Stored(d)' => Stored(d)
      <4>0. \/ messages' = messages
            \/ messages' = [messages EXCEPT ![c] = NewMessage(c)]
        BY <1>3, OnlyCommitsWrite DEF storage, Apply
      <4>1. messages'[d] = messages[d]
        BY <2>1, <4>0, CallsAssumption DEF TypeOK, ValuesOK, StorageTypes
      <4>. QED  BY <4>1 DEF Stored
    <3>. QED  BY <1>1, <3>1, <3>2, <3>3, ConflictKept
  <2>2. ConflictOK(c)'
    BY <1>1, <1>3, ConflictOfStep
  <2>. QED  BY <1>1, <2>1, <2>2
<1>. QED  BY <1>2, <1>3 DEF Next

\* A call gives up only after the history moved once for every attempt, when
\* the adapter keeps the contract and reports only conflicts it has confirmed.
THEOREM ExhaustedCorrect ==
    ASSUME ~SpuriousConflicts, ~StaleReads
    PROVE  Spec => []ExhaustedByConflicts
<1>1. ConflictsInv => ExhaustedByConflicts
  BY DEF ConflictsInv, ConflictOK, ExhaustedByConflicts
<1>2. ConflictsInv /\ [Next]_vars => ConflictsInv'
  BY NextConflicts
<1>. QED  BY <1>1, <1>2, InitConflicts, PTL DEF Spec
==============================================================================
