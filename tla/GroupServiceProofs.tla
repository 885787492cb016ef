------------------------- MODULE GroupServiceProofs -------------------------
(***************************************************************************)
(* The group commands beside changes of the profile and the owner, for     *)
(* every value of the constants: the rules of the group, that no change is *)
(* lost under another's, and that whatever callers can see of the          *)
(* conditional-write protocol is a behaviour of GroupService.              *)
(*                                                                         *)
(* The refinement goes step by step: the log of the mapping is a sequence  *)
(* without gaps that only grows or has an entry edited; a write does to it *)
(* and to the rest of the storage what one action of GroupService does; a  *)
(* refusal, and a result told again, are right for the storage in which    *)
(* the read answered; every other step is unseen.                          *)
(***************************************************************************)
EXTENDS GroupCommandsProofs, GroupGovernance, SequenceTheorems

(* The rules of the group beside the further writers. *)

Governs == Rename \/ ChangeAvatar \/ RemoveAvatar \/ ChangeOwner

\* What any of the four further writers does to the storage.
LEMMA GovernEffect ==
    ASSUME TypeOK, GroupSafe, Governs
    PROVE  \E changed \in GroupDialog, t \in Nat :
             /\ changed.members = group.members /\ changed.owner \in group.members
             /\ changed.version = group.version
             /\ t >= group.updatedAt
             /\ \/ changed.title = group.title /\ changed.avatar = group.avatar
                   /\ changed.owner # group.owner
                \/ changed.owner = group.owner /\ changed.avatar = group.avatar
                   /\ changed.title # group.title
                \/ changed.owner = group.owner /\ changed.title = group.title
                   /\ changed.avatar # group.avatar
             /\ Accept(changed, t)
<1>1. group \in GroupDialog /\ group.owner \in group.members
  BY DEF TypeOK, ValuesOK, StorageTypes, GroupSafe, GroupSound
<1>2. group.updatedAt \in Nat /\ Clock \subseteq Nat
  BY <1>1, GroupDomainAssumption DEF GroupDialog
<1>3. ASSUME NEW changed \in GroupDialog, NEW actor, NEW t \in Clock,
             ProfileError(group, changed, actor, t) = Ok, Accept(changed, t)
      PROVE  t \in Nat /\ t >= group.updatedAt
  BY <1>2, <1>3 DEF ProfileError, Accept, Ok
<1>4. CASE Rename
  <2>1. PICK title \in Titles : Redecorate([group EXCEPT !.title = title])
    BY <1>4 DEF Rename
  <2>. DEFINE changed == [group EXCEPT !.title = title]
  <2>2. /\ changed \in GroupDialog
        /\ changed.members = group.members /\ changed.owner = group.owner
        /\ changed.version = group.version /\ changed.avatar = group.avatar
        /\ changed # group => changed.title # group.title
    BY <1>1 DEF GroupDialog
  <2>. HIDE DEF changed
  <2>3. PICK actor \in Users, t \in Clock :
            ProfileError(group, changed, actor, t) = Ok /\ Accept(changed, t)
    BY <2>1 DEF Redecorate, changed
  <2>. QED  BY <1>1, <1>3, <2>2, <2>3 DEF Accept
<1>5. CASE ChangeAvatar \/ RemoveAvatar
  <2>1. PICK avatar \in Avatars \cup {None} : Redecorate([group EXCEPT !.avatar = avatar])
    BY <1>5 DEF ChangeAvatar, RemoveAvatar
  <2>. DEFINE changed == [group EXCEPT !.avatar = avatar]
  <2>2. /\ changed \in GroupDialog
        /\ changed.members = group.members /\ changed.owner = group.owner
        /\ changed.version = group.version /\ changed.title = group.title
        /\ changed # group => changed.avatar # group.avatar
    BY <1>1 DEF GroupDialog
  <2>. HIDE DEF changed
  <2>3. PICK actor \in Users, t \in Clock :
            ProfileError(group, changed, actor, t) = Ok /\ Accept(changed, t)
    BY <2>1 DEF Redecorate, changed
  <2>. QED  BY <1>1, <1>3, <2>2, <2>3 DEF Accept
<1>6. CASE ChangeOwner
  <2>1. PICK actor \in Users, user \in Users, t \in Clock :
            /\ HandoverError(group, actor, user, t) = Ok
            /\ Accept([group EXCEPT !.owner = user], t)
    BY <1>6 DEF ChangeOwner
  <2>. DEFINE changed == [group EXCEPT !.owner = user]
  <2>2. /\ changed \in GroupDialog
        /\ changed.members = group.members /\ changed.owner = user
        /\ changed.version = group.version /\ changed.title = group.title
        /\ changed.avatar = group.avatar
        /\ changed # group => user # group.owner
    BY <1>1 DEF GroupDialog
  <2>. HIDE DEF changed
  <2>3. Accept(changed, t) /\ changed # group
    BY <2>1 DEF Accept, changed
  <2>4. user \in group.members /\ t \in Nat /\ t >= group.updatedAt
    BY <1>2, <2>1, <2>2, <2>3 DEF HandoverError, Ok
  <2>. QED  BY <2>2, <2>3, <2>4
<1>. QED  BY <1>4, <1>5, <1>6 DEF Governs

LEMMA AcceptedGroup ==
    ASSUME NEW changed \in GroupDialog, NEW t \in Nat, Accept(changed, t),
           changed.version = group.version
    PROVE  /\ group' \in GroupDialog
           /\ group'.members = changed.members /\ group'.owner = changed.owner
           /\ group'.title = changed.title /\ group'.avatar = changed.avatar
           /\ group'.version = group.version + 1 /\ group'.updatedAt = t
<1>1. group' = Touched(changed, t)
  BY DEF Accept, Applied
<1>. QED  BY <1>1, TouchedGroupType DEF Touched, GroupDialog

GovernedInv == TypeOK /\ SnapshotCurrent /\ DecisionsStand /\ GroupSafe

LEMMA InitGoverned == Init => GovernedInv
  BY InitTypes, InitSnapshots, InitGroup DEF TypeOK, GovernedInv

LEMMA GovernKeeps == GovernedInv /\ Governs => GovernedInv'
<1>. SUFFICES ASSUME GovernedInv, Governs PROVE GovernedInv'
  OBVIOUS
<1>. USE DEF GovernedInv
<1>1. PICK changed \in GroupDialog, t \in Nat :
        /\ changed.members = group.members /\ changed.owner \in group.members
        /\ changed.version = group.version
        /\ Accept(changed, t)
  BY GovernEffect
<1>2. /\ group' \in GroupDialog /\ group'.members = group.members
      /\ group'.owner \in group.members
  BY <1>1, AcceptedGroup
<1>3. /\ revision' = revision + 1 /\ command' = command
      /\ UNCHANGED <<lastPosition, messages, receipts, results,
                     pc, attempt, snap, found, watermark, now, status, reply>>
  BY <1>1 DEF Accept, locals
<1>4. TypeOK'
  BY <1>2, <1>3 DEF TypeOK, ValuesOK, StorageTypes, CallTypes, LocalsOK, LocalsOKAt,
     Active, IsAck, IsMembership
<1>5. GroupSafe'
  BY <1>2 DEF GroupSafe, GroupSound
<1>6. ASSUME NEW d \in Calls PROVE SnapshotCurrentAt(d)' /\ DecisionStandsAt(d)'
  <2>1. SnapshotCurrentAt(d) /\ DecisionStandsAt(d) /\ Kept(d)
    BY <1>3 DEF SnapshotCurrent, DecisionsStand, Kept
  <2>2. SnapshotCurrentAt(d)'
    BY <1>3, <2>1, SnapshotKept DEF TypeOK
  <2>. QED  BY <1>3, <2>1, <2>2, DecisionKept
<1>. QED  BY <1>4, <1>5, <1>6 DEF SnapshotCurrent, DecisionsStand

LEMMA NextKeepsGoverned ==
    ASSUME GovernedInv, [Next]_vars
    PROVE  GovernedInv'
<1>. USE DEF GovernedInv
<1>1. TypeOK' /\ SnapshotCurrent' /\ DecisionsStand'
  BY NextTypes, NextSnapshots DEF TypeOK
<1>2. CASE group' = group
  BY <1>1, <1>2 DEF GroupSafe, GroupSound
<1>3. ASSUME NEW c \in Calls,
             Step(c) \/ Unavailable(c) \/ LoseCommit(c) \/ Land(c)
      PROVE  GovernedInv'
  BY <1>1, <1>2, <1>3, OnlyCommitsWrite, ApplyGroupSafe DEF storage
<1>. QED  BY <1>2, <1>3 DEF Next, vars, storage, Settled, EditMessage

LEMMA NextGoverned == GovernedInv /\ [GovernedNext]_vars => GovernedInv'
<1>. SUFFICES ASSUME GovernedInv, [GovernedNext]_vars PROVE GovernedInv'
  OBVIOUS
<1>1. CASE [Next]_vars
  BY <1>1, NextKeepsGoverned
<1>2. CASE Governs
  BY <1>2, GovernKeeps
<1>. QED  BY <1>1, <1>2 DEF GovernedNext, Governs

\* The owner is a member, the limit holds and only confirmed users are in, also
\* when ownership moves between the load and the commit of a removal, and the
\* commands still decide on what is stored (GroupDialog.change_owner).
THEOREM GovernedGroupCorrect == GovernedSpec => [](GroupSound /\ SnapshotCurrent)
<1>1. GovernedInv => GroupSound /\ SnapshotCurrent
  BY DEF GovernedInv, GroupSafe
<1>. QED  BY <1>1, InitGoverned, NextGoverned, PTL DEF GovernedSpec

Fields == {"members", "owner", "title", "avatar"}

\* No lost update: a command that stores the whole group it computed from a
\* snapshot undoes no rename, avatar or handover accepted meanwhile.
THEOREM OneChangeCorrect == GovernedSpec => OneChangeAtATime
<1>. DEFINE One ==
       group' # group =>
          /\ group'.version = group.version + 1
          /\ group'.updatedAt >= group.updatedAt
          /\ Cardinality({field \in {"members", "owner", "title", "avatar"} :
                            group'[field] # group[field]}) = 1
<1>1. GovernedInv /\ [GovernedNext]_vars => [One]_vars
  <2>. SUFFICES ASSUME GovernedInv, GovernedNext, group' # group PROVE One
    OBVIOUS
  <2>. USE DEF GovernedInv
  <2>1. ASSUME NEW f \in Fields, group'[f] # group[f],
               \A h \in Fields \ {f} : group'[h] = group[h]
        PROVE  Cardinality({field \in {"members", "owner", "title", "avatar"} :
                              group'[field] # group[field]}) = 1
    <3>1. {field \in {"members", "owner", "title", "avatar"} :
             group'[field] # group[field]} = {f}
      BY <2>1 DEF Fields
    <3>. QED  BY <3>1, FS_Singleton
  <2>2. ASSUME NEW c \in Calls, Step(c) \/ Unavailable(c) \/ LoseCommit(c) \/ Land(c)
        PROVE  One
    <3>1. /\ pc[c] \in {"commit", "limbo"} /\ MayCommit(c) /\ Apply(c)
          /\ IsMembership(c)
      BY <2>2, OnlyCommitsWrite DEF storage, Apply
    <3>2. /\ group'.owner = group.owner
          /\ group'.title = group.title /\ group'.avatar = group.avatar
          /\ group'.version = group.version + 1
          /\ group'.updatedAt >= group.updatedAt
          /\ group'.members # group.members
      BY <3>1, MembershipEffect DEF GroupSafe
    <3>. QED  BY <2>1, <3>2 DEF Fields
  <2>3. CASE Governs
    <3>1. PICK changed \in GroupDialog, t \in Nat :
             /\ changed.members = group.members
             /\ changed.version = group.version
             /\ t >= group.updatedAt
             /\ \/ changed.title = group.title /\ changed.avatar = group.avatar
                   /\ changed.owner # group.owner
                \/ changed.owner = group.owner /\ changed.avatar = group.avatar
                   /\ changed.title # group.title
                \/ changed.owner = group.owner /\ changed.title = group.title
                   /\ changed.avatar # group.avatar
             /\ Accept(changed, t)
      BY <2>3, GovernEffect
    <3>2. /\ group'.members = changed.members /\ group'.owner = changed.owner
          /\ group'.title = changed.title /\ group'.avatar = changed.avatar
          /\ group'.version = group.version + 1 /\ group'.updatedAt = t
      BY <3>1, AcceptedGroup
    <3>. QED  BY <2>1, <3>1, <3>2 DEF Fields
  <2>. QED  BY <2>2, <2>3 DEF GovernedNext, Governs, Next, vars, storage, Settled,
              EditMessage
<1>. QED  BY <1>1, InitGoverned, NextGoverned, PTL DEF GovernedSpec, OneChangeAtATime

\* None of the further writers touches what the calls are told about.
LEMMA GovernAnswers == GovernedInv /\ AnswersInv /\ Governs => AnswersInv'
<1>. SUFFICES ASSUME GovernedInv, AnswersInv, Governs PROVE AnswersInv'
  OBVIOUS
<1>1. TypeOK' /\ SnapshotCurrent' /\ DecisionsStand'
  BY GovernKeeps DEF GovernedInv
<1>2. PICK changed \in GroupDialog, t \in Nat : Accept(changed, t)
  BY GovernEffect DEF GovernedInv
<1>3. UNCHANGED <<lastPosition, messages, receipts, results, command,
                  pc, snap, found, watermark, now, status, reply>>
  BY <1>2 DEF Accept, locals
<1>4. ASSUME NEW d \in Calls PROVE FoundOK(d)' /\ WatermarkOK(d)' /\ ReplyOK(d)'
  <2>1. FoundOK(d) /\ WatermarkOK(d) /\ ReplyOK(d)  BY DEF AnswersInv, ReceiptsInv
  <2>2. FoundOK(d)'
    BY <1>3, <2>1 DEF FoundOK, Stored, IsAck, IsSend
  <2>3. WatermarkOK(d)'
    BY <1>3, <2>1 DEF WatermarkOK, Grounded, Boundary, Stored
  <2>4. ReplyOK(d)'
    BY <1>3, <2>1 DEF ReplyOK, Answered, Stored, IsAck, IsSend, IsMembership, Intent
  <2>. QED  BY <2>2, <2>3, <2>4
<1>5. HistoryDense' /\ SendKeyUnique'
  BY <1>3 DEF AnswersInv, HistoryDense, SendKeyUnique, Stored
<1>6. \A u \in Users : ReceiptOK(u)'
  BY <1>3 DEF AnswersInv, ReceiptsInv, ReceiptOK, Grounded, Boundary, Stored
<1>7. \A k \in CommandIds : ResultOK(k)'
  BY <1>3 DEF AnswersInv, ResultOK
<1>. QED  BY <1>1, <1>4, <1>5, <1>6, <1>7 DEF AnswersInv, ReceiptsInv

LEMMA NextAnswersGoverned ==
    ASSUME GovernedInv, AnswersInv, [GovernedNext]_vars
    PROVE  GovernedInv' /\ AnswersInv'
<1>1. GovernedInv'  BY NextGoverned
<1>2. CASE [Next]_vars  BY <1>1, <1>2, NextAnswers
<1>3. CASE Governs  BY <1>1, <1>3, GovernAnswers
<1>. QED  BY <1>2, <1>3 DEF GovernedNext, Governs

\* Nothing the callers were told becomes untrue by a rename, an avatar or a
\* handover, whatever they fall between; the adapter may even answer reads with a
\* stale None.
THEOREM GovernedAnswersCorrect ==
    GovernedSpec => [](/\ HistoryDense /\ SendKeyUnique /\ ReceiptsGrounded
                       /\ MembershipAnswersFit /\ SendsAnsweredOnce /\ AcksHonoured)
<1>1. AnswersInv => ReceiptsGrounded
  BY DEF AnswersInv, ReceiptsInv, ReceiptOK, Grounded, Boundary, ReceiptsGrounded
<1>2. AnswersInv => HistoryDense /\ SendKeyUnique  BY DEF AnswersInv
<1>. QED  BY <1>1, <1>2, MembershipFits, SendsFit, AcksFit, InitGoverned, InitAnswers,
             NextAnswersGoverned, PTL DEF GovernedSpec

\* A send or an ACK granted names the present version of the membership also when
\* versions are made by other writers, and nothing is written after the actor left.
THEOREM GovernedRightsCorrect == GovernedSpec => RightsHoldAtCommit
<1>1. GovernedInv /\ [GovernedNext]_vars => [Right]_vars
  <2>. SUFFICES ASSUME GovernedInv, GovernedNext PROVE [Right]_vars
    OBVIOUS
  <2>1. CASE Next
    BY <2>1, RightsOfStep DEF GovernedInv
  <2>2. CASE Governs
    <3>1. PICK changed \in GroupDialog, t \in Nat : Accept(changed, t)
      BY <2>2, GovernEffect DEF GovernedInv
    <3>2. UNCHANGED <<messages, receipts, status>>
      BY <3>1 DEF Accept
    <3>. QED  BY <3>2 DEF Right, Answered
  <2>. QED  BY <2>1, <2>2 DEF GovernedNext, Governs
<1>. QED  BY <1>1, InitGoverned, NextGoverned, PTL
          DEF GovernedSpec, RightsHoldAtCommit, Right

\* A stored watermark still only goes forward, version by version, when renames,
\* avatars and handovers fall between the ACKs of a user's sessions.
THEOREM GovernedMonotoneCorrect == GovernedSpec => ReceiptsMonotone
<1>. DEFINE Monotone ==
       \A u \in Users :
          receipts[u] # None /\ receipts'[u] # receipts[u] =>
            /\ receipts'[u].id = receipts[u].id
            /\ receipts'[u].version = receipts[u].version + 1
            /\ receipts'[u].read.position >= receipts[u].read.position
            /\ receipts'[u].delivered.position >= receipts[u].delivered.position
            /\ receipts'[u].updatedAt >= receipts[u].updatedAt
<1>1. GovernedInv /\ AnswersInv /\ [GovernedNext]_vars => [Monotone]_vars
  <2>. SUFFICES ASSUME GovernedInv, AnswersInv, GovernedNext PROVE Monotone
    BY DEF vars, storage
  <2>1. CASE Next
    <3>1. \A u \in Users : Moves(u)
      BY <2>1, ReceiptsMove DEF AnswersInv, ReceiptsInv
    <3>. QED  BY <3>1 DEF Moves, Follows
  <2>2. CASE Governs
    <3>1. PICK changed \in GroupDialog, t \in Nat : Accept(changed, t)
      BY <2>2, GovernEffect DEF GovernedInv
    <3>. QED  BY <3>1 DEF Accept
  <2>. QED  BY <2>1, <2>2 DEF GovernedNext, Governs
<1>. QED  BY <1>1, InitGoverned, InitAnswers, NextAnswersGoverned, PTL
          DEF GovernedSpec, ReceiptsMonotone

\* A change of the profile or of the owner can cost a call an attempt as an edit or
\* a command can, and still a call gives up only after the history moved once for
\* every attempt.
THEOREM GovernedExhaustedCorrect ==
    ASSUME ~SpuriousConflicts, ~StaleReads
    PROVE  GovernedSpec => []ExhaustedByConflicts
<1>1. GovernedInv /\ ConflictsInv /\ [GovernedNext]_vars => GovernedInv' /\ ConflictsInv'
  <2>. SUFFICES ASSUME GovernedInv, ConflictsInv, [GovernedNext]_vars
                PROVE  GovernedInv' /\ ConflictsInv'
    OBVIOUS
  <2>1. GovernedInv'  BY NextGoverned
  <2>2. CASE [Next]_vars  BY <2>1, <2>2, NextConflicts
  <2>3. CASE Governs
    <3>1. PICK changed \in GroupDialog, t \in Nat : Accept(changed, t)
      BY <2>3, GovernEffect DEF GovernedInv
    <3>2. revision' = revision + 1 /\ UNCHANGED <<messages, pc, snap, attempt, status>>
      BY <3>1 DEF Accept, locals
    <3>3. \A c \in Calls : ConflictOK(c)'
      BY <2>1, <3>2, ConflictKept DEF GovernedInv, ConflictsInv, Stored
    <3>. QED  BY <2>1, <3>3 DEF GovernedInv, ConflictsInv
  <2>. QED  BY <2>2, <2>3 DEF GovernedNext, Governs
<1>2. ConflictsInv => ExhaustedByConflicts
  BY DEF ConflictsInv, ConflictOK, ExhaustedByConflicts
<1>. QED  BY <1>1, <1>2, InitGoverned, InitConflicts, PTL DEF GovernedSpec
------------------------------------------------------------------------------
(* How long a call can run. *)

\* The awaits a handler can still pass in the attempt it makes, and in all the
\* attempts it has left.
Rank(label) ==
    CASE label = "load" -> 4
      [] label = "read" -> 3
      [] label \in {"receipt", "verify"} -> 2
      [] label = "commit" -> 1
      [] OTHER -> 0

Remaining(c) == 5 * (MaxAttempts - attempt[c]) + Rank(pc[c])

LEMMA RemainingType ==
    ASSUME NEW c \in Calls, TypeOK
    PROVE  /\ Rank(pc[c]) \in 0..4 /\ attempt[c] \in 1..MaxAttempts
           /\ MaxAttempts \in Nat /\ Remaining(c) \in 0..(5 * MaxAttempts - 1)
<1>1. Rank(pc[c]) \in 0..4  BY DEF Rank
<1>2. attempt[c] \in 1..MaxAttempts /\ MaxAttempts \in Nat
  BY CallsAssumption DEF TypeOK, ValuesOK, CallTypes
<1>. QED  BY <1>1, <1>2 DEF Remaining

\* A call that ends, and one that goes on to a later await.
LEMMA RemainingFalls ==
    ASSUME NEW c \in Calls, TypeOK, attempt' = attempt,
           Rank(pc'[c]) \in 0..4, Rank(pc'[c]) < Rank(pc[c])
    PROVE  Remaining(c)' < Remaining(c)
<1>1. Rank(pc[c]) \in 0..4 /\ attempt[c] \in Nat /\ MaxAttempts \in Nat
  BY RemainingType
<1>2. Remaining(c)' = 5 * (MaxAttempts - attempt[c]) + Rank(pc'[c])
  BY DEF Remaining, Rank
<1>. QED  BY <1>1, <1>2 DEF Remaining

LEMMA StepCounts ==
    ASSUME NEW c \in Calls, TypeOK, Step(c)
    PROVE  Remaining(c)' < Remaining(c)
<1>1. /\ Rank("load") = 4 /\ Rank("read") = 3 /\ Rank("receipt") = 2
      /\ Rank("verify") = 2 /\ Rank("commit") = 1 /\ Rank("done") = 0
  BY DEF Rank
<1>2. pc \in [Calls -> {"load", "read", "receipt", "verify", "commit", "limbo", "done"}]
  BY DEF TypeOK, ValuesOK, CallTypes
<1>3. ASSUME NEW s, NEW r, Finish(c, s, r),
             pc[c] \in {"load", "read", "receipt", "verify", "commit"}
      PROVE  Remaining(c)' < Remaining(c)
  <2>1. pc'[c] = "done" /\ attempt' = attempt
    BY <1>2, <1>3 DEF Finish, Goto
  <2>. QED  BY <1>1, <1>3, <2>1, RemainingFalls
<1>4. ASSUME Retry(c), pc[c] \in {"read", "receipt", "commit"}
      PROVE  Remaining(c)' < Remaining(c)
  <2>1. CASE attempt[c] = MaxAttempts
    BY <1>3, <1>4, <2>1 DEF Retry
  <2>2. CASE attempt[c] # MaxAttempts
    <3>1. pc'[c] = "load" /\ attempt'[c] = attempt[c] + 1
      BY <1>2, <1>4, <2>2 DEF Retry, Goto, TypeOK, ValuesOK, CallTypes
    <3>2. Remaining(c)' = 5 * (MaxAttempts - (attempt[c] + 1)) + 4
      BY <1>1, <3>1 DEF Remaining, Rank
    <3>3. Rank(pc[c]) \in 0..4 /\ attempt[c] \in Nat /\ MaxAttempts \in Nat
      BY RemainingType
    <3>. QED  BY <3>2, <3>3 DEF Remaining
  <2>. QED  BY <2>1, <2>2
<1>5. ASSUME NEW label \in {"read", "receipt", "verify", "commit"}, Proceed(c, label),
             Rank(label) < Rank(pc[c])
      PROVE  Remaining(c)' < Remaining(c)
  <2>1. pc'[c] = label /\ attempt' = attempt
    BY <1>2, <1>5 DEF Proceed, Goto
  <2>. QED  BY <1>1, <1>5, <2>1, RemainingFalls
<1>6. CASE Load(c)
  BY <1>1, <1>3, <1>5, <1>6 DEF Load
<1>7. CASE ReadConflict(c)
  BY <1>4, <1>7 DEF ReadConflict
<1>8. CASE ReadMembership(c)
  BY <1>1, <1>3, <1>5, <1>8 DEF ReadMembership
<1>9. CASE VerifyRegistered(c)
  BY <1>1, <1>3, <1>5, <1>9 DEF VerifyRegistered
<1>10. CASE ReadSent(c)
  BY <1>1, <1>3, <1>5, <1>10 DEF ReadSent, Post
<1>11. CASE VerifyAttachments(c)
  BY <1>1, <1>3, <1>5, <1>11 DEF VerifyAttachments, Post
<1>12. CASE ReadThrough(c)
  BY <1>1, <1>5, <1>12 DEF ReadThrough
<1>13. CASE ReadReceipt(c)
  BY <1>1, <1>3, <1>5, <1>13 DEF ReadReceipt
<1>14. CASE CommitTrue(c)
  BY <1>3, <1>14 DEF CommitTrue
<1>15. CASE CommitFalse(c)
  BY <1>4, <1>15 DEF CommitFalse
<1>. QED  BY <1>6, <1>7, <1>8, <1>9, <1>10, <1>11, <1>12, <1>13, <1>14, <1>15 DEF Step

LEMMA FailureCounts ==
    ASSUME NEW c \in Calls, TypeOK, Unavailable(c) \/ LoseCommit(c)
    PROVE  Remaining(c)' < Remaining(c)
<1>1. /\ Rank("load") = 4 /\ Rank("read") = 3 /\ Rank("receipt") = 2
      /\ Rank("verify") = 2 /\ Rank("commit") = 1 /\ Rank("limbo") = 0 /\ Rank("done") = 0
  BY DEF Rank
<1>2. /\ pc'[c] \in {"limbo", "done"} /\ attempt' = attempt
      /\ pc[c] \in {"load", "read", "receipt", "verify", "commit"}
  BY DEF Unavailable, LoseCommit, Finish, Goto, TypeOK, ValuesOK, CallTypes
<1>. QED  BY <1>1, <1>2, RemainingFalls

LEMMA RemainingKept ==
    ASSUME NEW d \in Calls, TypeOK, pc'[d] = pc[d], attempt'[d] = attempt[d]
    PROVE  Remaining(d)' = Remaining(d)
  BY DEF Remaining, Rank

\* No livelock: every step a handler takes, a repeated attempt included, and every
\* failure it meets uses up one of at most 5 * MaxAttempts steps, and nothing the
\* other calls, editors and governors do ever gives a step back (the
\* range(max_attempts) loop of the handlers).  What fairness adds is only that a
\* step a handler owes is taken.
THEOREM StepsBounded ==
    GovernedSpec =>
      /\ [](\A c \in Calls : Remaining(c) \in 0..(5 * MaxAttempts - 1))
      /\ [][\A c \in Calls :
              /\ Remaining(c)' <= Remaining(c)
              /\ Step(c) \/ Unavailable(c) \/ LoseCommit(c)
                   => Remaining(c)' < Remaining(c)]_vars
<1>. DEFINE Bounded == \A c \in Calls : Remaining(c) \in 0..(5 * MaxAttempts - 1)
            Falls == \A c \in Calls :
                       /\ Remaining(c)' <= Remaining(c)
                       /\ Step(c) \/ Unavailable(c) \/ LoseCommit(c)
                            => Remaining(c)' < Remaining(c)
<1>1. GovernedInv => Bounded
  BY RemainingType DEF GovernedInv
<1>2. GovernedInv /\ [GovernedNext]_vars => [Falls]_vars
  <2>. SUFFICES ASSUME GovernedInv, GovernedNext, NEW c \in Calls
                PROVE  /\ Remaining(c)' <= Remaining(c)
                       /\ Step(c) \/ Unavailable(c) \/ LoseCommit(c)
                            => Remaining(c)' < Remaining(c)
    OBVIOUS
  <2>. USE DEF GovernedInv
  <2>1. Remaining(c) \in Nat /\ Remaining(c)' \in Nat
    <3>1. TypeOK'  BY NextGoverned DEF GovernedInv
    <3>2. attempt'[c] \in 1..MaxAttempts /\ MaxAttempts \in Nat
      BY <3>1, CallsAssumption DEF TypeOK, ValuesOK, CallTypes
    <3>3. Rank(pc[c])' \in 0..4  BY DEF Rank
    <3>. QED  BY <3>2, <3>3, RemainingType DEF Remaining
  <2>2. Step(c) \/ Unavailable(c) \/ LoseCommit(c) => Remaining(c)' < Remaining(c)
    BY StepCounts, FailureCounts
  <2>3. CASE Governs \/ Settled \/ \E m \in MessageIds : EditMessage(m)
    <3>1. pc' = pc /\ attempt' = attempt
      <4>1. CASE Governs
        <5>1. PICK changed \in GroupDialog, t \in Nat : Accept(changed, t)
          BY <4>1, GovernEffect
        <5>. QED  BY <5>1 DEF Accept
      <4>. QED  BY <2>3, <4>1 DEF Settled, EditMessage, vars
    <3>. QED  BY <2>1, <2>2, <3>1, RemainingKept
  <2>4. ASSUME NEW d \in Calls, Step(d) \/ Unavailable(d) \/ LoseCommit(d) \/ Land(d)
        PROVE  Remaining(c)' <= Remaining(c)
    <3>1. CASE d # c
      <4>1. pc'[c] = pc[c] /\ attempt'[c] = attempt[c]
        BY <2>4, <3>1, StepsKeepOthers, OthersKeepAttempts DEF TypeOK, Kept
      <4>. QED  BY <2>1, <4>1, RemainingKept
    <3>2. CASE d = c /\ Land(c)
      <4>1. attempt' = attempt /\ pc'[c] = "done" /\ pc[c] = "limbo"
        BY <3>2 DEF Land, Goto, TypeOK, ValuesOK, CallTypes
      <4>2. Remaining(c)' = Remaining(c)
        BY <4>1 DEF Remaining, Rank
      <4>. QED  BY <2>1, <4>2
    <3>. QED  BY <2>1, <2>2, <2>4, <3>1, <3>2
  <2>. QED  BY <2>2, <2>3, <2>4 DEF GovernedNext, Governs, Next
<1>. QED  BY <1>1, <1>2, InitGoverned, NextGoverned, PTL DEF GovernedSpec
------------------------------------------------------------------------------
(* The log: the stored messages in the order of their positions. *)

Dense(stored, last) ==
    /\ \A m \in MessageIds : stored[m] # None => stored[m].position \in 1..last
    /\ \A m, n \in MessageIds :
          stored[m] # None /\ stored[n] # None /\ m # n
            => stored[m].position # stored[n].position
    /\ \A p \in 1..last : \E m \in MessageIds :
          stored[m] # None /\ stored[m].position = p

\* A stored message is in the log, at its position and nowhere else.
LEMMA EntryOfMessage ==
    ASSUME NEW stored, NEW last, Dense(stored, last),
           NEW m \in MessageIds, stored[m] # None
    PROVE  /\ stored[m].position \in 1..last
           /\ IdAt(stored, stored[m].position) = m
           /\ LogOf(stored, last)[stored[m].position] = Entry(stored, m)
<1>1. stored[m].position \in 1..last  BY DEF Dense
<1>2. \A n \in MessageIds :
        stored[n] # None /\ stored[n].position = stored[m].position => n = m
  BY DEF Dense
<1>3. IdAt(stored, stored[m].position) = m  BY <1>2 DEF IdAt
<1>. QED  BY <1>1, <1>3 DEF LogOf

\* Every entry of the log is that of a stored message.
LEMMA MessageOfEntry ==
    ASSUME NEW stored, NEW last, Dense(stored, last), NEW p \in 1..last
    PROVE  \E m \in MessageIds :
             /\ stored[m] # None /\ stored[m].position = p
             /\ IdAt(stored, p) = m
             /\ LogOf(stored, last)[p] = Entry(stored, m)
<1>1. PICK m \in MessageIds : stored[m] # None /\ stored[m].position = p
  BY DEF Dense
<1>. QED  BY <1>1, EntryOfMessage

Entries == [id : MessageIds, sender : Users, client : ClientIds, content : Content,
            edits : Nat]

LEMMA EntryType ==
    ASSUME NEW stored, NEW m \in MessageIds, stored[m] \in Message
    PROVE  Entry(stored, m) \in Entries
<1>1. PICK v \in Nat \ {0} : v = stored[m].version  BY DEF Message
<1>2. v - 1 \in Nat  OBVIOUS
<1>. QED  BY <1>1, <1>2 DEF Entry, Entries, Message

LEMMA LogType ==
    ASSUME NEW stored \in [MessageIds -> Message \cup {None}], NEW last \in Nat,
           Dense(stored, last)
    PROVE  /\ LogOf(stored, last) \in Seq(Entries)
           /\ Len(LogOf(stored, last)) = last
           /\ DOMAIN LogOf(stored, last) = 1..last
<1>. DEFINE log == LogOf(stored, last)
<1>1. \A p \in 1..last : log[p] \in Entries
  BY MessageOfEntry, EntryType
<1>2. log = [p \in 1..last |-> log[p]]  BY DEF LogOf
<1>. HIDE DEF log
<1>3. log \in [1..last -> Entries]  BY <1>1, <1>2
<1>4. log \in Seq(Entries)  BY <1>3
<1>5. DOMAIN log = 1..last /\ DOMAIN log = 1..Len(log) /\ Len(log) \in Nat
  BY <1>3, <1>4, LenProperties
<1>6. Len(log) = last  BY <1>5
<1>. QED  BY <1>4, <1>5, <1>6 DEF log

\* A message accepted at the next position is appended to the log.
Joins(stored, last, c, message, next) ==
    /\ stored \in [MessageIds -> Message \cup {None}] /\ last \in Nat
    /\ Dense(stored, last)
    /\ c \in MessageIds /\ stored[c] = None
    /\ message \in Message /\ message.position = last + 1
    /\ next = [stored EXCEPT ![c] = message]

LEMMA LogAppends ==
    ASSUME NEW stored, NEW last, NEW c, NEW message, NEW next,
           Joins(stored, last, c, message, next)
    PROVE  /\ Dense(next, last + 1)
           /\ next[c] = message
           /\ LogOf(next, last + 1) = Append(LogOf(stored, last), Entry(next, c))
<1>. USE DEF Joins
<1>0. /\ next \in [MessageIds -> Message \cup {None}] /\ next[c] = message
      /\ message # None /\ \A m \in MessageIds : m # c => next[m] = stored[m]
  BY NoneAssumption
<1>1. Dense(next, last + 1)
  <2>1. \A m \in MessageIds : next[m] # None => next[m].position \in 1..(last + 1)
    BY <1>0 DEF Dense
  <2>2. ASSUME NEW m \in MessageIds, NEW n \in MessageIds,
               next[m] # None, next[n] # None, m # n
        PROVE  next[m].position # next[n].position
    BY <1>0, <2>2 DEF Dense
  <2>3. ASSUME NEW p \in 1..(last + 1)
        PROVE  \E m \in MessageIds : next[m] # None /\ next[m].position = p
    <3>1. CASE p = last + 1  BY <1>0, <3>1
    <3>2. CASE p # last + 1
      <4>1. p \in 1..last  BY <3>2
      <4>2. PICK m \in MessageIds : stored[m] # None /\ stored[m].position = p
        BY <4>1 DEF Dense
      <4>. QED  BY <1>0, <4>2
    <3>. QED  BY <3>1, <3>2
  <2>. QED  BY <2>1, <2>2, <2>3 DEF Dense
<1>. DEFINE s == LogOf(stored, last)
            t == LogOf(next, last + 1)
            e == Entry(next, c)
<1>2. /\ s \in Seq(Entries) /\ Len(s) = last /\ t \in Seq(Entries) /\ Len(t) = last + 1
      /\ e \in Entries
  <2>1. s \in Seq(Entries) /\ Len(s) = last  BY LogType
  <2>2. last + 1 \in Nat  OBVIOUS
  <2>3. t \in Seq(Entries) /\ Len(t) = last + 1  BY <1>0, <1>1, <2>2, LogType
  <2>4. e \in Entries  BY <1>0, EntryType
  <2>. QED  BY <2>1, <2>3, <2>4
<1>3. \A p \in 1..last : t[p] = s[p]
  <2>. TAKE p \in 1..last
  <2>1. PICK m \in MessageIds : /\ stored[m] # None /\ stored[m].position = p
                                /\ s[p] = Entry(stored, m)
    BY MessageOfEntry
  <2>2. next[m] = stored[m] /\ next[m] # None  BY <1>0, <2>1
  <2>3. t[p] = Entry(next, m)  BY <1>1, <2>1, <2>2, EntryOfMessage
  <2>. QED  BY <2>1, <2>2, <2>3 DEF Entry
<1>4. t[last + 1] = e
  <2>1. next[c] # None /\ next[c].position = last + 1  BY <1>0
  <2>2. LogOf(next, last + 1)[next[c].position] = Entry(next, c)
    BY <1>1, <2>1, EntryOfMessage
  <2>. QED  BY <2>1, <2>2
<1>. HIDE DEF s, t, e
<1>5. /\ Append(s, e) \in Seq(Entries) /\ Len(Append(s, e)) = last + 1
      /\ \A p \in 1..last : Append(s, e)[p] = s[p] /\ Append(s, e)[last + 1] = e
  BY <1>2, AppendProperties
<1>6. Append(s, e)[last + 1] = e  BY <1>2, AppendProperties
<1>7. ASSUME NEW p \in 1..(last + 1) PROVE t[p] = Append(s, e)[p]
  <2>1. p \in 1..last \/ p = last + 1  OBVIOUS
  <2>. QED  BY <1>3, <1>4, <1>5, <1>6, <2>1
<1>8. t = Append(s, e)
  BY <1>2, <1>5, <1>7, SeqEqual
<1>. QED  BY <1>0, <1>1, <1>8 DEF s, t, e

\* An edit of a message changes its entry, and no other.
Amends(stored, last, m, text, next) ==
    /\ stored \in [MessageIds -> Message \cup {None}] /\ last \in Nat
    /\ Dense(stored, last)
    /\ m \in MessageIds /\ stored[m] # None /\ text \in Texts
    /\ next = [stored EXCEPT ![m] = Edited(stored[m], text)]

EditedAt(log, i, text, edited) ==
    edited = [log EXCEPT ![i].content.text = text, ![i].edits = @ + 1]

LEMMA LogEdits ==
    ASSUME NEW stored, NEW last, NEW m, NEW text, NEW next,
           Amends(stored, last, m, text, next)
    PROVE  EditedAt(LogOf(stored, last), stored[m].position, text, LogOf(next, last))
<1>. USE DEF Amends
<1>. DEFINE s == LogOf(stored, last)
            t == LogOf(next, last)
            i == stored[m].position
            old == stored[m]
            new == Edited(stored[m], text)
<1>1. old \in Message /\ new \in Message /\ new # None
  BY EditedType, NoneAssumption
<1>2. /\ new.position = old.position /\ new.sender = old.sender /\ new.client = old.client
      /\ new.content = [old.content EXCEPT !.text = text]
      /\ new.version = old.version + 1 /\ old.version \in Nat
  BY <1>1 DEF Edited, Message
<1>3. next[m] = new /\ \A n \in MessageIds : n # m => next[n] = stored[n]
  OBVIOUS
<1>4. Dense(next, last)
  <2>. HIDE DEF new
  <2>1. \A n \in MessageIds : /\ next[n] # None <=> stored[n] # None
                              /\ next[n].position = stored[n].position
    BY <1>1, <1>2, <1>3
  <2>. QED  BY <2>1 DEF Dense
<1>5. i \in 1..last /\ s[i] = Entry(stored, m)  BY EntryOfMessage
<1>6. t[i] = Entry(next, m)
  <2>1. next[m] # None /\ next[m].position = i  BY <1>1, <1>2, <1>3
  <2>2. t[next[m].position] = Entry(next, m)  BY <1>4, <2>1, EntryOfMessage
  <2>. QED  BY <2>1, <2>2
<1>7. \A p \in 1..last : p # i => t[p] = s[p]
  <2>. TAKE p \in 1..last
  <2>. HAVE p # i
  <2>1. PICK n \in MessageIds : /\ stored[n] # None /\ stored[n].position = p
                                /\ s[p] = Entry(stored, n)
    BY MessageOfEntry
  <2>2. next[n] = stored[n] /\ next[n] # None  BY <1>3, <2>1
  <2>3. t[p] = Entry(next, n)  BY <1>4, <2>1, <2>2, EntryOfMessage
  <2>. QED  BY <2>1, <2>2, <2>3 DEF Entry
<1>8. Entry(next, m) = [Entry(stored, m) EXCEPT !.content.text = text, !.edits = @ + 1]
  <2>1. PICK v \in Nat : v = old.version  BY <1>2
  <2>2. (v + 1) - 1 = (v - 1) + 1  OBVIOUS
  <2>3. Entry(next, m) = [id |-> m, sender |-> old.sender, client |-> old.client,
                          content |-> [old.content EXCEPT !.text = text],
                          edits |-> (v - 1) + 1]
    BY <1>2, <1>3, <2>1, <2>2 DEF Entry
  <2>4. Entry(stored, m) = [id |-> m, sender |-> old.sender, client |-> old.client,
                            content |-> old.content, edits |-> v - 1]
    BY <2>1 DEF Entry
  <2>5. PICK sender, client, a, k : /\ sender = old.sender /\ client = old.client
                                    /\ a = old.content /\ k = v - 1
    OBVIOUS
  <2>6. PICK x : x = Entry(stored, m)  OBVIOUS
  <2>7. x = [id |-> m, sender |-> sender, client |-> client, content |-> a, edits |-> k]
    BY <2>4, <2>5, <2>6
  <2>8. PICK b, l : b = [a EXCEPT !.text = text] /\ l = k + 1  OBVIOUS
  <2>9. [x EXCEPT !.content.text = text, !.edits = @ + 1]
          = [x EXCEPT !.content = b, !.edits = l]
    BY <2>7, <2>8
  <2>10. PICK r : r = [x EXCEPT !.content = b, !.edits = l]  OBVIOUS
  <2>11. x \in [id : {m}, sender : {sender}, client : {client}, content : {a}, edits : {k}]
    BY <2>7
  <2>12. r \in [id : {m}, sender : {sender}, client : {client}, content : {b}, edits : {l}]
    BY ONLY <2>10, <2>11
  <2>13. r = [id |-> m, sender |-> sender, client |-> client, content |-> b, edits |-> l]
    BY ONLY <2>12
  <2>14. Entry(next, m) = r  BY <2>3, <2>5, <2>8, <2>13
  <2>. QED  BY <2>6, <2>9, <2>10, <2>14
<1>9. s = [p \in 1..last |-> s[p]] /\ t = [p \in 1..last |-> t[p]]  BY DEF LogOf
<1>. HIDE DEF s, t, i
<1>10. t = [s EXCEPT ![i] = [s[i] EXCEPT !.content.text = text, !.edits = @ + 1]]
  BY <1>5, <1>6, <1>7, <1>8, <1>9
<1>11. [s EXCEPT ![i] = [s[i] EXCEPT !.content.text = text, !.edits = @ + 1]]
         = [s EXCEPT ![i].content.text = text, ![i].edits = @ + 1]
  BY <1>5, <1>9
<1>. QED  BY <1>10, <1>11 DEF s, t, i, EditedAt
------------------------------------------------------------------------------
(* What a call has learned, beside its snapshot and its decision: the answer *)
(* it still owes, the attachments it was let through with, what a replay was *)
(* compared with, and that the message it acknowledges is not there.         *)

Owing(c) == pc[c] \notin {"limbo", "done"}

CallOK(c) ==
    /\ Owing(c) => status[c] = "pending" /\ reply[c] = None
    /\ pc[c] = "limbo" => status[c] = "Unavailable"
    /\ pc[c] = "verify" /\ IsSend(c) => command[c].content.attachments # NoAttachments
    /\ pc[c] \in {"commit", "limbo"} /\ PostsMessage(c) =>
         command[c].content.attachments \in {NoAttachments} \cup ReadyAttachments
    /\ IsSend(c) /\ found[c] # None =>
         ~ReplayConflict(found[c].value, command[c].content)
    /\ pc[c] = "receipt" /\ found[c] = None /\ RevisionHolds(c) =>
         ~Stored(command[c].message)

LEMMA CallKept ==
    ASSUME NEW d \in Calls, TypeOK, SnapshotCurrentAt(d), CallOK(d), Kept(d),
           status'[d] = status[d], reply'[d] = reply[d], command' = command,
           UNCHANGED storage \/ revision' = revision + 1
    PROVE  CallOK(d)'
<1>. USE DEF TypeOK
<1>1. CASE UNCHANGED storage
  BY <1>1 DEF storage, Kept, CallOK, Owing, IsSend, PostsMessage, RevisionHolds, Stored
<1>2. CASE revision' = revision + 1
  <2>1. pc[d] = "receipt" => ~RevisionHolds(d)'
    <3>. HAVE pc[d] = "receipt"
    <3>1. snap[d].revision \in Nat /\ revision \in Nat /\ snap[d].revision <= revision
      BY DEF SnapshotCurrentAt, Active, LocalsOK, LocalsOKAt, Snapshot, ValuesOK,
         StorageTypes
    <3>. QED  BY <1>2, <3>1 DEF RevisionHolds, Kept
  <2>. QED  BY <2>1 DEF Kept, CallOK, Owing, IsSend, PostsMessage
<1>. QED  BY <1>1, <1>2

LEMMA CallOfStep ==
    ASSUME ~StaleReads, NEW c \in Calls, TypeOK, CallOK(c),
           Step(c) \/ Unavailable(c) \/ LoseCommit(c) \/ Land(c)
    PROVE  CallOK(c)'
<1>. USE DEF TypeOK, ValuesOK, CallTypes
<1>0. command' = command
  BY DEF Step, Unavailable, LoseCommit, Land, Load, ReadConflict, ReadMembership,
     VerifyRegistered, ReadSent, VerifyAttachments, ReadThrough, ReadReceipt,
     CommitTrue, CommitFalse
<1>1. ASSUME NEW s, NEW r, Finish(c, s, r) PROVE CallOK(c)'
  BY <1>1 DEF Finish, Goto, Forget, CallOK, Owing
<1>2. ASSUME Retry(c), Owing(c) PROVE CallOK(c)'
  BY <1>0, <1>1, <1>2 DEF Retry, Goto, Forget, CallOK, Owing
<1>3. ASSUME NEW label \in {"read", "verify", "commit", "receipt"}, Proceed(c, label),
             Owing(c)
      PROVE  /\ pc'[c] = label
             /\ Owing(c)' /\ status'[c] = "pending" /\ reply'[c] = None
  BY <1>3 DEF Proceed, Goto, CallOK, Owing
<1>4. CASE Load(c)
  <2>1. CASE \E s, r : Finish(c, s, r)  BY <1>1, <2>1
  <2>2. CASE Proceed(c, "read") /\ found' = found
    <3>1. Owing(c) /\ found'[c] = None
      BY <1>4, <2>2 DEF Load, Owing, LocalsOK, LocalsOKAt
    <3>. QED  BY <1>3, <2>2, <3>1 DEF CallOK
  <2>. QED  BY <1>4, <2>1, <2>2 DEF Load
<1>5. CASE ReadConflict(c) \/ CommitFalse(c)
  BY <1>2, <1>5 DEF ReadConflict, CommitFalse, Owing
<1>6. CASE ReadMembership(c)
  <2>1. CASE \E s, r : Finish(c, s, r)  BY <1>1, <2>1
  <2>2. CASE /\ Proceed(c, IF command[c].kind = "add" THEN "verify" ELSE "commit")
             /\ found' = found
    <3>1. Owing(c) /\ ~IsSend(c)' /\ pc'[c] \in {"verify", "commit"}
      BY <1>0, <1>3, <1>6, <2>2 DEF ReadMembership, IsMembership, IsSend, Owing
    <3>. QED  BY <1>3, <2>2, <3>1 DEF CallOK, PostsMessage
  <2>. QED  BY <1>6, <2>1, <2>2 DEF ReadMembership
<1>7. CASE VerifyRegistered(c)
  <2>1. CASE Proceed(c, "commit")
    <3>1. Owing(c) /\ ~IsSend(c)'
      BY <1>0, <1>7 DEF VerifyRegistered, IsMembership, IsSend, Owing
    <3>. QED  BY <1>3, <2>1, <3>1 DEF CallOK, PostsMessage
  <2>. QED  BY <1>1, <1>7, <2>1 DEF VerifyRegistered
<1>8. ASSUME Post(c), Owing(c), IsSend(c), found[c] = None,
             command[c].content.attachments \in {NoAttachments} \cup ReadyAttachments
      PROVE  CallOK(c)'
  <2>1. CASE \E s, r : Finish(c, s, r)  BY <1>1, <2>1
  <2>2. CASE Proceed(c, "commit") /\ UNCHANGED locals
    BY <1>0, <1>3, <1>8, <2>2 DEF CallOK, locals
  <2>. QED  BY <1>8, <2>1, <2>2 DEF Post
<1>9. CASE ReadSent(c)
  <2>0. Owing(c) /\ IsSend(c) /\ found[c] = None
    BY <1>9 DEF ReadSent, Owing, LocalsOK, LocalsOKAt
  <2>1. ASSUME NEW m \in SentBefore(c), ~ReplayConflict(messages[m], command[c].content),
               found' = [found EXCEPT ![c] = [id |-> m, value |-> messages[m]]],
               Proceed(c, "commit")
        PROVE  CallOK(c)'
    <3>1. found'[c] = [id |-> m, value |-> messages[m]]  BY <2>1
    <3>2. found'[c].value = messages[m] /\ found'[c] # None
      <4>1. m \in MessageIds /\ messages[m] \in Message
        BY <2>1 DEF SentBefore, Stored, StorageTypes
      <4>2. found'[c] \in Found  BY <3>1, <4>1 DEF Found
      <4>. QED  BY <3>1, <4>2, NoneAssumption
    <3>. QED  BY <1>0, <1>3, <2>0, <2>1, <3>2 DEF CallOK, PostsMessage
  <2>2. CASE command[c].content.attachments # NoAttachments /\ Proceed(c, "verify")
             /\ UNCHANGED locals
    BY <1>0, <1>3, <2>0, <2>2 DEF CallOK, locals
  <2>3. CASE command[c].content.attachments = NoAttachments /\ Post(c)
    BY <1>8, <2>0, <2>3
  <2>. QED  BY <1>1, <1>9, <2>1, <2>2, <2>3 DEF ReadSent
<1>10. CASE VerifyAttachments(c)
  <2>1. Owing(c) /\ IsSend(c) /\ found[c] = None
    BY <1>10 DEF VerifyAttachments, Owing, LocalsOK, LocalsOKAt
  <2>. QED  BY <1>1, <1>8, <1>10, <2>1 DEF VerifyAttachments
<1>11. CASE ReadThrough(c)
  <2>1. Owing(c) /\ IsAck(c) /\ ~IsSend(c)' /\ Proceed(c, "receipt")
    BY <1>0, <1>11 DEF ReadThrough, Owing, IsAck, IsSend
  <2>2. found'[c] = IF messages[command[c].message] = None THEN None
                    ELSE [id |-> command[c].message, value |-> messages[command[c].message]]
    BY <1>11 DEF ReadThrough, ReadResults
  <2>3. Stored(command[c].message) => found'[c] # None
    <3>. HAVE Stored(command[c].message)
    <3>1. messages[command[c].message] \in Message /\ command[c].message \in MessageIds
      BY <2>1, CommandKinds DEF Stored, StorageTypes, AckCommand
    <3>2. found'[c] \in Found  BY <2>2, <3>1, NoneAssumption DEF Found
    <3>. QED  BY <3>2, NoneAssumption
  <2>4. messages' = messages  BY <1>11 DEF ReadThrough, storage
  <2>. QED  BY <1>0, <1>3, <2>1, <2>3, <2>4 DEF CallOK, Stored, PostsMessage
<1>12. CASE ReadReceipt(c)
  <2>1. CASE \E s, r : Finish(c, s, r)  BY <1>1, <2>1
  <2>2. CASE Proceed(c, "commit") /\ found' = found
    <3>1. Owing(c) /\ IsAck(c) /\ ~IsSend(c)'
      BY <1>0, <1>12 DEF ReadReceipt, Owing, LocalsOK, LocalsOKAt, IsAck, IsSend
    <3>. QED  BY <1>3, <2>2, <3>1 DEF CallOK, PostsMessage
  <2>. QED  BY <1>12, <2>1, <2>2 DEF ReadReceipt
<1>13. CASE CommitTrue(c) \/ Unavailable(c)
  BY <1>1, <1>13 DEF CommitTrue, Unavailable
<1>14. CASE LoseCommit(c)
  BY <1>0, <1>14 DEF LoseCommit, Goto, CallOK, Owing, locals, PostsMessage, IsSend
<1>15. CASE Land(c)
  BY <1>15 DEF Land, Goto, Forget, CallOK, Owing
<1>. QED  BY <1>4, <1>5, <1>6, <1>7, <1>9, <1>10, <1>11, <1>12, <1>13, <1>14, <1>15 DEF Step

\* What the refinement rests on.
ServiceInv == GovernedInv /\ AnswersInv /\ \A c \in Calls : CallOK(c)

LEMMA InitService == Init => ServiceInv
<1>. SUFFICES ASSUME Init PROVE ServiceInv
  OBVIOUS
<1>1. \A c \in Calls : CallOK(c)
  BY DEF Init, CallOK, Owing
<1>. QED  BY <1>1, InitGoverned, InitAnswers DEF ServiceInv

LEMMA NextService ==
    ASSUME ~StaleReads, ServiceInv, [GovernedNext]_vars
    PROVE  ServiceInv'
<1>1. TypeOK /\ SnapshotCurrent  BY DEF ServiceInv, GovernedInv
<1>2. ASSUME NEW d \in Calls PROVE CallOK(d)'
  <2>1. SnapshotCurrentAt(d) /\ CallOK(d)
    BY <1>1 DEF SnapshotCurrent, ServiceInv
  <2>2. CASE UNCHANGED vars \/ Settled \/ \E m \in MessageIds : EditMessage(m)
    <3>1. /\ command' = command /\ Kept(d) /\ status'[d] = status[d]
          /\ reply'[d] = reply[d]
          /\ UNCHANGED storage \/ revision' = revision + 1
      BY <2>2 DEF vars, Settled, EditMessage, locals, Kept
    <3>. QED  BY <1>1, <2>1, <3>1, CallKept
  <2>3. ASSUME NEW c \in Calls,
               Step(c) \/ Unavailable(c) \/ LoseCommit(c) \/ Land(c)
        PROVE  CallOK(d)'
    <3>1. CASE c = d  BY <1>1, <2>1, <2>3, <3>1, CallOfStep
    <3>2. CASE c # d
      <4>1. UNCHANGED storage \/ revision' = revision + 1
        BY <2>3, OnlyCommitsWrite DEF Apply, NextRevision
      <4>2. Kept(d) /\ command' = command /\ status'[d] = status[d]
            /\ reply'[d] = reply[d]
        BY <1>1, <2>3, <3>2, StepsKeepOthers, OthersKeepReplies DEF TypeOK
      <4>. QED  BY <1>1, <2>1, <4>1, <4>2, CallKept
    <3>. QED  BY <3>1, <3>2
  <2>4. CASE Governs
    <3>1. PICK changed \in GroupDialog, t \in Nat : Accept(changed, t)
      BY <2>4, GovernEffect DEF ServiceInv, GovernedInv
    <3>2. Kept(d) /\ UNCHANGED <<command, status, reply>> /\ revision' = revision + 1
      BY <3>1 DEF Accept, locals, Kept
    <3>. QED  BY <1>1, <2>1, <3>2, CallKept
  <2>. QED  BY <2>2, <2>3, <2>4 DEF GovernedNext, Governs, Next
<1>. QED  BY <1>2, NextAnswersGoverned DEF ServiceInv
------------------------------------------------------------------------------
(* The state of GroupService, as the mapping sees it. *)

slog == LogOf(messages, lastPosition)
sbounds == [u \in Users |-> BoundsOf(receipts[u])]
saccepted == [k \in CommandIds |-> AcceptedOf(results[k])]
sanswer == [c \in Calls |-> AnswerOf(c)]

\* The answer that a reply r of call c stands for.
Told(c, r) ==
    IF r = None THEN None
    ELSE IF IsMembership(c) THEN [members |-> r.members, version |-> r.version]
    ELSE IF IsSend(c)
    THEN [id |-> r.id, position |-> r.message.position, content |-> r.message.content,
          edits |-> r.message.version - 1, groupVersion |-> r.groupVersion]
    ELSE [delivered |-> r.watermark.delivered.position,
          read |-> r.watermark.read.position,
          changed |-> r.changed, groupVersion |-> r.groupVersion]

LEMMA AnswerStays ==
    ASSUME UNCHANGED <<command, reply>>
    PROVE  sanswer' = sanswer
  BY DEF sanswer, AnswerOf, IsMembership, IsSend

LEMMA AnswerGiven ==
    ASSUME TypeOK, command' = command, NEW c \in Calls, NEW r,
           reply' = [reply EXCEPT ![c] = r], NEW a, a = Told(c, r)
    PROVE  sanswer' = [sanswer EXCEPT ![c] = a]
<1>1. DOMAIN reply = Calls  BY DEF TypeOK, ValuesOK, CallTypes
<1>2. \A d \in Calls : d # c => AnswerOf(d)' = AnswerOf(d)
  BY <1>1 DEF AnswerOf, IsMembership, IsSend
<1>3. AnswerOf(c)' = a
  BY <1>1 DEF AnswerOf, Told, IsMembership, IsSend
<1>. DEFINE changed == [sanswer EXCEPT ![c] = a]
<1>4. \A d \in Calls : sanswer'[d] = changed[d]  BY <1>2, <1>3 DEF sanswer
<1>5. sanswer' = [d \in Calls |-> sanswer'[d]] /\ changed = [d \in Calls |-> changed[d]]
  BY DEF sanswer
<1>. HIDE DEF changed
<1>6. sanswer' = changed  BY <1>4, <1>5
<1>. QED  BY <1>6 DEF changed

LEMMA HistoryOfService ==
    ASSUME ServiceInv
    PROVE  /\ Dense(messages, lastPosition) /\ lastPosition \in Nat
           /\ messages \in [MessageIds -> Message \cup {None}]
           /\ DOMAIN slog = 1..lastPosition /\ Len(slog) = lastPosition
<1>1. /\ Dense(messages, lastPosition) /\ lastPosition \in Nat
      /\ messages \in [MessageIds -> Message \cup {None}]
  BY DEF ServiceInv, GovernedInv, AnswersInv, TypeOK, ValuesOK, StorageTypes, HistoryDense,
     Dense, Stored
<1>. QED  BY <1>1, LogType DEF slog

LEMMA LoggedMessage ==
    ASSUME ServiceInv, NEW m \in MessageIds, Stored(m)
    PROVE  /\ messages[m].position \in DOMAIN slog
           /\ slog[messages[m].position] = Entry(messages, m)
<1>1. messages[m] # None  BY DEF Stored
<1>. QED  BY <1>1, HistoryOfService, EntryOfMessage DEF slog

LEMMA LoggedEntry ==
    ASSUME ServiceInv, NEW i \in DOMAIN slog
    PROVE  \E m \in MessageIds : /\ Stored(m) /\ messages[m].position = i
                                 /\ slog[i] = Entry(messages, m)
<1>1. i \in 1..lastPosition  BY HistoryOfService
<1>2. PICK m \in MessageIds : /\ messages[m] # None /\ messages[m].position = i
                              /\ LogOf(messages, lastPosition)[i] = Entry(messages, m)
  BY <1>1, HistoryOfService, MessageOfEntry
<1>. QED  BY <1>2 DEF Stored, slog

\* The send key and the acknowledged message, looked up in the log.
LEMMA KeyInLog ==
    ASSUME ServiceInv, NEW c \in Calls, IsSend(c), NEW m \in SentBefore(c)
    PROVE  /\ messages[m].position \in Service!UnderKey(c)
           /\ slog[messages[m].position] = Entry(messages, m)
<1>1. /\ m \in MessageIds /\ Stored(m)
      /\ messages[m].sender = command[c].actor /\ messages[m].client = command[c].client
  BY DEF SentBefore, SameSendKey
<1>2. /\ messages[m].position \in DOMAIN slog
      /\ slog[messages[m].position] = Entry(messages, m)
  BY <1>1, LoggedMessage
<1>3. /\ Entry(messages, m).sender = command[c].actor
      /\ Entry(messages, m).client = command[c].client
  BY <1>1 DEF Entry
<1>. QED  BY <1>2, <1>3 DEF Service!UnderKey, slog, IsSend

LEMMA KeyNotInLog ==
    ASSUME ServiceInv, NEW c \in Calls, SentBefore(c) = {}
    PROVE  Service!UnderKey(c) = {}
<1>. SUFFICES ASSUME NEW i \in DOMAIN slog, slog[i].sender = command[c].actor,
                     slog[i].client = command[c].client
              PROVE  FALSE
  BY DEF Service!UnderKey, slog
<1>1. PICK m \in MessageIds : Stored(m) /\ slog[i] = Entry(messages, m)
  BY LoggedEntry
<1>. QED  BY <1>1 DEF Entry, SentBefore, SameSendKey

LEMMA AckedInLog ==
    ASSUME ServiceInv, NEW c \in Calls, IsAck(c), Stored(command[c].message)
    PROVE  LET m == command[c].message IN
           /\ m \in MessageIds
           /\ messages[m].position \in Service!AckedAt(c)
           /\ slog[messages[m].position] = Entry(messages, m)
<1>1. command[c].message \in MessageIds
  BY CommandKinds DEF AckCommand, ServiceInv, GovernedInv, TypeOK, ValuesOK, CallTypes
<1>. QED  BY <1>1, LoggedMessage DEF Service!AckedAt, slog, IsAck, Entry

LEMMA AckedNotInLog ==
    ASSUME ServiceInv, NEW c \in Calls, ~Stored(command[c].message)
    PROVE  Service!AckedAt(c) = {}
<1>. SUFFICES ASSUME NEW i \in DOMAIN slog, slog[i].id = command[c].message PROVE FALSE
  BY DEF Service!AckedAt, slog
<1>1. PICK m \in MessageIds : Stored(m) /\ slog[i] = Entry(messages, m)
  BY LoggedEntry
<1>. QED  BY <1>1 DEF Entry
------------------------------------------------------------------------------
(* Steps. *)

ServiceStep == Service!Next \/ UNCHANGED Service!svars

LEMMA QuietStep ==
    ASSUME UNCHANGED <<storage, command, status, reply>>
    PROVE  ServiceStep
<1>1. sanswer' = sanswer  BY AnswerStays
<1>2. slog' = slog /\ sbounds' = sbounds /\ saccepted' = saccepted
  BY DEF storage, slog, sbounds, saccepted
<1>. QED  BY <1>1, <1>2 DEF ServiceStep, Service!svars, storage, slog, sbounds, saccepted,
            sanswer

LEMMA ServedStep ==
    ASSUME NEW c \in Calls, Service!Serve(c) \/ Service!Land(c), command' = command
    PROVE  ServiceStep
  BY DEF ServiceStep, Service!Next

\* A call that raises says something true of the present state, or nothing.
LEMMA RefusedStep ==
    ASSUME ServiceInv, NEW c \in Calls, NEW error, Owing(c),
           status' = [status EXCEPT ![c] = error], reply' = [reply EXCEPT ![c] = None],
           UNCHANGED <<storage, command>>,
           \/ error \in Service!Excuses
           \/ error \in Service!Refusals /\ Service!Justified(c, error)
    PROVE  ServiceStep
<1>1. TypeOK /\ CallOK(c)  BY DEF ServiceInv, GovernedInv
<1>2. status[c] = "pending" /\ reply[c] = None  BY <1>1 DEF CallOK
<1>3. reply' = reply  BY <1>1, <1>2 DEF TypeOK, ValuesOK, CallTypes
<1>4. sanswer' = sanswer  BY <1>3, AnswerStays
<1>5. slog' = slog /\ sbounds' = sbounds /\ saccepted' = saccepted
  BY DEF storage, slog, sbounds, saccepted
<1>6. Service!Fail(c)
  <2>1. \E e \in Service!Excuses \cup Service!Refusals :
          /\ e \in Service!Excuses \/ Service!Justified(c, e)
          /\ status' = [status EXCEPT ![c] = e]
    OBVIOUS
  <2>. QED  BY <1>4, <1>5, <2>1 DEF Service!Fail, storage, slog, sbounds, saccepted, sanswer
<1>. QED  BY <1>2, <1>6, ServedStep DEF Service!Serve

LEMMA FailedStep ==
    ASSUME ServiceInv, NEW c \in Calls, NEW error, Owing(c), Finish(c, error, None),
           UNCHANGED <<storage, command>>,
           \/ error \in Service!Excuses
           \/ error \in Service!Refusals /\ Service!Justified(c, error)
    PROVE  ServiceStep
  BY RefusedStep DEF Finish

LEMMA RetriedStep ==
    ASSUME ServiceInv, NEW c \in Calls, Owing(c), Retry(c), UNCHANGED <<storage, command>>
    PROVE  ServiceStep
<1>1. CASE Finish(c, "ConcurrentModification", None)
  BY <1>1, FailedStep DEF Service!Excuses
<1>. QED  BY <1>1, QuietStep DEF Retry

\* A read that answers sees the stored state in the snapshot.
LEMMA ReadsPresent ==
    ASSUME ~StaleReads, ServiceInv, NEW c \in Calls, Active(c), RevisionHolds(c)
    PROVE  snap[c].group = group /\ snap[c].lastPosition = lastPosition /\ ReadsCurrentAt(c)
  BY DEF ServiceInv, GovernedInv, SnapshotCurrent, SnapshotCurrentAt

LEMMA LoadRefines ==
    ASSUME ServiceInv, NEW c \in Calls, Load(c)
    PROVE  ServiceStep
<1>. Owing(c) /\ UNCHANGED <<storage, command>>  BY DEF Load, Owing
<1>1. CASE command[c].dialog # Group
  <2>1. Service!Justified(c, "DialogNotFound")  BY <1>1 DEF Service!Justified
  <2>. QED  BY <1>1, <2>1, FailedStep DEF Load, Service!Refusals
<1>2. CASE Finish(c, "NotGroupMember", None) /\ command[c].actor \notin group.members
  <2>1. Service!Justified(c, "NotGroupMember")
    BY <1>2 DEF Service!Justified, Service!IsMember
  <2>. QED  BY <1>2, <2>1, FailedStep DEF Service!Refusals
<1>3. CASE UNCHANGED <<status, reply>>  BY <1>3, QuietStep
<1>. QED  BY <1>1, <1>2, <1>3 DEF Load, Proceed

\* GroupService has its own instance of the library's definition.
LEMMA SameCardinality ==
    ASSUME NEW S
    PROVE  Service!Cardinality(S) = Cardinality(S)
  BY DEF Service!Cardinality, Cardinality

\* A domain error of an addition or a removal is right for the stored group.
LEMMA MembershipErrorJustified ==
    ASSUME ServiceInv, NEW c \in Calls, NEW instant, IsMembership(c),
           snap[c].group = group, MembershipError(c, instant) # Ok
    PROVE  \/ MembershipError(c, instant) \in Service!Excuses
           \/ /\ MembershipError(c, instant) \in Service!Refusals
              /\ Service!Justified(c, MembershipError(c, instant))
<1>. DEFINE user == command[c].user
            e == MembershipError(c, instant)
<1>1. IsFiniteSet(group.members)  BY DEF ServiceInv, GovernedInv, GroupSafe
<1>2. Cardinality(group.members) \in Nat /\ MaxGroupMembers \in Nat
  BY <1>1, FS_CardinalityType, GroupDomainAssumption
<1>3. CASE command[c].kind = "add"
  <2>1. e = AddMemberError(group, command[c].actor, user, instant)
    BY <1>3 DEF MembershipError
  <2>2. \/ e = "NotGroupMember" /\ command[c].actor \notin group.members
        \/ e = "GroupMemberAlreadyExists" /\ user \in group.members
        \/ /\ e = "GroupMemberLimitExceeded" /\ user \notin group.members
           /\ Cardinality(group.members \cup {user}) > MaxGroupMembers
        \/ e = "InvalidDomainTimestamp"
    BY <2>1 DEF AddMemberError
  <2>3. user \notin group.members =>
          Cardinality(group.members \cup {user}) = Cardinality(group.members) + 1
    BY <1>1, FS_AddElement
  <2>4. e = "GroupMemberLimitExceeded" => Cardinality(group.members) >= MaxGroupMembers
    BY <1>2, <2>2, <2>3
  <2>. HIDE DEF e
  <2>5. \/ e \in Service!Excuses
        \/ e \in Service!Refusals /\ Service!Justified(c, e)
    <3>1. CASE e \in {"NotGroupMember", "InvalidDomainTimestamp"}
      BY <2>2, <3>1 DEF Service!Excuses, Service!Refusals, Service!Justified,
         Service!IsMember
    <3>2. CASE e = "GroupMemberAlreadyExists"
      BY <1>3, <2>2, <3>2 DEF Service!Refusals, Service!Justified
    <3>3. CASE e = "GroupMemberLimitExceeded"
      BY <1>3, <2>4, <3>3, SameCardinality DEF Service!Refusals, Service!Justified
    <3>. QED  BY <2>2, <3>1, <3>2, <3>3
  <2>. QED  BY <2>5 DEF e
<1>4. CASE command[c].kind = "remove"
  <2>1. e = RemoveMemberError(group, command[c].actor, user, instant)
    BY <1>4 DEF MembershipError
  <2>2. \/ e = "NotGroupMember" /\ command[c].actor \notin group.members
        \/ e = "CannotRemoveOwner" /\ user = group.owner
        \/ e = "NotGroupMember" /\ user \notin group.members
        \/ e = "InvalidDomainTimestamp"
    BY <2>1 DEF RemoveMemberError
  <2>. HIDE DEF e
  <2>3. \/ e \in Service!Excuses
        \/ e \in Service!Refusals /\ Service!Justified(c, e)
    BY <1>4, <2>2 DEF Service!Excuses, Service!Refusals, Service!Justified, Service!IsMember
  <2>. QED  BY <2>3 DEF e
<1>. QED  BY <1>3, <1>4 DEF IsMembership

\* The remembered change of a command id.
LEMMA Remembered ==
    ASSUME ServiceInv, NEW c \in Calls, IsMembership(c)
    PROVE  LET r == results[command[c].id] IN
           /\ command[c].id \in CommandIds
           /\ r = None => saccepted[command[c].id] = None
           /\ r # None =>
                /\ r \in Acceptance /\ r.result # None
                /\ saccepted[command[c].id] # None
                /\ saccepted[command[c].id].members = r.result.members
                /\ saccepted[command[c].id].version = r.result.version
                /\ (saccepted[command[c].id].intent = Service!IntentOf(command[c])
                      <=> r.intent = Intent(command[c]))
<1>1. command[c] \in MembershipCommand
  BY CommandKinds DEF ServiceInv, GovernedInv, TypeOK, ValuesOK, CallTypes
<1>2. PICK k \in CommandIds : k = command[c].id  BY <1>1 DEF MembershipCommand
<1>3. results[k] \in Acceptance \cup {None}
  BY DEF ServiceInv, GovernedInv, TypeOK, ValuesOK, StorageTypes
<1>4. saccepted[k] = AcceptedOf(results[k])  BY DEF saccepted
<1>5. CASE results[k] = None
  BY <1>2, <1>4, <1>5 DEF AcceptedOf
<1>6. CASE results[k] # None
  <2>1. PICK r \in Acceptance : r = results[k]  BY <1>3, <1>6
  <2>2. /\ r.intent \in [dialog : Dialogs, actor : Users, user : Users,
                         action : {"add", "remove"}]
        /\ r.result \in GroupDialog
    BY DEF Acceptance
  <2>3. PICK i : i = <<r.intent.action, r.intent.dialog, r.intent.actor, r.intent.user>>
    OBVIOUS
  <2>4. i \in {"add", "remove"} \X Dialogs \X Users \X Users  BY <2>2, <2>3
  <2>5. saccepted[k] = [intent |-> i, members |-> r.result.members,
                        version |-> r.result.version]
    BY <1>4, <1>6, <2>1, <2>3 DEF AcceptedOf
  <2>6. saccepted[k] # None
    <3>1. r.result.members \in SUBSET Users /\ r.result.version \in Nat
      BY <2>2 DEF GroupDialog
    <3>. QED  BY <2>4, <2>5, <3>1, AcceptedAssumption
  <2>7. i = Service!IntentOf(command[c]) <=> r.intent = Intent(command[c])
    <3>1. Service!IntentOf(command[c])
            = <<command[c].kind, command[c].dialog, command[c].actor, command[c].user>>
      BY DEF Service!IntentOf
    <3>2. i = Service!IntentOf(command[c])
            <=> /\ r.intent.action = command[c].kind /\ r.intent.dialog = command[c].dialog
                /\ r.intent.actor = command[c].actor /\ r.intent.user = command[c].user
      BY <2>3, <3>1
    <3>3. r.intent = [dialog |-> r.intent.dialog, actor |-> r.intent.actor,
                      user |-> r.intent.user, action |-> r.intent.action]
      BY <2>2
    <3>. QED  BY <3>2, <3>3 DEF Intent
  <2>8. r.result # None  BY <2>2, NoneAssumption DEF Replies
  <2>. QED  BY <1>2, <1>6, <2>1, <2>5, <2>6, <2>7, <2>8
<1>. QED  BY <1>5, <1>6

LEMMA ReadMembershipRefines ==
    ASSUME ~StaleReads, ServiceInv, NEW c \in Calls, ReadMembership(c)
    PROVE  ServiceStep
<1>. DEFINE r == results[command[c].id]
<1>0. /\ Owing(c) /\ Active(c) /\ IsMembership(c) /\ RevisionHolds(c)
      /\ UNCHANGED <<storage, command>>
  BY DEF ReadMembership, Owing, Active, ReadAnswers
<1>1. snap[c].group = group  BY <1>0, ReadsPresent
<1>2. TypeOK /\ CallOK(c)  BY DEF ServiceInv, GovernedInv
<1>3. CASE r # None /\ r.intent # Intent(command[c])
  <2>1. Finish(c, "GroupMembershipConflict", None)
    BY <1>3 DEF ReadMembership, ReadResults
  <2>2. Service!Justified(c, "GroupMembershipConflict")
    BY <1>0, <1>3, Remembered DEF Service!Justified, saccepted, IsMembership
  <2>. QED  BY <1>0, <2>1, <2>2, FailedStep DEF Service!Refusals
<1>4. CASE r # None /\ r.intent = Intent(command[c])
  <2>1. PICK g : g = r.result  OBVIOUS
  <2>2. Finish(c, Ok, g)  BY <1>4, <2>1 DEF ReadMembership, ReadResults
  <2>3. g # None  BY <1>0, <1>4, <2>1, Remembered
  <2>4. PICK a : a = [members |-> g.members, version |-> g.version]  OBVIOUS
  <2>5. a = Told(c, g)  BY <1>0, <2>3, <2>4 DEF Told
  <2>6. sanswer' = [sanswer EXCEPT ![c] = a]
    BY <1>0, <1>2, <2>2, <2>5, AnswerGiven DEF Finish
  <2>7. /\ saccepted[command[c].id] # None
        /\ saccepted[command[c].id].intent = Service!IntentOf(command[c])
        /\ a = [members |-> saccepted[command[c].id].members,
                version |-> saccepted[command[c].id].version]
    BY <1>0, <1>4, <2>1, <2>4, Remembered
  <2>8. Service!Answer(c, [members |-> saccepted[command[c].id].members,
                           version |-> saccepted[command[c].id].version])
    BY <2>2, <2>6, <2>7 DEF Service!Answer, Finish, Ok, sanswer
  <2>9. slog' = slog /\ sbounds' = sbounds /\ saccepted' = saccepted
    BY <1>0 DEF storage, slog, sbounds, saccepted
  <2>10. Service!RecallMembership(c)
    BY <1>0, <2>7, <2>8, <2>9 DEF Service!RecallMembership, IsMembership, storage, slog,
       sbounds, saccepted
  <2>11. status[c] = "pending"  BY <1>0, <1>2 DEF CallOK
  <2>. QED  BY <1>0, <2>10, <2>11, ServedStep DEF Service!Serve
<1>5. CASE r = None
  <2>1. PICK instant \in Clock :
          IF MembershipError(c, instant) # Ok
          THEN Finish(c, MembershipError(c, instant), None)
          ELSE Proceed(c, IF command[c].kind = "add" THEN "verify" ELSE "commit")
    BY <1>5 DEF ReadMembership, ReadResults
  <2>2. CASE MembershipError(c, instant) # Ok
    <3>1. PICK e : e = MembershipError(c, instant)  OBVIOUS
    <3>2. \/ e \in Service!Excuses
          \/ e \in Service!Refusals /\ Service!Justified(c, e)
      BY <1>0, <1>1, <2>2, <3>1, MembershipErrorJustified
    <3>3. Finish(c, e, None)  BY <2>1, <2>2, <3>1
    <3>. QED  BY <1>0, <3>2, <3>3, FailedStep
  <2>3. CASE MembershipError(c, instant) = Ok
    BY <1>0, <2>1, <2>3, QuietStep DEF Proceed
  <2>. QED  BY <2>2, <2>3
<1>. QED  BY <1>3, <1>4, <1>5

LEMMA VerifyRegisteredRefines ==
    ASSUME ServiceInv, NEW c \in Calls, VerifyRegistered(c)
    PROVE  ServiceStep
<1>0. Owing(c) /\ UNCHANGED <<storage, command>>  BY DEF VerifyRegistered, Owing
<1>1. command[c].kind = "add"
  BY DEF VerifyRegistered, ServiceInv, GovernedInv, TypeOK, LocalsOK, LocalsOKAt
<1>2. CASE command[c].user \in Registered
  BY <1>0, <1>2, QuietStep DEF VerifyRegistered, Proceed
<1>3. CASE command[c].user \notin Registered
  <2>1. Service!Justified(c, "UserNotRegistered")  BY <1>1, <1>3 DEF Service!Justified
  <2>. QED  BY <1>0, <1>3, <2>1, FailedStep DEF VerifyRegistered, Service!Refusals
<1>. QED  BY <1>2, <1>3

\* The fence of a replay, told from the log entry alone.
LEMMA SameFence ==
    ASSUME NEW c \in Calls, NEW m \in MessageIds, messages[m] \in Message
    PROVE  Service!Differs(c, Entry(messages, m))
             <=> ReplayConflict(messages[m], command[c].content)
<1>1. PICK v \in Nat \ {0} : v = messages[m].version  BY DEF Message
<1>2. v - 1 = 0 <=> ~(v > 1)  OBVIOUS
<1>. QED  BY <1>1, <1>2 DEF Service!Differs, Entry, ReplayConflict, IsEdited

LEMMA PostRefines ==
    ASSUME ServiceInv, NEW c \in Calls, Owing(c), Post(c), UNCHANGED <<storage, command>>
    PROVE  ServiceStep
<1>1. CASE Finish(c, "MessageCreatedAtPrecedesDialog", None)
  BY <1>1, FailedStep DEF Service!Excuses
<1>2. CASE UNCHANGED <<status, reply>>  BY <1>2, QuietStep
<1>. QED  BY <1>1, <1>2 DEF Post, PostError, Proceed, Ok

LEMMA ReadSentRefines ==
    ASSUME ~StaleReads, ServiceInv, NEW c \in Calls, ReadSent(c)
    PROVE  ServiceStep
<1>0. Owing(c) /\ IsSend(c) /\ UNCHANGED <<storage, command>>  BY DEF ReadSent, Owing
<1>1. ASSUME NEW m \in SentBefore(c),
             ReplayConflict(messages[m], command[c].content),
             Finish(c, "MessageSendConflict", None)
      PROVE  ServiceStep
  <2>1. m \in MessageIds /\ messages[m] \in Message
    BY DEF SentBefore, Stored, ServiceInv, GovernedInv, TypeOK, ValuesOK, StorageTypes
  <2>2. PICK i \in Service!UnderKey(c) : slog[i] = Entry(messages, m)
    BY <1>0, KeyInLog
  <2>3. Service!Differs(c, slog[i])  BY <1>1, <2>1, <2>2, SameFence
  <2>4. Service!Justified(c, "MessageSendConflict")
    BY <1>0, <2>3 DEF Service!Justified, IsSend, slog
  <2>. QED  BY <1>0, <1>1, <2>4, FailedStep DEF Service!Refusals
<1>2. CASE Post(c)  BY <1>0, <1>2, PostRefines
<1>3. CASE UNCHANGED <<status, reply>>  BY <1>0, <1>3, QuietStep
<1>. QED  BY <1>1, <1>2, <1>3 DEF ReadSent, Proceed

LEMMA VerifyAttachmentsRefines ==
    ASSUME ServiceInv, NEW c \in Calls, VerifyAttachments(c)
    PROVE  ServiceStep
<1>0. /\ Owing(c) /\ IsSend(c) /\ pc[c] = "verify" /\ CallOK(c)
      /\ UNCHANGED <<storage, command>>
  BY DEF VerifyAttachments, Owing, ServiceInv
<1>1. CASE command[c].content.attachments \in ReadyAttachments
  BY <1>0, <1>1, PostRefines DEF VerifyAttachments
<1>2. CASE command[c].content.attachments \notin ReadyAttachments
  <2>1. Service!Justified(c, "AttachmentsNotReady")
    BY <1>0, <1>2 DEF Service!Justified, IsSend, CallOK
  <2>. QED  BY <1>0, <1>2, <2>1, FailedStep DEF VerifyAttachments, Service!Refusals
<1>. QED  BY <1>1, <1>2

\* An ACK of a message that is found is refused for being the actor's own
\* message, or by the clock; two messages never share a boundary.
LEMMA AckErrorJustified ==
    ASSUME ServiceInv, NEW c \in Calls, IsAck(c), found[c] # None, snap[c].group = group,
           NEW base, Grounded(base, command[c].actor), NEW instant,
           NEW error, error = AckError(base, snap[c].group, command[c].actor,
                                       command[c].kind, Acked(c),
                                       found[c].value.sender, instant),
           error # Ok
    PROVE  \/ error \in Service!Excuses
           \/ error \in Service!Refusals /\ Service!Justified(c, error)
<1>. DEFINE m == found[c].id
            actor == command[c].actor
<1>1. /\ m = command[c].message /\ m \in MessageIds /\ Stored(m)
      /\ messages[m].position = found[c].value.position
      /\ messages[m].sender = found[c].value.sender
  BY DEF ServiceInv, AnswersInv, ReceiptsInv, FoundOK, SameMessage
<1>2. Acked(c) = [position |-> messages[m].position, message |-> m]
  BY <1>1 DEF Acked, CheckpointOf
<1>3. messages[m].position # 0
  <2>1. messages[m] \in Message
    BY <1>1 DEF Stored, ServiceInv, GovernedInv, TypeOK, ValuesOK, StorageTypes
  <2>. QED  BY <2>1 DEF Message
<1>4. ASSUME NEW cp, Boundary(cp, actor) PROVE ~Mismatch(cp, Acked(c))
  <2>1. CASE cp = NoCheckpoint
    BY <1>2, <1>3, <2>1 DEF Mismatch, NoCheckpoint
  <2>2. CASE cp # NoCheckpoint
    <3>1. /\ cp.message \in MessageIds /\ Stored(cp.message)
          /\ messages[cp.message].position = cp.position
      BY <1>4, <2>2 DEF Boundary
    <3>2. cp.position = messages[m].position => cp.message = m
      BY <1>1, <3>1 DEF ServiceInv, AnswersInv, HistoryDense
    <3>. QED  BY <1>2, <3>2 DEF Mismatch
  <2>. QED  BY <2>1, <2>2
<1>5. ~Mismatch(base.read, Acked(c)) /\ ~Mismatch(base.delivered, Acked(c))
  BY <1>4 DEF Grounded
<1>6. \/ error = "NotGroupMember" /\ actor \notin group.members
      \/ error = "NotIncomingMessage" /\ messages[m].sender = actor
      \/ error = "InvalidDomainTimestamp"
  BY <1>1, <1>5 DEF AckError, BoundaryError
<1>7. CASE error = "NotIncomingMessage" /\ messages[m].sender = actor
  <2>1. PICK i \in Service!AckedAt(c) : slog[i] = Entry(messages, m)
    BY <1>1, AckedInLog
  <2>2. slog[i].sender = actor  BY <1>7, <2>1 DEF Entry
  <2>. QED  BY <1>7, <2>2 DEF Service!Justified, Service!Refusals, IsAck, slog
<1>. QED  BY <1>6, <1>7 DEF Service!Excuses, Service!Refusals, Service!Justified,
            Service!IsMember

LEMMA ReadReceiptRefines ==
    ASSUME ~StaleReads, ServiceInv, NEW c \in Calls, ReadReceipt(c)
    PROVE  ServiceStep
<1>0. /\ Owing(c) /\ Active(c) /\ IsAck(c) /\ RevisionHolds(c) /\ pc[c] = "receipt"
      /\ UNCHANGED <<storage, command>>
  BY DEF ReadReceipt, Owing, Active, ReadAnswers, ServiceInv, GovernedInv, TypeOK, LocalsOK,
     LocalsOKAt
<1>1. snap[c].group = group  BY <1>0, ReadsPresent
<1>2. command[c].actor \in Users
  BY CommandFields DEF ServiceInv, GovernedInv, TypeOK, ValuesOK, CallTypes
<1>3. CASE found[c] = None
  <2>1. ~Stored(command[c].message)  BY <1>0, <1>3 DEF ServiceInv, CallOK
  <2>2. Service!Justified(c, "MessageNotFound")
    BY <1>0, <2>1, AckedNotInLog DEF Service!Justified, IsAck
  <2>. QED  BY <1>0, <1>3, <2>2, FailedStep DEF ReadReceipt, Service!Refusals
<1>4. CASE found[c] # None
  <2>1. PICK w \in ReadResults(receipts[command[c].actor]),
             created \in Clock, instant \in Clock :
          LET base  == IF w = None THEN EmptyReceipt(c, created) ELSE w
              error == AckError(base, snap[c].group, command[c].actor,
                                command[c].kind,
                                CheckpointOf(found[c].id, found[c].value),
                                found[c].value.sender, instant)
          IN  IF error # Ok THEN Finish(c, error, None)
              ELSE /\ watermark' = [watermark EXCEPT ![c] = base]
                   /\ now' = [now EXCEPT ![c] = instant]
                   /\ Proceed(c, "commit")
                   /\ UNCHANGED <<snap, found>>
    BY <1>4 DEF ReadReceipt
  <2>. DEFINE base == IF w = None THEN EmptyReceipt(c, created) ELSE w
  <2>2. Grounded(base, command[c].actor)
    <3>1. w = receipts[command[c].actor]  BY DEF ReadResults
    <3>2. CASE w = None
      <4>1. PICK e : e = EmptyReceipt(c, created)  OBVIOUS
      <4>2. Grounded(e, command[c].actor)
        BY <4>1 DEF EmptyReceipt, Grounded, Boundary, NoCheckpoint
      <4>. QED  BY <3>2, <4>1, <4>2
    <3>3. CASE w # None
      BY <1>2, <3>1, <3>3 DEF ServiceInv, AnswersInv, ReceiptsInv, ReceiptOK
    <3>. QED  BY <3>2, <3>3
  <2>. HIDE DEF base
  <2>3. PICK error : error = AckError(base, snap[c].group, command[c].actor,
                                      command[c].kind, Acked(c),
                                      found[c].value.sender, instant)
    OBVIOUS
  <2>4. IF error # Ok THEN Finish(c, error, None) ELSE Proceed(c, "commit")
    BY <2>1, <2>3 DEF base, Acked
  <2>5. CASE error # Ok
    <3>1. \/ error \in Service!Excuses
          \/ error \in Service!Refusals /\ Service!Justified(c, error)
      BY <1>0, <1>1, <1>4, <2>2, <2>3, <2>5, AckErrorJustified
    <3>. QED  BY <1>0, <2>4, <2>5, <3>1, FailedStep
  <2>6. CASE error = Ok  BY <1>0, <2>4, <2>6, QuietStep DEF Proceed
  <2>. QED  BY <2>5, <2>6
<1>. QED  BY <1>3, <1>4
------------------------------------------------------------------------------
(* The writes: what an accepted commit, or one that lands late, does to the *)
(* stored group is what GroupService does in one step.                      *)

Writes(c) == /\ pc[c] \in {"commit", "limbo"} /\ MayCommit(c) /\ Apply(c)
             /\ command' = command

LEMMA WritesPresent ==
    ASSUME ~StaleReads, ServiceInv, NEW c \in Calls, Writes(c)
    PROVE  /\ snap[c].group = group /\ snap[c].lastPosition = lastPosition
           /\ ReadsCurrentAt(c) /\ Decided(c)
           /\ ~IsMembership(c) => command[c].actor \in group.members
           /\ IsMembership(c) => MembershipError(c, now[c]) = Ok
           /\ command[c].kind = "add" => command[c].user \in Registered
<1>1. Active(c) /\ RevisionHolds(c) /\ Decided(c)
  BY DEF Writes, Active, Decided, MayCommit
<1>2. TypeOK /\ SnapshotCurrent /\ DecisionsStand  BY DEF ServiceInv, GovernedInv
<1>. QED  BY <1>1, <1>2, ReadsPresent, CommitsOnSnapshot DEF Writes

LEMMA ChangeWritten ==
    ASSUME ~StaleReads, ServiceInv, NEW c \in Calls, Writes(c), IsMembership(c)
    PROVE  /\ Service!Change(c)
           /\ group' = NewGroup(c) /\ NewGroup(c) \in GroupDialog
<1>. DEFINE user == command[c].user
            id == command[c].id
<1>1. TypeOK /\ pc[c] \in {"commit", "limbo"} /\ Apply(c) /\ MayCommit(c)
  BY DEF ServiceInv, GovernedInv, Writes
<1>2. /\ group \in GroupDialog /\ IsFiniteSet(group.members)
      /\ NewGroup(c) \in GroupDialog /\ group' = NewGroup(c)
      /\ results' = [results EXCEPT ![id] = [intent |-> Intent(command[c]),
                                            result |-> NewGroup(c)]]
  BY <1>1, MutationTypes DEF TypeOK, ValuesOK, StorageTypes, Apply, NextResults,
     ServiceInv, GovernedInv, GroupSafe
<1>3. /\ messages' = messages /\ receipts' = receipts /\ lastPosition' = lastPosition
  <2>1. ~PostsMessage(c) /\ ~MovesReceipt(c)
    BY DEF PostsMessage, MovesReceipt, IsMembership, IsSend, IsAck
  <2>. QED  BY <1>1, <2>1 DEF Apply, NextPosition
<1>4. command[c] \in MembershipCommand /\ id \in CommandIds
  BY <1>1, CommandKinds DEF TypeOK, ValuesOK, CallTypes, MembershipCommand
<1>5. saccepted[id] = None
  BY <1>1, Remembered DEF MayCommit, CommandUnused
<1>6. /\ command[c].actor \in group.members
      /\ \/ /\ command[c].kind = "add" /\ user \in Registered \ group.members
            /\ Cardinality(group.members) < MaxGroupMembers
            /\ group'.members = group.members \cup {user}
         \/ /\ command[c].kind = "remove" /\ user \in group.members \ {group.owner}
            /\ group'.members = group.members \ {user}
      /\ group'.version = group.version + 1 /\ group'.owner = group.owner
  <2>1. MembershipError(c, now[c]) = Ok /\ snap[c].group = group
    BY WritesPresent
  <2>2. CASE command[c].kind = "add"
    <3>1. AddMemberError(group, command[c].actor, user, now[c]) = Ok
      BY <2>1, <2>2 DEF MembershipError
    <3>2. /\ command[c].actor \in group.members /\ user \notin group.members
          /\ ~(Cardinality(group.members \cup {user}) > MaxGroupMembers)
      BY <3>1 DEF AddMemberError, Ok
    <3>3. user \in Registered  BY <2>2, WritesPresent
    <3>4. Cardinality(group.members) < MaxGroupMembers
      <4>1. /\ Cardinality(group.members) \in Nat /\ MaxGroupMembers \in Nat
            /\ Cardinality(group.members \cup {user}) = Cardinality(group.members) + 1
        BY <1>2, <3>2, FS_AddElement, FS_CardinalityType, GroupDomainAssumption
      <4>. QED  BY <3>2, <4>1
    <3>5. group' = WithMember(group, user, now[c])  BY <1>2, <2>1, <2>2 DEF NewGroup
    <3>. QED  BY <1>2, <2>2, <3>2, <3>3, <3>4, <3>5, WithMemberFields
  <2>3. CASE command[c].kind = "remove"
    <3>1. RemoveMemberError(group, command[c].actor, user, now[c]) = Ok
      BY <2>1, <2>3 DEF MembershipError
    <3>2. /\ command[c].actor \in group.members
          /\ user \in group.members /\ user # group.owner
      BY <3>1 DEF RemoveMemberError, Ok
    <3>3. group' = WithoutMember(group, user, now[c])  BY <1>2, <2>1, <2>3 DEF NewGroup
    <3>. QED  BY <1>2, <2>3, <3>2, <3>3, WithoutMemberFields
  <2>. QED  BY <2>2, <2>3 DEF IsMembership
<1>7. PICK a : a = [intent |-> Service!IntentOf(command[c]), members |-> group'.members,
                    version |-> group'.version]
  OBVIOUS
<1>8. saccepted' = [saccepted EXCEPT ![id] = a]
  <2>1. PICK b : b = [intent |-> Intent(command[c]), result |-> NewGroup(c)]  OBVIOUS
  <2>2. b # None
    <3>1. b \in Acceptance
      BY <1>2, <1>4, <2>1 DEF Acceptance, Intent, MembershipCommand
    <3>. QED  BY <3>1, NoneAssumption
  <2>3. AcceptedOf(b) = a
    BY <1>2, <1>7, <2>1, <2>2 DEF AcceptedOf, Intent, Service!IntentOf
  <2>4. results' = [results EXCEPT ![id] = b] /\ DOMAIN results = CommandIds
    BY <1>1, <1>2, <2>1 DEF TypeOK, ValuesOK, StorageTypes
  <2>5. \A k \in CommandIds : results'[k] = IF k = id THEN b ELSE results[k]
    BY <2>4
  <2>. DEFINE changed == [saccepted EXCEPT ![id] = a]
  <2>6. \A k \in CommandIds : saccepted'[k] = changed[k]
    BY <2>3, <2>5 DEF saccepted
  <2>7. /\ saccepted' = [k \in CommandIds |-> saccepted'[k]]
        /\ changed = [k \in CommandIds |-> changed[k]]
    BY DEF saccepted
  <2>. HIDE DEF changed
  <2>8. saccepted' = changed  BY <2>6, <2>7
  <2>. QED  BY <2>8 DEF changed
<1>9. slog' = slog /\ sbounds' = sbounds  BY <1>3 DEF slog, sbounds
<1>10. Service!Change(c)
  BY <1>5, <1>6, <1>7, <1>8, <1>9, SameCardinality
  DEF Service!Change, Service!IsMember, saccepted, slog, sbounds
<1>. QED  BY <1>2, <1>10

LEMMA PublishWritten ==
    ASSUME ~StaleReads, ServiceInv, NEW c \in Calls, Writes(c), PostsMessage(c)
    PROVE  /\ Service!Publish(c)
           /\ UNCHANGED <<group, receipts, results>>
           /\ NewMessage(c).position = lastPosition + 1
           /\ Len(slog') = lastPosition + 1
           /\ slog'[lastPosition + 1]
                = [id |-> c, sender |-> command[c].actor, client |-> command[c].client,
                   content |-> command[c].content, edits |-> 0]
<1>. DEFINE entry == [id |-> c, sender |-> command[c].actor, client |-> command[c].client,
                      content |-> command[c].content, edits |-> 0]
<1>1. /\ TypeOK /\ pc[c] \in {"commit", "limbo"} /\ Apply(c) /\ CallOK(c)
      /\ IsSend(c) /\ c \in MessageIds
  BY CallsAssumption DEF ServiceInv, GovernedInv, Writes, PostsMessage
<1>2. /\ ~Stored(c) /\ SentBefore(c) = {} /\ NewMessage(c).position = lastPosition + 1
  BY DEF Writes, MayCommit, MessageFollows
<1>3. ~IsMembership(c) /\ ~MovesReceipt(c)
  BY <1>1 DEF IsMembership, IsSend, MovesReceipt, IsAck
<1>4. /\ messages' = [messages EXCEPT ![c] = NewMessage(c)]
      /\ lastPosition' = lastPosition + 1
      /\ UNCHANGED <<group, receipts, results>>
  BY <1>1, <1>2, <1>3 DEF Apply, NextPosition, NextResults
<1>5. PICK message \in Message : message = NewMessage(c)
  BY <1>1, MutationTypes DEF TypeOK
<1>6. PICK next : next = messages'  OBVIOUS
<1>7. /\ Dense(next, lastPosition + 1) /\ next[c] = message
      /\ LogOf(next, lastPosition + 1) = Append(slog, Entry(next, c))
  <2>1. /\ messages[c] = None /\ message.position = lastPosition + 1
        /\ next = [messages EXCEPT ![c] = message]
    BY <1>2, <1>4, <1>5, <1>6 DEF Stored
  <2>2. /\ Dense(messages, lastPosition) /\ lastPosition \in Nat
        /\ messages \in [MessageIds -> Message \cup {None}]
    BY HistoryOfService
  <2>3. Joins(messages, lastPosition, c, message, next)
    BY <1>1, <2>1, <2>2 DEF Joins
  <2>4. /\ Dense(next, lastPosition + 1) /\ next[c] = message
        /\ LogOf(next, lastPosition + 1)
             = Append(LogOf(messages, lastPosition), Entry(next, c))
    BY <2>3, LogAppends
  <2>. QED  BY <2>4 DEF slog
<1>8. Entry(next, c) = entry
  <2>1. /\ message.sender = command[c].actor /\ message.client = command[c].client
        /\ message.content = command[c].content /\ message.version - 1 = 0
    BY <1>5 DEF NewMessage, Posted
  <2>. QED  BY <1>7, <2>1 DEF Entry
<1>. HIDE DEF entry
<1>9. slog' = Append(slog, entry)
  BY <1>4, <1>6, <1>7, <1>8 DEF slog
<1>10. Len(slog') = lastPosition + 1 /\ slog'[lastPosition + 1] = entry
  <2>1. /\ messages \in [MessageIds -> Message \cup {None}] /\ lastPosition \in Nat
        /\ Dense(messages, lastPosition)
    BY HistoryOfService
  <2>2. slog \in Seq(Entries) /\ Len(slog) = lastPosition
    BY <2>1, LogType DEF slog
  <2>3. entry \in Entries
    <3>1. next[c] \in Message  BY <1>7
    <3>. QED  BY <1>1, <1>8, <3>1, EntryType
  <2>. QED  BY <1>9, <2>2, <2>3, AppendProperties
<1>11. command[c].actor \in group.members
  BY <1>3, WritesPresent
<1>12. command[c].content.attachments \in {NoAttachments} \cup ReadyAttachments
  BY <1>1 DEF CallOK
<1>13. Service!UnderKey(c) = {}  BY <1>2, KeyNotInLog
<1>14. sbounds' = sbounds /\ saccepted' = saccepted  BY <1>4 DEF sbounds, saccepted
<1>15. Service!Publish(c)
  BY <1>1, <1>4, <1>9, <1>11, <1>12, <1>13, <1>14
  DEF Service!Publish, Service!IsMember, IsSend, slog, sbounds, saccepted, entry
<1>. QED  BY <1>2, <1>4, <1>10, <1>15 DEF entry

\* A replay stores nothing, and is told of the message as it is now.
LEMMA ReplayWritten ==
    ASSUME ~StaleReads, ServiceInv, NEW c \in Calls, Writes(c), IsSend(c), ~PostsMessage(c)
    PROVE  /\ UNCHANGED <<group, lastPosition, messages, receipts, results>>
           /\ command[c].actor \in group.members
           /\ found[c].id \in SentBefore(c) /\ messages[found[c].id] = found[c].value
           /\ found[c].value \in Message
           /\ ~ReplayConflict(found[c].value, command[c].content)
<1>1. /\ TypeOK /\ pc[c] \in {"commit", "limbo"} /\ Apply(c) /\ CallOK(c) /\ FoundOK(c)
      /\ found[c] # None
  BY DEF ServiceInv, GovernedInv, AnswersInv, ReceiptsInv, Writes, PostsMessage
<1>2. ~IsMembership(c) /\ ~MovesReceipt(c)
  BY DEF IsMembership, IsSend, MovesReceipt, IsAck
<1>3. messages[found[c].id] = found[c].value
  BY <1>1, WritesPresent DEF ReadsCurrentAt
<1>4. found[c] \in Found  BY <1>1 DEF TypeOK, ValuesOK, CallTypes
<1>5. found[c].id \in SentBefore(c)
  BY <1>1, <1>3, <1>4 DEF FoundOK, SentBefore, Found
<1>. QED  BY <1>1, <1>2, <1>3, <1>4, <1>5, WritesPresent
          DEF Apply, NextPosition, NextResults, CallOK, Found

\* The boundaries an ACK starts from are the stored ones, and those it ends
\* with are the larger of them and the acknowledged position.
LEMMA AckAdvances ==
    ASSUME ~StaleReads, ServiceInv, NEW c \in Calls, Writes(c), IsAck(c)
    PROVE  LET u == command[c].actor
               i == messages[command[c].message].position
               n == NewReceipt(c)
               old == sbounds[u]
           IN /\ i \in Nat \ {0} /\ u \in Users
              /\ n \in ReceiptWatermark /\ n # None
              /\ Stored(command[c].message)
              /\ messages[command[c].message].sender # u
              /\ old = [delivered |-> watermark[c].delivered.position,
                        read |-> watermark[c].read.position]
              /\ old.delivered \in Nat /\ old.read \in Nat
              /\ n.delivered.position = Service!Larger(old.delivered, i)
              /\ n.read.position = IF command[c].kind = "read"
                                   THEN Service!Larger(old.read, i) ELSE old.read
              /\ MovesReceipt(c) => \/ n.delivered.position # old.delivered
                                    \/ n.read.position # old.read
              /\ ~MovesReceipt(c) => /\ n.delivered.position = old.delivered
                                     /\ n.read.position = old.read
<1>. DEFINE u == command[c].actor
            m == command[c].message
            w == watermark[c]
            n == NewReceipt(c)
            cp == Acked(c)
            kind == command[c].kind
            i == messages[m].position
<1>1. /\ ValuesOK /\ LocalsOK /\ pc[c] \in {"commit", "limbo"}
      /\ FoundOK(c) /\ WatermarkOK(c) /\ found[c] # None
      /\ u \in Users /\ kind \in {"read", "delivered"}
  BY CommandFields DEF ServiceInv, GovernedInv, AnswersInv, ReceiptsInv, TypeOK, Writes,
     LocalsOK, LocalsOKAt, IsAck, ValuesOK, CallTypes
<1>2. /\ w \in ReceiptWatermark /\ cp \in Checkpoint /\ n \in ReceiptWatermark
      /\ n # None /\ w # None
  BY <1>1, MutationTypes, NoneAssumption
<1>3. /\ found[c].id = m /\ m \in MessageIds /\ Stored(m)
      /\ i = found[c].value.position /\ messages[m].sender = found[c].value.sender
  BY <1>1 DEF FoundOK, SameMessage
<1>4. cp = [position |-> i, message |-> m]
  BY <1>3 DEF Acked, CheckpointOf
<1>5. i \in Nat \ {0}
  <2>1. messages[m] \in Message
    BY <1>1, <1>3 DEF Stored, ValuesOK, StorageTypes
  <2>. QED  BY <2>1 DEF Message
<1>6. messages[m].sender # u
  <2>1. AckError(w, snap[c].group, u, kind, cp, found[c].value.sender, now[c]) = Ok
    BY <1>1 DEF ServiceInv, GovernedInv, DecisionsStand, DecisionStandsAt
  <2>. QED  BY <1>3, <2>1 DEF AckError, Ok
<1>7. /\ w.delivered.position \in Nat /\ w.read.position \in Nat
      /\ w.version \in Nat \ {0}
      /\ w.read.position <= w.delivered.position
  BY <1>1, <1>2 DEF ReceiptWatermark, Checkpoint, NoCheckpoint, WatermarkOK, Grounded
<1>8. sbounds[u] = [delivered |-> w.delivered.position, read |-> w.read.position]
  <2>1. IF receipts[u] = None THEN w.version = 1 ELSE w = receipts[u]
    BY WritesPresent DEF ReadsCurrentAt
  <2>2. sbounds[u] = BoundsOf(receipts[u])
    BY <1>1 DEF sbounds
  <2>3. CASE receipts[u] = None
    <3>1. Fresh(w)  BY <1>1, <1>2, <2>1, <2>3 DEF WatermarkOK
    <3>2. w.read.position = 0 /\ w.delivered.position = 0
      BY <3>1 DEF Fresh, NoCheckpoint
    <3>. QED  BY <2>2, <2>3, <3>2 DEF BoundsOf
  <2>4. CASE receipts[u] # None
    BY <2>1, <2>2, <2>4 DEF BoundsOf
  <2>. QED  BY <2>3, <2>4
<1>. HIDE DEF u, m, w, n, cp, kind, i
<1>9. cp.position = i  BY <1>4
<1>10. CASE MovesReceipt(c)
  <2>1. AckChanges(w, kind, cp) /\ n = Advanced(w, kind, cp, now[c])
    BY <1>10 DEF MovesReceipt, NewReceipt, w, kind, cp, n
  <2>2. /\ kind = "read" =>
             n.read = cp /\ n.delivered = IF Covers(w.delivered, cp) THEN w.delivered ELSE cp
        /\ kind = "delivered" => n.read = w.read /\ n.delivered = cp
    BY <1>1, <1>2, <2>1, AdvancedFields
  <2>3. ~Covers(IF kind = "read" THEN w.read ELSE w.delivered, cp)
    BY <2>1 DEF AckChanges
  <2>4. /\ n.delivered.position = Service!Larger(w.delivered.position, i)
        /\ n.read.position = IF kind = "read" THEN Service!Larger(w.read.position, i)
                             ELSE w.read.position
        /\ n.delivered.position # w.delivered.position \/ n.read.position # w.read.position
    <3>1. CASE kind = "read"
      BY <1>5, <1>7, <1>9, <2>2, <2>3, <3>1 DEF Covers, Service!Larger
    <3>2. CASE kind = "delivered"
      BY <1>5, <1>7, <1>9, <2>2, <2>3, <3>2 DEF Covers, Service!Larger
    <3>. QED  BY <1>1, <3>1, <3>2
  <2>. QED  BY <1>2, <1>3, <1>1, <1>5, <1>6, <1>7, <1>8, <1>10, <2>4 DEF u, m, w, n, kind, i
<1>11. CASE ~MovesReceipt(c)
  <2>1. ~AckChanges(w, kind, cp) /\ n = w
    BY <1>11 DEF MovesReceipt, NewReceipt, Advanced, w, kind, cp, n
  <2>2. Covers(IF kind = "read" THEN w.read ELSE w.delivered, cp)
    BY <2>1 DEF AckChanges
  <2>3. /\ n.delivered.position = Service!Larger(w.delivered.position, i)
        /\ n.read.position = IF kind = "read" THEN Service!Larger(w.read.position, i)
                             ELSE w.read.position
    <3>1. CASE kind = "read"
      BY <1>5, <1>7, <1>9, <2>1, <2>2, <3>1 DEF Covers, Service!Larger
    <3>2. CASE kind = "delivered"
      BY <1>5, <1>7, <1>9, <2>1, <2>2, <3>2 DEF Covers, Service!Larger
    <3>. QED  BY <1>1, <3>1, <3>2
  <2>. QED  BY <1>2, <1>3, <1>1, <1>5, <1>6, <1>7, <1>8, <1>11, <2>1, <2>3
            DEF u, m, w, n, kind, i
<1>. QED  BY <1>10, <1>11

LEMMA AckWritten ==
    ASSUME ~StaleReads, ServiceInv, NEW c \in Calls, Writes(c), IsAck(c)
    PROVE  /\ messages[command[c].message].position \in Service!AckedAt(c)
           /\ Service!Acknowledge(c, messages[command[c].message].position)
           /\ UNCHANGED <<group, lastPosition, messages, results>>
           /\ sbounds'[command[c].actor]
                = [delivered |-> NewReceipt(c).delivered.position,
                   read |-> NewReceipt(c).read.position]
           /\ MovesReceipt(c) <=> sbounds' # sbounds
<1>. DEFINE u == command[c].actor
            n == NewReceipt(c)
            i == messages[command[c].message].position
            old == sbounds[u]
            new == [delivered |-> n.delivered.position, read |-> n.read.position]
<1>1. /\ i \in Nat \ {0} /\ u \in Users /\ n # None
      /\ Stored(command[c].message) /\ messages[command[c].message].sender # u
      /\ old.delivered \in Nat /\ old.read \in Nat
      /\ n.delivered.position = Service!Larger(old.delivered, i)
      /\ n.read.position = IF command[c].kind = "read"
                           THEN Service!Larger(old.read, i) ELSE old.read
      /\ MovesReceipt(c) => \/ n.delivered.position # old.delivered
                            \/ n.read.position # old.read
      /\ ~MovesReceipt(c) => /\ n.delivered.position = old.delivered
                             /\ n.read.position = old.read
  BY AckAdvances
<1>2. /\ UNCHANGED <<group, lastPosition, messages, results>>
      /\ receipts' = IF MovesReceipt(c) THEN [receipts EXCEPT ![u] = n] ELSE receipts
      /\ DOMAIN receipts = Users
  <2>1. ~IsMembership(c) /\ ~PostsMessage(c) /\ Apply(c)
    BY DEF IsMembership, PostsMessage, IsSend, IsAck, Writes
  <2>. QED  BY <2>1 DEF Apply, NextPosition, NextResults, ServiceInv, GovernedInv, TypeOK,
               ValuesOK, StorageTypes
<1>3. sbounds = [v \in Users |-> sbounds[v]] /\ sbounds' = [v \in Users |-> sbounds'[v]]
  BY DEF sbounds
<1>4. \A v \in Users : v # u => sbounds'[v] = sbounds[v]
  BY <1>2 DEF sbounds
<1>5. sbounds'[u] = new
  <2>1. CASE MovesReceipt(c)
    <3>1. receipts'[u] = n  BY <1>1, <1>2, <2>1
    <3>2. sbounds'[u] = BoundsOf(receipts'[u])  BY <1>1 DEF sbounds
    <3>. QED  BY <1>1, <3>1, <3>2 DEF BoundsOf
  <2>2. CASE ~MovesReceipt(c)
    <3>1. sbounds' = sbounds  BY <1>2, <2>2 DEF sbounds
    <3>2. old = [delivered |-> watermark[c].delivered.position,
                 read |-> watermark[c].read.position]
      BY AckAdvances
    <3>3. old = new  BY <1>1, <2>2, <3>2
    <3>. QED  BY <3>1, <3>3
  <2>. QED  BY <2>1, <2>2
<1>6. MovesReceipt(c) <=> sbounds' # sbounds
  <2>1. CASE MovesReceipt(c)
    <3>1. sbounds'[u].delivered # old.delivered \/ sbounds'[u].read # old.read
      BY <1>1, <1>5, <2>1
    <3>. QED  BY <2>1, <3>1
  <2>2. CASE ~MovesReceipt(c)
    BY <1>2, <2>2 DEF sbounds
  <2>. QED  BY <2>1, <2>2
<1>7. sbounds' = [sbounds EXCEPT ![u] = new]
  <2>. DEFINE changed == [sbounds EXCEPT ![u] = new]
  <2>. HIDE DEF new
  <2>1. \A v \in Users : sbounds'[v] = changed[v]
    BY <1>1, <1>3, <1>4, <1>5
  <2>2. changed = [v \in Users |-> changed[v]]  BY <1>3
  <2>. HIDE DEF changed
  <2>3. sbounds' = changed  BY <1>3, <2>1, <2>2
  <2>. QED  BY <2>3 DEF changed
<1>8. new = [delivered |-> Service!Larger(old.delivered, i),
             read |-> IF command[c].kind = "read" THEN Service!Larger(old.read, i)
                      ELSE old.read]
  BY <1>1
<1>9. i \in Service!AckedAt(c) /\ slog[i].sender # u
  <2>1. /\ i \in Service!AckedAt(c) /\ slog[i] = Entry(messages, command[c].message)
    BY <1>1, AckedInLog
  <2>. QED  BY <1>1, <2>1 DEF Entry
<1>10. u \in group.members
  BY WritesPresent DEF IsAck, IsMembership
<1>11. slog' = slog /\ saccepted' = saccepted  BY <1>2 DEF slog, saccepted
<1>12. Service!Acknowledge(c, i)
  <2>. HIDE DEF i, new
  <2>1. sbounds' = [sbounds EXCEPT ![u] =
                      [delivered |-> Service!Larger(@.delivered, i),
                       read |-> IF command[c].kind = "read" THEN Service!Larger(@.read, i)
                                ELSE @.read]]
    BY <1>7, <1>8
  <2>. QED  BY <1>2, <1>9, <1>10, <1>11, <2>1
            DEF Service!Acknowledge, Service!IsMember, slog, sbounds, saccepted
<1>. QED  BY <1>2, <1>5, <1>6, <1>9, <1>12

\* An accepted commit, and its answer.
LEMMA CommitTrueRefines ==
    ASSUME ~StaleReads, ServiceInv, NEW c \in Calls, CommitTrue(c)
    PROVE  ServiceStep
<1>. DEFINE i == messages[command[c].message].position
<1>0. /\ Writes(c) /\ Owing(c) /\ pc[c] = "commit" /\ command' = command
      /\ status' = [status EXCEPT ![c] = "ok"] /\ reply' = [reply EXCEPT ![c] = Reply(c)]
      /\ MayCommit(c) /\ Apply(c)
  BY DEF CommitTrue, Finish, Writes, Owing, Ok
<1>1. TypeOK /\ CallOK(c) /\ ValuesOK /\ LocalsOK
  BY DEF ServiceInv, GovernedInv, TypeOK
<1>2. status[c] = "pending"  BY <1>0, <1>1 DEF CallOK
<1>3. snap[c].group.version = group.version  BY <1>0, WritesPresent
<1>4. Reply(c) # None
  BY <1>0, <1>1, ReplyType, NoneAssumption
<1>5. ASSUME NEW a, a = Told(c, Reply(c)) PROVE Service!Answer(c, a)
  <2>1. sanswer' = [sanswer EXCEPT ![c] = a]
    BY <1>0, <1>1, <1>5, AnswerGiven
  <2>. QED  BY <1>0, <2>1 DEF Service!Answer, sanswer
<1>6. CASE IsMembership(c)
  <2>1. PICK a : a = [members |-> group'.members, version |-> group'.version]  OBVIOUS
  <2>2. Service!Change(c) /\ group' = NewGroup(c)
    BY <1>0, <1>6, ChangeWritten
  <2>3. a = Told(c, Reply(c))
    BY <1>4, <1>6, <2>1, <2>2 DEF Told, Reply
  <2>4. Service!Answer(c, a)  BY <1>5, <2>3
  <2>5. Service!ServeMembership(c)  BY <2>1, <2>2, <2>4 DEF Service!ServeMembership
  <2>. QED  BY <1>0, <1>2, <2>5, ServedStep DEF Service!Serve
<1>7. CASE IsSend(c) /\ PostsMessage(c)
  <2>1. /\ Service!Publish(c) /\ group' = group
        /\ NewMessage(c).position = lastPosition + 1
        /\ Len(slog') = lastPosition + 1
        /\ slog'[lastPosition + 1]
             = [id |-> c, sender |-> command[c].actor, client |-> command[c].client,
                content |-> command[c].content, edits |-> 0]
    BY <1>0, <1>7, PublishWritten
  <2>2. PICK a : a = [id |-> c, position |-> lastPosition + 1,
                      content |-> command[c].content, edits |-> 0,
                      groupVersion |-> group.version]
    OBVIOUS
  <2>3. a = Told(c, Reply(c))
    <3>1. /\ NewMessage(c).content = command[c].content /\ NewMessage(c).version - 1 = 0
      BY DEF NewMessage, Posted
    <3>2. PICK r : r = [id |-> c, message |-> NewMessage(c),
                        groupVersion |-> group.version]
      OBVIOUS
    <3>3. Reply(c) = r
      BY <1>3, <1>7, <3>2 DEF Reply, IsMembership, IsSend
    <3>. QED  BY <1>4, <1>7, <2>1, <2>2, <3>1, <3>2, <3>3 DEF Told, IsMembership, IsSend
  <2>4. a = Service!Sent(c, Len(slog'), slog'[Len(slog')])
    BY <2>1, <2>2 DEF Service!Sent
  <2>5. Service!Answer(c, a)  BY <1>5, <2>3
  <2>6. Service!ServeSend(c)  BY <2>1, <2>4, <2>5 DEF Service!ServeSend, slog
  <2>. QED  BY <1>0, <1>2, <2>6, ServedStep DEF Service!Serve
<1>8. CASE IsSend(c) /\ ~PostsMessage(c)
  <2>1. /\ UNCHANGED <<group, lastPosition, messages, receipts, results>>
        /\ command[c].actor \in group.members
        /\ found[c].id \in SentBefore(c) /\ messages[found[c].id] = found[c].value
        /\ found[c].value \in Message
        /\ ~ReplayConflict(found[c].value, command[c].content)
    BY <1>0, <1>8, ReplayWritten
  <2>2. PICK m \in MessageIds : m = found[c].id /\ m \in SentBefore(c)
    BY <2>1 DEF SentBefore
  <2>3. PICK k \in Service!UnderKey(c) : /\ k = messages[m].position
                                         /\ slog[k] = Entry(messages, m)
    BY <1>8, <2>2, KeyInLog
  <2>4. ~Service!Differs(c, slog[k])
    BY <2>1, <2>2, <2>3, SameFence
  <2>5. PICK a : a = Service!Sent(c, k, slog[k])  OBVIOUS
  <2>6. a = Told(c, Reply(c))
    <3>1. PICK r : r = [id |-> m, message |-> messages[m], groupVersion |-> group.version]
      OBVIOUS
    <3>2. Reply(c) = r
      BY <1>3, <1>8, <2>1, <2>2, <3>1 DEF Reply, IsMembership, IsSend
    <3>3. Told(c, r) = [id |-> m, position |-> k, content |-> messages[m].content,
                        edits |-> messages[m].version - 1, groupVersion |-> group.version]
      BY <1>4, <1>8, <2>3, <3>1, <3>2 DEF Told, IsMembership, IsSend
    <3>4. a = [id |-> m, position |-> k, content |-> messages[m].content,
               edits |-> messages[m].version - 1, groupVersion |-> group.version]
      BY <2>3, <2>5 DEF Service!Sent, Entry
    <3>. QED  BY <3>2, <3>3, <3>4
  <2>7. Service!Answer(c, a)  BY <1>5, <2>6
  <2>8. slog' = slog /\ sbounds' = sbounds /\ saccepted' = saccepted
    BY <2>1 DEF slog, sbounds, saccepted
  <2>9. Service!RecallSend(c)
    BY <2>1, <2>4, <2>5, <2>7, <2>8
    DEF Service!RecallSend, Service!IsMember, slog, sbounds, saccepted
  <2>. QED  BY <1>0, <1>2, <2>9, ServedStep DEF Service!Serve
<1>9. CASE IsAck(c)
  <2>1. /\ i \in Service!AckedAt(c) /\ Service!Acknowledge(c, i)
        /\ sbounds'[command[c].actor]
             = [delivered |-> NewReceipt(c).delivered.position,
                read |-> NewReceipt(c).read.position]
        /\ MovesReceipt(c) <=> sbounds' # sbounds
    BY <1>0, <1>9, AckWritten
  <2>2. PICK changed \in BOOLEAN : changed = MovesReceipt(c) /\ changed = (sbounds' # sbounds)
    BY <2>1 DEF MovesReceipt, IsAck, AckChanges
  <2>3. PICK a : a = [delivered |-> NewReceipt(c).delivered.position,
                      read |-> NewReceipt(c).read.position,
                      changed |-> changed, groupVersion |-> group.version]
    OBVIOUS
  <2>4. a = Told(c, Reply(c))
    <3>1. PICK r : r = [watermark |-> NewReceipt(c), changed |-> changed,
                        groupVersion |-> group.version]
      OBVIOUS
    <3>2. Reply(c) = r
      BY <1>3, <1>9, <2>2, <3>1 DEF Reply, IsMembership, IsSend, IsAck
    <3>. QED  BY <1>4, <1>9, <2>3, <3>1, <3>2 DEF Told, IsMembership, IsSend, IsAck
  <2>5. Service!Answer(c, a)  BY <1>5, <2>4
  <2>6. a = [delivered |-> sbounds'[command[c].actor].delivered,
             read |-> sbounds'[command[c].actor].read,
             changed |-> sbounds' # sbounds, groupVersion |-> group.version]
    BY <2>1, <2>2, <2>3
  <2>7. Service!ServeAck(c)
    BY <2>1, <2>5, <2>6 DEF Service!ServeAck, sbounds
  <2>. QED  BY <1>0, <1>2, <2>7, ServedStep DEF Service!Serve
<1>. QED  BY <1>1, <1>6, <1>7, <1>8, <1>9, CommandKinds DEF ValuesOK, CallTypes

\* A write that lands after its call has raised takes effect all the same; a
\* replay has nothing to write.
LEMMA LandRefines ==
    ASSUME ~StaleReads, ServiceInv, NEW c \in Calls, Land(c)
    PROVE  ServiceStep
<1>0. /\ Writes(c) /\ UNCHANGED <<command, status, reply>> /\ status[c] = "Unavailable"
  BY DEF Land, Writes, ServiceInv, CallOK
<1>1. sanswer' = sanswer  BY <1>0, AnswerStays
<1>2. CASE Service!Change(c) \/ Service!Publish(c)
           \/ \E i \in Service!AckedAt(c) : Service!Acknowledge(c, i)
  <2>1. Service!Land(c)  BY <1>0, <1>1, <1>2 DEF Service!Land, sanswer
  <2>. QED  BY <1>0, <2>1, ServedStep
<1>3. CASE IsSend(c) /\ ~PostsMessage(c)
  <2>1. UNCHANGED <<group, lastPosition, messages, receipts, results>>
    BY <1>0, <1>3, ReplayWritten
  <2>2. slog' = slog /\ sbounds' = sbounds /\ saccepted' = saccepted
    BY <2>1 DEF slog, sbounds, saccepted
  <2>. QED  BY <1>0, <1>1, <2>1, <2>2
            DEF ServiceStep, Service!svars, slog, sbounds, saccepted, sanswer
<1>4. IsMembership(c) \/ IsSend(c) \/ IsAck(c)
  BY CommandKinds DEF ServiceInv, GovernedInv, TypeOK, ValuesOK, CallTypes
<1>5. CASE IsMembership(c)  BY <1>0, <1>2, <1>5, ChangeWritten
<1>6. CASE IsAck(c)  BY <1>0, <1>2, <1>6, AckWritten
<1>7. CASE PostsMessage(c)  BY <1>0, <1>2, <1>7, PublishWritten
<1>. QED  BY <1>3, <1>4, <1>5, <1>6, <1>7

\* The author's edit is an edit of the entry at the message's position.
LEMMA EditRefines ==
    ASSUME ServiceInv, NEW m \in MessageIds, EditMessage(m)
    PROVE  ServiceStep
<1>. DEFINE i == messages[m].position
<1>1. PICK text \in Texts \ {messages[m].content.text} :
        messages' = [messages EXCEPT ![m] = Edited(@, text)]
  BY DEF EditMessage
<1>2. PICK next : next = messages'  OBVIOUS
<1>3. next = [messages EXCEPT ![m] = Edited(messages[m], text)] /\ messages[m] # None
  BY <1>1, <1>2 DEF EditMessage, Stored
<1>4. /\ Dense(messages, lastPosition) /\ lastPosition \in Nat
      /\ messages \in [MessageIds -> Message \cup {None}]
  BY HistoryOfService
<1>5. EditedAt(LogOf(messages, lastPosition), messages[m].position, text,
               LogOf(next, lastPosition))
  <2>1. Amends(messages, lastPosition, m, text, next)  BY <1>1, <1>3, <1>4 DEF Amends
  <2>. QED  BY <2>1, LogEdits
<1>6. /\ UNCHANGED <<group, lastPosition, receipts, results, command, status, reply>>
  BY DEF EditMessage
<1>7. slog' = [slog EXCEPT ![i].content.text = text, ![i].edits = @ + 1]
  BY <1>2, <1>5, <1>6 DEF slog, EditedAt
<1>8. i \in DOMAIN slog /\ slog[i] = Entry(messages, m)
  BY <1>3, LoggedMessage DEF Stored
<1>9. text \in Texts \ {slog[i].content.text}
  BY <1>8 DEF Entry
<1>10. sanswer' = sanswer /\ sbounds' = sbounds /\ saccepted' = saccepted
  BY <1>6, AnswerStays DEF sbounds, saccepted
<1>11. Service!Edit(i)
  BY <1>6, <1>7, <1>9, <1>10 DEF Service!Edit, slog, sbounds, saccepted, sanswer
<1>. QED  BY <1>6, <1>8, <1>11 DEF ServiceStep, Service!Next, slog

\* A rename, an avatar or a handover.
LEMMA GovernRefines ==
    ASSUME ServiceInv, Governs
    PROVE  ServiceStep
<1>1. PICK changed \in GroupDialog, t \in Nat :
        /\ changed.members = group.members /\ changed.owner \in group.members
        /\ changed.version = group.version
        /\ Accept(changed, t)
  BY GovernEffect DEF ServiceInv, GovernedInv
<1>2. /\ group'.members = group.members /\ group'.owner \in group.members
      /\ group'.version = group.version + 1
  BY <1>1, AcceptedGroup
<1>3. UNCHANGED <<lastPosition, messages, receipts, results, command, status, reply>>
  BY <1>1 DEF Accept
<1>4. /\ sanswer' = sanswer /\ slog' = slog /\ sbounds' = sbounds
      /\ saccepted' = saccepted
  BY <1>3, AnswerStays DEF slog, sbounds, saccepted
<1>5. Service!Govern
  BY <1>2, <1>3, <1>4 DEF Service!Govern, slog, sbounds, saccepted, sanswer
<1>. QED  BY <1>3, <1>5 DEF ServiceStep, Service!Next

LEMMA NextRefines ==
    ASSUME ~StaleReads, ServiceInv, [GovernedNext]_vars
    PROVE  ServiceStep
<1>1. ASSUME NEW c \in Calls, Step(c) PROVE ServiceStep
  <2>1. CASE Load(c)  BY <2>1, LoadRefines
  <2>2. CASE ReadConflict(c)
    BY <2>2, RetriedStep DEF ReadConflict, Owing
  <2>3. CASE ReadMembership(c)  BY <2>3, ReadMembershipRefines
  <2>4. CASE VerifyRegistered(c)  BY <2>4, VerifyRegisteredRefines
  <2>5. CASE ReadSent(c)  BY <2>5, ReadSentRefines
  <2>6. CASE VerifyAttachments(c)  BY <2>6, VerifyAttachmentsRefines
  <2>7. CASE ReadThrough(c)
    BY <2>7, QuietStep DEF ReadThrough, Proceed
  <2>8. CASE ReadReceipt(c)  BY <2>8, ReadReceiptRefines
  <2>9. CASE CommitTrue(c)  BY <2>9, CommitTrueRefines
  <2>10. CASE CommitFalse(c)
    BY <2>10, RetriedStep DEF CommitFalse, Owing
  <2>. QED  BY <1>1, <2>1, <2>2, <2>3, <2>4, <2>5, <2>6, <2>7, <2>8, <2>9, <2>10 DEF Step
<1>2. ASSUME NEW c \in Calls, Unavailable(c) PROVE ServiceStep
  BY <1>2, FailedStep DEF Unavailable, Owing, Service!Excuses
<1>3. ASSUME NEW c \in Calls, LoseCommit(c) PROVE ServiceStep
  <2>1. TypeOK /\ CallOK(c) /\ Owing(c)
    BY <1>3 DEF ServiceInv, GovernedInv, LoseCommit, Owing
  <2>2. reply' = [reply EXCEPT ![c] = None]
    BY <1>3, <2>1 DEF LoseCommit, CallOK, TypeOK, ValuesOK, CallTypes
  <2>. QED  BY <1>3, <2>1, <2>2, RefusedStep DEF LoseCommit, Service!Excuses
<1>4. ASSUME NEW c \in Calls, Land(c) PROVE ServiceStep
  BY <1>4, LandRefines
<1>5. ASSUME NEW m \in MessageIds, EditMessage(m) PROVE ServiceStep
  BY <1>5, EditRefines
<1>6. CASE Settled \/ UNCHANGED vars
  BY <1>6, QuietStep DEF Settled, vars
<1>7. CASE Governs  BY <1>7, GovernRefines
<1>. QED  BY <1>1, <1>2, <1>3, <1>4, <1>5, <1>6, <1>7 DEF GovernedNext, Governs, Next

LEMMA InitRefines == Init => Service!Init
<1>. SUFFICES ASSUME Init PROVE Service!Init
  OBVIOUS
<1>1. /\ group.members = InitialMembers /\ group.owner = Owner /\ group.version = 1
  BY DEF Init
<1>2. slog = LogOf([m \in MessageIds |-> IF m \in SeedIds THEN Seed[m] ELSE None], SeedLast)
  BY DEF Init, slog
<1>3. sbounds = [u \in Users |-> [delivered |-> 0, read |-> 0]]
  BY DEF Init, sbounds, BoundsOf
<1>4. saccepted = [k \in CommandIds |-> None]
  BY DEF Init, saccepted, AcceptedOf
<1>5. sanswer = [c \in Calls |-> None] /\ status = [c \in Calls |-> "pending"]
  BY DEF Init, sanswer, AnswerOf
<1>. QED  BY <1>1, <1>2, <1>3, <1>4, <1>5
          DEF Service!Init, slog, sbounds, saccepted, sanswer
------------------------------------------------------------------------------
\* Whatever the other writers of the history do, the handlers, their retries and
\* their lost writes show the callers one group that changes in one indivisible
\* step per accepted command, and answers that were true at one instant between
\* the call and its return (ADR 0001), as long as the adapter keeps its contract
\* and answers no read with what a lagging replica has.
THEOREM GovernedServiceCorrect ==
    ASSUME ~StaleReads PROVE GovernedSpec => ImplementsService
<1>1. ServiceInv /\ [GovernedNext]_vars => ServiceInv'  BY NextService
<1>2. ServiceInv /\ [GovernedNext]_vars => [Service!Next]_Service!svars
  BY NextRefines DEF ServiceStep
<1>. QED  BY <1>1, <1>2, InitService, InitRefines, PTL
          DEF GovernedSpec, ImplementsService, Service!Spec

\* The same for the commands by themselves.
THEOREM ServiceCorrect == ASSUME ~StaleReads PROVE Spec => ImplementsService
<1>1. [Next]_vars => [GovernedNext]_vars  BY DEF GovernedNext
<1>2. ServiceInv /\ [Next]_vars => ServiceInv'  BY <1>1, NextService
<1>3. ServiceInv /\ [Next]_vars => [Service!Next]_Service!svars
  BY <1>1, NextRefines DEF ServiceStep
<1>. QED  BY <1>2, <1>3, InitService, InitRefines, PTL
          DEF Spec, ImplementsService, Service!Spec

==============================================================================
