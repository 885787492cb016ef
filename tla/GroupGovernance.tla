-------------------------- MODULE GroupGovernance --------------------------
(***************************************************************************)
(* The group commands beside the other changes GroupDialog knows: rename,  *)
(* change_avatar, remove_avatar and change_owner.  No handler calls these  *)
(* four yet; the storage port already demands of every accepted change of  *)
(* the group that it advances the common revision of the history, so each  *)
(* is one more conditional writer, seen here at the instant its write is   *)
(* accepted.  What is asked is whether the commands, written for a group   *)
(* whose owner and profile stand still, remain right beside them.          *)
(***************************************************************************)
EXTENDS GroupRefinement

CONSTANT MaxGroupVersion   \* bound: no such change from this version on

\* Mutant: the change is stored beside the revision of the history.
QuietAccept(changed, instant) ==
    /\ changed # group /\ group.version < MaxGroupVersion
    /\ group' = Applied(group, changed, instant)
    /\ UNCHANGED <<revision, lastPosition, messages, receipts, results,
                   command, pc, attempt, locals, status, reply>>

\* The changed group is stored; one equal to the present group stores nothing.
Accept(changed, instant) ==
    /\ changed # group /\ group.version < MaxGroupVersion
    /\ group' = Applied(group, changed, instant)
    /\ revision' = revision + 1
    /\ UNCHANGED <<lastPosition, messages, receipts, results,
                   command, pc, attempt, locals, status, reply>>

\* A change of the profile by any member.
Redecorate(changed) ==
    \E actor \in Users, instant \in Clock :
       /\ ProfileError(group, changed, actor, instant) = Ok
       /\ Accept(changed, instant)

Rename == \E title \in Titles : Redecorate([group EXCEPT !.title = title])

ChangeAvatar == \E avatar \in Avatars : Redecorate([group EXCEPT !.avatar = avatar])

RemoveAvatar == Redecorate([group EXCEPT !.avatar = None])

ChangeOwner ==
    \E actor, user \in Users, instant \in Clock :
       /\ HandoverError(group, actor, user, instant) = Ok
       /\ Accept([group EXCEPT !.owner = user], instant)

GovernedNext == Next \/ Rename \/ ChangeAvatar \/ RemoveAvatar \/ ChangeOwner

GovernedSpec == Init /\ [][GovernedNext]_vars

FairSpec == GovernedSpec /\ Fairness
------------------------------------------------------------------------------
(* Properties *)

\* No lost update: every stored change of the group alters exactly one of its
\* members, owner, title and avatar, by one version and not back in time,
\* although a command stores a whole group computed from the one it loaded
\* (GroupCommitRepositoryProtocol).
OneChangeAtATime ==
    [][ group' # group =>
          /\ group'.version = group.version + 1
          /\ group'.updatedAt >= group.updatedAt
          /\ Cardinality({field \in {"members", "owner", "title", "avatar"} :
                            group'[field] # group[field]}) = 1 ]_vars
==============================================================================
