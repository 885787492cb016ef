---------------------------- MODULE DialogRecovery ----------------------------
(***************************************************************************)
(* Dialog creation with clients that repeat a command which failed for     *)
(* reasons of the service, against the directory it promises, and what     *)
(* becomes of dialogs left half projected once the failures end.           *)
(***************************************************************************)
EXTENDS DialogCreation

\* A client gives up waiting for a call and invokes the handler once more.  A
\* write of the first call still on its way then never lands; one that lands
\* beside a repeated command is the case of two calls with one request.  The id
\* drawn anew may be the old one: the old candidate is stored, or never will be.
Repeat(c) ==
    /\ pc[c] \in {"limbo", "done"}
    /\ status[c] \in {"Unavailable", "DialogProjectionsIncomplete"}
    /\ Goto(c, "lookup")
    /\ turn' = [turn EXCEPT ![c] = 1]
    /\ candidate' = [candidate EXCEPT ![c] = None]
    /\ canonical' = [canonical EXCEPT ![c] = None]
    /\ created' = [created EXCEPT ![c] = FALSE]
    /\ status' = [status EXCEPT ![c] = "pending"]
    /\ reply' = [reply EXCEPT ![c] = None]
    /\ UNCHANGED <<stores, request>>

RepeatedNext == Next \/ \E c \in Calls : Repeat(c)

RepeatedSpec == Init /\ [][RepeatedNext]_vars

Fails(c) == Unavailable(c) \/ LoseCreate(c) \/ LoseProjection(c)

\* Ready tasks run, clients do repeat, and the failures of dependencies end some
\* day; lost writes need not land, nor users register.
RecoverySpec ==
    /\ RepeatedSpec
    /\ \A c \in Calls : WF_vars(Step(c)) /\ WF_vars(Repeat(c))
    /\ <>[][\A c \in Calls : ~Fails(c)]_vars
------------------------------------------------------------------------------
(* The directory *)

ShownBy(stored, shownCards, shownLists) ==
    {p \in Users \X Keys : /\ stored[p[2]] # None
                           /\ stored[p[2]] \in shownCards[p[1]] \cap shownLists[p[1]]}

Directory == INSTANCE DialogDirectory WITH
    Entries <- Dialog,
    asked <- [c \in Calls |-> IF WithSelf(c) THEN None ELSE Key(c)],
    directory <- dialogs,
    visible <- ShownBy(dialogs, cards, lists),
    answers <- [c \in Calls |-> [status |-> status[c], dialog |-> reply[c]]]

\* Lookups that miss, candidates that lose, projections written in part, answers
\* that get lost and commands that are repeated add up to a directory with one
\* dialog per key: success is never reported before everybody sees it, and a
\* refusal is true when it is given (CreateDirectDialogHandler.__call__).
ImplementsDirectory == Directory!Spec

\* A stored dialog is some day seen by all its participants, whichever call stored
\* it, however late, and whatever was projected before the failure
\* (docs/domain-model-design-2026-09-18.md: a partial write is restored by repeating).
StoredGetsProjected ==
    \A k \in Keys :
      dialogs[k] # None ~> \A u \in UsersOf(k) : dialogs[k] \in cards[u] \cap lists[u]

\* Repeating does help: once the failures end, a command ends well or with a refusal
\* that repeating could not change, never with a conflict between the calls.
CommandsSettle ==
    \A c \in Calls :
      <>[](/\ pc[c] = "done"
           /\ status[c] \in {"ok", "SelfDialogNotAllowed", "UserNotRegistered"})
==============================================================================
