---------------------------- MODULE DialogCreation ----------------------------
(***************************************************************************)
(* CreateDirectDialogHandler and CreateSavedDialogHandler: calls that race *)
(* to create the one dialog of a pair of users, or of a user with herself, *)
(* and then project it to its users.                                       *)
(*                                                                         *)
(* A call looks the dialog up, asks Identity about its users one by one,   *)
(* lets create_or_get choose the canonical dialog and ensures the          *)
(* projection of each user.  Each of these is an await; each may fail.     *)
(* A client retry is another call with the same request.                   *)
(***************************************************************************)
EXTENDS Integers, Sequences, FiniteSets

CONSTANTS
    Users,     \* user ids, numbers so that they compare as UUID bytes do
    Calls,     \* handler invocations; the id a call draws for a dialog is itself
    Requests,  \* which request each call may be made with
    Clock,     \* instants the clock may return
    None

Request == [kind : {"direct"}, actor : Users, peer : Users]
             \cup [kind : {"saved"}, actor : Users]

ASSUME DialogsAssumption ==
    /\ Users \subseteq Nat
    /\ Requests \subseteq [Calls -> Request]

VARIABLES
    dialogs,     \* the canonical dialog of each key, or None
    cards,       \* user -> the dialogs she has a card of
    lists,       \* user -> the dialogs in her list
    registered,  \* users who completed their registration
    request,     \* what each call asks for; never changes
    pc,
    turn,        \* whose registration or projection the call is at
    candidate,   \* the dialog it proposes
    canonical,   \* the one it was given
    created,
    status, reply

stores == <<dialogs, cards, lists, registered>>
locals == <<turn, candidate, canonical, created>>
vars == <<stores, request, pc, locals, status, reply>>
------------------------------------------------------------------------------
\* DirectParticipants, in canonical order; the owner alone of a SavedDialog.
Participants(r) ==
    IF r.kind = "saved" THEN <<r.actor>>
    ELSE IF r.peer < r.actor THEN <<r.peer, r.actor>>
    ELSE <<r.actor, r.peer>>

Keys == Users \X Users \cup {<<u>> : u \in Users}

Dialog == [id : Calls, participants : Keys, createdAt : Clock]

ASSUME NoneAssumption == None \notin Dialog \cup Keys

Key(c) == Participants(request[c])
Member(c) == Key(c)[turn[c]]

AtLast(c) == turn[c] = Len(Key(c))

Init ==
    /\ dialogs = [k \in Keys |-> None]
    /\ cards = [u \in Users |-> {}]
    /\ lists = [u \in Users |-> {}]
    /\ registered \in SUBSET Users
    /\ request \in Requests
    /\ pc = [c \in Calls |-> "lookup"]
    /\ turn = [c \in Calls |-> 1]
    /\ candidate = [c \in Calls |-> None]
    /\ canonical = [c \in Calls |-> None]
    /\ created = [c \in Calls |-> FALSE]
    /\ status = [c \in Calls |-> "pending"]
    /\ reply = [c \in Calls |-> None]
------------------------------------------------------------------------------
Goto(c, label) == pc' = [pc EXCEPT ![c] = label]

\* The handler returns r, or raises the error s; r then is what the error names.
Finish(c, s, r) ==
    /\ Goto(c, "done")
    /\ status' = [status EXCEPT ![c] = s]
    /\ reply' = [reply EXCEPT ![c] = r]

\* Mutant: the projections start where the questions to Identity ended.
KeepTurn(c, dialog, new) ==
    /\ canonical' = [canonical EXCEPT ![c] = dialog]
    /\ created' = [created EXCEPT ![c] = new]
    /\ Goto(c, "project")
    /\ UNCHANGED <<turn, status, reply>>

\* The dialog the call goes on with, whether found, created or lost to a winner.
Adopt(c, dialog, new) ==
    /\ canonical' = [canonical EXCEPT ![c] = dialog]
    /\ created' = [created EXCEPT ![c] = new]
    /\ turn' = [turn EXCEPT ![c] = 1]
    /\ Goto(c, "project")
    /\ UNCHANGED <<status, reply>>

\* DirectParticipants refuses this pair before anything is awaited.
WithSelf(c) == request[c].kind = "direct" /\ request[c].peer = request[c].actor

\* Mutant: a dialog that is found is answered at once.
TrustingLookup(c) ==
    /\ pc[c] = "lookup"
    /\ IF WithSelf(c)
       THEN Finish(c, "SelfDialogNotAllowed", None)
       ELSE \/ /\ dialogs[Key(c)] # None
               /\ Finish(c, "ok", dialogs[Key(c)])
            \/ Goto(c, "verify") /\ UNCHANGED <<status, reply>>
    /\ UNCHANGED <<stores, request, locals>>

\* DirectParticipants.from_user_ids, then get_by_participants or get_by_owner;
\* this read decides nothing and may be stale.
Lookup(c) ==
    /\ pc[c] = "lookup"
    /\ IF WithSelf(c)
       THEN Finish(c, "SelfDialogNotAllowed", None) /\ UNCHANGED locals
       ELSE \/ /\ dialogs[Key(c)] # None
               /\ Adopt(c, dialogs[Key(c)], FALSE)
               /\ UNCHANGED candidate
            \/ Goto(c, "verify") /\ UNCHANGED <<locals, status, reply>>
    /\ UNCHANGED <<stores, request>>

Refused(c) == Member(c) \notin registered

\* require_registered for the next participant; after the last, the candidate.
Verify(c) ==
    /\ pc[c] = "verify"
    /\ IF Refused(c)
       THEN Finish(c, "UserNotRegistered", None) /\ UNCHANGED locals
       ELSE IF ~AtLast(c)
       THEN /\ turn' = [turn EXCEPT ![c] = @ + 1]
            /\ UNCHANGED <<pc, candidate, canonical, created, status, reply>>
       ELSE /\ \E instant \in Clock :
                 candidate' = [candidate EXCEPT ![c] =
                   [id |-> c, participants |-> Key(c), createdAt |-> instant]]
            /\ Goto(c, "create")
            /\ UNCHANGED <<turn, canonical, created, status, reply>>
    /\ UNCHANGED <<stores, request>>

\* create_or_get: the dialog stored under the key afterwards.
Winner(c) == IF dialogs[Key(c)] = None THEN candidate[c] ELSE dialogs[Key(c)]

\* Mutant: the loser of the race goes on with its own dialog.
OwnCreate(c) ==
    /\ pc[c] = "create"
    /\ dialogs' = [dialogs EXCEPT ![Key(c)] = Winner(c)]
    /\ Adopt(c, candidate[c], TRUE)
    /\ UNCHANGED <<cards, lists, registered, request, candidate>>

\* Mutant: the loser of the race is told of a conflict.
LoserRaises(c) ==
    /\ pc[c] = "create"
    /\ dialogs' = [dialogs EXCEPT ![Key(c)] = Winner(c)]
    /\ IF dialogs[Key(c)] = None
       THEN Adopt(c, Winner(c), TRUE)
       ELSE Finish(c, "ConcurrentModification", None) /\ UNCHANGED <<turn, canonical, created>>
    /\ UNCHANGED <<cards, lists, registered, request, candidate>>

Create(c) ==
    /\ pc[c] = "create"
    /\ dialogs' = [dialogs EXCEPT ![Key(c)] = Winner(c)]
    /\ Adopt(c, Winner(c), dialogs[Key(c)] = None)
    /\ UNCHANGED <<cards, lists, registered, request, candidate>>

\* ensure_for_user for the next user; after the last, the answer.
Project(c) ==
    /\ pc[c] = "project"
    /\ cards' = [cards EXCEPT ![Member(c)] = @ \cup {canonical[c]}]
    /\ lists' = [lists EXCEPT ![Member(c)] = @ \cup {canonical[c]}]
    /\ IF ~AtLast(c)
       THEN turn' = [turn EXCEPT ![c] = @ + 1] /\ UNCHANGED <<pc, status, reply>>
       ELSE Finish(c, "ok", canonical[c]) /\ UNCHANGED turn
    /\ UNCHANGED <<dialogs, registered, request, candidate, canonical, created>>
------------------------------------------------------------------------------
(* Failures *)

\* StorageUnavailableError or IdentityUnavailableError of a read.
Unavailable(c) ==
    /\ pc[c] \in {"lookup", "verify"} /\ ~WithSelf(c)
    /\ Finish(c, "Unavailable", None)
    /\ UNCHANGED <<stores, request, locals>>

\* The outcome of create_or_get is not known: the candidate may have been
\* stored, may still be, or may never be.
LoseCreate(c) ==
    /\ pc[c] = "create"
    /\ Goto(c, "limbo")
    /\ status' = [status EXCEPT ![c] = "Unavailable"]
    /\ UNCHANGED <<stores, request, locals, reply>>

Land(c) ==
    /\ pc[c] = "limbo"
    /\ dialogs' = [dialogs EXCEPT ![Key(c)] = Winner(c)]
    /\ Goto(c, "done")
    /\ UNCHANGED <<cards, lists, registered, request, locals, status, reply>>

\* ProjectionUnavailableError: the card or the list of this user may be written
\* already; the users after this one are not tried.
LoseProjection(c) ==
    /\ pc[c] = "project"
    /\ \E card, list \in {{}, {canonical[c]}} :
         /\ cards' = [cards EXCEPT ![Member(c)] = @ \cup card]
         /\ lists' = [lists EXCEPT ![Member(c)] = @ \cup list]
    /\ Finish(c, "DialogProjectionsIncomplete", canonical[c])
    /\ UNCHANGED <<dialogs, registered, request, locals>>

\* A user completes her registration with Identity.
Register(u) ==
    /\ u \notin registered
    /\ registered' = registered \cup {u}
    /\ UNCHANGED <<dialogs, cards, lists, request, pc, locals, status, reply>>

\* All calls have returned; a lost write may never land.
Settled ==
    /\ \A c \in Calls : pc[c] \in {"limbo", "done"}
    /\ UNCHANGED vars

Step(c) == Lookup(c) \/ Verify(c) \/ Create(c) \/ Project(c)

Next ==
    \/ \E c \in Calls : \/ Step(c) \/ Unavailable(c)
                        \/ LoseCreate(c) \/ Land(c) \/ LoseProjection(c)
    \/ \E u \in Users : Register(u)
    \/ Settled

Spec == Init /\ [][Next]_vars
------------------------------------------------------------------------------
(* Properties *)

Errors == {"SelfDialogNotAllowed", "UserNotRegistered", "Unavailable",
           "DialogProjectionsIncomplete"}

\* The values of the stores and of the handlers' locals, and which of the latter
\* are there at which await.
TypeOK ==
    /\ dialogs \in [Keys -> Dialog \cup {None}]
    /\ cards \in [Users -> SUBSET Dialog] /\ lists \in [Users -> SUBSET Dialog]
    /\ registered \in SUBSET Users
    /\ request \in [Calls -> Request]
    /\ pc \in [Calls -> {"lookup", "verify", "create", "project", "limbo", "done"}]
    /\ turn \in [Calls -> 1..2]
    /\ candidate \in [Calls -> Dialog \cup {None}]
    /\ canonical \in [Calls -> Dialog \cup {None}]
    /\ created \in [Calls -> BOOLEAN]
    /\ status \in [Calls -> {"pending", "ok"} \cup Errors]
    /\ reply \in [Calls -> Dialog \cup {None}]
    /\ \A c \in Calls :
         /\ turn[c] <= Len(Key(c))
         /\ pc[c] \in {"create", "limbo"} =>
              candidate[c] # None /\ candidate[c].participants = Key(c)
         /\ pc[c] = "project" => canonical[c] # None

UsersOf(k) == {k[i] : i \in DOMAIN k}

\* Calls for A-B and B-A, in any order and with any of them lost, are told of one
\* dialog, the stored one, with the winner's id and creation time; an error
\* about its projections names it too; and at most one of them is told that it
\* created it (DirectDialogRepositoryProtocol.create_or_get).
OneWinner ==
    /\ \A c \in Calls : reply[c] # None => reply[c] = dialogs[Key(c)]
    /\ \A c \in Calls : canonical[c] # None => canonical[c] = dialogs[Key(c)]
    /\ \A c, d \in Calls :
         created[c] /\ created[d] /\ Key(c) = Key(d) => c = d

\* Whoever the race leaves without a winner's id, and whatever is written in part,
\* no user ever sees a dialog that is not the stored one of a key she is in.
ProjectionsCanonical ==
    \A u \in Users : \A d \in cards[u] \cup lists[u] :
      /\ u \in UsersOf(d.participants)
      /\ dialogs[d.participants] = d

\* Success means that every participant has the card and the list entry, also
\* when an earlier call failed halfway (ensure_dialog_projections).
AnsweredProjected ==
    \A c \in Calls :
      status[c] = "ok" => \A u \in UsersOf(Key(c)) : reply[c] \in cards[u] \cap lists[u]

\* A dialog is stored only for users who completed their registration, although
\* they are asked about one after the other and the winner may land late.
OnlyRegistered ==
    \A k \in Keys : dialogs[k] # None => UsersOf(k) \subseteq registered

\* A stored dialog is never replaced, and no projection of it taken back.
DialogsStable ==
    [][ /\ \A k \in Keys : dialogs[k] # None => dialogs'[k] = dialogs[k]
        /\ \A u \in Users : cards[u] \subseteq cards'[u] /\ lists[u] \subseteq lists'[u]
      ]_vars
==============================================================================
