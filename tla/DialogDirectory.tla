--------------------------- MODULE DialogDirectory ---------------------------
(***************************************************************************)
(* What dialog creation promises its callers: a directory with at most one *)
(* dialog per key, whose entries become visible to their participants and  *)
(* to nobody else.  There are no lookups, candidates, races or loops here: *)
(* the detailed handlers of DialogCreation are shown to implement it.      *)
(***************************************************************************)
CONSTANTS
    Users, Calls,
    Keys,      \* participants, in canonical order
    Entries,   \* what a dialog may be: its id, its creation time
    None

VARIABLES
    asked,        \* call -> the key it asks for, or None if it is with itself
    directory,    \* key -> its dialog, or None
    visible,      \* the pairs <<user, key>> such that the user sees the dialog
    registered,   \* users who completed their registration
    answers       \* call -> how it ended, or "pending", and the dialog it names

vars == <<asked, directory, visible, registered, answers>>

Members(k) == {k[i] : i \in DOMAIN k}

Answer(c, status, dialog) ==
    answers' = [answers EXCEPT ![c] = [status |-> status, dialog |-> dialog]]

\* Everybody the call is about sees the dialog in these pairs.
ShownTo(pairs, c) == Members(asked[c]) \X {asked[c]} \subseteq pairs

Pending(c) == answers[c].status = "pending"

Init ==
    /\ asked \in [Calls -> Keys \cup {None}]
    /\ directory = [k \in Keys |-> None]
    /\ visible = {}
    /\ registered \subseteq Users
    /\ answers = [c \in Calls |-> [status |-> "pending", dialog |-> None]]

\* The one dialog of a key comes to be, for registered users, on behalf of a call
\* that is still running or never learns of it.
Found(c) ==
    /\ answers[c].status \in {"pending", "Unavailable"}
    /\ asked[c] # None /\ directory[asked[c]] = None
    /\ Members(asked[c]) \subseteq registered
    /\ \E entry \in Entries : directory' = [directory EXCEPT ![asked[c]] = entry]
    /\ UNCHANGED <<asked, visible, registered, answers>>

\* The dialog becomes visible to some of its users.
Reveal(c) ==
    /\ Pending(c)
    /\ asked[c] # None /\ directory[asked[c]] # None
    /\ \E users \in SUBSET Members(asked[c]) :
         visible' = visible \cup users \X {asked[c]}

\* A call may go on, succeed once all its users see the dialog, or report that
\* they may not; either way it names the one dialog of the key.
Show(c) ==
    /\ Reveal(c)
    /\ \/ UNCHANGED answers
       \/ ShownTo(visible', c) /\ Answer(c, "ok", directory[asked[c]])
       \/ Answer(c, "DialogProjectionsIncomplete", directory[asked[c]])
    /\ UNCHANGED <<asked, directory, registered>>

\* Refusals say why, and are true when they are given.
Refuse(c) ==
    /\ Pending(c)
    /\ IF asked[c] = None
       THEN Answer(c, "SelfDialogNotAllowed", None)
       ELSE \/ /\ ~(Members(asked[c]) \subseteq registered)
               /\ Answer(c, "UserNotRegistered", None)
            \/ Answer(c, "Unavailable", None)
    /\ UNCHANGED <<asked, directory, visible, registered>>

\* A client repeats a call that failed for reasons of the service.
AskAgain(c) ==
    /\ answers[c].status \in {"Unavailable", "DialogProjectionsIncomplete"}
    /\ Answer(c, "pending", None)
    /\ UNCHANGED <<asked, directory, visible, registered>>

Register(u) ==
    /\ u \notin registered
    /\ registered' = registered \cup {u}
    /\ UNCHANGED <<asked, directory, visible, answers>>

Next ==
    \/ \E c \in Calls : Found(c) \/ Show(c) \/ Refuse(c) \/ AskAgain(c)
    \/ \E u \in Users : Register(u)

Spec == Init /\ [][Next]_vars
==============================================================================
