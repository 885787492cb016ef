--------------------------- MODULE MCGroupCommands ---------------------------
(***************************************************************************)
(* Small instances of GroupCommands for TLC: one group of alice (owner)    *)
(* and bob, with carol and dave outside, and workloads built from a few    *)
(* commands each.                                                          *)
(***************************************************************************)
EXTENDS GroupRefinement, TLC

CONSTANTS alice, bob, carol, dave, erin,   \* users
          c1, c2, c3,                \* calls
          s1, s2,                    \* messages accepted before the calls
          k1, k2,                    \* command ids
          x, y,                      \* client message ids
          g, other,                  \* dialogs
          hi, yo,                    \* texts
          chat, team, face,          \* titles, an avatar
          noFiles, file, lostFile    \* attachment lists

MCUsers == {alice, bob, carol, dave, erin}
MCMembers == {alice, bob}
MCRegistered == {alice, bob, carol, dave}
MCAttachments == {noFiles, file, lostFile}
MCReady == {file}
MCOneInstant == {1}
MCTwoInstants == {1, 2}
MCClock == {0, 1, 2}

Symmetry == Permutations({c1, c2, c3})

\* Seeded histories.
NoSeed == <<>>
NoSeedIds == {}
Plain(text) == [text |-> text, attachments |-> noFiles]
TwoSeeds ==
    (s1 :> Posted(alice, x, Plain(hi), 1)) @@ (s2 :> Posted(alice, y, Plain(hi), 2))
TwoSeedIds == {s1, s2}
BobAndAliceSeeds ==
    (s1 :> Posted(alice, x, Plain(hi), 1)) @@ (s2 :> Posted(bob, y, Plain(hi), 2))

\* Commands.
Add(actor, user, id) ==
    [kind |-> "add", dialog |-> g, actor |-> actor, user |-> user, id |-> id]
Remove(actor, user, id) ==
    [kind |-> "remove", dialog |-> g, actor |-> actor, user |-> user, id |-> id]
Send(actor, client, text, files) ==
    [kind |-> "send", dialog |-> g, actor |-> actor, client |-> client,
     content |-> [text |-> text, attachments |-> files]]
Ack(kind, actor, message) ==
    [kind |-> kind, dialog |-> g, actor |-> actor, message |-> message]
Elsewhere(cmd) == [cmd EXCEPT !.dialog = other]

Invocations(commands) == [{c1, c2, c3} -> commands]

\* Adds and removes: the last place, one command id for two intents, a change
\* undone by a later command, the owner, an outsider, an unconfirmed user.
MembershipWorkloads ==
    Invocations({Add(alice, carol, k1), Add(bob, dave, k2), Remove(alice, bob, k1),
                 Remove(bob, bob, k2), Add(carol, bob, k2), Remove(bob, alice, k2),
                 Add(bob, erin, k1), Remove(alice, carol, k1),
                 Elsewhere(Add(alice, carol, k1))})

MessageWorkloads ==
    Invocations({Send(bob, x, hi, noFiles), Send(bob, x, yo, noFiles),
                 Send(bob, x, hi, file), Send(alice, x, hi, lostFile),
                 Send(alice, y, hi, noFiles), Remove(alice, bob, k1)})

\* ACKs that cross, of a seeded message and of one sent meanwhile, by two readers and
\* of one's own; a send under a new and one under a used key; a change, the change
\* that undoes it, and a repetition of the first.
StaleWorkloads ==
    Invocations({Ack("read", bob, s1), Ack("delivered", bob, s1), Ack("read", bob, c1),
                 Ack("read", alice, s2), Ack("read", bob, s2),
                 Send(alice, x, hi, noFiles), Send(alice, y, hi, noFiles),
                 Remove(alice, bob, k1), Add(alice, bob, k2)})

\* Sends only, for the attempts an adapter that lags may use up.
SendWorkloads == Invocations({Send(bob, x, hi, noFiles)})
==============================================================================
