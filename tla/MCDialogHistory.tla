--------------------------- MODULE MCDialogHistory ---------------------------
(***************************************************************************)
(* A pair, a saved dialog and a group to start from; texts that normalize  *)
(* to one another, to nothing or to an error; a list too long, which is    *)
(* also one with a repetition.                                             *)
(***************************************************************************)
EXTENDS DialogHistory, TLC

CONSTANTS alice, bob, carol, hi, padded, spaces, endless, chat, team, face

MCDialogs == {Immutable("direct", {alice, bob}), Immutable("saved", {alice}),
              NewGroup(chat, alice, {bob}, None)}

MCRawTexts == {padded, spaces, endless}
MCNormal == (padded :> hi) @@ (spaces :> Blank) @@ (endless :> Invalid)

MCRawTitles == {team, padded, endless}
MCNormalTitle == (team :> team) @@ (padded :> chat) @@ (endless :> Invalid)

MCNoFiles == <<>>
MCFileLists == {<<>>, <<face>>, <<face, face>>}
MCPositions == 1..MaxChanges
==============================================================================
