--------------------------- MODULE MCDialogRecovery ---------------------------
(***************************************************************************)
(* Small instances of DialogRecovery: two calls about users 1 and 2, each  *)
(* repeated as often as it fails.                                          *)
(***************************************************************************)
EXTENDS DialogRecovery

CONSTANTS c1, c2

Direct(actor, peer) == [kind |-> "direct", actor |-> actor, peer |-> peer]
Saved(actor) == [kind |-> "saved", actor |-> actor]

MCCalls == {c1, c2}
MCUsers == {1, 2}
MCClock == {1}

MCRequests == [MCCalls -> {Direct(1, 2), Direct(2, 1), Direct(1, 1), Saved(1)}]
==============================================================================
