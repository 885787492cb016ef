-------------------------- MODULE MCGroupGovernance --------------------------
(***************************************************************************)
(* The instance of MCGroupCommands with a second title, an avatar and a    *)
(* handover beside two membership commands, or one and a send or an ACK.   *)
(***************************************************************************)
EXTENDS MCGroupCommands, GroupGovernance

\* Removals of whoever may become the owner meanwhile, and of whoever was it;
\* an addition that must not undo a rename; a replay and an ACK that must name
\* the present version.  The third call only finds no dialog.
GovernedWorkloads ==
    {(c1 :> a) @@ (c2 :> b) @@ (c3 :> Elsewhere(Remove(bob, alice, k1))) :
        a \in {Remove(alice, bob, k1), Remove(bob, alice, k1)},
        b \in {Add(bob, carol, k2), Remove(bob, bob, k2), Remove(bob, alice, k1),
               Send(alice, x, hi, noFiles), Send(bob, x, hi, noFiles),
               Ack("read", bob, s1)}}
==============================================================================
