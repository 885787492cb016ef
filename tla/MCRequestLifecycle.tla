-------------------------- MODULE MCRequestLifecycle --------------------------
(* Small instance of RequestLifecycle: a good and a bad status. *)
EXTENDS RequestLifecycle

MCStatuses == {200, 503}
==============================================================================
