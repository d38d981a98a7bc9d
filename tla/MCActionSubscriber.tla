-------------------------- MODULE MCActionSubscriber -------------------------
(***************************************************************************)
(* Instance of ActionSubscriber under an AI engine that may do anything:   *)
(* two messages, one of them no command, over one connection.              *)
(***************************************************************************)
EXTENDS ActionSubscriber

MCMalformed == {2}

=============================================================================
