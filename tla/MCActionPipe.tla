----------------------------- MODULE MCActionPipe ----------------------------
(***************************************************************************)
(* Instance of ActionPipe: two commands over two instances of the pipe,    *)
(* into a queue of one.                                                    *)
(***************************************************************************)
EXTENDS ActionPipe

=============================================================================
