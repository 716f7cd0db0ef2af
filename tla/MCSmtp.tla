------------------------------- MODULE MCSmtp -------------------------------
(* The session by itself: one message, of two pieces. *)
EXTENDS Smtp

CONSTANT message

MCMessages == {message}
MCOutboxes == {[m \in MCMessages |-> <<"headers", "body">>]}
=============================================================================
