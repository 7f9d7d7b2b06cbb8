------------------------------ MODULE MCAgent ------------------------------
(* Instances of Agent: a guest with two entities, as in config-examples. *)
EXTENDS Agent

MCEntities == <<"api", "metrics">>

\* What goes wrong for the first only, so that the second comes after an error.
MCFirst == {"api"}

\* The first has a key_mode that is not octal.
MCBadMode == {<<"api", "key">>}

=============================================================================
