---------------------------- MODULE MCAgentServer ----------------------------
(***************************************************************************)
(* Values of AgentServer's constants for TLC.                              *)
(***************************************************************************)
EXTENDS AgentServer

\* An async handler that may catch its cancellation; a synchronous one; and a
\* name without one, which may get an async one.
MCMessages == {"b", "s", "u"}
MCRegistered == [b |-> "async", s |-> "sync", u |-> "none"]
MCRegistrations == {<<"u", "async">>}

MCPayloads == {<<"s", "u">>, <<"b">>}

MCOwner == [n \in Notifies |-> IF n = 1 THEN "c1" ELSE "c2"]
=============================================================================
