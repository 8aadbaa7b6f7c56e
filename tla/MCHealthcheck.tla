---------------------------- MODULE MCHealthcheck ----------------------------
(***************************************************************************)
(* Values of Healthcheck's constants for TLC.                              *)
(***************************************************************************)
EXTENDS Healthcheck

MCHellos == {HealthcheckHello}
MCReplies == { << >> }
MCShortIds == [i \in Ids |-> 2]

=============================================================================
