----------------------- MODULE MCRoundStateMachine ------------------------
(***************************************************************************)
(* One or two rounds of one or two kickoffs, in blocks of up to three of   *)
(* the operator's transactions.                                            *)
(***************************************************************************)
EXTENDS RoundStateMachine
=============================================================================
