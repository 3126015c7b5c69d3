----------------------------- MODULE MCTxSender -----------------------------
(* Every way to pay the fee, with and without a timelock on the input. *)
EXTENDS TxSender

MCQueued == {<<"cpfp", 1>>, <<"rbf", 0>>, <<"rbf", 1>>, <<"nofunding", 0>>}
=============================================================================
