-------------------------- MODULE MCReplayWindow --------------------------
(* TLC instance of ReplayWindow: the clock runs over the whole of a small  *)
(* unsigned range, so the horizon saturates, and there are more nonces     *)
(* than slots, so the window fills.                                        *)
EXTENDS ReplayWindow, TLC

CONSTANTS n1, n2, n3
MCNonce == {n1, n2, n3}
NonceSymmetry == Permutations(MCNonce)
=============================================================================
