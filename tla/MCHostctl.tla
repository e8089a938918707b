----------------------------- MODULE MCHostctl -----------------------------
(* An instance of Hostctl for TLC: one firecracker host and one host with  *)
(* any provider, or none.                                                  *)
EXTENDS Hostctl, TLC

CONSTANTS h1, h2

MCHosts == {h1, h2}
MCInit  == Init /\ provider[h1] = "firecracker" /\ provider[h2] # "firecracker" /\ size = (h1 :> 2 @@ h2 :> 1)
MCSpec  == MCInit /\ [][Next]_vars /\ Fairness
=============================================================================
