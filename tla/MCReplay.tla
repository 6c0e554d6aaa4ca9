-------------------------------- MODULE MCReplay -------------------------------
(***************************************************************************)
(* A flat bar, then bars of three shapes (one that reaches down, one that  *)
(* reaches up and one that reaches both ways) of which the last one goes   *)
(* down, and two setups.                                                   *)
(***************************************************************************)
EXTENDS Replay

Bar4(o, h, l, c) == [open |-> o, high |-> h, low |-> l, close |-> c]
Flat == Bar4(2, 2, 2, 2)
Down == Bar4(2, 3, 1, 1)
Up == Bar4(2, 5, 2, 4)
Wide == Bar4(2, 4, 0, 2)
MCPaths == {<<Flat>> \o path : path \in
    {p \in [1..(Times - 1) -> {Down, Up, Wide}] : p[Times - 1] = Down}}

\* A cooldown after losses, two trades at once, a day that ends, every overlap allowed, and
\* the counterfactual at all hours.
MCConfigs == {
    [inAll |-> 2, afterLoss |-> 1, flat |-> FALSE],
    [inAll |-> 2, perSymbol |-> 2, onePerSetup |-> FALSE, filtered |-> {2}, flat |-> FALSE],
    [inAll |-> 2, perSymbol |-> 3, conservative |-> FALSE],
    [inAll |-> 2, allow |-> TRUE, onePerSetup |-> FALSE, afterLoss |-> 1, afterTrade |-> 1, flat |-> FALSE],
    [counterfactual |-> TRUE, flat |-> FALSE, rth |-> FALSE]}
===============================================================================
