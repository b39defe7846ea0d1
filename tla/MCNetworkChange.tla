-------------------------- MODULE MCNetworkChange --------------------------
(***************************************************************************)
(* Small instances of NetworkChange for TLC.                               *)
(***************************************************************************)
EXTENDS NetworkChange, TLC

CONSTANTS a1, a2, g1, g2

Static(as, g) == [dhcp4 |-> FALSE, addresses |-> as, gateway |-> g]
Dhcp(as) == [dhcp4 |-> TRUE, addresses |-> as, gateway |-> NoGateway]

StaticBase == [i \in Ifaces |-> IF i \in Bridges THEN Static({}, NoGateway)
                                ELSE Static({a1}, g1)]

StaticOrDhcp == {Static({a2}, g2), Dhcp({})}
OneStatic == {Static({a2}, g2)}

AdminSymmetry == Permutations(Admins)
=============================================================================
