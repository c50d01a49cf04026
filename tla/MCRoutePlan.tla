---------------------------- MODULE MCRoutePlan ----------------------------
(* A small instance of RoutePlan for TLC.                                  *)
EXTENDS RoutePlan

\* Servers on and off the network of the router, in both halves, and some
\* plans that must not validate.
FullPlans ==
    [policy : {"full_ipv4"}, endpoint : {0, 2, 5, 6, 7}, gateway : Gateways \cup {0},
     scoped : {<<>>}, dns : {<<1>>}, service : {TRUE}] \cup
    [policy : {"full_ipv4"}, endpoint : {2}, gateway : Gateways,
     scoped : {<<>>, <<Prefix("inet", 4, 2)>>}, dns : {<<>>, <<1, 1>>, <<0>>}, service : BOOLEAN]

\* Prefixes in and around the private half, one of them not canonical.
Scopes ==
    {Prefix("inet", 4, 1), Prefix("inet", 2, 2), Prefix("inet", 4, 2), Prefix("inet", 6, 2),
     Prefix("inet", 5, 2), Prefix("inet", 4, 3), Prefix("inet", 6, 3), Prefix("inet6", 0, 2)}

ScopeLists == {<<>>} \cup {<<p>> : p \in Scopes} \cup (Scopes \X Scopes)

ScopedPlans ==
    [policy : {"scoped_ipv4"}, endpoint : {2, 5, 6}, gateway : Gateways,
     scoped : ScopeLists, dns : {<<>>}, service : {FALSE}]

MCPlans == FullPlans \cup ScopedPlans

\* The networks around the routers, a quarter of the addresses each.
MCLan == [g \in Gateways |-> Prefix("inet", (g \div 2) * 2, 2)]

MCOtherPrefixes ==
    {Prefix("inet", 0, 1), Prefix("inet", 2, 2), Prefix("inet", 4, 2), Prefix("inet", 4, 3),
     Prefix("inet", 2, 3), Prefix("inet6", 0, 1), Prefix("inet6", 2, 2)}
=============================================================================
