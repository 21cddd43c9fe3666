-------------------------- MODULE MCContainerNetwork --------------------------
EXTENDS ContainerNetwork, TLC

CONSTANTS c1, c2, N2, n2

\* the first container has no name but its id, the second name is not in lower case
MCNameOf == (c1 :> c1) @@ (c2 :> N2)
MCLower == (c1 :> c1) @@ (c2 :> c2) @@ (N2 :> n2) @@ (n2 :> n2)
MCStaticOf == (c1 :> NoIP) @@ (c2 :> <<3, 3>>)
MCServices == {<<N2, <<3, 3>>>>, <<n2, <<2, 3>>>>}
MCGateway == <<0, 1>>
=============================================================================
