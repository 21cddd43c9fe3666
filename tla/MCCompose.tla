------------------------------- MODULE MCCompose -------------------------------
EXTENDS Compose, TLC

CONSTANTS f1, f2, a, b, d, s1

\* two networks without a subnet, and a file with one that has a subnet
MCNetsOf == (f1 :> {a, b}) @@ (f2 :> {d})
MCServicesOf == (f1 :> {s1}) @@ (f2 :> {})
MCJoinOf == s1 :> {a, b}
MCExplicit == (a :> NoSubnet) @@ (b :> NoSubnet) @@ (d :> 8)
=============================================================================
