------------------------------ MODULE MCOnionGrant ------------------------------
EXTENDS OnionGrant, TLC

CONSTANTS u1, u2, r1, k1, k2, p1, p2, c1

O(u, k) == [user |-> u, resident |-> r1, key |-> k]

\* Two users post under the same key: one takes the consent route, the other
\* the real mode.
MCPosts == (p1 :> {O(u1, k1)}) @@ (p2 :> {O(u2, k1)})
MCRoutes == (p1 :> "consent") @@ (p2 :> "real")

\* Two sessions of one user, each with a key of its own.
MCTwoKeys == (p1 :> {O(u1, k1)}) @@ (p2 :> {O(u1, k2)})
MCConsentRoutes == (p1 :> "consent") @@ (p2 :> "consent")
=============================================================================
