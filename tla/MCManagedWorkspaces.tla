------------------------ MODULE MCManagedWorkspaces ------------------------
EXTENDS ManagedWorkspaces, TLC

CONSTANTS w1, w2, w3, s1, s2, g1, g2, t1, p1, r1, c1, n1, d1

MCHome == [o \in Work |-> CASE o = g2 -> w2
                           [] o = n1 -> w3
                           [] OTHER -> w1]
=============================================================================
