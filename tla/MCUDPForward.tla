---------------------------- MODULE MCUDPForward ----------------------------
EXTENDS UDPForward, TLC

CONSTANTS f1, f2, A, B, p, r

\* Flows of two peers that use the same source port, both served locally.
MCFlow == {f1, f2}
MCKind == (f1 :> "local") @@ (f2 :> "local")
MCPeer == (f1 :> A) @@ (f2 :> B)
MCSrcPort == [f \in MCFlow |-> p]
MCRandomPort == {r}

SessSymmetry == Permutations(Sess)
=============================================================================
