---------------------------- MODULE MCPtpNetwork ----------------------------
(* A master M, a transparent clock T and a slave S in a row.  The link from T *)
(* to S is slower than the link back.                                         *)
EXTENDS PtpNetwork, TLC

M == <<"M", 0>>
T0 == <<"T", 0>>
T1 == <<"T", 1>>
S == <<"S", 0>>

MCPorts == {M, T0, T1, S}
MCPeer == (M :> T0) @@ (T0 :> M) @@ (T1 :> S) @@ (S :> T1)
MCLinkDelay == (M :> 1) @@ (T0 :> 1) @@ (T1 :> 2) @@ (S :> 0)
MCMeanDelay == [p \in MCPorts |-> 1]
MCAsymmetry == (M :> 0) @@ (T0 :> 0) @@ (T1 :> -1) @@ (S :> 1)
MCDown == {M, T1}
MCFar == [n \in {"M", "T", "S"} |-> CASE n = "M" -> 0 [] n = "T" -> 1 [] n = "S" -> 2]
MCRequesters == {T0, S}
MCStart == [n \in {"M", "T", "S"} |-> CASE n = "M" -> 20 [] n = "T" -> 7 [] n = "S" -> 3]
MCBudgets ==
  {[syncs |-> 2, requests |-> 1, jumps |-> 1, losses |-> 0, waits |-> 1],
   [syncs |-> 2, requests |-> 1, jumps |-> 0, losses |-> 1, waits |-> 0]}

=============================================================================
