----------------------------- MODULE MCPtpFaults -----------------------------
(* Values for the constants of PtpFaults: a grandmaster at two distances and *)
(* a worse clock, as seen by a transparent clock, clock 3.                    *)
EXTENDS PtpFaults

MCOwnAttrs == <<128, 248, 1, 1, 128>>

Announced(gm, priority1, hops, clock, port) ==
  [gm |-> gm, attrs |-> <<priority1, 248, 1, 1, 128>>, steps |-> hops,
   sender |-> [clock |-> clock, port |-> port]]

MCMessages == {Announced(1, 100, 0, 1, 1), Announced(1, 100, 2, 2, 2),
               Announced(5, 200, 0, 5, 1)}

=============================================================================
