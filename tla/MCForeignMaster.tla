--------------------------- MODULE MCForeignMaster ---------------------------
(* Two neighbours, each of which may follow either of two grandmasters.      *)
EXTENDS ForeignMaster

DS(gm, priority1, clock) ==
  [gm |-> gm, attrs |-> <<priority1, 248, 1, 1, 128>>, steps |-> 1,
   sender |-> [clock |-> clock, port |-> 1],
   receiver |-> [clock |-> 9, port |-> 1]]

MCDataSets == {DS(1, 100, 5), DS(2, 200, 5), DS(1, 100, 6), DS(2, 200, 6)}

MCBackward == {-1}
MCBoth == {-1, 1}

=============================================================================
