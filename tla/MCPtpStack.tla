----------------------------- MODULE MCPtpStack -----------------------------
(* Values for the constants of PtpStack.  Clock 3 is the clock under study;  *)
(* clocks 1 and 2 are better than it, clock 5 is worse, and the announced    *)
(* data sets reach it from them or through boundary clocks among them.       *)
EXTENDS PtpStack

Attr(priority1, class) == <<priority1, class, 1, 1, 128>>

MCOwnAttrs     == Attr(128, 248)
MCPrimaryAttrs == Attr(128, 6)
MCSlaveAttrs   == Attr(128, 255)

Msg(gm, attrs, hops, clock, port) ==
  [gm |-> gm, attrs |-> attrs, steps |-> hops,
   sender |-> [clock |-> clock, port |-> port]]

\* A grandmaster with two ports, a boundary clock on the way to it, a second
\* grandmaster that uses the first as relay, a worse clock, and this clock's
\* own announcements, direct and forwarded.
MCMessages ==
  {Msg(1, Attr(128, 187), 0, 1, 1), Msg(1, Attr(128, 187), 0, 1, 2),
   Msg(1, Attr(128, 187), 1, 5, 1), Msg(2, Attr(100, 248), 65535, 1, 1),
   Msg(5, Attr(200, 248), 0, 5, 1),
   Msg(3, MCOwnAttrs, 1, 5, 1), Msg(3, MCOwnAttrs, 0, 3, 1)}

\* One grandmaster seen directly and at two hops' distance, a worse clock.
MCFewMessages ==
  {Msg(1, Attr(128, 187), 0, 1, 1), Msg(1, Attr(128, 187), 2, 2, 2),
   Msg(5, Attr(200, 248), 0, 5, 1)}

\* For a clock of class 6: a grandmaster better than it, a worse one, and
\* its own announcements.
MCPrimaryMessages ==
  {Msg(1, Attr(100, 6), 0, 1, 1), Msg(1, Attr(100, 6), 1, 5, 1),
   Msg(5, Attr(200, 248), 0, 5, 1), Msg(3, MCPrimaryAttrs, 0, 3, 1)}

=============================================================================
