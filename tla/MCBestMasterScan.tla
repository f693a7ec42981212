-------------------------- MODULE MCBestMasterScan --------------------------
(* Three ports, two grandmasters.  Grandmaster 2 differs from grandmaster 1 *)
(* in no attribute or is worse in exactly one of the five.                  *)
EXTENDS BestMasterScan, SequencesExt

Base == <<1, 1, 1, 1, 1>>

AttrChoices == {Base} \cup {ReplaceAt(Base, i, 2) : i \in 1 .. 5}

\* Clock 1 and clock 5 are on either side of this clock in the id order.
Senders == {[clock |-> 1, port |-> 1], [clock |-> 5, port |-> 1],
            [clock |-> 5, port |-> 2]}

MCMessages ==
  [gm : {1}, attrs : {Base}, steps : 0 .. 2, sender : Senders]
    \cup [gm : {2}, attrs : AttrChoices, steps : {0, 2}, sender : Senders]

=============================================================================
