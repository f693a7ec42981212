---------------------------- MODULE MCComponents ----------------------------
(* A small instance of each component of Components. *)
EXTENDS Components

MCJumps == {-3, 2}
MCFactors == {0, 1, 3}

-----------------------------------------------------------------------------
(* Time deviation generators *)

Perfect == [t \in Nat |-> 0]
ConstDrift(num, den) == [t \in Nat |-> (t * num) \div den]
Sine == LET wave == <<0, 1, 2, 2, 2, 1, 0, -1, -2, -2, -2, -1>>
        IN  [t \in Nat |-> wave[(t % 12) + 1]]

MCDeviation ==
  [perfect |-> Perfect, fast |-> ConstDrift(2, 1), slow |-> ConstDrift(-1, 3),
   sine |-> Sine]

-----------------------------------------------------------------------------
(* Two intervals, one of which starts a timeout *)

MCCalls == [Decision |-> {"Sync", "Qualification"}, Sync |-> {}, Qualification |-> {"Sync"}]
MCSpans == [Decision |-> {1}, Sync |-> {1}, Qualification |-> {0, 1}]
MCIds == 1 .. 4

-----------------------------------------------------------------------------
(* The servo, the filter and the times *)

MCLowerBound == -4
MCDrifts == {-2, 0, 2}
MCSteps == {-9, 7}
MCValues == {-3, 0, 5}
MCOffsets == {-7, 0, 2}

-----------------------------------------------------------------------------
(* Configurations: one that each profile accepts, and what differs from it in *)
(* one parameter                                                              *)

Default(profile) ==
  [profile |-> profile, bmca |-> "1588_2008_DEFAULT", mgmt |-> "1588_2008_DEFAULT",
   domain |-> "DEFAULT", priority1 |-> 128, priority2 |-> 128, slaveOnly |-> FALSE,
   log |-> [logAnnounceInterval |-> 1, logSyncInterval |-> 0,
            logMinDelayReqInterval |-> 0, logMinPdelayReqInterval |-> 0],
   receiptTimeout |-> 3, delayMechanism |-> "E2E", capable |-> TRUE, preferred |-> TRUE]

Power(capable, preferred) ==
  [Default("POWER") EXCEPT
     !.slaveOnly = capable, !.log["logAnnounceInterval"] = 0, !.delayMechanism = "P2P",
     !.priority1 = IF capable THEN 128 ELSE 255, !.priority2 = IF capable THEN 128 ELSE 255,
     !.receiptTimeout = IF preferred THEN 3 ELSE 2,
     !.capable = capable, !.preferred = preferred]

Accepted == {Default(profile) : profile \in {"CUSTOM", "DEFAULT_E2E", "DEFAULT_P2P"}}
              \cup {Power(capable, preferred) : capable, preferred \in BOOLEAN}

Deviations(r) ==
  {[r EXCEPT !.profile = "TELECOM"], [r EXCEPT !.bmca = "NONE"], [r EXCEPT !.mgmt = "SNMP"],
   [r EXCEPT !.domain = "USER_1"], [r EXCEPT !.domain = "USER_5"],
   [r EXCEPT !.slaveOnly = ~@], [r EXCEPT !.capable = ~@]}
  \cup {[r EXCEPT !.priority1 = n] : n \in {0, 255, 384}}
  \cup {[r EXCEPT !.priority2 = n] : n \in {127, 384}}
  \cup {[r EXCEPT !.log[l] = n] : l \in DOMAIN r.log, n \in {-1, 2, 128}}
  \cup {[r EXCEPT !.receiptTimeout = n] : n \in {0, 2, 256}}
  \cup {[r EXCEPT !.delayMechanism = d] : d \in {"E2E", "P2P", "DISABLED", "NONE"}}

MCMinLog == -1
MCParams ==
  UNION {Deviations(r) : r \in Accepted \ {Default("CUSTOM")}} \cup Accepted

-----------------------------------------------------------------------------
(* A transparent clock s between two hosts a and c and a switch t without PTP, *)
(* that has the host b behind it.                                              *)

PathLink == [a |-> <<<<"s", 1>>>>, b |-> <<<<"t", 2>>>>, c |-> <<<<"s", 2>>>>,
             s |-> <<<<"a", 1>>, <<"c", 1>>, <<"t", 1>>>>, t |-> <<<<"s", 3>>, <<"b", 1>>>>]
PathBeyond == [a |-> <<{"b", "c", "s", "t"}>>, b |-> <<{"a", "c", "s", "t"}>>,
               c |-> <<{"a", "b", "s", "t"}>>, s |-> <<{"a"}, {"c"}, {"b", "t"}>>,
               t |-> <<{"a", "c", "s"}, {"b"}>>]
PathNodes == {"a", "b", "c", "s", "t"}

PathClockType == [n \in PathNodes |-> IF n = "s" THEN "TRANSPARENT" ELSE "ORDINARY"]
PathPtpEnable == [n \in PathNodes |-> n # "t"]
PathRegistered ==
  [n \in PathNodes |-> CASE n = "s" -> {"PTP"} [] n = "t" -> {} [] OTHER -> {"PTP", "DATA"}]

=============================================================================
