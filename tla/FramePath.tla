----------------------------- MODULE FramePath -----------------------------
(***************************************************************************)
(* The way of a frame from an application or a PTP stack through the relay *)
(* units of a loop-free network to the stacks it is for: relay units learn *)
(* where addresses are, send frames of unknown address everywhere, keep    *)
(* link-local PTP frames, and hand frames up by Ethertype and by port.     *)
(* PtpNetwork has the times of the frames; here is where they go.          *)
(***************************************************************************)
EXTENDS PtpRelayUnit, FiniteSets, Sequences

CONSTANTS
  Nodes,
  ClockType,    \* "ORDINARY" or "TRANSPARENT" per node
  PtpEnable,    \* whether a node's relay unit knows PTP
  Registered,   \* per node, the Ethertypes that the LLC has a mapping for
  Link,         \* Link[n][g] is the node and gate at the other end of gate g of n
  Beyond,       \* Beyond[n][g] are the nodes behind gate g of n
  Types,        \* the message types that are sent
  MaxFrames, MaxAged

\* Frames carry [etherType, type, src, dest, port]: type is the PTP message
\* type, dest a node or Multicast, port the port of the stack that sends it.
VARIABLES
  table,    \* the address table of each node: gates by address
  frames,   \* the frames that were sent
  flying,   \* copies on their way: the frame, the node and the gate it comes in at
  got,      \* per node, the frames that reached the upper layers, with the port
  aged      \* the number of addresses that were forgotten

fvars == <<table, frames, flying, got, aged>>

Blank == "blank"
Multicast == "multicast"
PDelayTypes == {"PDELAY_REQ", "PDELAY_RESP", "PDELAY_RESP_FU"}

Ports(n) == DOMAIN Link[n]
AllGates(n) == Ports(n) \cup {InternalPort}

\* The network is a tree: behind the gates of a node are all the others, each
\* behind one gate; a link parts the nodes in two; and what it joins is behind
\* the same gate of a third node.
PathAssumption ==
  /\ {Blank, Multicast} \cap Nodes = {}
  /\ \A n \in Nodes :
       /\ ClockType[n] \in {"ORDINARY", "TRANSPARENT"}
       /\ Ports(n) \subseteq Nat \ {InternalPort}
       /\ UNION {Beyond[n][g] : g \in Ports(n)} = Nodes \ {n}
       /\ \A g, h \in Ports(n) : g # h => Beyond[n][g] \cap Beyond[n][h] = {}
       /\ \A g \in Ports(n) : LET m == Link[n][g][1]
                                h == Link[n][g][2]
            IN  /\ m \in Nodes /\ h \in Ports(m)
                /\ Beyond[m][h] = Nodes \ Beyond[n][g]
                /\ \A k \in Nodes \ {n, m} : \A i \in Ports(k) :
                     n \in Beyond[k][i] <=> m \in Beyond[k][i]

Init ==
  /\ table = [n \in Nodes |-> [a \in {} |-> 0]]
  /\ frames = <<>> /\ flying = {}
  /\ got = [n \in Nodes |-> {}] /\ aged = 0

-----------------------------------------------------------------------------
(* MACRelayUnitBase and PTP_MACRelayUnit *)

\* handleAndDispatchFrame_Prefix: the source is where the frame came in.
Learn(n, src, g) ==
  [a \in DOMAIN table[n] \cup {src} |-> IF a = src THEN g ELSE table[n][a]]

\* MUTANT of broadcastFrame: the frame goes back to where it came from, too.
BroadcastEverywhere(n, g) == AllGates(n)

broadcastFrame(n, g) == AllGates(n) \ {g}

unicastFrame(n, t, dest, g) ==
  IF dest \in DOMAIN t THEN {t[dest]} \ {g} ELSE broadcastFrame(n, g)

\* The gates that a frame leaves the relay unit of n by, with address table t.
DispatchFrame(n, t, f, g) ==
  IF f.dest = n THEN {InternalPort}
  ELSE IF PtpEnable[n] /\ f.etherType = "PTP"
  THEN IF g = InternalPort THEN {GateOf(f.port)}
       ELSE Dispatch(ClockType[n], AllGates(n), f.type, g)
  ELSE IF f.dest = Multicast THEN broadcastFrame(n, g)
  ELSE unicastFrame(n, t, f.dest, g)

\* PTP_EtherEncap, EthernetII_LLC and PTP_EthernetMapping on the way up: a
\* frame of an Ethertype that has no mapping is dropped, a PTP frame goes to
\* the port of the stack that its MAC belongs to.
HandUp(n, id, f, g) ==
  IF f.etherType \in Registered[n] THEN {<<id, IF f.etherType = "PTP" THEN g ELSE 0>>} ELSE {}

\* The relay unit of n gets a copy of frame id at gate g.
Relay(n, id, f, g, src, arrived) ==
  LET t    == Learn(n, src, g)
      outs == DispatchFrame(n, t, f, g)
  IN  /\ table' = [table EXCEPT ![n] = t]
      /\ flying' = (flying \ arrived)
           \cup {[id |-> id, node |-> Link[n][h][1], gate |-> Link[n][h][2]] :
                   h \in outs \ {InternalPort}}
      /\ got' = [got EXCEPT ![n] = @ \cup
                   (IF InternalPort \in outs THEN HandUp(n, id, f, g) ELSE {})]

-----------------------------------------------------------------------------
(* The ways down; the MAC fills in the source address, after the relay unit *)

Send(n, f) ==
  /\ Len(frames) < MaxFrames
  /\ frames' = Append(frames, f)
  /\ Relay(n, Len(frames) + 1, f, InternalPort, Blank, {})
  /\ UNCHANGED aged

\* A port of the PTP stack sends a message (PTP_EthernetMapping::handleMessage).
SendPtp(n, port, type) ==
  /\ "PTP" \in Registered[n] /\ PtpEnable[n]
  /\ Send(n, [etherType |-> "PTP", type |-> type, src |-> n, dest |-> Multicast,
              port |-> port])

\* An application sends a frame to a node or to all.
SendData(n, dest) ==
  /\ "DATA" \in Registered[n] /\ dest # n
  /\ Send(n, [etherType |-> "DATA", type |-> "NONE", src |-> n, dest |-> dest, port |-> 0])

\* A copy arrives at a relay unit.
Arrive(c) ==
  /\ Relay(c.node, c.id, frames[c.id], c.gate, frames[c.id].src, {c})
  /\ UNCHANGED <<frames, aged>>

\* The address table forgets an address that was not seen for a while.
Age(n, a) ==
  /\ aged < MaxAged /\ aged' = aged + 1
  /\ table' = [table EXCEPT ![n] = [b \in DOMAIN @ \ {a} |-> @[b]]]
  /\ UNCHANGED <<frames, flying, got>>

Next ==
  \/ \E n \in Nodes : \E g \in Ports(n), type \in Types : SendPtp(n, g - 1, type)
  \/ \E n \in Nodes, dest \in Nodes \cup {Multicast} : SendData(n, dest)
  \/ \E c \in flying : Arrive(c)
  \/ \E n \in Nodes : \E a \in DOMAIN table[n] : Age(n, a)

Spec == Init /\ [][Next]_fvars

-----------------------------------------------------------------------------
(* Properties *)

\* The tables name gates, the copies are of frames and at gates.
TypeOK ==
  /\ \A n \in Nodes : /\ DOMAIN table[n] \subseteq Nodes \cup {Blank}
                      /\ \A a \in DOMAIN table[n] : table[n][a] \in AllGates(n)
                      /\ \A x \in got[n] : x[1] \in DOMAIN frames /\ x[2] \in AllGates(n)
  /\ \A c \in flying : c.id \in DOMAIN frames /\ c.gate \in Ports(c.node)

\* Whether a node sends PTP messages of a type on.
PassesOn(n, type) ==
  ~PtpEnable[n] \/ (ClockType[n] = "TRANSPARENT" /\ type \notin PDelayTypes)

Between(n, src, d) ==
  n \notin {src, d} /\ \A g \in Ports(n) : ~({src, d} \subseteq Beyond[n][g])

\* The nodes that a frame is for: the one addressed, all, or for a PTP message
\* those that the nodes in between, from the sending port on, pass it on to.
Receivers(f) ==
  {d \in Nodes \ {f.src} :
     IF f.etherType = "PTP"
     THEN d \in Beyond[f.src][f.port + 1]
            /\ \A n \in Nodes : Between(n, f.src, d) => PassesOn(n, f.type)
     ELSE f.dest \in {d, Multicast}}

\* Every frame reaches every upper layer it is for exactly once, by the port
\* that faces the sender, whatever the relay units have learned or forgotten
\* and however frames cross: until then exactly one copy is on its way there.
\* A PTP message reaches no one else, and no frame returns to its sender
\* (handleAndDispatchFrame_Dispatch, broadcastFrame).
ReachesOnce ==
  \A id \in DOMAIN frames : LET f == frames[id] IN
    /\ \A d \in {e \in Receivers(f) : f.etherType \in Registered[e]} :
         LET arrivals == {x \in got[d] : x[1] = id}
             coming   == {c \in flying : c.id = id /\ d \notin Beyond[c.node][c.gate]}
         IN  /\ Cardinality(arrivals) + Cardinality(coming) = 1
             /\ \A x \in arrivals : x[2] # 0 => f.src \in Beyond[d][x[2]]
    /\ \A n \in Nodes : f.etherType = "PTP" \/ n = f.src =>
         (n \notin Receivers(f) => \A x \in got[n] : x[1] # id)

=============================================================================
