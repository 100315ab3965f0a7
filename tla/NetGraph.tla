------------------------------ MODULE NetGraph ------------------------------
(***************************************************************************)
(* The graph of machines that `spark ssh` searches for a route, built from *)
(* a function `statuses` from hosts to what they reported of themselves:   *)
(* an external address, local addresses, the port, if any, on which ssh is *)
(* forwarded to them from the outside, and the user to log in as.          *)
(*                                                                         *)
(* An external address is [net, family, of]: over IPv4 it is the address   *)
(* of the network's NAT, over IPv6 it is the machine's own and `net` is    *)
(* its /64 prefix.  A local address is [of, family].                       *)
(***************************************************************************)
EXTENDS Integers, SequencesExt

CONSTANT Internet    \* the node that all machines are connected to

NoPort == 0          \* ssh: None

INTERNET_WEIGHT == 100
INTRANET_WEIGHT == 1

ShareNat(a, b) == /\ a.external_ip.family = b.external_ip.family
                  /\ a.external_ip.net = b.external_ip.net

\* Each machine is connected with those before it that share its NAT, both
\* ways, hence with all of them.
Edges(statuses) ==
  LET machines == DOMAIN statuses IN
     machines \X {Internet}
  \union {Internet} \X {m \in machines : statuses[m].ssh # NoPort}
  \union {e \in machines \X machines : ShareNat(statuses[e[1]], statuses[e[2]])}

Weight(a, b) == IF Internet \in {a, b} THEN INTERNET_WEIGHT ELSE INTRANET_WEIGHT

Cost(path) ==
  LET upTo[i \in DOMAIN path] ==
        IF i = 1 THEN 0 ELSE upTo[i - 1] + Weight(path[i - 1], path[i])
  IN  upTo[Len(path)]

\* The paths without a repeated node; others are never the cheapest.
PathsBetween(statuses, from, to) ==
  LET inner == (DOMAIN statuses \union {Internet}) \ {from, to}
      nodes == IF from = to THEN {<<from>>}
               ELSE {<<from>> \o via \o <<to>> : via \in SetToAllKPermutations(inner)}
      edges == Edges(statuses)
  IN  IF {from, to} \subseteq DOMAIN statuses
      THEN {p \in nodes : \A i \in 2..Len(p) : <<p[i - 1], p[i]>> \in edges}
      ELSE {}

\* Faulty: any path is as good as any other.  Nothing uses it: it shows that
\* RouteFoundIfAny can fail.
FindAnyPath(statuses, from, to) == PathsBetween(statuses, from, to)

\* What astar may return: which of two equally cheap paths it finds depends
\* on the order of a HashMap.
FindPath(statuses, from, to) ==
  LET paths == PathsBetween(statuses, from, to) IN
  {p \in paths : \A q \in paths : Cost(p) <= Cost(q)}

\* The local addresses come from a join without an order: any IPv4 address,
\* or any address if there is none.
PreferredIps(status) ==
  {ip \in status.ips : ip.family = 4 \/ \A other \in status.ips : other.family # 4}

FromOutside(status) ==
  {[ip |-> status.external_ip, port |-> status.ssh, default_username |-> status.default_user]}

FromInside(status) ==
  {[ip |-> ip, port |-> 22, default_username |-> status.default_user] : ip \in PreferredIps(status)}

\* A machine behind the Internet is addressed from the outside, any other by
\* its preferred address, which it must have.
HopsTo(statuses, path, i) ==
  IF i > 1 /\ path[i - 1] = Internet THEN FromOutside(statuses[path[i]])
                                     ELSE FromInside(statuses[path[i]])

\* The places of the machines on a path, in order.
MachinesOn(path) ==
  CHOOSE places \in SetToSeqs({i \in DOMAIN path : path[i] # Internet}) :
    \A j, k \in DOMAIN places : j < k => places[j] < places[k]

\* What the hops of a path may be.
PathToIps(statuses, path) ==
  LET machines == MachinesOn(path)
  IN  {hops \in [DOMAIN machines -> UNION {HopsTo(statuses, path, i) : i \in Range(machines)}] :
         \A k \in DOMAIN machines : hops[k] \in HopsTo(statuses, path, machines[k])}

\* The hops that ssh may be given along a path: without the first, the machine
\* itself, unless it is the destination.
RoutesAlong(statuses, path) ==
  {IF Len(hops) > 1 THEN Tail(hops) ELSE hops : hops \in PathToIps(statuses, path)}
=============================================================================
