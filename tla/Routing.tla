------------------------------ MODULE Routing ------------------------------
(***************************************************************************)
(* `spark ssh`: the graph of NetGraph built from what MachineStatus lists, *)
(* and the nested ssh command that the route becomes.  A search changes    *)
(* nothing, so it is not an action: the properties say what it would give  *)
(* if it were made in this state.  Statuses that are older than the tables *)
(* are those of an earlier state, and no worse than those of a post that   *)
(* is late.                                                                *)
(***************************************************************************)
EXTENDS MachineStatus, NetGraph

CONSTANTS Aliases,        \* config.network.aliases: a Destination by name
          Destinations,   \* what is asked for: [username, hostname]
          Whoami          \* the user who runs spark on each host

AllAddresses(s) == UNION {i.ips : i \in s.interfaces}

\* A local address is not written as an external one.
ASSUME RoutingAssumption ==
  /\ Internet \notin Hosts
  /\ \A h \in Hosts : \A s \in Situations[h] : \A ip \in AllAddresses(s) : "net" \notin DOMAIN ip

\* The answer of the server with this machine's own status in it.
FetchStatuses(this, own) ==
  [h \in Known \union {this} |-> IF h = this THEN own ELSE Listed[h]]

Or(username, other) == IF username = NoUser THEN other ELSE username

ResolveAlias(destination, from) ==
  IF destination.hostname \in DOMAIN Aliases
  THEN LET alias == Aliases[destination.hostname] IN
       [hostname |-> alias.hostname,
        username |-> Or(Or(destination.username, alias.username), Whoami[from])]
  ELSE [hostname |-> destination.hostname,
        username |-> Or(destination.username, Whoami[from])]

\* The ssh commands, each an argument of the one before it.  The user that a
\* machine announces goes before the one that was asked for.
PathToArgs(hops, username) ==
  [k \in DOMAIN hops |-> [ip |-> hops[k].ip, port |-> hops[k].port,
                          username |-> Or(hops[k].default_username, username)]]

\* The commands that `spark ssh` may run for a path and a user name.
CommandsAlong(statuses, path, username) ==
  {PathToArgs(hops, username) : hops \in RoutesAlong(statuses, path)}
-----------------------------------------------------------------------------
(* The networks as they are. *)

AddressesOf(g) == AllAddresses(real[g])

\* The machines that an ssh connection made on `m` to a hop may reach: those
\* with an external address and port by what their NAT forwards, and by a
\* local address `m` itself if it is one of its own, another of its network
\* if not.
Reached(m, hop) ==
  IF "net" \in DOMAIN hop.ip
  THEN {g \in Hosts : /\ SshPort[g] = hop.port
                      /\ hop.ip \in ExternalIps(g, real[g])}
  ELSE {g \in Hosts : /\ hop.port = 22
                      /\ real[g].net = real[m].net
                      /\ hop.ip \in AddressesOf(g)
                      /\ hop.ip \in AddressesOf(m) => g = m}

\* The machines on which the first k commands are logged in.
LoggedIn(m, commands, k) ==
  LET at[i \in 0 .. Len(commands)] ==
        IF i = 0 THEN {m} ELSE UNION {Reached(g, commands[i]) : g \in at[i - 1]}
  IN  at[k]

LeadsTo(m, commands, d) ==
  /\ LoggedIn(m, commands, Len(commands)) = {d.hostname}
  /\ \A k \in DOMAIN commands : \A g \in LoggedIn(m, commands, k) :
       commands[k].username = Or(DefaultUser[g], d.username)

\* What the owner of the networks sees to: on a network, the address of a
\* network card is of one machine only, and a NAT forwards a port to one only.
AddressesDiffer ==
  \A h, g \in Hosts : h # g /\ real[h].net = real[g].net =>
    /\ \A i \in real[h].interfaces : i.kind = "ethernet" => i.ips \intersect AddressesOf(g) = {}
    /\ 4 \in real[h].families \intersect real[g].families =>
         SshPort[h] # SshPort[g] \/ SshPort[h] = NoPort

\* The addresses that virtual machines and containers know machine h by.
BridgeIps(h) == UNION {i.ips : i \in {j \in real[h].interfaces : j.kind = "bridge"}}

UpToDate(statuses, h) == statuses[h] \in Statuses(h, real[h])

\* Where the machines that a route passes are listed as they are now, the
\* commands run by `spark ssh` lead hop by hop to the machine asked for,
\* under its name or an alias, and log in everywhere as the user that machine
\* announces, or as the one asked for where none is announced.  There is one
\* exception: the route ends at the address of a bridge of that machine,
\* which get_ip_connections announces like that of a network card.
\* (find_path, path_to_ips, fetch_statuses, resolve_alias, path_to_args)
RouteLeadsThere ==
  AddressesDiffer =>
    \A from \in Hosts : \A own \in Statuses(from, real[from]) :
      LET statuses == FetchStatuses(from, own) IN
      \A d \in {ResolveAlias(destination, from) : destination \in Destinations} :
        \A path \in FindPath(statuses, from, d.hostname) :
          (\A h \in Range(path) \ {Internet} : UpToDate(statuses, h)) =>
            \A commands \in CommandsAlong(statuses, path, d.username) :
              \/ commands[Len(commands)].ip \in BridgeIps(d.hostname)
              \/ LeadsTo(from, commands, d)

Near(statuses, a, b) == ShareNat(statuses[a], statuses[b])

Gates(statuses) == {g \in DOMAIN statuses : statuses[g].ssh # NoPort}

\* The routes one would choose by hand: within a NAT straight to a local address,
\* else to a forwarded port of the machine, else through a neighbour that has one.
InsideRoute(statuses, from, to, r) ==
  Near(statuses, from, to) /\ \E hop \in FromInside(statuses[to]) : r = <<hop>>

OutsideRoute(statuses, from, to, r) ==
  /\ ~Near(statuses, from, to) /\ to \in Gates(statuses)
  /\ \E hop \in FromOutside(statuses[to]) : r = <<hop>>

ViaGateRoute(statuses, from, to, r) ==
  /\ ~Near(statuses, from, to) /\ to \notin Gates(statuses)
  /\ \E g \in Gates(statuses) :
       /\ Near(statuses, g, to)
       /\ \E gate \in FromOutside(statuses[g]), hop \in FromInside(statuses[to]) : r = <<gate, hop>>

\* A path is found exactly if the machines share a NAT or a machine is
\* forwarded to in the NAT of the destination.  The path, whichever of equally
\* cheap ones is found, makes a route unless path_to_ips lacks a local address:
\* that of the machine itself, which is not even used, or that of a destination
\* that is not forwarded to from the outside.  The route is the one that one
\* would choose by hand.  (from_iter, find_path, path_to_ips)
RouteFoundIfAny ==
  \A from, to \in Hosts : \A own \in Statuses(from, real[from]) :
    LET statuses == FetchStatuses(from, own)
        outside  == ~Near(statuses, from, to) /\ to \in Gates(statuses)
        paths    == FindPath(statuses, from, to)
    IN  to \in DOMAIN statuses =>
      /\ paths # {} <=>
           Near(statuses, from, to) \/ \E g \in Gates(statuses) : Near(statuses, g, to)
      /\ \A path \in paths :
           /\ PathToIps(statuses, path) # {} <=>
                statuses[from].ips # {} /\ (outside \/ statuses[to].ips # {})
           /\ \A r \in RoutesAlong(statuses, path) :
                \/ InsideRoute(statuses, from, to, r)
                \/ OutsideRoute(statuses, from, to, r)
                \/ ViaGateRoute(statuses, from, to, r)
=============================================================================
