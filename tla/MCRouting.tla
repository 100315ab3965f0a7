------------------------------ MODULE MCRouting -----------------------------
(* A server at home, a desktop beside it and a laptop that comes and goes. *)
(* The daemon of the desktop runs as root and announces no user.           *)
EXTENDS Routing

CONSTANTS server, desktop, laptop

Lan(h, families) ==
  {[kind |-> "ethernet", up |-> TRUE, ips |-> {[of |-> h, family |-> f] : f \in families}]}

\* Docker gives its bridge the same address everywhere.
Loopback == [kind |-> "loopback", up |-> TRUE, ips |-> {[of |-> "localhost", family |-> 4]}]
Docker   == [kind |-> "docker", up |-> TRUE, ips |-> {[of |-> "docker", family |-> 4]}]

\* So does libvirt to its own, which is announced.
Libvirt  == [kind |-> "bridge", up |-> TRUE, ips |-> {[of |-> "virbr0", family |-> 4]}]

MCSituations ==
  server  :> {[net |-> "home", families |-> {4},
               interfaces |-> Lan(server, {4}) \union {Docker, Libvirt}]} @@
  desktop :> {[net |-> "home", families |-> {4},
               interfaces |-> Lan(desktop, {4, 6}) \union {Loopback, Docker, Libvirt}]} @@
  laptop  :> {[net |-> "home", families |-> {4, 6}, interfaces |-> Lan(laptop, {6})],
              [net |-> "train", families |-> {4}, interfaces |-> {Loopback}]}

MCSshPort     == server :> 222 @@ desktop :> 0 @@ laptop :> 0
MCDefaultUser == server :> "mendess" @@ desktop :> NoUser @@ laptop :> "pm"
MCWhoami      == server :> "mendess" @@ desktop :> "root" @@ laptop :> "pm"

MCAliases == "pc" :> [username |-> "alice", hostname |-> desktop]

MCDestinations ==
  [username : {NoUser}, hostname : {laptop, "pc"}]
    \union {[username |-> "bob", hostname |-> "pc"], [username |-> "bob", hostname |-> server]}
=============================================================================
