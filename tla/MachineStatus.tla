--------------------------- MODULE MachineStatus ---------------------------
(***************************************************************************)
(* The machines tell the server where they are: every daemon posts its     *)
(* status once a minute, and the server keeps the last one in two tables,  *)
(* machine_status with a row per host and ip_connection with a row per     *)
(* local address.  `post` writes both in a transaction, statement by       *)
(* statement; what its transaction writes is seen by nobody until Commit,  *)
(* and its first statement keeps the host's row locked until then.         *)
(*                                                                         *)
(* A post may take its time, and outlive the daemon's patience: then the   *)
(* daemon posts again and the two may be applied in either order.          *)
(***************************************************************************)
EXTENDS Integers, FiniteSets

CONSTANTS Hosts,
          Situations,   \* where each host may be: [net, families, interfaces]
          SshPort,      \* each host's config.network.ssh, 0 for None
          DefaultUser,  \* each host's default_user, NoUser for None
          MaxPosts,     \* bound: posts on their way or being handled
          MaxMoves,     \* bound: changes of place
          MaxFailures   \* bound: posts that are lost or rolled back

Nat4 == "nat"   \* what stands for the owner of an IPv4 address: its NAT

NoUser == "none"

ExternalIps(h, s) ==
  {[net |-> s.net, family |-> f, of |-> IF f = 4 THEN Nat4 ELSE h] : f \in s.families}

\* Faulty: docker's interface passes for a network card.  No specification
\* uses it: it shows that RouteLeadsThere can fail.
AlsoDocker(s) == UNION {i.ips : i \in {j \in s.interfaces : j.up /\ j.kind # "loopback"}}

\* The addresses of interfaces that are up and of type Ethernet, but for those
\* of docker, which are told by their names: network cards, and the bridges of
\* other programs (kind "bridge": br-..., virbr...).
IpConnections(s) ==
  UNION {i.ips : i \in {j \in s.interfaces : j.up /\ j.kind \in {"ethernet", "bridge"}}}

\* What get_current_status may return in situation s: the external address is
\* asked for over IPv4 and IPv6, and the first is preferred.  Either may fail
\* where it exists, so any of them is possible.
Statuses(h, s) ==
  {[external_ip |-> e, ips |-> IpConnections(s), ssh |-> SshPort[h],
    default_user |-> DefaultUser[h]] : e \in ExternalIps(h, s)}

Possible(h) == UNION {Statuses(h, s) : s \in Situations[h]}

ASSUME MachineAssumption ==
  /\ IsFiniteSet(Hosts)
  /\ MaxPosts \in Nat /\ MaxMoves \in Nat /\ MaxFailures \in Nat
  /\ \A h \in Hosts : Situations[h] # {} /\ \A s \in Situations[h] : s.families # {}

Posts   == 1 .. MaxPosts
NoPost  == [step |-> "free"]
NoRow   == [external_ip |-> "none"]
Asleep  == 0

VARIABLES real,            \* the situation each host is in
          loops,           \* the post each daemon waits for, Asleep for none
          posts,           \* the posts and how far the server is with them
          machine_status,  \* each host's row, NoRow for none
          ip_connection,   \* each host's rows, by their local addresses
          moves, failures

vars == <<real, loops, posts, machine_status, ip_connection, moves, failures>>
tables == <<machine_status, ip_connection>>

Init ==
  /\ real \in {r \in [Hosts -> UNION {Situations[h] : h \in Hosts}] :
                 \A h \in Hosts : r[h] \in Situations[h]}
  /\ loops = [h \in Hosts |-> Asleep]
  /\ posts = [p \in Posts |-> NoPost]
  /\ machine_status = [h \in Hosts |-> NoRow]
  /\ ip_connection = [h \in Hosts |-> {}]
  /\ moves = 0 /\ failures = 0
-----------------------------------------------------------------------------
Move(h) ==
  /\ moves < MaxMoves
  /\ real' \in {[real EXCEPT ![h] = s] : s \in Situations[h] \ {real[h]}}
  /\ moves' = moves + 1
  /\ UNCHANGED <<loops, posts, tables, failures>>

Free == {p \in Posts : posts[p] = NoPost}

\* The loop of the daemon wakes up.  Which free number its post gets does not
\* matter: the lowest.
Post(h) ==
  /\ loops[h] = Asleep
  /\ \E p \in Free, status \in Statuses(h, real[h]) :
       /\ \A q \in Free : p <= q
       /\ posts' = [posts EXCEPT ![p] = [step |-> "sent", host |-> h, status |-> status,
                                        deleted |-> {}]]
       /\ loops' = [loops EXCEPT ![h] = p]
  /\ UNCHANGED <<real, tables, moves, failures>>

\* Ten seconds without an answer.  What was sent may still arrive.
Timeout(h) ==
  /\ loops[h] # Asleep
  /\ loops' = [loops EXCEPT ![h] = Asleep]
  /\ UNCHANGED <<real, posts, tables, moves, failures>>

InTransaction(p) == posts[p].step \notin {"free", "sent"}

Locked(h) == \E p \in Posts : InTransaction(p) /\ posts[p].host = h

Advance(p, from, to) ==
  /\ posts[p].step = from
  /\ posts' = [posts EXCEPT ![p].step = to]
  /\ UNCHANGED <<real, loops, tables, moves, failures>>

\* Faulty: the first statement takes no lock.  No specification uses it: it
\* shows that ListedAsPosted can fail.
UpsertUnlocked(p) == Advance(p, "sent", "upserted")

\* INSERT INTO machine_status ... ON CONFLICT (hostname) DO UPDATE
Upsert(p) == Advance(p, "sent", "upserted") /\ ~Locked(posts[p].host)

\* DELETE FROM ip_connection: the rows that are there now.
DeleteIps(p) ==
  /\ posts[p].step = "upserted"
  /\ posts' = [posts EXCEPT ![p].step = "deleted", ![p].deleted = ip_connection[posts[p].host]]
  /\ UNCHANGED <<real, loops, tables, moves, failures>>

InsertIps(p) == Advance(p, "deleted", "inserted")

\* The daemon, if it still waits, learns how its post ended.
End(p) ==
  /\ posts' = [posts EXCEPT ![p] = NoPost]
  /\ loops' = [h \in Hosts |-> IF loops[h] = p THEN Asleep ELSE loops[h]]

Row(status) == [external_ip |-> status.external_ip, ssh |-> status.ssh,
                default_user |-> status.default_user]

\* Faulty: the row of a host is never updated.  No specification uses it: it
\* shows that TableCatchesUp can fail.
CommitFirstOnly(p) ==
  /\ posts[p].step = "inserted"
  /\ LET h == posts[p].host  new == posts[p].status IN
     /\ machine_status' = [machine_status EXCEPT ![h] =
           IF @ = NoRow THEN Row(new) ELSE @]
     /\ ip_connection' = [ip_connection EXCEPT ![h] = (@ \ posts[p].deleted) \union new.ips]
  /\ End(p)
  /\ UNCHANGED <<real, moves, failures>>

Commit(p) ==
  /\ posts[p].step = "inserted"
  /\ LET h == posts[p].host  new == posts[p].status IN
     /\ machine_status' = [machine_status EXCEPT ![h] = Row(new)]
     /\ ip_connection' = [ip_connection EXCEPT ![h] = (@ \ posts[p].deleted) \union new.ips]
  /\ End(p)
  /\ UNCHANGED <<real, moves, failures>>

\* The post is lost, a statement fails, or the handler is dropped: the
\* transaction is rolled back.
Fail(p) ==
  /\ posts[p] # NoPost
  /\ failures < MaxFailures
  /\ failures' = failures + 1
  /\ End(p)
  /\ UNCHANGED <<real, tables, moves>>
-----------------------------------------------------------------------------
Handle(p) == Upsert(p) \/ DeleteIps(p) \/ InsertIps(p) \/ Commit(p)

Next ==
  \/ \E h \in Hosts : Move(h) \/ Post(h) \/ Timeout(h)
  \/ \E p \in Posts : Handle(p) \/ Fail(p)

\* The loop has no end, and statements finish.  Post is strongly fair because
\* only the bound MaxPosts disables it while other hosts are at it.
Fairness ==
  /\ \A h \in Hosts : SF_vars(Post(h))
  /\ \A p \in Posts : WF_vars(Handle(p))

Spec == Init /\ [][Next]_vars /\ Fairness
-----------------------------------------------------------------------------
\* The answer of `get`: one statement, which joins the tables.
Known == {h \in Hosts : machine_status[h] # NoRow}

Listed == [h \in Known |-> [external_ip |-> machine_status[h].external_ip,
                            ips |-> ip_connection[h],
                            ssh |-> machine_status[h].ssh,
                            default_user |-> machine_status[h].default_user]]

\* What the server lists of a host is what the host posted, never the
\* addresses of one post with the external address of another: the rows of
\* both tables are of one post, whatever posts overlap or fail (post, the
\* transaction and the row lock of its first statement).
ListedAsPosted == \A h \in Known : Listed[h] \in Possible(h)

\* A machine that stops moving is in the end, and from then on, listed where
\* it is: no post that was delayed is left to overwrite the last one (start).
TableCatchesUp ==
  \A h \in Hosts : <>[](h \in Known /\ Listed[h] \in Statuses(h, real[h]))
=============================================================================
