---------------------------- MODULE RoutingProofs ---------------------------
(***************************************************************************)
(* Proofs about MachineStatus and Routing, for any hosts, situations and   *)
(* bounds: what the server lists, which paths of the graph are the         *)
(* cheapest, and where the routes made of them lead.                       *)
(***************************************************************************)
EXTENDS Routing, SequenceTheorems, FiniteSetTheorems, WellFoundedInduction, TLAPS

AnyStatus == UNION {Possible(h) : h \in Hosts}

APost == [step : {"sent", "upserted", "deleted", "inserted"}, host : Hosts,
          status : AnyStatus,
          deleted : SUBSET UNION {s.ips : s \in AnyStatus}]

ARow == [external_ip : {s.external_ip : s \in AnyStatus}, ssh : {s.ssh : s \in AnyStatus},
         default_user : {s.default_user : s \in AnyStatus}]

TypeOK ==
  /\ real \in [Hosts -> UNION {Situations[h] : h \in Hosts}]
  /\ \A h \in Hosts : real[h] \in Situations[h]
  /\ loops \in [Hosts -> Posts \union {Asleep}]
  /\ posts \in [Posts -> APost \union {NoPost}]
  /\ machine_status \in [Hosts -> ARow \union {NoRow}]
  /\ ip_connection \in [Hosts -> SUBSET UNION {s.ips : s \in AnyStatus}]

\* A post carries what its host may have posted.
PostsArePossible ==
  \A p \in Posts : posts[p] # NoPost => posts[p].status \in Possible(posts[p].host)

\* The row lock: of the transactions for one host only one has begun.
OneTransactionPerHost ==
  \A p, q \in Posts :
    InTransaction(p) /\ InTransaction(q) /\ posts[p].host = posts[q].host => p = q

\* So no row was inserted after the transaction deleted those it saw.
NothingInsertedSince ==
  \A p \in Posts : posts[p].step \in {"deleted", "inserted"} =>
    posts[p].deleted = ip_connection[posts[p].host]

IInv == TypeOK /\ PostsArePossible /\ OneTransactionPerHost /\ NothingInsertedSince
        /\ ListedAsPosted

LEMMA StepsDiffer ==
  ASSUME NEW x \in APost
  PROVE  x # NoPost
<1>1. x.step # NoPost.step
  BY DEF APost, NoPost
<1> QED BY <1>1

LEMMA InitIInv == Init => IInv
<1> SUFFICES ASSUME Init PROVE IInv
  OBVIOUS
<1> USE DEF Init, NoPost
<1>1. TypeOK
  BY DEF TypeOK
<1>2. PostsArePossible /\ OneTransactionPerHost /\ NothingInsertedSince
  BY DEF PostsArePossible, OneTransactionPerHost, NothingInsertedSince, InTransaction
<1>3. ListedAsPosted
  BY DEF ListedAsPosted, Known
<1> QED BY <1>1, <1>2, <1>3 DEF IInv

\* Actions that touch neither the posts nor the tables.
LEMMA QuietIInv ==
  ASSUME IInv, UNCHANGED <<posts, tables>>,
         real' \in [Hosts -> UNION {Situations[h] : h \in Hosts}],
         \A h \in Hosts : real'[h] \in Situations[h],
         loops' \in [Hosts -> Posts \union {Asleep}]
  PROVE  IInv'
<1> USE DEF IInv, tables
<1>1. TypeOK'
  BY DEF TypeOK
<1>2. PostsArePossible' /\ OneTransactionPerHost' /\ NothingInsertedSince'
  BY DEF PostsArePossible, OneTransactionPerHost, NothingInsertedSince, InTransaction
<1>3. ListedAsPosted'
  BY DEF ListedAsPosted, Known, Listed
<1> QED BY <1>1, <1>2, <1>3

\* A new post is not yet in a transaction.
LEMMA PostIInv ==
  ASSUME IInv, NEW h \in Hosts, Post(h)
  PROVE  IInv'
<1> USE DEF IInv, tables
<1>1. PICK p \in Free, status \in Statuses(h, real[h]) :
        /\ posts' = [posts EXCEPT ![p] = [step |-> "sent", host |-> h, status |-> status,
                                         deleted |-> {}]]
        /\ loops' = [loops EXCEPT ![h] = p]
        /\ UNCHANGED <<real, tables>>
  BY DEF Post
<1>2. p \in Posts
  BY DEF Free
<1>3. status \in Possible(h) /\ status \in AnyStatus
  BY DEF TypeOK, Possible, AnyStatus
<1>4. TypeOK'
  BY <1>1, <1>2, <1>3 DEF TypeOK, APost
<1>5. PostsArePossible' /\ OneTransactionPerHost' /\ NothingInsertedSince'
  BY <1>1, <1>2, <1>3
     DEF TypeOK, PostsArePossible, OneTransactionPerHost, NothingInsertedSince, InTransaction
<1>6. ListedAsPosted'
  BY <1>1 DEF ListedAsPosted, Known, Listed
<1> QED BY <1>4, <1>5, <1>6

\* A statement of post p that leaves the tables alone.
LEMMA UpsertIInv ==
  ASSUME IInv, NEW p \in Posts, Upsert(p)
  PROVE  IInv'
<1> USE DEF IInv, tables, Upsert, Advance
<1>1. posts[p] \in APost
  BY DEF TypeOK, NoPost
<1>2. TypeOK'
  BY <1>1 DEF TypeOK, APost
<1>3. PostsArePossible'
  BY <1>1 DEF TypeOK, PostsArePossible, APost, NoPost
<1>4. OneTransactionPerHost'
  BY <1>1 DEF TypeOK, OneTransactionPerHost, Locked, InTransaction, APost
<1>5. NothingInsertedSince'
  BY <1>1 DEF TypeOK, NothingInsertedSince, APost
<1>6. ListedAsPosted'
  BY DEF ListedAsPosted, Known, Listed
<1> QED BY <1>2, <1>3, <1>4, <1>5, <1>6

LEMMA DeleteIpsIInv ==
  ASSUME IInv, NEW p \in Posts, DeleteIps(p)
  PROVE  IInv'
<1> USE DEF IInv, tables, DeleteIps
<1>1. posts[p] \in APost
  BY DEF TypeOK, NoPost
<1>2. TypeOK'
  BY <1>1 DEF TypeOK, APost
<1>3. PostsArePossible'
  BY <1>1 DEF TypeOK, PostsArePossible, APost, NoPost
<1>4. OneTransactionPerHost'
  BY <1>1 DEF TypeOK, OneTransactionPerHost, InTransaction, APost
<1>5. NothingInsertedSince'
  BY <1>1 DEF TypeOK, NothingInsertedSince, APost
<1>6. ListedAsPosted'
  BY DEF ListedAsPosted, Known, Listed
<1> QED BY <1>2, <1>3, <1>4, <1>5, <1>6

LEMMA InsertIpsIInv ==
  ASSUME IInv, NEW p \in Posts, InsertIps(p)
  PROVE  IInv'
<1> USE DEF IInv, tables, InsertIps, Advance
<1>1. posts[p] \in APost
  BY DEF TypeOK, NoPost
<1>2. TypeOK'
  BY <1>1 DEF TypeOK, APost
<1>3. PostsArePossible'
  BY <1>1 DEF TypeOK, PostsArePossible, APost, NoPost
<1>4. OneTransactionPerHost'
  BY <1>1 DEF TypeOK, OneTransactionPerHost, InTransaction, APost
<1>5. NothingInsertedSince'
  BY <1>1 DEF TypeOK, NothingInsertedSince, APost
<1>6. ListedAsPosted'
  BY DEF ListedAsPosted, Known, Listed
<1> QED BY <1>2, <1>3, <1>4, <1>5, <1>6

\* The rows of p's host become those of its status; other transactions are
\* for other hosts.
LEMMA CommitIInv ==
  ASSUME IInv, NEW p \in Posts, Commit(p)
  PROVE  IInv'
<1> USE DEF IInv, tables
<1> DEFINE h == posts[p].host
           new == posts[p].status
<1>1. posts[p] \in APost /\ posts[p].step = "inserted"
  BY DEF TypeOK, NoPost, Commit
<1>2. h \in Hosts /\ new \in Possible(h) /\ new \in AnyStatus
  BY <1>1, StepsDiffer DEF APost, PostsArePossible
<1>3. ip_connection' = [ip_connection EXCEPT ![h] = new.ips]
  BY <1>1, <1>2 DEF Commit, NothingInsertedSince, TypeOK
<1>4. TypeOK'
  <2>1. Row(new) \in ARow
    BY <1>2 DEF ARow, Row
  <2>2. machine_status' \in [Hosts -> ARow \union {NoRow}]
    BY <2>1 DEF TypeOK, Commit
  <2>3. new.ips \subseteq UNION {s.ips : s \in AnyStatus}
    BY <1>2
  <2>4. ip_connection' \in [Hosts -> SUBSET UNION {s.ips : s \in AnyStatus}]
    BY <1>3, <2>3 DEF TypeOK
  <2> QED BY <2>2, <2>4 DEF TypeOK, Commit, End
<1>5. PostsArePossible' /\ OneTransactionPerHost'
  BY DEF TypeOK, PostsArePossible, OneTransactionPerHost, InTransaction, Commit, End, NoPost
<1>6. NothingInsertedSince'
  <2> SUFFICES ASSUME NEW q \in Posts, posts'[q].step \in {"deleted", "inserted"}
               PROVE  posts'[q].deleted = ip_connection'[posts'[q].host]
    BY DEF NothingInsertedSince
  <2>1. q # p /\ posts'[q] = posts[q]
    BY DEF Commit, End, NoPost, TypeOK
  <2>2. posts[q] \in APost /\ posts[q].host # h
    BY <1>1, <2>1 DEF TypeOK, NoPost, OneTransactionPerHost, InTransaction
  <2> QED BY <1>3, <2>1, <2>2 DEF NothingInsertedSince, TypeOK, APost
<1>7. ListedAsPosted'
  <2> SUFFICES ASSUME NEW g \in Known' PROVE Listed'[g] \in Possible(g)
    BY DEF ListedAsPosted
  <2>1. CASE g = h
    <3>1. new = [external_ip |-> new.external_ip, ips |-> new.ips, ssh |-> new.ssh,
                 default_user |-> new.default_user]
      BY <1>2 DEF Possible, Statuses
    <3>2. Listed'[g] = new
      BY <1>2, <1>3, <2>1, <3>1 DEF Listed, Known, Commit, Row, TypeOK
    <3> QED BY <1>2, <2>1, <3>2
  <2>2. CASE g # h
    BY <1>2, <1>3, <2>2 DEF ListedAsPosted, Listed, Known, Commit, TypeOK
  <2> QED BY <2>1, <2>2
<1> QED BY <1>4, <1>5, <1>6, <1>7

LEMMA FailIInv ==
  ASSUME IInv, NEW p \in Posts, Fail(p)
  PROVE  IInv'
<1> USE DEF IInv, tables, Fail, End
<1>1. TypeOK'
  BY DEF TypeOK
<1>2. PostsArePossible' /\ OneTransactionPerHost' /\ NothingInsertedSince'
  BY DEF TypeOK, PostsArePossible, OneTransactionPerHost, NothingInsertedSince,
         InTransaction, NoPost
<1>3. ListedAsPosted'
  BY DEF ListedAsPosted, Known, Listed
<1> QED BY <1>1, <1>2, <1>3

LEMMA NextIInv == IInv /\ [Next]_vars => IInv'
<1> SUFFICES ASSUME IInv, [Next]_vars PROVE IInv'
  OBVIOUS
<1>1. ASSUME NEW h \in Hosts, Move(h) PROVE IInv'
  BY <1>1, QuietIInv DEF Move, IInv, TypeOK
<1>2. ASSUME NEW h \in Hosts, Timeout(h) PROVE IInv'
  BY <1>2, QuietIInv DEF Timeout, IInv, TypeOK
<1>3. CASE UNCHANGED vars
  BY <1>3, QuietIInv DEF vars, tables, IInv, TypeOK
<1> QED BY <1>1, <1>2, <1>3, PostIInv, UpsertIInv, DeleteIpsIInv, InsertIpsIInv, CommitIInv,
           FailIInv DEF Next, Handle

\* What the server lists of a host is what the host posted.
THEOREM ListingsAreConsistent == Spec => []ListedAsPosted
<1>1. IInv => ListedAsPosted
  BY DEF IInv
<1> QED BY <1>1, InitIInv, NextIInv, PTL DEF Spec

-----------------------------------------------------------------------------
(***************************************************************************)
(* The graph.                                                              *)
(***************************************************************************)

Machines(statuses) == IsFiniteSet(DOMAIN statuses) /\ Internet \notin DOMAIN statuses

\* A path of the graph, which passes the Internet once at most.
IsPath(statuses, p, from, to) ==
  /\ p \in Seq(DOMAIN statuses \cup {Internet})
  /\ Len(p) >= 1 /\ p[1] = from /\ p[Len(p)] = to
  /\ \A i, k \in DOMAIN p : p[i] = Internet /\ p[k] = Internet => i = k
  /\ \A i \in 2 .. Len(p) : <<p[i - 1], p[i]>> \in Edges(statuses)

LEMMA LeastOf ==
  ASSUME NEW S, S \subseteq Nat, S # {}
  PROVE  \E n \in S : \A m \in S : n <= m
<1>1. PICK n \in S : \A m \in S : ~(<<m, n>> \in OpToRel(<, Nat))
  BY NatLessThanWellFounded, WFMin
<1>2. ASSUME NEW m \in S PROVE n <= m
  <2>1. <<m, n>> \notin {q \in Nat \X Nat : q[1] < q[2]}
    BY <1>1, Zenon DEF OpToRel
  <2> QED BY <2>1
<1> QED BY <1>2

LEMMA EdgeIs ==
  ASSUME NEW statuses, NEW a, NEW b
  PROVE  <<a, b>> \in Edges(statuses) <=>
           \/ a \in DOMAIN statuses /\ b = Internet
           \/ a = Internet /\ b \in Gates(statuses)
           \/ a \in DOMAIN statuses /\ b \in DOMAIN statuses /\ Near(statuses, a, b)
BY DEF Edges, Gates, Near

LEMMA NearIsEquivalence ==
  ASSUME NEW statuses, NEW a, NEW b
  PROVE  /\ Near(statuses, a, a)
         /\ Near(statuses, a, b) <=> Near(statuses, b, a)
         /\ \A c : Near(statuses, a, b) /\ Near(statuses, b, c) => Near(statuses, a, c)
BY DEF Near, ShareNat

\* Where a path does not pass the Internet, its machines share a NAT.
LEMMA AlongNat ==
  ASSUME NEW statuses, NEW from, NEW to, NEW p, IsPath(statuses, p, from, to),
         NEW a \in DOMAIN p, NEW b \in DOMAIN p, a <= b,
         \A i \in a .. b : p[i] # Internet
  PROVE  Near(statuses, p[a], p[b])
<1> DEFINE Wrong == {n \in Nat : n \in a .. b /\ ~Near(statuses, p[a], p[n])}
<1>1. Len(p) \in Nat /\ DOMAIN p = 1 .. Len(p) /\ a \in 1 .. Len(p) /\ b \in 1 .. Len(p)
  BY DEF IsPath
<1>2. ASSUME Wrong # {} PROVE FALSE
  <2>1. PICK n \in Wrong : \A k \in Wrong : n <= k
    BY <1>2, LeastOf
  <2>2. n # a
    BY <2>1, NearIsEquivalence
  <2>3. n \in a + 1 .. b /\ n - 1 \in a .. b /\ n \in 2 .. Len(p) /\ n - 1 \in Nat /\ ~(n <= n - 1)
    BY <1>1, <2>1, <2>2
  <2>4. Near(statuses, p[a], p[n - 1])
    BY <2>1, <2>3
  <2>5. <<p[n - 1], p[n]>> \in Edges(statuses)
    BY <2>3 DEF IsPath
  <2>6. p[n - 1] # Internet /\ p[n] # Internet
    BY <2>1, <2>3
  <2>7. Near(statuses, p[n - 1], p[n])
    BY <2>5, <2>6, EdgeIs
  <2>8. Near(statuses, p[a], p[n])
    BY <2>4, <2>7, NearIsEquivalence
  <2> QED BY <2>1, <2>8
<1>3. b \in Nat /\ b \in a .. b
  BY <1>1
<1> QED BY <1>2, <1>3

-----------------------------------------------------------------------------
(***************************************************************************)
(* What paths cost.                                                        *)
(***************************************************************************)

\* What the first k nodes of a path cost, if node j and no other is the Internet.
CostUpTo(k, j) == k - 1 + (IF j \notin 2 .. k THEN 0 ELSE IF j = k THEN 99 ELSE 198)

CostStep(p, up, i) == IF i = 1 THEN 0 ELSE up[i - 1] + Weight(p[i - 1], p[i])

LEMMA WeightIs ==
  ASSUME NEW nodes, NEW p \in Seq(nodes), NEW j \in Nat, j # 1,
         \A i \in DOMAIN p : p[i] = Internet <=> i = j,
         NEW i \in DOMAIN p
  PROVE  /\ i = 1 => CostUpTo(i, j) = 0
         /\ i # 1 => /\ i - 1 \in DOMAIN p
                     /\ CostUpTo(i, j) = CostUpTo(i - 1, j) + Weight(p[i - 1], p[i])
<1>1. Len(p) \in Nat /\ i \in Nat /\ 1 <= i /\ i <= Len(p) /\ DOMAIN p = 1 .. Len(p)
  OBVIOUS
<1>2. CASE i = 1
  BY <1>2 DEF CostUpTo
<1>3. CASE i # 1
  <2>1. i - 1 \in DOMAIN p /\ i - 1 \in Nat
    BY <1>1, <1>3
  <2>2. Weight(p[i - 1], p[i]) = IF i - 1 = j \/ i = j THEN 100 ELSE 1
    BY <2>1 DEF Weight, INTERNET_WEIGHT, INTRANET_WEIGHT
  <2>3. CostUpTo(i, j) = CostUpTo(i - 1, j) + (IF i - 1 = j \/ i = j THEN 100 ELSE 1)
    BY <1>1, <1>3 DEF CostUpTo
  <2> QED BY <1>3, <2>1, <2>2, <2>3
<1> QED BY <1>2, <1>3

\* A path through the Internet costs 198 more than another of its length.
LEMMA CostIs ==
  ASSUME NEW nodes, NEW p \in Seq(nodes), Len(p) >= 1, NEW j \in Nat, j # 1,
         \A i \in DOMAIN p : p[i] = Internet <=> i = j
  PROVE  Cost(p) = CostUpTo(Len(p), j)
<1>1. Len(p) \in Nat /\ DOMAIN p = 1 .. Len(p) /\ Len(p) \in DOMAIN p
  OBVIOUS
<1> DEFINE known == [i \in DOMAIN p |-> CostUpTo(i, j)]
           up == CHOOSE g : g = [i \in DOMAIN p |-> CostStep(p, g, i)]
<1>2. known = [i \in DOMAIN p |-> CostStep(p, known, i)]
  <2>1. ASSUME NEW i \in DOMAIN p PROVE CostUpTo(i, j) = CostStep(p, known, i)
    BY WeightIs DEF CostStep
  <2> QED BY <2>1
<1> HIDE DEF known
<1>3. up = [i \in DOMAIN p |-> CostStep(p, up, i)]
  BY <1>2, Zenon
<1>4. Cost(p) = up[Len(p)]
  BY DEF Cost, CostStep
<1> HIDE DEF up
<1> DEFINE Wrong == {i \in Nat : i \in DOMAIN p /\ up[i] # CostUpTo(i, j)}
<1>5. ASSUME Wrong # {} PROVE FALSE
  <2>1. PICK i \in Wrong : \A k \in Wrong : i <= k
    BY <1>5, LeastOf
  <2>2. i \in DOMAIN p /\ i \in Nat /\ up[i] # CostUpTo(i, j)
    BY <2>1
  <2>3. up[i] = CostStep(p, up, i)
    BY <1>3, <2>2
  <2>4. i # 1
    BY <2>2, <2>3, WeightIs DEF CostStep
  <2>5. i - 1 \in DOMAIN p /\ CostUpTo(i, j) = CostUpTo(i - 1, j) + Weight(p[i - 1], p[i])
    BY <2>2, <2>4, WeightIs
  <2>6. i - 1 \in Nat /\ ~(i <= i - 1)
    BY <1>1, <2>2, <2>4
  <2>7. up[i - 1] = CostUpTo(i - 1, j)
    BY <2>1, <2>5, <2>6
  <2> QED BY <2>2, <2>3, <2>4, <2>5, <2>7 DEF CostStep
<1> QED BY <1>1, <1>4, <1>5

\* Where a path passes the Internet, 0 if nowhere, and what it costs.
LEMMA PassesInternet ==
  ASSUME NEW statuses, NEW from, NEW to, NEW p, IsPath(statuses, p, from, to),
         from # Internet, to # Internet
  PROVE  \E j \in Nat :
           /\ \A i \in DOMAIN p : p[i] = Internet <=> i = j
           /\ j = 0 \/ j \in 2 .. Len(p) - 1
           /\ Cost(p) = Len(p) - 1 + (IF j = 0 THEN 0 ELSE 198)
<1>1. Len(p) \in Nat /\ DOMAIN p = 1 .. Len(p) /\ p \in Seq(DOMAIN statuses \cup {Internet})
  BY DEF IsPath
<1>2. CASE \E j \in DOMAIN p : p[j] = Internet
  <2>1. PICK j \in DOMAIN p : p[j] = Internet
    BY <1>2
  <2>2. \A i \in DOMAIN p : p[i] = Internet <=> i = j
    BY <2>1 DEF IsPath
  <2>3. j # 1 /\ j # Len(p) /\ j \in Nat /\ j \in 2 .. Len(p) - 1
    BY <1>1, <2>1 DEF IsPath
  <2>4. Cost(p) = CostUpTo(Len(p), j)
    BY <1>1, <2>2, <2>3, CostIs DEF IsPath
  <2>5. CostUpTo(Len(p), j) = Len(p) - 1 + 198
    BY <1>1, <2>3 DEF CostUpTo
  <2> QED BY <2>2, <2>3, <2>4, <2>5
<1>3. CASE ~ \E j \in DOMAIN p : p[j] = Internet
  <2>1. \A i \in DOMAIN p : p[i] = Internet <=> i = 0
    BY <1>1, <1>3
  <2>2. Cost(p) = CostUpTo(Len(p), 0)
    BY <1>1, <2>1, CostIs DEF IsPath
  <2>3. CostUpTo(Len(p), 0) = Len(p) - 1
    BY <1>1 DEF CostUpTo
  <2> QED BY <2>1, <2>2, <2>3
<1> QED BY <1>2, <1>3

LEMMA PathCosts ==
  ASSUME NEW statuses, NEW from, NEW to, NEW p, IsPath(statuses, p, from, to),
         from # Internet, to # Internet
  PROVE  /\ Len(p) \in Nat /\ Cost(p) \in Nat
         /\ Cost(p) = Len(p) - 1 \/ Cost(p) = Len(p) + 197
<1>1. Len(p) \in Nat /\ Len(p) >= 1
  BY DEF IsPath
<1>2. PICK j \in Nat : Cost(p) = Len(p) - 1 + (IF j = 0 THEN 0 ELSE 198)
  BY PassesInternet
<1>3. CASE j = 0
  BY <1>1, <1>2, <1>3
<1>4. CASE j # 0
  BY <1>1, <1>2, <1>4
<1> QED BY <1>3, <1>4

-----------------------------------------------------------------------------
(***************************************************************************)
(* The cheapest paths.                                                     *)
(***************************************************************************)

Inner(statuses, from, to) == (DOMAIN statuses \cup {Internet}) \ {from, to}

LEMMA ViaIs ==
  ASSUME NEW nodes, NEW via \in Seq(nodes), NEW from \in nodes, NEW to \in nodes
  PROVE  LET p == <<from>> \o via \o <<to>> IN
         /\ p \in Seq(nodes) /\ Len(p) = Len(via) + 2
         /\ p[1] = from /\ p[Len(via) + 2] = to
         /\ \A i \in 2 .. Len(via) + 1 : p[i] = via[i - 1]
<1> DEFINE front == <<from>> \o via
           p == front \o <<to>>
<1>1. Len(via) \in Nat
  OBVIOUS
<1>2. /\ front \in Seq(nodes) /\ Len(front) = 1 + Len(via)
      /\ \A i \in 1 .. 1 + Len(via) : front[i] = IF i <= 1 THEN from ELSE via[i - 1]
  <2>1. <<from>> \in Seq(nodes) /\ Len(<<from>>) = 1 /\ <<from>>[1] = from
    OBVIOUS
  <2>2. /\ front \in Seq(nodes) /\ Len(front) = Len(<<from>>) + Len(via)
        /\ \A i \in 1 .. Len(<<from>>) + Len(via) :
             front[i] = IF i <= Len(<<from>>) THEN <<from>>[i] ELSE via[i - Len(<<from>>)]
    BY <2>1, ConcatProperties
  <2> HIDE DEF front
  <2>3. ASSUME NEW i \in 1 .. 1 + Len(via)
        PROVE  front[i] = IF i <= 1 THEN from ELSE via[i - 1]
    <3>1. front[i] = IF i <= 1 THEN <<from>>[i] ELSE via[i - 1]
      BY <2>1, <2>2
    <3>2. i <= 1 => i = 1
      OBVIOUS
    <3> QED BY <2>1, <3>1, <3>2
  <2> QED BY <2>1, <2>2, <2>3
<1> HIDE DEF front
<1>3. <<to>> \in Seq(nodes) /\ Len(<<to>>) = 1 /\ <<to>>[1] = to
  OBVIOUS
<1>4. /\ p \in Seq(nodes) /\ Len(p) = Len(front) + Len(<<to>>)
      /\ \A i \in 1 .. Len(front) + Len(<<to>>) :
           p[i] = IF i <= Len(front) THEN front[i] ELSE <<to>>[i - Len(front)]
  BY <1>2, <1>3, ConcatProperties
<1> HIDE DEF p
<1>5. Len(p) = Len(via) + 2
  BY <1>1, <1>2, <1>3, <1>4
<1>6. \A i \in 1 .. Len(via) + 1 : p[i] = front[i]
  BY <1>1, <1>2, <1>3, <1>4
<1>7. p[Len(via) + 2] = <<to>>[1]
  <2>1. Len(via) + 2 \in 1 .. Len(front) + Len(<<to>>)
    BY <1>1, <1>2, <1>3
  <2>2. ~(Len(via) + 2 <= Len(front)) /\ Len(via) + 2 - Len(front) = 1
    BY <1>1, <1>2
  <2> QED BY <1>4, <2>1, <2>2
<1>8. p[1] = from
  BY <1>1, <1>2, <1>6
<1>9. \A i \in 2 .. Len(via) + 1 : p[i] = via[i - 1]
  BY <1>1, <1>2, <1>6
<1> QED BY <1>3, <1>4, <1>5, <1>7, <1>8, <1>9 DEF p, front

LEMMA ViaOf ==
  ASSUME NEW nodes, NEW via \in Seq(nodes), NEW from \in nodes, NEW to \in nodes,
         NEW p \in Seq(nodes), Len(p) = Len(via) + 2, p[1] = from, p[Len(via) + 2] = to,
         \A i \in 2 .. Len(via) + 1 : p[i] = via[i - 1]
  PROVE  p = <<from>> \o via \o <<to>>
<1> DEFINE q == <<from>> \o via \o <<to>>
<1>1. /\ q \in Seq(nodes) /\ Len(q) = Len(via) + 2
      /\ q[1] = from /\ q[Len(via) + 2] = to
      /\ \A i \in 2 .. Len(via) + 1 : q[i] = via[i - 1]
  BY ViaIs
<1> HIDE DEF q
<1>2. Len(via) \in Nat
  OBVIOUS
<1>3. ASSUME NEW i \in 1 .. Len(p) PROVE p[i] = q[i]
  <2>1. i = 1 \/ i = Len(via) + 2 \/ i \in 2 .. Len(via) + 1
    BY <1>2
  <2> QED BY <1>1, <2>1
<1>4. p = q
  BY <1>1, <1>3, SeqEqual
<1> QED BY <1>4 DEF q

LEMMA PathSays ==
  ASSUME NEW statuses, Machines(statuses), NEW from \in DOMAIN statuses,
         NEW to \in DOMAIN statuses, NEW p \in PathsBetween(statuses, from, to)
  PROVE  /\ IsPath(statuses, p, from, to)
         /\ from = to => p = <<from>>
         /\ from # to => Len(p) >= 2
<1> DEFINE nodes == DOMAIN statuses \cup {Internet}
<1>1. \A i \in 2 .. Len(p) : <<p[i - 1], p[i]>> \in Edges(statuses)
  BY DEF PathsBetween
<1>2. CASE from = to
  <2>1. p = <<from>>
    BY <1>2 DEF PathsBetween
  <2>2. p \in Seq(nodes) /\ Len(p) = 1 /\ p[1] = from
    BY <2>1
  <2> QED BY <1>1, <1>2, <2>1, <2>2 DEF IsPath
<1>3. CASE from # to
  <2>1. PICK via \in SetToAllKPermutations(Inner(statuses, from, to)) :
          p = <<from>> \o via \o <<to>>
    BY <1>3 DEF PathsBetween, Inner
  <2>2. PICK s \in SUBSET Inner(statuses, from, to) : via \in SetToSeqs(s)
    BY <2>1 DEF SetToAllKPermutations
  <2>3. Cardinality(s) \in Nat
    <3>1. IsFiniteSet(DOMAIN statuses \cup {Internet})
      BY FS_AddElement DEF Machines
    <3>2. IsFiniteSet(s)
      BY <2>2, <3>1, FS_Subset DEF Inner
    <3> QED BY <3>2, FS_CardinalityType
  <2>4. /\ via \in [1 .. Cardinality(s) -> s]
        /\ \A i, k \in 1 .. Cardinality(s) : i # k => via[i] # via[k]
    BY <2>2 DEF SetToSeqs
  <2>5. via \in Seq(nodes) /\ Len(via) = Cardinality(s)
    BY <2>2, <2>3, <2>4 DEF Inner
  <2>6. /\ p \in Seq(nodes) /\ Len(p) = Len(via) + 2
        /\ p[1] = from /\ p[Len(via) + 2] = to
        /\ \A i \in 2 .. Len(via) + 1 : p[i] = via[i - 1]
    BY <2>1, <2>5, ViaIs
  <2>7. from # Internet /\ to # Internet
    BY DEF Machines
  <2>8. ASSUME NEW i \in DOMAIN p, p[i] = Internet
        PROVE  i - 1 \in 1 .. Cardinality(s) /\ i \in 2 .. Len(via) + 1 /\ via[i - 1] = Internet
    <3>1. i # 1 /\ i # Len(via) + 2 /\ i \in 1 .. Len(via) + 2
      BY <2>6, <2>7, <2>8
    <3>2. i \in 2 .. Len(via) + 1 /\ i - 1 \in 1 .. Cardinality(s)
      BY <2>3, <2>5, <3>1
    <3> QED BY <2>6, <2>8, <3>2
  <2>9. ASSUME NEW i \in DOMAIN p, NEW k \in DOMAIN p, p[i] = Internet, p[k] = Internet
        PROVE  i = k
    <3>1. via[i - 1] = via[k - 1] /\ i - 1 \in 1 .. Cardinality(s) /\ k - 1 \in 1 .. Cardinality(s)
      BY <2>8, <2>9
    <3>2. i - 1 = k - 1
      BY <2>4, <3>1
    <3>3. i \in 2 .. Len(via) + 1 /\ k \in 2 .. Len(via) + 1
      BY <2>8, <2>9
    <3> QED BY <2>3, <2>5, <3>2, <3>3
  <2>10. Len(p) >= 2 /\ p[Len(p)] = to
    BY <2>3, <2>5, <2>6
  <2> QED BY <1>1, <1>3, <2>6, <2>9, <2>10 DEF IsPath
<1> QED BY <1>2, <1>3

LEMMA ShortPaths ==
  ASSUME NEW statuses, Machines(statuses), NEW from \in DOMAIN statuses,
         NEW to \in DOMAIN statuses, from # to
  PROVE  /\ Near(statuses, from, to) => <<from, to>> \in PathsBetween(statuses, from, to)
         /\ to \in Gates(statuses) =>
              <<from, Internet, to>> \in PathsBetween(statuses, from, to)
         /\ \A g \in Gates(statuses) \ {from, to} : Near(statuses, g, to) =>
              <<from, Internet, g, to>> \in PathsBetween(statuses, from, to)
<1> DEFINE inner == Inner(statuses, from, to)
<1>1. Internet \in inner /\ Internet # from /\ Internet # to
  BY DEF Inner, Machines
<1> DEFINE nodes == DOMAIN statuses \cup {Internet}
<1>2. ASSUME NEW p, NEW via, NEW s \in SUBSET inner, via \in SetToSeqs(s), p = <<from>> \o via \o <<to>>,
             \A i \in 2 .. Len(p) : <<p[i - 1], p[i]>> \in Edges(statuses)
      PROVE  p \in PathsBetween(statuses, from, to)
  BY <1>2 DEF PathsBetween, Inner, SetToAllKPermutations
<1>3. ASSUME Near(statuses, from, to)
      PROVE  <<from, to>> \in PathsBetween(statuses, from, to)
  <2>1. <<>> \in SetToSeqs({})
    BY FS_EmptySet DEF SetToSeqs
  <2>2. <<from, to>> = <<from>> \o <<>> \o <<to>>
    <3> DEFINE none == <<>>
               p == <<from, to>>
    <3>1. none \in Seq(nodes) /\ p \in Seq(nodes) /\ from \in nodes /\ to \in nodes
      OBVIOUS
    <3>2. Len(p) = Len(none) + 2 /\ p[1] = from /\ p[Len(none) + 2] = to
      OBVIOUS
    <3>3. \A i \in 2 .. Len(none) + 1 : p[i] = none[i - 1]
      OBVIOUS
    <3> HIDE DEF none, p
    <3>4. p = <<from>> \o none \o <<to>>
      BY <3>1, <3>2, <3>3, ViaOf, Zenon
    <3> QED BY <3>4 DEF none, p
  <2>3. \A i \in 2 .. Len(<<from, to>>) : <<<<from, to>>[i - 1], <<from, to>>[i]>> \in Edges(statuses)
    <3>1. <<from, to>> \in Edges(statuses)
      BY <1>3, EdgeIs
    <3> QED BY <3>1
  <2>4. {} \in SUBSET inner
    OBVIOUS
  <2> QED BY <1>2, <2>1, <2>2, <2>3, <2>4
<1>4. ASSUME to \in Gates(statuses)
      PROVE  <<from, Internet, to>> \in PathsBetween(statuses, from, to)
  <2> DEFINE p == <<from, Internet, to>>
  <2>1. <<Internet>> \in SetToSeqs({Internet})
    <3>1. Cardinality({Internet}) = 1
      BY FS_Singleton
    <3> QED BY <3>1 DEF SetToSeqs
  <2>2. p = <<from>> \o <<Internet>> \o <<to>>
    <3>1. /\ p \in Seq(nodes) /\ <<Internet>> \in Seq(nodes)
          /\ from \in nodes /\ to \in nodes
      OBVIOUS
    <3>2. Len(p) = Len(<<Internet>>) + 2 /\ p[1] = from /\ p[Len(<<Internet>>) + 2] = to
      OBVIOUS
    <3>3. \A i \in 2 .. Len(<<Internet>>) + 1 : p[i] = <<Internet>>[i - 1]
      OBVIOUS
    <3> HIDE DEF p
    <3> QED BY <3>1, <3>2, <3>3, ViaOf, Zenon
  <2>3. \A i \in 2 .. Len(p) : <<p[i - 1], p[i]>> \in Edges(statuses)
    <3>1. <<from, Internet>> \in Edges(statuses) /\ <<Internet, to>> \in Edges(statuses)
      BY <1>4, EdgeIs
    <3> QED BY <3>1
  <2>4. {Internet} \in SUBSET inner
    BY <1>1
  <2> QED BY <1>2, <2>1, <2>2, <2>3, <2>4
<1>5. ASSUME NEW g \in Gates(statuses) \ {from, to}, Near(statuses, g, to)
      PROVE  <<from, Internet, g, to>> \in PathsBetween(statuses, from, to)
  <2> DEFINE p == <<from, Internet, g, to>>
  <2>1. g \in inner /\ g # Internet /\ g \in DOMAIN statuses
    BY DEF Gates, Inner, Machines
  <2>2. <<Internet, g>> \in SetToSeqs({Internet, g})
    <3>1. Cardinality({Internet}) = 1 /\ IsFiniteSet({Internet})
      BY FS_Singleton
    <3>2. g \notin {Internet} /\ {Internet, g} = {Internet} \cup {g}
      BY <2>1
    <3>3. Cardinality({Internet, g}) = 2
      BY <3>1, <3>2, FS_AddElement
    <3> QED BY <2>1, <3>3 DEF SetToSeqs
  <2>3. p = <<from>> \o <<Internet, g>> \o <<to>>
    <3>1. /\ p \in Seq(nodes) /\ <<Internet, g>> \in Seq(nodes)
          /\ from \in nodes /\ to \in nodes
      BY <2>1
    <3>2. Len(p) = Len(<<Internet, g>>) + 2 /\ p[1] = from /\ p[Len(<<Internet, g>>) + 2] = to
      OBVIOUS
    <3>3. \A i \in 2 .. Len(<<Internet, g>>) + 1 : p[i] = <<Internet, g>>[i - 1]
      OBVIOUS
    <3> HIDE DEF p
    <3> QED BY <3>1, <3>2, <3>3, ViaOf, Zenon
  <2>4. \A i \in 2 .. Len(p) : <<p[i - 1], p[i]>> \in Edges(statuses)
    <3>1. <<from, Internet>> \in Edges(statuses) /\ <<Internet, g>> \in Edges(statuses)
      BY <1>5, EdgeIs
    <3>2. <<g, to>> \in Edges(statuses)
      BY <1>5, <2>1, EdgeIs
    <3> QED BY <3>1, <3>2
  <2>5. {Internet, g} \in SUBSET inner
    BY <1>1, <2>1
  <2> QED BY <1>2, <2>2, <2>3, <2>4, <2>5
<1> QED BY <1>3, <1>4, <1>5

\* Of some paths there is a cheapest one.
LEMMA FindsPath ==
  ASSUME NEW statuses, Machines(statuses), NEW from \in DOMAIN statuses, NEW to \in DOMAIN statuses,
         PathsBetween(statuses, from, to) # {}
  PROVE  FindPath(statuses, from, to) # {}
<1> DEFINE paths == PathsBetween(statuses, from, to)
           costs == {Cost(p) : p \in paths}
<1>1. costs # {}
  OBVIOUS
<1>2. ASSUME NEW p \in paths PROVE Cost(p) \in Nat
  BY PathSays, PathCosts DEF Machines
<1>3. costs \subseteq Nat
  BY <1>2
<1>4. PICK c \in costs : \A d \in costs : c <= d
  BY <1>1, <1>3, LeastOf
<1> QED BY <1>4 DEF FindPath

Direct(from, to) == IF from = to THEN <<from>> ELSE <<from, to>>

\* Within a NAT, the cheapest path is the direct one.
LEMMA CheapestNear ==
  ASSUME NEW statuses, Machines(statuses), NEW from \in DOMAIN statuses,
         NEW to \in DOMAIN statuses, Near(statuses, from, to)
  PROVE  FindPath(statuses, from, to) = {Direct(from, to)}
<1> DEFINE paths == PathsBetween(statuses, from, to)
<1>1. from # Internet /\ to # Internet
  BY DEF Machines
<1>2. CASE from = to
  <2>1. \A p \in paths : p = <<from>>
    BY <1>2, PathSays
  <2>2. <<from>> \in paths
    <3>1. \A i \in 2 .. Len(<<from>>) : <<<<from>>[i - 1], <<from>>[i]>> \in Edges(statuses)
      OBVIOUS
    <3> QED BY <1>2, <3>1 DEF PathsBetween
  <2>3. paths = {<<from>>}
    BY <2>1, <2>2
  <2>4. Cost(<<from>>) <= Cost(<<from>>)
    <3>1. IsPath(statuses, <<from>>, from, to)
      BY <2>2, PathSays
    <3>2. Cost(<<from>>) \in Nat
      BY <1>1, <3>1, PathCosts
    <3> QED BY <3>2
  <2>5. FindPath(statuses, from, to) = {<<from>>}
    BY <2>3, <2>4 DEF FindPath
  <2> QED BY <1>2, <2>5 DEF Direct
<1>3. CASE from # to
  <2> DEFINE direct == <<from, to>>
  <2>1. direct \in paths
    BY <1>3, ShortPaths
  <2>2. Len(direct) = 2 /\ direct[1] = from /\ direct[2] = to
    OBVIOUS
  <2> HIDE DEF direct
  <2>3. Cost(direct) = 1
    <3>1. IsPath(statuses, direct, from, to)
      BY <2>1, PathSays
    <3>2. PICK j \in Nat : /\ j = 0 \/ j \in 2 .. Len(direct) - 1
                           /\ Cost(direct) = Len(direct) - 1 + (IF j = 0 THEN 0 ELSE 198)
      BY <1>1, <3>1, PassesInternet
    <3> QED BY <2>2, <3>2
  <2>4. ASSUME NEW p \in paths PROVE Cost(p) >= 1 /\ (Cost(p) <= 1 => p = direct)
    <3>1. IsPath(statuses, p, from, to) /\ Len(p) >= 2
      BY <1>3, PathSays
    <3>2. /\ Len(p) \in Nat /\ Cost(p) \in Nat
          /\ Cost(p) = Len(p) - 1 \/ Cost(p) = Len(p) + 197
      BY <1>1, <3>1, PathCosts
    <3>3. PICK n, c \in Nat : n = Len(p) /\ c = Cost(p)
      BY <3>2
    <3>4. c >= 1 /\ (c <= 1 => n = 2)
      BY <3>1, <3>2, <3>3
    <3>5. ASSUME Len(p) = 2 PROVE p = direct
      <4>1. p \in Seq(DOMAIN statuses \cup {Internet}) /\ p[1] = from /\ p[2] = to
        BY <3>1, <3>5 DEF IsPath
      <4> QED BY <3>5, <4>1 DEF direct
    <3> QED BY <3>3, <3>4, <3>5
  <2>5. FindPath(statuses, from, to) = {direct}
    BY <2>1, <2>3, <2>4 DEF FindPath
  <2> QED BY <1>3, <2>5 DEF Direct, direct
<1> QED BY <1>2, <1>3

\* Through the Internet: to the destination or to a machine of its NAT.
LEMMA CheapestFar ==
  ASSUME NEW statuses, Machines(statuses), NEW from \in DOMAIN statuses,
         NEW to \in DOMAIN statuses, ~Near(statuses, from, to)
  PROVE  /\ FindPath(statuses, from, to) # {} <=>
              \E g \in Gates(statuses) : Near(statuses, g, to)
         /\ \A p \in FindPath(statuses, from, to) :
              \/ to \in Gates(statuses) /\ p = <<from, Internet, to>>
              \/ to \notin Gates(statuses) /\ \E g \in Gates(statuses) :
                   Near(statuses, g, to) /\ p = <<from, Internet, g, to>>
<1> DEFINE paths == PathsBetween(statuses, from, to)
<1>1. from # Internet /\ to # Internet /\ from # to
  BY NearIsEquivalence DEF Machines
\* What comes behind the Internet is a gate to the destination.
<1>2. ASSUME NEW p \in paths
      PROVE  \E j \in 2 .. Len(p) - 1 :
               /\ p[j] = Internet /\ p[j + 1] \in Gates(statuses) /\ Near(statuses, p[j + 1], to)
               /\ Cost(p) = Len(p) + 197
  <2>1. IsPath(statuses, p, from, to) /\ Len(p) >= 2
    BY <1>1, PathSays
  <2>2. Len(p) \in Nat /\ DOMAIN p = 1 .. Len(p) /\ p[1] = from /\ p[Len(p)] = to
    BY <2>1 DEF IsPath
  <2>3. PICK j \in Nat :
           /\ \A i \in DOMAIN p : p[i] = Internet <=> i = j
           /\ j = 0 \/ j \in 2 .. Len(p) - 1
           /\ Cost(p) = Len(p) - 1 + (IF j = 0 THEN 0 ELSE 198)
    BY <1>1, <2>1, PassesInternet
  <2>4. j # 0
    <3> SUFFICES ASSUME j = 0 PROVE FALSE
      OBVIOUS
    <3>1. 1 \in DOMAIN p /\ Len(p) \in DOMAIN p /\ 1 <= Len(p) /\ \A i \in 1 .. Len(p) : p[i] # Internet
      BY <2>1, <2>2, <2>3
    <3>2. Near(statuses, p[1], p[Len(p)])
      BY <2>1, <3>1, AlongNat
    <3> QED BY <2>2, <3>2
  <2>5. j \in 2 .. Len(p) - 1 /\ j \in DOMAIN p /\ p[j] = Internet
    BY <2>2, <2>3, <2>4
  <2>6. j + 1 \in 2 .. Len(p) /\ j + 1 \in DOMAIN p /\ j + 1 - 1 = j /\ j + 1 # j
    BY <2>2, <2>5
  <2>7. <<Internet, p[j + 1]>> \in Edges(statuses) /\ p[j + 1] # Internet
    <3>1. <<p[j + 1 - 1], p[j + 1]>> \in Edges(statuses)
      BY <2>1, <2>6 DEF IsPath
    <3> QED BY <2>3, <2>5, <2>6, <3>1
  <2>8. p[j + 1] \in Gates(statuses)
    BY <2>7, EdgeIs DEF Machines
  <2>9. Near(statuses, p[j + 1], to)
    <3>1. Len(p) \in DOMAIN p /\ j + 1 <= Len(p)
      BY <2>2, <2>5
    <3>2. \A i \in j + 1 .. Len(p) : i \in DOMAIN p /\ i # j
      BY <2>2, <2>5
    <3>3. \A i \in j + 1 .. Len(p) : p[i] # Internet
      BY <2>3, <3>2
    <3>4. Near(statuses, p[j + 1], p[Len(p)])
      BY <2>1, <2>6, <3>1, <3>3, AlongNat
    <3> QED BY <2>2, <3>4
  <2>10. Cost(p) = Len(p) + 197
    BY <2>2, <2>3, <2>4
  <2> QED BY <2>5, <2>8, <2>9, <2>10
<1>3. ASSUME NEW g \in Gates(statuses), Near(statuses, g, to)
      PROVE  /\ to \in Gates(statuses) => <<from, Internet, to>> \in paths
             /\ g # to => <<from, Internet, g, to>> \in paths
  <2>1. g # from
    BY <1>3
  <2> QED BY <1>1, <1>3, <2>1, ShortPaths
<1>4. FindPath(statuses, from, to) # {} <=> \E g \in Gates(statuses) : Near(statuses, g, to)
  <2>1. ASSUME NEW p \in FindPath(statuses, from, to)
        PROVE  \E g \in Gates(statuses) : Near(statuses, g, to)
    <3>1. p \in paths
      BY DEF FindPath
    <3> QED BY <1>2, <3>1
  <2>2. ASSUME NEW g \in Gates(statuses), Near(statuses, g, to) PROVE paths # {}
    BY <1>3, <2>2
  <2> QED BY <2>1, <2>2, FindsPath
<1>5. ASSUME NEW p \in FindPath(statuses, from, to)
      PROVE  \/ to \in Gates(statuses) /\ p = <<from, Internet, to>>
             \/ to \notin Gates(statuses) /\ \E g \in Gates(statuses) :
                  Near(statuses, g, to) /\ p = <<from, Internet, g, to>>
  <2>1. p \in paths /\ \A q \in paths : Cost(p) <= Cost(q)
    BY DEF FindPath
  <2>2. PICK j \in 2 .. Len(p) - 1 :
               /\ p[j] = Internet /\ p[j + 1] \in Gates(statuses) /\ Near(statuses, p[j + 1], to)
               /\ Cost(p) = Len(p) + 197
    BY <1>2, <2>1
  <2>3. IsPath(statuses, p, from, to)
    BY <2>1, PathSays
  <2>4. /\ Len(p) \in Nat /\ p \in Seq(DOMAIN statuses \cup {Internet})
        /\ p[1] = from /\ p[Len(p)] = to
    BY <2>3 DEF IsPath
  <2>5. CASE to \in Gates(statuses)
    <3> DEFINE q == <<from, Internet, to>>
    <3>1. q \in paths
      BY <1>3, <2>5, NearIsEquivalence
    <3>2. Len(q) = 3
      OBVIOUS
    <3> HIDE DEF q
    <3>3. Cost(q) = Len(q) + 197
      BY <1>2, <3>1
    <3>4. Cost(p) <= Cost(q)
      BY <2>1, <3>1
    <3>5. PICK n \in Nat : n = Len(p)
      BY <2>4
    <3>6. n + 197 <= 200 /\ j \in 2 .. n - 1
      BY <2>2, <3>2, <3>3, <3>4, <3>5
    <3>7. n = 3 /\ j = 2
      BY <3>6
    <3>8. p = q
      <4>1. Len(p) = 3 /\ p[1] = from /\ p[2] = Internet /\ p[3] = to
        BY <2>2, <2>4, <3>5, <3>7
      <4>2. PICK S : p \in Seq(S)
        BY <2>4
      <4> QED BY <4>1, <4>2 DEF q
    <3> QED BY <2>5, <3>8 DEF q
  <2>6. CASE to \notin Gates(statuses)
    <3> DEFINE g == p[j + 1]
               q == <<from, Internet, g, to>>
    <3>1. g \in Gates(statuses) /\ Near(statuses, g, to) /\ g # to
      BY <2>2, <2>6
    <3>2. q \in paths
      BY <1>3, <3>1
    <3>3. Len(q) = 4
      OBVIOUS
    <3> HIDE DEF q
    <3>4. Cost(q) = Len(q) + 197
      BY <1>2, <3>2
    <3>5. Cost(p) <= Cost(q)
      BY <2>1, <3>2
    <3>6. PICK n \in Nat : n = Len(p)
      BY <2>4
    <3>7. n + 197 <= 201 /\ j \in 2 .. n - 1 /\ j + 1 # n
      <4>1. j + 1 # Len(p)
        BY <2>4, <3>1
      <4> QED BY <2>2, <3>3, <3>4, <3>5, <3>6, <4>1
    <3>8. n = 4 /\ j = 2
      BY <3>7
    <3>9. p = q
      <4>1. Len(p) = 4 /\ p[1] = from /\ g = p[3] /\ p[2] = Internet /\ p[4] = to
        BY <2>2, <2>4, <3>6, <3>8
      <4>2. PICK S : p \in Seq(S)
        BY <2>4
      <4> HIDE DEF g
      <4> QED BY <4>1, <4>2 DEF q
    <3> QED BY <2>6, <3>1, <3>9 DEF q
  <2> QED BY <2>5, <2>6
<1> QED BY <1>4, <1>5

-----------------------------------------------------------------------------
(***************************************************************************)
(* The hops of a path.                                                     *)
(***************************************************************************)

MachinePlaces(path) == {i \in DOMAIN path : path[i] # Internet}

InOrder(places) == \A j, k \in DOMAIN places : j < k => places[j] < places[k]

LEMMA MachinesInOrder ==
  ASSUME NEW path, NEW places \in SetToSeqs(MachinePlaces(path)), InOrder(places)
  PROVE  MachinesOn(path) \in SetToSeqs(MachinePlaces(path)) /\ InOrder(MachinesOn(path))
<1> DEFINE S == SetToSeqs(MachinePlaces(path))
<1>1. MachinesOn(path) = CHOOSE q \in S : InOrder(q)
  BY DEF MachinesOn, InOrder, MachinePlaces
<1> QED BY <1>1, Zenon

\* The paths that find_path returns.
LEMMA MachinesOnDirect ==
  ASSUME NEW from, from # Internet
  PROVE  MachinesOn(<<from>>) = <<1>>
<1> DEFINE path == <<from>>
           P == MachinePlaces(path)
<1>1. P = {1}
  BY DEF MachinePlaces
<1>2. Cardinality(P) = 1
  BY <1>1, FS_Singleton
<1>3. <<1>> \in SetToSeqs(P) /\ InOrder(<<1>>)
  BY <1>1, <1>2 DEF SetToSeqs, InOrder
<1> HIDE DEF path
<1>4. MachinesOn(path) \in SetToSeqs(P)
  BY <1>3, MachinesInOrder
<1>5. MachinesOn(path) \in [1 .. 1 -> {1}]
  BY <1>1, <1>2, <1>4 DEF SetToSeqs
<1>6. MachinesOn(path) = <<1>>
  BY <1>5
<1> QED BY <1>6 DEF path

LEMMA MachinesOfTwo ==
  ASSUME NEW path, NEW m \in Nat, m > 1, MachinePlaces(path) = {1, m}
  PROVE  MachinesOn(path) = <<1, m>>
<1> DEFINE P == MachinePlaces(path)
           q == MachinesOn(path)
<1>1. Cardinality(P) = 2
  <2>1. P = {1} \cup {m} /\ m \notin {1}
    OBVIOUS
  <2>2. Cardinality({1}) = 1 /\ IsFiniteSet({1})
    BY FS_Singleton
  <2> QED BY <2>1, <2>2, FS_AddElement
<1>2. <<1, m>> \in SetToSeqs(P) /\ InOrder(<<1, m>>)
  BY <1>1 DEF SetToSeqs, InOrder
<1>3. q \in SetToSeqs(P) /\ InOrder(q)
  BY <1>2, MachinesInOrder
<1> HIDE DEF q
<1>4. q \in [1 .. 2 -> {1, m}] /\ q[1] < q[2]
  BY <1>1, <1>3 DEF SetToSeqs, InOrder
<1>5. q[1] = 1 /\ q[2] = m
  BY <1>4
<1>6. q = <<1, m>>
  BY <1>4, <1>5
<1> QED BY <1>6 DEF q

LEMMA MachinesOfThree ==
  ASSUME NEW path, MachinePlaces(path) = {1, 3, 4}
  PROVE  MachinesOn(path) = <<1, 3, 4>>
<1> DEFINE P == MachinePlaces(path)
           q == MachinesOn(path)
<1>1. Cardinality(P) = 3
  <2>1. P = {1, 3} \cup {4} /\ 4 \notin {1, 3} /\ {1, 3} = {1} \cup {3} /\ 3 \notin {1}
    OBVIOUS
  <2>2. Cardinality({1}) = 1 /\ IsFiniteSet({1})
    BY FS_Singleton
  <2>3. Cardinality({1, 3}) = 2 /\ IsFiniteSet({1, 3})
    BY <2>1, <2>2, FS_AddElement
  <2> QED BY <2>1, <2>3, FS_AddElement
<1>2. <<1, 3, 4>> \in SetToSeqs(P) /\ InOrder(<<1, 3, 4>>)
  BY <1>1 DEF SetToSeqs, InOrder
<1>3. q \in SetToSeqs(P) /\ InOrder(q)
  BY <1>2, MachinesInOrder
<1> HIDE DEF q
<1>4. q \in [1 .. 3 -> {1, 3, 4}] /\ q[1] < q[2] /\ q[2] < q[3]
  BY <1>1, <1>3 DEF SetToSeqs, InOrder
<1>5. q[1] = 1 /\ q[2] = 3 /\ q[3] = 4
  BY <1>4
<1>6. q = <<1, 3, 4>>
  BY <1>4, <1>5
<1> QED BY <1>6 DEF q

\* There are hops for a path exactly if there is one for each of its machines.
LEMMA HopsAre ==
  ASSUME NEW statuses, NEW path, NEW places, MachinesOn(path) = places
  PROVE  /\ \A hops \in PathToIps(statuses, path) :
              /\ hops = [k \in DOMAIN places |-> hops[k]]
              /\ \A k \in DOMAIN places : hops[k] \in HopsTo(statuses, path, places[k])
         /\ PathToIps(statuses, path) # {} <=>
              \A k \in DOMAIN places : HopsTo(statuses, path, places[k]) # {}
<1> DEFINE HopOf(k) == CHOOSE hop \in HopsTo(statuses, path, places[k]) : TRUE
           hops == [k \in DOMAIN places |-> HopOf(k)]
           all == UNION {HopsTo(statuses, path, i) : i \in Range(places)}
<1>1. PathToIps(statuses, path) =
        {h \in [DOMAIN places -> all] : \A k \in DOMAIN places : h[k] \in HopsTo(statuses, path, places[k])}
  BY DEF PathToIps
<1>2. ASSUME \A k \in DOMAIN places : HopsTo(statuses, path, places[k]) # {}
      PROVE  PathToIps(statuses, path) # {}
  <2>1. ASSUME NEW k \in DOMAIN places
        PROVE  HopOf(k) \in HopsTo(statuses, path, places[k]) /\ HopOf(k) \in all
    <3>1. HopsTo(statuses, path, places[k]) # {}
      BY <1>2
    <3>2. HopOf(k) \in HopsTo(statuses, path, places[k])
      BY <3>1, Zenon
    <3>3. places[k] \in Range(places)
      BY DEF Range
    <3> QED BY <3>2, <3>3
  <2> HIDE DEF HopOf, all
  <2>2. hops \in [DOMAIN places -> all] /\ \A k \in DOMAIN places : hops[k] \in HopsTo(statuses, path, places[k])
    BY <2>1
  <2> QED BY <1>1, <2>2
<1> HIDE DEF all
<1>3. ASSUME NEW h \in PathToIps(statuses, path)
      PROVE  /\ h = [k \in DOMAIN places |-> h[k]]
             /\ \A k \in DOMAIN places : h[k] \in HopsTo(statuses, path, places[k])
  BY <1>1
<1>4. ASSUME NEW h \in PathToIps(statuses, path), NEW k \in DOMAIN places
      PROVE  HopsTo(statuses, path, places[k]) # {}
  BY <1>3
<1> QED BY <1>2, <1>3, <1>4

\* The machine itself is no hop, unless it is the destination.
Cut(hops) == IF Len(hops) > 1 THEN Tail(hops) ELSE hops

LEMMA TailIs ==
  ASSUME NEW a, NEW b, NEW c
  PROVE  Tail(<<a, b>>) = <<b>> /\ Tail(<<a, b, c>>) = <<b, c>>
<1> DEFINE T == {a, b, c}
<1>1. <<a, b>> \in Seq(T) /\ <<b>> \in Seq(T) /\ <<a, b, c>> \in Seq(T) /\ <<b, c>> \in Seq(T)
  OBVIOUS
<1>2. Tail(<<a, b>>) = <<b>>
  <2> DEFINE s == <<a, b>>
  <2>1. Len(s) = 2 /\ s # <<>> /\ s[2] = b
    OBVIOUS
  <2> HIDE DEF s, T
  <2>2. Tail(s) \in Seq(T) /\ Len(Tail(s)) = 1 /\ Tail(s)[1] = b
    BY <1>1, <2>1, HeadTailProperties DEF s
  <2> QED BY <2>2 DEF s
<1>3. Tail(<<a, b, c>>) = <<b, c>>
  <2> DEFINE s == <<a, b, c>>
  <2>1. Len(s) = 3 /\ s # <<>> /\ s[2] = b /\ s[3] = c
    OBVIOUS
  <2> HIDE DEF s, T
  <2>2. Tail(s) \in Seq(T) /\ Len(Tail(s)) = 2 /\ Tail(s)[1] = b /\ Tail(s)[2] = c
    BY <1>1, <2>1, HeadTailProperties DEF s
  <2> QED BY <2>2 DEF s
<1> QED BY <1>2, <1>3

LEMMA CutIs ==
  ASSUME NEW hops
  PROVE  /\ hops = [k \in 1 .. 1 |-> hops[k]] => Cut(hops) = <<hops[1]>>
         /\ hops = [k \in 1 .. 2 |-> hops[k]] => Cut(hops) = <<hops[2]>>
         /\ hops = [k \in 1 .. 3 |-> hops[k]] => Cut(hops) = <<hops[2], hops[3]>>
<1>1. ASSUME hops = [k \in 1 .. 1 |-> hops[k]] PROVE Cut(hops) = <<hops[1]>>
  <2>1. hops = <<hops[1]>>
    BY <1>1
  <2>2. Len(hops) = 1
    BY <2>1
  <2> QED BY <2>1, <2>2 DEF Cut
<1>2. ASSUME hops = [k \in 1 .. 2 |-> hops[k]] PROVE Cut(hops) = <<hops[2]>>
  <2>1. PICK a, b : a = hops[1] /\ b = hops[2]
    OBVIOUS
  <2>2. hops = <<a, b>>
    BY <1>2, <2>1
  <2>3. Len(hops) = 2 /\ Tail(hops) = <<b>>
    BY <2>2, TailIs
  <2> QED BY <2>1, <2>3 DEF Cut
<1>3. ASSUME hops = [k \in 1 .. 3 |-> hops[k]] PROVE Cut(hops) = <<hops[2], hops[3]>>
  <2>1. PICK a, b, c : a = hops[1] /\ b = hops[2] /\ c = hops[3]
    OBVIOUS
  <2>2. hops = <<a, b, c>>
    BY <1>3, <2>1
  <2>3. Len(hops) = 3 /\ Tail(hops) = <<b, c>>
    BY <2>2, TailIs
  <2> QED BY <2>1, <2>3 DEF Cut
<1> QED BY <1>1, <1>2, <1>3

LEMMA DirectHops ==
  ASSUME NEW statuses, Machines(statuses), NEW from \in DOMAIN statuses, NEW to \in DOMAIN statuses
  PROVE  /\ \A hops \in PathToIps(statuses, Direct(from, to)) :
              \E hop \in FromInside(statuses[to]) : Cut(hops) = <<hop>>
         /\ PathToIps(statuses, Direct(from, to)) # {} <=>
              FromInside(statuses[from]) # {} /\ FromInside(statuses[to]) # {}
<1>1. from # Internet /\ to # Internet
  BY DEF Machines
<1>2. CASE from = to
  <2> DEFINE path == <<from>>
             places == <<1>>
  <2>1. path = Direct(from, to)
    BY <1>2 DEF Direct
  <2>2. MachinesOn(path) = places
    BY <1>1, MachinesOnDirect
  <2>3. HopsTo(statuses, path, places[1]) = FromInside(statuses[to])
    BY <1>2 DEF HopsTo
  <2>4. DOMAIN places = 1 .. 1 /\ \A k \in 1 .. 1 : k = 1
    OBVIOUS
  <2> HIDE DEF path, places
  <2>5. ASSUME NEW hops \in PathToIps(statuses, path)
        PROVE  hops[1] \in FromInside(statuses[to]) /\ Cut(hops) = <<hops[1]>>
    <3>1. hops = [k \in DOMAIN places |-> hops[k]] /\ hops[1] \in HopsTo(statuses, path, places[1])
      BY <2>2, <2>4, HopsAre
    <3> QED BY <2>3, <2>4, <3>1, CutIs
  <2>6. PathToIps(statuses, path) # {} <=> FromInside(statuses[to]) # {}
    <3>1. PathToIps(statuses, path) # {} <=>
            \A k \in DOMAIN places : HopsTo(statuses, path, places[k]) # {}
      BY <2>2, HopsAre
    <3> QED BY <2>3, <2>4, <3>1
  <2> QED BY <1>2, <2>1, <2>5, <2>6
<1>3. CASE from # to
  <2> DEFINE path == <<from, to>>
             places == <<1, 2>>
  <2>1. path = Direct(from, to)
    BY <1>3 DEF Direct
  <2>2. MachinesOn(path) = places
    <3>1. MachinePlaces(path) = {1, 2}
      BY <1>1 DEF MachinePlaces
    <3> HIDE DEF path
    <3> QED BY <3>1, MachinesOfTwo
  <2>3. /\ HopsTo(statuses, path, places[1]) = FromInside(statuses[from])
        /\ HopsTo(statuses, path, places[2]) = FromInside(statuses[to])
    BY <1>1 DEF HopsTo
  <2>4. DOMAIN places = 1 .. 2 /\ \A k \in 1 .. 2 : k = 1 \/ k = 2
    OBVIOUS
  <2> HIDE DEF path, places
  <2>5. ASSUME NEW hops \in PathToIps(statuses, path)
        PROVE  hops[2] \in FromInside(statuses[to]) /\ Cut(hops) = <<hops[2]>>
    <3>1. hops = [k \in DOMAIN places |-> hops[k]] /\ hops[2] \in HopsTo(statuses, path, places[2])
      BY <2>2, <2>4, HopsAre
    <3> QED BY <2>3, <2>4, <3>1, CutIs
  <2>6. PathToIps(statuses, path) # {} <=>
          FromInside(statuses[from]) # {} /\ FromInside(statuses[to]) # {}
    <3>1. PathToIps(statuses, path) # {} <=>
            \A k \in DOMAIN places : HopsTo(statuses, path, places[k]) # {}
      BY <2>2, HopsAre
    <3> QED BY <2>3, <2>4, <3>1
  <2> QED BY <2>1, <2>5, <2>6
<1> QED BY <1>2, <1>3

LEMMA GateHops ==
  ASSUME NEW statuses, Machines(statuses), NEW from \in DOMAIN statuses, NEW to \in DOMAIN statuses
  PROVE  LET path == <<from, Internet, to>> IN
         /\ \A hops \in PathToIps(statuses, path) :
              \E hop \in FromOutside(statuses[to]) : Cut(hops) = <<hop>>
         /\ PathToIps(statuses, path) # {} <=> FromInside(statuses[from]) # {}
<1> DEFINE path == <<from, Internet, to>>
           places == <<1, 3>>
<1>1. from # Internet /\ to # Internet
  BY DEF Machines
<1>2. MachinesOn(path) = places
  <2>1. MachinePlaces(path) = {1, 3}
    BY <1>1 DEF MachinePlaces
  <2> HIDE DEF path
  <2> QED BY <2>1, MachinesOfTwo
<1>3. /\ HopsTo(statuses, path, places[1]) = FromInside(statuses[from])
      /\ HopsTo(statuses, path, places[2]) = FromOutside(statuses[to])
  BY <1>1 DEF HopsTo
<1>4. DOMAIN places = 1 .. 2 /\ \A k \in 1 .. 2 : k = 1 \/ k = 2
  OBVIOUS
<1> HIDE DEF path, places
<1>5. ASSUME NEW hops \in PathToIps(statuses, path)
      PROVE  hops[2] \in FromOutside(statuses[to]) /\ Cut(hops) = <<hops[2]>>
  <2>1. hops = [k \in DOMAIN places |-> hops[k]] /\ hops[2] \in HopsTo(statuses, path, places[2])
    BY <1>2, <1>4, HopsAre
  <2> QED BY <1>3, <1>4, <2>1, CutIs
<1>6. PathToIps(statuses, path) # {} <=> FromInside(statuses[from]) # {}
  <2>1. PathToIps(statuses, path) # {} <=>
          \A k \in DOMAIN places : HopsTo(statuses, path, places[k]) # {}
    BY <1>2, HopsAre
  <2>2. FromOutside(statuses[to]) # {}
    BY DEF FromOutside
  <2> QED BY <1>3, <1>4, <2>1, <2>2
<1> QED BY <1>5, <1>6 DEF path

LEMMA ViaHops ==
  ASSUME NEW statuses, Machines(statuses), NEW from \in DOMAIN statuses, NEW to \in DOMAIN statuses,
         NEW g \in DOMAIN statuses
  PROVE  LET path == <<from, Internet, g, to>> IN
         /\ \A hops \in PathToIps(statuses, path) :
              \E gate \in FromOutside(statuses[g]), hop \in FromInside(statuses[to]) :
                Cut(hops) = <<gate, hop>>
         /\ PathToIps(statuses, path) # {} <=>
              FromInside(statuses[from]) # {} /\ FromInside(statuses[to]) # {}
<1> DEFINE path == <<from, Internet, g, to>>
           places == <<1, 3, 4>>
<1>1. from # Internet /\ to # Internet /\ g # Internet
  BY DEF Machines
<1>2. MachinesOn(path) = places
  <2>1. MachinePlaces(path) = {1, 3, 4}
    BY <1>1 DEF MachinePlaces
  <2> HIDE DEF path
  <2> QED BY <2>1, MachinesOfThree
<1>3. /\ HopsTo(statuses, path, places[1]) = FromInside(statuses[from])
      /\ HopsTo(statuses, path, places[2]) = FromOutside(statuses[g])
      /\ HopsTo(statuses, path, places[3]) = FromInside(statuses[to])
  BY <1>1 DEF HopsTo
<1>4. DOMAIN places = 1 .. 3 /\ \A k \in 1 .. 3 : k = 1 \/ k = 2 \/ k = 3
  OBVIOUS
<1> HIDE DEF path, places
<1>5. ASSUME NEW hops \in PathToIps(statuses, path)
      PROVE  /\ hops[2] \in FromOutside(statuses[g]) /\ hops[3] \in FromInside(statuses[to])
             /\ Cut(hops) = <<hops[2], hops[3]>>
  <2>1. /\ hops = [k \in DOMAIN places |-> hops[k]]
        /\ hops[2] \in HopsTo(statuses, path, places[2])
        /\ hops[3] \in HopsTo(statuses, path, places[3])
    BY <1>2, <1>4, HopsAre
  <2> QED BY <1>3, <1>4, <2>1, CutIs
<1>6. PathToIps(statuses, path) # {} <=>
        FromInside(statuses[from]) # {} /\ FromInside(statuses[to]) # {}
  <2>1. PathToIps(statuses, path) # {} <=>
          \A k \in DOMAIN places : HopsTo(statuses, path, places[k]) # {}
    BY <1>2, HopsAre
  <2>2. FromOutside(statuses[g]) # {}
    BY DEF FromOutside
  <2> QED BY <1>3, <1>4, <2>1, <2>2
<1> QED BY <1>5, <1>6 DEF path

-----------------------------------------------------------------------------
(***************************************************************************)
(* Routes.                                                                 *)
(***************************************************************************)

\* What a path that is found looks like, and a route along it.
LEMMA AlongPath ==
  ASSUME NEW statuses, Machines(statuses), NEW from, NEW to,
         NEW p \in FindPath(statuses, from, to)
  PROVE  /\ from \in DOMAIN statuses /\ to \in DOMAIN statuses
         /\ PathToIps(statuses, p) # {} <=>
              /\ FromInside(statuses[from]) # {}
              /\ \/ ~Near(statuses, from, to) /\ to \in Gates(statuses)
                 \/ FromInside(statuses[to]) # {}
         /\ \A r \in RoutesAlong(statuses, p) :
              \/ InsideRoute(statuses, from, to, r) /\ to \in Range(p)
              \/ OutsideRoute(statuses, from, to, r) /\ to \in Range(p)
              \/ /\ ~Near(statuses, from, to) /\ to \notin Gates(statuses)
                 /\ \E g \in Gates(statuses) :
                      /\ Near(statuses, g, to) /\ g \in Range(p) /\ to \in Range(p)
                      /\ \E gate \in FromOutside(statuses[g]), hop \in FromInside(statuses[to]) :
                           r = <<gate, hop>>
<1>1. from \in DOMAIN statuses /\ to \in DOMAIN statuses
  BY DEF FindPath, PathsBetween
<1>2. \A r \in RoutesAlong(statuses, p) : \E hops \in PathToIps(statuses, p) : r = Cut(hops)
  BY DEF RoutesAlong, Cut
<1>3. CASE Near(statuses, from, to)
  <2>1. p = Direct(from, to)
    BY <1>1, <1>3, CheapestNear
  <2>2. to \in Range(p)
    BY <2>1 DEF Direct, Range
  <2>3. /\ \A hops \in PathToIps(statuses, p) :
             \E hop \in FromInside(statuses[to]) : Cut(hops) = <<hop>>
        /\ PathToIps(statuses, p) # {} <=>
             FromInside(statuses[from]) # {} /\ FromInside(statuses[to]) # {}
    BY <1>1, <2>1, DirectHops
  <2> QED BY <1>1, <1>2, <1>3, <2>2, <2>3 DEF InsideRoute
<1>4. CASE ~Near(statuses, from, to)
  <2>1. \/ to \in Gates(statuses) /\ p = <<from, Internet, to>>
        \/ to \notin Gates(statuses) /\ \E g \in Gates(statuses) :
             Near(statuses, g, to) /\ p = <<from, Internet, g, to>>
    BY <1>1, <1>4, CheapestFar
  <2>2. CASE to \in Gates(statuses) /\ p = <<from, Internet, to>>
    <3>1. to \in Range(p)
      BY <2>2 DEF Range
    <3>2. /\ \A hops \in PathToIps(statuses, p) :
               \E hop \in FromOutside(statuses[to]) : Cut(hops) = <<hop>>
          /\ PathToIps(statuses, p) # {} <=> FromInside(statuses[from]) # {}
      BY <1>1, <2>2, GateHops
    <3> QED BY <1>1, <1>2, <1>4, <2>2, <3>1, <3>2 DEF OutsideRoute
  <2>3. ASSUME NEW g \in Gates(statuses), Near(statuses, g, to), p = <<from, Internet, g, to>>,
               to \notin Gates(statuses)
        PROVE  /\ PathToIps(statuses, p) # {} <=>
                    FromInside(statuses[from]) # {} /\ FromInside(statuses[to]) # {}
               /\ g \in Range(p) /\ to \in Range(p)
               /\ \A hops \in PathToIps(statuses, p) :
                    \E gate \in FromOutside(statuses[g]), hop \in FromInside(statuses[to]) :
                      Cut(hops) = <<gate, hop>>
    <3>1. g \in DOMAIN statuses
      BY DEF Gates
    <3>2. g \in Range(p) /\ to \in Range(p)
      BY <2>3 DEF Range
    <3> QED BY <1>1, <2>3, <3>1, <3>2, ViaHops
  <2>4. CASE to \notin Gates(statuses)
    <3>1. PICK g \in Gates(statuses) : Near(statuses, g, to) /\ p = <<from, Internet, g, to>>
      BY <2>1, <2>4
    <3>2. /\ PathToIps(statuses, p) # {} <=>
               FromInside(statuses[from]) # {} /\ FromInside(statuses[to]) # {}
          /\ g \in Range(p) /\ to \in Range(p)
          /\ \A hops \in PathToIps(statuses, p) :
               \E gate \in FromOutside(statuses[g]), hop \in FromInside(statuses[to]) :
                 Cut(hops) = <<gate, hop>>
      BY <2>3, <2>4, <3>1
    <3>3. ASSUME NEW r \in RoutesAlong(statuses, p)
          PROVE  \E gate \in FromOutside(statuses[g]), hop \in FromInside(statuses[to]) :
                   r = <<gate, hop>>
      BY <1>2, <3>2
    <3> QED BY <1>1, <1>4, <2>4, <3>1, <3>2, <3>3
  <2> QED BY <2>1, <2>2, <2>4
<1> QED BY <1>3, <1>4

\* What spark fetches is a graph of machines.
LEMMA FetchedMachines ==
  ASSUME NEW from \in Hosts, NEW own
  PROVE  /\ Machines(FetchStatuses(from, own))
         /\ DOMAIN FetchStatuses(from, own) \subseteq Hosts
         /\ from \in DOMAIN FetchStatuses(from, own)
<1> DEFINE statuses == FetchStatuses(from, own)
<1>1. DOMAIN statuses \subseteq Hosts /\ from \in DOMAIN statuses
  BY DEF FetchStatuses, Known
<1>2. IsFiniteSet(DOMAIN statuses)
  BY <1>1, MachineAssumption, FS_Subset
<1>3. Internet \notin DOMAIN statuses
  BY <1>1, RoutingAssumption
<1> QED BY <1>1, <1>2, <1>3 DEF Machines

LEMMA AnyPreferred ==
  ASSUME NEW status
  PROVE  FromInside(status) # {} <=> status.ips # {}
<1>1. status.ips # {} => PreferredIps(status) # {}
  <2>1. CASE \E ip \in status.ips : ip.family = 4
    BY <2>1 DEF PreferredIps
  <2>2. CASE \A ip \in status.ips : ip.family # 4
    BY <2>2 DEF PreferredIps
  <2> QED BY <2>1, <2>2
<1>2. PreferredIps(status) # {} => status.ips # {}
  BY DEF PreferredIps
<1> QED BY <1>1, <1>2 DEF FromInside

LEMMA SearchFinds == RouteFoundIfAny
<1> SUFFICES ASSUME NEW from \in Hosts, NEW to \in Hosts, NEW own \in Statuses(from, real[from]),
                    to \in DOMAIN FetchStatuses(from, own)
             PROVE  LET statuses == FetchStatuses(from, own)
                        outside  == ~Near(statuses, from, to) /\ to \in Gates(statuses)
                        paths    == FindPath(statuses, from, to)
                    IN  /\ paths # {} <=>
                             Near(statuses, from, to) \/ \E g \in Gates(statuses) : Near(statuses, g, to)
                        /\ \A path \in paths :
                             /\ PathToIps(statuses, path) # {} <=>
                                  statuses[from].ips # {} /\ (outside \/ statuses[to].ips # {})
                             /\ \A r \in RoutesAlong(statuses, path) :
                                  \/ InsideRoute(statuses, from, to, r)
                                  \/ OutsideRoute(statuses, from, to, r)
                                  \/ ViaGateRoute(statuses, from, to, r)
  BY Zenon DEF RouteFoundIfAny
<1> DEFINE statuses == FetchStatuses(from, own)
<1>1. Machines(statuses) /\ from \in DOMAIN statuses /\ to \in DOMAIN statuses
  BY FetchedMachines
<1> HIDE DEF statuses
<1>2. FindPath(statuses, from, to) # {} <=>
        Near(statuses, from, to) \/ \E g \in Gates(statuses) : Near(statuses, g, to)
  <2>1. CASE Near(statuses, from, to)
    BY <1>1, <2>1, CheapestNear
  <2>2. CASE ~Near(statuses, from, to)
    BY <1>1, <2>2, CheapestFar
  <2> QED BY <2>1, <2>2
<1>3. ASSUME NEW path \in FindPath(statuses, from, to)
      PROVE  PathToIps(statuses, path) # {} <=>
               /\ statuses[from].ips # {}
               /\ \/ ~Near(statuses, from, to) /\ to \in Gates(statuses)
                  \/ statuses[to].ips # {}
  <2>1. FromInside(statuses[from]) # {} <=> statuses[from].ips # {}
    BY AnyPreferred
  <2>2. FromInside(statuses[to]) # {} <=> statuses[to].ips # {}
    BY AnyPreferred
  <2> QED BY <1>1, <2>1, <2>2, AlongPath
<1>4. ASSUME NEW path \in FindPath(statuses, from, to), NEW r \in RoutesAlong(statuses, path)
      PROVE  \/ InsideRoute(statuses, from, to, r)
             \/ OutsideRoute(statuses, from, to, r)
             \/ ViaGateRoute(statuses, from, to, r)
  BY <1>1, AlongPath DEF ViaGateRoute
<1> QED BY <1>2, <1>3, <1>4 DEF statuses

\* On any network, and whatever the server lists, a route is given exactly if the machines
\* share a NAT or one that is forwarded to is in the NAT of the destination, and the local
\* addresses that path_to_ips asks for are listed; it is the one that one would choose by
\* hand, whichever of equally cheap paths find_path comes across.
THEOREM RoutesAreFound == Spec => []RouteFoundIfAny
BY SearchFinds, PTL DEF Spec

-----------------------------------------------------------------------------
(***************************************************************************)
(* Where routes lead.                                                      *)
(***************************************************************************)

Situated == \A h \in Hosts : real[h] \in Situations[h]

\* An address that a machine announces leads to it from within its network.
LEMMA InsideLeads ==
  ASSUME Situated, AddressesDiffer, NEW m \in Hosts, NEW to \in Hosts, real[m].net = real[to].net,
         NEW status \in Statuses(to, real[to]), NEW hop \in FromInside(status),
         NEW command, command.ip = hop.ip, command.port = hop.port,
         command.ip \notin BridgeIps(to)
  PROVE  Reached(m, command) = {to} /\ hop.default_username = DefaultUser[to]
<1>1. /\ command.port = 22 /\ command.ip \in status.ips
      /\ hop.default_username = status.default_user
  BY DEF FromInside, PreferredIps
<1>2. status.ips = IpConnections(real[to]) /\ status.default_user = DefaultUser[to]
  BY DEF Statuses
<1>3. PICK i \in real[to].interfaces : i.kind = "ethernet" /\ command.ip \in i.ips
  <2>1. PICK i \in real[to].interfaces :
          i.kind \in {"ethernet", "bridge"} /\ command.ip \in i.ips
    BY <1>1, <1>2 DEF IpConnections
  <2>2. i.kind # "bridge"
    BY <2>1 DEF BridgeIps
  <2> QED BY <2>1, <2>2
<1>4. command.ip \in AddressesOf(to) /\ "net" \notin DOMAIN command.ip
  <2>1. command.ip \in AllAddresses(real[to])
    BY <1>3 DEF AllAddresses
  <2> QED BY <2>1, RoutingAssumption DEF AddressesOf, Situated
<1>5. ASSUME NEW g \in Hosts, real[g].net = real[to].net, command.ip \in AddressesOf(g)
      PROVE  g = to
  <2>1. g # to => i.ips \intersect AddressesOf(g) = {}
    BY <1>3, <1>5 DEF AddressesDiffer
  <2> QED BY <1>3, <1>5, <2>1
<1>6. Reached(m, command) =
        {g \in Hosts : /\ command.port = 22
                       /\ real[g].net = real[m].net
                       /\ command.ip \in AddressesOf(g)
                       /\ command.ip \in AddressesOf(m) => g = m}
  BY <1>4 DEF Reached
<1>7. Reached(m, command) = {to}
  BY <1>1, <1>4, <1>5, <1>6
<1> QED BY <1>1, <1>2, <1>7

\* A forwarded port leads to the machine that announces it, from anywhere.
LEMMA OutsideLeads ==
  ASSUME AddressesDiffer, NEW m \in Hosts, NEW to \in Hosts, NEW status \in Statuses(to, real[to]),
         status.ssh # NoPort, NEW hop \in FromOutside(status),
         NEW command, command.ip = hop.ip, command.port = hop.port
  PROVE  Reached(m, command) = {to} /\ hop.default_username = DefaultUser[to]
<1>1. /\ command.port = SshPort[to] /\ SshPort[to] # NoPort
      /\ hop.default_username = DefaultUser[to]
      /\ command.ip \in ExternalIps(to, real[to])
  BY DEF FromOutside, Statuses
<1>2. PICK f \in real[to].families :
        command.ip = [net |-> real[to].net, family |-> f, of |-> IF f = 4 THEN Nat4 ELSE to]
  BY <1>1 DEF ExternalIps
<1>3. "net" \in DOMAIN command.ip
  BY <1>2
<1>4. Reached(m, command) =
        {g \in Hosts : SshPort[g] = command.port /\ command.ip \in ExternalIps(g, real[g])}
  BY <1>3 DEF Reached
<1>5. ASSUME NEW g \in Hosts, SshPort[g] = command.port, command.ip \in ExternalIps(g, real[g])
      PROVE  g = to
  <2>1. PICK e \in real[g].families :
          command.ip = [net |-> real[g].net, family |-> e, of |-> IF e = 4 THEN Nat4 ELSE g]
    BY <1>5 DEF ExternalIps
  <2>2. e = f /\ real[g].net = real[to].net /\ (f # 4 => g = to)
    BY <1>2, <2>1
  <2>3. CASE f = 4
    <3>1. 4 \in real[g].families \intersect real[to].families
      BY <2>1, <2>2, <2>3
    <3>2. g # to => SshPort[g] # SshPort[to] \/ SshPort[g] = NoPort
      BY <2>2, <3>1 DEF AddressesDiffer
    <3> QED BY <1>1, <1>5, <3>2
  <2> QED BY <2>2, <2>3
<1>6. Reached(m, command) = {to}
  BY <1>1, <1>4, <1>5
<1> QED BY <1>1, <1>6

LoginsStep(m, commands, at, i) ==
  IF i = 0 THEN {m} ELSE UNION {Reached(g, commands[i]) : g \in at[i - 1]}

\* The machines that a command reaches from some machines.
Onward(machines, command) == UNION {Reached(m, command) : m \in machines}

LEMMA LoggedInIs ==
  ASSUME NEW m, NEW commands, Len(commands) \in {1, 2}
  PROVE  /\ LoggedIn(m, commands, 1) = Reached(m, commands[1])
         /\ Len(commands) = 2 =>
              LoggedIn(m, commands, 2) = Onward(Reached(m, commands[1]), commands[2])
<1> DEFINE n == Len(commands)
           first == Reached(m, commands[1])
           second == UNION {Reached(g, commands[2]) : g \in first}
           known == [i \in 0 .. n |-> IF i = 0 THEN {m} ELSE IF i = 1 THEN first ELSE second]
           at == CHOOSE h : h = [i \in 0 .. n |-> LoginsStep(m, commands, h, i)]
<1>1. first = UNION {Reached(g, commands[1]) : g \in {m}}
  OBVIOUS
<1>9. n = 1 \/ n = 2
  OBVIOUS
<1> HIDE DEF n, first
<1>2. \A i \in 0 .. n : i = 0 \/ i = 1 \/ (i = 2 /\ n = 2)
  BY <1>9
<1>3. 0 \in 0 .. n /\ 1 \in 0 .. n /\ (n = 2 => 2 \in 0 .. n)
  BY <1>9
<1>4. known = [i \in 0 .. n |-> LoginsStep(m, commands, known, i)]
  <2>1. known[0] = {m} /\ known[1] = first
    BY <1>3
  <2> DEFINE login(i) == IF i = 0 THEN {m} ELSE IF i = 1 THEN first ELSE second
  <2>2. ASSUME NEW i \in 0 .. n PROVE login(i) = LoginsStep(m, commands, known, i)
    <3> HIDE DEF known
    <3>1. CASE i = 0
      BY <3>1 DEF LoginsStep
    <3>2. CASE i = 1
      BY <1>1, <2>1, <3>2 DEF LoginsStep
    <3>3. CASE i = 2
      BY <2>1, <3>3 DEF LoginsStep
    <3> QED BY <1>2, <3>1, <3>2, <3>3
  <2> QED BY <2>2, Zenon
<1> HIDE DEF known
<1>5. at = [i \in 0 .. n |-> LoginsStep(m, commands, at, i)]
  BY <1>4, Zenon
<1>6. \A k : LoggedIn(m, commands, k) = at[k]
  BY DEF LoggedIn, LoginsStep, n
<1> HIDE DEF at
<1>7. at[0] = {m} /\ at[1] = UNION {Reached(g, commands[1]) : g \in at[0]}
  BY <1>3, <1>5 DEF LoginsStep
<1>8. n = 2 => at[2] = UNION {Reached(g, commands[2]) : g \in at[1]}
  BY <1>3, <1>5 DEF LoginsStep
<1> QED BY <1>1, <1>6, <1>7, <1>8 DEF n, first, Onward

\* ssh goes to each hop in turn, each of which is one machine, as its user.
LEMMA RouteLeads ==
  ASSUME Situated, NEW statuses, DOMAIN statuses \subseteq Hosts, Machines(statuses),
         AddressesDiffer, NEW from \in Hosts, NEW d, NEW p \in FindPath(statuses, from, d.hostname),
         UpToDate(statuses, from), \A h \in Range(p) \ {Internet} : UpToDate(statuses, h),
         NEW r \in RoutesAlong(statuses, p),
         LET commands == PathToArgs(r, d.username) IN
           commands[Len(commands)].ip \notin BridgeIps(d.hostname)
  PROVE  LeadsTo(from, PathToArgs(r, d.username), d)
<1> DEFINE to == d.hostname
           commands == PathToArgs(r, d.username)
<1>1. /\ from \in DOMAIN statuses /\ to \in DOMAIN statuses /\ to \in Hosts
      /\ \/ InsideRoute(statuses, from, to, r) /\ to \in Range(p)
         \/ OutsideRoute(statuses, from, to, r) /\ to \in Range(p)
         \/ \E g \in Gates(statuses) :
              /\ Near(statuses, g, to) /\ g \in Range(p) /\ to \in Range(p)
              /\ \E gate \in FromOutside(statuses[g]), hop \in FromInside(statuses[to]) :
                   r = <<gate, hop>>
  BY AlongPath
<1>2. /\ \A h \in DOMAIN statuses : h \in Hosts /\ h # Internet
      /\ \A h \in (Range(p) \ {Internet}) \union {from} : statuses[h] \in Statuses(h, real[h])
  BY DEF UpToDate, Machines
<1> DEFINE Now(h) == h \in DOMAIN statuses /\ statuses[h] \in Statuses(h, real[h])
<1>3. ASSUME NEW a, NEW b, Now(a), Now(b), Near(statuses, a, b)
      PROVE  real[a].net = real[b].net
  <2>1. statuses[a].external_ip.net = real[a].net
    BY <1>3 DEF Statuses, ExternalIps
  <2>2. statuses[b].external_ip.net = real[b].net
    BY <1>3 DEF Statuses, ExternalIps
  <2> QED BY <1>3, <2>1, <2>2 DEF Near, ShareNat
<1>10. Now(from) /\ (to \in Range(p) => Now(to))
  BY <1>1, <1>2
<1>11. commands[Len(commands)].ip \notin BridgeIps(to)
  OBVIOUS
<1>4. /\ DOMAIN commands = DOMAIN r
      /\ \A k \in DOMAIN r : /\ commands[k].ip = r[k].ip /\ commands[k].port = r[k].port
                             /\ commands[k].username = Or(r[k].default_username, d.username)
  BY DEF PathToArgs
\* A single hop.
<1>5. ASSUME NEW hop, r = <<hop>>, hop.default_username = DefaultUser[to],
             \A command : command.ip = hop.ip /\ command.port = hop.port
                            /\ command.ip \notin BridgeIps(to) =>
               Reached(from, command) = {to}
      PROVE  LeadsTo(from, commands, d)
  <2>1. DOMAIN r = {1} /\ r[1] = hop
    BY <1>5
  <2>2. commands = <<commands[1]>> /\ Len(commands) = 1 /\ DOMAIN commands = {1}
    <3>1. commands = [k \in 1 .. 1 |-> commands[k]]
      BY <1>5 DEF PathToArgs
    <3> HIDE DEF commands
    <3> QED BY <3>1
  <2>3. commands[1].ip = hop.ip /\ commands[1].port = hop.port
        /\ commands[1].username = Or(DefaultUser[to], d.username)
    BY <1>4, <1>5, <2>1
  <2> HIDE DEF commands
  <2>4. Reached(from, commands[1]) = {to}
    BY <1>5, <1>11, <2>2, <2>3
  <2>5. LoggedIn(from, commands, 1) = {to}
    BY <2>2, <2>4, LoggedInIs
  <2> QED BY <2>2, <2>3, <2>5 DEF LeadsTo
<1>6. CASE InsideRoute(statuses, from, to, r) /\ to \in Range(p)
  <2>1. PICK hop \in FromInside(statuses[to]) : r = <<hop>>
    BY <1>6 DEF InsideRoute
  <2>2. real[from].net = real[to].net
    BY <1>3, <1>6, <1>10 DEF InsideRoute
  <2>3. \A command : command.ip = hop.ip /\ command.port = hop.port
                      /\ command.ip \notin BridgeIps(to) => Reached(from, command) = {to}
    BY <1>1, <1>6, <1>10, <2>2, InsideLeads
  <2>4. hop.default_username = DefaultUser[to]
    BY <1>6, <1>10 DEF FromInside, Statuses
  <2> QED BY <1>5, <2>1, <2>3, <2>4
<1>7. CASE OutsideRoute(statuses, from, to, r) /\ to \in Range(p)
  <2>1. PICK hop \in FromOutside(statuses[to]) : r = <<hop>>
    BY <1>7 DEF OutsideRoute
  <2>2. statuses[to].ssh # NoPort
    BY <1>7 DEF OutsideRoute, Gates
  <2>3. \A command : command.ip = hop.ip /\ command.port = hop.port =>
          Reached(from, command) = {to} /\ hop.default_username = DefaultUser[to]
    BY <1>1, <1>7, <1>10, <2>2, OutsideLeads
  <2>4. hop.default_username = DefaultUser[to]
    BY <1>7, <1>10 DEF FromOutside, Statuses
  <2> QED BY <1>5, <2>1, <2>3, <2>4
<1>8. ASSUME NEW g \in Gates(statuses), Near(statuses, g, to), g \in Range(p), to \in Range(p),
             \E gate \in FromOutside(statuses[g]), hop \in FromInside(statuses[to]) :
               r = <<gate, hop>>
      PROVE  LeadsTo(from, commands, d)
  <2>2. PICK gate \in FromOutside(statuses[g]), hop \in FromInside(statuses[to]) : r = <<gate, hop>>
    BY <1>8
  <2>3. g \in DOMAIN statuses /\ g \in Hosts /\ statuses[g].ssh # NoPort
    BY <1>2 DEF Gates
  <2>1. Now(g) /\ Now(to)
    BY <1>2, <1>8, <1>10, <2>3
  <2>4. real[g].net = real[to].net
    BY <1>3, <1>8, <2>1
  <2>5. DOMAIN r = {1, 2} /\ r[1] = gate /\ r[2] = hop
    BY <2>2
  <2>6. Len(commands) = 2 /\ DOMAIN commands = {1, 2}
    <3>1. commands = [k \in 1 .. 2 |-> commands[k]]
      BY <2>2 DEF PathToArgs
    <3> HIDE DEF commands
    <3>2. commands = <<commands[1], commands[2]>>
      BY <3>1
    <3> QED BY <3>2
  <2>7. /\ commands[1].ip = gate.ip /\ commands[1].port = gate.port
        /\ commands[2].ip = hop.ip /\ commands[2].port = hop.port
        /\ commands[1].username = Or(gate.default_username, d.username)
        /\ commands[2].username = Or(hop.default_username, d.username)
    BY <1>4, <2>5
  <2> HIDE DEF commands
  <2>8. Reached(from, commands[1]) = {g} /\ gate.default_username = DefaultUser[g]
    BY <2>1, <2>3, <2>7, OutsideLeads
  <2>9. Reached(g, commands[2]) = {to} /\ hop.default_username = DefaultUser[to]
    <3>1. commands[2].ip \notin BridgeIps(to)
      BY <1>11, <2>6
    <3> QED BY <1>1, <2>1, <2>3, <2>4, <2>7, <3>1, InsideLeads
  <2>10. LoggedIn(from, commands, 1) = {g}
    BY <2>6, <2>8, LoggedInIs
  <2>11. LoggedIn(from, commands, 2) = {to}
    <3>1. LoggedIn(from, commands, 2) = Onward(Reached(from, commands[1]), commands[2])
      BY <2>6, LoggedInIs
    <3>2. Reached(from, commands[1]) = {g} /\ Reached(g, commands[2]) = {to}
      BY <2>8, <2>9
    <3>3. Onward({g}, commands[2]) = Reached(g, commands[2])
      BY DEF Onward
    <3> QED BY <3>1, <3>2, <3>3
  <2>12. ASSUME NEW k \in DOMAIN commands, NEW m \in LoggedIn(from, commands, k)
         PROVE  commands[k].username = Or(DefaultUser[m], d.username)
    <3>1. CASE k = 1
      <4>1. m = g
        BY <2>10, <2>12, <3>1
      <4> QED BY <2>7, <2>8, <3>1, <4>1
    <3>2. CASE k = 2
      <4>1. m = to
        BY <2>11, <2>12, <3>2
      <4> QED BY <2>7, <2>9, <3>2, <4>1
    <3> QED BY <2>6, <3>1, <3>2
  <2>13. LeadsTo(from, commands, d)
    BY <2>6, <2>11, <2>12 DEF LeadsTo
  <2> QED BY <2>13 DEF commands
<1> QED BY <1>1, <1>6, <1>7, <1>8

LEMMA SshLeads == Situated => RouteLeadsThere
<1> SUFFICES ASSUME Situated, AddressesDiffer,
                    NEW from \in Hosts, NEW own \in Statuses(from, real[from]), NEW d,
                    NEW path \in FindPath(FetchStatuses(from, own), from, d.hostname),
                    \A h \in Range(path) \ {Internet} : UpToDate(FetchStatuses(from, own), h),
                    NEW commands \in CommandsAlong(FetchStatuses(from, own), path, d.username),
                    commands[Len(commands)].ip \notin BridgeIps(d.hostname)
             PROVE  LeadsTo(from, commands, d)
  BY Zenon DEF RouteLeadsThere
<1> DEFINE statuses == FetchStatuses(from, own)
<1>1. PICK r \in RoutesAlong(statuses, path) : commands = PathToArgs(r, d.username)
  BY DEF CommandsAlong
<1>2. Machines(statuses) /\ DOMAIN statuses \subseteq Hosts
  BY FetchedMachines
<1>3. UpToDate(statuses, from)
  BY DEF UpToDate, FetchStatuses
<1> HIDE DEF statuses
<1>4. LeadsTo(from, PathToArgs(r, d.username), d)
  BY <1>1, <1>2, <1>3, RouteLeads DEF statuses
<1> QED BY <1>1, <1>4

\* On any networks, what `spark ssh` runs leads hop by hop to the machine asked for and to no
\* other, as the user announced or asked for, if the machines it passes are listed as they are
\* now and it does not end at the address of a bridge.
THEOREM RoutesLead == Spec => []RouteLeadsThere
<1>1. IInv => RouteLeadsThere
  BY SshLeads DEF IInv, TypeOK, Situated
<1> QED BY <1>1, InitIInv, NextIInv, PTL DEF Spec
=============================================================================
