-------------------------- MODULE ServientProofs --------------------------
(***************************************************************************)
(* Proofs about Servient, for every number of things and any sets of ids,  *)
(* slugs and servers: what the servers route to, and where forms lead.     *)
(***************************************************************************)
EXTENDS Servient, WellFoundedInduction, TLAPS

----------------------------------------------------------------------------
(* Numbers *)

\* A set of numbers that has 0 and, with k - 1, also k has all of 0..n.
LEMMA CountUp ==
    ASSUME NEW S, NEW n \in Nat, 0 \in S, \A k \in 1..n : k - 1 \in S => k \in S
    PROVE  \A k \in 0..n : k \in S
<1> DEFINE Missing == {k \in 0..n : k \notin S}
<1>1. Missing \subseteq Nat
  OBVIOUS
<1>2. ASSUME Missing # {} PROVE FALSE
  <2>1. IsWellFoundedOn(OpToRel(<, Nat), Nat)
    BY NatLessThanWellFounded
  <2>2. PICK m \in Missing : \A k \in Missing : ~(<<k, m>> \in OpToRel(<, Nat))
    BY <1>1, <1>2, <2>1, WFMin
  <2>3. \A k \in Missing : ~(k < m)
    BY <1>1, <2>2 DEF OpToRel
  <2>4. m \in 0..n /\ m # 0 /\ m \notin S
    BY <2>2
  <2>5. m \in 1..n /\ m - 1 \in 0..n /\ m - 1 < m
    BY <2>4
  <2>6. m - 1 \in S
    BY <2>3, <2>5
  <2>7. QED
    BY <2>4, <2>5, <2>6
<1>3. QED
  BY <1>2

----------------------------------------------------------------------------
(* Paths *)

\* The path that a thing gets is one of the two of its slug.
LEMMA UrlPathTyped ==
    ASSUME TypeOK, NEW k \in Produced, NEW table
    PROVE  UrlPath(k, table) \in Path /\ UrlPath(k, table) \in PathsOf(id[k])
<1>1. id[k] \in Ids
  BY DEF TypeOK, Produced
<1>2. UrlPath(k, table) \in PathsOf(id[k])
  BY DEF UrlPath, PathsOf
<1>3. QED
  BY <1>1, <1>2 DEF Path

\* The path leads to the thing then; nothing else changes.
LEMMA RouteLeads ==
    ASSUME TypeOK, NEW k \in Produced, NEW table \in [Path -> {None} \cup Produced]
    PROVE  /\ Route(k, table) \in [Path -> {None} \cup Produced]
           /\ Route(k, table)[UrlPath(k, table)] = k
           /\ \A p \in Path : p # UrlPath(k, table) => Route(k, table)[p] = table[p]
<1>1. UrlPath(k, table) \in Path
  BY UrlPathTyped
<1>2. QED
  BY <1>1 DEF Route

----------------------------------------------------------------------------
(* What addServer() does to the routes of the server *)

\* f has the tables of a server, one after the other, while it is given 1..n.
AreTables(f, s, given, n) ==
    f = [k \in 0..n |-> IF k = 0 THEN routes[s]
                        ELSE IF k \in given THEN Route(k, f[k - 1]) ELSE f[k - 1]]

LEMMA TablesExist ==
    ASSUME NEW s, NEW given, NEW n \in Nat
    PROVE  \E f : AreTables(f, s, given, n)
<1> DEFINE Next1(k, t) == IF k \in given THEN Route(k, t) ELSE t
           IsTable(f, m) == f = [k \in 0..m |-> IF k = 0 THEN routes[s] ELSE Next1(k, f[k - 1])]
           Has == {m \in Nat : \E f : IsTable(f, m)}
<1> HIDE DEF Next1
<1>1. 0 \in Has
  <2> DEFINE f == [k \in 0..0 |-> routes[s]]
  <2>1. IsTable(f, 0)
    OBVIOUS
  <2>2. QED
    BY <2>1
<1>2. ASSUME NEW m \in 1..n, m - 1 \in Has PROVE m \in Has
  <2>1. PICK f : IsTable(f, m - 1)
    BY <1>2
  <2> DEFINE g == [k \in 0..m |-> IF k = m THEN Next1(m, f[m - 1]) ELSE f[k]]
  <2>2. ASSUME NEW k \in 0..m
        PROVE  g[k] = IF k = 0 THEN routes[s] ELSE Next1(k, g[k - 1])
    <3>1. CASE k = 0
      <4>1. 0 \in 0..(m - 1) /\ 0 # m
        BY <1>2
      <4>2. f[0] = routes[s]
        BY <2>1, <4>1
      <4>3. QED
        BY <3>1, <4>1, <4>2
    <3>2. CASE k # 0
      <4>1. k - 1 \in 0..m /\ k - 1 # m /\ k - 1 \in 0..(m - 1)
        BY <1>2, <3>2
      <4>2. g[k - 1] = f[k - 1]
        BY <4>1
      <4>3. CASE k = m
        BY <4>2, <4>3, <3>2
      <4>4. CASE k # m
        <5>1. k \in 0..(m - 1)
          BY <1>2, <4>4
        <5>2. f[k] = Next1(k, f[k - 1])
          BY <2>1, <3>2, <5>1
        <5>3. QED
          BY <3>2, <4>2, <4>4, <5>2
      <4>5. QED
        BY <4>3, <4>4
    <3>3. QED
      BY <3>1, <3>2
  <2>3. IsTable(g, m)
    <3>1. g = [k \in 0..m |-> g[k]]
      OBVIOUS
    <3> HIDE DEF g
    <3>2. QED
      BY <2>2, <3>1
  <2> HIDE DEF g
  <2>4. QED
    BY <1>2, <2>3
<1>3. n \in Has
  <2> HIDE DEF Has
  <2>1. \A k \in 0..n : k \in Has
    BY <1>1, <1>2, CountUp
  <2>2. QED
    BY <2>1
<1>4. QED
  BY <1>3 DEF Next1, AreTables

\* Each table comes from the one before it.
LEMMA TablesSteps ==
    ASSUME TypeOK, NEW s, NEW given
    PROVE  /\ Tables(s, given)[0] = routes[s]
           /\ \A k \in 1..Len(id) :
                Tables(s, given)[k] = IF k \in given THEN Route(k, Tables(s, given)[k - 1])
                                                     ELSE Tables(s, given)[k - 1]
<1>1. Len(id) \in Nat
  BY DEF TypeOK
<1> DEFINE n == Len(id)
           t == Tables(s, given)
<1>2. t = CHOOSE f : AreTables(f, s, given, n)
  BY DEF Tables, AreTables
<1> HIDE DEF n, t
<1>3. n \in Nat
  BY <1>1 DEF n
<1>4. t = [k \in 0..n |-> IF k = 0 THEN routes[s]
                           ELSE IF k \in given THEN Route(k, t[k - 1]) ELSE t[k - 1]]
  <2>1. \E f : AreTables(f, s, given, n)
    BY <1>3, TablesExist
  <2>2. AreTables(t, s, given, n)
    BY <1>2, <2>1
  <2>3. QED
    BY <2>2 DEF AreTables
<1>5. t[0] = routes[s]
  BY <1>3, <1>4
<1>6. ASSUME NEW k \in 1..n
      PROVE  t[k] = IF k \in given THEN Route(k, t[k - 1]) ELSE t[k - 1]
  <2>1. k \in 0..n /\ k # 0
    BY <1>3
  <2>2. QED
    BY <1>4, <2>1
<1>7. QED
  BY <1>5, <1>6 DEF n, t

\* Each of them has the type of a routing table.
LEMMA TablesTyped ==
    ASSUME TypeOK, NEW s \in Server, NEW given \in SUBSET Produced
    PROVE  \A k \in 0..Len(id) : Tables(s, given)[k] \in [Path -> {None} \cup Produced]
<1> DEFINE n == Len(id)
           t == Tables(s, given)
           S == {k \in 0..n : t[k] \in [Path -> {None} \cup Produced]}
<1>1. n \in Nat /\ 0 \in 0..n
  BY DEF TypeOK
<1>2. /\ t[0] = routes[s]
      /\ \A k \in 1..n : t[k] = IF k \in given THEN Route(k, t[k - 1]) ELSE t[k - 1]
  BY TablesSteps
<1> HIDE DEF n, t
<1>3. 0 \in S
  BY <1>1, <1>2 DEF TypeOK
<1>4. ASSUME NEW k \in 1..n, k - 1 \in S PROVE k \in S
  <2>1. k \in 0..n /\ t[k - 1] \in [Path -> {None} \cup Produced]
    BY <1>1, <1>4
  <2>2. CASE k \in given
    BY <1>2, <2>1, <2>2, RouteLeads
  <2>3. CASE k \notin given
    BY <1>2, <2>1, <2>3
  <2>4. QED
    BY <2>2, <2>3
<1>5. \A k \in 0..n : k \in S
  <2> HIDE DEF S
  <2>1. QED
    BY <1>1, <1>3, <1>4, CountUp
<1>6. QED
  BY <1>5 DEF n, t

\* Nothing but the things given is routed to, by paths of theirs.
LEMMA TablesGiven ==
    ASSUME TypeOK, NEW s \in Server, NEW given \in SUBSET Produced,
           \A p \in Path : routes[s][p] = None
    PROVE  \A k \in 0..Len(id) : \A p \in Path :
             LET j == Tables(s, given)[k][p]
             IN  j # None => j \in given /\ p \in PathsOf(id[j])
<1> DEFINE n == Len(id)
           t == Tables(s, given)
           Holds(j, p) == j # None => j \in given /\ p \in PathsOf(id[j])
           S == {k \in 0..n : \A p \in Path : Holds(t[k][p], p)}
<1>1. n \in Nat /\ 0 \in 0..n
  BY DEF TypeOK
<1>2. /\ t[0] = routes[s]
      /\ \A k \in 1..n : t[k] = IF k \in given THEN Route(k, t[k - 1]) ELSE t[k - 1]
  BY TablesSteps
<1>3. \A k \in 0..n : t[k] \in [Path -> {None} \cup Produced]
  BY TablesTyped
<1> HIDE DEF n, t
<1>4. 0 \in S
  BY <1>1, <1>2
<1>5. ASSUME NEW k \in 1..n, k - 1 \in S PROVE k \in S
  <2> DEFINE b == t[k - 1]
  <2>1. k \in 0..n /\ k - 1 \in 0..n
    BY <1>1, <1>5
  <2>2. b \in [Path -> {None} \cup Produced] /\ \A p \in Path : Holds(b[p], p)
    BY <1>3, <1>5, <2>1
  <2> HIDE DEF b
  <2>3. ASSUME k \in given, NEW p \in Path PROVE Holds(t[k][p], p)
    <3>1. t[k] = Route(k, b) /\ k \in Produced
      BY <1>2, <2>3 DEF b
    <3>2. CASE p = UrlPath(k, b)
      <4>1. t[k][p] = k /\ p \in PathsOf(id[k])
        BY <2>2, <3>1, <3>2, RouteLeads, UrlPathTyped
      <4>2. QED
        BY <2>3, <4>1
    <3>3. CASE p # UrlPath(k, b)
      BY <2>2, <3>1, <3>3, RouteLeads
    <3>4. QED
      BY <3>2, <3>3
  <2>4. ASSUME k \notin given, NEW p \in Path PROVE Holds(t[k][p], p)
    BY <1>2, <2>2, <2>4 DEF b
  <2>5. QED
    BY <2>1, <2>3, <2>4
<1>6. \A k \in 0..n : k \in S
  <2> HIDE DEF S
  <2>1. QED
    BY <1>1, <1>4, <1>5, CountUp
<1>7. QED
  BY <1>6 DEF n, t

\* No two of the things have a path in common.
Apart(given) ==
    \A j, k \in given : j # k => PathsOf(id[j]) \cap PathsOf(id[k]) = {}

\* When no two of them have a path in common, the path that a thing was given
\* leads to it until the end.
LEMMA TablesLead ==
    ASSUME TypeOK, NEW s \in Server, NEW given \in SUBSET Produced,
           Apart(given)
    PROVE  \A k \in given :
             Tables(s, given)[Len(id)][UrlPath(k, Tables(s, given)[k - 1])] = k
<1> DEFINE n == Len(id)
           t == Tables(s, given)
           P(k) == UrlPath(k, t[k - 1])
           S == {m \in 0..n : \A k \in given : k <= m => t[m][P(k)] = k}
<1>1. n \in Nat /\ 0 \in 0..n /\ n \in 0..n /\ given \subseteq 1..n /\ Produced = 1..n
  BY DEF TypeOK, Produced
<1>2. \A k \in 1..n : t[k] = IF k \in given THEN Route(k, t[k - 1]) ELSE t[k - 1]
  BY TablesSteps
<1>3. \A k \in 0..n : t[k] \in [Path -> {None} \cup Produced]
  BY TablesTyped
<1> HIDE DEF n, t
<1>4. \A k \in given : P(k) \in Path /\ P(k) \in PathsOf(id[k])
  BY UrlPathTyped
<1>5. 0 \in S
  BY <1>1
<1>6. ASSUME NEW m \in 1..n, m - 1 \in S PROVE m \in S
  <2> DEFINE b == t[m - 1]
  <2>1. m \in 0..n /\ m - 1 \in 0..n /\ m \in Produced
    BY <1>1, <1>6
  <2>2. b \in [Path -> {None} \cup Produced]
    BY <1>3, <2>1
  <2>3. ASSUME NEW k \in given, k <= m PROVE t[m][P(k)] = k
    <3>1. CASE k = m
      <4>1. t[m] = Route(m, b) /\ P(k) = UrlPath(m, b)
        BY <1>2, <2>3, <3>1
      <4> HIDE DEF b, P
      <4>2. Route(m, b)[UrlPath(m, b)] = m
        BY <2>1, <2>2, RouteLeads
      <4>3. QED
        BY <3>1, <4>1, <4>2
    <3>2. CASE k # m
      <4>1. k <= m - 1
        BY <1>1, <2>1, <2>3, <3>2
      <4>2. b[P(k)] = k
        BY <1>6, <2>3, <4>1
      <4>3. CASE m \in given
        <5>1. t[m] = Route(m, b)
          BY <1>2, <4>3
        <5> HIDE DEF b, P
        <5>2. UrlPath(m, b) \in PathsOf(id[m])
          BY <2>1, UrlPathTyped
        <5>3. P(k) # UrlPath(m, b)
          BY <1>4, <2>3, <3>2, <4>3, <5>2 DEF Apart
        <5>4. Route(m, b)[P(k)] = b[P(k)]
          BY <1>4, <2>1, <2>2, <2>3, <5>3, RouteLeads
        <5>5. QED
          BY <4>2, <5>1, <5>4
      <4>4. CASE m \notin given
        BY <1>2, <4>2, <4>4
      <4>5. QED
        BY <4>3, <4>4
    <3>3. QED
      BY <3>1, <3>2
  <2>4. QED
    BY <2>1, <2>3
<1>7. \A k \in 0..n : k \in S
  <2> HIDE DEF S
  <2>1. QED
    BY <1>1, <1>5, <1>6, CountUp
<1>8. ASSUME NEW k \in given PROVE t[n][P(k)] = k
  <2>1. n \in S /\ k <= n
    BY <1>1, <1>7
  <2>2. QED
    BY <2>1
<1>9. QED
  BY <1>8 DEF n, t

----------------------------------------------------------------------------
(* The types *)

\* A thing that is produced gets the next number; the others keep their ids.
LEMMA ProduceNumbers ==
    ASSUME TypeOK, NEW i \in Ids, Produce(i)
    PROVE  /\ id' \in Seq(Ids)
           /\ Produced' = Produced \cup {Len(id) + 1} /\ Len(id) + 1 \notin Produced
           /\ Len(id') = Len(id) + 1 /\ id'[Len(id) + 1] = i
           /\ \A k \in Produced : id'[k] = id[k]
<1> DEFINE t == id
<1>1. t \in Seq(Ids) /\ id' = Append(t, i)
  BY DEF TypeOK, Produce
<1> HIDE DEF t
<1>2. /\ Append(t, i) \in Seq(Ids)
      /\ Len(Append(t, i)) = Len(t) + 1 /\ Append(t, i)[Len(t) + 1] = i
      /\ \A k \in 1..Len(t) : Append(t, i)[k] = t[k]
      /\ DOMAIN t = 1..Len(t) /\ DOMAIN Append(t, i) = 1..(Len(t) + 1)
      /\ Len(t) \in Nat
  BY <1>1
<1>3. 1..(Len(t) + 1) = 1..Len(t) \cup {Len(t) + 1} /\ Len(t) + 1 \notin 1..Len(t)
  BY <1>2
<1>4. id = t
  BY DEF t
<1>5. QED
  BY <1>1, <1>2, <1>3, <1>4 DEF Produced

\* The routes that HttpServer.expose() and HttpServer.destroy() leave.
LEMMA UnrouteTyped ==
    ASSUME TypeOK, NEW i, NEW s \in Server
    PROVE  Unroute(i, routes[s]) \in [Path -> {None} \cup Produced]
  BY DEF TypeOK, Unroute

LEMMA DestroyTyped == ASSUME TypeOK, NEW k \in Produced, Destroy(k) PROVE TypeOK'
<1>1. /\ id' = id /\ initialized' = initialized /\ exposed' = exposed
      /\ completed' = completed /\ servers' = servers /\ listening' = listening
      /\ forms' = forms /\ Produced' = Produced
      /\ destroying' = destroying \cup {k}
  BY DEF Destroy, serverVars, Produced
<1>2. /\ things' \in [Ids -> {None} \cup Produced]
      /\ \A i \in Ids : things'[i] # None => id[things'[i]] = i /\ things'[i] \notin Gone'
  <2>1. things' = [things EXCEPT ![id[k]] = None] /\ Gone' = Gone \cup {k}
    BY <1>1 DEF Destroy, Gone
  <2>2. QED
    BY <2>1 DEF TypeOK, Produced
<1>3. routes' \in [Server -> [Path -> {None} \cup Produced]]
  <2>1. \A s \in Server : /\ routes[s] \in [Path -> {None} \cup Produced]
                          /\ Unroute(id[k], routes[s]) \in [Path -> {None} \cup Produced]
    BY UnrouteTyped DEF TypeOK
  <2>2. QED
    BY <2>1 DEF Destroy
<1>4. QED
  BY <1>1, <1>2, <1>3 DEF TypeOK

LEMMA ExposeTyped == ASSUME TypeOK, NEW k \in Produced, Expose(k) PROVE TypeOK'
<1>1. /\ id' = id /\ things' = things /\ destroying' = destroying /\ completed' = completed
      /\ servers' = servers /\ listening' = listening
      /\ exposed' = exposed \cup {k} /\ initialized' \subseteq initialized \cup {k}
      /\ Produced' = Produced
  BY DEF Expose, serverVars, Produced
<1>2. CASE servers = {}
  BY <1>1, <1>2 DEF TypeOK, Expose, Gone
<1>3. CASE servers # {}
  <2>1. PICK up \in SUBSET servers :
          /\ forms' = [forms EXCEPT ![k] = {Endpoint(s, k, routes[s]) : s \in up}]
          /\ routes' = [s \in Server |-> IF s \in up THEN Route(k, routes[s]) ELSE routes[s]]
    BY <1>3 DEF Expose, Reached
  <2>2. \A s \in Server : /\ routes[s] \in [Path -> {None} \cup Produced]
                          /\ Route(k, routes[s]) \in [Path -> {None} \cup Produced]
    BY RouteLeads DEF TypeOK
  <2>3. routes' \in [Server -> [Path -> {None} \cup Produced]]
    BY <2>1, <2>2
  <2>4. {Endpoint(s, k, routes[s]) : s \in up} \in SUBSET (Server \X Path)
    BY UrlPathTyped DEF Endpoint, TypeOK
  <2>5. forms' \in [Thing -> SUBSET (Server \X Path)]
    BY <2>1, <2>4 DEF TypeOK
  <2>6. QED
    BY <1>1, <2>3, <2>5 DEF TypeOK, Gone
<1>4. QED
  BY <1>2, <1>3

\* What addServer() gives to a server are registered things, which have all
\* the forms arrays when the server is added.
LEMMA AddServerCases ==
    ASSUME TypeOK, NEW s \in Server, AddServer(s)
    PROVE  \E given \in SUBSET {k \in Produced : Registered(k)} :
             LET table == Tables(s, given)
             IN  /\ s \notin servers /\ \A p \in Path : routes[s][p] = None
                 /\ routes' = [routes EXCEPT ![s] = table[Len(id)]]
                 /\ forms' = [k \in Thing |->
                                IF k \in given THEN forms[k] \cup {Endpoint(s, k, table[k - 1])}
                                               ELSE forms[k]]
                 /\ servers' \in {servers, servers \cup {s}}
                 /\ UNCHANGED <<thingVars, listening>>
<1>1. PICK given \in SUBSET Given :
        /\ GivenBy(s, given)
        /\ servers' \in {servers, servers \cup {s}}
  <2> DEFINE all == IF s \in listening THEN Given ELSE {}
  <2>1. CASE GivenBy(s, all) /\ servers' = IF all \subseteq initialized THEN servers \cup {s} ELSE servers
    BY <2>1
  <2>2. CASE (\E last \in all : GivenBy(s, {k \in all : k <= last})) /\ UNCHANGED servers
    BY <2>2
  <2>3. QED
    BY <2>1, <2>2 DEF AddServer
<1>2. given \in SUBSET {k \in Produced : Registered(k)}
  BY DEF Given
<1>3. s \notin servers /\ \A p \in Path : routes[s][p] = None
  BY DEF AddServer, Spoiled
<1>4. UNCHANGED <<thingVars, listening>>
  BY DEF AddServer
<1>5. QED
  BY <1>1, <1>2, <1>3, <1>4 DEF GivenBy

LEMMA AddServerTyped == ASSUME TypeOK, NEW s \in Server, AddServer(s) PROVE TypeOK'
<1>1. PICK given \in SUBSET {k \in Produced : Registered(k)} :
        /\ routes' = [routes EXCEPT ![s] = Tables(s, given)[Len(id)]]
        /\ forms' = [k \in Thing |->
                       IF k \in given THEN forms[k] \cup {Endpoint(s, k, Tables(s, given)[k - 1])}
                                      ELSE forms[k]]
        /\ servers' \in {servers, servers \cup {s}}
        /\ UNCHANGED <<thingVars, listening>>
  BY AddServerCases
<1>2. given \in SUBSET Produced
  OBVIOUS
<1>3. Len(id) \in 0..Len(id)
  BY DEF TypeOK
<1>4. routes' \in [Server -> [Path -> {None} \cup Produced]]
  <2>1. Tables(s, given)[Len(id)] \in [Path -> {None} \cup Produced]
    BY <1>2, <1>3, TablesTyped
  <2>2. QED
    BY <1>1, <2>1 DEF TypeOK
<1>5. forms' \in [Thing -> SUBSET (Server \X Path)]
  <2>1. \A k \in given : Endpoint(s, k, Tables(s, given)[k - 1]) \in Server \X Path
    BY <1>2, UrlPathTyped DEF Endpoint
  <2>2. QED
    BY <1>1, <2>1 DEF TypeOK
<1>6. Produced' = Produced
  BY <1>1 DEF Produced, thingVars
<1>7. QED
  BY <1>1, <1>4, <1>5, <1>6 DEF TypeOK, thingVars, Gone

LEMMA TypeStep == TypeOK /\ [Next]_vars => TypeOK'
<1> SUFFICES ASSUME TypeOK, [Next]_vars PROVE TypeOK'
  OBVIOUS
<1>1. ASSUME NEW i \in Ids, Produce(i) PROVE TypeOK'
  <2> DEFINE k == Len(id) + 1
  <2>1. /\ id' \in Seq(Ids) /\ Produced' = Produced \cup {k} /\ k \notin Produced
        /\ Len(id') = k /\ id'[k] = i /\ \A j \in Produced : id'[j] = id[j]
    BY <1>1, ProduceNumbers
  <2>2. k <= MaxThings
    BY <1>1, ThingsAssumption DEF Produce, Thing
  <2>3. /\ things' = [things EXCEPT ![i] = k] /\ initialized' \subseteq initialized \cup {k}
        /\ UNCHANGED <<exposed, destroying, completed, serverVars, routes, forms>>
    BY <1>1 DEF Produce
  <2> HIDE DEF k
  <2>4. /\ things' \in [Ids -> {None} \cup Produced']
        /\ \A j \in Ids : things'[j] # None => id'[things'[j]] = j /\ things'[j] \notin Gone'
    <3>1. Gone' = Gone /\ Gone \subseteq Produced
      BY <2>3 DEF Gone, TypeOK
    <3>2. QED
      BY <2>1, <2>3, <3>1 DEF TypeOK
  <2>5. routes' \in [Server -> [Path -> {None} \cup Produced']]
    <3>1. \A s \in Server : routes[s] \in [Path -> {None} \cup Produced']
      BY <2>1 DEF TypeOK
    <3>2. routes' = routes /\ routes = [s \in Server |-> routes[s]]
      BY <2>3 DEF TypeOK
    <3>3. QED
      BY <3>1, <3>2
  <2>6. QED
    BY <2>1, <2>2, <2>3, <2>4, <2>5 DEF TypeOK, serverVars
<1>2. ASSUME NEW k \in Produced, Expose(k) PROVE TypeOK'
  BY <1>2, ExposeTyped
<1>3. ASSUME NEW k \in Produced, Destroy(k) PROVE TypeOK'
  BY <1>3, DestroyTyped
<1>4. ASSUME NEW k \in Thing, Destroyed(k) PROVE TypeOK'
  BY <1>4 DEF Destroyed, serverVars, TypeOK, Produced, Gone
<1>5. ASSUME NEW s \in Server, AddServer(s) PROVE TypeOK'
  BY <1>5, AddServerTyped
<1>6. ASSUME NEW s \in Server, Started(s) PROVE TypeOK'
  BY <1>6 DEF Started, thingVars, TypeOK, Produced, Gone
<1>7. CASE Shutdown
  BY <1>7 DEF Shutdown, thingVars, TypeOK, Produced, Gone
<1>8. CASE UNCHANGED vars
  BY <1>8 DEF vars, thingVars, serverVars, TypeOK, Produced, Gone
<1>9. QED
  BY <1>1, <1>2, <1>3, <1>4, <1>5, <1>6, <1>7, <1>8 DEF Next

LEMMA TypeInit == Init => TypeOK
<1> SUFFICES ASSUME Init PROVE TypeOK
  OBVIOUS
<1>1. id \in Seq(Ids) /\ Len(id) <= MaxThings
  BY ThingsAssumption DEF Init
<1>2. routes \in [Server -> [Path -> {None} \cup Produced]]
  BY DEF Init
<1>3. QED
  BY <1>1, <1>2 DEF Init, TypeOK

\* A servient with its things and servers always has the types of its
\* declarations (servient.ts:27-30, http-server.ts:46-60).
THEOREM TypeCorrect == Spec => []TypeOK
<1>1. Init => TypeOK
  BY TypeInit
<1>2. TypeOK /\ [Next]_vars => TypeOK'
  BY TypeStep
<1>3. QED
  BY <1>1, <1>2, PTL DEF Spec

----------------------------------------------------------------------------
(* What is routed to is registered                                         *)

\* A thing that is not destroyed is registered; that expose() asks for the
\* first is why it never routes to a thing that is not the second.
Alive == \A k \in Produced : k \in Gone \/ Registered(k)

Routed == TypeOK /\ Alive /\ RoutesRegistered

\* Producing a thing registers it in a place that was free.
LEMMA ProduceKeeps ==
    ASSUME TypeOK, NEW i \in Ids, Produce(i)
    PROVE  /\ \A k \in Produced : Registered(k) => Registered(k)'
           /\ \A k \in Produced : Registered(k)' => Registered(k)
           /\ \A k : k = Len(id) + 1 => Registered(k)'
<1>0. PICK n : n = Len(id) + 1
  OBVIOUS
<1>1. n \notin Produced /\ id'[n] = i /\ \A k \in Produced : id'[k] = id[k] /\ id[k] \in Ids
  BY <1>0, ProduceNumbers DEF TypeOK, Produced
<1>2. things' = [things EXCEPT ![i] = n] /\ things[i] = None /\ None \notin Produced
  BY <1>0 DEF Produce, None, Produced, TypeOK
<1>3. things \in [Ids -> {None} \cup Produced]
  BY DEF TypeOK
<1>4. Registered(n)'
  BY <1>1, <1>2, <1>3 DEF Registered
<1>5. \A k \in Produced : Registered(k)' <=> Registered(k)
  BY <1>1, <1>2, <1>3 DEF Registered
<1>6. QED
  BY <1>0, <1>4, <1>5

\* Destroying a thing unregisters it, and things with other ids stay.
LEMMA DestroyKeeps ==
    ASSUME TypeOK, NEW k \in Produced, Destroy(k)
    PROVE  /\ ~Registered(k)' /\ id' = id
           /\ \A j \in Produced : /\ Registered(j)' => Registered(j) /\ id[j] # id[k]
                                  /\ Registered(j) /\ id[j] # id[k] => Registered(j)'
<1>1. /\ id' = id /\ things' = [things EXCEPT ![id[k]] = None]
      /\ things \in [Ids -> {None} \cup Produced] /\ None \notin Produced
      /\ \A j \in Produced : id[j] \in Ids
  BY DEF Destroy, TypeOK, None, Produced
<1>2. QED
  BY <1>1 DEF Registered

LEMMA RoutedStep == Routed /\ [Next]_vars => Routed'
<1> SUFFICES ASSUME Routed, [Next]_vars PROVE Routed'
  OBVIOUS
<1>0. TypeOK /\ TypeOK' /\ Alive /\ RoutesRegistered
  BY TypeStep DEF Routed
<1>t. \A s \in Server : /\ routes[s] \in [Path -> {None} \cup Produced]
                        /\ routes'[s] \in [Path -> {None} \cup Produced']
  BY <1>0 DEF TypeOK
<1>s. servers \subseteq Server
  BY <1>0 DEF TypeOK
<1>1. ASSUME NEW i \in Ids, Produce(i) PROVE Alive' /\ RoutesRegistered'
  <2>1. /\ Produced' = Produced \cup {Len(id) + 1} /\ Gone' = Gone
        /\ routes' = routes /\ servers' = servers
    BY <1>0, <1>1, ProduceNumbers DEF Produce, Gone, serverVars
  <2>2. /\ \A k \in Produced : Registered(k) => Registered(k)'
        /\ \A k : k = Len(id) + 1 => Registered(k)'
    BY <1>0, <1>1, ProduceKeeps
  <2>3. Alive'
    <3>1. \A k \in Produced' : k \in Gone' \/ Registered(k)'
      BY <1>0, <2>1, <2>2 DEF Alive
    <3>2. QED
      BY <3>1 DEF Alive
  <2>4. RoutesRegistered'
    BY <1>0, <1>t, <1>s, <2>1, <2>2 DEF RoutesRegistered
  <2>5. QED
    BY <2>3, <2>4
<1>2. ASSUME NEW k \in Produced, Expose(k) PROVE Alive' /\ RoutesRegistered'
  <2>1. /\ UNCHANGED <<id, destroying, completed, things, servers>> /\ k \notin Gone
    BY <1>2 DEF Expose, serverVars
  <2>2. Registered(k) /\ Alive'
    BY <1>0, <2>1 DEF Alive, Registered, Produced, Gone
  <2>3. \A s \in Server : routes'[s] = routes[s] \/ routes'[s] = Route(k, routes[s])
    BY <1>2 DEF Expose
  <2>4. \A s \in servers : \A p \in Path : routes'[s][p] \in {routes[s][p], k}
    BY <1>0, <1>t, <1>s, <2>3, RouteLeads
  <2>5. QED
    BY <1>0, <2>1, <2>2, <2>4 DEF RoutesRegistered, Registered
<1>3. ASSUME NEW k \in Produced, Destroy(k) PROVE Alive' /\ RoutesRegistered'
  <2>1. /\ ~Registered(k)' /\ id' = id /\ servers' = servers /\ Gone' = Gone \cup {k}
        /\ Produced' = Produced
        /\ \A j \in Produced : Registered(j) /\ id[j] # id[k] => Registered(j)'
    BY <1>0, <1>3, DestroyKeeps DEF Destroy, Gone, serverVars, Produced
  <2>2. Alive'
    <3>1. ASSUME NEW j \in Produced, j \notin Gone, j # k PROVE Registered(j)'
      <4>1. Registered(j) /\ Registered(k)
        BY <1>0, <1>3, <3>1 DEF Alive, Destroy
      <4>2. id[j] # id[k]
        BY <3>1, <4>1 DEF Registered
      <4>3. QED
        BY <2>1, <4>1, <4>2
    <3>2. QED
      BY <2>1, <3>1 DEF Alive
  <2>3. \A s \in servers : routes'[s] = Unroute(id[k], routes[s])
    BY <1>3, <1>s DEF Destroy
  <2>4. ASSUME NEW s \in servers, NEW p \in Path, routes'[s][p] # None
        PROVE  things'[id'[routes'[s][p]]] = routes'[s][p]
    <3>0. PICK j : j = routes[s][p]
      OBVIOUS
    <3>1. routes'[s][p] = j /\ id[j] # id[k]
      <4>1. Unroute(id[k], routes[s])[p] = IF j # None /\ id[j] = id[k] THEN None ELSE j
        BY <3>0 DEF Unroute
      <4>2. QED
        BY <2>3, <2>4, <4>1
    <3>2. j \in Produced /\ Registered(j)
      BY <1>0, <1>s, <1>t, <2>4, <3>0, <3>1 DEF RoutesRegistered
    <3>3. Registered(j)'
      BY <2>1, <3>1, <3>2
    <3>4. QED
      BY <3>1, <3>3 DEF Registered
  <2>5. QED
    BY <2>1, <2>2, <2>4 DEF RoutesRegistered, Registered
<1>4. ASSUME NEW k \in Thing, Destroyed(k) PROVE Alive' /\ RoutesRegistered'
  BY <1>0, <1>4 DEF Destroyed, serverVars, Alive, RoutesRegistered, Registered, Produced, Gone
<1>5. ASSUME NEW s \in Server, AddServer(s) PROVE Alive' /\ RoutesRegistered'
  <2>1. PICK given \in SUBSET {k \in Produced : Registered(k)} :
          /\ s \notin servers /\ \A p \in Path : routes[s][p] = None
          /\ routes' = [routes EXCEPT ![s] = Tables(s, given)[Len(id)]]
          /\ servers' \in {servers, servers \cup {s}}
          /\ UNCHANGED <<thingVars, listening>>
    BY <1>0, <1>5, AddServerCases
  <2>2. Alive' /\ \A k : Registered(k)' <=> Registered(k)
    BY <1>0, <2>1 DEF Alive, Registered, Produced, Gone, thingVars
  <2>3. ASSUME NEW p \in Path, routes'[s][p] # None PROVE Registered(routes'[s][p])
    <3>1. routes'[s] = Tables(s, given)[Len(id)]
      BY <1>0, <2>1 DEF TypeOK
    <3>2. Len(id) \in 0..Len(id) /\ given \in SUBSET Produced
      BY <1>0 DEF TypeOK
    <3>3. routes'[s][p] \in given
      BY <1>0, <2>1, <2>3, <3>1, <3>2, TablesGiven
    <3>4. QED
      BY <3>3
  <2>4. \A r \in servers : routes'[r] = routes[r]
    BY <1>0, <1>s, <2>1 DEF TypeOK
  <2>5. RoutesRegistered'
    BY <1>0, <2>1, <2>2, <2>3, <2>4 DEF RoutesRegistered
  <2>6. QED
    BY <2>2, <2>5
<1>6. ASSUME (\E s \in Server : Started(s)) \/ Shutdown \/ UNCHANGED vars
      PROVE  Alive' /\ RoutesRegistered'
  <2>1. UNCHANGED <<thingVars, servers, routes>>
    BY <1>6 DEF Started, Shutdown, vars, serverVars
  <2>2. UNCHANGED <<id, destroying, completed, things, servers, routes>>
    BY <2>1 DEF thingVars
  <2>3. Alive'
    BY <1>0, <2>2 DEF Alive, Registered, Produced, Gone
  <2>4. RoutesRegistered'
    BY <1>0, <2>2 DEF RoutesRegistered, Registered
  <2>5. QED
    BY <2>3, <2>4
<1>7. Alive' /\ RoutesRegistered'
  BY <1>1, <1>2, <1>3, <1>4, <1>5, <1>6 DEF Next
<1>8. QED
  BY <1>0, <1>7 DEF Routed

\* What a server of the servient routes requests to is registered, whatever
\* the order of produce(), expose(), addServer() and destroy(), and also when
\* addServer() threw (http-server.ts:244-262, servient.ts:163-176).
THEOREM RoutesTheorem == Spec => []RoutesRegistered
<1>1. Init => Routed
  <2>1. ASSUME Init PROVE Alive /\ RoutesRegistered
    BY <2>1 DEF Init, Alive, RoutesRegistered, Produced
  <2>2. QED
    BY <2>1, TypeInit DEF Routed
<1>2. Routed /\ [Next]_vars => Routed'
  BY RoutedStep
<1>3. Routed => RoutesRegistered
  BY DEF Routed
<1>4. QED
  BY <1>1, <1>2, <1>3, PTL DEF Spec

----------------------------------------------------------------------------
(* Where the forms lead                                                    *)

\* Every path is one of the thing it leads to.
Titled ==
    \A s \in Server : \A p \in Path :
        routes[s][p] # None => p \in PathsOf(id[routes[s][p]])

\* The form of a registered thing leads to it whether its server listens or
\* not: shutdown() keeps the routes, and the server may be started again.
Lead ==
    \A k \in Produced : \A f \in forms[k] : Registered(k) => routes[f[1]][f[2]] = k

Fresh == \A k \in Thing \ Produced : forms[k] = {}

Leading == Routed /\ Titled /\ Lead /\ Fresh

\* No title has a slug that another one has or is renamed to.
OwnPathsOnly == \A i, j \in Ids : i # j => PathsOf(i) \cap PathsOf(j) = {}

LEMMA TitledStep == Leading /\ [Next]_vars => Titled'
<1> SUFFICES ASSUME Leading, [Next]_vars PROVE Titled'
  OBVIOUS
<1>0. TypeOK /\ Titled
  BY DEF Leading, Routed
<1>t. \A s \in Server : routes[s] \in [Path -> {None} \cup Produced]
  BY <1>0 DEF TypeOK
<1>1. ASSUME NEW i \in Ids, Produce(i) PROVE Titled'
  <2>1. routes' = routes /\ \A k \in Produced : id'[k] = id[k]
    BY <1>0, <1>1, ProduceNumbers DEF Produce
  <2>2. QED
    BY <1>0, <1>t, <2>1 DEF Titled
<1>2. ASSUME NEW k \in Produced, Expose(k) PROVE Titled'
  <2>1. \A s \in Server : routes'[s] = routes[s] \/ routes'[s] = Route(k, routes[s])
    BY <1>2 DEF Expose
  <2>2. \A s \in Server : \A p \in Path :
          routes'[s][p] = routes[s][p] \/ (routes'[s][p] = k /\ p \in PathsOf(id[k]))
    BY <1>0, <1>t, <2>1, RouteLeads, UrlPathTyped
  <2>3. id' = id
    BY <1>2 DEF Expose
  <2>4. QED
    BY <1>0, <2>2, <2>3 DEF Titled
<1>3. ASSUME NEW k \in Produced, Destroy(k) PROVE Titled'
  <2>1. \A s \in Server : \A p \in Path : routes'[s][p] \in {routes[s][p], None}
    BY <1>t, <1>3 DEF Destroy, Unroute
  <2>2. id' = id
    BY <1>3 DEF Destroy
  <2>3. QED
    BY <1>0, <2>1, <2>2 DEF Titled
<1>4. ASSUME NEW s \in Server, AddServer(s) PROVE Titled'
  <2>1. PICK given \in SUBSET {k \in Produced : Registered(k)} :
          /\ \A p \in Path : routes[s][p] = None
          /\ routes' = [routes EXCEPT ![s] = Tables(s, given)[Len(id)]]
          /\ UNCHANGED <<thingVars, listening>>
    BY <1>0, <1>4, AddServerCases
  <2>2. Len(id) \in 0..Len(id) /\ given \in SUBSET Produced
    BY <1>0 DEF TypeOK
  <2>3. /\ routes'[s] = Tables(s, given)[Len(id)]
        /\ \A r \in Server : r # s => routes'[r] = routes[r]
    BY <1>0, <2>1 DEF TypeOK
  <2>4. \A p \in Path : routes'[s][p] # None => p \in PathsOf(id[routes'[s][p]])
    BY <1>0, <2>1, <2>2, <2>3, TablesGiven
  <2>5. id' = id
    BY <2>1 DEF thingVars
  <2>6. QED
    BY <1>0, <2>3, <2>4, <2>5 DEF Titled
<1>5. CASE UNCHANGED <<id, routes>>
  BY <1>0, <1>5 DEF Titled
<1>6. QED
  BY <1>1, <1>2, <1>3, <1>4, <1>5
     DEF Next, Destroyed, Started, Shutdown, vars, serverVars, thingVars

LEMMA FreshStep == Leading /\ [Next]_vars => Fresh'
<1> SUFFICES ASSUME Leading, [Next]_vars PROVE Fresh'
  OBVIOUS
<1>0. TypeOK /\ Fresh
  BY DEF Leading, Routed
<1>1. ASSUME NEW i \in Ids, Produce(i) PROVE Fresh'
  <2>1. forms' = forms /\ Produced \subseteq Produced'
    BY <1>0, <1>1, ProduceNumbers DEF Produce
  <2>2. QED
    BY <1>0, <2>1 DEF Fresh
<1>2. ASSUME NEW k \in Produced, Expose(k) PROVE Fresh'
  <2>1. Produced' = Produced /\ \A j \in Thing : j # k => forms'[j] = forms[j]
    BY <1>0, <1>2 DEF Expose, Produced, TypeOK
  <2>2. QED
    BY <1>0, <1>2, <2>1 DEF Fresh
<1>3. ASSUME NEW s \in Server, AddServer(s) PROVE Fresh'
  <2>1. PICK given \in SUBSET {k \in Produced : Registered(k)} :
          /\ forms' = [k \in Thing |->
                         IF k \in given THEN forms[k] \cup {Endpoint(s, k, Tables(s, given)[k - 1])}
                                        ELSE forms[k]]
          /\ UNCHANGED <<thingVars, listening>>
    BY <1>0, <1>3, AddServerCases
  <2>2. QED
    BY <1>0, <2>1 DEF Fresh, thingVars, Produced
<1>4. CASE UNCHANGED <<id, forms>>
  BY <1>0, <1>4 DEF Fresh, Produced
<1>5. QED
  BY <1>1, <1>2, <1>3, <1>4
     DEF Next, Destroy, Destroyed, Started, Shutdown, vars, serverVars, thingVars

\* Registered things with paths of their own have none in common.
LEMMA PathsTell ==
    ASSUME TypeOK, OwnPathsOnly, NEW j \in Produced, NEW k \in Produced,
           Registered(j), Registered(k), j # k
    PROVE  PathsOf(id[j]) \cap PathsOf(id[k]) = {}
<1>1. id[j] \in Ids /\ id[k] \in Ids
  BY DEF TypeOK, Produced
<1>2. id[j] # id[k]
  BY DEF Registered
<1>3. QED
  BY <1>1, <1>2 DEF OwnPathsOnly

LEMMA ExposeLeads ==
    ASSUME OwnPathsOnly, Leading, NEW k \in Produced, Expose(k)
    PROVE  Lead'
<1>0. TypeOK /\ Alive /\ Titled /\ Lead
  BY DEF Leading, Routed
<1>1. id' = id /\ things' = things
  BY DEF Expose
<1>2. CASE servers = {}
  BY <1>0, <1>1, <1>2 DEF Expose, Lead, Produced, Registered
<1>3. CASE servers # {}
  <2>1. PICK up \in SUBSET servers :
          /\ forms' = [forms EXCEPT ![k] = {Endpoint(s, k, routes[s]) : s \in up}]
          /\ routes' = [s \in Server |-> IF s \in up THEN Route(k, routes[s]) ELSE routes[s]]
    BY <1>3 DEF Expose, Reached
  <2>2. /\ up \subseteq Server /\ Registered(k)
        /\ forms \in [Thing -> SUBSET (Server \X Path)] /\ Produced \subseteq Thing
        /\ \A s \in Server : routes[s] \in [Path -> {None} \cup Produced]
    BY <1>0, ThingsAssumption DEF TypeOK, Alive, Expose, Gone, Produced, Thing
  <2>3. ASSUME NEW f \in forms'[k] PROVE routes'[f[1]][f[2]] = k
    <3>1. PICK s \in up : f = Endpoint(s, k, routes[s])
      BY <2>1, <2>2, <2>3
    <3>2. f[1] = s /\ f[2] = UrlPath(k, routes[s])
      BY <3>1 DEF Endpoint
    <3>3. Route(k, routes[s])[UrlPath(k, routes[s])] = k
      BY <1>0, <2>2, RouteLeads
    <3>4. QED
      BY <2>1, <2>2, <3>2, <3>3
  <2>4. ASSUME NEW j \in Produced, j # k, NEW f \in forms'[j], Registered(j)
        PROVE  routes'[f[1]][f[2]] = j
    <3> DEFINE s == f[1]
               p == f[2]
    <3>1. f \in forms[j] /\ s \in Server /\ p \in Path
      BY <2>1, <2>2, <2>4
    <3>2. routes[s][p] = j
      BY <1>0, <2>4, <3>1 DEF Lead
    <3> HIDE DEF s, p
    <3>3. p \in PathsOf(id[j])
      BY <1>0, <3>1, <3>2 DEF Titled, Produced, None, TypeOK
    <3>4. PathsOf(id[j]) \cap PathsOf(id[k]) = {}
      BY <1>0, <2>2, <2>4, PathsTell
    <3>5. p # UrlPath(k, routes[s])
      BY <1>0, <3>3, <3>4, UrlPathTyped
    <3>6. Route(k, routes[s])[p] = j
      BY <1>0, <2>2, <3>1, <3>2, <3>5, RouteLeads
    <3>7. routes'[s][p] = j
      BY <2>1, <3>1, <3>2, <3>6
    <3>8. QED
      BY <3>7 DEF s, p
  <2>5. QED
    BY <1>1, <2>3, <2>4 DEF Lead, Produced, Registered
<1>4. QED
  BY <1>2, <1>3

LEMMA AddServerLeads ==
    ASSUME OwnPathsOnly, Leading, NEW s \in Server, AddServer(s)
    PROVE  Lead'
<1>0. TypeOK /\ Titled /\ Lead
  BY DEF Leading, Routed
<1>1. PICK given \in SUBSET {k \in Produced : Registered(k)} :
        /\ s \notin servers /\ \A p \in Path : routes[s][p] = None
        /\ routes' = [routes EXCEPT ![s] = Tables(s, given)[Len(id)]]
        /\ forms' = [k \in Thing |->
                       IF k \in given THEN forms[k] \cup {Endpoint(s, k, Tables(s, given)[k - 1])}
                                      ELSE forms[k]]
        /\ UNCHANGED <<thingVars, listening>>
  BY <1>0, AddServerCases
<1>2. /\ given \in SUBSET Produced
      /\ id' = id /\ things' = things
      /\ forms \in [Thing -> SUBSET (Server \X Path)] /\ Produced \subseteq Thing
      /\ routes'[s] = Tables(s, given)[Len(id)]
      /\ \A r \in Server : r # s => routes'[r] = routes[r]
  BY <1>0, <1>1, ThingsAssumption DEF TypeOK, Produced, Thing, thingVars
<1>3. \A k \in given : routes'[s][UrlPath(k, Tables(s, given)[k - 1])] = k
  <2>1. Apart(given)
    BY <1>0, <1>2, PathsTell DEF Apart
  <2>2. QED
    BY <1>0, <1>2, <2>1, TablesLead
<1>4. ASSUME NEW k \in Produced, NEW f \in forms[k], Registered(k)
      PROVE  routes'[f[1]][f[2]] = k
  <2>1. f[1] \in Server /\ f[2] \in Path /\ routes[f[1]][f[2]] = k /\ k # None
    BY <1>0, <1>2, <1>4 DEF Lead, Produced, None, TypeOK
  <2>2. f[1] # s
    BY <1>1, <2>1
  <2>3. QED
    BY <1>2, <2>1, <2>2
<1>5. ASSUME NEW k \in given, NEW f, f = Endpoint(s, k, Tables(s, given)[k - 1])
      PROVE  routes'[f[1]][f[2]] = k
  BY <1>3, <1>5 DEF Endpoint
<1>6. ASSUME NEW k \in Produced, NEW f \in forms'[k], Registered(k)
      PROVE  routes'[f[1]][f[2]] = k
  BY <1>1, <1>2, <1>4, <1>5, <1>6
<1>7. QED
  BY <1>2, <1>6 DEF Lead, Produced, Registered

LEMMA LeadStep == OwnPathsOnly /\ Leading /\ [Next]_vars => Lead'
<1> SUFFICES ASSUME OwnPathsOnly, Leading, [Next]_vars PROVE Lead'
  OBVIOUS
<1>0. TypeOK /\ Lead /\ Fresh
  BY DEF Leading, Routed
<1>1. ASSUME NEW i \in Ids, Produce(i) PROVE Lead'
  <2> DEFINE n == Len(id) + 1
  <2>1. /\ Produced' = Produced \cup {n} /\ n \notin Produced
        /\ \A k \in Produced : Registered(k)' => Registered(k)
    BY <1>0, <1>1, ProduceNumbers, ProduceKeeps
  <2>2. n \in Thing /\ forms' = forms /\ routes' = routes
    BY <1>1 DEF Produce
  <2>3. forms[n] = {}
    BY <1>0, <2>1, <2>2 DEF Fresh
  <2> HIDE DEF n
  <2>4. \A k \in Produced' : \A f \in forms'[k] : Registered(k)' => routes'[f[1]][f[2]] = k
    BY <1>0, <2>1, <2>2, <2>3 DEF Lead
  <2>5. QED
    BY <2>4 DEF Lead
<1>2. ASSUME NEW k \in Produced, Expose(k) PROVE Lead'
  BY <1>2, ExposeLeads
<1>3. ASSUME NEW k \in Produced, Destroy(k) PROVE Lead'
  <2>1. /\ id' = id /\ forms' = forms /\ Produced' = Produced
        /\ \A j \in Produced : Registered(j)' => Registered(j) /\ id[j] # id[k]
    BY <1>0, <1>3, DestroyKeeps DEF Destroy, Produced
  <2>2. ASSUME NEW j \in Produced, NEW f \in forms[j], Registered(j)'
        PROVE  routes'[f[1]][f[2]] = j
    <3>1. f[1] \in Server /\ f[2] \in Path
      BY <1>0, <2>2, ThingsAssumption DEF TypeOK, Produced, Thing
    <3>2. routes[f[1]][f[2]] = j /\ id[j] # id[k]
      BY <1>0, <2>1, <2>2 DEF Lead
    <3>3. Unroute(id[k], routes[f[1]])[f[2]] = j
      BY <3>1, <3>2 DEF Unroute
    <3>4. QED
      BY <1>3, <3>1, <3>2, <3>3 DEF Destroy
  <2>3. \A j \in Produced' : \A f \in forms'[j] : Registered(j)' => routes'[f[1]][f[2]] = j
    BY <2>1, <2>2
  <2>4. QED
    BY <2>3 DEF Lead
<1>4. ASSUME NEW s \in Server, AddServer(s) PROVE Lead'
  BY <1>4, AddServerLeads
<1>5. CASE UNCHANGED <<id, things, routes, forms>>
  BY <1>0, <1>5 DEF Lead, Produced, Registered
<1>6. QED
  BY <1>1, <1>2, <1>3, <1>4, <1>5
     DEF Next, Destroyed, Started, Shutdown, vars, serverVars, thingVars

\* When no two titles meet at a path, a form of a registered thing leads
\* to that thing on every server that listens, and never to another thing or
\* to none (http-server.ts:203-242, 244-262).
THEOREM FormsTheorem == OwnPathsOnly => (Spec => []FormsLead)
<1> SUFFICES ASSUME OwnPathsOnly PROVE Spec => []FormsLead
  OBVIOUS
<1>1. Init => Leading
  <2> SUFFICES ASSUME Init PROVE Leading
    OBVIOUS
  <2>1. Alive /\ RoutesRegistered /\ Titled /\ Lead /\ Fresh
    BY DEF Init, Alive, RoutesRegistered, Titled, Lead, Fresh, Produced
  <2>2. QED
    BY <2>1, TypeInit DEF Leading, Routed
<1>2. Leading /\ [Next]_vars => Leading'
  BY RoutedStep, TitledStep, LeadStep, FreshStep DEF Leading
<1>3. Leading => FormsLead
  BY DEF Leading, Lead, FormsLead
<1>4. QED
  BY <1>1, <1>2, <1>3, PTL DEF Spec
=============================================================================
