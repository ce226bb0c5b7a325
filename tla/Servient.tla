----------------------------- MODULE Servient -----------------------------
(***************************************************************************)
(* The server side of a Servient: things are produced, exposed and         *)
(* destroyed while HttpServers are added, started and shut down.  Each     *)
(* server keeps a map of its own from URL paths to ExposedThings, and each *)
(* thing keeps the forms that point its consumers to those paths; nothing  *)
(* but the order of the calls keeps the maps and the forms together.       *)
(*                                                                         *)
(* A thing is an ExposedThing object, numbered in the order of production. *)
(* A path is a slugified title, or what generateUniqueName() makes of it:  *)
(* its stem and the number behind its last underscore, without leading     *)
(* zeros.  A form is the server and the path its href leads to.            *)
(*                                                                         *)
(* Two things are left out of what a script may do: use an ExposedThing    *)
(* after its destroy(), and add a server again that addServer() threw for. *)
(***************************************************************************)
EXTENDS Integers, Sequences

CONSTANTS
    Ids,        \* the ids in the TDs that things are produced from
    slug,       \* the slug of the title in each of them, <<stem, number>>
    Server,     \* the HttpServers
    Https,      \* those that fill in a security scheme: https without a baseUri
    MaxThings   \* bound: things produced in a behaviour

ASSUME ThingsAssumption == MaxThings \in Nat /\ Https \subseteq Server

Thing == 1..MaxThings
None  == 0

\* Helpers.generateUniqueName(): a number at the end is counted on.
NoNumber == -1
GenerateUniqueName(name) ==
    <<name[1], IF name[2] = NoNumber THEN 2 ELSE name[2] + 1>>

PathsOf(i) == {slug[i], GenerateUniqueName(slug[i])}
Path       == UNION {PathsOf(i) : i \in Ids}

VARIABLES
    id,          \* id[k] for the things produced so far, a sequence
    initialized, \* things whose interactions have a forms array
    exposed,     \* things expose() was called on
    destroying,  \* things whose destroy() waits for the servers
    completed,   \* things whose subjects are completed
    things,      \* Servient.things: the thing registered for each id
    servers,     \* Servient.servers
    listening,   \* servers that listen: getPort() # -1
    routes,      \* HttpServer.things of each server
    forms        \* the forms of each thing

thingVars  == <<id, initialized, exposed, destroying, completed, things>>
serverVars == <<servers, listening>>
vars == <<thingVars, serverVars, routes, forms>>

Produced      == DOMAIN id
Registered(k) == things[id[k]] = k
Gone          == destroying \cup completed

Init ==
    /\ id = <<>>
    /\ initialized = {} /\ exposed = {} /\ destroying = {} /\ completed = {}
    /\ things = [i \in Ids |-> None]
    /\ servers = {} /\ listening = {}
    /\ routes = [s \in Server |-> [p \in Path |-> None]]
    /\ forms = [k \in Thing |-> {}]

----------------------------------------------------------------------------
(* HttpServer *)

\* The path that is free for a thing, or the one that generateUniqueName() makes
\* of it; that one is not looked up.
UrlPath(k, table) ==
    LET name == slug[id[k]]
    IN  IF table[name] = None THEN name ELSE GenerateUniqueName(name)

\* HttpServer.expose(), the two things it does: the path leads to the thing, and
\* addEndpoint() gives the thing a form with the path.
Route(k, table) == [table EXCEPT ![UrlPath(k, table)] = k]
Endpoint(s, k, table) == <<s, UrlPath(k, table)>>

\* MUTANT of Unroute: the loop does not compare the id.
UnrouteAll(i, table) == [p \in Path |-> None]

\* MUTANT of Unroute: the loop stops after the first path it finds.
UnrouteFirst(i, table) ==
    [p \in Path |->
        IF table[p] # None /\ id[table[p]] = i /\ (p = slug[i] \/ table[slug[i]] = None)
        THEN None ELSE table[p]]

\* HttpServer.destroy(): every path that leads to a thing with this id is deleted.
Unroute(i, table) ==
    [p \in Path |-> IF table[p] # None /\ id[table[p]] = i THEN None ELSE table[p]]

----------------------------------------------------------------------------
(* WoT.produce() and ExposedThing *)

\* The TD may come with forms of its own, then its interactions have an array.
Produce(i) ==
    LET k == Len(id) + 1
    IN  /\ k \in Thing
        /\ things[i] = None
        /\ id' = Append(id, i)
        /\ things' = [things EXCEPT ![i] = k]
        /\ initialized' \in {initialized, initialized \cup {k}}
        /\ UNCHANGED <<exposed, destroying, completed, serverVars, routes, forms>>

\* The servers an expose() gets to: all that listen, or those up to one in which
\* fillSecurityScheme() throws, after it took a path and added a form.  The order
\* of the servers is left open.
Reached ==
    LET up == servers \cap listening
    IN  {reached \in SUBSET up : reached = up \/ reached \cap Https # {}}

\* expose(): the forms are emptied and every server is given the thing; one that
\* does not listen leaves it alone.  Without servers nothing happens.
Expose(k) ==
    /\ k \in Produced \ Gone
    /\ exposed' = exposed \cup {k}
    /\ \/ /\ servers = {}
          /\ UNCHANGED <<initialized, routes, forms>>
       \/ /\ servers # {}
          /\ initialized' = initialized \cup {k}
          /\ \E reached \in Reached :
                /\ forms' = [forms EXCEPT ![k] = {Endpoint(s, k, routes[s]) : s \in reached}]
                /\ routes' = [s \in Server |->
                                IF s \in reached THEN Route(k, routes[s]) ELSE routes[s]]
    /\ UNCHANGED <<id, destroying, completed, things, serverVars>>

\* MUTANT of Destroy: the id stays registered.
DestroyRegistered(k) ==
    /\ k \in Produced \ Gone
    /\ routes' = [s \in Server |-> IF s \in servers THEN Unroute(id[k], routes[s]) ELSE routes[s]]
    /\ destroying' = destroying \cup {k}
    /\ UNCHANGED <<id, initialized, exposed, completed, things, serverVars, forms>>

\* MUTANT of Destroy: the subjects are forgotten.
DestroyOnly(k) ==
    /\ k \in Produced \ Gone
    /\ things' = [things EXCEPT ![id[k]] = None]
    /\ routes' = [s \in Server |-> IF s \in servers THEN Unroute(id[k], routes[s]) ELSE routes[s]]
    /\ UNCHANGED <<id, initialized, exposed, destroying, completed, serverVars, forms>>

\* destroy(): the id is unregistered and taken from every server of the servient.
Destroy(k) ==
    /\ k \in Produced \ Gone
    /\ things' = [things EXCEPT ![id[k]] = None]
    /\ routes' = [s \in Server |-> IF s \in servers THEN Unroute(id[k], routes[s]) ELSE routes[s]]
    /\ destroying' = destroying \cup {k}
    /\ UNCHANGED <<id, initialized, exposed, completed, serverVars, forms>>

\* All servers have answered: the subjects of the thing are completed.
Destroyed(k) ==
    /\ k \in destroying
    /\ destroying' = destroying \ {k}
    /\ completed' = completed \cup {k}
    /\ UNCHANGED <<id, initialized, exposed, things, serverVars, routes, forms>>

----------------------------------------------------------------------------
(* Servers *)

\* addServer(): a server that listens already is given the registered things one
\* after the other.  One without forms arrays ends the loop with a TypeError in
\* addEndpoint(), when its path is taken and before the server is added; so does
\* one whose security an https server does not support.
Given == {k \in Produced : Registered(k) /\ \A j \in 1..(k - 1) : Registered(j) => j \in initialized}

\* The routes of a server once it was given those of the things 1..k.
Tables(s, given) ==
    LET table[k \in 0..Len(id)] ==
            IF k = 0 THEN routes[s]
            ELSE IF k \in given THEN Route(k, table[k - 1]) ELSE table[k - 1]
    IN  table

Spoiled(s) == s \notin servers /\ \E p \in Path : routes[s][p] # None

GivenBy(s, given) ==
    LET table == Tables(s, given)
    IN  /\ routes' = [routes EXCEPT ![s] = table[Len(id)]]
        /\ forms' = [k \in Thing |->
                        IF k \in given THEN forms[k] \cup {Endpoint(s, k, table[k - 1])} ELSE forms[k]]

AddServer(s) ==
    LET all == IF s \in listening THEN Given ELSE {}
    IN  /\ s \notin servers /\ ~Spoiled(s)
        /\ \/ /\ GivenBy(s, all)
              /\ servers' = IF all \subseteq initialized THEN servers \cup {s} ELSE servers
           \/ /\ s \in Https
              /\ \E last \in all : GivenBy(s, {k \in all : k <= last})
              /\ UNCHANGED servers
        /\ UNCHANGED <<thingVars, listening>>

\* The event "listening" after Servient.start(), or after start() of a server that
\* the script adds later.  Until then, and if there is an error, nothing changes.
Started(s) ==
    /\ s \notin listening
    /\ listening' = listening \cup {s}
    /\ UNCHANGED <<thingVars, servers, routes, forms>>

Shutdown ==
    /\ servers \cap listening # {}
    /\ listening' = listening \ servers
    /\ UNCHANGED <<thingVars, servers, routes, forms>>

----------------------------------------------------------------------------
Next ==
    \/ \E i \in Ids : Produce(i)
    \/ \E k \in Produced : Expose(k)
    \/ \E k \in Produced : Destroy(k)
    \/ \E k \in Thing : Destroyed(k)
    \/ \E s \in Server : AddServer(s)
    \/ \E s \in Server : Started(s)
    \/ Shutdown

Spec == Init /\ [][Next]_vars

\* Promise jobs run: a destroy() whose servers have answered goes on.
Fairness == \A k \in Thing : WF_vars(Destroyed(k))

FairSpec == Spec /\ Fairness

----------------------------------------------------------------------------
(* Properties *)

\* The type invariant of a servient with its things and servers: a thing is
\* registered under its own id, and no more once its destroy() was called
\* (servient.ts:27-30, 163-176, http-server.ts:46-60).
TypeOK ==
    /\ id \in Seq(Ids) /\ Len(id) <= MaxThings
    /\ initialized \subseteq Produced /\ exposed \subseteq Produced
    /\ destroying \subseteq Produced /\ completed \subseteq Produced
    /\ things \in [Ids -> {None} \cup Produced]
    /\ \A i \in Ids : things[i] # None => id[things[i]] = i /\ things[i] \notin Gone
    /\ servers \subseteq Server /\ listening \subseteq Server
    /\ routes \in [Server -> [Path -> {None} \cup Produced]]
    /\ forms \in [Thing -> SUBSET (Server \X Path)]

\* What a server of the servient routes requests to is registered: no order of
\* producing, exposing, adding servers and destroying leaves a destroyed thing
\* behind a path (http-server.ts:244-262, servient.ts:163-176).
RoutesRegistered ==
    \A s \in servers : \A p \in Path : routes[s][p] # None => Registered(routes[s][p])

\* A form of a registered thing leads to that thing, and never to another one or
\* to nothing, as long as its server listens (http-server.ts:203-242, 244-262).
FormsLead ==
    \A k \in Produced : \A f \in forms[k] :
        Registered(k) /\ f[1] \in listening => routes[f[1]][f[2]] = k

\* The subscriptions to a thing that is not registered any more are completed
\* (exposed-thing.ts:109-133).
SubjectsComplete == \A k \in Thing : (k \in Produced /\ ~Registered(k)) ~> k \in completed

\* servient.ts:195 "add all exposed Things to new server": only a thing that
\* expose() was called on is served.
ServedWhenExposed ==
    \A s \in Server : \A p \in Path : routes[s][p] # None => routes[s][p] \in exposed
=============================================================================
