------------------------------- MODULE Clients --------------------------------
(***************************************************************************)
(* The database clients of the tenant schemas: PrismaTenantService of      *)
(* src/src/prisma, which keeps one per schema and disconnects the one      *)
(* looked up least recently to make room for another, while a request may  *)
(* still hold it.  A client connects at its first query, and connects      *)
(* again if it is used after it was disconnected.                          *)
(***************************************************************************)
EXTENDS Requests

CONSTANTS
    Schemas,
    ClientIds,      \* clients; an identifier is used again when nobody holds it
    NoClient,       \* a schema without a client
    MaxClients,     \* MAX_CLIENTS
    MaxTime         \* bound on the clock (milliseconds that tell look-ups apart)

ASSUME ClientsAssumption ==
    /\ NoClient \notin ClientIds
    /\ MaxClients \in Nat \ {0} /\ MaxTime \in Nat

VARIABLES
    clients,        \* [Schemas -> ClientIds \cup {NoClient}], the map of clients
    lastAccess,     \* [Schemas -> 0..MaxTime], of the schemas with a client
    pool,           \* [ClientIds -> {"unused", "idle", "open", "closing", "closed", "late"}]
    now

clientsVars == <<req, clients, lastAccess, pool, now>>

-----------------------------------------------------------------------------
Cached == {s \in Schemas : clients[s] # NoClient}

Held == {req[w].client : w \in {v \in Workers : req[v] # NoRequest}}

\* Of the schemas looked up at the same time the map knows a first; it may be any here.
LeastRecent == {s \in Cached : \A x \in Cached : lastAccess[s] <= lastAccess[x]}

\* Mutant: a client is given up only when the map is over its limit.
OneTooMany == IF Cardinality(Cached) > MaxClients THEN LeastRecent ELSE {}

\* The schema given up for another: none while there is room.
Victims == IF Cardinality(Cached) >= MaxClients THEN LeastRecent ELSE {}

\* The pools once client c has been evicted: $disconnect is called and not waited for.
Evicted(c) == [pool EXCEPT ![c] = IF @ = "open" THEN "closing" ELSE "closed"]

\* A schema that has its client.
Hit(w, s) ==
    /\ s \in Cached
    /\ lastAccess' = [lastAccess EXCEPT ![s] = now]
    /\ Begin(w, [op |-> "query", schema |-> s, client |-> clients[s]])
    /\ UNCHANGED <<clients, pool, now>>

UnusedClients == {c \in ClientIds : pool[c] = "unused"}

\* One that has none: c is made, in the place of a victim when the map is full.
Miss(w, s) ==
    LET c == AnyOf(UnusedClients) IN
    /\ s \notin Cached
    /\ UnusedClients # {}
    /\ \E v \in IF Victims = {} THEN {s} ELSE Victims :
          /\ clients' = [clients EXCEPT ![v] = NoClient, ![s] = c]
          /\ pool' = [(IF v = s THEN pool ELSE Evicted(clients[v])) EXCEPT ![c] = "idle"]
    /\ lastAccess' = [lastAccess EXCEPT ![s] = now]
    /\ Begin(w, [op |-> "query", schema |-> s, client |-> c])
    /\ UNCHANGED now

\* A query connects a client that is not connected.
Query(w) ==
    /\ Pending(w, "query")
    /\ pool' = [pool EXCEPT ![req[w].client] =
                  IF clients[req[w].schema] = req[w].client THEN "open" ELSE "late"]
    /\ UNCHANGED <<req, clients, lastAccess, now>>

EndQueries(w) == req[w] # NoRequest /\ Done(w) /\ UNCHANGED <<clients, lastAccess, pool, now>>

\* The disconnection of an evicted client ends; that of one used meanwhile has no effect.
Disconnected(c) ==
    /\ pool[c] = "closing"
    /\ pool' = [pool EXCEPT ![c] = "closed"]
    /\ UNCHANGED <<req, clients, lastAccess, now>>

\* A closed client that nobody holds is collected.
Collect(c) ==
    /\ pool[c] = "closed" /\ c \notin Held
    /\ pool' = [pool EXCEPT ![c] = "unused"]
    /\ UNCHANGED <<req, clients, lastAccess, now>>

Tick == now < MaxTime /\ now' = now + 1 /\ UNCHANGED <<req, clients, lastAccess, pool>>

-----------------------------------------------------------------------------
ClientsInit ==
    /\ req = Idle
    /\ clients = [s \in Schemas |-> NoClient]
    /\ lastAccess = [s \in Schemas |-> 0]
    /\ pool = [c \in ClientIds |-> "unused"]
    /\ now = 0

ClientsNext ==
    \/ \E w \in Workers :
          \/ \E s \in Schemas : Hit(w, s) \/ Miss(w, s)
          \/ Query(w)
          \/ EndQueries(w)
    \/ \E c \in ClientIds : Disconnected(c) \/ Collect(c)
    \/ Tick

ClientsSpec == ClientsInit /\ [][ClientsNext]_clientsVars

-----------------------------------------------------------------------------
\* Every variable keeps its type.
ClientsTypeOK ==
    /\ req \in [Workers -> [op: {"query"}, schema: Schemas, client: ClientIds] \cup {NoRequest}]
    /\ clients \in [Schemas -> ClientIds \cup {NoClient}]
    /\ lastAccess \in [Schemas -> 0..MaxTime]
    /\ pool \in [ClientIds -> {"unused", "idle", "open", "closing", "closed", "late"}]
    /\ now \in 0..MaxTime

\* At most MaxClients clients are kept, no two for a schema, and every other client that
\* is connected is being disconnected, unless a request that had looked it up before it was
\* evicted used it afterwards (late): then nobody disconnects it.
ClientsBounded ==
    /\ Cardinality(Cached) <= MaxClients
    /\ \A s, x \in Cached : clients[s] = clients[x] => s = x
    /\ {c \in ClientIds : pool[c] \in {"idle", "open"}} = {clients[s] : s \in Cached}
=============================================================================
