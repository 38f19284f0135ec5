---------------------------- MODULE HttpClients ------------------------------
(***************************************************************************)
(* The choice of a provider's url (ai/httpclient/provider.go) and the HTTP *)
(* clients that are shared by the requests to a host and replaced after a  *)
(* number of requests (ai/httpclient/httpclient.go).  An action is what a  *)
(* goroutine does under one lock.                                          *)
(***************************************************************************)
EXTENDS Integers, Sequences, FiniteSets

CONSTANTS
    Requests,       \* requests to a provider, each with a goroutine of its own
    Urls,           \* urls of the provider, each with a host of its own
    MaxRequests     \* config.HTTP_CLIENT_MAX_REQUESTS

ASSUME HttpAssumption ==
    /\ IsFiniteSet(Requests)
    /\ Urls # {}
    /\ MaxRequests \in Nat \ {0}

VARIABLES
    connections,    \* Provider: requests that hold a url
    clients,        \* ClientManager: the instance of a host, 0 for none
    instances,      \* every clientInstance ever made
    at,             \* where a request is in all this
    url, client     \* what it holds: a url, and the index of an instance

http == <<connections, clients, instances, at, url, client>>

Instance == [activeRequests : Int, totalRequests : Nat, closed : BOOLEAN]

Move(r, place) == at' = [at EXCEPT ![r] = place]

HttpInit ==
    /\ connections = [u \in Urls |-> 0]
    /\ clients = [u \in Urls |-> 0]
    /\ instances = <<>>
    /\ at = [r \in Requests |-> "out"]
    /\ url \in [Requests -> Urls]
    /\ client = [r \in Requests |-> 0]

\* Provider.Url: one with the fewest connections, any of them.
Url(r) ==
    /\ at[r] = "out"
    /\ \E u \in Urls :
         /\ \A v \in Urls : connections[u] <= connections[v]
         /\ connections' = [connections EXCEPT ![u] = @ + 1]
         /\ url' = [url EXCEPT ![r] = u]
    /\ Move(r, "lookup")
    /\ UNCHANGED <<clients, instances, client>>

\* GetHttpClient reads the map under the manager's lock.
LookUp(r) ==
    /\ at[r] = "lookup"
    /\ client' = [client EXCEPT ![r] = clients[url[r]]]
    /\ Move(r, IF clients[url[r]] = 0 THEN "create" ELSE "admit")
    /\ UNCHANGED <<connections, clients, instances, url>>

\* (mutant) one request more than the instance is closed after
HasRoomForOneMore(i) == instances[i].totalRequests <= MaxRequests

HasRoom(i) == instances[i].totalRequests < MaxRequests

\* ... and counts the request under the instance's own.
Admit(r) ==
    /\ at[r] = "admit"
    /\ IF HasRoom(client[r])
       THEN /\ instances' = [instances EXCEPT ![client[r]].totalRequests = @ + 1,
                                              ![client[r]].activeRequests = @ + 1]
            /\ Move(r, "in")
       ELSE /\ Move(r, "create")
            /\ UNCHANGED instances
    /\ UNCHANGED <<connections, clients, url, client>>

\* Several may find no room and create; the map keeps the last one's, and each
\* goes on with its own.
Create(r) ==
    /\ at[r] = "create"
    /\ instances' = Append(instances, [activeRequests |-> 1, totalRequests |-> 1,
                                       closed |-> FALSE])
    /\ client' = [client EXCEPT ![r] = Len(instances')]
    /\ clients' = [clients EXCEPT ![url[r]] = Len(instances')]
    /\ Move(r, "in")
    /\ UNCHANGED <<connections, url>>

\* (mutant) the connection is closed while others use it
Exhausted(i) == instances[i].totalRequests >= MaxRequests

LastUse(i) == /\ instances[i].activeRequests <= 1
              /\ instances[i].totalRequests >= MaxRequests

\* Close: the last request of an instance that takes no more closes its
\* connection.
Close(r) ==
    /\ at[r] = "in"
    /\ instances' = [instances EXCEPT ![client[r]].activeRequests = @ - 1,
                                      ![client[r]].closed = @ \/ LastUse(client[r])]
    /\ Move(r, "leave")
    /\ UNCHANGED <<connections, clients, url, client>>

\* (mutant) the url is given back by Close as well
GivenBackTwice(u) == [connections EXCEPT ![u] = @ - 2]

\* (mutant) the url is not given back
NotGivenBack(u) == connections

GivenBack(u) == [connections EXCEPT ![u] = @ - 1]

\* The done function of Provider.Url.
Done(r) ==
    /\ at[r] = "leave"
    /\ connections' = GivenBack(url[r])
    /\ Move(r, "out")
    /\ UNCHANGED <<clients, instances, url, client>>

HttpStep(r) == Url(r) \/ LookUp(r) \/ Admit(r) \/ Create(r) \/ Close(r) \/ Done(r)

HttpTypeOK ==
    /\ connections \in [Urls -> Nat]
    /\ clients \in [Urls -> 0 .. Len(instances)]
    /\ instances \in Seq(Instance)
    /\ at \in [Requests -> {"out", "lookup", "admit", "create", "in", "leave"}]
    /\ url \in [Requests -> Urls]
    /\ client \in [Requests -> 0 .. Len(instances)]

\* The connection of an instance is never closed under a request that uses it,
\* and none is admitted to an instance that is closed: the counts are read and
\* changed under a lock of their own, some time after the map was read.
NeverClosedInUse ==
    \A r \in Requests : at[r] = "in" => ~instances[client[r]].closed

Holders(u) == {r \in Requests : at[r] # "out" /\ url[r] = u}

\* A url counts the requests that hold it, so that the least used one is: on
\* every path a request takes, it gives back what it has taken, once.
Balanced == \A u \in Urls : connections[u] = Cardinality(Holders(u))
=============================================================================
