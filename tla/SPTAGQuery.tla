----------------------------- MODULE SPTAGQuery -----------------------------
(***************************************************************************)
(* A search sent over SPTAG's socket layer: clients (ClientWrapper, driven *)
(* by the loop of Client/main.cpp) send queries to an aggregator, which    *)
(* asks the connected search servers and merges what they return.  Links   *)
(* break, packets are lost with them, callbacks time out, and handlers run *)
(* in the threads of a pool.                                               *)
(*                                                                         *)
(* A connection between a client and the aggregator is named by the id the *)
(* aggregator gave it, one between the aggregator and a server by the      *)
(* number of the dial.  A query is a client and its resource id: all       *)
(* clients use the same resource ids.                                      *)
(***************************************************************************)
EXTENDS Integers, Sequences, FiniteSets

CONSTANTS
  Clients,      \* client processes, one connection each (-cth 1)
  Servers,      \* search servers the aggregator is configured with
  None,
  MaxQueries,   \* queries each client sends
  TopK,         \* settings: servers asked per query, 0 for all of them
  PoolSize,     \* c_connectionPoolSize
  MaxIds,       \* bound on the connection ids the aggregator hands out
  MaxDials,     \* bound on the dials to one server; the last does not break
  MaxBreaks,    \* bound on the links that break
  MaxReports,   \* bound on the failures one broken link reports
  CountMod      \* 2^32 in the code: both counters are unsigned

VARIABLES
  pc,           \* client: where the loop of main stands
  sent,         \* client: queries sent, the last resource id
  via,          \* client: the connection SendQueryAsync has chosen, 0 if none
  callbacks,    \* client: resources in m_callbackManager
  count,        \* client: m_unfinishedJobCount
  jobs,         \* client: callbacks being run
  answers,      \* client: what its callbacks were called with
  spurious,     \* clients whose wait returned without a notification
  conn,         \* client: m_connections[0].first, 0 if invalid
  table,        \* client: the connection in its manager, 0 if none
  dialled,      \* client: what ConnectToServer returned, not stored yet
  dialling,     \* clients in the loop of HandleDeadConnection
  pool,         \* aggregator: the connection in each slot, 0 if empty
  nextId,       \* aggregator: m_nextConnectionID
  owner,        \* the client at the other end of a connection
  up,           \* connections whose link works
  reports,      \* failures of a connection the aggregator has yet to handle
  contexts,     \* aggregator: AggregatorExecutionContext of each search
  aggCallbacks, \* aggregator: searches and servers in its callback manager
  aggJobs,      \* aggregator: callbacks being run
  status,       \* server: m_status
  cid,          \* server: m_connectionID
  live,         \* server: the dial whose link works, 0 if none
  inTable,      \* server: the connection in the aggregator's manager, 0 if none
  dial,         \* server: dials so far
  fresh,        \* servers connected whose id is not stored yet
  stored,       \* servers whose id is stored and whose status is not
  starting,     \* servers a thread is about to dial
  pending,      \* m_pendingConnectServers
  net,          \* packets in flight
  breaks        \* links broken so far

clientVars == <<pc, sent, via, callbacks, count, jobs, answers, spurious>>
connVars   == <<conn, table, dialled, dialling>>
poolVars   == <<pool, nextId, owner, up, reports>>
searchVars == <<contexts, aggCallbacks, aggJobs>>
serverVars == <<status, cid, live, inTable, dial, fresh, stored, starting, pending>>
vars == <<clientVars, connVars, poolVars, searchVars, serverVars, net, breaks>>

Resources == 1..MaxQueries
Queries   == Clients \X Resources
Ids       == 1..MaxIds
Dials     == 1..MaxDials
Searches  == Ids \X Resources               \* a query as the aggregator knows it
Found     == SUBSET (Servers \X Queries)    \* which server found what for whom
Outcomes  == {"Success", "Timeout", "FailedNetwork"}

Answers == [resource : Resources, outcome : Outcomes, data : Found]

Jobs == [resource : Resources, outcome : Outcomes, data : Found, sync : BOOLEAN,
         at : {"call", "decrease", "notify"}]

AggJobs == [search : Searches, server : Servers, why : Outcomes, data : Found,
            at : {"store", "finish"}]

Contexts == [query : Queries, cids : [Servers -> 0..MaxDials], toAsk : SUBSET Servers,
             left : 0..(CountMod - 1), results : [Servers -> Found \cup {None}],
             failed : SUBSET (Servers \X Outcomes), responses : Nat]

Packets ==
  [type : {"request"}, link : Ids, query : Queries]
  \cup [type : {"response"}, link : Ids, resource : Resources, data : Found]
  \cup [type : {"ask"}, server : Servers, dial : Dials, search : Searches, query : Queries]
  \cup [type : {"reply"}, server : Servers, dial : Dials, search : Searches, data : Found]

ASSUME QueryConstants ==
  /\ None \notin Clients /\ None \notin Contexts /\ \A d \in Found : d # None
  /\ IsFiniteSet(Clients) /\ IsFiniteSet(Servers)
  /\ MaxQueries \in Nat /\ TopK \in Nat /\ CountMod \in Nat \ {0}
  /\ PoolSize \in Nat \ {0} /\ MaxIds \in Nat /\ PoolSize <= MaxIds
  /\ MaxDials \in Nat \ {0} /\ MaxBreaks \in Nat /\ MaxReports \in Nat

\* The counters are wide enough for one query and for one result per server.
ASSUME CountsFit == CountMod > 1 /\ Cardinality(Servers) < CountMod

Slot(id)  == id % PoolSize

Request(l, q)     == [type |-> "request", link |-> l, query |-> q]
Response(l, r, d) == [type |-> "response", link |-> l, resource |-> r, data |-> d]
Ask(s, n, k, q)   == [type |-> "ask", server |-> s, dial |-> n, search |-> k, query |-> q]
Reply(s, n, k, d) == [type |-> "reply", server |-> s, dial |-> n, search |-> k, data |-> d]

OnLink(l)   == {p \in net : p.type \in {"request", "response"} /\ p.link = l}
OnServer(s) == {p \in net : p.type \in {"ask", "reply"} /\ p.server = s}

\* The state after start-up: the servers are connected, and the clients as
\* far as there are slots; the others dial.
Init ==
  /\ pc = [c \in Clients |-> "idle"]
  /\ sent = [c \in Clients |-> 0]
  /\ via = [c \in Clients |-> 0]
  /\ callbacks = [c \in Clients |-> {}]
  /\ count = [c \in Clients |-> 0]
  /\ jobs = [c \in Clients |-> {}]
  /\ answers = [c \in Clients |-> <<>>]
  /\ spurious = {}
  /\ conn \in [Clients -> 0..PoolSize]
  /\ \A c, d \in Clients : conn[c] = conn[d] /\ conn[c] # 0 => c = d
  /\ (\E c \in Clients : conn[c] = 0) => \A l \in 1..PoolSize : \E c \in Clients : conn[c] = l
  /\ table = conn
  /\ dialled = [c \in Clients |-> 0]
  /\ dialling = {c \in Clients : conn[c] = 0}
  /\ up = {conn[c] : c \in Clients} \ {0}
  /\ owner = [l \in Ids |-> IF l \in up THEN CHOOSE c \in Clients : conn[c] = l ELSE None]
  /\ pool = [p \in 0..PoolSize - 1 |->
               IF \E l \in up : Slot(l) = p THEN CHOOSE l \in up : Slot(l) = p ELSE 0]
  /\ nextId = PoolSize + 1
  /\ reports = [l \in Ids |-> 0]
  /\ contexts = [k \in Searches |-> None]
  /\ aggCallbacks = {}
  /\ aggJobs = {}
  /\ status = [s \in Servers |-> "Connected"]
  /\ cid = [s \in Servers |-> 1]
  /\ live = [s \in Servers |-> 1]
  /\ inTable = [s \in Servers |-> 1]
  /\ dial = [s \in Servers |-> 1]
  /\ fresh = {}
  /\ stored = {}
  /\ starting = {}
  /\ pending = {}
  /\ net = {}
  /\ breaks = 0
-----------------------------------------------------------------------------
(* The client.  A job is a callback at work: it calls the user's function,  *)
(* decreases the count and, if that made it 0, notifies; a timeout          *)
(* decreases first and calls last.                                          *)

\* A wrong version: every handler decreases first.
StartsAtDecrease(o) == "decrease"

StartsAt(o) == IF o = "Timeout" THEN "decrease" ELSE "call"

Job(r, o, d, sync) ==
  [resource |-> r, outcome |-> o, data |-> d, sync |-> sync, at |-> StartsAt(o)]

StartJob(c, j) == jobs' = [jobs EXCEPT ![c] = @ \cup {j}]

MoveJob(c, j, at) == jobs' = [jobs EXCEPT ![c] = (@ \ {j}) \cup {[j EXCEPT !.at = at]}]

EndJob(c, j) == jobs' = [jobs EXCEPT ![c] = @ \ {j}]

\* A connection is chosen, and the callback registered, which starts its
\* timeout.
RegisterQuery(c) ==
  /\ pc[c] = "idle"
  /\ sent[c] < MaxQueries
  /\ pc' = [pc EXCEPT ![c] = "registered"]
  /\ sent' = [sent EXCEPT ![c] = @ + 1]
  /\ via' = [via EXCEPT ![c] = conn[c]]
  /\ callbacks' = [callbacks EXCEPT ![c] = @ \cup {sent[c] + 1}]
  /\ UNCHANGED <<count, jobs, answers, spurious, connVars, poolVars, searchVars,
                 serverVars, net, breaks>>

\* Without a connection, or when it is gone meanwhile, the callback runs here;
\* over a broken link the packet is lost, or the write fails and another
\* thread runs the callback.
SendPacket(c) ==
  LET l == via[c]
      failure(sync) == Job(sent[c], "FailedNetwork", {}, sync) IN
  \/ /\ l = 0 \/ table[c] # l
     /\ StartJob(c, failure(TRUE))
     /\ UNCHANGED net
  \/ /\ l # 0 /\ table[c] = l /\ l \in up
     /\ net' = net \cup {Request(l, <<c, sent[c]>>)}
     /\ UNCHANGED jobs
  \/ /\ l # 0 /\ table[c] = l /\ l \notin up
     /\ \/ StartJob(c, failure(FALSE))
        \/ UNCHANGED jobs
     /\ UNCHANGED net

SubmitQuery(c) ==
  /\ pc[c] = "registered"
  /\ pc' = [pc EXCEPT ![c] = "submitted"]
  /\ via' = [via EXCEPT ![c] = 0]
  /\ count' = [count EXCEPT ![c] = (@ + 1) % CountMod]
  /\ SendPacket(c)
  /\ UNCHANGED <<sent, callbacks, answers, spurious, connVars, poolVars, searchVars,
                 serverVars, breaks>>

\* A wrong version: the count is tested outside the mutex.
WaitAfterTest(c) ==
  /\ \/ /\ pc[c] = "submitted" /\ \A j \in jobs[c] : ~j.sync
        /\ pc' = [pc EXCEPT ![c] = IF count[c] > 0 THEN "tested" ELSE "idle"]
     \/ /\ pc[c] = "tested"
        /\ pc' = [pc EXCEPT ![c] = "waiting"]
  /\ UNCHANGED <<sent, via, callbacks, count, jobs, answers, spurious, connVars, poolVars,
                 searchVars, serverVars, net, breaks>>

\* A callback that SendPacket runs is finished before main goes on.
WaitAllFinished(c) ==
  /\ pc[c] = "submitted"
  /\ \A j \in jobs[c] : ~j.sync
  /\ pc' = [pc EXCEPT ![c] = IF count[c] > 0 THEN "waiting" ELSE "idle"]
  /\ UNCHANGED <<sent, via, callbacks, count, jobs, answers, spurious, connVars, poolVars,
                 searchVars, serverVars, net, breaks>>

\* The wait is not in a loop.
WakeSpuriously(c) ==
  /\ pc[c] = "waiting"
  /\ pc' = [pc EXCEPT ![c] = "idle"]
  /\ spurious' = spurious \cup {c}
  /\ UNCHANGED <<sent, via, callbacks, count, jobs, answers, connVars, poolVars, searchVars,
                 serverVars, net, breaks>>

RunCallback(c, j) ==
  /\ j.at = "call"
  /\ answers' = [answers EXCEPT ![c] = Append(@, [resource |-> j.resource,
                                 outcome |-> j.outcome, data |-> j.data])]
  /\ IF StartsAt(j.outcome) = "call" THEN MoveJob(c, j, "decrease") ELSE EndJob(c, j)
  /\ UNCHANGED <<pc, sent, via, callbacks, count, spurious, connVars, poolVars, searchVars,
                 serverVars, net, breaks>>

\* A wrong version: a timeout decreases the count and calls nobody.
CountedOnly(c, j) == EndJob(c, j)

Counted(c, j) == IF StartsAt(j.outcome) = "call" THEN EndJob(c, j) ELSE MoveJob(c, j, "call")

\* A wrong version: the count is taken for a signed one.
DecreaseSigned(c, j) ==
  /\ j.at = "decrease"
  /\ count' = [count EXCEPT ![c] = @ - 1]
  /\ IF count[c] = 1 THEN MoveJob(c, j, "notify") ELSE Counted(c, j)
  /\ UNCHANGED <<pc, sent, via, callbacks, answers, spurious, connVars, poolVars, searchVars,
                 serverVars, net, breaks>>

DecreaseUnfinishedJobCount(c, j) ==
  LET left == (count[c] - 1) % CountMod IN
  /\ j.at = "decrease"
  /\ count' = [count EXCEPT ![c] = left]
  /\ IF left = 0 THEN MoveJob(c, j, "notify") ELSE Counted(c, j)
  /\ UNCHANGED <<pc, sent, via, callbacks, answers, spurious, connVars, poolVars, searchVars,
                 serverVars, net, breaks>>

\* Under m_waitingMutex, as the test and the wait of WaitAllFinished are.
NotifyWaiting(c, j) ==
  /\ j.at = "notify"
  /\ pc' = [pc EXCEPT ![c] = IF count[c] = 0 /\ @ = "waiting" THEN "idle" ELSE @]
  /\ Counted(c, j)
  /\ UNCHANGED <<sent, via, callbacks, count, answers, spurious, connVars, poolVars, searchVars,
                 serverVars, net, breaks>>

TimeOut(c, r) ==
  /\ r \in callbacks[c]
  /\ callbacks' = [callbacks EXCEPT ![c] = @ \ {r}]
  /\ StartJob(c, Job(r, "Timeout", {}, FALSE))
  /\ UNCHANGED <<pc, sent, via, count, answers, spurious, connVars, poolVars, searchVars,
                 serverVars, net, breaks>>

\* A wrong version: the callback stays in the manager, and times out later.
LookUpCallback(c, r) == UNCHANGED callbacks

\* m_callbackManager.GetAndRemove
TakeCallback(c, r) == callbacks' = [callbacks EXCEPT ![c] = @ \ {r}]

SearchResponseHandler(c, p) ==
  /\ p.type = "response" /\ p.link \in up /\ owner[p.link] = c
  /\ net' = net \ {p}
  /\ IF p.resource \in callbacks[c]
     THEN /\ TakeCallback(c, p.resource)
          /\ StartJob(c, Job(p.resource, "Success", p.data, FALSE))
     ELSE UNCHANGED <<callbacks, jobs>>
  /\ UNCHANGED <<pc, sent, via, count, answers, spurious, connVars, poolVars, searchVars,
                 serverVars, breaks>>
-----------------------------------------------------------------------------
(* The connections between clients and the aggregator.                      *)

\* A link is closed: responses on it are lost, requests too unless a thread
\* of the aggregator has them already, and of those lost the writes of F fail.
CloseLink(l) ==
  \E lost \in SUBSET {p \in OnLink(l) : p.type = "request"} :
    /\ net' = net \ (lost \cup {p \in OnLink(l) : p.type = "response"})
    /\ \E F \in SUBSET lost :
         jobs' = [c \in Clients |-> jobs[c] \cup
           {Job(p.query[2], "FailedNetwork", {}, FALSE) : p \in {x \in F : x.query[1] = c}}]

\* Both a read and a write at the aggregator's end may fail and report it.
Break(l) ==
  /\ breaks < MaxBreaks
  /\ l \in up
  /\ up' = up \ {l}
  /\ reports' = [reports EXCEPT ![l] = MaxReports]
  /\ CloseLink(l)
  /\ breaks' = breaks + 1
  /\ UNCHANGED <<pc, sent, via, callbacks, count, answers, spurious, connVars, pool, nextId,
                 owner, searchVars, serverVars>>

\* ConnectionManager::RemoveConnection at the aggregator: it empties the
\* slot of the id and stops whatever connection is there, which then reports
\* failures of its own: its aborted read is followed by another one.
RemoveConnection(l) ==
  LET there == pool[Slot(l)] IN
  /\ reports[l] > 0
  /\ pool' = [pool EXCEPT ![Slot(l)] = 0]
  /\ up' = up \ {there}
  /\ IF there \in up
     THEN /\ reports' = [reports EXCEPT ![l] = @ - 1, ![there] = MaxReports]
          /\ CloseLink(there)
     ELSE /\ reports' = [reports EXCEPT ![l] = @ - 1]
          /\ UNCHANGED <<net, jobs>>
  /\ UNCHANGED <<pc, sent, via, callbacks, count, answers, spurious, connVars, nextId, owner,
                 searchVars, serverVars, breaks>>

\* The client's end: its manager drops the connection, and
\* HandleDeadConnection looks for it among the stored ones.
HandleDeadConnection(c) ==
  /\ table[c] # 0 /\ table[c] \notin up
  /\ table' = [table EXCEPT ![c] = 0]
  /\ IF conn[c] = table[c]
     THEN /\ conn' = [conn EXCEPT ![c] = 0]
          /\ dialling' = dialling \cup {c}
     ELSE UNCHANGED <<conn, dialling>>
  /\ UNCHANGED <<clientVars, dialled, poolVars, searchVars, serverVars, net, breaks>>

\* AddConnection at the aggregator takes the first free slot from nextId on.
ConnectToServer(c, l) ==
  /\ c \in dialling /\ dialled[c] = 0
  /\ l \in Ids /\ l >= nextId
  /\ pool[Slot(l)] = 0
  /\ \A i \in nextId..(l - 1) : pool[Slot(i)] # 0
  /\ nextId' = l + 1
  /\ pool' = [pool EXCEPT ![Slot(l)] = l]
  /\ owner' = [owner EXCEPT ![l] = c]
  /\ up' = up \cup {l}
  /\ table' = [table EXCEPT ![c] = l]
  /\ dialled' = [dialled EXCEPT ![c] = l]
  /\ UNCHANGED <<clientVars, conn, dialling, reports, searchVars, serverVars, net, breaks>>

\* There is none: the id is used up, the link is closed and the client dials
\* again.  In the code its dial succeeded first, and it has a valid id until its
\* read fails; a query sent in between is lost or its send fails, as after Break.
RefuseConnection(c) ==
  /\ c \in dialling /\ dialled[c] = 0
  /\ \A i \in DOMAIN pool : pool[i] # 0
  /\ nextId <= MaxIds
  /\ nextId' = nextId + 1
  /\ UNCHANGED <<clientVars, connVars, pool, owner, up, reports, searchVars, serverVars, net,
                 breaks>>

StoreConnection(c) ==
  /\ dialled[c] # 0
  /\ conn' = [conn EXCEPT ![c] = dialled[c]]
  /\ dialled' = [dialled EXCEPT ![c] = 0]
  /\ dialling' = dialling \ {c}
  /\ UNCHANGED <<clientVars, table, poolVars, searchVars, serverVars, net, breaks>>

\* The name of the aggregator cannot be resolved: the loop is left.
GiveUpDialling(c) ==
  /\ c \in dialling /\ dialled[c] = 0
  /\ dialling' = dialling \ {c}
  /\ UNCHANGED <<clientVars, conn, table, dialled, poolVars, searchVars, serverVars, net,
                 breaks>>
-----------------------------------------------------------------------------
(* The aggregator.                                                          *)

\* The servers a query may go to: all, or the TopK nearest centers.
Candidates == IF TopK = 0 THEN {Servers} ELSE {T \in SUBSET Servers : Cardinality(T) = TopK}

Context(q, asked) ==
  [query |-> q,
   cids |-> [s \in Servers |-> IF s \in asked THEN cid[s] ELSE 0],
   toAsk |-> asked,
   left |-> Cardinality(asked) % CountMod,
   results |-> [s \in Servers |-> None],
   failed |-> {},                          \* servers and why: for the properties
   responses |-> 0]                        \* packets sent: for the properties

SearchRequestHandler(p, T) ==
  LET k == <<p.link, p.query[2]>> IN
  /\ p.type = "request"
  /\ net' = net \ {p}
  /\ contexts' = [contexts EXCEPT ![k] = Context(p.query, {s \in T : status[s] = "Connected"})]
  /\ UNCHANGED <<clientVars, connVars, poolVars, aggCallbacks, aggJobs, serverVars, breaks>>

\* A callback of the aggregator at work: it stores its result, then counts it.
AggJob(k, s, why, d) ==
  [search |-> k, server |-> s, why |-> why, data |-> d, at |-> "store"]

\* One round of the loop over the servers: in any order, as the list is in
\* the order of the distances.
AskServer(k, s) ==
  LET x == contexts[k]
      failure == AggJob(k, s, "FailedNetwork", {}) IN
  /\ x # None /\ s \in x.toAsk
  /\ contexts' = [contexts EXCEPT ![k].toAsk = @ \ {s}]
  /\ aggCallbacks' = aggCallbacks \cup {<<k, s>>}
  /\ IF inTable[s] = x.cids[s] /\ live[s] = x.cids[s]
     THEN /\ net' = net \cup {Ask(s, x.cids[s], k, x.query)}
          /\ UNCHANGED aggJobs
     ELSE /\ UNCHANGED net
          /\ \/ aggJobs' = aggJobs \cup {failure}
             \/ inTable[s] = x.cids[s] /\ UNCHANGED aggJobs
  /\ UNCHANGED <<clientVars, connVars, poolVars, serverVars, breaks>>

\* A wrong version: the callbacks share the loop's variable.
StoreResultAtLast(j) ==
  LET last == CHOOSE s \in Servers : contexts[j.search].cids[s] # 0 IN
  /\ j.at = "store"
  /\ contexts' = [contexts EXCEPT ![j.search].results[last] = j.data,
                    ![j.search].failed = IF j.why = "Success" THEN @ ELSE @ \cup {<<j.server, j.why>>}]
  /\ aggJobs' = (aggJobs \ {j}) \cup {[j EXCEPT !.at = "finish"]}
  /\ UNCHANGED <<clientVars, connVars, poolVars, aggCallbacks, serverVars, net, breaks>>

StoreResult(j) ==
  /\ j.at = "store"
  /\ contexts' = [contexts EXCEPT ![j.search].results[j.server] = j.data,
                    ![j.search].failed = IF j.why = "Success" THEN @ ELSE @ \cup {<<j.server, j.why>>}]
  /\ aggJobs' = (aggJobs \ {j}) \cup {[j EXCEPT !.at = "finish"]}
  /\ UNCHANGED <<clientVars, connVars, poolVars, aggCallbacks, serverVars, net, breaks>>

\* AggregateResults moves the results out of the context; the response goes
\* to the connection the request came from, if it is still there.
Merged(x) == UNION {x.results[s] : s \in {t \in Servers : x.results[t] # None}}

Aggregated(x) ==
  [x EXCEPT !.results = [s \in Servers |-> IF x.results[s] = None THEN None ELSE {}],
            !.responses = @ + 1]

\* A wrong version: whatever connection is in the slot.
GetConnectionInSlot(l) == pool[Slot(l)]

GetConnection(l) == IF pool[Slot(l)] = l THEN l ELSE 0

Respond(k) ==
  LET to == GetConnection(k[1]) IN
  net' = IF to \in up THEN net \cup {Response(to, k[2], Merged(contexts[k]))} ELSE net

\* Wrong versions: one callback too early, one too late.
IsNearlyCompleted(x) == x.left <= 2

IsOverCompleted(x) == x.left < 1

IsCompletedAfterFinish(x) == x.left <= 1

FinishJob(j) ==
  LET k == j.search
      x == contexts[k]
      counted == [x EXCEPT !.left = (@ - 1) % CountMod] IN
  /\ j.at = "finish"
  /\ aggJobs' = aggJobs \ {j}
  /\ IF IsCompletedAfterFinish(x)
     THEN /\ contexts' = [contexts EXCEPT ![k] = Aggregated(counted)]
          /\ Respond(k)
     ELSE /\ contexts' = [contexts EXCEPT ![k] = counted]
          /\ UNCHANGED net
  /\ UNCHANGED <<clientVars, connVars, poolVars, aggCallbacks, serverVars, breaks>>

AggTimeOut(k, s) ==
  /\ <<k, s>> \in aggCallbacks
  /\ aggCallbacks' = aggCallbacks \ {<<k, s>>}
  /\ aggJobs' = aggJobs \cup {AggJob(k, s, "Timeout", {})}
  /\ UNCHANGED <<clientVars, connVars, poolVars, contexts, serverVars, net, breaks>>

\* A reply that reports a failure is counted as FailedExecute: a result like any
\* other here, since only what is counted and stored matters.
AggResponseHandler(p) ==
  /\ p.type = "reply"
  /\ net' = net \ {p}
  /\ IF <<p.search, p.server>> \in aggCallbacks
     THEN /\ aggCallbacks' = aggCallbacks \ {<<p.search, p.server>>}
          /\ aggJobs' = aggJobs \cup {AggJob(p.search, p.server, "Success", p.data)}
     ELSE UNCHANGED <<aggCallbacks, aggJobs>>
  /\ UNCHANGED <<clientVars, connVars, poolVars, contexts, serverVars, breaks>>
-----------------------------------------------------------------------------
(* The search servers and the aggregator's connections to them.             *)

\* SearchService::SearchHanlder and its callback.  A query that fails (it cannot
\* be parsed, no index fits) is answered too: what was found may be nothing.
Search(p) ==
  /\ p.type = "ask"
  /\ net' = (net \ {p}) \cup
       IF live[p.server] = p.dial
       THEN {Reply(p.server, p.dial, p.search, {<<p.server, p.query>>})} ELSE {}
  /\ UNCHANGED <<clientVars, connVars, poolVars, searchVars, serverVars, breaks>>

\* What a thread of the pool has received survives its link.
BreakServer(s) ==
  /\ breaks < MaxBreaks
  /\ live[s] # 0 /\ live[s] < MaxDials
  /\ live' = [live EXCEPT ![s] = 0]
  /\ \E lost \in SUBSET OnServer(s) :
       /\ net' = net \ lost
       /\ \E F \in SUBSET {p \in lost : p.type = "ask"} :
            aggJobs' = aggJobs \cup {AggJob(p.search, s, "FailedNetwork", {}) : p \in F}
  /\ breaks' = breaks + 1
  /\ UNCHANGED <<clientVars, connVars, poolVars, contexts, aggCallbacks, status, cid,
                 inTable, dial, fresh, stored, starting, pending>>

\* The aggregator's manager drops the connection; the event marks the server
\* Disconnected if its stored id is that of the connection.
ServerClosed(s) ==
  /\ inTable[s] # 0 /\ live[s] = 0
  /\ inTable' = [inTable EXCEPT ![s] = 0]
  /\ IF cid[s] = inTable[s]
     THEN /\ status' = [status EXCEPT ![s] = "Disconnected"]
          /\ pending' = pending \cup {s}
     ELSE UNCHANGED <<status, pending>>
  /\ UNCHANGED <<clientVars, connVars, poolVars, searchVars, cid, live, dial, fresh,
                 stored, starting, net, breaks>>

\* The timer of 30 s: what is Disconnected is dialled by threads of the pool,
\* the rest is dropped from the list.
ConnectToPendingServers ==
  LET dead == {s \in pending : status[s] = "Disconnected"} IN
  /\ pending # {}
  /\ pending' = {}
  /\ status' = [s \in Servers |-> IF s \in dead THEN "Connecting" ELSE status[s]]
  /\ starting' = starting \cup dead
  /\ UNCHANGED <<clientVars, connVars, poolVars, searchVars, cid, live, inTable, dial,
                 fresh, stored, net, breaks>>

Dial(s) ==
  /\ s \in starting
  /\ starting' = starting \ {s}
  /\ \/ /\ dial[s] < MaxDials
        /\ dial' = [dial EXCEPT ![s] = @ + 1]
        /\ live' = [live EXCEPT ![s] = dial[s] + 1]
        /\ inTable' = [inTable EXCEPT ![s] = dial[s] + 1]
        /\ fresh' = fresh \cup {s}
        /\ UNCHANGED pending
     \/ /\ pending' = pending \cup {s}          \* not connected: tried again
        /\ UNCHANGED <<dial, live, inTable, fresh>>
     \/ UNCHANGED <<pending, dial, live, inTable, fresh>>  \* not resolved
  /\ UNCHANGED <<clientVars, connVars, poolVars, searchVars, status, cid, stored, net,
                 breaks>>

StoreServerId(s) ==
  /\ s \in fresh
  /\ fresh' = fresh \ {s}
  /\ stored' = stored \cup {s}
  /\ cid' = [cid EXCEPT ![s] = dial[s]]
  /\ UNCHANGED <<clientVars, connVars, poolVars, searchVars, status, live, inTable, dial,
                 starting, pending, net, breaks>>

StoreServerStatus(s) ==
  /\ s \in stored
  /\ stored' = stored \ {s}
  /\ status' = [status EXCEPT ![s] = "Connected"]
  /\ UNCHANGED <<clientVars, connVars, poolVars, searchVars, cid, live, inTable, dial, fresh,
                 starting, pending, net, breaks>>
-----------------------------------------------------------------------------
MainStep(c) == RegisterQuery(c) \/ SubmitQuery(c) \/ WaitAllFinished(c)

JobStep(c) == \E j \in jobs[c] :
  RunCallback(c, j) \/ DecreaseUnfinishedJobCount(c, j) \/ NotifyWaiting(c, j)

Client(c) ==
  \/ MainStep(c) \/ WakeSpuriously(c) \/ JobStep(c)
  \/ \E r \in Resources : TimeOut(c, r)
  \/ \E p \in net : SearchResponseHandler(c, p)
  \/ HandleDeadConnection(c) \/ RefuseConnection(c) \/ StoreConnection(c)
  \/ GiveUpDialling(c)
  \/ \E l \in Ids : ConnectToServer(c, l)

Links == \E l \in Ids : Break(l) \/ RemoveConnection(l)

AggregatorStep ==
  \/ \E j \in aggJobs : StoreResult(j) \/ FinishJob(j)
  \/ \E k \in Searches, s \in Servers : AskServer(k, s) \/ AggTimeOut(k, s)

Aggregator ==
  \/ \E p \in net : \E T \in Candidates : SearchRequestHandler(p, T)
  \/ AggregatorStep
  \/ \E p \in net : AggResponseHandler(p)

Server(s) ==
  \/ BreakServer(s) \/ ServerClosed(s)
  \/ Dial(s) \/ StoreServerId(s) \/ StoreServerStatus(s)

Next ==
  \/ \E c \in Clients : Client(c)
  \/ Links
  \/ Aggregator
  \/ \E p \in net : Search(p)
  \/ \E s \in Servers : Server(s)
  \/ ConnectToPendingServers

Spec == Init /\ [][Next]_vars

\* Threads that can run do, and timers fire.
Fairness ==
  /\ \A c \in Clients :
       /\ WF_vars(MainStep(c))
       /\ WF_vars(JobStep(c))
       /\ \A r \in Resources : WF_vars(TimeOut(c, r))
  /\ WF_vars(AggregatorStep)

FairSpec == Spec /\ Fairness
-----------------------------------------------------------------------------
\* Every variable keeps its type: both counts are 32-bit and wrap, ids stay
\* in the pool's range.
TypeOK ==
  /\ pc \in [Clients -> {"idle", "registered", "submitted", "waiting"}]
  /\ sent \in [Clients -> 0..MaxQueries]
  /\ via \in [Clients -> 0..MaxIds]
  /\ callbacks \in [Clients -> SUBSET Resources]
  /\ count \in [Clients -> 0..(CountMod - 1)]
  /\ jobs \in [Clients -> SUBSET Jobs]
  /\ answers \in [Clients -> Seq(Answers)]
  /\ spurious \subseteq Clients
  /\ conn \in [Clients -> 0..MaxIds] /\ table \in [Clients -> 0..MaxIds]
  /\ dialled \in [Clients -> 0..MaxIds] /\ dialling \subseteq Clients
  /\ pool \in [0..(PoolSize - 1) -> 0..MaxIds]
  /\ nextId \in 1..(MaxIds + 1)
  /\ owner \in [Ids -> Clients \cup {None}]
  /\ up \subseteq Ids
  /\ reports \in [Ids -> 0..MaxReports]
  /\ contexts \in [Searches -> Contexts \cup {None}]
  /\ aggCallbacks \subseteq Searches \X Servers
  /\ aggJobs \subseteq AggJobs
  /\ status \in [Servers -> {"Disconnected", "Connecting", "Connected"}]
  /\ cid \in [Servers -> Dials] /\ dial \in [Servers -> Dials]
  /\ live \in [Servers -> 0..MaxDials] /\ inTable \in [Servers -> 0..MaxDials]
  /\ fresh \subseteq Servers /\ stored \subseteq Servers
  /\ starting \subseteq Servers /\ pending \subseteq Servers
  /\ net \subseteq Packets
  /\ breaks \in 0..MaxBreaks

\* A callback is given what was found for its own query, although all
\* clients use the same resource ids and the aggregator gives the slot of a
\* dead connection to another client (GetConnection compares the id).
OwnAnswer == \A c \in Clients : \A i \in DOMAIN answers[c] :
  answers[c][i].data \subseteq Servers \X {<<c, answers[c][i].resource>>}

\* A query is answered once; only a send that failed may be reported twice,
\* the second time by the timeout of the callback that was left registered
\* (connectCallback does not remove it from m_callbackManager).
OneResult == \A c \in Clients : \A i, j \in DOMAIN answers[c] :
  i # j /\ answers[c][i].resource = answers[c][j].resource =>
    {answers[c][i].outcome, answers[c][j].outcome} = {"FailedNetwork", "Timeout"}

Answered(c, r) == \E i \in DOMAIN answers[c] : answers[c][i].resource = r

SendFailed(c) ==
  \/ \E j \in jobs[c] : j.outcome = "FailedNetwork"
  \/ \E i \in DOMAIN answers[c] : answers[c][i].outcome = "FailedNetwork"

\* main goes on after WaitAllFinished only when its queries are answered: the
\* callback refers to a variable of the loop's body.  Exceptions the code
\* makes: a timeout decreases the count before it calls, a failed send counts
\* twice, and the wait is not in a loop.
WaitMeansAnswered == \A c \in Clients :
  ~SendFailed(c) /\ c \notin spurious =>
    \A r \in 1..sent[c] :
      \/ Answered(c, r)
      \/ r = sent[c] /\ pc[c] # "idle"
      \/ \E j \in jobs[c] : j.resource = r /\ j.outcome = "Timeout"

Failed(x, why) == {s \in Servers : <<s, why>> \in x.failed}

\* The aggregator sends one response for a request, and at most two when a
\* send to a server failed: its callback and its timeout both count.
ResponseCount == \A k \in Searches : contexts[k] # None =>
  contexts[k].responses <= IF Failed(contexts[k], "FailedNetwork") = {} THEN 1 ELSE 2

\* A result a client gets holds what every server that was asked has found,
\* unless that server timed out or a send of this search failed.
NothingMissing == \A c \in Clients : \A i \in DOMAIN answers[c] :
  answers[c][i].outcome = "Success" =>
    LET q == <<c, answers[c][i].resource>> IN
    \E k \in Searches :
      LET x == contexts[k] IN
      /\ x # None /\ x.query = q
      /\ \/ Failed(x, "FailedNetwork") # {}
         \/ \A s \in Servers \ Failed(x, "Timeout") :
              x.cids[s] # 0 => <<s, q>> \in answers[c][i].data

\* Every query is answered, whatever breaks: the timeout stays armed.
EveryQueryAnswered == \A c \in Clients, r \in Resources :
  sent[c] >= r ~> Answered(c, r)

\* WaitAllFinished returns: no notification is lost between its test and its
\* wait.  After a failed send the count may wrap and it may not.
WaitReturns == \A c \in Clients :
  pc[c] = "waiting" ~> pc[c] # "waiting" \/ SendFailed(c)

Unfinished(k) ==
  /\ contexts[k] # None
  /\ \E s \in Servers : contexts[k].cids[s] # 0
  /\ contexts[k].responses = 0

\* The aggregator responds to every search it asked a server about, whatever
\* servers break or stay silent.
EverySearchEnds ==
  (\E k \in Searches : Unfinished(k)) ~> (\A k \in Searches : ~Unfinished(k))
=============================================================================
