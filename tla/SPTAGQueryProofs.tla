-------------------------- MODULE SPTAGQueryProofs --------------------------
(***************************************************************************)
(* Proofs about SPTAGQuery, for any clients, servers, pool and failures:   *)
(* types, whose results a callback is given, how often it is run, what the *)
(* client's wait and the aggregator's counter mean, and that no result is  *)
(* missing from a response.                                                *)
(***************************************************************************)
EXTENDS SPTAGQuery, FiniteSetTheorems, TLAPS

\* The query a search of the aggregator is for, and what may be found for it.
QueryOf(k) == <<owner[k[1]], k[2]>>
For(q)     == SUBSET (Servers \X {q})

\* An id has an owner once it is given away, and a client holds its own.
LinksOwned ==
  /\ \A l \in Ids : owner[l] # None => l < nextId
  /\ \A c \in Clients :
       /\ conn[c] # 0 => owner[conn[c]] = c
       /\ table[c] # 0 => owner[table[c]] = c
       /\ dialled[c] # 0 => owner[dialled[c]] = c

PacketOwned(p) ==
  /\ p.type = "request" => owner[p.link] = p.query[1]
  /\ p.type = "response" => /\ contexts[<<p.link, p.resource>>] # None
                            /\ p.data \in For(<<owner[p.link], p.resource>>)
  /\ p.type = "ask" => contexts[p.search] # None /\ p.query = QueryOf(p.search)
  /\ p.type = "reply" => contexts[p.search] # None /\ p.data \in For(QueryOf(p.search))

NetOwned == \A p \in net : PacketOwned(p)

ContextsOwned == \A k \in Searches : contexts[k] # None =>
  /\ owner[k[1]] \in Clients
  /\ contexts[k].query = QueryOf(k)
  /\ \A s \in Servers : contexts[k].results[s] # None =>
       contexts[k].results[s] \in For(QueryOf(k))

AggOwned ==
  /\ \A x \in aggCallbacks : contexts[x[1]] # None
  /\ \A j \in aggJobs : contexts[j.search] # None /\ j.data \in For(QueryOf(j.search))

\* A query that is sent has a number; the loop of the aggregator goes over
\* connected servers.
Begun ==
  /\ \A c \in Clients : pc[c] = "registered" => sent[c] > 0
  /\ \A k \in Searches : contexts[k] # None =>
       \A s \in contexts[k].toAsk : contexts[k].cids[s] # 0

JobsOwned == \A c \in Clients : \A j \in jobs[c] : j.data \in For(<<c, j.resource>>)

Owned ==
  /\ Begun /\ LinksOwned /\ NetOwned /\ ContextsOwned /\ AggOwned /\ JobsOwned /\ OwnAnswer

\* A query is answered by a failed send, or finally.
Final(o)   == o # "FailedNetwork"
Same(a, b) == a.resource = b.resource /\ (Final(a.outcome) <=> Final(b.outcome))
Called(j)  == j.outcome # "Timeout" /\ j.at # "call"

Served == {contexts[k].query : k \in {x \in Searches : contexts[x] # None}}

NoFailure(c, r) ==
  /\ \A j \in jobs[c] : j.resource = r => Final(j.outcome)
  /\ \A i \in DOMAIN answers[c] : answers[c][i].resource = r => Final(answers[c][i].outcome)

NotYet(c, r) == r > sent[c] \/ (r = sent[c] /\ pc[c] = "registered")

OneJob == \A c \in Clients : \A j, h \in jobs[c] : Same(j, h) => j = h

JobFresh == \A c \in Clients : \A j \in jobs[c], i \in DOMAIN answers[c] :
  Same(j, answers[c][i]) => Called(j)

OneAnswer == \A c \in Clients : \A i, j \in DOMAIN answers[c] :
  Same(answers[c][i], answers[c][j]) => i = j

Armed == \A c \in Clients : \A r \in callbacks[c] :
  /\ r <= sent[c]
  /\ \A j \in jobs[c] : j.resource = r => ~Final(j.outcome)
  /\ \A i \in DOMAIN answers[c] : answers[c][i].resource = r => ~Final(answers[c][i].outcome)

Known == \A c \in Clients :
  /\ \A j \in jobs[c] : j.resource <= sent[c]
  /\ \A i \in DOMAIN answers[c] : answers[c][i].resource <= sent[c]

Unsent == \A c \in Clients, r \in Resources : NotYet(c, r) =>
  /\ NoFailure(c, r)
  /\ <<c, r>> \notin Served
  /\ \A p \in net : p.type = "request" => p.query # <<c, r>>

Requested == \A p \in net : p.type = "request" =>
  /\ NoFailure(p.query[1], p.query[2])
  /\ p.query \notin Served
  /\ \A o \in net : o.type = "request" /\ o.query = p.query => o = p

Delivered == \A q \in Served : NoFailure(q[1], q[2])

FromServed == \A c \in Clients :
  /\ \A j \in jobs[c] : j.outcome = "Success" => <<c, j.resource>> \in Served
  /\ \A i \in DOMAIN answers[c] :
       answers[c][i].outcome = "Success" => <<c, answers[c][i].resource>> \in Served

\* What is known of the jobs and the answers of the clients, and of what is
\* still to come.
JobsOnce  == OneJob /\ JobFresh /\ OneAnswer /\ Armed /\ Known /\ FromServed
SendsOnce == Unsent /\ Requested /\ Delivered
Once      == JobsOnce /\ SendsOnce

IInv == TypeOK /\ Owned /\ Once

-----------------------------------------------------------------------------
\* Counters wrap at CountMod.
LEMMA ModTyped ==
  ASSUME NEW n \in Int
  PROVE  n % CountMod \in 0..(CountMod - 1)
BY QueryConstants

\* A failed search has found nothing.
LEMMA EmptyFound == {} \in Found
BY DEF Found

\* What a callback that begins is made of.
LEMMA JobTyped ==
  ASSUME NEW r \in Resources, NEW o \in Outcomes, NEW d \in Found, NEW sync \in BOOLEAN
  PROVE  /\ Job(r, o, d, sync) \in Jobs
         /\ Job(r, o, d, sync).resource = r
         /\ Job(r, o, d, sync).outcome = o
         /\ Job(r, o, d, sync).data = d
         /\ Job(r, o, d, sync).at # "notify"
         /\ Job(r, o, d, sync).at = StartsAt(o)
BY DEF Job, Jobs, StartsAt

\* What a callback that goes on is made of.
LEMMA MovedTyped ==
  ASSUME NEW j \in Jobs, NEW at \in {"call", "decrease", "notify"}
  PROVE  /\ [j EXCEPT !.at = at] \in Jobs
         /\ [j EXCEPT !.at = at].resource = j.resource
         /\ [j EXCEPT !.at = at].outcome = j.outcome
         /\ [j EXCEPT !.at = at].data = j.data
         /\ [j EXCEPT !.at = at].at = at
BY DEF Jobs

\* A callback that goes on or ends keeps the type of jobs.
LEMMA JobsMoved ==
  ASSUME TypeOK, NEW c \in Clients, NEW j \in jobs[c], NEW at \in {"call", "decrease", "notify"}
  PROVE  /\ MoveJob(c, j, at) => jobs' \in [Clients -> SUBSET Jobs]
         /\ EndJob(c, j) => jobs' \in [Clients -> SUBSET Jobs]
         /\ Counted(c, j) => jobs' \in [Clients -> SUBSET Jobs]
<1>0. jobs \in [Clients -> SUBSET Jobs]
  BY DEF TypeOK
<1>1. j \in Jobs
  BY <1>0
<1>2. ASSUME NEW a \in {"call", "decrease", "notify"}
      PROVE  MoveJob(c, j, a) => jobs' \in [Clients -> SUBSET Jobs]
  <2>1. [j EXCEPT !.at = a] \in Jobs
    BY <1>1, MovedTyped
  <2> QED
    BY <1>0, <2>1 DEF MoveJob
<1>3. EndJob(c, j) => jobs' \in [Clients -> SUBSET Jobs]
  BY <1>0 DEF EndJob
<1> QED
  BY <1>2, <1>3 DEF Counted

\* A callback that begins keeps the type of jobs.
LEMMA JobsStarted ==
  ASSUME TypeOK, NEW c \in Clients, NEW j \in Jobs
  PROVE  StartJob(c, j) => jobs' \in [Clients -> SUBSET Jobs]
BY DEF TypeOK, StartJob

\* A closing link only takes packets away, and adds callbacks.
LEMMA LinkClosed ==
  ASSUME TypeOK, NEW l, CloseLink(l)
  PROVE  /\ net' \subseteq net
         /\ jobs' \in [Clients -> SUBSET Jobs]
<1>1. PICK lost \in SUBSET {p \in OnLink(l) : p.type = "request"} :
        /\ net' = net \ (lost \cup {p \in OnLink(l) : p.type = "response"})
        /\ \E F \in SUBSET lost :
             jobs' = [c \in Clients |-> jobs[c] \cup
               {Job(p.query[2], "FailedNetwork", {}, FALSE) : p \in {x \in F : x.query[1] = c}}]
  BY Zenon DEF CloseLink
<1>2. PICK F \in SUBSET lost :
        jobs' = [c \in Clients |-> jobs[c] \cup
               {Job(p.query[2], "FailedNetwork", {}, FALSE) : p \in {x \in F : x.query[1] = c}}]
  BY <1>1
<1>3. \A p \in F : p \in Packets /\ p.type = "request"
  BY DEF TypeOK, OnLink
<1>4. \A p \in F : p.query \in Queries
  BY <1>3 DEF Packets
<1>5. \A p \in F : Job(p.query[2], "FailedNetwork", {}, FALSE) \in Jobs
  BY <1>4, JobTyped, EmptyFound DEF Queries, Outcomes
<1>6. jobs \in [Clients -> SUBSET Jobs]
  BY DEF TypeOK
<1>7. ASSUME NEW c \in Clients
      PROVE  {Job(p.query[2], "FailedNetwork", {}, FALSE) : p \in {x \in F : x.query[1] = c}}
               \in SUBSET Jobs
  BY <1>5
<1>8. ASSUME NEW c \in Clients
      PROVE  jobs[c] \cup
               {Job(p.query[2], "FailedNetwork", {}, FALSE) : p \in {x \in F : x.query[1] = c}}
               \in SUBSET Jobs
  BY <1>6, <1>7
<1> QED
  BY <1>1, <1>2, <1>8

\* What a callback of the aggregator is made of.
LEMMA AggJobTyped ==
  ASSUME NEW k \in Searches, NEW s \in Servers, NEW why \in Outcomes, NEW d \in Found
  PROVE  /\ AggJob(k, s, why, d) \in AggJobs
         /\ AggJob(k, s, why, d).search = k
         /\ AggJob(k, s, why, d).server = s
         /\ AggJob(k, s, why, d).why = why
         /\ AggJob(k, s, why, d).data = d
BY DEF AggJob, AggJobs

\* The fields of the four kinds of packet.
LEMMA PacketsTyped ==
  ASSUME NEW p \in Packets
  PROVE  /\ p.type = "request" => p.link \in Ids /\ p.query \in Queries
         /\ p.type = "response" => p.link \in Ids /\ p.resource \in Resources /\ p.data \in Found
         /\ p.type = "ask" => p.server \in Servers /\ p.dial \in Dials /\ p.search \in Searches
                              /\ p.query \in Queries
         /\ p.type = "reply" => p.server \in Servers /\ p.dial \in Dials
                                /\ p.search \in Searches /\ p.data \in Found
         /\ p.type \in {"request", "response", "ask", "reply"}
BY DEF Packets

\* A query that is sent is a packet.
LEMMA RequestTyped ==
  ASSUME NEW l \in Ids, NEW q \in Queries
  PROVE  Request(l, q) \in Packets
BY DEF Request, Packets

\* A response to a client is a packet.
LEMMA ResponseTyped ==
  ASSUME NEW l \in Ids, NEW r \in Resources, NEW d \in Found
  PROVE  Response(l, r, d) \in Packets
BY DEF Response, Packets

\* A query to a server is a packet.
LEMMA AskTyped ==
  ASSUME NEW s \in Servers, NEW n \in Dials, NEW k \in Searches, NEW q \in Queries
  PROVE  Ask(s, n, k, q) \in Packets
BY DEF Ask, Packets

\* The answer of a server is a packet.
LEMMA ReplyTyped ==
  ASSUME NEW s \in Servers, NEW n \in Dials, NEW k \in Searches, NEW d \in Found
  PROVE  Reply(s, n, k, d) \in Packets
BY DEF Reply, Packets

\* AggregateResults merges what was found.
LEMMA MergedTyped ==
  ASSUME NEW x \in Contexts
  PROVE  Merged(x) \in Found
<1>1. \A s \in Servers : x.results[s] # None => x.results[s] \in Found
  BY DEF Contexts
<1> QED
  BY <1>1 DEF Merged, Found

\* The aggregator asks configured servers.
LEMMA AskedTyped ==
  ASSUME NEW T \in Candidates
  PROVE  T \subseteq Servers
BY DEF Candidates

\* A new execution context has its type.
LEMMA ContextTyped ==
  ASSUME TypeOK, NEW q \in Queries, NEW asked \in SUBSET Servers
  PROVE  Context(q, asked) \in Contexts
<1>1. Cardinality(asked) \in Int
  BY QueryConstants, FS_Subset, FS_CardinalityType
<1>2. Cardinality(asked) % CountMod \in 0..(CountMod - 1)
  BY <1>1, ModTyped
<1>3. [s \in Servers |-> IF s \in asked THEN cid[s] ELSE 0] \in [Servers -> 0..MaxDials]
  BY QueryConstants DEF TypeOK, Dials
<1> QED
  BY <1>2, <1>3 DEF Context, Contexts

\* The changes the aggregator makes to a context keep its type.
LEMMA ContextsMoved ==
  ASSUME NEW x \in Contexts
  PROVE  /\ \A s : [x EXCEPT !.toAsk = @ \ {s}] \in Contexts
         /\ \A s \in Servers, d \in Found, F \in SUBSET (Servers \X Outcomes) :
              [x EXCEPT !.results[s] = d, !.failed = F] \in Contexts
         /\ [x EXCEPT !.left = (@ - 1) % CountMod] \in Contexts
         /\ Aggregated(x) \in Contexts
<1>1. \A s : [x EXCEPT !.toAsk = @ \ {s}] \in Contexts
  BY DEF Contexts
<1>2. \A s \in Servers, d \in Found, F \in SUBSET (Servers \X Outcomes) :
              [x EXCEPT !.results[s] = d, !.failed = F] \in Contexts
  BY DEF Contexts
<1>3. (x.left - 1) % CountMod \in 0..(CountMod - 1)
  <2>1. x.left - 1 \in Int
    BY DEF Contexts
  <2> QED
    BY <2>1, ModTyped
<1>4. [x EXCEPT !.left = (@ - 1) % CountMod] \in Contexts
  BY <1>3 DEF Contexts
<1>5. [s \in Servers |-> IF x.results[s] = None THEN None ELSE {}] \in [Servers -> Found \cup {None}]
  BY EmptyFound
<1>6. x.responses + 1 \in Nat
  BY DEF Contexts
<1>7. Aggregated(x) \in Contexts
  BY <1>5, <1>6 DEF Aggregated, Contexts
<1> QED
  BY <1>1, <1>2, <1>4, <1>7

\* Types are kept by every action; what is asked needs the owners.
LEMMA TypesNext ==
  ASSUME TypeOK, Owned, [Next]_vars
  PROVE  TypeOK'
<1>1. ASSUME NEW c \in Clients, RegisterQuery(c)
      PROVE  TypeOK'
  <2>1. pc' \in [Clients -> {"idle", "registered", "submitted", "waiting"}]
    BY <1>1 DEF RegisterQuery, TypeOK
  <2>2. sent' \in [Clients -> 0..MaxQueries]
    BY <1>1, QueryConstants DEF RegisterQuery, TypeOK
  <2>3. via' \in [Clients -> 0..MaxIds]
    BY <1>1 DEF RegisterQuery, TypeOK
  <2>4. callbacks' \in [Clients -> SUBSET Resources]
    BY <1>1, QueryConstants DEF RegisterQuery, TypeOK, Resources
  <2> QED
    BY <1>1, <2>1, <2>2, <2>3, <2>4
       DEF RegisterQuery, TypeOK, connVars, poolVars, searchVars, serverVars
<1>2. ASSUME NEW c \in Clients, SubmitQuery(c)
      PROVE  TypeOK'
  <2>r. sent[c] \in Resources
    BY <1>2, QueryConstants DEF SubmitQuery, TypeOK, Owned, Begun, Resources
  <2>1. pc' \in [Clients -> {"idle", "registered", "submitted", "waiting"}]
    BY <1>2 DEF SubmitQuery, TypeOK
  <2>2. via' \in [Clients -> 0..MaxIds]
    BY <1>2, QueryConstants DEF SubmitQuery, TypeOK
  <2>3. count' \in [Clients -> 0..(CountMod - 1)]
    <3>1. (count[c] + 1) % CountMod \in 0..(CountMod - 1)
      <4>1. count[c] + 1 \in Int
        BY DEF TypeOK
      <4> QED
        BY <4>1, ModTyped
    <3> QED
      BY <1>2, <3>1 DEF SubmitQuery, TypeOK
  <2>4. jobs' \in [Clients -> SUBSET Jobs]
    <3>1. ASSUME NEW b \in BOOLEAN, sent[c] \in Resources
          PROVE  Job(sent[c], "FailedNetwork", {}, b) \in Jobs
      BY <3>1, JobTyped, EmptyFound DEF Outcomes
    <3> QED
      BY <1>2, <3>1, <2>r, JobsStarted DEF SubmitQuery, SendPacket, TypeOK
  <2>5. net' \subseteq Packets
    <3>1. via[c] # 0 => Request(via[c], <<c, sent[c]>>) \in Packets
      <4>1. via[c] # 0 => via[c] \in Ids
        BY QueryConstants DEF TypeOK, Ids
      <4>2. <<c, sent[c]>> \in Queries
        BY <2>r DEF Queries
      <4> QED
        BY <4>1, <4>2, RequestTyped
    <3> QED
      BY <1>2, <3>1 DEF SubmitQuery, SendPacket, TypeOK
  <2> QED
    BY <1>2, <2>1, <2>2, <2>3, <2>4, <2>5
       DEF SubmitQuery, TypeOK, connVars, poolVars, searchVars, serverVars
<1>3. ASSUME NEW c \in Clients, WaitAllFinished(c)
      PROVE  TypeOK'
  <2>1. pc' \in [Clients -> {"idle", "registered", "submitted", "waiting"}]
    BY <1>3 DEF WaitAllFinished, TypeOK
  <2> QED
    BY <1>3, <2>1 DEF WaitAllFinished, TypeOK, connVars, poolVars, searchVars, serverVars
<1>4. ASSUME NEW c \in Clients, WakeSpuriously(c)
      PROVE  TypeOK'
  <2>1. pc' \in [Clients -> {"idle", "registered", "submitted", "waiting"}]
    BY <1>4 DEF WakeSpuriously, TypeOK
  <2>2. spurious' \subseteq Clients
    BY <1>4 DEF WakeSpuriously, TypeOK
  <2> QED
    BY <1>4, <2>1, <2>2 DEF WakeSpuriously, TypeOK, connVars, poolVars, searchVars, serverVars
<1>5. ASSUME NEW c \in Clients, NEW j \in jobs[c], RunCallback(c, j)
      PROVE  TypeOK'
  <2>j. j \in Jobs
    BY DEF TypeOK
  <2>1. answers' \in [Clients -> Seq(Answers)]
    <3>1. [resource |-> j.resource, outcome |-> j.outcome, data |-> j.data] \in Answers
      BY <2>j DEF Jobs, Answers
    <3> QED
      BY <1>5, <3>1 DEF RunCallback, TypeOK
  <2>2. jobs' \in [Clients -> SUBSET Jobs]
    BY <1>5, JobsMoved DEF RunCallback
  <2> QED
    BY <1>5, <2>1, <2>2 DEF RunCallback, TypeOK, connVars, poolVars, searchVars, serverVars
<1>6. ASSUME NEW c \in Clients, NEW j \in jobs[c], DecreaseUnfinishedJobCount(c, j)
      PROVE  TypeOK'
  <2>1. count' \in [Clients -> 0..(CountMod - 1)]
    <3>1. (count[c] - 1) % CountMod \in 0..(CountMod - 1)
      <4>1. count[c] - 1 \in Int
        BY DEF TypeOK
      <4> QED
        BY <4>1, ModTyped
    <3> QED
      BY <1>6, <3>1 DEF DecreaseUnfinishedJobCount, TypeOK
  <2>2. jobs' \in [Clients -> SUBSET Jobs]
    BY <1>6, JobsMoved DEF DecreaseUnfinishedJobCount
  <2> QED
    BY <1>6, <2>1, <2>2
       DEF DecreaseUnfinishedJobCount, TypeOK, connVars, poolVars, searchVars, serverVars
<1>7. ASSUME NEW c \in Clients, NEW j \in jobs[c], NotifyWaiting(c, j)
      PROVE  TypeOK'
  <2>1. pc' \in [Clients -> {"idle", "registered", "submitted", "waiting"}]
    BY <1>7 DEF NotifyWaiting, TypeOK
  <2>2. jobs' \in [Clients -> SUBSET Jobs]
    BY <1>7, JobsMoved DEF NotifyWaiting
  <2> QED
    BY <1>7, <2>1, <2>2 DEF NotifyWaiting, TypeOK, connVars, poolVars, searchVars, serverVars
<1>8. ASSUME NEW c \in Clients, NEW r \in Resources, TimeOut(c, r)
      PROVE  TypeOK'
  <2>1. callbacks' \in [Clients -> SUBSET Resources]
    BY <1>8 DEF TimeOut, TypeOK
  <2>2. jobs' \in [Clients -> SUBSET Jobs]
    BY <1>8, JobsStarted, JobTyped, EmptyFound DEF TimeOut, Outcomes
  <2> QED
    BY <1>8, <2>1, <2>2 DEF TimeOut, TypeOK, connVars, poolVars, searchVars, serverVars
<1>9. ASSUME NEW c \in Clients, NEW p \in net, SearchResponseHandler(c, p)
      PROVE  TypeOK'
  <2>1. net' \subseteq Packets
    BY <1>9 DEF SearchResponseHandler, TypeOK
  <2>2. callbacks' \in [Clients -> SUBSET Resources]
    <3>1. callbacks \in [Clients -> SUBSET Resources]
      BY DEF TypeOK
    <3> QED
      BY <1>9, <3>1 DEF SearchResponseHandler, TakeCallback
  <2>3. jobs' \in [Clients -> SUBSET Jobs]
    <3>1. p \in Packets /\ jobs \in [Clients -> SUBSET Jobs]
      BY DEF TypeOK
    <3> QED
      BY <1>9, <3>1, JobsStarted, JobTyped, PacketsTyped DEF SearchResponseHandler, Outcomes
  <2> QED
    BY <1>9, <2>1, <2>2, <2>3
       DEF SearchResponseHandler, TypeOK, connVars, poolVars, searchVars, serverVars
<1>10. ASSUME NEW l \in Ids, Break(l)
      PROVE  TypeOK'
  <2>1. up' \subseteq Ids
    BY <1>10 DEF Break, TypeOK
  <2>2. reports' \in [Ids -> 0..MaxReports]
    BY <1>10, QueryConstants DEF Break, TypeOK
  <2>3. net' \subseteq Packets
    BY <1>10, LinkClosed DEF Break, TypeOK
  <2>4. jobs' \in [Clients -> SUBSET Jobs]
    BY <1>10, LinkClosed DEF Break
  <2>5. breaks' \in 0..MaxBreaks
    BY <1>10, QueryConstants DEF Break, TypeOK
  <2> QED
    BY <1>10, <2>1, <2>2, <2>3, <2>4, <2>5 DEF Break, TypeOK, connVars, searchVars, serverVars
<1>11. ASSUME NEW l \in Ids, RemoveConnection(l)
      PROVE  TypeOK'
  <2>1. reports' \in [Ids -> 0..MaxReports]
    <3>1. reports \in [Ids -> 0..MaxReports] /\ reports[l] - 1 \in 0..MaxReports
      BY <1>11, QueryConstants DEF RemoveConnection, TypeOK
    <3>2. MaxReports \in 0..MaxReports
      BY QueryConstants
    <3> QED
      BY <1>11, <3>1, <3>2 DEF RemoveConnection
  <2>2. pool' \in [0..(PoolSize - 1) -> 0..MaxIds]
    <3>1. pool \in [0..(PoolSize - 1) -> 0..MaxIds] /\ 0 \in 0..MaxIds
      BY QueryConstants DEF TypeOK
    <3> QED
      BY <1>11, <3>1 DEF RemoveConnection
  <2>3. up' \subseteq Ids
    BY <1>11 DEF RemoveConnection, TypeOK
  <2>4. net' \subseteq Packets
    <3>1. net \subseteq Packets
      BY DEF TypeOK
    <3> QED
      BY <1>11, <3>1, LinkClosed DEF RemoveConnection
  <2>5. jobs' \in [Clients -> SUBSET Jobs]
    <3>1. jobs \in [Clients -> SUBSET Jobs]
      BY DEF TypeOK
    <3> QED
      BY <1>11, <3>1, LinkClosed DEF RemoveConnection
  <2> QED
    BY <1>11, <2>1, <2>2, <2>3, <2>4, <2>5
       DEF RemoveConnection, TypeOK, connVars, searchVars, serverVars
<1>12. ASSUME NEW c \in Clients, HandleDeadConnection(c)
      PROVE  TypeOK'
  <2>1. table' \in [Clients -> 0..MaxIds]
    BY <1>12, QueryConstants DEF HandleDeadConnection, TypeOK
  <2>2. conn' \in [Clients -> 0..MaxIds]
    <3>1. conn \in [Clients -> 0..MaxIds] /\ 0 \in 0..MaxIds
      BY QueryConstants DEF TypeOK
    <3> QED
      BY <1>12, <3>1 DEF HandleDeadConnection
  <2>3. dialling' \subseteq Clients
    BY <1>12 DEF HandleDeadConnection, TypeOK
  <2> QED
    BY <1>12, <2>1, <2>2, <2>3
       DEF HandleDeadConnection, TypeOK, clientVars, poolVars, searchVars, serverVars
<1>13. ASSUME NEW c \in Clients, NEW l \in Ids, ConnectToServer(c, l)
      PROVE  TypeOK'
  <2>1. nextId' \in 1..(MaxIds + 1)
    BY <1>13, QueryConstants DEF ConnectToServer, TypeOK, Ids
  <2>2. pool' \in [0..(PoolSize - 1) -> 0..MaxIds]
    <3>1. pool \in [0..(PoolSize - 1) -> 0..MaxIds] /\ l \in 0..MaxIds
      BY QueryConstants DEF TypeOK, Ids
    <3> QED
      BY <1>13, <3>1 DEF ConnectToServer
  <2>3. owner' \in [Ids -> Clients \cup {None}]
    BY <1>13 DEF ConnectToServer, TypeOK
  <2>4. up' \subseteq Ids
    BY <1>13 DEF ConnectToServer, TypeOK
  <2>5. table' \in [Clients -> 0..MaxIds]
    BY <1>13, QueryConstants DEF ConnectToServer, TypeOK, Ids
  <2>6. dialled' \in [Clients -> 0..MaxIds]
    BY <1>13, QueryConstants DEF ConnectToServer, TypeOK, Ids
  <2> QED
    BY <1>13, <2>1, <2>2, <2>3, <2>4, <2>5, <2>6
       DEF ConnectToServer, TypeOK, clientVars, searchVars, serverVars
<1>14. ASSUME NEW c \in Clients, RefuseConnection(c)
      PROVE  TypeOK'
  <2>1. nextId' \in 1..(MaxIds + 1)
    BY <1>14, QueryConstants DEF RefuseConnection, TypeOK
  <2> QED
    BY <1>14, <2>1 DEF RefuseConnection, TypeOK, clientVars, connVars, searchVars, serverVars
<1>15. ASSUME NEW c \in Clients, StoreConnection(c)
      PROVE  TypeOK'
  <2>1. conn' \in [Clients -> 0..MaxIds]
    BY <1>15 DEF StoreConnection, TypeOK
  <2>2. dialled' \in [Clients -> 0..MaxIds]
    BY <1>15, QueryConstants DEF StoreConnection, TypeOK
  <2>3. dialling' \subseteq Clients
    BY <1>15 DEF StoreConnection, TypeOK
  <2> QED
    BY <1>15, <2>1, <2>2, <2>3
       DEF StoreConnection, TypeOK, clientVars, poolVars, searchVars, serverVars
<1>16. ASSUME NEW c \in Clients, GiveUpDialling(c)
      PROVE  TypeOK'
  <2>1. dialling' \subseteq Clients
    BY <1>16 DEF GiveUpDialling, TypeOK
  <2> QED
    BY <1>16, <2>1 DEF GiveUpDialling, TypeOK, clientVars, poolVars, searchVars, serverVars
<1>17. ASSUME NEW p \in net, NEW T \in Candidates, SearchRequestHandler(p, T)
      PROVE  TypeOK'
  <2>1. net' \subseteq Packets
    BY <1>17 DEF SearchRequestHandler, TypeOK
  <2>2. contexts' \in [Searches -> Contexts \cup {None}]
    <3>1. /\ p.link \in Ids /\ p.query \in Queries
          /\ <<p.link, p.query[2]>> \in Searches
      BY <1>17, PacketsTyped DEF SearchRequestHandler, TypeOK, Searches, Queries
    <3>2. Context(p.query, {s \in T : status[s] = "Connected"}) \in Contexts
      BY <3>1, AskedTyped, ContextTyped
    <3> QED
      BY <1>17, <3>1, <3>2 DEF SearchRequestHandler, TypeOK
  <2> QED
    BY <1>17, <2>1, <2>2
       DEF SearchRequestHandler, TypeOK, clientVars, connVars, poolVars, serverVars
<1>18. ASSUME NEW k \in Searches, NEW s \in Servers, AskServer(k, s)
      PROVE  TypeOK'
  <2>1. contexts' \in [Searches -> Contexts \cup {None}]
    <3>1. [contexts[k] EXCEPT !.toAsk = @ \ {s}] \in Contexts
      BY <1>18, ContextsMoved DEF AskServer, TypeOK
    <3>2. contexts' = [contexts EXCEPT ![k] = [contexts[k] EXCEPT !.toAsk = @ \ {s}]]
      BY <1>18 DEF AskServer, TypeOK
    <3> QED
      BY <3>1, <3>2 DEF TypeOK
  <2>2. aggCallbacks' \subseteq Searches \X Servers
    BY <1>18 DEF AskServer, TypeOK
  <2>3. net' \subseteq Packets
    <3>1. contexts[k] \in Contexts
      BY <1>18 DEF AskServer, TypeOK
    <3>2. /\ contexts[k].query \in Queries /\ contexts[k].cids[s] \in 0..MaxDials
      BY <3>1 DEF Contexts
    <3>3. inTable[s] = contexts[k].cids[s] /\ live[s] = contexts[k].cids[s]
            => contexts[k].cids[s] \in Dials
      <4>1. contexts[k].cids[s] # 0
        BY <1>18 DEF AskServer, Owned, Begun
      <4> QED
        BY <3>2, <4>1, QueryConstants DEF Dials
    <3> QED
      BY <1>18, <3>2, <3>3, AskTyped DEF AskServer, TypeOK
  <2>4. aggJobs' \subseteq AggJobs
    <3>1. AggJob(k, s, "FailedNetwork", {}) \in AggJobs
      BY AggJobTyped, EmptyFound DEF Outcomes
    <3> QED
      BY <1>18, <3>1 DEF AskServer, TypeOK
  <2> QED
    BY <1>18, <2>1, <2>2, <2>3, <2>4
       DEF AskServer, TypeOK, clientVars, connVars, poolVars, serverVars
<1>19. ASSUME NEW j \in aggJobs, StoreResult(j)
      PROVE  TypeOK'
  <2>j. j \in AggJobs
    BY DEF TypeOK
  <2>k. contexts[j.search] # None
    BY DEF Owned, AggOwned
  <2>1. contexts' \in [Searches -> Contexts \cup {None}]
    <3>1. /\ j.search \in Searches /\ j.server \in Servers /\ j.why \in Outcomes /\ j.data \in Found
      BY <2>j DEF AggJobs
    <3> DEFINE x == contexts[j.search]
               F == IF j.why = "Success" THEN x.failed ELSE x.failed \cup {<<j.server, j.why>>}
    <3>2. [x EXCEPT !.results[j.server] = j.data, !.failed = F] \in Contexts
      <4>1. x \in Contexts
        BY <3>1, <2>k DEF TypeOK
      <4>2. F \in SUBSET (Servers \X Outcomes)
        BY <3>1, <4>1 DEF Contexts
      <4> QED
        BY <3>1, <4>1, <4>2, ContextsMoved
    <3>3. contexts' = [contexts EXCEPT ![j.search] = [x EXCEPT !.results[j.server] = j.data, !.failed = F]]
      BY <1>19, <3>1 DEF StoreResult, TypeOK
    <3> QED
      BY <3>1, <3>2, <3>3 DEF TypeOK
  <2>2. aggJobs' \subseteq AggJobs
    <3>1. [j EXCEPT !.at = "finish"] \in AggJobs
      BY <2>j DEF AggJobs
    <3> QED
      BY <1>19, <3>1 DEF StoreResult, TypeOK
  <2> QED
    BY <1>19, <2>1, <2>2 DEF StoreResult, TypeOK, clientVars, connVars, poolVars, serverVars
<1>20. ASSUME NEW j \in aggJobs, FinishJob(j)
      PROVE  TypeOK'
  <2>j. j \in AggJobs
    BY DEF TypeOK
  <2>k. contexts[j.search] # None
    BY DEF Owned, AggOwned
  <2>1. aggJobs' \subseteq AggJobs
    BY <1>20 DEF FinishJob, TypeOK
  <2>2. contexts' \in [Searches -> Contexts \cup {None}]
    <3>1. j.search \in Searches
      BY <2>j DEF AggJobs
    <3> DEFINE x == contexts[j.search]
               counted == [x EXCEPT !.left = (@ - 1) % CountMod]
    <3>2. counted \in Contexts
      BY <3>1, <2>k, ContextsMoved DEF TypeOK
    <3>3. Aggregated(counted) \in Contexts
      BY <3>2, ContextsMoved
    <3>4. \/ contexts' = [contexts EXCEPT ![j.search] = Aggregated(counted)]
          \/ contexts' = [contexts EXCEPT ![j.search] = counted]
      BY <1>20 DEF FinishJob
    <3> HIDE DEF counted
    <3> QED
      BY <3>1, <3>2, <3>3, <3>4 DEF TypeOK
  <2>3. net' \subseteq Packets
    <3>1. j.search \in Ids \X Resources
      BY <2>j DEF AggJobs, Searches
    <3>2. Merged(contexts[j.search]) \in Found
      BY <3>1, <2>k, MergedTyped DEF TypeOK, Searches
    <3>3. GetConnection(j.search[1]) \in up => GetConnection(j.search[1]) \in Ids
      BY DEF TypeOK
    <3>4. GetConnection(j.search[1]) \in up =>
            Response(GetConnection(j.search[1]), j.search[2], Merged(contexts[j.search])) \in Packets
      BY <3>1, <3>2, <3>3, ResponseTyped
    <3>5. \/ net' = net
          \/ /\ GetConnection(j.search[1]) \in up
             /\ net' = net \cup {Response(GetConnection(j.search[1]), j.search[2], Merged(contexts[j.search]))}
      BY <1>20 DEF FinishJob, Respond
    <3> QED
      BY <3>4, <3>5 DEF TypeOK
  <2> QED
    BY <1>20, <2>1, <2>2, <2>3 DEF FinishJob, TypeOK, clientVars, connVars, poolVars, serverVars
<1>21. ASSUME NEW k \in Searches, NEW s \in Servers, AggTimeOut(k, s)
      PROVE  TypeOK'
  <2>1. aggCallbacks' \subseteq Searches \X Servers
    BY <1>21 DEF AggTimeOut, TypeOK
  <2>2. aggJobs' \subseteq AggJobs
    <3>1. AggJob(k, s, "Timeout", {}) \in AggJobs
      BY AggJobTyped, EmptyFound DEF Outcomes
    <3> QED
      BY <1>21, <3>1 DEF AggTimeOut, TypeOK
  <2> QED
    BY <1>21, <2>1, <2>2 DEF AggTimeOut, TypeOK, clientVars, connVars, poolVars, serverVars
<1>22. ASSUME NEW p \in net, AggResponseHandler(p)
      PROVE  TypeOK'
  <2>1. net' \subseteq Packets
    BY <1>22 DEF AggResponseHandler, TypeOK
  <2>2. aggCallbacks' \subseteq Searches \X Servers
    BY <1>22 DEF AggResponseHandler, TypeOK
  <2>3. aggJobs' \subseteq AggJobs
    <3>1. AggJob(p.search, p.server, "Success", p.data) \in AggJobs
      BY <1>22, AggJobTyped, PacketsTyped DEF AggResponseHandler, TypeOK, Outcomes
    <3> QED
      BY <1>22, <3>1 DEF AggResponseHandler, TypeOK
  <2> QED
    BY <1>22, <2>1, <2>2, <2>3
       DEF AggResponseHandler, TypeOK, clientVars, connVars, poolVars, serverVars
<1>23. ASSUME NEW p \in net, Search(p)
      PROVE  TypeOK'
  <2>1. net' \subseteq Packets
    <3>1. /\ p.server \in Servers /\ p.dial \in Dials /\ p.search \in Searches /\ p.query \in Queries
      BY <1>23, PacketsTyped DEF Search, TypeOK
    <3>2. {<<p.server, p.query>>} \in Found
      BY <3>1 DEF Found
    <3>3. Reply(p.server, p.dial, p.search, {<<p.server, p.query>>}) \in Packets
      BY <3>1, <3>2, ReplyTyped
    <3> QED
      BY <1>23, <3>3 DEF Search, TypeOK
  <2> QED
    BY <1>23, <2>1 DEF Search, TypeOK, clientVars, connVars, poolVars, searchVars, serverVars
<1>24. ASSUME NEW s \in Servers, BreakServer(s)
      PROVE  TypeOK'
  <2>1. live' \in [Servers -> 0..MaxDials]
    BY <1>24, QueryConstants DEF BreakServer, TypeOK
  <2>2. net' \subseteq Packets
    BY <1>24 DEF BreakServer, TypeOK
  <2>3. aggJobs' \subseteq AggJobs
    <3>1. PICK lost \in SUBSET OnServer(s) :
            \E F \in SUBSET {p \in lost : p.type = "ask"} :
              aggJobs' = aggJobs \cup {AggJob(p.search, s, "FailedNetwork", {}) : p \in F}
      BY <1>24, Zenon DEF BreakServer
    <3>2. PICK F \in SUBSET {p \in lost : p.type = "ask"} :
            aggJobs' = aggJobs \cup {AggJob(p.search, s, "FailedNetwork", {}) : p \in F}
      BY <3>1
    <3>3. \A p \in F : p.search \in Searches
      BY PacketsTyped DEF TypeOK, OnServer
    <3>4. \A p \in F : AggJob(p.search, s, "FailedNetwork", {}) \in AggJobs
      BY <3>3, AggJobTyped, EmptyFound DEF Outcomes
    <3> QED
      BY <3>2, <3>4 DEF TypeOK
  <2>4. breaks' \in 0..MaxBreaks
    BY <1>24, QueryConstants DEF BreakServer, TypeOK
  <2> QED
    BY <1>24, <2>1, <2>2, <2>3, <2>4 DEF BreakServer, TypeOK, clientVars, connVars, poolVars
<1>25. ASSUME NEW s \in Servers, ServerClosed(s)
      PROVE  TypeOK'
  <2>1. inTable' \in [Servers -> 0..MaxDials]
    BY <1>25, QueryConstants DEF ServerClosed, TypeOK
  <2>2. status' \in [Servers -> {"Disconnected", "Connecting", "Connected"}]
    BY <1>25 DEF ServerClosed, TypeOK
  <2>3. pending' \subseteq Servers
    BY <1>25 DEF ServerClosed, TypeOK
  <2> QED
    BY <1>25, <2>1, <2>2, <2>3
       DEF ServerClosed, TypeOK, clientVars, connVars, poolVars, searchVars
<1>26. ASSUME ConnectToPendingServers
      PROVE  TypeOK'
  <2>1. pending' \subseteq Servers
    BY <1>26 DEF ConnectToPendingServers, TypeOK
  <2>2. status' \in [Servers -> {"Disconnected", "Connecting", "Connected"}]
    BY <1>26 DEF ConnectToPendingServers, TypeOK
  <2>3. starting' \subseteq Servers
    BY <1>26 DEF ConnectToPendingServers, TypeOK
  <2> QED
    BY <1>26, <2>1, <2>2, <2>3
       DEF ConnectToPendingServers, TypeOK, clientVars, connVars, poolVars, searchVars
<1>27. ASSUME NEW s \in Servers, Dial(s)
      PROVE  TypeOK'
  <2>1. starting' \subseteq Servers
    BY <1>27 DEF Dial, TypeOK
  <2>2. dial' \in [Servers -> Dials]
    BY <1>27, QueryConstants DEF Dial, TypeOK, Dials
  <2>3. live' \in [Servers -> 0..MaxDials]
    BY <1>27, QueryConstants DEF Dial, TypeOK, Dials
  <2>4. inTable' \in [Servers -> 0..MaxDials]
    BY <1>27, QueryConstants DEF Dial, TypeOK, Dials
  <2>5. fresh' \subseteq Servers
    BY <1>27 DEF Dial, TypeOK
  <2>6. pending' \subseteq Servers
    BY <1>27 DEF Dial, TypeOK
  <2> QED
    BY <1>27, <2>1, <2>2, <2>3, <2>4, <2>5, <2>6
       DEF Dial, TypeOK, clientVars, connVars, poolVars, searchVars
<1>28. ASSUME NEW s \in Servers, StoreServerId(s)
      PROVE  TypeOK'
  <2>1. fresh' \subseteq Servers
    BY <1>28 DEF StoreServerId, TypeOK
  <2>2. stored' \subseteq Servers
    BY <1>28 DEF StoreServerId, TypeOK
  <2>3. cid' \in [Servers -> Dials]
    BY <1>28 DEF StoreServerId, TypeOK
  <2> QED
    BY <1>28, <2>1, <2>2, <2>3
       DEF StoreServerId, TypeOK, clientVars, connVars, poolVars, searchVars
<1>29. ASSUME NEW s \in Servers, StoreServerStatus(s)
      PROVE  TypeOK'
  <2>1. stored' \subseteq Servers
    BY <1>29 DEF StoreServerStatus, TypeOK
  <2>2. status' \in [Servers -> {"Disconnected", "Connecting", "Connected"}]
    BY <1>29 DEF StoreServerStatus, TypeOK
  <2> QED
    BY <1>29, <2>1, <2>2
       DEF StoreServerStatus, TypeOK, clientVars, connVars, poolVars, searchVars
<1>30. CASE UNCHANGED vars
  BY <1>30 DEF TypeOK, vars, clientVars, connVars, poolVars, searchVars, serverVars
<1> QED
  BY <1>1, <1>2, <1>3, <1>4, <1>5, <1>6, <1>7, <1>8, <1>9, <1>10, <1>11, <1>12, <1>13, <1>14,
     <1>15, <1>16, <1>17, <1>18, <1>19, <1>20, <1>21, <1>22, <1>23, <1>24, <1>25, <1>26,
     <1>27, <1>28, <1>29, <1>30
     DEF Next, Client, MainStep, JobStep, Links, Aggregator, AggregatorStep, Server

-----------------------------------------------------------------------------
\* Each part of Owned depends on a few variables only.
LEMMA Kept ==
  ASSUME Owned, owner' = owner
  PROVE  /\ UNCHANGED <<pc, sent, contexts>> => Begun'
         /\ UNCHANGED <<nextId, conn, table, dialled>> => LinksOwned'
         /\ net' \subseteq net /\ UNCHANGED contexts => NetOwned'
         /\ UNCHANGED contexts => ContextsOwned'
         /\ UNCHANGED <<contexts, aggCallbacks, aggJobs>> => AggOwned'
         /\ UNCHANGED jobs => JobsOwned'
         /\ UNCHANGED answers => OwnAnswer'
<1>1. UNCHANGED <<pc, sent, contexts>> => Begun'
  BY DEF Owned, Begun
<1>2. UNCHANGED <<nextId, conn, table, dialled>> => LinksOwned'
  BY DEF Owned, LinksOwned
<1>3. net' \subseteq net /\ UNCHANGED contexts => NetOwned'
  BY DEF Owned, NetOwned, PacketOwned, QueryOf
<1>4. UNCHANGED contexts => ContextsOwned'
  BY DEF Owned, ContextsOwned, QueryOf
<1>5. UNCHANGED <<contexts, aggCallbacks, aggJobs>> => AggOwned'
  BY DEF Owned, AggOwned, QueryOf
<1>6. UNCHANGED jobs => JobsOwned'
  BY DEF Owned, JobsOwned
<1>7. UNCHANGED answers => OwnAnswer'
  BY DEF Owned, OwnAnswer
<1> QED
  BY <1>1, <1>2, <1>3, <1>4, <1>5, <1>6, <1>7

\* A context stays once it is there, and what refers to it stays right.
LEMMA Grown ==
  ASSUME TypeOK, Owned, owner' = owner,
         \A k \in Searches : contexts[k] # None => contexts'[k] # None
  PROVE  /\ \A p \in net : PacketOwned(p)'
         /\ \A x \in aggCallbacks : contexts'[x[1]] # None
         /\ \A j \in aggJobs : contexts'[j.search] # None /\ j.data \in For(QueryOf(j.search)')
<1>1. ASSUME NEW p \in net
      PROVE  PacketOwned(p)'
  <2>1. p \in Packets
    BY DEF TypeOK
  <2>2. PacketOwned(p)
    BY DEF Owned, NetOwned
  <2>3. p.type = "response" => <<p.link, p.resource>> \in Searches
    BY <2>1, PacketsTyped DEF Searches
  <2>4. p.type \in {"ask", "reply"} => p.search \in Searches
    BY <2>1, PacketsTyped
  <2> QED
    BY <2>2, <2>3, <2>4 DEF PacketOwned, QueryOf
<1>2. ASSUME NEW x \in aggCallbacks
      PROVE  contexts'[x[1]] # None
  BY DEF TypeOK, Owned, AggOwned
<1>3. ASSUME NEW j \in aggJobs
      PROVE  contexts'[j.search] # None /\ j.data \in For(QueryOf(j.search)')
  <2>1. j.search \in Searches
    BY DEF TypeOK, AggJobs
  <2> QED
    BY <2>1 DEF Owned, AggOwned, QueryOf
<1> QED
  BY <1>1, <1>2, <1>3

\* A callback begins with what was found for its query.
LEMMA JobsOwnedStarted ==
  ASSUME TypeOK, Owned, NEW c \in Clients, NEW r, NEW o, NEW d \in For(<<c, r>>), NEW b,
         StartJob(c, Job(r, o, d, b))
  PROVE  JobsOwned'
<1>1. /\ Job(r, o, d, b).resource = r
      /\ Job(r, o, d, b).data = d
  BY DEF Job
<1>2. jobs' = [jobs EXCEPT ![c] = @ \cup {Job(r, o, d, b)}]
  BY DEF StartJob
<1>3. jobs \in [Clients -> SUBSET Jobs]
  BY DEF TypeOK
<1> QED
  BY <1>1, <1>2, <1>3 DEF Owned, JobsOwned

\* A callback keeps what it was given until it ends.
LEMMA JobsOwnedMoved ==
  ASSUME TypeOK, Owned, NEW c \in Clients, NEW j \in jobs[c], NEW at \in {"call", "decrease", "notify"}
  PROVE  /\ MoveJob(c, j, at) => JobsOwned'
         /\ EndJob(c, j) => JobsOwned'
         /\ Counted(c, j) => JobsOwned'
<1>1. jobs \in [Clients -> SUBSET Jobs]
  BY DEF TypeOK
<1>2. ASSUME NEW a \in {"call", "decrease", "notify"}
      PROVE  MoveJob(c, j, a) => JobsOwned'
  <2>1. j \in Jobs
    BY <1>1
  <2>2. /\ [j EXCEPT !.at = a].resource = j.resource
        /\ [j EXCEPT !.at = a].data = j.data
    BY <2>1, MovedTyped
  <2> QED
    BY <1>1, <2>2 DEF MoveJob, Owned, JobsOwned
<1>3. EndJob(c, j) => JobsOwned'
  BY <1>1 DEF EndJob, Owned, JobsOwned
<1> QED
  BY <1>2, <1>3 DEF Counted

\* A send that fails finds nothing.
LEMMA JobsOwnedClosed ==
  ASSUME TypeOK, Owned, NEW l, CloseLink(l)
  PROVE  JobsOwned'
<1>1. PICK F : jobs' = [c \in Clients |-> jobs[c] \cup
        {Job(p.query[2], "FailedNetwork", {}, FALSE) : p \in {x \in F : x.query[1] = c}}]
  BY Zenon DEF CloseLink
<1>2. ASSUME NEW c \in Clients, NEW j \in jobs'[c]
      PROVE  j.data \in For(<<c, j.resource>>)
  <2>1. CASE j \in jobs[c]
    BY <2>1 DEF Owned, JobsOwned
  <2>2. CASE j \notin jobs[c]
    <3>1. PICK p : j = Job(p.query[2], "FailedNetwork", {}, FALSE)
      BY <1>1, <1>2, <2>2
    <3> QED
      BY <3>1 DEF Job, For
  <2> QED
    BY <2>1, <2>2
<1> QED
  BY <1>2 DEF JobsOwned

\* One step of the aggregator changes a context to y.
Updates(k, y) ==
  /\ contexts' = [contexts EXCEPT ![k] = y]
  /\ y.query = contexts[k].query /\ y.cids = contexts[k].cids
  /\ y.toAsk \subseteq contexts[k].toAsk
  /\ \A s \in Servers : y.results[s] # None => y.results[s] \in For(QueryOf(k))

\* Asking a server only shortens the list of servers to ask.
LEMMA AskUpdates ==
  ASSUME TypeOK, Owned, NEW k \in Searches, NEW s \in Servers, AskServer(k, s)
  PROVE  \E y \in Contexts : Updates(k, y)
<1> DEFINE y == [contexts[k] EXCEPT !.toAsk = @ \ {s}]
<1>1. contexts[k] \in Contexts /\ contexts[k] # None
  BY DEF AskServer, TypeOK
<1>2. contexts' = [contexts EXCEPT ![k] = y]
  BY DEF AskServer, TypeOK
<1>3. y \in Contexts
  BY <1>1, ContextsMoved
<1>4. /\ y.query = contexts[k].query /\ y.cids = contexts[k].cids
      /\ y.toAsk \subseteq contexts[k].toAsk /\ y.results = contexts[k].results
  BY <1>1 DEF Contexts
<1>5. \A t \in Servers : y.results[t] # None => y.results[t] \in For(QueryOf(k))
  BY <1>1, <1>4 DEF Owned, ContextsOwned
<1> HIDE DEF y
<1> QED
  BY <1>2, <1>3, <1>4, <1>5 DEF Updates

\* A stored result was found for the query of its search.
LEMMA StoreUpdates ==
  ASSUME TypeOK, Owned, NEW j \in aggJobs, StoreResult(j)
  PROVE  \E y \in Contexts : Updates(j.search, y)
<1> DEFINE x == contexts[j.search]
           F == IF j.why = "Success" THEN x.failed ELSE x.failed \cup {<<j.server, j.why>>}
           y == [x EXCEPT !.results[j.server] = j.data, !.failed = F]
<1>1. /\ j \in AggJobs /\ j.search \in Searches /\ j.server \in Servers
      /\ j.why \in Outcomes /\ j.data \in Found
  BY DEF TypeOK, AggJobs
<1>2. x # None /\ x \in Contexts /\ j.data \in For(QueryOf(j.search))
  BY <1>1 DEF TypeOK, Owned, AggOwned
<1>3. contexts' = [contexts EXCEPT ![j.search] = y]
  BY <1>1 DEF StoreResult, TypeOK
<1>4. y \in Contexts
  <2>1. F \in SUBSET (Servers \X Outcomes)
    BY <1>1, <1>2 DEF Contexts
  <2> QED
    BY <1>1, <1>2, <2>1, ContextsMoved
<1>5. /\ y.query = x.query /\ y.cids = x.cids /\ y.toAsk = x.toAsk
      /\ y.results = [x.results EXCEPT ![j.server] = j.data]
  BY <1>2 DEF Contexts
<1>6. \A t \in Servers : y.results[t] # None => y.results[t] \in For(QueryOf(j.search))
  BY <1>1, <1>2, <1>5 DEF Contexts, Owned, ContextsOwned
<1> HIDE DEF y
<1> QED
  BY <1>3, <1>4, <1>5, <1>6 DEF Updates

\* Counting and aggregating results keeps them with their query.
LEMMA FinishUpdates ==
  ASSUME TypeOK, Owned, NEW j \in aggJobs, FinishJob(j)
  PROVE  \E y \in Contexts : Updates(j.search, y)
<1> DEFINE x == contexts[j.search]
           counted == [x EXCEPT !.left = (@ - 1) % CountMod]
           done == Aggregated(counted)
<1>1. j.search \in Searches /\ x # None /\ x \in Contexts
  BY DEF TypeOK, AggJobs, Owned, AggOwned
<1>2. counted \in Contexts /\ done \in Contexts
  <2>1. counted \in Contexts
    BY <1>1, ContextsMoved
  <2> HIDE DEF counted
  <2> QED
    BY <2>1, ContextsMoved
<1>3. /\ counted.query = x.query /\ counted.cids = x.cids /\ counted.toAsk = x.toAsk
      /\ counted.results = x.results
  BY <1>1 DEF Contexts
<1>4. \A s \in Servers : x.results[s] # None => x.results[s] \in For(QueryOf(j.search))
  BY <1>1 DEF Owned, ContextsOwned
<1>5. \/ contexts' = [contexts EXCEPT ![j.search] = done]
      \/ contexts' = [contexts EXCEPT ![j.search] = counted]
  BY DEF FinishJob
<1> HIDE DEF counted
<1>6. /\ done.query = x.query /\ done.cids = x.cids /\ done.toAsk = x.toAsk
      /\ done.results = [s \in Servers |-> IF x.results[s] = None THEN None ELSE {}]
  BY <1>2, <1>3 DEF Aggregated, Contexts
<1>7. \A s \in Servers : done.results[s] # None => done.results[s] \in For(QueryOf(j.search))
  BY <1>6 DEF For
<1> HIDE DEF done
<1>8. CASE contexts' = [contexts EXCEPT ![j.search] = done]
  BY <1>2, <1>6, <1>7, <1>8 DEF Updates
<1>9. CASE contexts' = [contexts EXCEPT ![j.search] = counted]
  BY <1>2, <1>3, <1>4, <1>9 DEF Updates
<1> QED
  BY <1>5, <1>8, <1>9

\* A context that is updated is still that of its query.
LEMMA ContextUpdated ==
  ASSUME TypeOK, Owned, UNCHANGED <<owner, pc, sent>>,
         NEW k \in Searches, contexts[k] # None, NEW y \in Contexts, Updates(k, y)
  PROVE  /\ Begun' /\ ContextsOwned' /\ Served' = Served
         /\ \A h \in Searches : contexts[h] # None => contexts'[h] # None
<1>1. /\ contexts'[k] = y /\ \A h \in Searches \ {k} : contexts'[h] = contexts[h]
      /\ y.query = contexts[k].query /\ y.cids = contexts[k].cids
      /\ y.toAsk \subseteq contexts[k].toAsk
      /\ \A s \in Servers : y.results[s] # None => y.results[s] \in For(QueryOf(k))
  BY DEF TypeOK, Updates
<1>2. y # None
  BY QueryConstants
<1>3. Begun'
  BY <1>1 DEF Owned, Begun
<1>4. ContextsOwned'
  BY <1>1 DEF Owned, ContextsOwned, QueryOf
<1>5. Served' = Served
  BY <1>1, <1>2 DEF Served
<1> QED
  BY <1>1, <1>2, <1>3, <1>4, <1>5

\* The merged results were found for the query of the search.
LEMMA MergedOwned ==
  ASSUME Owned, NEW k \in Searches, contexts[k] # None
  PROVE  Merged(contexts[k]) \in For(QueryOf(k))
BY DEF Owned, ContextsOwned, Merged, For

\* Owners are kept by every action.
LEMMA OwnedNext ==
  ASSUME TypeOK, Owned, [Next]_vars
  PROVE  Owned'
<1>1. ASSUME NEW c \in Clients, RegisterQuery(c)
      PROVE  Owned'
  <2>1. Begun'
    BY <1>1 DEF RegisterQuery, TypeOK, Owned, Begun, searchVars
  <2> QED
    BY <1>1, <2>1, Kept DEF RegisterQuery, Owned, connVars, poolVars, searchVars, serverVars
<1>2. ASSUME NEW c \in Clients, SubmitQuery(c)
      PROVE  Owned'
  <2>1. Begun'
    BY <1>2 DEF SubmitQuery, TypeOK, Owned, Begun, searchVars
  <2>2. NetOwned'
    <3>1. via[c] # 0 /\ table[c] = via[c] => owner[via[c]] = c
      BY DEF Owned, LinksOwned
    <3>2. ASSUME NEW o, o = Request(via[c], <<c, sent[c]>>), table[c] = via[c], via[c] # 0
          PROVE  PacketOwned(o)'
      BY <1>2, <3>1, <3>2 DEF SubmitQuery, PacketOwned, Request, poolVars
    <3>3. /\ UNCHANGED contexts /\ owner' = owner
          /\ \/ net' = net
             \/ /\ via[c] # 0 /\ table[c] = via[c]
                /\ net' = net \cup {Request(via[c], <<c, sent[c]>>)}
      BY <1>2 DEF SubmitQuery, SendPacket, searchVars, poolVars
    <3> QED
      BY <3>2, <3>3, Grown DEF NetOwned
  <2>3. JobsOwned'
    <3>1. {} \in For(<<c, sent[c]>>)
      BY DEF For
    <3>2. \/ UNCHANGED jobs
          \/ \E b : StartJob(c, Job(sent[c], "FailedNetwork", {}, b))
      BY <1>2 DEF SubmitQuery, SendPacket
    <3> QED
      BY <3>1, <3>2, JobsOwnedStarted DEF Owned, JobsOwned
  <2> QED
    BY <1>2, <2>1, <2>2, <2>3, Kept
       DEF SubmitQuery, Owned, connVars, poolVars, searchVars, serverVars
<1>3. ASSUME NEW c \in Clients, WaitAllFinished(c)
      PROVE  Owned'
  <2>1. Begun'
    BY <1>3 DEF WaitAllFinished, TypeOK, Owned, Begun, searchVars
  <2> QED
    BY <1>3, <2>1, Kept DEF WaitAllFinished, Owned, connVars, poolVars, searchVars, serverVars
<1>4. ASSUME NEW c \in Clients, WakeSpuriously(c)
      PROVE  Owned'
  <2>1. Begun'
    BY <1>4 DEF WakeSpuriously, TypeOK, Owned, Begun, searchVars
  <2> QED
    BY <1>4, <2>1, Kept DEF WakeSpuriously, Owned, connVars, poolVars, searchVars, serverVars
<1>5. ASSUME NEW c \in Clients, NEW j \in jobs[c], RunCallback(c, j)
      PROVE  Owned'
  <2>1. JobsOwned'
    BY <1>5, JobsOwnedMoved DEF RunCallback
  <2>2. OwnAnswer'
    <3>1. answers' = [answers EXCEPT ![c] = Append(@, [resource |-> j.resource,
                                 outcome |-> j.outcome, data |-> j.data])]
      BY <1>5 DEF RunCallback
    <3>2. answers[c] \in Seq(Answers)
      BY DEF TypeOK
    <3>3. j.data \subseteq Servers \X {<<c, j.resource>>}
      BY DEF Owned, JobsOwned, For
    <3>4. ASSUME NEW i \in DOMAIN answers'[c]
          PROVE  answers'[c][i].data \subseteq Servers \X {<<c, answers'[c][i].resource>>}
      <4>1. CASE i \in DOMAIN answers[c]
        <5>1. answers'[c][i] = answers[c][i]
          BY <3>1, <3>2, <4>1 DEF TypeOK
        <5> QED
          BY <4>1, <5>1 DEF Owned, OwnAnswer
      <4>2. CASE i \notin DOMAIN answers[c]
        <5>1. answers'[c][i] = [resource |-> j.resource, outcome |-> j.outcome, data |-> j.data]
          BY <3>1, <3>2, <3>4, <4>2 DEF TypeOK
        <5> QED
          BY <3>3, <5>1
      <4> QED
        BY <4>1, <4>2
    <3>5. \A d \in Clients \ {c} : answers'[d] = answers[d]
      BY <3>1 DEF TypeOK
    <3> QED
      BY <3>4, <3>5 DEF Owned, OwnAnswer
  <2> QED
    BY <1>5, <2>1, <2>2, Kept DEF RunCallback, Owned, connVars, poolVars, searchVars, serverVars
<1>6. ASSUME NEW c \in Clients, NEW j \in jobs[c], DecreaseUnfinishedJobCount(c, j)
      PROVE  Owned'
  <2>1. JobsOwned'
    BY <1>6, JobsOwnedMoved DEF DecreaseUnfinishedJobCount
  <2> QED
    BY <1>6, <2>1, Kept
       DEF DecreaseUnfinishedJobCount, Owned, connVars, poolVars, searchVars, serverVars
<1>7. ASSUME NEW c \in Clients, NEW j \in jobs[c], NotifyWaiting(c, j)
      PROVE  Owned'
  <2>1. Begun'
    BY <1>7 DEF NotifyWaiting, TypeOK, Owned, Begun, searchVars
  <2>2. JobsOwned'
    BY <1>7, JobsOwnedMoved DEF NotifyWaiting
  <2> QED
    BY <1>7, <2>1, <2>2, Kept
       DEF NotifyWaiting, Owned, connVars, poolVars, searchVars, serverVars
<1>8. ASSUME NEW c \in Clients, NEW r \in Resources, TimeOut(c, r)
      PROVE  Owned'
  <2>1. JobsOwned'
    <3>1. {} \in For(<<c, r>>)
      BY DEF For
    <3> QED
      BY <1>8, <3>1, JobsOwnedStarted DEF TimeOut
  <2> QED
    BY <1>8, <2>1, Kept DEF TimeOut, Owned, connVars, poolVars, searchVars, serverVars
<1>9. ASSUME NEW c \in Clients, NEW p \in net, SearchResponseHandler(c, p)
      PROVE  Owned'
  <2>1. JobsOwned'
    <3>1. p.data \in For(<<c, p.resource>>)
      BY <1>9 DEF SearchResponseHandler, Owned, NetOwned, PacketOwned
    <3> QED
      BY <1>9, <3>1, JobsOwnedStarted DEF SearchResponseHandler, Owned, JobsOwned
  <2> QED
    BY <1>9, <2>1, Kept
       DEF SearchResponseHandler, Owned, connVars, poolVars, searchVars, serverVars
<1>10. ASSUME NEW l \in Ids, Break(l)
      PROVE  Owned'
  <2>1. net' \subseteq net
    BY <1>10, LinkClosed DEF Break
  <2>2. JobsOwned'
    BY <1>10, JobsOwnedClosed DEF Break
  <2> QED
    BY <1>10, <2>1, <2>2, Kept DEF Break, Owned, connVars, searchVars, serverVars
<1>11. ASSUME NEW l \in Ids, RemoveConnection(l)
      PROVE  Owned'
  <2>1. net' \subseteq net
    BY <1>11, LinkClosed DEF RemoveConnection
  <2>2. JobsOwned'
    BY <1>11, JobsOwnedClosed DEF RemoveConnection, Owned, JobsOwned
  <2> QED
    BY <1>11, <2>1, <2>2, Kept DEF RemoveConnection, Owned, connVars, searchVars, serverVars
<1>12. ASSUME NEW c \in Clients, HandleDeadConnection(c)
      PROVE  Owned'
  <2>1. LinksOwned'
    BY <1>12 DEF HandleDeadConnection, TypeOK, Owned, LinksOwned, poolVars
  <2> QED
    BY <1>12, <2>1, Kept
       DEF HandleDeadConnection, Owned, clientVars, poolVars, searchVars, serverVars
<1>13. ASSUME NEW c \in Clients, NEW l \in Ids, ConnectToServer(c, l)
      PROVE  Owned'
  <2>1. owner[l] = None
    <3>1. l >= nextId /\ nextId \in Int /\ l \in Int
      BY <1>13 DEF ConnectToServer, TypeOK, Ids
    <3> QED
      BY <3>1 DEF Owned, LinksOwned
  <2>2. owner' = [owner EXCEPT ![l] = c] /\ UNCHANGED contexts
    BY <1>13 DEF ConnectToServer, searchVars
  <2>3. \A i \in Ids : owner[i] # None => owner'[i] = owner[i]
    BY <2>1, <2>2 DEF TypeOK
  <2>4. \A k \in Searches : contexts[k] # None => QueryOf(k)' = QueryOf(k)
    <3>1. \A k \in Searches : contexts[k] # None => owner[k[1]] \in Clients /\ k[1] \in Ids
      BY DEF Owned, ContextsOwned, Searches
    <3> QED
      BY <2>3, <3>1, QueryConstants DEF QueryOf
  <2>5. Begun'
    BY <1>13 DEF ConnectToServer, Owned, Begun, clientVars, searchVars
  <2>6. LinksOwned'
    <3>1. \A i \in Ids : owner'[i] # None => i < nextId'
      BY <1>13, <2>2 DEF ConnectToServer, TypeOK, Owned, LinksOwned, Ids
    <3>2. ASSUME NEW d \in Clients
          PROVE  /\ conn[d] # 0 => owner'[conn[d]] = d
                 /\ table[d] # 0 => owner'[table[d]] = d
                 /\ dialled[d] # 0 => owner'[dialled[d]] = d
      <4>1. /\ conn[d] # 0 => conn[d] \in Ids
            /\ table[d] # 0 => table[d] \in Ids
            /\ dialled[d] # 0 => dialled[d] \in Ids
        <5>1. conn[d] \in 0..MaxIds /\ table[d] \in 0..MaxIds /\ dialled[d] \in 0..MaxIds
          BY DEF TypeOK
        <5> QED
          BY <5>1, QueryConstants DEF Ids
      <4> QED
        BY <2>3, <4>1, QueryConstants DEF Owned, LinksOwned
    <3>3. owner'[l] = c
      BY <2>2 DEF TypeOK
    <3>4. /\ conn' = conn /\ table' = [table EXCEPT ![c] = l]
          /\ dialled' = [dialled EXCEPT ![c] = l]
      BY <1>13 DEF ConnectToServer
    <3>5. table \in [Clients -> 0..MaxIds] /\ dialled \in [Clients -> 0..MaxIds]
      BY DEF TypeOK
    <3> QED
      BY <3>1, <3>2, <3>3, <3>4, <3>5 DEF LinksOwned
  <2>7. NetOwned'
    <3>1. ASSUME NEW p \in net
          PROVE  PacketOwned(p)'
      <4>1. PacketOwned(p) /\ p \in Packets
        BY DEF Owned, NetOwned, TypeOK
      <4>2. p.type = "request" => owner'[p.link] = p.query[1]
        <5>1. p.type = "request" => p.link \in Ids /\ p.query[1] \in Clients
          BY <4>1, PacketsTyped DEF Queries
        <5> QED
          BY <2>3, <4>1, <5>1, QueryConstants DEF PacketOwned
      <4>3. p.type = "response" => /\ contexts[<<p.link, p.resource>>] # None
                                   /\ p.data \in For(<<owner'[p.link], p.resource>>)
        <5>1. p.type = "response" => <<p.link, p.resource>> \in Searches
          BY <4>1, PacketsTyped DEF Searches
        <5> QED
          BY <2>4, <4>1, <5>1 DEF PacketOwned, QueryOf
      <4>4. p.type \in {"ask", "reply"} => p.search \in Searches
        BY <4>1, PacketsTyped
      <4> QED
        BY <2>2, <2>4, <4>1, <4>2, <4>3, <4>4 DEF PacketOwned
    <3> QED
      BY <1>13, <3>1 DEF ConnectToServer, NetOwned
  <2>8. ContextsOwned'
    <3>1. ASSUME NEW k \in Searches, contexts[k] # None
          PROVE  owner'[k[1]] \in Clients
      BY <2>3, <3>1, QueryConstants DEF Owned, ContextsOwned, Searches
    <3> QED
      BY <2>2, <2>4, <3>1 DEF Owned, ContextsOwned
  <2>9. AggOwned'
    <3>1. \A j \in aggJobs : j.search \in Searches
      BY DEF TypeOK, AggJobs
    <3> QED
      BY <1>13, <2>4, <3>1 DEF ConnectToServer, searchVars, Owned, AggOwned
  <2>10. JobsOwned' /\ OwnAnswer'
    BY <1>13 DEF ConnectToServer, clientVars, Owned, JobsOwned, OwnAnswer
  <2> QED
    BY <2>5, <2>6, <2>7, <2>8, <2>9, <2>10 DEF Owned
<1>14. ASSUME NEW c \in Clients, RefuseConnection(c)
      PROVE  Owned'
  <2>1. LinksOwned'
    BY <1>14, QueryConstants DEF RefuseConnection, TypeOK, Owned, LinksOwned, connVars, Ids
  <2> QED
    BY <1>14, <2>1, Kept
       DEF RefuseConnection, Owned, clientVars, connVars, searchVars, serverVars
<1>15. ASSUME NEW c \in Clients, StoreConnection(c)
      PROVE  Owned'
  <2>1. LinksOwned'
    BY <1>15 DEF StoreConnection, TypeOK, Owned, LinksOwned, poolVars
  <2> QED
    BY <1>15, <2>1, Kept
       DEF StoreConnection, Owned, clientVars, poolVars, searchVars, serverVars
<1>16. ASSUME NEW c \in Clients, GiveUpDialling(c)
      PROVE  Owned'
  BY <1>16, Kept DEF GiveUpDialling, Owned, clientVars, poolVars, searchVars, serverVars
<1>17. ASSUME NEW p \in net, NEW T \in Candidates, SearchRequestHandler(p, T)
      PROVE  Owned'
  <2>1. /\ p.link \in Ids /\ p.query \in Queries /\ p.query[2] \in Resources
       /\ <<p.link, p.query[2]>> \in Searches
    BY <1>17, PacketsTyped DEF SearchRequestHandler, TypeOK, Searches, Queries
  <2>2. p.query = QueryOf(<<p.link, p.query[2]>>) /\ owner[p.link] \in Clients
    <3>1. p.query = <<p.query[1], p.query[2]>> /\ p.query[1] \in Clients
      BY <2>1 DEF Queries
    <3>2. owner[p.link] = p.query[1]
      BY <1>17 DEF SearchRequestHandler, Owned, NetOwned, PacketOwned
    <3> QED
      BY <3>1, <3>2 DEF QueryOf
  <2>3. \A k \in Searches : contexts[k] # None => contexts'[k] # None
    <3>1. Context(p.query, {s \in T : status[s] = "Connected"}) # None
      BY <2>1, AskedTyped, ContextTyped, QueryConstants
    <3> QED
      BY <1>17, <3>1 DEF SearchRequestHandler, TypeOK
  <2>4. Begun'
    <3>1. \A s \in T : cid[s] # 0 /\ s \in Servers
      BY AskedTyped DEF TypeOK, Dials
    <3> QED
      BY <1>17, <3>1 DEF SearchRequestHandler, TypeOK, Owned, Begun, Context, clientVars
  <2>5. ContextsOwned'
    <3>1. \A k \in Searches : QueryOf(k)' = QueryOf(k)
      BY <1>17 DEF SearchRequestHandler, QueryOf, poolVars
    <3>2. ASSUME NEW k \in Searches, contexts'[k] # None
          PROVE  /\ owner[k[1]] \in Clients
                 /\ contexts'[k].query = QueryOf(k)
                 /\ \A s \in Servers : contexts'[k].results[s] # None =>
                      contexts'[k].results[s] \in For(QueryOf(k))
      <4>1. CASE k = <<p.link, p.query[2]>>
        <5>1. contexts'[k] = Context(p.query, {s \in T : status[s] = "Connected"})
          BY <1>17, <2>1, <4>1 DEF SearchRequestHandler, TypeOK
        <5> QED
          BY <2>2, <4>1, <5>1 DEF Context
      <4>2. CASE k # <<p.link, p.query[2]>>
        BY <1>17, <3>2, <4>2 DEF SearchRequestHandler, TypeOK, Owned, ContextsOwned
      <4> QED
        BY <4>1, <4>2
    <3> QED
      BY <1>17, <3>1, <3>2 DEF ContextsOwned, SearchRequestHandler, poolVars
  <2>6. NetOwned'
    BY <1>17, <2>3, Grown DEF SearchRequestHandler, NetOwned, poolVars
  <2>7. AggOwned'
    BY <1>17, <2>3, Grown DEF SearchRequestHandler, AggOwned, poolVars
  <2> QED
    BY <1>17, <2>1, <2>2, <2>3, <2>4, <2>5, <2>6, <2>7, Kept
       DEF SearchRequestHandler, Owned, clientVars, connVars, poolVars, serverVars
<1>18. ASSUME NEW k \in Searches, NEW s \in Servers, AskServer(k, s)
      PROVE  Owned'
  <2>1. /\ contexts[k] # None /\ contexts[k] \in Contexts /\ UNCHANGED <<owner, pc, sent>>
    BY <1>18 DEF AskServer, TypeOK, poolVars, clientVars
  <2>2. /\ Begun' /\ ContextsOwned'
       /\ \A h \in Searches : contexts[h] # None => contexts'[h] # None
    BY <1>18, <2>1, AskUpdates, ContextUpdated
  <2>3. NetOwned'
    <3>1. contexts'[k] # None /\ contexts[k].query = QueryOf(k)'
      BY <2>1, <2>2 DEF Owned, ContextsOwned, QueryOf
    <3>2. ASSUME NEW o, o = Ask(s, contexts[k].cids[s], k, contexts[k].query)
          PROVE  PacketOwned(o)'
      BY <3>1, <3>2 DEF PacketOwned, Ask
    <3>3. \/ net' = net
          \/ net' = net \cup {Ask(s, contexts[k].cids[s], k, contexts[k].query)}
      BY <1>18 DEF AskServer
    <3> QED
      BY <2>1, <2>2, <3>2, <3>3, Grown DEF NetOwned
  <2>4. AggOwned'
    <3>1. /\ AggJob(k, s, "FailedNetwork", {}).search = k
          /\ AggJob(k, s, "FailedNetwork", {}).data \in For(QueryOf(k)')
      BY DEF AggJob, For
    <3>2. /\ aggCallbacks' = aggCallbacks \cup {<<k, s>>}
          /\ aggJobs' \subseteq aggJobs \cup {AggJob(k, s, "FailedNetwork", {})}
      BY <1>18 DEF AskServer
    <3> QED
      BY <2>1, <2>2, <3>1, <3>2, Grown DEF AggOwned
  <2> QED
    BY <1>18, <2>1, <2>2, <2>3, <2>4, Kept
       DEF AskServer, Owned, clientVars, connVars, poolVars, serverVars
<1>19. ASSUME NEW j \in aggJobs, StoreResult(j)
      PROVE  Owned'
  <2>1. /\ j \in AggJobs /\ j.search \in Searches /\ j.server \in Servers
       /\ j.why \in Outcomes /\ j.data \in Found
    BY DEF TypeOK, AggJobs
  <2>2. /\ contexts[j.search] # None /\ contexts[j.search] \in Contexts
       /\ j.data \in For(QueryOf(j.search)) /\ UNCHANGED <<owner, pc, sent>>
    BY <1>19, <2>1 DEF StoreResult, TypeOK, Owned, AggOwned, poolVars, clientVars
  <2>3. /\ Begun' /\ ContextsOwned'
       /\ \A h \in Searches : contexts[h] # None => contexts'[h] # None
    BY <1>19, <2>1, <2>2, StoreUpdates, ContextUpdated
  <2>4. NetOwned'
    BY <1>19, <2>3, Grown DEF StoreResult, NetOwned, poolVars
  <2>5. AggOwned'
    <3>1. /\ [j EXCEPT !.at = "finish"].search = j.search
          /\ [j EXCEPT !.at = "finish"].data = j.data
      BY <2>1 DEF AggJobs
    <3>2. /\ aggCallbacks' = aggCallbacks
          /\ aggJobs' = (aggJobs \ {j}) \cup {[j EXCEPT !.at = "finish"]}
      BY <1>19 DEF StoreResult
    <3> QED
      BY <2>1, <2>2, <2>3, <3>1, <3>2, Grown DEF AggOwned, QueryOf
  <2> QED
    BY <1>19, <2>1, <2>2, <2>3, <2>4, <2>5, Kept
       DEF StoreResult, Owned, clientVars, connVars, poolVars, serverVars
<1>20. ASSUME NEW j \in aggJobs, FinishJob(j)
      PROVE  Owned'
  <2>1. /\ j.search \in Searches /\ contexts[j.search] # None /\ contexts[j.search] \in Contexts
       /\ UNCHANGED <<owner, pc, sent>>
    BY <1>20 DEF FinishJob, TypeOK, AggJobs, Owned, AggOwned, poolVars, clientVars
  <2>2. /\ Begun' /\ ContextsOwned'
       /\ \A h \in Searches : contexts[h] # None => contexts'[h] # None
    BY <1>20, <2>1, FinishUpdates, ContextUpdated
  <2>3. NetOwned'
    <3>1. j.search = <<j.search[1], j.search[2]>>
      BY <2>1 DEF Searches
    <3>2. 0 \notin up
      BY DEF TypeOK, Ids
    <3>3. \/ net' = net
          \/ net' = net \cup {Response(j.search[1], j.search[2], Merged(contexts[j.search]))}
      BY <1>20, <3>2 DEF FinishJob, Respond, GetConnection
    <3>4. Merged(contexts[j.search]) \in For(QueryOf(j.search))
      BY <2>1, MergedOwned
    <3>5. ASSUME NEW o, o = Response(j.search[1], j.search[2], Merged(contexts[j.search]))
          PROVE  PacketOwned(o)'
      <4>1. /\ o.type = "response" /\ o.link = j.search[1] /\ o.resource = j.search[2]
            /\ o.data = Merged(contexts[j.search])
        BY <3>5 DEF Response
      <4>2. contexts'[<<o.link, o.resource>>] # None
        BY <2>1, <2>2, <3>1, <4>1
      <4>3. o.data \in For(<<owner'[o.link], o.resource>>)
        BY <2>1, <3>4, <4>1 DEF QueryOf
      <4> QED
        BY <4>1, <4>2, <4>3 DEF PacketOwned
    <3> QED
      BY <2>1, <2>2, <3>3, <3>5, Grown DEF NetOwned
  <2>4. AggOwned'
    BY <1>20, <2>1, <2>2, Grown DEF FinishJob, AggOwned
  <2> QED
    BY <1>20, <2>1, <2>2, <2>3, <2>4, Kept
       DEF FinishJob, Owned, clientVars, connVars, poolVars, serverVars
<1>21. ASSUME NEW k \in Searches, NEW s \in Servers, AggTimeOut(k, s)
      PROVE  Owned'
  <2>1. AggOwned'
    <3>1. /\ AggJob(k, s, "Timeout", {}).search = k
          /\ AggJob(k, s, "Timeout", {}).data \in For(QueryOf(k))
      BY DEF AggJob, For
    <3>2. contexts[k] # None
      BY <1>21 DEF AggTimeOut, Owned, AggOwned
    <3> QED
      BY <1>21, <3>1, <3>2 DEF AggTimeOut, Owned, AggOwned, QueryOf, poolVars
  <2> QED
    BY <1>21, <2>1, Kept DEF AggTimeOut, Owned, clientVars, connVars, poolVars, serverVars
<1>22. ASSUME NEW p \in net, AggResponseHandler(p)
      PROVE  Owned'
  <2>1. net' \subseteq net
    BY <1>22 DEF AggResponseHandler
  <2>2. AggOwned'
    <3>1. /\ AggJob(p.search, p.server, "Success", p.data).search = p.search
          /\ AggJob(p.search, p.server, "Success", p.data).data = p.data
      BY DEF AggJob
    <3>2. contexts[p.search] # None /\ p.data \in For(QueryOf(p.search))
      BY <1>22 DEF AggResponseHandler, Owned, NetOwned, PacketOwned
    <3> QED
      BY <1>22, <3>1, <3>2 DEF AggResponseHandler, Owned, AggOwned, QueryOf, poolVars
  <2> QED
    BY <1>22, <2>1, <2>2, Kept
       DEF AggResponseHandler, Owned, clientVars, connVars, poolVars, serverVars
<1>23. ASSUME NEW p \in net, Search(p)
      PROVE  Owned'
  <2>1. NetOwned'
    <3> DEFINE answer == Reply(p.server, p.dial, p.search, {<<p.server, p.query>>})
    <3>1. contexts[p.search] # None /\ p.query = QueryOf(p.search)
      BY <1>23 DEF Search, Owned, NetOwned, PacketOwned
    <3>2. p.server \in Servers
      BY <1>23, PacketsTyped DEF Search, TypeOK
    <3>3. /\ answer.type = "reply" /\ answer.search = p.search
          /\ answer.data = {<<p.server, p.query>>}
      BY DEF Reply
    <3>4. PacketOwned(answer)'
      <4>1. answer.data \in For(QueryOf(p.search))
        <5>1. p.query = QueryOf(p.search)
          BY <3>1
        <5>2. <<p.server, p.query>> \in Servers \X {QueryOf(p.search)}
          BY <3>2, <5>1
        <5> QED
          BY <3>3, <5>2 DEF For
      <4>2. owner' = owner /\ contexts' = contexts
        BY <1>23 DEF Search, poolVars, searchVars
      <4> QED
        BY <3>1, <3>3, <4>1, <4>2 DEF PacketOwned, QueryOf
    <3>5. net' \subseteq net \cup {answer}
      BY <1>23 DEF Search
    <3> QED
      BY <1>23, <3>4, <3>5, Grown DEF NetOwned, Search, poolVars, searchVars
  <2> QED
    BY <1>23, <2>1, Kept
       DEF Search, Owned, clientVars, connVars, poolVars, searchVars, serverVars
<1>24. ASSUME NEW s \in Servers, BreakServer(s)
      PROVE  Owned'
  <2>1. net' \subseteq net
    BY <1>24 DEF BreakServer
  <2>2. AggOwned'
    <3>1. PICK F \in SUBSET {p \in net : p.type = "ask"} :
            aggJobs' = aggJobs \cup {AggJob(p.search, s, "FailedNetwork", {}) : p \in F}
      <4>1. PICK lost \in SUBSET OnServer(s) :
            \E F \in SUBSET {p \in lost : p.type = "ask"} :
              aggJobs' = aggJobs \cup {AggJob(p.search, s, "FailedNetwork", {}) : p \in F}
        BY <1>24, Zenon DEF BreakServer
      <4> QED
        BY <4>1 DEF OnServer
    <3>2. \A p \in F : contexts[p.search] # None
      BY DEF Owned, NetOwned, PacketOwned
    <3>3. \A p \in F : LET j == AggJob(p.search, s, "FailedNetwork", {}) IN
            contexts[j.search] # None /\ j.data \in For(QueryOf(j.search))
      BY <3>2 DEF AggJob, For
    <3> QED
      BY <1>24, <3>1, <3>3 DEF BreakServer, Owned, AggOwned, QueryOf, poolVars
  <2> QED
    BY <1>24, <2>1, <2>2, Kept DEF BreakServer, Owned, clientVars, connVars, poolVars
<1>25. ASSUME NEW s \in Servers, ServerClosed(s)
      PROVE  Owned'
  BY <1>25, Kept DEF ServerClosed, Owned, clientVars, connVars, poolVars, searchVars
<1>26. ASSUME ConnectToPendingServers
      PROVE  Owned'
  BY <1>26, Kept DEF ConnectToPendingServers, Owned, clientVars, connVars, poolVars, searchVars
<1>27. ASSUME NEW s \in Servers, Dial(s)
      PROVE  Owned'
  BY <1>27, Kept DEF Dial, Owned, clientVars, connVars, poolVars, searchVars
<1>28. ASSUME NEW s \in Servers, StoreServerId(s)
      PROVE  Owned'
  BY <1>28, Kept DEF StoreServerId, Owned, clientVars, connVars, poolVars, searchVars
<1>29. ASSUME NEW s \in Servers, StoreServerStatus(s)
      PROVE  Owned'
  BY <1>29, Kept DEF StoreServerStatus, Owned, clientVars, connVars, poolVars, searchVars
<1>30. CASE UNCHANGED vars
  BY <1>30, Kept DEF Owned, vars, clientVars, connVars, poolVars, searchVars
<1> QED
  BY <1>1, <1>2, <1>3, <1>4, <1>5, <1>6, <1>7, <1>8, <1>9, <1>10, <1>11, <1>12, <1>13, <1>14,
     <1>15, <1>16, <1>17, <1>18, <1>19, <1>20, <1>21, <1>22, <1>23, <1>24, <1>25, <1>26,
     <1>27, <1>28, <1>29, <1>30
     DEF Next, Client, MainStep, JobStep, Links, Aggregator, AggregatorStep, Server

-----------------------------------------------------------------------------
\* Nothing begins, ends or is called.
LEMMA JobsKept ==
  ASSUME JobsOnce, UNCHANGED <<jobs, answers, sent, callbacks>>,
         \A q \in Served : q \in Served'
  PROVE  /\ JobsOnce'
         /\ \A c \in Clients, r \in Resources : NoFailure(c, r) => NoFailure(c, r)'
<1>1. OneJob' /\ JobFresh' /\ OneAnswer' /\ Armed' /\ Known'
  BY DEF JobsOnce, OneJob, JobFresh, OneAnswer, Armed, Known
<1>2. FromServed'
  BY DEF JobsOnce, FromServed
<1>3. \A c \in Clients, r \in Resources : NoFailure(c, r) => NoFailure(c, r)'
  BY DEF NoFailure
<1> QED
  BY <1>1, <1>2, <1>3 DEF JobsOnce

\* A callback ends.
LEMMA JobsEnded ==
  ASSUME TypeOK, JobsOnce, NEW c \in Clients, NEW j \in jobs[c], EndJob(c, j),
         UNCHANGED <<answers, sent, callbacks, contexts>>
  PROVE  /\ JobsOnce'
         /\ \A d \in Clients, r \in Resources : NoFailure(d, r) => NoFailure(d, r)'
<1>1. \A d \in Clients : jobs'[d] \subseteq jobs[d]
  BY DEF TypeOK, EndJob
<1>2. OneJob' /\ JobFresh' /\ OneAnswer' /\ Armed' /\ Known'
  BY <1>1 DEF JobsOnce, OneJob, JobFresh, OneAnswer, Armed, Known
<1>3. FromServed'
  BY <1>1 DEF JobsOnce, FromServed, Served
<1>4. \A d \in Clients, r \in Resources : NoFailure(d, r) => NoFailure(d, r)'
  BY <1>1 DEF NoFailure
<1> QED
  BY <1>2, <1>3, <1>4 DEF JobsOnce

\* A callback goes on, but never back to its call.
LEMMA JobsOnceMoved ==
  ASSUME TypeOK, JobsOnce, NEW c \in Clients, NEW j \in jobs[c],
         NEW at \in {"call", "decrease", "notify"}, MoveJob(c, j, at),
         Called(j) => at # "call",
         UNCHANGED <<answers, sent, callbacks, contexts>>
  PROVE  /\ JobsOnce'
         /\ \A d \in Clients, r \in Resources : NoFailure(d, r) => NoFailure(d, r)'
<1> DEFINE m == [j EXCEPT !.at = at]
<1>1. j \in Jobs
  BY DEF TypeOK
<1>2. m.resource = j.resource /\ m.outcome = j.outcome /\ m.at = at
  BY <1>1, MovedTyped
<1>3. /\ jobs'[c] = (jobs[c] \ {j}) \cup {m}
      /\ \A d \in Clients \ {c} : jobs'[d] = jobs[d]
  BY DEF TypeOK, MoveJob
<1> HIDE DEF m
<1>4. OneJob'
  BY <1>2, <1>3 DEF JobsOnce, OneJob, Same
<1>5. JobFresh'
  <2>1. Called(j) => Called(m)
    BY <1>2 DEF Called
  <2> QED
    BY <1>2, <1>3, <2>1 DEF JobsOnce, JobFresh, Same, Called
<1>6. OneAnswer' /\ Armed' /\ Known'
  BY <1>2, <1>3 DEF JobsOnce, OneAnswer, Armed, Known
<1>7. FromServed'
  BY <1>2, <1>3 DEF JobsOnce, FromServed, Served
<1>8. \A d \in Clients, r \in Resources : NoFailure(d, r) => NoFailure(d, r)'
  BY <1>2, <1>3 DEF NoFailure
<1> QED
  BY <1>4, <1>5, <1>6, <1>7, <1>8 DEF JobsOnce

\* A callback that has decreased the count ends, or calls at last.
LEMMA JobsCounted ==
  ASSUME TypeOK, JobsOnce, NEW c \in Clients, NEW j \in jobs[c], Counted(c, j),
         UNCHANGED <<answers, sent, callbacks, contexts>>
  PROVE  /\ JobsOnce'
         /\ \A d \in Clients, r \in Resources : NoFailure(d, r) => NoFailure(d, r)'
<1>1. CASE StartsAt(j.outcome) = "call"
  BY <1>1, JobsEnded DEF Counted
<1>2. CASE StartsAt(j.outcome) # "call"
  <2>1. ~Called(j)
    BY <1>2 DEF StartsAt, Called
  <2> QED
    BY <1>2, <2>1, JobsOnceMoved DEF Counted
<1> QED
  BY <1>1, <1>2

\* Callbacks that begin to run must not have begun or been called before.
LEMMA JobsBegun ==
  ASSUME TypeOK, JobsOnce, UNCHANGED <<answers, sent>>, Served' = Served,
         \A c \in Clients : callbacks'[c] \subseteq callbacks[c],
         \A c \in Clients : jobs[c] \subseteq jobs'[c],
         \A c \in Clients : \A j \in jobs'[c] \ jobs[c] :
           /\ j.resource <= sent[c]
           /\ \A h \in jobs[c] : ~Same(j, h)
           /\ \A i \in DOMAIN answers[c] : ~Same(j, answers[c][i])
           /\ Final(j.outcome) => j.resource \notin callbacks'[c]
           /\ j.outcome = "Success" => <<c, j.resource>> \in Served
           /\ \A h \in jobs'[c] \ jobs[c] : Same(j, h) => j = h
  PROVE  JobsOnce'
<1>1. OneJob'
  BY DEF JobsOnce, OneJob, Same
<1>2. JobFresh'
  BY DEF JobsOnce, JobFresh
<1>3. OneAnswer' /\ Known'
  BY DEF JobsOnce, OneAnswer, Known
<1>4. Armed'
  BY DEF JobsOnce, Armed
<1>5. FromServed'
  BY DEF JobsOnce, FromServed
<1> QED
  BY <1>1, <1>2, <1>3, <1>4, <1>5 DEF JobsOnce

\* Searches are for queries of clients.
LEMMA ServedTyped ==
  ASSUME TypeOK
  PROVE  Served \subseteq Queries
BY DEF TypeOK, Served, Contexts

\* No request is sent, none is served and no send fails.
LEMMA SendsKept ==
  ASSUME TypeOK, SendsOnce, Served' = Served,
         \A c \in Clients, r \in Resources : NoFailure(c, r) => NoFailure(c, r)',
         \A c \in Clients, r \in Resources : NotYet(c, r)' => NotYet(c, r),
         \A p \in net' : p.type = "request" => p \in net
  PROVE  SendsOnce'
<1>1. Unsent'
  BY DEF SendsOnce, Unsent
<1>2. Requested'
  <2>1. \A p \in net : p.type = "request" => p.query[1] \in Clients /\ p.query[2] \in Resources
    BY PacketsTyped DEF TypeOK, Queries
  <2> QED
    BY <2>1 DEF SendsOnce, Requested
<1>3. Delivered'
  BY ServedTyped DEF SendsOnce, Delivered, Queries
<1> QED
  BY <1>1, <1>2, <1>3 DEF SendsOnce

\* What a callback was called with.
LEMMA AnswersTyped ==
  ASSUME TypeOK, NEW c \in Clients, NEW i \in DOMAIN answers[c]
  PROVE  answers[c][i] \in Answers /\ answers[c][i].resource \in Resources
<1>1. answers[c] \in Seq(Answers)
  BY DEF TypeOK
<1>2. answers[c][i] \in Answers
  BY <1>1
<1> QED
  BY <1>2 DEF Answers


\* A step that touches neither callbacks nor requests.
LEMMA OnceKept ==
  ASSUME TypeOK, Once, UNCHANGED <<jobs, answers, sent, callbacks>>, Served' = Served,
         \A c \in Clients, r \in Resources : NotYet(c, r)' => NotYet(c, r),
         \A p \in net' : p.type = "request" => p \in net
  PROVE  Once'
<1>1. JobsOnce'
  BY JobsKept DEF Once
<1>2. \A c \in Clients, r \in Resources : NoFailure(c, r) => NoFailure(c, r)'
  BY JobsKept DEF Once
<1>3. SendsOnce'
  BY <1>2, SendsKept DEF Once
<1> QED
  BY <1>1, <1>3 DEF Once

\* A resource id is new when its callback is registered.
LEMMA RegisterOnce ==
  ASSUME TypeOK, Once, NEW c \in Clients, RegisterQuery(c)
  PROVE  Once'
<1>1. /\ sent[c] \in Nat /\ sent' = [sent EXCEPT ![c] = @ + 1]
      /\ pc' = [pc EXCEPT ![c] = "registered"]
      /\ callbacks' = [callbacks EXCEPT ![c] = @ \cup {sent[c] + 1}]
      /\ UNCHANGED <<jobs, answers, contexts, net>>
  BY QueryConstants DEF RegisterQuery, TypeOK, searchVars
<1>2. \A d \in Clients : sent[d] \in Nat /\ sent'[d] \in Nat /\ sent[d] <= sent'[d]
  <2>1. sent \in [Clients -> Nat]
    BY QueryConstants DEF TypeOK
  <2> QED
    BY <1>1, <2>1
<1>3. \A d \in Clients : \A j \in jobs[d] : j.resource \in Nat
  BY DEF TypeOK, Jobs, Resources
<1>4. \A d \in Clients : \A i \in DOMAIN answers[d] : answers[d][i].resource \in Nat
  BY AnswersTyped DEF Resources
<1>5. OneJob' /\ JobFresh' /\ OneAnswer'
  BY <1>1 DEF Once, JobsOnce, OneJob, JobFresh, OneAnswer
<1>6. Known'
  BY <1>1, <1>2, <1>3, <1>4 DEF Once, JobsOnce, Known
<1>7. Armed'
  <2>1. ASSUME NEW d \in Clients, NEW r \in callbacks'[d]
        PROVE  /\ r <= sent'[d]
               /\ \A j \in jobs[d] : j.resource = r => ~Final(j.outcome)
               /\ \A i \in DOMAIN answers[d] : answers[d][i].resource = r => ~Final(answers[d][i].outcome)
    <3>1. CASE r \in callbacks[d]
      <4>1. r \in Nat
        BY <3>1 DEF TypeOK, Resources
      <4> QED
        BY <1>2, <3>1, <4>1 DEF Once, JobsOnce, Armed
    <3>2. CASE r \notin callbacks[d]
      <4>1. d = c /\ r = sent[c] + 1 /\ sent'[c] = sent[c] + 1
        BY <1>1, <2>1, <3>2 DEF TypeOK
      <4> QED
        BY <1>1, <1>3, <1>4, <4>1 DEF Once, JobsOnce, Known
    <3> QED
      BY <3>1, <3>2
  <2> QED
    BY <1>1, <2>1 DEF Armed
<1>8. FromServed' /\ Served' = Served
  BY <1>1 DEF Once, JobsOnce, FromServed, Served
<1>9. \A d \in Clients, r \in Resources : NotYet(d, r)' => NotYet(d, r)
  BY <1>1, <1>2 DEF NotYet, Resources, TypeOK
<1>10. \A d \in Clients, r \in Resources : NoFailure(d, r) => NoFailure(d, r)'
  BY <1>1 DEF NoFailure
<1>11. SendsOnce'
  BY <1>1, <1>8, <1>9, <1>10, SendsKept DEF Once
<1> QED
  BY <1>5, <1>6, <1>7, <1>8, <1>11 DEF Once, JobsOnce

\* A query is sent, or fails, once.
LEMMA SubmitOnce ==
  ASSUME TypeOK, Owned, Once, NEW c \in Clients, SubmitQuery(c)
  PROVE  Once'
<1> DEFINE q == <<c, sent[c]>>
           asked == Request(via[c], q)
<1>1. /\ pc[c] = "registered" /\ pc' = [pc EXCEPT ![c] = "submitted"]
      /\ UNCHANGED <<sent, callbacks, answers, contexts>>
  BY DEF SubmitQuery, searchVars
<1>2. sent[c] \in Resources
  BY <1>1, QueryConstants DEF TypeOK, Owned, Begun, Resources
<1>3. /\ NoFailure(c, sent[c]) /\ q \notin Served
      /\ \A p \in net : p.type = "request" => p.query # q
  BY <1>1, <1>2 DEF Once, SendsOnce, Unsent, NotYet
<1>4. Served' = Served
  BY <1>1 DEF Served
<1>5. \/ /\ UNCHANGED net
         /\ \E b \in BOOLEAN : StartJob(c, Job(sent[c], "FailedNetwork", {}, b))
      \/ UNCHANGED jobs /\ net' = net \cup {asked}
      \/ UNCHANGED <<jobs, net>>
  BY DEF SubmitQuery, SendPacket
<1>6. \A d \in Clients, r \in Resources : NotYet(d, r)' => NotYet(d, r) /\ <<d, r>> # q
  BY <1>1, <1>2 DEF NotYet, TypeOK, Resources
<1>7. \A p \in net : p.type = "request" => p.query \in Queries
  BY PacketsTyped DEF TypeOK
<1>8. CASE UNCHANGED <<jobs, net>>
  BY <1>1, <1>4, <1>6, <1>8, OnceKept
<1>9. CASE UNCHANGED jobs /\ net' = net \cup {asked}
  <2>1. JobsOnce' /\ \A d \in Clients, r \in Resources : NoFailure(d, r) => NoFailure(d, r)'
    BY <1>1, <1>4, <1>9, JobsKept DEF Once
  <2>2. asked.type = "request" /\ asked.query = q
    BY DEF Request
  <2> HIDE DEF asked
  <2>3. Unsent'
    BY <1>4, <1>6, <1>9, <2>1, <2>2 DEF Once, SendsOnce, Unsent
  <2>4. Requested'
    <3>1. ASSUME NEW p \in net', p.type = "request"
          PROVE  /\ NoFailure(p.query[1], p.query[2])' /\ p.query \notin Served
                 /\ \A o \in net' : o.type = "request" /\ o.query = p.query => o = p
      <4>1. CASE p \in net
        BY <1>3, <1>7, <1>9, <2>1, <2>2, <3>1, <4>1 DEF Once, SendsOnce, Requested, Queries
      <4>2. CASE p \notin net
        BY <1>2, <1>3, <1>9, <2>1, <2>2, <3>1, <4>2
      <4> QED
        BY <4>1, <4>2
    <3> QED
      BY <1>4, <3>1 DEF Requested
  <2>5. Delivered'
    BY <1>4, <2>1, ServedTyped DEF Once, SendsOnce, Delivered, Queries
  <2> QED
    BY <2>1, <2>3, <2>4, <2>5 DEF Once, SendsOnce
<1>10. ASSUME NEW b \in BOOLEAN, StartJob(c, Job(sent[c], "FailedNetwork", {}, b)), UNCHANGED net
       PROVE  Once'
  <2> DEFINE j == Job(sent[c], "FailedNetwork", {}, b)
  <2>1. j.resource = sent[c] /\ j.outcome = "FailedNetwork" /\ ~Final(j.outcome)
    BY DEF Job, Final
  <2>2. jobs'[c] = jobs[c] \cup {j} /\ \A d \in Clients \ {c} : jobs'[d] = jobs[d]
    BY <1>10 DEF StartJob, TypeOK
  <2> HIDE DEF j
  <2>3. \A h \in jobs[c] : ~Same(j, h)
    BY <1>3, <2>1 DEF Same, NoFailure
  <2>4. \A i \in DOMAIN answers[c] : ~Same(j, answers[c][i])
    BY <1>3, <2>1 DEF Same, NoFailure
  <2>5. sent[c] <= sent[c]
    BY <1>2 DEF Resources
  <2>6. JobsOnce'
    BY <1>1, <1>4, <2>1, <2>2, <2>3, <2>4, <2>5, JobsBegun DEF Once
  <2>7. \A d \in Clients, r \in Resources : NoFailure(d, r) /\ <<d, r>> # q => NoFailure(d, r)'
    BY <1>1, <2>1, <2>2 DEF NoFailure
  <2>8. Unsent'
    BY <1>4, <1>6, <1>10, <2>7 DEF Once, SendsOnce, Unsent
  <2>9. Requested'
    BY <1>3, <1>4, <1>7, <1>10, <2>7 DEF Once, SendsOnce, Requested, Queries
  <2>10. Delivered'
    BY <1>3, <1>4, <2>7, ServedTyped DEF Once, SendsOnce, Delivered, Queries
  <2> QED
    BY <2>6, <2>8, <2>9, <2>10 DEF Once, SendsOnce
<1> QED
  BY <1>5, <1>8, <1>9, <1>10

\* A callback that is called was not called before.
LEMMA CallOnce ==
  ASSUME TypeOK, Once, NEW c \in Clients, NEW j \in jobs[c], RunCallback(c, j)
  PROVE  Once'
<1> DEFINE new == [resource |-> j.resource, outcome |-> j.outcome, data |-> j.data]
           m == [j EXCEPT !.at = "decrease"]
           n == Len(answers[c]) + 1
<1>1. /\ j \in Jobs /\ j.at = "call" /\ answers[c] \in Seq(Answers)
      /\ answers' = [answers EXCEPT ![c] = Append(@, new)]
      /\ UNCHANGED <<pc, sent, callbacks, contexts, net>>
  BY DEF RunCallback, TypeOK, searchVars
<1>2. /\ DOMAIN answers'[c] = DOMAIN answers[c] \cup {n} /\ n \notin DOMAIN answers[c]
      /\ answers'[c][n] = new
      /\ \A i \in DOMAIN answers[c] : answers'[c][i] = answers[c][i]
      /\ \A d \in Clients \ {c} : answers'[d] = answers[d]
  BY <1>1 DEF TypeOK
<1>3. new.resource = j.resource /\ new.outcome = j.outcome
  OBVIOUS
<1>4. /\ jobs'[c] \subseteq (jobs[c] \ {j}) \cup {m}
      /\ j.outcome = "Timeout" => jobs'[c] \subseteq jobs[c] \ {j}
      /\ \A d \in Clients \ {c} : jobs'[d] = jobs[d]
  BY DEF RunCallback, MoveJob, EndJob, StartsAt, TypeOK
<1>5. m.resource = j.resource /\ m.outcome = j.outcome /\ m.at = "decrease"
  BY <1>1, MovedTyped
<1> HIDE DEF new, m, n
<1>6. ~Called(j) /\ (j.outcome # "Timeout" => Called(m))
  BY <1>1, <1>5 DEF Called
<1>7. \A i \in DOMAIN answers[c] : ~Same(j, answers[c][i])
  BY <1>6 DEF Once, JobsOnce, JobFresh
<1>8. \A h \in jobs'[c] : Same(h, new) => h = m /\ Called(h)
  BY <1>3, <1>4, <1>5, <1>6 DEF Once, JobsOnce, OneJob, Same
<1>9. OneJob'
  BY <1>4, <1>5 DEF Once, JobsOnce, OneJob, Same
<1>10. JobFresh'
  <2>1. ASSUME NEW h \in jobs'[c], NEW i \in DOMAIN answers'[c], Same(h, answers'[c][i])
        PROVE  Called(h)
    <3>1. CASE i = n
      BY <1>2, <1>8, <2>1, <3>1
    <3>2. CASE i # n /\ h \in jobs[c]
      BY <1>2, <2>1, <3>2 DEF Once, JobsOnce, JobFresh
    <3>3. CASE i # n /\ h \notin jobs[c]
      BY <1>2, <1>4, <1>5, <1>7, <2>1, <3>3 DEF Same
    <3> QED
      BY <3>1, <3>2, <3>3
  <2> QED
    BY <1>2, <1>4, <2>1 DEF Once, JobsOnce, JobFresh
<1>11. OneAnswer'
  BY <1>2, <1>3, <1>7 DEF Once, JobsOnce, OneAnswer, Same
<1>12. Known'
  BY <1>1, <1>2, <1>3, <1>4, <1>5 DEF Once, JobsOnce, Known
<1>17. Armed'
  <2>1. ASSUME NEW r \in callbacks[c]
        PROVE  /\ \A h \in jobs'[c] : h.resource = r => ~Final(h.outcome)
               /\ \A i \in DOMAIN answers'[c] :
                    answers'[c][i].resource = r => ~Final(answers'[c][i].outcome)
    BY <1>2, <1>3, <1>4, <1>5, <2>1 DEF Once, JobsOnce, Armed
  <2>2. \A r \in callbacks[c] : r <= sent[c]
    BY DEF Once, JobsOnce, Armed
  <2> QED
    BY <1>1, <1>2, <1>4, <2>1, <2>2 DEF Once, JobsOnce, Armed
<1>13. Served' = Served
  BY <1>1 DEF Served
<1>18. j.outcome = "Success" => <<c, j.resource>> \in Served
  BY DEF Once, JobsOnce, FromServed
<1>19. FromServed'
  BY <1>2, <1>3, <1>4, <1>5, <1>13, <1>18 DEF Once, JobsOnce, FromServed
<1>14. \A d \in Clients, r \in Resources : NoFailure(d, r) => NoFailure(d, r)'
  BY <1>2, <1>3, <1>4, <1>5 DEF NoFailure
<1>15. \A d \in Clients, r \in Resources : NotYet(d, r)' => NotYet(d, r)
  BY <1>1 DEF NotYet
<1>16. SendsOnce'
  BY <1>1, <1>13, <1>14, <1>15, SendsKept DEF Once
<1> QED
  BY <1>9, <1>10, <1>11, <1>12, <1>17, <1>19, <1>16 DEF Once, JobsOnce

\* A callback that is taken out of the manager runs for good: a timeout, or
\* the response of a search.
LEMMA TakenOnce ==
  ASSUME TypeOK, Once, NEW c \in Clients, NEW r \in callbacks[c],
         NEW o \in {"Success", "Timeout"}, NEW d \in Found,
         StartJob(c, Job(r, o, d, FALSE)),
         callbacks' = [callbacks EXCEPT ![c] = @ \ {r}],
         UNCHANGED <<pc, sent, answers, contexts>>, net' \subseteq net,
         o = "Success" => <<c, r>> \in Served
  PROVE  Once'
<1> DEFINE j == Job(r, o, d, FALSE)
<1>1. j.resource = r /\ j.outcome = o /\ Final(j.outcome)
  BY DEF Job, Final
<1>2. jobs'[c] = jobs[c] \cup {j} /\ \A b \in Clients \ {c} : jobs'[b] = jobs[b]
  BY DEF StartJob, TypeOK
<1>3. /\ callbacks'[c] = callbacks[c] \ {r}
      /\ \A b \in Clients : callbacks'[b] \subseteq callbacks[b]
  BY DEF TypeOK
<1>4. Served' = Served
  BY DEF Served
<1> HIDE DEF j
<1>5. /\ r <= sent[c]
      /\ \A h \in jobs[c] : h.resource = r => ~Final(h.outcome)
      /\ \A i \in DOMAIN answers[c] : answers[c][i].resource = r => ~Final(answers[c][i].outcome)
  BY DEF Once, JobsOnce, Armed
<1>6. JobsOnce'
  BY <1>1, <1>2, <1>3, <1>4, <1>5, JobsBegun DEF Once, Same
<1>7. \A b \in Clients, q \in Resources : NoFailure(b, q) => NoFailure(b, q)'
  BY <1>1, <1>2 DEF NoFailure
<1>8. \A b \in Clients, q \in Resources : NotYet(b, q)' => NotYet(b, q)
  BY DEF NotYet
<1>9. SendsOnce'
  BY <1>4, <1>7, <1>8, SendsKept DEF Once
<1> QED
  BY <1>6, <1>9 DEF Once

\* A link that closes fails only requests that were in flight, and takes them
\* out of the network.
LEMMA ClosedOnce ==
  ASSUME TypeOK, Once, NEW l, CloseLink(l),
         UNCHANGED <<pc, sent, callbacks, answers, contexts>>
  PROVE  Once'
<1> DEFINE failure(p) == Job(p.query[2], "FailedNetwork", {}, FALSE)
<1>1. PICK lost \in SUBSET {p \in OnLink(l) : p.type = "request"} :
        /\ net' = net \ (lost \cup {p \in OnLink(l) : p.type = "response"})
        /\ \E F \in SUBSET lost :
             jobs' = [c \in Clients |-> jobs[c] \cup
               {Job(p.query[2], "FailedNetwork", {}, FALSE) : p \in {x \in F : x.query[1] = c}}]
  BY Zenon DEF CloseLink
<1>2. PICK F \in SUBSET lost :
        jobs' = [c \in Clients |-> jobs[c] \cup
               {Job(p.query[2], "FailedNetwork", {}, FALSE) : p \in {x \in F : x.query[1] = c}}]
  BY <1>1
<1>3. \A p \in F : p \in net /\ p.type = "request" /\ p \notin net'
  BY <1>1 DEF OnLink
<1>4. \A p \in net : p.type = "request" =>
        p.query[1] \in Clients /\ p.query[2] \in Resources /\ p.query = <<p.query[1], p.query[2]>>
  BY PacketsTyped DEF TypeOK, Queries
<1>5. Served' = Served
  BY DEF Served
<1>6. ASSUME NEW c \in Clients, NEW j \in jobs'[c], j \notin jobs[c]
      PROVE  \E p \in F : p.query = <<c, j.resource>> /\ j = failure(p)
                          /\ j.outcome = "FailedNetwork" /\ ~Final(j.outcome)
  <2>1. PICK p \in F : p.query[1] = c /\ j = failure(p)
    BY <1>2, <1>6
  <2>2. j.resource = p.query[2] /\ j.outcome = "FailedNetwork"
    BY <2>1 DEF Job
  <2> QED
    BY <1>3, <1>4, <2>1, <2>2 DEF Final
<1>7. \A c \in Clients : jobs[c] \subseteq jobs'[c]
  BY <1>2
<1> HIDE DEF failure
<1>8. ASSUME NEW p \in F
      PROVE  /\ NoFailure(p.query[1], p.query[2]) /\ p.query \notin Served
             /\ \A o \in net : o.type = "request" /\ o.query = p.query => o = p
             /\ ~NotYet(p.query[1], p.query[2])
  <2>1. p \in net /\ p.type = "request"
    BY <1>3
  <2>2. /\ NoFailure(p.query[1], p.query[2]) /\ p.query \notin Served
        /\ \A o \in net : o.type = "request" /\ o.query = p.query => o = p
    BY <2>1 DEF Once, SendsOnce, Requested
  <2>3. ~NotYet(p.query[1], p.query[2])
    BY <1>4, <2>1 DEF Once, SendsOnce, Unsent
  <2> QED
    BY <2>2, <2>3
<1>9. ASSUME NEW c \in Clients, NEW j \in jobs'[c], j \notin jobs[c]
      PROVE  /\ j.resource <= sent[c]
             /\ \A h \in jobs[c] : ~Same(j, h)
             /\ \A i \in DOMAIN answers[c] : ~Same(j, answers[c][i])
             /\ ~Final(j.outcome) /\ j.outcome # "Success"
             /\ \A h \in jobs'[c] \ jobs[c] : Same(j, h) => j = h
  <2>1. PICK p \in F : p.query = <<c, j.resource>> /\ j = failure(p)
                       /\ j.outcome = "FailedNetwork" /\ ~Final(j.outcome)
    BY <1>6, <1>9
  <2>2. NoFailure(c, j.resource) /\ ~NotYet(c, j.resource)
    BY <1>8, <2>1
  <2>3. j.resource \in Resources
    BY <1>3, <1>4, <2>1
  <2>4. j.resource <= sent[c]
    BY <2>2, <2>3, QueryConstants DEF NotYet, TypeOK, Resources
  <2>5. /\ \A h \in jobs[c] : ~Same(j, h)
        /\ \A i \in DOMAIN answers[c] : ~Same(j, answers[c][i])
    BY <2>1, <2>2 DEF NoFailure, Same
  <2>6. ASSUME NEW h \in jobs'[c] \ jobs[c], Same(j, h)
        PROVE  j = h
    <3>1. PICK o \in F : o.query = <<c, h.resource>> /\ h = failure(o)
      BY <1>6
    <3>2. o = p
      BY <1>3, <1>8, <2>1, <2>6, <3>1 DEF Same
    <3> QED
      BY <2>1, <3>1, <3>2
  <2> QED
    BY <2>1, <2>4, <2>5, <2>6
<1>10. JobsOnce'
  BY <1>5, <1>7, <1>9, JobsBegun DEF Once
<1>11. ASSUME NEW c \in Clients, NEW r \in Resources, NoFailure(c, r),
              \A p \in F : p.query # <<c, r>>
       PROVE  NoFailure(c, r)'
  <2>1. ASSUME NEW j \in jobs'[c], j.resource = r
        PROVE  Final(j.outcome)
    <3>1. CASE j \in jobs[c]
      BY <1>11, <2>1, <3>1 DEF NoFailure
    <3>2. CASE j \notin jobs[c]
      BY <1>6, <1>11, <2>1, <3>2
    <3> QED
      BY <3>1, <3>2
  <2> QED
    BY <1>11, <2>1 DEF NoFailure
<1>12. Unsent'
  <2>1. \A c \in Clients, r \in Resources : NotYet(c, r)' => NotYet(c, r)
    BY DEF NotYet
  <2>2. \A p \in net' : p \in net
    BY <1>1
  <2> QED
    BY <1>3, <1>5, <1>11, <2>1, <2>2 DEF Once, SendsOnce, Unsent
<1>13. Requested'
  <2>1. ASSUME NEW p \in net', p.type = "request"
        PROVE  /\ NoFailure(p.query[1], p.query[2])' /\ p.query \notin Served
               /\ \A o \in net' : o.type = "request" /\ o.query = p.query => o = p
    <3>1. p \in net /\ net' \subseteq net
      BY <1>1
    <3>2. \A o \in F : o.query # p.query
      BY <1>3, <1>8, <2>1, <3>1
    <3> QED
      BY <1>4, <1>11, <2>1, <3>1, <3>2 DEF Once, SendsOnce, Requested
  <2> QED
    BY <1>5, <2>1 DEF Requested
<1>14. Delivered'
  <2>1. ASSUME NEW q \in Served
        PROVE  NoFailure(q[1], q[2])'
    <3>1. q \in Queries
      BY ServedTyped
    <3>2. \A p \in F : p.query # <<q[1], q[2]>>
      BY <1>8, <3>1 DEF Queries
    <3> QED
      BY <1>11, <3>1, <3>2 DEF Queries, Once, SendsOnce, Delivered
  <2> QED
    BY <1>5, <2>1 DEF Delivered
<1> QED
  BY <1>10, <1>12, <1>13, <1>14 DEF Once, SendsOnce

\* A request is served once: its search is new.
LEMMA RequestOnce ==
  ASSUME TypeOK, Owned, Once, NEW p \in net, NEW T \in Candidates, SearchRequestHandler(p, T)
  PROVE  Once'
<1> DEFINE k == <<p.link, p.query[2]>>
           x == Context(p.query, {s \in T : status[s] = "Connected"})
<1>1. /\ p.type = "request" /\ p.link \in Ids /\ p.query \in Queries
      /\ net' = net \ {p} /\ contexts' = [contexts EXCEPT ![k] = x]
      /\ UNCHANGED <<pc, sent, callbacks, jobs, answers>>
  BY PacketsTyped DEF SearchRequestHandler, TypeOK, clientVars
<1>2. k \in Searches
  BY <1>1 DEF Searches, Queries
<1>3. x \in Contexts /\ x # None
  BY <1>1, ContextTyped, AskedTyped, QueryConstants
<1>4. x.query = p.query
  BY DEF Context
<1>5. /\ NoFailure(p.query[1], p.query[2]) /\ p.query \notin Served
      /\ \A o \in net : o.type = "request" /\ o.query = p.query => o = p
  BY <1>1 DEF Once, SendsOnce, Requested
<1>6. QueryOf(k) = p.query
  <2>1. owner[p.link] = p.query[1]
    BY <1>1 DEF Owned, NetOwned, PacketOwned
  <2> QED
    BY <1>1, <2>1 DEF QueryOf, Queries
<1>7. contexts[k] = None
  BY <1>2, <1>5, <1>6 DEF Owned, ContextsOwned, Served
<1>8. contexts'[k] = x /\ \A h \in Searches \ {k} : contexts'[h] = contexts[h]
  BY <1>1, <1>2 DEF TypeOK
<1> HIDE DEF k, x
<1>9. Served' = Served \cup {p.query}
  BY <1>2, <1>3, <1>4, <1>7, <1>8 DEF Served
<1>10. JobsOnce' /\ \A c \in Clients, r \in Resources : NoFailure(c, r) => NoFailure(c, r)'
  BY <1>1, <1>9, JobsKept DEF Once
<1>11. \A o \in net : o.type = "request" => o.query[1] \in Clients /\ o.query[2] \in Resources
  BY PacketsTyped DEF TypeOK, Queries
<1>12. Unsent'
  <2>1. \A c \in Clients, r \in Resources : NotYet(c, r)' => NotYet(c, r)
    BY <1>1 DEF NotYet
  <2> QED
    BY <1>1, <1>9, <1>10, <2>1 DEF Once, SendsOnce, Unsent
<1>13. Requested'
  BY <1>1, <1>5, <1>9, <1>10, <1>11 DEF Once, SendsOnce, Requested
<1>14. Delivered'
  BY <1>1, <1>5, <1>9, <1>10, ServedTyped DEF Once, SendsOnce, Delivered, Queries
<1> QED
  BY <1>10, <1>12, <1>13, <1>14 DEF Once, SendsOnce

\* The count goes down: the callback is not begun again.
LEMMA DecreaseOnce ==
  ASSUME TypeOK, Once, NEW c \in Clients, NEW j \in jobs[c],
         \/ MoveJob(c, j, "notify") /\ j.at = "decrease"
         \/ Counted(c, j),
         UNCHANGED <<sent, callbacks, answers, contexts, net>>,
         \A d \in Clients : pc'[d] = "registered" => pc[d] = "registered"
  PROVE  Once'
<1>1. JobsOnce' /\ \A d \in Clients, r \in Resources : NoFailure(d, r) => NoFailure(d, r)'
  BY JobsOnceMoved, JobsCounted DEF Once
<1>2. Served' = Served
  BY DEF Served
<1>3. \A d \in Clients, r \in Resources : NotYet(d, r)' => NotYet(d, r)
  BY DEF NotYet
<1>4. SendsOnce'
  BY <1>1, <1>2, <1>3, SendsKept DEF Once
<1> QED
  BY <1>1, <1>4 DEF Once

\* Steps that begin no callback and send no request.
LEMMA QuietOnce ==
  ASSUME TypeOK, Once, UNCHANGED <<jobs, answers, sent, callbacks, contexts>>,
         \A p \in net' : p.type = "request" => p \in net,
         \A c \in Clients : pc'[c] = "registered" => pc[c] = "registered"
  PROVE  Once'
<1>1. Served' = Served
  BY DEF Served
<1>2. \A c \in Clients, r \in Resources : NotYet(c, r)' => NotYet(c, r)
  BY DEF NotYet
<1> QED
  BY <1>1, <1>2, OnceKept

\* A context is updated: no request is served by it.
LEMMA UpdatedOnce ==
  ASSUME TypeOK, Owned, Once, UNCHANGED <<clientVars, owner>>,
         NEW k \in Searches, contexts[k] # None, NEW y \in Contexts, Updates(k, y),
         \A p \in net' : p.type = "request" => p \in net
  PROVE  Once'
<1>1. Served' = Served
  BY ContextUpdated DEF clientVars
<1>2. \A c \in Clients, r \in Resources : NotYet(c, r)' => NotYet(c, r)
  BY DEF NotYet, clientVars
<1> QED
  BY <1>1, <1>2, OnceKept DEF clientVars

\* One step for each action.
LEMMA OnceNext ==
  ASSUME TypeOK, Owned, Once, [Next]_vars
  PROVE  Once'
<1>1. ASSUME NEW c \in Clients, RegisterQuery(c)
      PROVE  Once'
  BY <1>1, RegisterOnce
<1>2. ASSUME NEW c \in Clients, SubmitQuery(c)
      PROVE  Once'
  BY <1>2, SubmitOnce
<1>3. ASSUME NEW c \in Clients, WaitAllFinished(c)
      PROVE  Once'
  BY <1>3, QuietOnce DEF WaitAllFinished, TypeOK, searchVars
<1>4. ASSUME NEW c \in Clients, WakeSpuriously(c)
      PROVE  Once'
  BY <1>4, QuietOnce DEF WakeSpuriously, TypeOK, searchVars
<1>5. ASSUME NEW c \in Clients, NEW j \in jobs[c], RunCallback(c, j)
      PROVE  Once'
  BY <1>5, CallOnce
<1>6. ASSUME NEW c \in Clients, NEW j \in jobs[c], DecreaseUnfinishedJobCount(c, j)
      PROVE  Once'
  BY <1>6, DecreaseOnce DEF DecreaseUnfinishedJobCount, searchVars
<1>7. ASSUME NEW c \in Clients, NEW j \in jobs[c], NotifyWaiting(c, j)
      PROVE  Once'
  BY <1>7, DecreaseOnce DEF NotifyWaiting, TypeOK, searchVars
<1>8. ASSUME NEW c \in Clients, NEW r \in Resources, TimeOut(c, r)
      PROVE  Once'
  BY <1>8, TakenOnce, EmptyFound DEF TimeOut, searchVars
<1>9. ASSUME NEW c \in Clients, NEW p \in net, SearchResponseHandler(c, p)
      PROVE  Once'
  <2>1. CASE p.resource \in callbacks[c]
    <3>1. p.resource \in Resources /\ p.link \in Ids /\ p.data \in Found
      BY <1>9, PacketsTyped DEF SearchResponseHandler, TypeOK
    <3>2. <<c, p.resource>> \in Served
      <4>1. <<p.link, p.resource>> \in Searches
        BY <3>1 DEF Searches
      <4>2. /\ contexts[<<p.link, p.resource>>] # None
            /\ contexts[<<p.link, p.resource>>].query = <<owner[p.link], p.resource>>
        BY <1>9, <4>1
           DEF SearchResponseHandler, Owned, NetOwned, PacketOwned, ContextsOwned, QueryOf
      <4> QED
        BY <1>9, <4>1, <4>2 DEF SearchResponseHandler, Served
    <3> QED
      BY <1>9, <2>1, <3>1, <3>2, TakenOnce DEF SearchResponseHandler, TakeCallback, searchVars
  <2>2. CASE p.resource \notin callbacks[c]
    BY <1>9, <2>2, QuietOnce DEF SearchResponseHandler, searchVars
  <2> QED
    BY <2>1, <2>2
<1>10. ASSUME NEW l \in Ids, Break(l)
       PROVE  Once'
  BY <1>10, ClosedOnce DEF Break, searchVars
<1>11. ASSUME NEW l \in Ids, RemoveConnection(l)
       PROVE  Once'
  <2>1. CASE UNCHANGED <<net, jobs>>
    BY <1>11, <2>1, QuietOnce DEF RemoveConnection, searchVars
  <2>2. CASE CloseLink(pool[Slot(l)])
    BY <1>11, <2>2, ClosedOnce DEF RemoveConnection, searchVars
  <2> QED
    BY <1>11, <2>1, <2>2 DEF RemoveConnection
<1>12. ASSUME NEW c \in Clients, HandleDeadConnection(c)
       PROVE  Once'
  BY <1>12, QuietOnce DEF HandleDeadConnection, clientVars, searchVars
<1>13. ASSUME NEW c \in Clients, NEW l \in Ids, ConnectToServer(c, l)
       PROVE  Once'
  BY <1>13, QuietOnce DEF ConnectToServer, clientVars, searchVars
<1>14. ASSUME NEW c \in Clients, RefuseConnection(c)
       PROVE  Once'
  BY <1>14, QuietOnce DEF RefuseConnection, clientVars, searchVars
<1>15. ASSUME NEW c \in Clients, StoreConnection(c)
       PROVE  Once'
  BY <1>15, QuietOnce DEF StoreConnection, clientVars, searchVars
<1>16. ASSUME NEW c \in Clients, GiveUpDialling(c)
       PROVE  Once'
  BY <1>16, QuietOnce DEF GiveUpDialling, clientVars, searchVars
<1>17. ASSUME NEW p \in net, NEW T \in Candidates, SearchRequestHandler(p, T)
       PROVE  Once'
  BY <1>17, RequestOnce
<1>18. ASSUME NEW k \in Searches, NEW s \in Servers, AskServer(k, s)
       PROVE  Once'
  <2>1. contexts[k] # None /\ UNCHANGED <<clientVars, owner>>
    BY <1>18 DEF AskServer, poolVars
  <2>2. \A p \in net' : p.type = "request" => p \in net
    BY <1>18 DEF AskServer, Ask
  <2> QED
    BY <1>18, <2>1, <2>2, AskUpdates, UpdatedOnce
<1>19. ASSUME NEW j \in aggJobs, StoreResult(j)
       PROVE  Once'
  <2>1. contexts[j.search] # None /\ j.search \in Searches
    BY DEF Owned, AggOwned, TypeOK, AggJobs
  <2>2. UNCHANGED <<clientVars, owner>> /\ \A p \in net' : p.type = "request" => p \in net
    BY <1>19 DEF StoreResult, poolVars
  <2> QED
    BY <1>19, <2>1, <2>2, StoreUpdates, UpdatedOnce
<1>20. ASSUME NEW j \in aggJobs, FinishJob(j)
       PROVE  Once'
  <2>1. contexts[j.search] # None /\ j.search \in Searches
    BY DEF Owned, AggOwned, TypeOK, AggJobs
  <2>2. UNCHANGED <<clientVars, owner>> /\ \A p \in net' : p.type = "request" => p \in net
    BY <1>20 DEF FinishJob, Respond, Response, poolVars
  <2> QED
    BY <1>20, <2>1, <2>2, FinishUpdates, UpdatedOnce
<1>21. ASSUME NEW k \in Searches, NEW s \in Servers, AggTimeOut(k, s)
       PROVE  Once'
  BY <1>21, QuietOnce DEF AggTimeOut, clientVars, searchVars
<1>22. ASSUME NEW p \in net, AggResponseHandler(p)
       PROVE  Once'
  BY <1>22, QuietOnce DEF AggResponseHandler, clientVars, searchVars
<1>23. ASSUME NEW p \in net, Search(p)
       PROVE  Once'
  BY <1>23, QuietOnce DEF Search, Reply, clientVars, searchVars
<1>24. ASSUME NEW s \in Servers, BreakServer(s)
       PROVE  Once'
  BY <1>24, QuietOnce DEF BreakServer, clientVars, searchVars
<1>25. ASSUME NEW s \in Servers, ServerClosed(s)
       PROVE  Once'
  BY <1>25, QuietOnce DEF ServerClosed, clientVars, searchVars
<1>26. ASSUME ConnectToPendingServers
       PROVE  Once'
  BY <1>26, QuietOnce DEF ConnectToPendingServers, clientVars, searchVars
<1>27. ASSUME NEW s \in Servers, Dial(s)
       PROVE  Once'
  BY <1>27, QuietOnce DEF Dial, clientVars, searchVars
<1>28. ASSUME NEW s \in Servers, StoreServerId(s)
       PROVE  Once'
  BY <1>28, QuietOnce DEF StoreServerId, clientVars, searchVars
<1>29. ASSUME NEW s \in Servers, StoreServerStatus(s)
       PROVE  Once'
  BY <1>29, QuietOnce DEF StoreServerStatus, clientVars, searchVars
<1>30. CASE UNCHANGED vars
  BY <1>30, QuietOnce DEF vars, clientVars, searchVars
<1> QED
  BY <1>1, <1>2, <1>3, <1>4, <1>5, <1>6, <1>7, <1>8, <1>9, <1>10, <1>11, <1>12, <1>13, <1>14,
     <1>15,
     <1>16, <1>17, <1>18, <1>19, <1>20, <1>21, <1>22, <1>23, <1>24, <1>25, <1>26, <1>27,
     <1>28, <1>29, <1>30
     DEF Next, Client, MainStep, JobStep, Links, Aggregator, AggregatorStep, Server

\* Start-up gives every variable its type.
LEMMA InitTypes ==
  ASSUME Init
  PROVE  TypeOK
<1>1. conn \in [Clients -> 0..MaxIds] /\ up \subseteq Ids
  BY QueryConstants DEF Init, Ids
<1>2. owner \in [Ids -> Clients \cup {None}]
  BY DEF Init
<1>3. pool \in [0..(PoolSize - 1) -> 0..MaxIds]
  <2>1. \A l \in up : l \in 0..MaxIds
    BY <1>1, QueryConstants DEF Ids
  <2>2. ASSUME NEW p \in 0..(PoolSize - 1)
        PROVE  (IF \E l \in up : Slot(l) = p THEN CHOOSE l \in up : Slot(l) = p ELSE 0) \in 0..MaxIds
    BY <2>1, QueryConstants
  <2> QED
    BY <2>2 DEF Init
<1>4. /\ nextId \in 1..(MaxIds + 1) /\ breaks \in 0..MaxBreaks
      /\ reports \in [Ids -> 0..MaxReports]
  BY QueryConstants DEF Init
<1>5. /\ cid \in [Servers -> Dials] /\ dial \in [Servers -> Dials]
      /\ live \in [Servers -> 0..MaxDials] /\ inTable \in [Servers -> 0..MaxDials]
  BY QueryConstants DEF Init, Dials
<1>6. /\ sent \in [Clients -> 0..MaxQueries] /\ via \in [Clients -> 0..MaxIds]
      /\ count \in [Clients -> 0..(CountMod - 1)] /\ dialled \in [Clients -> 0..MaxIds]
  BY QueryConstants DEF Init
<1>7. /\ pc \in [Clients -> {"idle", "registered", "submitted", "waiting"}]
      /\ callbacks \in [Clients -> SUBSET Resources] /\ jobs \in [Clients -> SUBSET Jobs]
      /\ answers \in [Clients -> Seq(Answers)]
  BY DEF Init
<1>8. /\ table \in [Clients -> 0..MaxIds] /\ dialling \subseteq Clients /\ spurious \subseteq Clients
      /\ contexts \in [Searches -> Contexts \cup {None}] /\ aggCallbacks \subseteq Searches \X Servers
      /\ aggJobs \subseteq AggJobs
  BY <1>1 DEF Init
<1>9. /\ status \in [Servers -> {"Disconnected", "Connecting", "Connected"}]
      /\ fresh \subseteq Servers /\ stored \subseteq Servers
      /\ starting \subseteq Servers /\ pending \subseteq Servers /\ net \subseteq Packets
  BY DEF Init
<1> QED
  BY <1>1, <1>2, <1>3, <1>4, <1>5, <1>6, <1>7, <1>8, <1>9 DEF TypeOK

\* Start-up: nothing is sent, and each client owns its connection.
LEMMA InitInv ==
  ASSUME Init
  PROVE  IInv
<1>1. LinksOwned
  <2>1. \A l \in Ids : owner[l] # None => l \in up
    BY DEF Init
  <2>2. \A l \in up : l < nextId
    BY QueryConstants DEF Init
  <2>3. ASSUME NEW c \in Clients, conn[c] # 0
        PROVE  owner[conn[c]] = c
    <3>1. conn[c] \in Ids /\ conn[c] \in up
      BY <2>3, QueryConstants DEF Init, Ids
    <3>2. owner[conn[c]] = CHOOSE d \in Clients : conn[d] = conn[c]
      BY <3>1 DEF Init
    <3>3. \A d \in Clients : conn[d] = conn[c] => d = c
      BY <2>3 DEF Init
    <3> QED
      BY <3>2, <3>3
  <2>4. table = conn /\ dialled = [c \in Clients |-> 0]
    BY DEF Init
  <2> QED
    BY <2>1, <2>2, <2>3, <2>4 DEF LinksOwned
<1>2. Begun /\ NetOwned /\ ContextsOwned /\ AggOwned /\ JobsOwned /\ OwnAnswer
  BY DEF Init, Begun, NetOwned, ContextsOwned, AggOwned, JobsOwned, OwnAnswer
<1>3. Served = {}
  BY DEF Init, Served
<1>4. JobsOnce
  BY <1>3 DEF Init, JobsOnce, OneJob, JobFresh, OneAnswer, Armed, Known, FromServed
<1>5. SendsOnce
  BY <1>3 DEF Init, SendsOnce, Unsent, Requested, Delivered, NoFailure
<1> QED
  BY <1>1, <1>2, <1>4, <1>5, InitTypes DEF IInv, Owned, Once

\* Two answers to one query: one of a failed send, and a timeout, for after a
\* failed send the request is served by nobody.
LEMMA OnceMeansOneResult ==
  ASSUME TypeOK, Once
  PROVE  OneResult
<1>1. SUFFICES ASSUME NEW c \in Clients, NEW i \in DOMAIN answers[c], NEW j \in DOMAIN answers[c],
                      i # j, answers[c][i].resource = answers[c][j].resource
               PROVE  {answers[c][i].outcome, answers[c][j].outcome} = {"FailedNetwork", "Timeout"}
  BY DEF OneResult
<1> DEFINE a == answers[c][i]
           b == answers[c][j]
<1>2. a.outcome \in Outcomes /\ b.outcome \in Outcomes
  BY AnswersTyped DEF Answers
<1>3. ~(Final(a.outcome) <=> Final(b.outcome))
  BY <1>1 DEF Once, JobsOnce, OneAnswer, Same
<1>4. ASSUME NEW m \in DOMAIN answers[c], NEW n \in DOMAIN answers[c],
             answers[c][m].resource = answers[c][n].resource,
             answers[c][m].outcome = "Success"
      PROVE  Final(answers[c][n].outcome)
  BY <1>4 DEF Once, JobsOnce, FromServed, SendsOnce, Delivered, NoFailure
<1>5. a.outcome # "Success" /\ b.outcome # "Success"
  BY <1>1, <1>3, <1>4 DEF Final
<1> QED
  BY <1>2, <1>3, <1>5 DEF Final, Outcomes
-----------------------------------------------------------------------------
(* The count that WaitAllFinished waits for.                                *)

\* A callback of a query has yet to decrease the count: it is armed, or at
\* work and not there yet.
Pending(j) == j.at = "decrease" \/ (j.at = "call" /\ j.outcome # "Timeout")

Open(c) == {r \in Resources :
  r \in callbacks[c] \/ \E j \in jobs[c] : j.resource = r /\ Pending(j)}

Recorded(c, j) == \E i \in DOMAIN answers[c] :
  answers[c][i].resource = j.resource /\ answers[c][i].outcome = j.outcome

CallsRecorded(c) == \A j \in jobs[c] : Called(j) => Recorded(c, j)

\* What WaitMeansAnswered excepts.
Careful(c) == ~SendFailed(c) /\ c \notin spurious

Covered(c) == \A r \in 1..sent[c] :
  r \in callbacks[c] \/ Answered(c, r) \/ \E j \in jobs[c] : j.resource = r

\* The count is that of the open queries, of which there is at most one. It
\* is one less before it is increased, and wraps if the timeout is first.
Balanced(c) ==
  /\ Open(c) \subseteq {sent[c]}
  /\ pc[c] = "idle" => Open(c) = {}
  /\ pc[c] = "registered" => count[c] = IF Open(c) = {} THEN CountMod - 1 ELSE 0
  /\ pc[c] # "registered" => count[c] = IF Open(c) = {} THEN 0 ELSE 1

CountInv(c) == CallsRecorded(c) /\ (Careful(c) => Covered(c) /\ Balanced(c))

CountsInv == \A c \in Clients : CountInv(c)

\* The count of a client none of whose variables change.
LEMMA CountAlike ==
  ASSUME NEW c \in Clients, CountInv(c),
         pc'[c] = pc[c], sent'[c] = sent[c], callbacks'[c] = callbacks[c], count'[c] = count[c],
         jobs'[c] = jobs[c], answers'[c] = answers[c], c \in spurious' <=> c \in spurious
  PROVE  CountInv(c)'
<1>1. CallsRecorded(c)' <=> CallsRecorded(c)
  BY DEF CallsRecorded, Recorded, Called
<1>2. Careful(c)' <=> Careful(c)
  BY DEF Careful, SendFailed
<1>3. Covered(c)' <=> Covered(c)
  BY DEF Covered, Answered
<1>4. Open(c)' = Open(c)
  BY DEF Open, Pending
<1>5. Balanced(c) => Balanced(c)'
  BY <1>4 DEF Balanced
<1> QED
  BY <1>1, <1>2, <1>3, <1>5 DEF CountInv

\* A failed send stays known: its callback is recorded before it ends.
LEMMA CarefulBefore ==
  ASSUME NEW c \in Clients, CallsRecorded(c), Careful(c)', spurious \subseteq spurious',
         \A i \in DOMAIN answers[c] : i \in DOMAIN answers'[c] /\ answers'[c][i] = answers[c][i],
         \A j \in jobs[c] : \/ j.outcome # "FailedNetwork" \/ Called(j)
                            \/ \E h \in jobs'[c] : h.outcome = j.outcome
                            \/ \E i \in DOMAIN answers'[c] : answers'[c][i].outcome = j.outcome
  PROVE  Careful(c)
<1>1. c \notin spurious
  BY DEF Careful
<1>2. \A i \in DOMAIN answers[c] : answers[c][i].outcome # "FailedNetwork"
  BY DEF Careful, SendFailed
<1>3. \A j \in jobs[c] : j.outcome # "FailedNetwork"
  BY <1>2 DEF Careful, SendFailed, CallsRecorded, Recorded
<1> QED
  BY <1>1, <1>2, <1>3 DEF Careful, SendFailed

\* RegisterQuery opens the next query.
LEMMA RegisterCounts ==
  ASSUME TypeOK, NEW c \in Clients, CountInv(c), RegisterQuery(c)
  PROVE  CountInv(c)'
<1>1. /\ pc[c] = "idle" /\ pc'[c] = "registered" /\ sent'[c] = sent[c] + 1
      /\ callbacks'[c] = callbacks[c] \cup {sent[c] + 1}
      /\ sent[c] \in 0..MaxQueries /\ sent[c] < MaxQueries
      /\ UNCHANGED <<count, jobs, answers, spurious>>
  BY DEF RegisterQuery, TypeOK
<1>2. CallsRecorded(c)'
  BY <1>1 DEF CountInv, CallsRecorded, Recorded, Called
<1>3. SUFFICES ASSUME Careful(c)'
               PROVE  Covered(c)' /\ Balanced(c)'
  BY <1>2 DEF CountInv
<1>4. Covered(c) /\ Balanced(c)
  BY <1>1, <1>3 DEF CountInv, Careful, SendFailed
<1>5. Open(c) = {} /\ count[c] = 0
  BY <1>1, <1>4 DEF Balanced
<1>6. sent[c] + 1 \in Resources
  BY <1>1, QueryConstants DEF Resources
<1>7. Open(c)' = {sent[c] + 1}
  BY <1>1, <1>5, <1>6 DEF Open
<1>8. Balanced(c)'
  BY <1>1, <1>5, <1>7 DEF Balanced
<1>9. \A r \in 1..sent'[c] : r \in 1..sent[c] \/ r = sent[c] + 1
  BY <1>1
<1>10. Covered(c)'
  BY <1>1, <1>4, <1>9 DEF Covered, Answered
<1> QED
  BY <1>8, <1>10

\* SubmitQuery increases the count, which has wrapped if the timeout of the
\* query it submits was first.
LEMMA SubmitCounts ==
  ASSUME TypeOK, Owned, NEW c \in Clients, CountInv(c), SubmitQuery(c)
  PROVE  CountInv(c)'
<1> DEFINE J(b) == Job(sent[c], "FailedNetwork", {}, b)
<1>1. /\ pc[c] = "registered" /\ pc'[c] = "submitted"
      /\ count'[c] = (count[c] + 1) % CountMod
      /\ UNCHANGED <<sent, callbacks, answers, spurious>>
  BY DEF SubmitQuery, TypeOK
<1>2. jobs' = jobs \/ \E b \in BOOLEAN : jobs'[c] = jobs[c] \cup {J(b)}
  BY DEF SubmitQuery, SendPacket, StartJob, TypeOK
<1>3. \A b \in BOOLEAN : J(b).outcome = "FailedNetwork" /\ J(b).at = "call"
  BY DEF Job, StartsAt
<1>4. CallsRecorded(c)'
  BY <1>1, <1>2, <1>3 DEF CountInv, CallsRecorded, Recorded, Called
<1>5. SUFFICES ASSUME Careful(c)'
               PROVE  Covered(c)' /\ Balanced(c)'
  BY <1>4 DEF CountInv
<1>6. jobs'[c] = jobs[c]
  BY <1>2, <1>3, <1>5 DEF Careful, SendFailed
<1>7. Covered(c) /\ Balanced(c)
  BY <1>1, <1>5, <1>6 DEF CountInv, Careful, SendFailed
<1>8. Open(c)' = Open(c)
  BY <1>1, <1>6 DEF Open
<1>9. Covered(c)'
  BY <1>1, <1>6, <1>7 DEF Covered, Answered
<1>10. count'[c] = IF Open(c) = {} THEN 0 ELSE 1
  <2>1. CASE Open(c) = {}
    <3>1. count'[c] = (CountMod - 1 + 1) % CountMod
      BY <1>1, <1>7, <2>1 DEF Balanced
    <3> QED
      BY <2>1, <3>1, QueryConstants, CountsFit
  <2>2. CASE Open(c) # {}
    <3>1. count'[c] = (0 + 1) % CountMod
      BY <1>1, <1>7, <2>2 DEF Balanced
    <3> QED
      BY <2>2, <3>1, QueryConstants, CountsFit
  <2> QED
    BY <2>1, <2>2
<1> QED
  BY <1>1, <1>7, <1>8, <1>9, <1>10 DEF Balanced

\* WaitAllFinished and its wakeups: main goes on only with nothing open.
LEMMA PcCounts ==
  ASSUME NEW c \in Clients, CountInv(c), UNCHANGED <<sent, callbacks, count, jobs, answers>>,
         spurious \subseteq spurious',
         pc[c] # "registered", pc'[c] # "registered",
         pc'[c] = "idle" => count[c] = 0 \/ c \in spurious'
  PROVE  CountInv(c)'
<1>1. CallsRecorded(c)'
  BY DEF CountInv, CallsRecorded, Recorded, Called
<1>2. SUFFICES ASSUME Careful(c)'
               PROVE  Covered(c)' /\ Balanced(c)'
  BY <1>1 DEF CountInv
<1>3. Covered(c) /\ Balanced(c)
  BY <1>2 DEF CountInv, Careful, SendFailed
<1>4. Open(c)' = Open(c)
  BY DEF Open
<1>5. Balanced(c)'
  BY <1>2, <1>3, <1>4 DEF Balanced, Careful
<1> QED
  BY <1>3, <1>5 DEF Covered, Answered

\* A callback that is taken out of the manager is at work: its query stays
\* open.
LEMMA TakenCounts ==
  ASSUME TypeOK, NEW c \in Clients, CountInv(c), NEW r \in callbacks[c],
         NEW o \in {"Success", "Timeout"}, NEW d, NEW b,
         StartJob(c, Job(r, o, d, b)), callbacks' = [callbacks EXCEPT ![c] = @ \ {r}],
         UNCHANGED <<pc, sent, count, answers, spurious>>
  PROVE  CountInv(c)'
<1> DEFINE h == Job(r, o, d, b)
<1>1. /\ h.resource = r /\ h.outcome = o /\ Pending(h) /\ ~Called(h)
      /\ jobs'[c] = jobs[c] \cup {h} /\ callbacks'[c] = callbacks[c] \ {r} /\ r \in Resources
  BY DEF Job, StartsAt, Pending, Called, StartJob, TypeOK
<1>2. CallsRecorded(c)'
  BY <1>1 DEF CountInv, CallsRecorded, Recorded
<1>3. SUFFICES ASSUME Careful(c)'
               PROVE  Covered(c)' /\ Balanced(c)'
  BY <1>2 DEF CountInv
<1>4. Covered(c) /\ Balanced(c)
  BY <1>1, <1>3 DEF CountInv, Careful, SendFailed
<1>5. Open(c)' = Open(c)
  <2>1. ASSUME NEW x \in Resources
        PROVE  x \in Open(c)' <=> x \in Open(c)
    BY <1>1 DEF Open
  <2> QED
    BY <2>1 DEF Open
<1>6. Balanced(c)'
  BY <1>4, <1>5 DEF Balanced
<1>7. Covered(c)'
  BY <1>1, <1>4 DEF Covered, Answered
<1> QED
  BY <1>6, <1>7

\* A closing link only adds callbacks of failed sends.
LEMMA ClosedFails ==
  ASSUME TypeOK, NEW l, CloseLink(l), NEW c \in Clients
  PROVE  /\ jobs[c] \subseteq jobs'[c]
         /\ \A j \in jobs'[c] \ jobs[c] : j.outcome = "FailedNetwork" /\ j.at = "call"
<1>1. PICK F : jobs' = [e \in Clients |-> jobs[e] \cup
        {Job(p.query[2], "FailedNetwork", {}, FALSE) : p \in {x \in F : x.query[1] = e}}]
  BY DEF CloseLink
<1>2. jobs'[c] = jobs[c] \cup
        {Job(p.query[2], "FailedNetwork", {}, FALSE) : p \in {x \in F : x.query[1] = c}}
  BY <1>1
<1> QED
  BY <1>2 DEF Job, StartsAt

\* ... after which the client is excepted, or unchanged.
LEMMA ClosedCounts ==
  ASSUME TypeOK, NEW l, CloseLink(l), NEW c \in Clients, CountInv(c),
         UNCHANGED <<pc, sent, callbacks, count, answers, spurious>>
  PROVE  CountInv(c)'
<1>1. /\ jobs[c] \subseteq jobs'[c]
      /\ \A j \in jobs'[c] \ jobs[c] : j.outcome = "FailedNetwork" /\ j.at = "call"
  BY ClosedFails
<1>2. CASE jobs'[c] = jobs[c]
  BY <1>2, CountAlike
<1>3. CASE jobs'[c] # jobs[c]
  <2>1. ~Careful(c)'
    BY <1>1, <1>3 DEF Careful, SendFailed
  <2>2. CallsRecorded(c)'
    BY <1>1 DEF CountInv, CallsRecorded, Recorded, Called
  <2> QED
    BY <2>1, <2>2 DEF CountInv
<1> QED
  BY <1>2, <1>3

\* The user's function is called: the query is answered, and open as before.
LEMMA CallCounts ==
  ASSUME TypeOK, NEW c \in Clients, CountInv(c), NEW j \in jobs[c], RunCallback(c, j)
  PROVE  CountInv(c)'
<1> DEFINE a == [resource |-> j.resource, outcome |-> j.outcome, data |-> j.data]
           h == [j EXCEPT !.at = "decrease"]
           n == Len(answers[c]) + 1
<1>1. /\ j.at = "call" /\ j \in Jobs
      /\ answers'[c] = Append(answers[c], a)
      /\ jobs'[c] = IF j.outcome = "Timeout" THEN jobs[c] \ {j} ELSE (jobs[c] \ {j}) \cup {h}
      /\ UNCHANGED <<pc, sent, callbacks, count, spurious>>
  BY DEF RunCallback, TypeOK, StartsAt, MoveJob, EndJob
<1>2. h.resource = j.resource /\ h.outcome = j.outcome /\ h.at = "decrease"
  BY <1>1 DEF Jobs
<1>3. /\ \A i \in DOMAIN answers[c] : i \in DOMAIN answers'[c] /\ answers'[c][i] = answers[c][i]
      /\ n \in DOMAIN answers'[c] /\ answers'[c][n] = a
  BY <1>1 DEF TypeOK
<1>4. CallsRecorded(c)'
  <2>1. ASSUME NEW x \in jobs'[c], Called(x)
        PROVE  Recorded(c, x)'
    <3>1. CASE x = h
      BY <1>2, <1>3, <3>1 DEF Recorded
    <3>2. CASE x # h
      <4>1. x \in jobs[c]
        BY <1>1, <3>2
      <4>2. Recorded(c, x)
        BY <2>1, <4>1 DEF CountInv, CallsRecorded
      <4> QED
        BY <1>3, <4>2 DEF Recorded
    <3> QED
      BY <3>1, <3>2
  <2> QED
    BY <2>1 DEF CallsRecorded, Called
<1>5. SUFFICES ASSUME Careful(c)'
               PROVE  Covered(c)' /\ Balanced(c)'
  BY <1>4 DEF CountInv
<1>6. Covered(c) /\ Balanced(c)
  <2>1. \A x \in jobs[c] : x.outcome # "FailedNetwork" \/ x \in jobs'[c] \/ x = j
    BY <1>1
  <2>2. Careful(c)
    BY <1>1, <1>3, <1>5, <2>1, CarefulBefore DEF CountInv
  <2> QED
    BY <2>2 DEF CountInv
<1>7. Open(c)' = Open(c)
  <2>1. CASE j.outcome = "Timeout"
    BY <1>1, <2>1 DEF Open, Pending
  <2>2. CASE j.outcome # "Timeout"
    BY <1>1, <1>2, <2>2 DEF Open, Pending
  <2> QED
    BY <2>1, <2>2
<1>8. Balanced(c)'
  BY <1>1, <1>6, <1>7 DEF Balanced
<1>9. Covered(c)'
  <2>1. \A r : Answered(c, r) => Answered(c, r)'
    BY <1>3 DEF Answered
  <2>2. Answered(c, j.resource)'
    BY <1>3 DEF Answered
  <2>3. ASSUME NEW r \in 1..sent[c]
        PROVE  r \in callbacks[c] \/ Answered(c, r)' \/ \E x \in jobs'[c] : x.resource = r
    BY <1>1, <1>6, <2>1, <2>2 DEF Covered
  <2> QED
    BY <1>1, <2>3 DEF Covered
<1> QED
  BY <1>8, <1>9

\* A callback that has counted ends if the user's function was called, and
\* otherwise goes on, no longer pending.
LEMMA CountedJobs ==
  ASSUME TypeOK, NEW c \in Clients, NEW j \in jobs[c], j.at \in {"decrease", "notify"},
         MoveJob(c, j, "notify") \/ Counted(c, j)
  PROVE  \E H \in SUBSET jobs'[c] :
           /\ jobs'[c] = (jobs[c] \ {j}) \cup H
           /\ \A h \in H : /\ h.resource = j.resource /\ h.outcome = j.outcome /\ ~Pending(h)
                           /\ Called(h) => Called(j)
           /\ H = {} => Called(j)
<1>1. j \in Jobs
  BY DEF TypeOK
<1>2. ASSUME NEW at \in {"call", "decrease", "notify"}, MoveJob(c, j, at),
             ~Pending([j EXCEPT !.at = at]),
             Called([j EXCEPT !.at = at]) => Called(j)
      PROVE  \E H \in SUBSET jobs'[c] :
               /\ jobs'[c] = (jobs[c] \ {j}) \cup H
               /\ \A h \in H : /\ h.resource = j.resource /\ h.outcome = j.outcome /\ ~Pending(h)
                               /\ Called(h) => Called(j)
               /\ H = {} => Called(j)
  <2>1. jobs'[c] = (jobs[c] \ {j}) \cup {[j EXCEPT !.at = at]}
    BY <1>2 DEF MoveJob, TypeOK
  <2> WITNESS {[j EXCEPT !.at = at]} \in SUBSET jobs'[c]
  <2> QED
    BY <1>1, <1>2, <2>1, MovedTyped
<1>3. CASE MoveJob(c, j, "notify")
  <2>1. ~Pending([j EXCEPT !.at = "notify"]) /\ (Called([j EXCEPT !.at = "notify"]) => Called(j))
    BY <1>1, MovedTyped DEF Pending, Called
  <2> QED
    BY <1>2, <1>3, <2>1
<1>4. CASE Counted(c, j) /\ j.outcome = "Timeout"
  <2>1. MoveJob(c, j, "call")
    BY <1>4 DEF Counted, StartsAt
  <2>2. ~Pending([j EXCEPT !.at = "call"]) /\ ~Called([j EXCEPT !.at = "call"])
    BY <1>1, <1>4, MovedTyped DEF Pending, Called
  <2> QED
    BY <1>2, <2>1, <2>2
<1>5. CASE Counted(c, j) /\ j.outcome # "Timeout"
  <2>1. jobs'[c] = jobs[c] \ {j}
    BY <1>5 DEF Counted, StartsAt, EndJob, TypeOK
  <2>2. Called(j)
    BY <1>5 DEF Called
  <2> WITNESS {} \in SUBSET jobs'[c]
  <2> QED
    BY <2>1, <2>2
<1> QED
  BY <1>3, <1>4, <1>5

\* Such a callback leaves every other one as it is.
LEMMA CountedKeeps ==
  ASSUME TypeOK, NEW c \in Clients, CountInv(c), NEW j \in jobs[c], j.at \in {"decrease", "notify"},
         MoveJob(c, j, "notify") \/ Counted(c, j),
         UNCHANGED <<sent, callbacks, answers, spurious>>
  PROVE  /\ CallsRecorded(c)'
         /\ Careful(c)' => Careful(c) /\ Covered(c) /\ Balanced(c) /\ Covered(c)'
         /\ Open(c)' = {r \in Resources :
              r \in callbacks[c] \/ \E x \in jobs[c] \ {j} : x.resource = r /\ Pending(x)}
<1>1. PICK H \in SUBSET jobs'[c] :
           /\ jobs'[c] = (jobs[c] \ {j}) \cup H
           /\ \A h \in H : /\ h.resource = j.resource /\ h.outcome = j.outcome /\ ~Pending(h)
                           /\ Called(h) => Called(j)
           /\ H = {} => Called(j)
  BY CountedJobs, Zenon
<1>2. Called(j) => Recorded(c, j)
  BY DEF CountInv, CallsRecorded
<1>3. CallsRecorded(c)'
  BY <1>1, <1>2 DEF CountInv, CallsRecorded, Recorded, Called
<1>4. Careful(c)' => Careful(c)
  BY <1>1, CarefulBefore DEF CountInv
<1>5. \A r : Answered(c, r)' <=> Answered(c, r)
  BY DEF Answered
<1>6. H = {} => Answered(c, j.resource)
  BY <1>1, <1>2 DEF Recorded, Answered
<1>7. Covered(c) => Covered(c)'
  BY <1>1, <1>5, <1>6 DEF Covered
<1>8. Open(c)' = {r \in Resources :
              r \in callbacks[c] \/ \E x \in jobs[c] \ {j} : x.resource = r /\ Pending(x)}
  BY <1>1 DEF Open, Pending
<1> QED
  BY <1>3, <1>4, <1>7, <1>8 DEF CountInv

\* The one open query is closed with the count: it becomes 0, or wraps when
\* the query is not submitted yet.
LEMMA DecreaseCounts ==
  ASSUME TypeOK, Once, NEW c \in Clients, CountInv(c), NEW j \in jobs[c],
         DecreaseUnfinishedJobCount(c, j)
  PROVE  CountInv(c)'
<1>1. /\ j.at = "decrease" /\ j \in Jobs
      /\ count'[c] = (count[c] - 1) % CountMod
      /\ MoveJob(c, j, "notify") \/ Counted(c, j)
      /\ UNCHANGED <<pc, sent, callbacks, answers, spurious>>
  BY DEF DecreaseUnfinishedJobCount, TypeOK
<1>2. /\ CallsRecorded(c)'
      /\ Careful(c)' => Careful(c) /\ Covered(c) /\ Balanced(c) /\ Covered(c)'
      /\ Open(c)' = {r \in Resources :
           r \in callbacks[c] \/ \E x \in jobs[c] \ {j} : x.resource = r /\ Pending(x)}
  BY <1>1, CountedKeeps
<1>3. SUFFICES ASSUME Careful(c)', Careful(c), Covered(c), Balanced(c), Covered(c)'
               PROVE  Balanced(c)'
  BY <1>2 DEF CountInv
<1>4. \A x \in jobs[c] : Final(x.outcome)
  BY <1>3 DEF Careful, SendFailed, Final
<1>5. j.resource \in Resources /\ j.resource \in Open(c)
  BY <1>1 DEF Open, Pending, Jobs
<1>6. Open(c) = {j.resource} /\ pc[c] # "idle"
  BY <1>3, <1>5 DEF Balanced
<1>7. j.resource \notin callbacks[c] /\ \A x \in jobs[c] \ {j} : x.resource # j.resource
  BY <1>4, <1>5 DEF Once, JobsOnce, Armed, OneJob, Same
<1>8. Open(c)' = {}
  <2>1. \A r \in Open(c)' : r \in Open(c) /\ r # j.resource
    BY <1>2, <1>7 DEF Open
  <2> QED
    BY <1>6, <2>1
<1>9. count'[c] = IF pc[c] = "registered" THEN CountMod - 1 ELSE 0
  <2>1. CASE pc[c] = "registered"
    <3>1. count'[c] = (0 - 1) % CountMod
      BY <1>1, <1>3, <1>6, <2>1 DEF Balanced
    <3> QED
      BY <2>1, <3>1, CountsFit, QueryConstants
  <2>2. CASE pc[c] # "registered"
    <3>1. count'[c] = (1 - 1) % CountMod
      BY <1>1, <1>3, <1>6, <2>2 DEF Balanced
    <3> QED
      BY <2>2, <3>1, CountsFit, QueryConstants
  <2> QED
    BY <2>1, <2>2
<1> QED
  BY <1>1, <1>6, <1>8, <1>9 DEF Balanced

\* main is woken only by a count of 0, with which nothing is open.
LEMMA NotifyCounts ==
  ASSUME TypeOK, NEW c \in Clients, CountInv(c), NEW j \in jobs[c], NotifyWaiting(c, j)
  PROVE  CountInv(c)'
<1>1. /\ j.at = "notify" /\ Counted(c, j)
      /\ pc'[c] = IF count[c] = 0 /\ pc[c] = "waiting" THEN "idle" ELSE pc[c]
      /\ UNCHANGED <<sent, count, callbacks, answers, spurious>>
  BY DEF NotifyWaiting, TypeOK
<1>2. /\ CallsRecorded(c)'
      /\ Careful(c)' => Careful(c) /\ Covered(c) /\ Balanced(c) /\ Covered(c)'
      /\ Open(c)' = {r \in Resources :
           r \in callbacks[c] \/ \E x \in jobs[c] \ {j} : x.resource = r /\ Pending(x)}
  BY <1>1, CountedKeeps
<1>3. ~Pending(j)
  BY <1>1 DEF Pending
<1>4. Open(c)' = Open(c)
  BY <1>2, <1>3 DEF Open
<1>5. Balanced(c) => Balanced(c)'
  BY <1>1, <1>4 DEF Balanced
<1> QED
  BY <1>2, <1>5 DEF CountInv

\* Every step keeps the counts: those of the aggregator and of the servers
\* leave the clients alone.
LEMMA CountsNext ==
  ASSUME TypeOK, Owned, Once, CountsInv, [Next]_vars
  PROVE  CountsInv'
<1> SUFFICES ASSUME NEW c \in Clients
             PROVE  CountInv(c)'
  BY DEF CountsInv
<1>c. CountInv(c)
  BY DEF CountsInv
<1>0. ASSUME UNCHANGED clientVars
      PROVE  CountInv(c)'
  BY <1>0, <1>c, CountAlike DEF clientVars
<1>1. ASSUME NEW d \in Clients, RegisterQuery(d)
      PROVE  CountInv(c)'
  <2>1. CASE d = c
    BY <1>1, <2>1, <1>c, RegisterCounts
  <2>2. CASE d # c
    BY <1>1, <2>2, <1>c, CountAlike DEF TypeOK, RegisterQuery
  <2> QED
    BY <2>1, <2>2
<1>2. ASSUME NEW d \in Clients, SubmitQuery(d)
      PROVE  CountInv(c)'
  <2>1. CASE d = c
    BY <1>2, <2>1, <1>c, SubmitCounts
  <2>2. CASE d # c
    BY <1>2, <2>2, <1>c, CountAlike DEF TypeOK, SubmitQuery, SendPacket, StartJob
  <2> QED
    BY <2>1, <2>2
<1>3. ASSUME NEW d \in Clients, WaitAllFinished(d)
      PROVE  CountInv(c)'
  <2>1. CASE d = c
    BY <1>3, <2>1, <1>c, PcCounts DEF WaitAllFinished, TypeOK
  <2>2. CASE d # c
    BY <1>3, <2>2, <1>c, CountAlike DEF TypeOK, WaitAllFinished
  <2> QED
    BY <2>1, <2>2
<1>4. ASSUME NEW d \in Clients, WakeSpuriously(d)
      PROVE  CountInv(c)'
  <2>1. CASE d = c
    BY <1>4, <2>1, <1>c, PcCounts DEF WakeSpuriously, TypeOK
  <2>2. CASE d # c
    <3>1. /\ pc'[c] = pc[c] /\ UNCHANGED <<sent, callbacks, count, jobs, answers>>
          /\ c \in spurious' <=> c \in spurious
      BY <1>4, <2>2 DEF WakeSpuriously, TypeOK
    <3> QED
      BY <1>c, <3>1, CountAlike
  <2> QED
    BY <2>1, <2>2
<1>5. ASSUME NEW d \in Clients, NEW j \in jobs[d], RunCallback(d, j)
      PROVE  CountInv(c)'
  <2>1. CASE d = c
    BY <1>5, <2>1, <1>c, CallCounts
  <2>2. CASE d # c
    BY <1>5, <2>2, <1>c, CountAlike DEF TypeOK, RunCallback, MoveJob, EndJob
  <2> QED
    BY <2>1, <2>2
<1>6. ASSUME NEW d \in Clients, NEW j \in jobs[d], DecreaseUnfinishedJobCount(d, j)
      PROVE  CountInv(c)'
  <2>1. CASE d = c
    BY <1>6, <2>1, <1>c, DecreaseCounts
  <2>2. CASE d # c
    BY <1>6, <2>2, <1>c, CountAlike DEF TypeOK, DecreaseUnfinishedJobCount, Counted, MoveJob, EndJob
  <2> QED
    BY <2>1, <2>2
<1>7. ASSUME NEW d \in Clients, NEW j \in jobs[d], NotifyWaiting(d, j)
      PROVE  CountInv(c)'
  <2>1. CASE d = c
    BY <1>7, <2>1, <1>c, NotifyCounts
  <2>2. CASE d # c
    BY <1>7, <2>2, <1>c, CountAlike DEF TypeOK, NotifyWaiting, Counted, MoveJob, EndJob
  <2> QED
    BY <2>1, <2>2
<1>8. ASSUME NEW d \in Clients, NEW r \in Resources, TimeOut(d, r)
      PROVE  CountInv(c)'
  <2>1. CASE d = c
    BY <1>8, <2>1, <1>c, TakenCounts DEF TimeOut
  <2>2. CASE d # c
    BY <1>8, <2>2, <1>c, CountAlike DEF TypeOK, TimeOut, StartJob
  <2> QED
    BY <2>1, <2>2
<1>9. ASSUME NEW d \in Clients, NEW p \in net, SearchResponseHandler(d, p)
      PROVE  CountInv(c)'
  <2>1. CASE d = c /\ p.resource \in callbacks[c]
    BY <1>9, <2>1, <1>c, TakenCounts DEF SearchResponseHandler, TakeCallback
  <2>2. CASE d # c \/ p.resource \notin callbacks[d]
    BY <1>9, <2>2, <1>c, CountAlike DEF TypeOK, SearchResponseHandler, TakeCallback, StartJob
  <2> QED
    BY <2>1, <2>2
<1>10. ASSUME NEW l \in Ids, Break(l)
       PROVE  CountInv(c)'
  BY <1>10, <1>c, ClosedCounts DEF Break
<1>11. ASSUME NEW l \in Ids, RemoveConnection(l)
       PROVE  CountInv(c)'
  <2>1. CASE UNCHANGED <<net, jobs>>
    BY <1>11, <2>1, <1>0 DEF RemoveConnection, clientVars
  <2>2. CASE CloseLink(pool[Slot(l)])
    BY <1>11, <2>2, <1>c, ClosedCounts DEF RemoveConnection
  <2> QED
    BY <1>11, <2>1, <2>2 DEF RemoveConnection
<1>12. ASSUME NEW d \in Clients, \/ HandleDeadConnection(d) \/ RefuseConnection(d)
                                 \/ StoreConnection(d) \/ GiveUpDialling(d)
                                 \/ \E l \in Ids : ConnectToServer(d, l)
       PROVE  UNCHANGED clientVars
  BY <1>12
     DEF HandleDeadConnection, RefuseConnection, StoreConnection, GiveUpDialling, ConnectToServer
<1>13. ASSUME Aggregator
       PROVE  UNCHANGED clientVars
  BY <1>13 DEF Aggregator, AggregatorStep, SearchRequestHandler, StoreResult, FinishJob, AskServer,
               AggTimeOut, AggResponseHandler
<1>14. ASSUME NEW p \in net, Search(p)
       PROVE  UNCHANGED clientVars
  BY <1>14 DEF Search
<1>15. ASSUME NEW s \in Servers, Server(s)
       PROVE  UNCHANGED clientVars
  BY <1>15 DEF Server, BreakServer, ServerClosed, Dial, StoreServerId, StoreServerStatus
<1>16. CASE ConnectToPendingServers \/ UNCHANGED vars
  BY <1>16, <1>0 DEF ConnectToPendingServers, vars
<1> QED
  BY <1>0, <1>1, <1>2, <1>3, <1>4, <1>5, <1>6, <1>7, <1>8, <1>9, <1>10, <1>11, <1>12, <1>13,
     <1>14, <1>15, <1>16
     DEF Next, Client, MainStep, JobStep, Links

\* main goes on only when its queries are answered.
LEMMA CountsMeanAnswered ==
  ASSUME TypeOK, CountsInv
  PROVE  WaitMeansAnswered
<1> SUFFICES ASSUME NEW c \in Clients, ~SendFailed(c), c \notin spurious, NEW r \in 1..sent[c]
             PROVE  \/ Answered(c, r)
                    \/ r = sent[c] /\ pc[c] # "idle"
                    \/ \E j \in jobs[c] : j.resource = r /\ j.outcome = "Timeout"
  BY DEF WaitMeansAnswered
<1>1. CallsRecorded(c) /\ Covered(c) /\ Balanced(c)
  BY DEF CountsInv, CountInv, Careful
<1>2. r \in Resources
  BY QueryConstants DEF TypeOK, Resources
<1>3. CASE r \in Open(c)
  BY <1>1, <1>3 DEF Balanced
<1>4. ASSUME r \notin Open(c), NEW j \in jobs[c], j.resource = r
      PROVE  Answered(c, r) \/ j.outcome = "Timeout"
  <2>1. ~Pending(j)
    BY <1>2, <1>4 DEF Open
  <2>2. Called(j) \/ j.outcome = "Timeout"
    BY <2>1 DEF Pending, Called
  <2> QED
    BY <1>1, <1>4, <2>2 DEF CallsRecorded, Recorded, Answered
<1>5. r \in callbacks[c] => r \in Open(c)
  BY <1>2 DEF Open
<1> QED
  BY <1>1, <1>3, <1>4, <1>5 DEF Covered

\* Start-up: nothing is open.
LEMMA InitCounts ==
  ASSUME Init
  PROVE  CountsInv
<1>1. \A c \in Clients : Open(c) = {}
  BY DEF Init, Open
<1> QED
  BY <1>1 DEF Init, CountsInv, CountInv, CallsRecorded, Covered, Balanced
-----------------------------------------------------------------------------
(* The searches of the aggregator: what they have counted, and found.       *)

\* A search as the aggregator sees it: the servers of its context, those its
\* loop has reached, its callbacks, and its packets.
Asked(k)       == {s \in Servers : contexts[k].cids[s] # 0}
Reached(k)     == Asked(k) \ contexts[k].toAsk
JobsOf(k)      == {j \in aggJobs : j.search = k}
CallbacksOf(k) == {s \in Servers : <<k, s>> \in aggCallbacks}
PacketsOf(k)   == {p \in net : p.type \in {"ask", "reply"} /\ p.search = k}

\* Callbacks are registered, run and recorded for servers the loop has
\* reached.
OnlyReached(k) ==
  /\ CallbacksOf(k) \subseteq Reached(k)
  /\ \A j \in JobsOf(k) : j.server \in Reached(k)
  /\ \A s \in Servers, w \in Outcomes : <<s, w>> \in contexts[k].failed => s \in Reached(k)

\* A server has at most one callback for a failed send and one final one, and
\* the latter is either registered or begun.
OneAggJob(k) ==
  /\ \A j, h \in JobsOf(k) : j.server = h.server /\ (Final(j.why) <=> Final(h.why)) => j = h
  /\ \A j \in JobsOf(k) : Final(j.why) => j.server \notin CallbacksOf(k)

\* What failed is recorded when it is stored.
Logged(k) ==
  /\ \A j \in JobsOf(k) : j.why # "Success" =>
       (j.at = "finish" <=> <<j.server, j.why>> \in contexts[k].failed)
  /\ \A s \in CallbacksOf(k) : <<s, "Timeout">> \notin contexts[k].failed

\* A query on its way to a server is the only one, and has not failed.
AskedOnce(k) == \A p \in PacketsOf(k) : p.type = "ask" =>
  /\ p.server \in Reached(k)
  /\ <<p.server, "FailedNetwork">> \notin contexts[k].failed
  /\ \A j \in JobsOf(k) : j.server = p.server => Final(j.why)
  /\ \A o \in PacketsOf(k) : o.type = "ask" /\ o.server = p.server => o = p

\* The servers whose final callback has counted, and those whose failed send
\* has.
CountedFinal(k) == {s \in Reached(k) \ CallbacksOf(k) :
  \A j \in JobsOf(k) : j.server = s => ~Final(j.why)}

CountedFailed(k) == {s \in Failed(contexts[k], "FailedNetwork") :
  \A j \in JobsOf(k) : j.server = s => Final(j.why)}

Done(k) == Cardinality(CountedFinal(k)) + Cardinality(CountedFailed(k))

\* m_unfinishedCount and the responses after d of the callbacks of a servers.
LeftAfter(a, d)      == IF d <= a THEN a - d ELSE a + CountMod - d
ResponsesAfter(a, d) == IF d < a \/ d = 0 THEN 0 ELSE IF d = a THEN 1 ELSE 2

LeftCounts(k) ==
  LET a == Cardinality(Asked(k)) IN
  /\ contexts[k].left = LeftAfter(a, Done(k))
  /\ contexts[k].responses = ResponsesAfter(a, Done(k))

\* What a server found is on its way, in a callback, or in the results, until
\* they are merged.
FoundBy(k) ==
  /\ \A p \in PacketsOf(k) : p.type = "reply" => <<p.server, contexts[k].query>> \in p.data
  /\ \A j \in JobsOf(k) : j.why = "Success" => <<j.server, contexts[k].query>> \in j.data

ResultKept(k, s) ==
  \/ s \in CallbacksOf(k)
  \/ <<s, "Timeout">> \in contexts[k].failed
  \/ \E j \in JobsOf(k) : j.server = s /\ Final(j.why) /\ j.at = "store"
  \/ contexts[k].results[s] # None /\ <<s, contexts[k].query>> \in contexts[k].results[s]

ResultsKept(k) ==
  contexts[k].responses = 0 /\ Failed(contexts[k], "FailedNetwork") = {} =>
    \A s \in Reached(k) : ResultKept(k, s)

SearchInv(k) == contexts[k] # None =>
  /\ OnlyReached(k) /\ OneAggJob(k) /\ Logged(k) /\ AskedOnce(k)
  /\ LeftCounts(k)
  /\ FoundBy(k) /\ ResultsKept(k)

SearchesInv == \A k \in Searches : SearchInv(k)

\* Data that holds what every server that was asked has found.
CompleteFor(k, d) ==
  /\ contexts[k] # None
  /\ \/ Failed(contexts[k], "FailedNetwork") # {}
     \/ \A s \in Servers \ Failed(contexts[k], "Timeout") :
          contexts[k].cids[s] # 0 => <<s, contexts[k].query>> \in d

Complete(q, d) == \E k \in Searches : CompleteFor(k, d) /\ contexts[k].query = q

ResultsComplete ==
  /\ \A p \in net : p.type = "response" => CompleteFor(<<p.link, p.resource>>, p.data)
  /\ \A c \in Clients : \A j \in jobs[c] : j.outcome = "Success" =>
       Complete(<<c, j.resource>>, j.data)
  /\ \A c \in Clients : \A i \in DOMAIN answers[c] : answers[c][i].outcome = "Success" =>
       Complete(<<c, answers[c][i].resource>>, answers[c][i].data)

\* A set of servers is finite, and smaller than the counter's range.
LEMMA ServersCounted ==
  ASSUME NEW A \in SUBSET Servers
  PROVE  /\ IsFiniteSet(A) /\ Cardinality(A) \in Nat /\ Cardinality(A) < CountMod
         /\ \A B \in SUBSET A : Cardinality(B) <= Cardinality(A)
         /\ \A B \in SUBSET A : Cardinality(B) = Cardinality(A) => A = B
<1>1. IsFiniteSet(Servers) /\ Cardinality(Servers) \in Nat
  BY QueryConstants, FS_CardinalityType
<1>2. /\ IsFiniteSet(A) /\ Cardinality(A) \in Nat /\ Cardinality(A) <= Cardinality(Servers)
  BY <1>1, FS_Subset, FS_CardinalityType
<1>3. Cardinality(A) < CountMod
  BY <1>1, <1>2, CountsFit, QueryConstants
<1>4. \A B \in SUBSET A : Cardinality(B) <= Cardinality(A)
                          /\ (Cardinality(B) = Cardinality(A) => A = B)
  BY <1>2, FS_Subset
<1> QED
  BY <1>2, <1>3, <1>4

\* The counter after one more callback, and when it lets a response be sent.
LEMMA OneMoreCounted ==
  ASSUME NEW a \in Nat, NEW d \in Nat, a < CountMod, d + 1 <= 2 * a
  PROVE  /\ (LeftAfter(a, d) - 1) % CountMod = LeftAfter(a, d + 1)
         /\ ResponsesAfter(a, d + 1) =
              IF LeftAfter(a, d) <= 1 THEN ResponsesAfter(a, d) + 1 ELSE ResponsesAfter(a, d)
<1>0. CountMod \in Nat /\ CountMod > 1
  BY QueryConstants, CountsFit
<1>1. CASE d < a
  <2>1. a - d - 1 \in 0..(CountMod - 1)
    BY <1>0, <1>1
  <2>2. (a - d - 1) % CountMod = a - d - 1
    BY <1>0, <2>1
  <2> QED
    BY <1>0, <1>1, <2>2 DEF LeftAfter, ResponsesAfter
<1>2. CASE d = a
  <2>1. (0 - 1) % CountMod = CountMod - 1
    BY <1>0
  <2> QED
    BY <1>0, <1>2, <2>1 DEF LeftAfter, ResponsesAfter
<1>3. CASE d > a
  <2>1. a + CountMod - d - 1 \in 1..(CountMod - 1)
    BY <1>0, <1>3
  <2>2. (a + CountMod - d - 1) % CountMod = a + CountMod - d - 1
    BY <1>0, <2>1
  <2> QED
    BY <1>0, <1>3, <2>2 DEF LeftAfter, ResponsesAfter
<1> QED
  BY <1>1, <1>2, <1>3

\* A search of which nothing changes.
LEMMA SearchAlike ==
  ASSUME NEW k \in Searches, SearchInv(k),
         contexts'[k] = contexts[k], JobsOf(k)' = JobsOf(k), CallbacksOf(k)' = CallbacksOf(k),
         PacketsOf(k)' \subseteq PacketsOf(k)
  PROVE  SearchInv(k)'
<1>1. SUFFICES ASSUME contexts[k] # None
               PROVE  SearchInv(k)'
  BY DEF SearchInv
<1>2. Asked(k)' = Asked(k) /\ Reached(k)' = Reached(k)
  BY DEF Asked, Reached
<1>3. OnlyReached(k)' /\ OneAggJob(k)' /\ Logged(k)'
  BY <1>1, <1>2 DEF SearchInv, OnlyReached, OneAggJob, Logged
<1>4. AskedOnce(k)'
  BY <1>1, <1>2 DEF SearchInv, AskedOnce
<1>5. CountedFinal(k)' = CountedFinal(k) /\ CountedFailed(k)' = CountedFailed(k)
  BY <1>2 DEF CountedFinal, CountedFailed, Failed
<1>6. LeftCounts(k)'
  BY <1>1, <1>2, <1>5 DEF SearchInv, LeftCounts, Done
<1>7. FoundBy(k)'
  BY <1>1 DEF SearchInv, FoundBy
<1>8. ResultsKept(k)'
  BY <1>1, <1>2 DEF SearchInv, ResultsKept, ResultKept, Failed
<1> QED
  BY <1>3, <1>4, <1>6, <1>7, <1>8 DEF SearchInv

\* A step of another search changes nothing of this one.
LEMMA OtherSearch ==
  ASSUME NEW k \in Searches, NEW h \in Searches \ {k}, SearchInv(k),
         contexts'[k] = contexts[k],
         \A j : j.search # h => (j \in aggJobs' <=> j \in aggJobs),
         \A x : x[1] # h => (x \in aggCallbacks' <=> x \in aggCallbacks),
         \A p \in net' : p.type \in {"ask", "reply"} /\ p.search # h => p \in net
  PROVE  SearchInv(k)'
<1>1. JobsOf(k)' = JobsOf(k) /\ CallbacksOf(k)' = CallbacksOf(k)
  BY DEF JobsOf, CallbacksOf
<1>2. PacketsOf(k)' \subseteq PacketsOf(k)
  BY DEF PacketsOf
<1> QED
  BY <1>1, <1>2, SearchAlike

\* A step that leaves the aggregator's searches alone and sends nothing of
\* theirs.
LEMMA QuietSearch ==
  ASSUME SearchesInv, UNCHANGED <<contexts, aggJobs, aggCallbacks>>,
         \A p \in net' : p.type \in {"ask", "reply"} => p \in net
  PROVE  SearchesInv'
<1> SUFFICES ASSUME NEW k \in Searches
             PROVE  SearchInv(k)'
  BY DEF SearchesInv
<1>1. SearchInv(k) /\ contexts'[k] = contexts[k]
  BY DEF SearchesInv
<1>2. JobsOf(k)' = JobsOf(k) /\ CallbacksOf(k)' = CallbacksOf(k)
  BY DEF JobsOf, CallbacksOf
<1>3. PacketsOf(k)' \subseteq PacketsOf(k)
  BY DEF PacketsOf
<1> QED
  BY <1>1, <1>2, <1>3, SearchAlike

\* The context of a request is a new one: no request of its query was served.
LEMMA RequestIsNew ==
  ASSUME TypeOK, Owned, Once, NEW p \in net, NEW T \in Candidates, SearchRequestHandler(p, T)
  PROVE  \E k \in Searches, asked \in SUBSET Servers :
           /\ contexts[k] = None
           /\ contexts' = [contexts EXCEPT ![k] = Context(p.query, asked)]
           /\ Context(p.query, asked) \in Contexts
<1> DEFINE k == <<p.link, p.query[2]>>
           asked == {s \in T : status[s] = "Connected"}
<1>1. /\ p.type = "request" /\ p.link \in Ids /\ p.query \in Queries
      /\ contexts' = [contexts EXCEPT ![k] = Context(p.query, asked)]
  BY PacketsTyped DEF SearchRequestHandler, TypeOK
<1>2. k \in Searches /\ asked \in SUBSET Servers
  BY <1>1, AskedTyped DEF Searches, Queries
<1>3. QueryOf(k) = p.query
  <2>1. owner[p.link] = p.query[1]
    BY <1>1 DEF Owned, NetOwned, PacketOwned
  <2> QED
    BY <1>1, <2>1 DEF QueryOf, Queries
<1>4. contexts[k] = None
  BY <1>1, <1>2, <1>3 DEF Owned, ContextsOwned, Once, SendsOnce, Requested, Served
<1>5. Context(p.query, asked) \in Contexts
  BY <1>1, <1>2, ContextTyped
<1> QED
  BY <1>1, <1>2, <1>4, <1>5

\* A search that has no context has nothing else.
LEMMA NoContextNothing ==
  ASSUME TypeOK, Owned, NEW k \in Searches, contexts[k] = None
  PROVE  JobsOf(k) = {} /\ CallbacksOf(k) = {} /\ PacketsOf(k) = {}
<1>1. JobsOf(k) = {}
  BY DEF JobsOf, Owned, AggOwned
<1>2. CallbacksOf(k) = {}
  BY DEF CallbacksOf, Owned, AggOwned
<1>3. PacketsOf(k) = {}
  BY DEF PacketsOf, Owned, NetOwned, PacketOwned
<1> QED
  BY <1>1, <1>2, <1>3

\* A new search: the counter is the number of servers to ask.
LEMMA RequestCounts ==
  ASSUME TypeOK, Owned, Once, SearchesInv,
         NEW p \in net, NEW T \in Candidates, SearchRequestHandler(p, T)
  PROVE  SearchesInv'
<1>1. PICK h \in Searches, asked \in SUBSET Servers :
           /\ contexts[h] = None
           /\ contexts' = [contexts EXCEPT ![h] = Context(p.query, asked)]
           /\ Context(p.query, asked) \in Contexts
  BY RequestIsNew
<1>2. net' \subseteq net /\ UNCHANGED <<aggJobs, aggCallbacks>>
  BY DEF SearchRequestHandler
<1> SUFFICES ASSUME NEW k \in Searches
             PROVE  SearchInv(k)'
  BY DEF SearchesInv
<1>3. CASE k # h
  <2>1. contexts'[k] = contexts[k] /\ SearchInv(k)
    BY <1>1, <1>3 DEF TypeOK, SearchesInv
  <2> QED
    BY <1>2, <1>3, <2>1, OtherSearch
<1>4. CASE k = h
  <2> DEFINE x == Context(p.query, asked)
  <2>1. contexts'[k] = x
    BY <1>1, <1>4 DEF TypeOK
  <2>2. JobsOf(k)' = {} /\ CallbacksOf(k)' = {} /\ PacketsOf(k)' = {}
    <3>1. JobsOf(k) = {} /\ CallbacksOf(k) = {} /\ PacketsOf(k) = {}
      BY <1>1, <1>4, NoContextNothing
    <3> QED
      BY <1>2, <3>1 DEF JobsOf, CallbacksOf, PacketsOf
  <2>3. /\ x.toAsk = asked /\ x.left = Cardinality(asked) % CountMod /\ x.failed = {}
        /\ x.responses = 0 /\ x.cids = [s \in Servers |-> IF s \in asked THEN cid[s] ELSE 0]
    BY DEF Context
  <2>4. \A s \in Servers : cid[s] # 0
    BY QueryConstants DEF TypeOK, Dials
  <2>5. Asked(k)' = asked /\ Reached(k)' = {}
    BY <2>1, <2>3, <2>4 DEF Asked, Reached
  <2>6. OnlyReached(k)' /\ OneAggJob(k)' /\ Logged(k)' /\ AskedOnce(k)' /\ FoundBy(k)'
    BY <2>1, <2>2, <2>3 DEF OnlyReached, OneAggJob, Logged, AskedOnce, FoundBy
  <2>7. ResultsKept(k)'
    BY <2>5 DEF ResultsKept
  <2>8. CountedFinal(k)' = {} /\ CountedFailed(k)' = {}
    BY <2>1, <2>3, <2>5 DEF CountedFinal, CountedFailed, Failed
  <2>9. Done(k)' = 0
    BY <2>8, FS_EmptySet DEF Done
  <2>10. Cardinality(asked) \in Nat /\ Cardinality(asked) < CountMod
    BY ServersCounted
  <2>11. Cardinality(asked) % CountMod = Cardinality(asked)
    BY <2>10, QueryConstants
  <2>12. LeftCounts(k)'
    BY <2>1, <2>3, <2>5, <2>9, <2>10, <2>11 DEF LeftCounts, LeftAfter, ResponsesAfter
  <2> QED
    BY <2>6, <2>7, <2>12 DEF SearchInv
<1> QED
  BY <1>3, <1>4

\* A server is asked: its callback is registered, and its query is on its way
\* or has failed.
LEMMA AskCounts ==
  ASSUME TypeOK, Owned, SearchesInv, NEW h \in Searches, NEW t \in Servers, AskServer(h, t)
  PROVE  SearchesInv'
<1> DEFINE x == contexts[h]
           y == [x EXCEPT !.toAsk = @ \ {t}]
           f == AggJob(h, t, "FailedNetwork", {})
           a == Ask(t, x.cids[t], h, x.query)
<1>1. /\ x # None /\ t \in x.toAsk
      /\ contexts' = [contexts EXCEPT ![h] = y]
      /\ aggCallbacks' = aggCallbacks \cup {<<h, t>>}
      /\ \/ net' = net \cup {a} /\ aggJobs' = aggJobs
         \/ net' = net /\ aggJobs' = aggJobs \cup {f}
         \/ net' = net /\ aggJobs' = aggJobs
  BY DEF AskServer, TypeOK
<1>2. /\ x \in Contexts
      /\ f.search = h /\ f.server = t /\ f.why = "FailedNetwork" /\ f.at = "store"
      /\ a.search = h /\ a.server = t /\ a.type = "ask"
  BY <1>1 DEF TypeOK, AggJob, Ask
<1> SUFFICES ASSUME NEW k \in Searches
             PROVE  SearchInv(k)'
  BY DEF SearchesInv
<1>3. CASE k # h
  <2>1. contexts'[k] = contexts[k] /\ SearchInv(k)
    BY <1>1, <1>3 DEF TypeOK, SearchesInv
  <2> HIDE DEF x, y, f, a
  <2> QED
    BY <1>1, <1>2, <1>3, <2>1, OtherSearch
<1>4. CASE k = h
  <2>1. /\ contexts'[k] = y /\ y # None
        /\ y.query = x.query /\ y.cids = x.cids /\ y.toAsk = x.toAsk \ {t} /\ y.left = x.left
        /\ y.results = x.results /\ y.failed = x.failed /\ y.responses = x.responses
    <3>1. y \in Contexts
      BY <1>2, ContextsMoved
    <3> QED
      BY <1>1, <1>2, <1>4, <3>1, QueryConstants DEF TypeOK, Contexts
  <2>2. SearchInv(k) /\ contexts[k] # None
    BY <1>1, <1>4 DEF SearchesInv
  <2> HIDE DEF y
  <2>3. Asked(k)' = Asked(k)
    BY <1>4, <2>1 DEF Asked
  <2>4. Reached(k)' = Reached(k) \cup {t} /\ t \notin Reached(k)
    <3>1. t \in Asked(k)
      BY <1>1, <1>4 DEF Asked, Owned, Begun
    <3> QED
      BY <1>1, <1>4, <2>1, <2>3, <3>1 DEF Reached
  <2>5. CallbacksOf(k)' = CallbacksOf(k) \cup {t}
    BY <1>1, <1>4 DEF CallbacksOf
  <2>6. /\ JobsOf(k) \subseteq JobsOf(k)' /\ JobsOf(k)' \subseteq JobsOf(k) \cup {f}
        /\ PacketsOf(k)' \subseteq PacketsOf(k) \cup {a}
        /\ ~(f \in JobsOf(k)' /\ a \in PacketsOf(k)')
    <3>1. f \notin JobsOf(k)
      BY <1>2, <2>2, <2>4 DEF SearchInv, OnlyReached
    <3>2. a \notin PacketsOf(k)
      BY <1>2, <2>2, <2>4 DEF SearchInv, AskedOnce
    <3> QED
      BY <1>1, <1>2, <1>4, <3>1, <3>2 DEF JobsOf, PacketsOf
  <2>7. /\ \A j \in JobsOf(k) : j.server # t
        /\ t \notin CallbacksOf(k)
        /\ \A w \in Outcomes : <<t, w>> \notin x.failed
        /\ \A p \in PacketsOf(k) : p.type = "ask" => p.server # t
    BY <1>4, <2>2, <2>4 DEF SearchInv, OnlyReached, AskedOnce
  <2> HIDE DEF f, a, x
  <2>8. OnlyReached(k)'
    BY <1>2, <1>4, <2>1, <2>2, <2>4, <2>5, <2>6 DEF SearchInv, OnlyReached, x
  <2>9. OneAggJob(k)'
    BY <1>2, <2>2, <2>5, <2>6, <2>7 DEF SearchInv, OneAggJob, Final
  <2>10. Logged(k)'
    BY <1>2, <1>4, <2>1, <2>2, <2>5, <2>6, <2>7 DEF SearchInv, Logged, x, Outcomes
  <2>11. AskedOnce(k)'
    <3>1. ASSUME NEW p \in PacketsOf(k), p.type = "ask"
          PROVE  /\ p.server \in Reached(k)'
                 /\ <<p.server, "FailedNetwork">> \notin contexts'[k].failed
                 /\ \A j \in JobsOf(k)' : j.server = p.server => Final(j.why)
                 /\ \A o \in PacketsOf(k)' : o.type = "ask" /\ o.server = p.server => o = p
      BY <3>1, <1>2, <1>4, <2>1, <2>2, <2>4, <2>6, <2>7 DEF SearchInv, AskedOnce, x
    <3>2. ASSUME a \in PacketsOf(k)'
          PROVE  /\ a.server \in Reached(k)'
                 /\ <<a.server, "FailedNetwork">> \notin contexts'[k].failed
                 /\ \A j \in JobsOf(k)' : j.server = a.server => Final(j.why)
                 /\ \A o \in PacketsOf(k)' : o.type = "ask" /\ o.server = a.server => o = a
      BY <3>2, <1>2, <2>1, <2>4, <2>6, <2>7 DEF Outcomes
    <3> QED
      BY <2>6, <3>1, <3>2 DEF AskedOnce
  <2>12. CountedFinal(k)' = CountedFinal(k)
    BY <1>2, <2>4, <2>5, <2>6, <2>7 DEF CountedFinal, Final
  <2>13. CountedFailed(k)' = CountedFailed(k)
    BY <1>2, <1>4, <2>1, <2>6, <2>7 DEF CountedFailed, Failed, Final, Outcomes, x
  <2>14. LeftCounts(k)'
    BY <1>4, <2>1, <2>2, <2>3, <2>12, <2>13 DEF SearchInv, LeftCounts, Done, x
  <2>15. FoundBy(k)'
    BY <1>2, <1>4, <2>1, <2>2, <2>6 DEF SearchInv, FoundBy, x
  <2>16. ResultsKept(k)'
    BY <1>4, <2>1, <2>2, <2>4, <2>5, <2>6 DEF SearchInv, ResultsKept, ResultKept, Failed, x
  <2> QED
    BY <2>8, <2>9, <2>10, <2>11, <2>14, <2>15, <2>16 DEF SearchInv
<1> QED
  BY <1>3, <1>4

\* A result is stored: its callback goes on, and what failed is recorded.
LEMMA StoreCounts ==
  ASSUME TypeOK, Owned, SearchesInv, NEW i \in aggJobs, StoreResult(i)
  PROVE  SearchesInv'
<1> DEFINE h == i.search
           x == contexts[h]
           F == IF i.why = "Success" THEN x.failed ELSE x.failed \cup {<<i.server, i.why>>}
           y == [x EXCEPT !.results[i.server] = i.data, !.failed = F]
           n == [i EXCEPT !.at = "finish"]
<1>1. /\ i \in AggJobs /\ h \in Searches /\ i.server \in Servers
      /\ i.why \in Outcomes /\ i.data \in Found
  BY DEF TypeOK, AggJobs
<1>2. /\ x # None /\ x \in Contexts
      /\ i.at = "store"
      /\ contexts' = [contexts EXCEPT ![h] = y]
      /\ aggJobs' = (aggJobs \ {i}) \cup {n}
      /\ UNCHANGED <<aggCallbacks, net>>
  BY <1>1 DEF StoreResult, TypeOK, Owned, AggOwned
<1>3. /\ n.search = h /\ n.server = i.server /\ n.why = i.why /\ n.data = i.data
      /\ n.at = "finish" /\ n # i
  BY <1>1, <1>2 DEF AggJobs
<1> SUFFICES ASSUME NEW k \in Searches
             PROVE  SearchInv(k)'
  BY DEF SearchesInv
<1>4. CASE k # h
  <2>1. contexts'[k] = contexts[k] /\ SearchInv(k)
    BY <1>2, <1>4 DEF TypeOK, SearchesInv
  <2> HIDE DEF x, y, n
  <2> QED
    BY <1>1, <1>2, <1>3, <1>4, <2>1, OtherSearch
<1>5. CASE k = h
  <2>1. /\ contexts'[k] = y
        /\ y.query = x.query /\ y.cids = x.cids /\ y.toAsk = x.toAsk /\ y.left = x.left
        /\ y.failed = F /\ y.responses = x.responses
        /\ y.results[i.server] = i.data
        /\ \A s \in Servers : s # i.server => y.results[s] = x.results[s]
    BY <1>1, <1>2, <1>5 DEF TypeOK, Contexts
  <2>2. SearchInv(k) /\ contexts[k] = x
    BY <1>5 DEF SearchesInv
  <2>a. /\ OnlyReached(k) /\ OneAggJob(k) /\ Logged(k) /\ AskedOnce(k)
        /\ LeftCounts(k) /\ FoundBy(k) /\ ResultsKept(k)
    BY <1>2, <2>2 DEF SearchInv
  <2> HIDE DEF y, F
  <2>3. Asked(k)' = Asked(k) /\ Reached(k)' = Reached(k) /\ CallbacksOf(k)' = CallbacksOf(k)
    BY <1>2, <2>1, <2>2 DEF Asked, Reached, CallbacksOf
  <2>4. PacketsOf(k)' = PacketsOf(k)
    BY <1>2 DEF PacketsOf
  <2>5. i \in JobsOf(k) /\ JobsOf(k)' = (JobsOf(k) \ {i}) \cup {n}
    BY <1>2, <1>3, <1>5 DEF JobsOf
  <2>6. \A s, w : <<s, w>> \in y.failed <=>
          <<s, w>> \in x.failed \/ (i.why # "Success" /\ s = i.server /\ w = i.why)
    BY <2>1 DEF F
  <2> HIDE DEF x, h, n
  <2>7. OnlyReached(k)'
    BY <1>3, <2>1, <2>2, <2>a, <2>3, <2>5, <2>6 DEF OnlyReached
  <2>8. OneAggJob(k)'
    BY <1>3, <2>a, <2>3, <2>5 DEF OneAggJob
  <2>9. Logged(k)'
    <3>1. ASSUME NEW j \in JobsOf(k)', j.why # "Success"
          PROVE  j.at = "finish" <=> <<j.server, j.why>> \in y.failed
      <4>1. CASE j = n
        BY <1>3, <2>6, <3>1, <4>1
      <4>2. CASE j # n
        <5>1. j \in JobsOf(k) /\ j # i
          BY <2>5, <4>2
        <5>2. ~(j.server = i.server /\ j.why = i.why)
          BY <2>a, <2>5, <5>1 DEF OneAggJob
        <5> QED
          BY <2>2, <2>a, <2>6, <3>1, <5>1, <5>2 DEF Logged
      <4> QED
        BY <4>1, <4>2
    <3>2. ASSUME NEW s \in CallbacksOf(k)
          PROVE  <<s, "Timeout">> \notin y.failed
      <4>1. ~(i.server = s /\ i.why = "Timeout")
        BY <2>a, <2>5 DEF OneAggJob, Final
      <4> QED
        BY <2>2, <2>a, <2>6, <4>1 DEF Logged
    <3> QED
      BY <2>1, <2>3, <3>1, <3>2 DEF Logged
  <2>10. AskedOnce(k)'
    <3>1. ASSUME NEW p \in PacketsOf(k), p.type = "ask"
          PROVE  /\ <<p.server, "FailedNetwork">> \notin y.failed
                 /\ \A j \in JobsOf(k)' : j.server = p.server => Final(j.why)
      BY <3>1, <1>3, <2>2, <2>a, <2>5, <2>6 DEF AskedOnce, Final
    <3> QED
      BY <3>1, <2>1, <2>a, <2>3, <2>4 DEF AskedOnce
  <2>11. CountedFinal(k)' = CountedFinal(k)
    BY <1>3, <2>3, <2>5 DEF CountedFinal
  <2>12. CountedFailed(k)' = CountedFailed(k)
    BY <1>3, <2>1, <2>2, <2>5, <2>6 DEF CountedFailed, Failed, Final
  <2>13. LeftCounts(k)'
    BY <2>1, <2>2, <2>a, <2>3, <2>11, <2>12 DEF LeftCounts, Done
  <2>14. FoundBy(k)'
    BY <1>3, <2>1, <2>2, <2>a, <2>4, <2>5 DEF FoundBy
  <2>15. ResultsKept(k)'
    <3>1. SUFFICES ASSUME y.responses = 0, Failed(y, "FailedNetwork") = {}, NEW s \in Reached(k)
                   PROVE  ResultKept(k, s)'
      BY <2>1, <2>3 DEF ResultsKept
    <3>2. i.why # "FailedNetwork" /\ Failed(x, "FailedNetwork") = {}
      BY <1>1, <2>6, <3>1 DEF Failed
    <3>3. ResultKept(k, s)
      BY <2>1, <2>2, <2>a, <3>1, <3>2 DEF ResultsKept
    <3>4. CASE s = i.server
      <4>1. CASE i.why = "Timeout"
        BY <2>1, <2>6, <3>4, <4>1 DEF ResultKept
      <4>2. CASE i.why = "Success"
        <5>1. <<s, x.query>> \in i.data
          BY <2>2, <2>a, <2>5, <3>4, <4>2 DEF FoundBy
        <5>2. i.data # None
          BY <1>1, QueryConstants
        <5> QED
          BY <2>1, <3>4, <5>1, <5>2 DEF ResultKept
      <4> QED
        BY <1>1, <3>2, <4>1, <4>2 DEF Outcomes
    <3>5. CASE s # i.server
      BY <1>3, <2>1, <2>2, <2>3, <2>5, <2>6, <3>3, <3>5 DEF ResultKept, Reached, Asked
    <3> QED
      BY <3>4, <3>5
  <2> QED
    BY <2>7, <2>8, <2>9, <2>10, <2>13, <2>14, <2>15 DEF SearchInv
<1> QED
  BY <1>4, <1>5

\* The servers that have counted once i has, too.
FinalWith(k, i)  == CountedFinal(k) \cup (IF Final(i.why) THEN {i.server} ELSE {})
FailedWith(k, i) == CountedFailed(k) \cup (IF Final(i.why) THEN {} ELSE {i.server})

\* The callback that counts next is a new one, of a server that was asked.
LEMMA NextCounted ==
  ASSUME TypeOK, NEW k \in Searches, contexts[k] # None, SearchInv(k),
         NEW i \in JobsOf(k)
  PROVE  /\ FinalWith(k, i) \subseteq Reached(k) /\ FailedWith(k, i) \subseteq Asked(k)
         /\ Done(k) \in Nat /\ Cardinality(FailedWith(k, i)) \in Nat
         /\ Cardinality(FinalWith(k, i)) + Cardinality(FailedWith(k, i)) = Done(k) + 1
         /\ Done(k) + 1 <= 2 * Cardinality(Asked(k))
<1> DEFINE A == FinalWith(k, i)
           B == FailedWith(k, i)
<1>1. i \in AggJobs /\ i.server \in Reached(k) /\ Reached(k) \subseteq Asked(k)
  BY DEF SearchInv, OnlyReached, JobsOf, TypeOK, Reached
<1>2. CountedFinal(k) \subseteq Reached(k)
  BY DEF CountedFinal
<1>3. CountedFailed(k) \subseteq Reached(k)
  BY DEF CountedFailed, Failed, SearchInv, OnlyReached, Outcomes
<1>4. A \subseteq Reached(k) /\ B \subseteq Asked(k)
  BY <1>1, <1>2, <1>3 DEF FinalWith, FailedWith
<1>5. Asked(k) \in SUBSET Servers
  BY DEF Asked
<1>6. /\ Cardinality(A) \in Nat /\ Cardinality(A) <= Cardinality(Asked(k))
      /\ Cardinality(B) \in Nat /\ Cardinality(B) <= Cardinality(Asked(k))
      /\ IsFiniteSet(CountedFinal(k)) /\ IsFiniteSet(CountedFailed(k))
      /\ Cardinality(CountedFinal(k)) \in Nat /\ Cardinality(CountedFailed(k)) \in Nat
      /\ Cardinality(Asked(k)) \in Nat
  <2>1. /\ A \in SUBSET Servers /\ B \in SUBSET Servers
        /\ CountedFinal(k) \in SUBSET Servers /\ CountedFailed(k) \in SUBSET Servers
    BY <1>1, <1>2, <1>3, <1>4, <1>5
  <2> QED
    BY <1>1, <1>4, <1>5, <2>1, ServersCounted
<1> HIDE DEF A, B
<1>7. CASE Final(i.why)
  <2>1. i.server \notin CountedFinal(k)
    BY <1>7 DEF CountedFinal
  <2>2. Cardinality(A) = Cardinality(CountedFinal(k)) + 1 /\ B = CountedFailed(k)
    BY <1>6, <1>7, <2>1, FS_AddElement DEF A, B, FinalWith, FailedWith
  <2>3. Cardinality(B) = Cardinality(CountedFailed(k))
    BY <2>2
  <2>4. Done(k) = Cardinality(CountedFinal(k)) + Cardinality(CountedFailed(k))
    BY DEF Done
  <2> QED
    BY <1>4, <1>6, <2>2, <2>3, <2>4 DEF A, B
<1>8. CASE ~Final(i.why)
  <2>1. i.server \notin CountedFailed(k)
    BY <1>8 DEF CountedFailed
  <2>2. Cardinality(B) = Cardinality(CountedFailed(k)) + 1 /\ A = CountedFinal(k)
    BY <1>6, <1>8, <2>1, FS_AddElement DEF A, B, FinalWith, FailedWith
  <2>3. Cardinality(A) = Cardinality(CountedFinal(k))
    BY <2>2
  <2>4. Done(k) = Cardinality(CountedFinal(k)) + Cardinality(CountedFailed(k))
    BY DEF Done
  <2> QED
    BY <1>4, <1>6, <2>2, <2>3, <2>4 DEF A, B
<1> QED
  BY <1>4, <1>6, <1>7, <1>8 DEF A, B

\* Counting changes a context to y.
FinishesAs(k, y) ==
  LET x == contexts[k] IN
  /\ contexts' = [contexts EXCEPT ![k] = y]
  /\ y.query = x.query /\ y.cids = x.cids /\ y.toAsk = x.toAsk /\ y.failed = x.failed
  /\ y.left = (x.left - 1) % CountMod
  /\ y.responses = IF x.left <= 1 THEN x.responses + 1 ELSE x.responses
  /\ x.left > 1 => y.results = x.results

\* ... and may empty its results when it has them sent.
LEMMA FinishFields ==
  ASSUME TypeOK, Owned, NEW i \in aggJobs, FinishJob(i)
  PROVE  \E y \in Contexts : FinishesAs(i.search, y)
<1> DEFINE x == contexts[i.search]
           counted == [x EXCEPT !.left = (@ - 1) % CountMod]
           done == Aggregated(counted)
<1>1. i.search \in Searches /\ x # None /\ x \in Contexts
  BY DEF TypeOK, AggJobs, Owned, AggOwned
<1>2. counted \in Contexts /\ done \in Contexts
  <2>1. counted \in Contexts
    BY <1>1, ContextsMoved
  <2> HIDE DEF counted
  <2> QED
    BY <2>1, ContextsMoved
<1>3. /\ counted.query = x.query /\ counted.cids = x.cids /\ counted.toAsk = x.toAsk
      /\ counted.failed = x.failed /\ counted.left = (x.left - 1) % CountMod
      /\ counted.responses = x.responses /\ counted.results = x.results
  BY <1>1 DEF Contexts
<1>4. \/ x.left <= 1 /\ contexts' = [contexts EXCEPT ![i.search] = done]
      \/ ~(x.left <= 1) /\ contexts' = [contexts EXCEPT ![i.search] = counted]
  BY DEF FinishJob, IsCompletedAfterFinish
<1> HIDE DEF counted
<1>5. /\ done.query = x.query /\ done.cids = x.cids /\ done.toAsk = x.toAsk
      /\ done.failed = x.failed /\ done.left = (x.left - 1) % CountMod
      /\ done.responses = x.responses + 1
  BY <1>2, <1>3 DEF Aggregated, Contexts
<1>6. x.left \in Int
  BY <1>1 DEF Contexts
<1> HIDE DEF x, done
<1>7. CASE x.left <= 1
  <2>1. contexts' = [contexts EXCEPT ![i.search] = done]
    BY <1>4, <1>7
  <2>2. FinishesAs(i.search, done)
    BY <1>5, <1>6, <1>7, <2>1 DEF x, FinishesAs
  <2> QED
    BY <1>2, <2>2
<1>8. CASE ~(x.left <= 1)
  <2>1. contexts' = [contexts EXCEPT ![i.search] = counted]
    BY <1>4, <1>8
  <2> QED
    BY <1>2, <1>3, <1>6, <1>8, <2>1 DEF x, FinishesAs
<1> QED
  BY <1>7, <1>8

\* A callback counts, and the one that makes the counter 0 or finds it 0 has
\* a response sent.
LEMMA FinishCounts ==
  ASSUME TypeOK, Owned, SearchesInv, NEW i \in aggJobs, FinishJob(i)
  PROVE  SearchesInv'
<1> DEFINE h == i.search
           x == contexts[h]
<1>1. PICK y \in Contexts :
           /\ contexts' = [contexts EXCEPT ![h] = y]
           /\ y.query = x.query /\ y.cids = x.cids /\ y.toAsk = x.toAsk /\ y.failed = x.failed
           /\ y.left = (x.left - 1) % CountMod
           /\ y.responses = IF x.left <= 1 THEN x.responses + 1 ELSE x.responses
           /\ x.left > 1 => y.results = x.results
  BY FinishFields DEF FinishesAs
<1>2. /\ i.at = "finish" /\ aggJobs' = aggJobs \ {i} /\ aggCallbacks' = aggCallbacks
      /\ \A p \in net' : p.type \in {"ask", "reply"} => p \in net
  BY DEF FinishJob, Respond, Response
<1>3. h \in Searches /\ x # None
  BY DEF TypeOK, AggJobs, Owned, AggOwned
<1> SUFFICES ASSUME NEW k \in Searches
             PROVE  SearchInv(k)'
  BY DEF SearchesInv
<1>4. CASE k # h
  <2>1. contexts'[k] = contexts[k] /\ SearchInv(k)
    BY <1>1, <1>4 DEF TypeOK, SearchesInv
  <2> QED
    BY <1>2, <1>3, <1>4, <2>1, OtherSearch
<1>5. CASE k = h
  <2>1. contexts'[k] = y /\ contexts[k] = x /\ SearchInv(k)
    BY <1>1, <1>5 DEF TypeOK, SearchesInv
  <2>a. /\ OnlyReached(k) /\ OneAggJob(k) /\ Logged(k) /\ AskedOnce(k)
        /\ LeftCounts(k) /\ FoundBy(k) /\ ResultsKept(k)
    BY <1>3, <2>1 DEF SearchInv
  <2>3. Asked(k)' = Asked(k) /\ Reached(k)' = Reached(k) /\ CallbacksOf(k)' = CallbacksOf(k)
    BY <1>1, <1>2, <2>1 DEF Asked, Reached, CallbacksOf
  <2>4. PacketsOf(k)' \subseteq PacketsOf(k)
    BY <1>2 DEF PacketsOf
  <2>5. i \in JobsOf(k) /\ JobsOf(k)' = JobsOf(k) \ {i}
    BY <1>2, <1>5 DEF JobsOf
  <2> DEFINE A == FinalWith(k, i)
             B == FailedWith(k, i)
  <2>6. /\ Done(k) \in Nat /\ Cardinality(A) + Cardinality(B) = Done(k) + 1
        /\ Done(k) + 1 <= 2 * Cardinality(Asked(k))
    BY <1>3, <2>1, <2>5, NextCounted
  <2> HIDE DEF x, h
  <2>7. OnlyReached(k)' /\ OneAggJob(k)' /\ Logged(k)' /\ AskedOnce(k)' /\ FoundBy(k)'
    BY <1>1, <2>1, <2>a, <2>3, <2>4, <2>5
       DEF OnlyReached, OneAggJob, Logged, AskedOnce, FoundBy
  <2>8. CountedFinal(k)' = A
    <3>1. i.server \in Reached(k) /\ (Final(i.why) => i.server \notin CallbacksOf(k))
      BY <2>a, <2>5 DEF OnlyReached, OneAggJob
    <3>2. \A j \in JobsOf(k) \ {i} : j.server = i.server /\ Final(i.why) => ~Final(j.why)
      BY <2>a, <2>5 DEF OneAggJob
    <3> QED
      BY <2>3, <2>5, <3>1, <3>2 DEF CountedFinal, FinalWith
  <2>9. CountedFailed(k)' = B
    <3>1. Failed(contexts[k], "FailedNetwork")' = Failed(contexts[k], "FailedNetwork")
      BY <1>1, <2>1 DEF Failed
    <3>2. ~Final(i.why) => i.server \in Failed(contexts[k], "FailedNetwork")
      <4>1. ASSUME ~Final(i.why)
            PROVE  <<i.server, "FailedNetwork">> \in x.failed
        BY <1>2, <2>1, <2>a, <2>5, <4>1 DEF Logged, Final
      <4>2. i.server \in Servers
        BY DEF TypeOK, AggJobs
      <4> QED
        BY <2>1, <4>1, <4>2 DEF Failed
    <3>3. \A j \in JobsOf(k) \ {i} : j.server = i.server /\ ~Final(i.why) => Final(j.why)
      BY <2>a, <2>5 DEF OneAggJob
    <3> QED
      BY <2>5, <3>1, <3>2, <3>3 DEF CountedFailed, FailedWith
  <2>10. Done(k)' = Done(k) + 1
    BY <2>6, <2>8, <2>9 DEF Done
  <2>11. Cardinality(Asked(k)) \in Nat /\ Cardinality(Asked(k)) < CountMod
    <3>1. Asked(k) \in SUBSET Servers
      BY DEF Asked
    <3> QED
      BY <3>1, ServersCounted
  <2>12. LeftCounts(k)'
    <3>1. /\ x.left = LeftAfter(Cardinality(Asked(k)), Done(k))
          /\ x.responses = ResponsesAfter(Cardinality(Asked(k)), Done(k))
      BY <2>1, <2>a DEF LeftCounts
    <3> QED
      BY <1>1, <2>1, <2>3, <2>6, <2>10, <2>11, <3>1, OneMoreCounted DEF LeftCounts
  <2>13. ResultsKept(k)'
    <3>1. SUFFICES ASSUME y.responses = 0, Failed(y, "FailedNetwork") = {}, NEW s \in Reached(k)
                   PROVE  ResultKept(k, s)'
      BY <2>1, <2>3 DEF ResultsKept
    <3>2. x.responses \in Nat /\ x.left \in Nat
      BY <1>3, <2>1 DEF TypeOK, Contexts
    <3>3. x.responses = 0 /\ y.results = x.results
      BY <1>1, <3>1, <3>2
    <3>4. ResultKept(k, s)
      BY <1>1, <2>1, <2>a, <3>1, <3>3 DEF ResultsKept, Failed
    <3> QED
      BY <1>1, <1>2, <2>1, <2>3, <2>5, <3>3, <3>4 DEF ResultKept
  <2> QED
    BY <2>7, <2>12, <2>13 DEF SearchInv
<1> QED
  BY <1>4, <1>5

\* A callback of the aggregator is taken out of its manager, and begins.
LEMMA AggTakenCounts ==
  ASSUME TypeOK, Owned, SearchesInv, NEW h \in Searches, NEW t \in Servers,
         <<h, t>> \in aggCallbacks, aggCallbacks' = aggCallbacks \ {<<h, t>>},
         NEW o \in {"Success", "Timeout"}, NEW d, aggJobs' = aggJobs \cup {AggJob(h, t, o, d)},
         o = "Success" => <<t, contexts[h].query>> \in d,
         contexts' = contexts, \A p \in net' : p.type \in {"ask", "reply"} => p \in net
  PROVE  SearchesInv'
<1> DEFINE n == AggJob(h, t, o, d)
<1>1. n.search = h /\ n.server = t /\ n.why = o /\ n.data = d /\ n.at = "store" /\ Final(n.why)
  BY DEF AggJob, Final
<1> HIDE DEF n
<1> SUFFICES ASSUME NEW k \in Searches
             PROVE  SearchInv(k)'
  BY DEF SearchesInv
<1>2. CASE k # h
  <2>1. SearchInv(k)
    BY DEF SearchesInv
  <2> QED
    BY <1>1, <1>2, <2>1, OtherSearch DEF n
<1>3. CASE k = h
  <2>1. contexts[k] # None /\ contexts'[k] = contexts[k]
    BY <1>3 DEF Owned, AggOwned
  <2>2. /\ OnlyReached(k) /\ OneAggJob(k) /\ Logged(k) /\ AskedOnce(k)
        /\ LeftCounts(k) /\ FoundBy(k) /\ ResultsKept(k)
    BY <2>1 DEF SearchesInv, SearchInv
  <2>3. Asked(k)' = Asked(k) /\ Reached(k)' = Reached(k) /\ PacketsOf(k)' \subseteq PacketsOf(k)
    BY DEF Asked, Reached, PacketsOf
  <2>4. t \in CallbacksOf(k) /\ CallbacksOf(k)' = CallbacksOf(k) \ {t}
    BY <1>3 DEF CallbacksOf
  <2>5. JobsOf(k)' = JobsOf(k) \cup {n}
    BY <1>1, <1>3 DEF JobsOf, n
  <2>6. /\ t \in Reached(k) /\ <<t, "Timeout">> \notin contexts[k].failed
        /\ \A j \in JobsOf(k) : j.server = t => ~Final(j.why)
    BY <2>2, <2>4 DEF OnlyReached, Logged, OneAggJob
  <2>7. OnlyReached(k)' /\ OneAggJob(k)' /\ Logged(k)' /\ FoundBy(k)'
    BY <1>1, <1>3, <2>1, <2>2, <2>3, <2>4, <2>5, <2>6
       DEF OnlyReached, OneAggJob, Logged, FoundBy
  <2>8. AskedOnce(k)'
    BY <1>1, <2>1, <2>2, <2>3, <2>5 DEF AskedOnce
  <2>9. CountedFinal(k)' = CountedFinal(k)
    BY <1>1, <2>3, <2>4, <2>5, <2>6 DEF CountedFinal
  <2>10. CountedFailed(k)' = CountedFailed(k)
    BY <1>1, <2>1, <2>5 DEF CountedFailed, Failed
  <2>11. LeftCounts(k)'
    BY <2>1, <2>2, <2>3, <2>9, <2>10 DEF LeftCounts, Done
  <2>12. ResultsKept(k)'
    BY <1>1, <2>1, <2>2, <2>3, <2>4, <2>5 DEF ResultsKept, ResultKept, Failed
  <2> QED
    BY <2>7, <2>8, <2>11, <2>12 DEF SearchInv
<1> QED
  BY <1>2, <1>3

\* A server answers what it was asked: it found something for that query.
LEMMA SearchCounts ==
  ASSUME TypeOK, Owned, SearchesInv, NEW p \in net, Search(p)
  PROVE  SearchesInv'
<1> DEFINE a == Reply(p.server, p.dial, p.search, {<<p.server, p.query>>})
<1>1. /\ p.type = "ask" /\ net' \subseteq (net \ {p}) \cup {a}
      /\ UNCHANGED <<contexts, aggJobs, aggCallbacks>>
  BY DEF Search, searchVars
<1>2. /\ a.type = "reply" /\ a.search = p.search /\ a.server = p.server
      /\ a.data = {<<p.server, p.query>>}
  BY DEF Reply
<1>3. p.search \in Searches /\ p.query = contexts[p.search].query
  BY <1>1, PacketsTyped DEF TypeOK, Owned, NetOwned, PacketOwned, ContextsOwned
<1> HIDE DEF a
<1> SUFFICES ASSUME NEW k \in Searches
             PROVE  SearchInv(k)'
  BY DEF SearchesInv
<1>4. SearchInv(k)
  BY DEF SearchesInv
<1>5. PacketsOf(k)' \subseteq PacketsOf(k) \cup {a} /\ (k # p.search => a \notin PacketsOf(k)')
  BY <1>1, <1>2 DEF PacketsOf
<1>6. Asked(k)' = Asked(k) /\ Reached(k)' = Reached(k) /\ JobsOf(k)' = JobsOf(k)
      /\ CallbacksOf(k)' = CallbacksOf(k)
  BY <1>1 DEF Asked, Reached, JobsOf, CallbacksOf
<1>7. SUFFICES ASSUME contexts[k] # None
               PROVE  SearchInv(k)'
  BY <1>1 DEF SearchInv
<1>8. OnlyReached(k)' /\ OneAggJob(k)' /\ Logged(k)'
  BY <1>1, <1>4, <1>6, <1>7 DEF SearchInv, OnlyReached, OneAggJob, Logged
<1>9. AskedOnce(k)'
  BY <1>1, <1>2, <1>4, <1>5, <1>6, <1>7 DEF SearchInv, AskedOnce
<1>10. CountedFinal(k)' = CountedFinal(k) /\ CountedFailed(k)' = CountedFailed(k)
  BY <1>1, <1>6 DEF CountedFinal, CountedFailed, Failed
<1>11. LeftCounts(k)'
  BY <1>1, <1>4, <1>6, <1>7, <1>10 DEF SearchInv, LeftCounts, Done
<1>12. FoundBy(k)'
  BY <1>1, <1>2, <1>3, <1>4, <1>5, <1>6, <1>7 DEF SearchInv, FoundBy
<1>13. ResultsKept(k)'
  BY <1>1, <1>4, <1>6, <1>7 DEF SearchInv, ResultsKept, ResultKept, Failed
<1> QED
  BY <1>8, <1>9, <1>11, <1>12, <1>13 DEF SearchInv

\* A link to a server breaks: of the queries lost with it, those whose write
\* failed have a callback begin, the only one for a failed send.
LEMMA BreakServerCounts ==
  ASSUME TypeOK, Owned, SearchesInv, NEW t \in Servers, BreakServer(t)
  PROVE  SearchesInv'
<1>0. PICK lost \in SUBSET OnServer(t) :
        /\ net' = net \ lost
        /\ \E F \in SUBSET {p \in lost : p.type = "ask"} :
             aggJobs' = aggJobs \cup {AggJob(p.search, t, "FailedNetwork", {}) : p \in F}
  BY Zenon DEF BreakServer
<1>1. PICK F \in SUBSET {p \in lost : p.type = "ask"} :
        aggJobs' = aggJobs \cup {AggJob(p.search, t, "FailedNetwork", {}) : p \in F}
  BY <1>0
<1>2. UNCHANGED <<contexts, aggCallbacks>>
  BY DEF BreakServer
<1>3. \A p \in F : p \in net /\ p.type = "ask" /\ p.server = t /\ p \notin net'
  BY <1>0 DEF OnServer
<1> DEFINE f(k) == AggJob(k, t, "FailedNetwork", {})
<1>4. \A k : /\ f(k).search = k /\ f(k).server = t /\ f(k).why = "FailedNetwork"
             /\ f(k).at = "store" /\ f(k).data = {} /\ ~Final(f(k).why)
  BY DEF AggJob, Final
<1> SUFFICES ASSUME NEW k \in Searches
             PROVE  SearchInv(k)'
  BY DEF SearchesInv
<1>5. SearchInv(k) /\ contexts'[k] = contexts[k]
  BY <1>2 DEF SearchesInv
<1>6. PacketsOf(k)' \subseteq PacketsOf(k) /\ CallbacksOf(k)' = CallbacksOf(k)
  BY <1>0, <1>2 DEF PacketsOf, CallbacksOf
<1>7. CASE \A p \in F : p.search # k
  <2>1. JobsOf(k)' = JobsOf(k)
    BY <1>1, <1>4, <1>7 DEF JobsOf
  <2> QED
    BY <1>5, <1>6, <2>1, SearchAlike
<1>8. CASE \E p \in F : p.search = k
  <2> DEFINE n == f(k)
  <2>1. PICK p \in F : p.search = k
    BY <1>8
  <2>2. p \in PacketsOf(k) /\ p.type = "ask" /\ p.server = t /\ p \notin PacketsOf(k)'
    BY <1>3, <2>1 DEF PacketsOf
  <2>3. JobsOf(k)' = JobsOf(k) \cup {n}
    BY <1>1, <1>4, <2>1 DEF JobsOf
  <2>4. /\ n.server = t /\ n.why = "FailedNetwork" /\ n.at = "store" /\ ~Final(n.why)
    BY <1>4
  <2> HIDE DEF n, f
  <2>5. SUFFICES ASSUME contexts[k] # None
                 PROVE  SearchInv(k)'
    BY <1>5 DEF SearchInv
  <2>6. /\ OnlyReached(k) /\ OneAggJob(k) /\ Logged(k) /\ AskedOnce(k)
        /\ LeftCounts(k) /\ FoundBy(k) /\ ResultsKept(k)
    BY <1>5, <2>5 DEF SearchInv
  <2>7. Asked(k)' = Asked(k) /\ Reached(k)' = Reached(k)
    BY <1>5 DEF Asked, Reached
  <2>8. /\ t \in Reached(k) /\ <<t, "FailedNetwork">> \notin contexts[k].failed
        /\ \A j \in JobsOf(k) : j.server = t => Final(j.why)
        /\ \A o \in PacketsOf(k)' : o.type = "ask" => o.server # t
    BY <1>6, <2>2, <2>6 DEF AskedOnce
  <2>9. OnlyReached(k)' /\ OneAggJob(k)' /\ Logged(k)' /\ FoundBy(k)'
    BY <1>5, <1>6, <2>3, <2>4, <2>6, <2>7, <2>8 DEF OnlyReached, OneAggJob, Logged, FoundBy
  <2>10. AskedOnce(k)'
    BY <1>5, <1>6, <2>3, <2>4, <2>6, <2>7, <2>8 DEF AskedOnce
  <2>11. CountedFinal(k)' = CountedFinal(k)
    BY <1>6, <2>3, <2>4, <2>7 DEF CountedFinal
  <2>12. CountedFailed(k)' = CountedFailed(k)
    BY <1>5, <2>3, <2>4, <2>8 DEF CountedFailed, Failed
  <2>13. LeftCounts(k)'
    BY <1>5, <2>6, <2>7, <2>11, <2>12 DEF LeftCounts, Done
  <2>14. ResultsKept(k)'
    BY <1>5, <1>6, <2>3, <2>6, <2>7 DEF ResultsKept, ResultKept, Failed
  <2> QED
    BY <2>9, <2>10, <2>13, <2>14 DEF SearchInv
<1> QED
  BY <1>7, <1>8

\* Every step keeps what is known of the searches.
LEMMA SearchesNext ==
  ASSUME TypeOK, Owned, Once, SearchesInv, [Next]_vars
  PROVE  SearchesInv'
<1>1. ASSUME NEW c \in Clients, Client(c)
      PROVE  SearchesInv'
  <2>1. UNCHANGED <<contexts, aggJobs, aggCallbacks>>
    BY <1>1 DEF Client, MainStep, JobStep, RegisterQuery, SubmitQuery, WaitAllFinished,
         WakeSpuriously, RunCallback, DecreaseUnfinishedJobCount, NotifyWaiting, TimeOut,
         SearchResponseHandler, HandleDeadConnection, RefuseConnection, StoreConnection,
         GiveUpDialling, ConnectToServer, searchVars
  <2>2. \A p \in net' : p.type \in {"ask", "reply"} => p \in net
    <3>1. CASE SubmitQuery(c)
      <4>1. net' = net \/ net' = net \cup {Request(via[c], <<c, sent[c]>>)}
        BY <3>1 DEF SubmitQuery, SendPacket
      <4>2. Request(via[c], <<c, sent[c]>>).type = "request"
        BY DEF Request
      <4> QED
        BY <4>1, <4>2
    <3>2. CASE net' \subseteq net
      BY <3>2
    <3> QED
      BY <1>1, <3>1, <3>2
         DEF Client, MainStep, JobStep, RegisterQuery, WaitAllFinished,
         WakeSpuriously, RunCallback, DecreaseUnfinishedJobCount, NotifyWaiting, TimeOut,
         SearchResponseHandler, HandleDeadConnection, RefuseConnection, StoreConnection,
         GiveUpDialling, ConnectToServer
  <2> QED
    BY <2>1, <2>2, QuietSearch
<1>2. ASSUME Links
      PROVE  SearchesInv'
  <2>1. UNCHANGED <<contexts, aggJobs, aggCallbacks>>
    BY <1>2 DEF Links, Break, RemoveConnection, searchVars
  <2>2. net' \subseteq net
    BY <1>2, LinkClosed DEF Links, Break, RemoveConnection
  <2> QED
    BY <2>1, <2>2, QuietSearch
<1>3. ASSUME NEW p \in net, NEW T \in Candidates, SearchRequestHandler(p, T)
      PROVE  SearchesInv'
  BY <1>3, RequestCounts
<1>4. ASSUME NEW k \in Searches, NEW s \in Servers, AskServer(k, s)
      PROVE  SearchesInv'
  BY <1>4, AskCounts
<1>5. ASSUME NEW j \in aggJobs, StoreResult(j)
      PROVE  SearchesInv'
  BY <1>5, StoreCounts
<1>6. ASSUME NEW j \in aggJobs, FinishJob(j)
      PROVE  SearchesInv'
  BY <1>6, FinishCounts
<1>7. ASSUME NEW k \in Searches, NEW s \in Servers, AggTimeOut(k, s)
      PROVE  SearchesInv'
  BY <1>7, AggTakenCounts DEF AggTimeOut
<1>8. ASSUME NEW p \in net, AggResponseHandler(p)
      PROVE  SearchesInv'
  <2>1. CASE <<p.search, p.server>> \in aggCallbacks
    <3>1. p.search \in Searches /\ p.server \in Servers /\ p \in PacketsOf(p.search)
      BY <1>8, PacketsTyped DEF AggResponseHandler, TypeOK, PacketsOf
    <3>2. contexts[p.search] # None
      BY <2>1 DEF Owned, AggOwned
    <3>3. <<p.server, contexts[p.search].query>> \in p.data
      BY <1>8, <3>1, <3>2 DEF AggResponseHandler, SearchesInv, SearchInv, FoundBy
    <3> QED
      BY <1>8, <2>1, <3>1, <3>3, AggTakenCounts DEF AggResponseHandler
  <2>2. CASE <<p.search, p.server>> \notin aggCallbacks
    BY <1>8, <2>2, QuietSearch DEF AggResponseHandler
  <2> QED
    BY <2>1, <2>2
<1>9. ASSUME NEW p \in net, Search(p)
      PROVE  SearchesInv'
  BY <1>9, SearchCounts
<1>10. ASSUME NEW s \in Servers, BreakServer(s)
       PROVE  SearchesInv'
  BY <1>10, BreakServerCounts
<1>11. ASSUME NEW s \in Servers, \/ ServerClosed(s) \/ Dial(s)
                                 \/ StoreServerId(s) \/ StoreServerStatus(s)
       PROVE  SearchesInv'
  BY <1>11, QuietSearch DEF ServerClosed, Dial, StoreServerId, StoreServerStatus, searchVars
<1>12. CASE ConnectToPendingServers \/ UNCHANGED vars
  BY <1>12, QuietSearch DEF ConnectToPendingServers, vars, searchVars
<1> QED
  BY <1>1, <1>2, <1>3, <1>4, <1>5, <1>6, <1>7, <1>8, <1>9, <1>10, <1>11, <1>12
     DEF Next, Aggregator, AggregatorStep, Server

\* One response, and a second one only when a failed send has counted too.
LEMMA SearchesMeanResponses ==
  ASSUME TypeOK, SearchesInv
  PROVE  ResponseCount
<1> SUFFICES ASSUME NEW k \in Searches, contexts[k] # None
             PROVE  contexts[k].responses <=
                      IF Failed(contexts[k], "FailedNetwork") = {} THEN 1 ELSE 2
  BY DEF ResponseCount
<1>1. contexts[k].responses = ResponsesAfter(Cardinality(Asked(k)), Done(k))
  BY DEF SearchesInv, SearchInv, LeftCounts
<1>2. CASE Failed(contexts[k], "FailedNetwork") # {}
  BY <1>1, <1>2 DEF ResponsesAfter
<1>3. CASE Failed(contexts[k], "FailedNetwork") = {}
  <2>1. CountedFailed(k) = {}
    BY <1>3 DEF CountedFailed
  <2>2. /\ Asked(k) \in SUBSET Servers /\ CountedFinal(k) \in SUBSET Asked(k)
        /\ CountedFinal(k) \in SUBSET Servers
    BY DEF Asked, CountedFinal, Reached
  <2>3. /\ Cardinality(CountedFinal(k)) <= Cardinality(Asked(k))
        /\ Cardinality(CountedFinal(k)) \in Nat /\ Cardinality(Asked(k)) \in Nat
    BY <2>2, ServersCounted
  <2>4. Done(k) = Cardinality(CountedFinal(k))
    BY <2>1, <2>3, FS_EmptySet DEF Done
  <2> QED
    BY <1>1, <1>3, <2>3, <2>4 DEF ResponsesAfter
<1> QED
  BY <1>2, <1>3

\* Start-up: there is no search.
LEMMA InitSearches ==
  ASSUME Init
  PROVE  SearchesInv /\ ResultsComplete
BY DEF Init, SearchesInv, SearchInv, ResultsComplete

\* A context keeps its query and the servers it asks, and forgets no failure.
ContextsGrow == \A k \in Searches : contexts[k] # None =>
  /\ contexts'[k] # None
  /\ contexts'[k].query = contexts[k].query /\ contexts'[k].cids = contexts[k].cids
  /\ contexts[k].failed \subseteq contexts'[k].failed

\* No step takes a context away or changes whose it is.
LEMMA ContextsGrowing ==
  ASSUME TypeOK, Owned, Once, [Next]_vars
  PROVE  ContextsGrow
<1>1. CASE UNCHANGED contexts
  BY <1>1 DEF ContextsGrow
<1>2. ASSUME NEW p \in net, NEW T \in Candidates, SearchRequestHandler(p, T)
      PROVE  ContextsGrow
  <2>1. PICK h \in Searches, asked \in SUBSET Servers :
           /\ contexts[h] = None
           /\ contexts' = [contexts EXCEPT ![h] = Context(p.query, asked)]
    BY <1>2, RequestIsNew
  <2> QED
    BY <2>1 DEF ContextsGrow, TypeOK
<1>3. ASSUME NEW k \in Searches, NEW y \in Contexts, contexts[k] # None,
             contexts' = [contexts EXCEPT ![k] = y], y.query = contexts[k].query,
             y.cids = contexts[k].cids, contexts[k].failed \subseteq y.failed
      PROVE  ContextsGrow
  BY <1>3, QueryConstants DEF ContextsGrow, TypeOK
<1>4. ASSUME NEW k \in Searches, NEW s \in Servers, AskServer(k, s)
      PROVE  ContextsGrow
  <2> DEFINE y == [contexts[k] EXCEPT !.toAsk = @ \ {s}]
  <2>1. contexts[k] \in Contexts /\ contexts[k] # None
    BY <1>4 DEF AskServer, TypeOK
  <2>2. contexts' = [contexts EXCEPT ![k] = y] /\ y \in Contexts
    BY <1>4, <2>1, ContextsMoved DEF AskServer, TypeOK
  <2>3. /\ y.query = contexts[k].query /\ y.cids = contexts[k].cids
        /\ y.failed = contexts[k].failed
    BY <2>1 DEF Contexts
  <2> HIDE DEF y
  <2> QED
    BY <1>3, <2>1, <2>2, <2>3
<1>5. ASSUME NEW j \in aggJobs, StoreResult(j)
      PROVE  ContextsGrow
  <2> DEFINE x == contexts[j.search]
             F == IF j.why = "Success" THEN x.failed ELSE x.failed \cup {<<j.server, j.why>>}
             y == [x EXCEPT !.results[j.server] = j.data, !.failed = F]
  <2>1. /\ j \in AggJobs /\ j.search \in Searches /\ j.server \in Servers
        /\ j.why \in Outcomes /\ j.data \in Found
    BY DEF TypeOK, AggJobs
  <2>2. x # None /\ x \in Contexts
    BY <2>1 DEF TypeOK, Owned, AggOwned
  <2>3. contexts' = [contexts EXCEPT ![j.search] = y]
    BY <1>5, <2>1 DEF StoreResult, TypeOK
  <2>4. y \in Contexts
    <3>1. F \in SUBSET (Servers \X Outcomes)
      BY <2>1, <2>2 DEF Contexts
    <3> QED
      BY <2>1, <2>2, <3>1, ContextsMoved
  <2>5. y.query = x.query /\ y.cids = x.cids /\ x.failed \subseteq y.failed
    BY <2>2 DEF Contexts
  <2> HIDE DEF y
  <2> QED
    BY <1>3, <2>1, <2>2, <2>3, <2>4, <2>5
<1>6. ASSUME NEW j \in aggJobs, FinishJob(j)
      PROVE  ContextsGrow
  <2>1. j.search \in Searches /\ contexts[j.search] # None
    BY DEF TypeOK, AggJobs, Owned, AggOwned
  <2>2. PICK y \in Contexts : FinishesAs(j.search, y)
    BY <1>6, FinishFields
  <2> QED
    BY <1>3, <2>1, <2>2 DEF FinishesAs
<1>7. \/ UNCHANGED contexts
      \/ \E p \in net, T \in Candidates : SearchRequestHandler(p, T)
      \/ \E k \in Searches, s \in Servers : AskServer(k, s)
      \/ \E j \in aggJobs : StoreResult(j) \/ FinishJob(j)
  <2>1. ASSUME NEW c \in Clients, Client(c)
        PROVE  UNCHANGED contexts
    BY <2>1 DEF Client, MainStep, JobStep, RegisterQuery, SubmitQuery, WaitAllFinished,
         WakeSpuriously, RunCallback, DecreaseUnfinishedJobCount, NotifyWaiting, TimeOut,
         SearchResponseHandler, HandleDeadConnection, RefuseConnection, StoreConnection,
         GiveUpDialling, ConnectToServer, searchVars
  <2>2. ASSUME Links
        PROVE  UNCHANGED contexts
    BY <2>2 DEF Links, Break, RemoveConnection, searchVars
  <2>3. ASSUME NEW s \in Servers, Server(s)
        PROVE  UNCHANGED contexts
    BY <2>3 DEF Server, BreakServer, ServerClosed, Dial, StoreServerId, StoreServerStatus,
         searchVars
  <2>4. ASSUME NEW k \in Searches, NEW s \in Servers, AggTimeOut(k, s)
        PROVE  UNCHANGED contexts
    BY <2>4 DEF AggTimeOut
  <2>5. ASSUME NEW p \in net, AggResponseHandler(p) \/ Search(p)
        PROVE  UNCHANGED contexts
    BY <2>5 DEF AggResponseHandler, Search, searchVars
  <2>6. CASE ConnectToPendingServers \/ UNCHANGED vars
    BY <2>6 DEF ConnectToPendingServers, vars, searchVars
  <2> QED
    BY <2>1, <2>2, <2>3, <2>4, <2>5, <2>6 DEF Next, Aggregator, AggregatorStep
<1> QED
  BY <1>1, <1>2, <1>4, <1>5, <1>6, <1>7

\* Data that is complete stays so.
LEMMA CompleteGrows ==
  ASSUME ContextsGrow, NEW d
  PROVE  /\ \A k \in Searches : CompleteFor(k, d) => CompleteFor(k, d)'
         /\ \A q : Complete(q, d) => Complete(q, d)'
<1>1. \A k \in Searches : CompleteFor(k, d) => CompleteFor(k, d)'
  BY DEF ContextsGrow, CompleteFor, Failed
<1> QED
  BY <1>1 DEF Complete, ContextsGrow, CompleteFor

\* The response that the last callback has sent is complete, for its search
\* has kept every result; a second response comes after a failed send.
LEMMA ResponseComplete ==
  ASSUME TypeOK, NEW k \in Searches, contexts[k] # None, SearchInv(k),
         NEW i \in JobsOf(k), i.at = "finish", contexts[k].left <= 1
  PROVE  CompleteFor(k, Merged(contexts[k]))
<1> DEFINE x == contexts[k]
<1>1. SUFFICES ASSUME Failed(x, "FailedNetwork") = {}, NEW s \in Servers,
                      s \notin Failed(x, "Timeout"), x.cids[s] # 0
               PROVE  <<s, x.query>> \in Merged(x)
  BY DEF CompleteFor
<1>2. /\ OnlyReached(k) /\ OneAggJob(k) /\ Logged(k) /\ LeftCounts(k) /\ ResultsKept(k)
  BY DEF SearchInv
<1>3. i.why \in Outcomes /\ i.server \in Servers
  BY DEF JobsOf, TypeOK, AggJobs
<1>4. Final(i.why)
  <2>1. ASSUME ~Final(i.why)
        PROVE  FALSE
    <3>1. <<i.server, "FailedNetwork">> \in x.failed
      BY <1>2, <2>1 DEF Logged, Final
    <3> QED
      BY <1>1, <1>3, <3>1 DEF Failed
  <2> QED
    BY <2>1
<1>5. CountedFailed(k) = {}
  BY <1>1 DEF CountedFailed
<1> DEFINE A == FinalWith(k, i)
<1>6. /\ A \subseteq Reached(k) /\ Done(k) \in Nat /\ Cardinality(A) = Done(k) + 1
  <2>1. /\ A \subseteq Reached(k) /\ Done(k) \in Nat
        /\ Cardinality(A) + Cardinality(FailedWith(k, i)) = Done(k) + 1
    BY NextCounted
  <2>2. FailedWith(k, i) = {}
    BY <1>4, <1>5 DEF FailedWith
  <2>3. Cardinality(FailedWith(k, i)) = 0
    BY <2>2, FS_EmptySet
  <2>4. Cardinality(A) \in Nat
    <3>1. A \in SUBSET Servers
      BY <2>1 DEF Reached, Asked
    <3> QED
      BY <3>1, ServersCounted
  <2> QED
    BY <2>1, <2>3, <2>4
<1> HIDE DEF A, x
<1>7. /\ Asked(k) \in SUBSET Servers /\ A \in SUBSET Asked(k) /\ Cardinality(Asked(k)) \in Nat
      /\ Cardinality(A) <= Cardinality(Asked(k))
      /\ Cardinality(A) = Cardinality(Asked(k)) => A = Asked(k)
  <2>1. Asked(k) \in SUBSET Servers /\ A \in SUBSET Asked(k)
    BY <1>6 DEF Asked, Reached
  <2> QED
    BY <2>1, ServersCounted
<1>8. Cardinality(A) = Cardinality(Asked(k)) /\ x.responses = 0
  <2>1. /\ x.left = LeftAfter(Cardinality(Asked(k)), Done(k))
        /\ x.responses = ResponsesAfter(Cardinality(Asked(k)), Done(k))
    BY <1>2 DEF LeftCounts, x
  <2>2. Done(k) < Cardinality(Asked(k))
    BY <1>6, <1>7
  <2>3. x.left = Cardinality(Asked(k)) - Done(k) /\ x.responses = 0
    BY <1>6, <1>7, <2>1, <2>2 DEF LeftAfter, ResponsesAfter
  <2>4. Cardinality(Asked(k)) - Done(k) <= 1
    BY <2>3 DEF x
  <2> QED
    BY <1>6, <1>7, <2>2, <2>3, <2>4
<1>9. s \in A /\ s \in Reached(k)
  BY <1>1, <1>6, <1>7, <1>8 DEF Asked, x
<1>10. ResultKept(k, s)
  BY <1>1, <1>2, <1>8, <1>9 DEF ResultsKept, x
<1>11. s \notin CallbacksOf(k) /\ \A j \in JobsOf(k) : j.server = s /\ Final(j.why) => j.at = "finish"
  <2>1. CASE s = i.server
    BY <1>2, <1>4, <2>1 DEF OneAggJob
  <2>2. CASE s # i.server
    BY <1>9, <2>2 DEF A, FinalWith, CountedFinal
  <2> QED
    BY <2>1, <2>2
<1>12. x.results[s] # None /\ <<s, x.query>> \in x.results[s]
  BY <1>1, <1>10, <1>11 DEF ResultKept, Failed, x
<1> QED
  BY <1>12 DEF Merged

\* Where the results of a client come from: from its callbacks, and these
\* from responses.
LEMMA CompleteKept ==
  ASSUME TypeOK, ContextsGrow, ResultsComplete,
         \A p \in net' : p.type = "response" =>
           p \in net \/ CompleteFor(<<p.link, p.resource>>, p.data)',
         \A c \in Clients : \A j \in jobs'[c] : j.outcome = "Success" =>
           \/ Complete(<<c, j.resource>>, j.data)
           \/ \E h \in jobs[c] : /\ h.resource = j.resource /\ h.data = j.data
                                 /\ h.outcome = "Success",
         \A c \in Clients : \A i \in DOMAIN answers'[c] : answers'[c][i].outcome = "Success" =>
           \/ i \in DOMAIN answers[c] /\ answers'[c][i] = answers[c][i]
           \/ \E h \in jobs[c] : /\ h.resource = answers'[c][i].resource
                                 /\ h.data = answers'[c][i].data /\ h.outcome = "Success"
  PROVE  ResultsComplete'
<1>1. \A d : \A k \in Searches : CompleteFor(k, d) => CompleteFor(k, d)'
  BY CompleteGrows
<1>2. \A d, q : Complete(q, d) => Complete(q, d)'
  BY CompleteGrows
<1>3. \A p \in net' : p.type = "response" => CompleteFor(<<p.link, p.resource>>, p.data)'
  <2>1. ASSUME NEW p \in net, p.type = "response"
        PROVE  CompleteFor(<<p.link, p.resource>>, p.data)'
    <3>1. <<p.link, p.resource>> \in Searches
      BY <2>1, PacketsTyped DEF TypeOK, Searches
    <3> QED
      BY <1>1, <2>1, <3>1 DEF ResultsComplete
  <2> QED
    BY <2>1
<1>4. ASSUME NEW c \in Clients, NEW j \in jobs'[c], j.outcome = "Success"
      PROVE  Complete(<<c, j.resource>>, j.data)'
  <2>1. Complete(<<c, j.resource>>, j.data)
    BY <1>4 DEF ResultsComplete
  <2> QED
    BY <1>2, <2>1
<1>5. ASSUME NEW c \in Clients, NEW i \in DOMAIN answers'[c], answers'[c][i].outcome = "Success"
      PROVE  Complete(<<c, answers[c][i].resource>>, answers[c][i].data)'
  <2> DEFINE a == answers'[c][i]
  <2>1. Complete(<<c, a.resource>>, a.data)
    BY <1>5 DEF ResultsComplete
  <2>2. \A d, r : a.data = d /\ a.resource = r =>
          Complete(<<c, answers[c][i].resource>>, answers[c][i].data)' = Complete(<<c, r>>, d)'
    BY DEF Complete, CompleteFor
  <2> HIDE DEF a
  <2> QED
    BY <1>2, <2>1, <2>2
<1> QED
  BY <1>3, <1>4, <1>5 DEF ResultsComplete

\* A callback that goes on, ends, or begins after a failed send or a timeout
\* has no new results.
LEMMA NoNewResults ==
  ASSUME TypeOK, NEW c \in Clients, NEW e \in Clients, NEW j \in jobs'[e], j.outcome = "Success",
         \/ \E h \in jobs[c], at \in {"call", "decrease", "notify"} : MoveJob(c, h, at)
         \/ \E h \in jobs[c] : EndJob(c, h)
         \/ \E h : StartJob(c, h) /\ h.outcome # "Success"
         \/ jobs' = jobs
  PROVE  \E h \in jobs[e] : h.resource = j.resource /\ h.data = j.data /\ h.outcome = "Success"
<1>1. CASE e # c \/ jobs' = jobs
  BY <1>1 DEF MoveJob, EndJob, StartJob, TypeOK
<1>2. ASSUME e = c, NEW h \in jobs[c], NEW at \in {"call", "decrease", "notify"}, MoveJob(c, h, at)
      PROVE  \E g \in jobs[e] : g.resource = j.resource /\ g.data = j.data /\ g.outcome = "Success"
  <2>1. jobs'[c] = (jobs[c] \ {h}) \cup {[h EXCEPT !.at = at]} /\ h \in Jobs
    BY <1>2 DEF MoveJob, TypeOK
  <2>2. CASE j = [h EXCEPT !.at = at]
    BY <1>2, <2>1, <2>2, MovedTyped
  <2>3. CASE j # [h EXCEPT !.at = at]
    BY <1>2, <2>1, <2>3
  <2> QED
    BY <2>2, <2>3
<1>3. ASSUME e = c, NEW h \in jobs[c], EndJob(c, h)
      PROVE  j \in jobs[e]
  BY <1>3 DEF EndJob, TypeOK
<1>4. ASSUME e = c, NEW h, StartJob(c, h), h.outcome # "Success"
      PROVE  j \in jobs[e]
  BY <1>4 DEF StartJob, TypeOK
<1> QED
  BY <1>1, <1>2, <1>3, <1>4

\* Every step keeps results complete.
LEMMA CompleteNext ==
  ASSUME TypeOK, Owned, Once, SearchesInv, ResultsComplete, [Next]_vars
  PROVE  ResultsComplete'
<1>0. ContextsGrow
  BY ContextsGrowing
<1>a. ASSUME UNCHANGED <<jobs, answers>>,
             \A p \in net' : p.type = "response" => p \in net
      PROVE  ResultsComplete'
  BY <1>0, <1>a, CompleteKept
<1>b. ASSUME UNCHANGED answers, \A p \in net' : p.type = "response" => p \in net,
             NEW c \in Clients,
             \/ \E h \in jobs[c], at \in {"call", "decrease", "notify"} : MoveJob(c, h, at)
             \/ \E h \in jobs[c] : EndJob(c, h)
             \/ \E h : StartJob(c, h) /\ h.outcome # "Success"
             \/ jobs' = jobs
      PROVE  ResultsComplete'
  <2>1. ASSUME NEW e \in Clients, NEW j \in jobs'[e], j.outcome = "Success"
        PROVE  \E h \in jobs[e] : /\ h.resource = j.resource /\ h.data = j.data
                                  /\ h.outcome = "Success"
    BY <1>b, <2>1, NoNewResults
  <2> QED
    BY <1>0, <1>b, <2>1, CompleteKept
<1>1. ASSUME NEW c \in Clients, SubmitQuery(c)
      PROVE  ResultsComplete'
  <2> DEFINE J(b) == Job(sent[c], "FailedNetwork", {}, b)
             p == Request(via[c], <<c, sent[c]>>)
  <2>1. \/ jobs' = jobs
        \/ \E b \in BOOLEAN : StartJob(c, J(b))
    BY <1>1 DEF SubmitQuery, SendPacket
  <2>2. \A b : J(b).outcome # "Success"
    BY DEF Job
  <2>3. net' = net \/ net' = net \cup {p}
    BY <1>1 DEF SubmitQuery, SendPacket
  <2>4. p.type # "response"
    BY DEF Request
  <2>5. answers' = answers
    BY <1>1 DEF SubmitQuery
  <2> HIDE DEF J, p
  <2> QED
    BY <1>b, <2>1, <2>2, <2>3, <2>4, <2>5
<1>2. ASSUME NEW c \in Clients, NEW j \in jobs[c], RunCallback(c, j)
      PROVE  ResultsComplete'
  <2> DEFINE a == [resource |-> j.resource, outcome |-> j.outcome, data |-> j.data]
  <2>1. /\ answers' = [answers EXCEPT ![c] = Append(@, a)] /\ net' = net
        /\ MoveJob(c, j, "decrease") \/ EndJob(c, j)
    BY <1>2 DEF RunCallback
  <2>2. ASSUME NEW e \in Clients, NEW i \in DOMAIN answers'[e]
        PROVE  \/ i \in DOMAIN answers[e] /\ answers'[e][i] = answers[e][i]
               \/ e = c /\ answers'[e][i] = a
    BY <2>1, <2>2 DEF TypeOK
  <2>3. a.resource = j.resource /\ a.outcome = j.outcome /\ a.data = j.data
    OBVIOUS
  <2>4. ASSUME NEW e \in Clients, NEW h \in jobs'[e], h.outcome = "Success"
        PROVE  \E g \in jobs[e] : /\ g.resource = h.resource /\ g.data = h.data
                                  /\ g.outcome = "Success"
    BY <2>1, <2>4, NoNewResults
  <2> HIDE DEF a
  <2>5. ASSUME NEW e \in Clients, NEW i \in DOMAIN answers'[e], answers'[e][i].outcome = "Success"
        PROVE  \/ i \in DOMAIN answers[e] /\ answers'[e][i] = answers[e][i]
               \/ \E h \in jobs[e] : /\ h.resource = answers'[e][i].resource
                                     /\ h.data = answers'[e][i].data /\ h.outcome = "Success"
    BY <2>2, <2>3, <2>5
  <2> QED
    BY <1>0, <2>1, <2>4, <2>5, CompleteKept
<1>3. ASSUME NEW c \in Clients, NEW j \in jobs[c], DecreaseUnfinishedJobCount(c, j)
      PROVE  ResultsComplete'
  BY <1>3, <1>b DEF DecreaseUnfinishedJobCount, Counted
<1>4. ASSUME NEW c \in Clients, NEW j \in jobs[c], NotifyWaiting(c, j)
      PROVE  ResultsComplete'
  BY <1>4, <1>b DEF NotifyWaiting, Counted
<1>5. ASSUME NEW c \in Clients, NEW r \in Resources, TimeOut(c, r)
      PROVE  ResultsComplete'
  <2>1. Job(r, "Timeout", {}, FALSE).outcome # "Success"
    BY DEF Job
  <2> QED
    BY <1>5, <1>b, <2>1 DEF TimeOut
<1>6. ASSUME NEW c \in Clients, NEW p \in net, SearchResponseHandler(c, p)
      PROVE  ResultsComplete'
  <2> DEFINE n == Job(p.resource, "Success", p.data, FALSE)
  <2>1. /\ p.type = "response" /\ owner[p.link] = c /\ net' \subseteq net /\ answers' = answers
        /\ StartJob(c, n) \/ jobs' = jobs
    BY <1>6 DEF SearchResponseHandler
  <2>2. n.resource = p.resource /\ n.data = p.data
    BY DEF Job
  <2>3. Complete(<<c, p.resource>>, p.data)
    <3>1. <<p.link, p.resource>> \in Searches
      BY <2>1, PacketsTyped DEF TypeOK, Searches
    <3>2. CompleteFor(<<p.link, p.resource>>, p.data)
      BY <2>1 DEF ResultsComplete
    <3>3. contexts[<<p.link, p.resource>>].query = <<c, p.resource>>
      BY <2>1, <3>1, <3>2 DEF CompleteFor, Owned, ContextsOwned, QueryOf
    <3> QED
      BY <3>1, <3>2, <3>3 DEF Complete
  <2> HIDE DEF n
  <2>4. ASSUME NEW e \in Clients, NEW j \in jobs'[e]
        PROVE  j \in jobs[e] \/ (e = c /\ j = n)
    BY <2>1, <2>4 DEF StartJob, TypeOK
  <2>5. ASSUME NEW e \in Clients, NEW j \in jobs'[e], j.outcome = "Success"
        PROVE  \/ Complete(<<e, j.resource>>, j.data)
               \/ \E h \in jobs[e] : /\ h.resource = j.resource /\ h.data = j.data
                                     /\ h.outcome = "Success"
    BY <2>2, <2>3, <2>4, <2>5
  <2> QED
    BY <1>0, <2>1, <2>5, CompleteKept
<1>7. ASSUME NEW l, CloseLink(l), UNCHANGED answers
      PROVE  ResultsComplete'
  <2>1. net' \subseteq net
    BY <1>7, LinkClosed
  <2>2. \A c \in Clients : \A j \in jobs'[c] : j.outcome = "Success" => j \in jobs[c]
    BY <1>7, ClosedFails
  <2> QED
    BY <1>0, <1>7, <2>1, <2>2, CompleteKept
<1>8. ASSUME Links
      PROVE  ResultsComplete'
  <2>1. ASSUME NEW l \in Ids, Break(l)
        PROVE  ResultsComplete'
    BY <1>7, <2>1 DEF Break
  <2>2. ASSUME NEW l \in Ids, RemoveConnection(l)
        PROVE  ResultsComplete'
    BY <1>7, <1>a, <2>2 DEF RemoveConnection
  <2> QED
    BY <1>8, <2>1, <2>2 DEF Links
<1>9. ASSUME NEW c \in Clients, Client(c)
      PROVE  ResultsComplete'
  <2>1. CASE \/ RegisterQuery(c) \/ WaitAllFinished(c) \/ WakeSpuriously(c)
             \/ HandleDeadConnection(c) \/ RefuseConnection(c) \/ StoreConnection(c)
             \/ GiveUpDialling(c) \/ \E l \in Ids : ConnectToServer(c, l)
    BY <2>1, <1>a DEF RegisterQuery, WaitAllFinished, WakeSpuriously, HandleDeadConnection,
       RefuseConnection, StoreConnection, GiveUpDialling, ConnectToServer, clientVars
  <2> QED
    BY <1>1, <1>2, <1>3, <1>4, <1>5, <1>6, <1>9, <2>1 DEF Client, MainStep, JobStep
<1>10. ASSUME NEW p \in net, NEW T \in Candidates, SearchRequestHandler(p, T)
       PROVE  ResultsComplete'
  BY <1>10, <1>a DEF SearchRequestHandler, clientVars
<1>11. ASSUME NEW k \in Searches, NEW s \in Servers, AskServer(k, s) \/ AggTimeOut(k, s)
       PROVE  ResultsComplete'
  BY <1>11, <1>a DEF AskServer, AggTimeOut, Ask, clientVars
<1>12. ASSUME NEW j \in aggJobs, StoreResult(j)
       PROVE  ResultsComplete'
  BY <1>12, <1>a DEF StoreResult, clientVars
<1>13. ASSUME NEW j \in aggJobs, FinishJob(j)
       PROVE  ResultsComplete'
  <2> DEFINE k == j.search
             d == Merged(contexts[k])
             to == GetConnection(k[1])
             r == Response(to, k[2], d)
  <2>1. /\ j.at = "finish" /\ UNCHANGED <<jobs, answers>>
        /\ net' = net \/ (contexts[k].left <= 1 /\ to \in up /\ net' = net \cup {r})
    BY <1>13 DEF FinishJob, IsCompletedAfterFinish, Respond, clientVars
  <2>2. k \in Searches /\ contexts[k] # None /\ j \in JobsOf(k) /\ SearchInv(k)
    BY DEF TypeOK, AggJobs, Owned, AggOwned, JobsOf, SearchesInv
  <2>3. r.link = to /\ r.resource = k[2] /\ r.data = d
    BY DEF Response
  <2>4. to \in up => <<to, k[2]>> = k
    BY <2>2 DEF GetConnection, TypeOK, Searches, Ids
  <2> HIDE DEF k, r, to
  <2>5. contexts[k].left <= 1 => CompleteFor(k, d)
    BY <2>1, <2>2, ResponseComplete
  <2>6. \A e : CompleteFor(j.search, e) => CompleteFor(j.search, e)'
    BY <1>0, <2>2, CompleteGrows DEF k
  <2> HIDE DEF d
  <2>7. ASSUME NEW p \in net', p.type = "response", p \notin net
        PROVE  CompleteFor(<<p.link, p.resource>>, p.data)'
    <3>1. p = r /\ to \in up /\ contexts[k].left <= 1
      BY <2>1, <2>7
    <3>2. CompleteFor(k, p.data)
      BY <2>3, <2>5, <3>1
    <3>3. <<p.link, p.resource>> = j.search
      BY <2>3, <2>4, <3>1 DEF k
    <3> QED
      BY <2>6, <3>2, <3>3 DEF k
  <2> QED
    BY <1>0, <2>1, <2>7, CompleteKept
<1>14. ASSUME NEW p \in net, AggResponseHandler(p)
       PROVE  ResultsComplete'
  BY <1>14, <1>a DEF AggResponseHandler, clientVars
<1>15. ASSUME NEW p \in net, Search(p)
       PROVE  ResultsComplete'
  BY <1>15, <1>a DEF Search, Reply, clientVars
<1>16. ASSUME NEW s \in Servers, Server(s)
       PROVE  ResultsComplete'
  BY <1>16, <1>a DEF Server, BreakServer, ServerClosed, Dial, StoreServerId, StoreServerStatus,
     clientVars
<1>17. CASE ConnectToPendingServers \/ UNCHANGED vars
  BY <1>17, <1>a DEF ConnectToPendingServers, vars, clientVars
<1> QED
  BY <1>8, <1>9, <1>10, <1>11, <1>12, <1>13, <1>14, <1>15, <1>16, <1>17
     DEF Next, Aggregator, AggregatorStep

\* A complete result holds what NothingMissing asks for.
LEMMA CompleteMeansNothingMissing ==
  ASSUME ResultsComplete
  PROVE  NothingMissing
BY DEF ResultsComplete, Complete, CompleteFor, NothingMissing
-----------------------------------------------------------------------------
\* The inductive invariant: types, who owns what, and what is answered once.
THEOREM Inductive == Spec => []IInv
<1>1. Init => IInv
  BY InitInv
<1>2. IInv /\ [Next]_vars => IInv'
  BY TypesNext, OwnedNext, OnceNext DEF IInv
<1> QED
  BY <1>1, <1>2, PTL DEF Spec

\* Every variable keeps its type; that the aggregator's and the client's
\* counters wrap is part of it.
THEOREM TypesHold == Spec => []TypeOK
<1>1. IInv => TypeOK
  BY DEF IInv
<1> QED
  BY <1>1, Inductive, PTL

\* A callback of SendQueryAsync is never given another client's results,
\* however connections break, slots are reused and searches overlap.
THEOREM OwnAnswerHolds == Spec => []OwnAnswer
<1>1. IInv => OwnAnswer
  BY DEF IInv, Owned
<1> QED
  BY <1>1, Inductive, PTL

\* A query is answered once, or once by a failed send and once by the timeout
\* of the callback that send left behind.
THEOREM OneResultHolds == Spec => []OneResult
<1>1. IInv => OneResult
  BY OnceMeansOneResult DEF IInv
<1> QED
  BY <1>1, Inductive, PTL

\* The inductive invariant of the counters: that of the clients, and for each
\* search that of its context, its callbacks, its packets and its results.
THEOREM CountsInductive == Spec => [](IInv /\ CountsInv /\ SearchesInv /\ ResultsComplete)
<1>1. Init => CountsInv /\ SearchesInv /\ ResultsComplete
  BY InitCounts, InitSearches
<1>2. IInv /\ CountsInv /\ [Next]_vars => CountsInv'
  BY CountsNext DEF IInv
<1>3. IInv /\ SearchesInv /\ [Next]_vars => SearchesInv'
  BY SearchesNext DEF IInv
<1>4. IInv /\ SearchesInv /\ ResultsComplete /\ [Next]_vars => ResultsComplete'
  BY CompleteNext DEF IInv
<1> QED
  BY <1>1, <1>2, <1>3, <1>4, Inductive, PTL DEF Spec

\* main goes on after WaitAllFinished only when its queries are answered,
\* unless a send failed or the wait returned without a notification.
THEOREM WaitMeansAnsweredHolds == Spec => []WaitMeansAnswered
<1>1. IInv /\ CountsInv => WaitMeansAnswered
  BY CountsMeanAnswered DEF IInv
<1> QED
  BY <1>1, CountsInductive, PTL

\* The aggregator sends one response for a request, and at most two when a
\* send to a server failed, however its callbacks interleave.
THEOREM ResponseCountHolds == Spec => []ResponseCount
<1>1. IInv /\ SearchesInv => ResponseCount
  BY SearchesMeanResponses DEF IInv
<1> QED
  BY <1>1, CountsInductive, PTL

\* A result a client gets holds what every server that was asked has found,
\* unless that server timed out or a send of this search failed.
THEOREM NothingMissingHolds == Spec => []NothingMissing
<1>1. ResultsComplete => NothingMissing
  BY CompleteMeansNothingMissing
<1> QED
  BY <1>1, CountsInductive, PTL
=============================================================================
