--------------------------- MODULE Gateway_proofs ---------------------------
(***************************************************************************)
(* Proofs about the gateway, for any number of nodes and fleets and any    *)
(* batches, with the scorer in each process or in Redis, under crashes and *)
(* failing calls.                                                          *)
(***************************************************************************)
EXTENDS Gateway, Engine_proofs, WellFoundedInduction

-----------------------------------------------------------------------------
(* The inductive invariant.                                                *)

Pairs == [name : Metrics, value : Int]

Alert ==
  [model : Models, metric : Metrics, client : Orgs,
   fleet : Fleets \cup {NoFleet}, at : Nat]

Filing == [model : Models, metric : Metrics, count : Nat, at : Nat]

Tables == [Scorers -> [Streams -> Table]]

Shape ==
  /\ wire \in Seq(Payload) /\ Len(wire) <= MaxBatches
  /\ rows \in Seq(Nat) /\ \A k \in DOMAIN rows : rows[k] \in DOMAIN wire
  /\ local \in Seq(Alert)
  /\ public \in Seq(Filing)
  /\ agree \in Tables /\ observers \in Tables
  /\ clock \in Nat \ {0}

\* Batch id i is stored in the rows rs.
StoredIn(i, rs) == \E k \in DOMAIN rs : rs[k] = i

\* The metrics still to do are metrics of the batch.
FromBatch(todo, b) ==
  \A k \in DOMAIN todo : \E j \in DOMAIN b.metrics : b.metrics[j] = todo[k]

\* A public batch of client c on stream s.
OnStream(b, s, c) ==
  /\ b.fleet = NoFleet /\ b.client = c
  /\ b.model = s.model /\ b.suite = s.suite
  /\ \E k \in DOMAIN b.metrics : b.metrics[k].name = s.metric

\* Client c's public batch on stream s is stored.
Traced(s, c, w, rs) == \E k \in DOMAIN rs : OnStream(w[rs[k]], s, c)

\* Client c's public alert of time t on a model and a metric is stored.
Reported(model, metric, c, t, ls) ==
  \E k \in DOMAIN ls :
    /\ ls[k].client = c /\ ls[k].fleet = NoFleet
    /\ ls[k].model = model /\ ls[k].metric = metric
    /\ ls[k].at = t

\* The clients with such an alert within the TTL before t.
Behind(model, metric, t, ls) ==
  {c \in Orgs : \E u \in Nat : /\ t - TTL <= u /\ u <= t
                               /\ Reported(model, metric, c, u, ls)}

InLoop == {"metric", "local", "notify", "candidate", "promote", "public", "clear"}

AtScorer == {"candidate", "promote", "public", "clear"}

\* A request is about a batch that was received, works through its metrics,
\* has stored it before it scores, votes for public batches only and after its
\* alert is stored, and files no more clients than have one.
Sound(r, w, rs, ls, t) ==
  /\ r \in Request
  /\ r.pc # "idle" => r.id \in DOMAIN w /\ FromBatch(r.todo, w[r.id])
  /\ r.pc \in InLoop => StoredIn(r.id, rs)
  /\ r.pc \in InLoop \ {"metric"} => r.todo # <<>>
  /\ r.pc \in AtScorer => w[r.id].fleet = NoFleet
  /\ r.pc = "candidate" =>
       Reported(w[r.id].model, r.todo[1].name, w[r.id].client, t, ls)
  /\ r.pc = "public" =>
       /\ r.count >= Floor
       /\ r.count <= Cardinality(Behind(w[r.id].model, r.todo[1].name, t, ls))

Requests ==
  /\ req \in [Nodes -> Request]
  /\ \A n \in Nodes : Sound(req[n], wire, rows, local, clock)

Isolated ==
  \A x \in Scorers, s \in Streams, c \in Orgs :
    observers[x][s][c] # Absent \/ agree[x][s][c] # Absent =>
      Traced(s, c, wire, rows)

VotesReported ==
  \A x \in Scorers, s \in Streams, c \in Orgs :
    agree[x][s][c] # Absent =>
      Reported(s.model, s.metric, c, agree[x][s][c], local)

FilingsBacked ==
  \A k \in DOMAIN public :
    /\ public[k].count >= Floor
    /\ public[k].count <=
         Cardinality(Behind(public[k].model, public[k].metric, public[k].at, local))

Inv == Shape /\ Requests /\ Isolated /\ VotesReported /\ FilingsBacked

-----------------------------------------------------------------------------
(* Facts about the data.                                                   *)

\* Sequences that only grow keep what they held.
Grows(v, w) ==
  /\ DOMAIN v \subseteq DOMAIN w
  /\ \A k \in DOMAIN v : w[k] = v[k]

LEMMA Appended ==
  ASSUME NEW S, NEW v \in Seq(S), NEW e \in S
  PROVE  /\ Append(v, e) \in Seq(S)
         /\ Grows(v, Append(v, e))
         /\ Len(Append(v, e)) = Len(v) + 1
         /\ Len(v) + 1 \in DOMAIN Append(v, e)
         /\ Append(v, e)[Len(v) + 1] = e
         /\ DOMAIN Append(v, e) = DOMAIN v \cup {Len(v) + 1}
BY DEF Grows

LEMMA GrowsSelf == \A v : Grows(v, v)
BY DEF Grows

LEMMA StoredGrows ==
  ASSUME NEW rs, NEW rs2, Grows(rs, rs2), NEW i, StoredIn(i, rs)
  PROVE  StoredIn(i, rs2)
BY DEF Grows, StoredIn

LEMMA TracedGrows ==
  ASSUME NEW w, NEW w2, NEW rs, NEW rs2, Grows(w, w2), Grows(rs, rs2),
         \A k \in DOMAIN rs : rs[k] \in DOMAIN w,
         NEW s, NEW c, Traced(s, c, w, rs)
  PROVE  Traced(s, c, w2, rs2)
<1>1. PICK k \in DOMAIN rs : OnStream(w[rs[k]], s, c)
  BY DEF Traced
<1>2. k \in DOMAIN rs2 /\ w2[rs2[k]] = w[rs[k]]
  BY DEF Grows
<1> QED BY <1>1, <1>2 DEF Traced

LEMMA ReportedGrows ==
  ASSUME NEW ls, NEW ls2, Grows(ls, ls2),
         NEW model, NEW metric, NEW c, NEW t, Reported(model, metric, c, t, ls)
  PROVE  Reported(model, metric, c, t, ls2)
BY DEF Grows, Reported

LEMMA BehindGrows ==
  ASSUME NEW ls, NEW ls2, Grows(ls, ls2), NEW model, NEW metric, NEW t
  PROVE  /\ Cardinality(Behind(model, metric, t, ls)) \in Nat
         /\ Cardinality(Behind(model, metric, t, ls))
              <= Cardinality(Behind(model, metric, t, ls2))
         /\ Cardinality(Behind(model, metric, t, ls2)) \in Nat
<1>1. Behind(model, metric, t, ls) \subseteq Behind(model, metric, t, ls2)
  BY ReportedGrows DEF Behind
<1>2. Behind(model, metric, t, ls2) \subseteq Orgs
  BY DEF Behind
<1>3. IsFiniteSet(Behind(model, metric, t, ls2))
  BY <1>2, QuorumAssumption, FS_Subset
<1> QED BY <1>1, <1>3, FS_Subset, FS_CardinalityType

LEMMA SoundGrows ==
  ASSUME NEW r, NEW t, NEW w, NEW w2, NEW rs, NEW rs2, NEW ls, NEW ls2,
         Grows(w, w2), Grows(rs, rs2), Grows(ls, ls2), Sound(r, w, rs, ls, t)
  PROVE  Sound(r, w2, rs2, ls2, t)
<1>1. CASE r.pc = "idle"
  BY <1>1 DEF Sound, InLoop, AtScorer
<1>2. CASE r.pc # "idle"
  <2>1. r.id \in DOMAIN w2 /\ w2[r.id] = w[r.id]
    BY <1>2 DEF Sound, Grows
  <2>2. r.pc \in InLoop => StoredIn(r.id, rs2)
    BY StoredGrows DEF Sound
  <2>3. r.pc = "candidate" =>
          Reported(w[r.id].model, r.todo[1].name, w[r.id].client, t, ls2)
    BY ReportedGrows DEF Sound
  <2>4. r.pc = "public" =>
          r.count <= Cardinality(Behind(w[r.id].model, r.todo[1].name, t, ls2))
    <3> DEFINE a == Cardinality(Behind(w[r.id].model, r.todo[1].name, t, ls))
               b == Cardinality(Behind(w[r.id].model, r.todo[1].name, t, ls2))
    <3>1. a \in Nat /\ b \in Nat /\ a <= b
      BY BehindGrows
    <3>2. r.pc = "public" => r.count <= a
      BY DEF Sound
    <3>3. r.count \in Nat
      BY DEF Sound, Request
    <3> QED BY <3>1, <3>2, <3>3
  <2> QED BY <2>1, <2>2, <2>3, <2>4 DEF Sound
<1> QED BY <1>1, <1>2

LEMMA IdleSound ==
  ASSUME NEW w, NEW rs, NEW ls, NEW t
  PROVE  Idle \in Request /\ Idle.pc = "idle" /\ Sound(Idle, w, rs, ls, t)
<1>1. Idle \in Request /\ Idle.pc = "idle"
  BY GatewayAssumption DEF Idle, Request
<1> QED BY <1>1 DEF Sound, InLoop, AtScorer

\* What a table may become.
LEMMA RecordType ==
  ASSUME NEW t \in Table, NEW o \in Orgs, NEW ts \in Nat
  PROVE  /\ Record(t, o, ts) \in Table
         /\ \A c \in Orgs : c # o => Record(t, o, ts)[c] = t[c]
         /\ Record(t, o, ts)[o] \in {t[o], ts}
BY DEF Record, Table

LEMMA EmptyType == EmptyTable \in Table /\ \A c \in Orgs : EmptyTable[c] = Absent
BY DEF EmptyTable, Table, Absent

-----------------------------------------------------------------------------
(* The request of a node.                                                  *)

\* The stream of the metric the loop is at belongs to the batch.
LEMMA AtMetric ==
  ASSUME Shape, Requests, NEW n \in Nodes, req[n].pc # "idle", req[n].todo # <<>>
  PROVE  /\ req[n].id \in DOMAIN wire /\ Batch(n) = wire[req[n].id]
         /\ Batch(n).client \in Orgs /\ Batch(n).fleet \in Fleets \cup {NoFleet}
         /\ Batch(n).model \in Models
         /\ Metric(n) = req[n].todo[1] /\ Metric(n).name \in Metrics
         /\ Stream(n) \in Streams
         /\ Stream(n).model = Batch(n).model /\ Stream(n).metric = Metric(n).name
         /\ Batch(n).fleet = NoFleet => OnStream(Batch(n), Stream(n), Batch(n).client)
         /\ Tail(req[n].todo) \in Seq(Pairs)
         /\ FromBatch(Tail(req[n].todo), Batch(n))
<1> DEFINE todo == req[n].todo
           b == wire[req[n].id]
<1>1. todo \in Seq(Pairs) /\ todo # <<>>
  BY DEF Requests, Request, Pairs
<1>2. req[n].id \in DOMAIN wire /\ FromBatch(todo, b)
  BY DEF Requests, Sound
<1>3. b \in Payload
  <2>1. wire \in Seq(Payload)
    BY DEF Shape
  <2> QED BY <1>2, <2>1
<1>4. Batch(n) = b /\ Metric(n) = Head(todo)
  BY DEF Batch, Metric
<1> HIDE DEF todo, b
<1>5. 1 \in DOMAIN todo /\ Head(todo) = todo[1] /\ todo[1] \in Pairs
  BY <1>1
<1>6. /\ Tail(todo) \in Seq(Pairs)
      /\ \A k \in DOMAIN Tail(todo) : k + 1 \in DOMAIN todo /\ Tail(todo)[k] = todo[k + 1]
  BY <1>1
<1>7. FromBatch(Tail(todo), b)
  BY <1>2, <1>6 DEF FromBatch
<1>8. /\ b.client \in Orgs /\ b.fleet \in Fleets \cup {NoFleet}
      /\ b.model \in Models /\ b.suite \in Suites
  BY <1>3 DEF Payload
<1>9. todo[1].name \in Metrics
  BY <1>5 DEF Pairs
<1> DEFINE s == [model |-> b.model, suite |-> b.suite, metric |-> todo[1].name]
<1>10. Stream(n) = s
  BY <1>4, <1>5 DEF Stream, StreamOf
<1>11. s \in Streams /\ s.model = b.model /\ s.suite = b.suite /\ s.metric = todo[1].name
  BY <1>8, <1>9 DEF Streams
<1> HIDE DEF s
<1>12. b.fleet = NoFleet => OnStream(b, s, b.client)
  <2>1. PICK j \in DOMAIN b.metrics : b.metrics[j] = todo[1]
    BY <1>2, <1>5 DEF FromBatch
  <2> QED BY <1>11, <2>1 DEF OnStream
<1>13. todo = req[n].todo /\ b = wire[req[n].id]
  BY DEF todo, b
<1> QED
  BY <1>2, <1>4, <1>5, <1>6, <1>7, <1>8, <1>9, <1>10, <1>11, <1>12, <1>13

\* Node n's request becomes r, no other changes.
Moves(n, r) ==
  /\ req' \in [Nodes -> Request]
  /\ req'[n] = r
  /\ \A m \in Nodes : m # n => req'[m] = req[m]

\* One request changes, the data only grow.
LEMMA OneRequest ==
  ASSUME Requests, NEW n \in Nodes, NEW r, Moves(n, r),
         Grows(wire, wire'), Grows(rows, rows'), Grows(local, local'),
         clock' = clock,
         Sound(r, wire', rows', local', clock')
  PROVE  Requests'
<1>1. ASSUME NEW m \in Nodes
      PROVE  Sound(req'[m], wire', rows', local', clock')
  <2>1. CASE m = n
    BY <2>1 DEF Moves
  <2>2. CASE m # n
    <3>1. req'[m] = req[m] /\ Sound(req[m], wire, rows, local, clock)
      BY <2>2 DEF Requests, Moves
    <3>2. Sound(req[m], wire', rows', local', clock)
      BY <3>1, SoundGrows
    <3> QED BY <3>1, <3>2
  <2> QED BY <2>1, <2>2
<1> QED BY <1>1 DEF Requests, Moves

\* No request changes.
LEMMA SameRequests ==
  ASSUME Requests, req' = req,
         Grows(wire, wire'), Grows(rows, rows'), Grows(local, local'),
         clock' = clock
  PROVE  Requests'
<1>1. ASSUME NEW m \in Nodes
      PROVE  Sound(req'[m], wire', rows', local', clock')
  <2>1. Sound(req[m], wire, rows, local, clock)
    BY DEF Requests
  <2> QED BY <2>1, SoundGrows
<1> QED BY <1>1 DEF Requests

LEMMA SetRequest ==
  ASSUME Requests, NEW n \in Nodes, NEW r \in Request, req' = [req EXCEPT ![n] = r]
  PROVE  Moves(n, r)
BY DEF Requests, Moves

\* Record updates of a request, field by field.
LEMMA RequestFields ==
  ASSUME NEW r \in Request, NEW pc, NEW todo
  PROVE  /\ [r EXCEPT !.pc = pc] =
              [pc |-> pc, id |-> r.id, todo |-> r.todo, count |-> r.count]
         /\ [[r EXCEPT !.pc = pc] EXCEPT !.todo = todo] =
              [pc |-> pc, id |-> r.id, todo |-> todo, count |-> r.count]
<1>1. r = [pc |-> r.pc, id |-> r.id, todo |-> r.todo, count |-> r.count]
  BY DEF Request
<1> DEFINE mid == [pc |-> pc, id |-> r.id, todo |-> r.todo, count |-> r.count]
<1>2. [r EXCEPT !.pc = pc] = mid
  BY <1>1
<1>3. [mid EXCEPT !.todo = todo] =
        [pc |-> pc, id |-> r.id, todo |-> todo, count |-> r.count]
  OBVIOUS
<1> HIDE DEF mid
<1>5. [[r EXCEPT !.pc = pc] EXCEPT !.todo = todo] = [mid EXCEPT !.todo = todo]
  BY <1>2
<1>6. mid = [pc |-> pc, id |-> r.id, todo |-> r.todo, count |-> r.count]
  BY DEF mid
<1>7. [r EXCEPT !.pc = pc] =
        [pc |-> pc, id |-> r.id, todo |-> r.todo, count |-> r.count]
  BY <1>2, <1>6
<1> QED BY <1>3, <1>5, <1>7

LEMMA GoToRequest ==
  ASSUME Requests, NEW n \in Nodes, NEW pc, GoTo(n, pc),
         pc \in {"idle", "save"} \cup InLoop
  PROVE  Moves(n, [pc |-> pc, id |-> req[n].id,
                   todo |-> req[n].todo, count |-> req[n].count])
<1> DEFINE r == [pc |-> pc, id |-> req[n].id,
                 todo |-> req[n].todo, count |-> req[n].count]
<1>1. req[n] \in Request /\ req \in [Nodes -> Request]
  BY DEF Requests
<1>2. r \in Request
  BY <1>1 DEF Request, InLoop
<1>3. [req[n] EXCEPT !.pc = pc] = r
  BY <1>1, RequestFields
<1> HIDE DEF r
<1>4. req' = [req EXCEPT ![n] = r]
  BY <1>3 DEF GoTo
<1>5. Moves(n, r)
  BY <1>2, <1>4, SetRequest
<1> QED BY <1>5 DEF r

LEMMA NextRequest ==
  ASSUME Requests, NEW n \in Nodes, NextMetric(n), Tail(req[n].todo) \in Seq(Pairs)
  PROVE  Moves(n, [pc |-> "metric", id |-> req[n].id,
                   todo |-> Tail(req[n].todo), count |-> req[n].count])
<1> DEFINE tail == Tail(req[n].todo)
           r == [pc |-> "metric", id |-> req[n].id,
                 todo |-> tail, count |-> req[n].count]
<1>1. req[n] \in Request /\ req \in [Nodes -> Request]
  BY DEF Requests
<1>2. r \in Request
  BY <1>1 DEF Request, Pairs
<1> DEFINE mid == [req[n] EXCEPT !.pc = "metric"]
<1>3. mid.todo = req[n].todo /\ [mid EXCEPT !.todo = tail] = r
  BY <1>1, RequestFields DEF Request
<1> HIDE DEF r, tail
<1>4. req' = [[req EXCEPT ![n] = mid] EXCEPT ![n] = [mid EXCEPT !.todo = tail]]
  BY <1>1, <1>3 DEF NextMetric, tail
<1>5. req' = [[req EXCEPT ![n] = mid] EXCEPT ![n] = r]
  BY <1>3, <1>4
<1> HIDE DEF mid
<1>6. req' = [req EXCEPT ![n] = r]
  BY <1>1, <1>5
<1>7. Moves(n, r)
  BY <1>2, <1>6, SetRequest
<1> QED BY <1>7 DEF r, tail

\* After NextMetric the request is sound.
LEMMA NextStep ==
  ASSUME Shape, Requests, NEW n \in Nodes, req[n].pc \in InLoop, req[n].todo # <<>>,
         NextMetric(n), Grows(wire, wire'), Grows(rows, rows'), Grows(local, local'),
         clock' = clock
  PROVE  Requests'
<1> DEFINE r == [pc |-> "metric", id |-> req[n].id,
                 todo |-> Tail(req[n].todo), count |-> req[n].count]
<1>2. req[n].pc # "idle"
  BY DEF InLoop
<1>3. /\ req[n].id \in DOMAIN wire
      /\ FromBatch(Tail(req[n].todo), wire[req[n].id])
      /\ Tail(req[n].todo) \in Seq(Pairs)
  BY <1>2, AtMetric
<1>1. Moves(n, r)
  BY <1>3, NextRequest
<1>4. StoredIn(req[n].id, rows)
  BY DEF Requests, Sound
<1>5. req[n].id \in 0 .. MaxBatches /\ req[n].count \in Nat
  BY DEF Requests, Request
<1>6. r \in Request
  BY <1>3, <1>5 DEF Request, Pairs
<1>7. r.pc = "metric" /\ r.id = req[n].id /\ r.todo = Tail(req[n].todo)
  OBVIOUS
<1> HIDE DEF r
<1>8. Sound(r, wire, rows, local, clock)
  BY <1>3, <1>4, <1>6, <1>7 DEF Sound, InLoop, AtScorer
<1>9. Sound(r, wire', rows', local', clock')
  BY <1>8, SoundGrows
<1> QED BY <1>1, <1>9, OneRequest

\* After GoTo the request is sound.
LEMMA GoToStep ==
  ASSUME Shape, Requests, NEW n \in Nodes, req[n].pc # "idle",
         NEW pc \in InLoop \ {"public"}, GoTo(n, pc),
         Grows(wire, wire'), Grows(rows, rows'), Grows(local, local'),
         clock' = clock,
         StoredIn(req[n].id, rows'),
         pc # "metric" => req[n].todo # <<>>,
         pc \in AtScorer => wire[req[n].id].fleet = NoFleet,
         pc = "candidate" =>
           Reported(wire[req[n].id].model, req[n].todo[1].name,
                    wire[req[n].id].client, clock, local')
  PROVE  Requests'
<1> DEFINE r == [pc |-> pc, id |-> req[n].id,
                 todo |-> req[n].todo, count |-> req[n].count]
<1>1. Moves(n, r)
  BY GoToRequest
<1>2. r \in Request
  BY <1>1 DEF Moves
<1>3. r.pc = pc /\ r.id = req[n].id /\ r.todo = req[n].todo
  OBVIOUS
<1> HIDE DEF r
<1>4. r.id \in DOMAIN wire /\ FromBatch(r.todo, wire[r.id])
  BY <1>3 DEF Requests, Sound
<1>5. r.id \in DOMAIN wire' /\ wire'[r.id] = wire[r.id]
  BY <1>4 DEF Grows
<1>6. Sound(r, wire', rows', local', clock')
  BY <1>2, <1>3, <1>4, <1>5 DEF Sound
<1> QED BY <1>1, <1>6, OneRequest

\* A request that ends is sound.
LEMMA IdleStep ==
  ASSUME Requests, NEW n \in Nodes, req' = [req EXCEPT ![n] = Idle],
         Grows(wire, wire'), Grows(rows, rows'), Grows(local, local'),
         clock' = clock
  PROVE  Requests'
BY IdleSound, SetRequest, OneRequest

\* A request that begins is sound.
LEMMA AdmitStep ==
  ASSUME Shape, Requests, NEW n \in Nodes, NEW i,
         Grows(wire, wire'), rows' = rows, local' = local, clock' = clock,
         i \in DOMAIN wire', wire'[i] \in Payload, i \in 0 .. MaxBatches,
         Admit(n, i, wire'[i])
  PROVE  Requests'
<1>1. Grows(rows, rows') /\ Grows(local, local')
  BY GrowsSelf
<1>2. CASE req' = req
  BY <1>1, <1>2, SameRequests
<1>3. CASE req' # req
  <2> DEFINE r == [pc |-> "save", id |-> i, todo |-> wire'[i].metrics, count |-> 0]
  <2>1. req' = [req EXCEPT ![n] = r]
    BY <1>3 DEF Admit
  <2>2. wire'[i].metrics \in Seq(Pairs)
    BY DEF Payload, Pairs
  <2>3. r \in Request
    BY <2>2 DEF Request, Pairs
  <2>4. r.pc = "save" /\ r.id = i /\ r.todo = wire'[i].metrics
    OBVIOUS
  <2> HIDE DEF r
  <2>5. FromBatch(r.todo, wire'[i])
    BY <2>4 DEF FromBatch
  <2>6. Sound(r, wire', rows', local', clock')
    BY <2>3, <2>4, <2>5 DEF Sound, InLoop, AtScorer
  <2> QED BY <1>1, <2>1, <2>3, <2>6, SetRequest, OneRequest
<1> QED BY <1>2, <1>3

-----------------------------------------------------------------------------
(* The data.                                                               *)

Data == Shape /\ Isolated /\ VotesReported /\ FilingsBacked

LEMMA SameData ==
  ASSUME Data, UNCHANGED <<wire, rows, local, public, agree, observers, clock>>
  PROVE  /\ Data'
         /\ Grows(wire, wire') /\ Grows(rows, rows') /\ Grows(local, local')
<1>1. Shape'
  BY DEF Data, Shape
<1>2. Isolated'
  BY DEF Data, Isolated
<1>3. VotesReported'
  BY DEF Data, VotesReported
<1>4. FilingsBacked'
  BY DEF Data, FilingsBacked
<1> QED BY <1>1, <1>2, <1>3, <1>4, GrowsSelf DEF Data

\* Batches and rows may come, and the tables stay.
LEMMA MoreRows ==
  ASSUME Data, Shape', Grows(wire, wire'), Grows(rows, rows'),
         UNCHANGED <<local, public, agree, observers, clock>>
  PROVE  Data'
<1>1. Isolated'
  <2> SUFFICES ASSUME NEW x \in Scorers, NEW s \in Streams, NEW c \in Orgs,
                      observers[x][s][c] # Absent \/ agree[x][s][c] # Absent
               PROVE  Traced(s, c, wire', rows')
    BY DEF Isolated
  <2>1. Traced(s, c, wire, rows)
    BY DEF Data, Isolated
  <2> QED BY <2>1, TracedGrows DEF Data, Shape
<1>2. VotesReported'
  BY DEF Data, VotesReported
<1>3. FilingsBacked'
  BY DEF Data, FilingsBacked
<1> QED BY <1>1, <1>2, <1>3 DEF Data

\* A local alert is added.
LEMMA MoreAlerts ==
  ASSUME Data, Shape', Grows(local, local'),
         UNCHANGED <<wire, rows, public, agree, observers, clock>>
  PROVE  Data'
<1>1. Isolated'
  BY DEF Data, Isolated
<1>2. VotesReported'
  BY ReportedGrows DEF Data, VotesReported
<1>3. FilingsBacked'
  <2> SUFFICES ASSUME NEW k \in DOMAIN public
               PROVE  /\ public[k].count >= Floor
                      /\ public[k].count <=
                           Cardinality(Behind(public[k].model, public[k].metric,
                                              public[k].at, local'))
    BY DEF FilingsBacked
  <2> DEFINE a == Cardinality(Behind(public[k].model, public[k].metric,
                                     public[k].at, local))
             b == Cardinality(Behind(public[k].model, public[k].metric,
                                     public[k].at, local'))
  <2>1. a \in Nat /\ b \in Nat /\ a <= b
    BY BehindGrows
  <2>2. public[k].count >= Floor /\ public[k].count <= a
    BY DEF Data, FilingsBacked
  <2>3. public[k].count \in Nat
    <3>1. public[k] \in Filing
      BY DEF Data, Shape
    <3> QED BY <3>1 DEF Filing
  <2> QED BY <2>1, <2>2, <2>3
<1> QED BY <1>1, <1>2, <1>3 DEF Data

\* A client is recorded on a stream it is traced on, with the time of its
\* alert when it votes.
LEMMA MoreVotes ==
  ASSUME Data, NEW x \in Scorers, NEW s \in Streams, NEW c \in Orgs,
         Traced(s, c, wire, rows),
         observers' = [observers EXCEPT ![x][s] = Record(@, c, clock)],
         \/ agree' = agree
         \/ /\ agree' = [agree EXCEPT ![x][s] = Record(@, c, clock)]
            /\ Reported(s.model, s.metric, c, clock, local),
         UNCHANGED <<wire, rows, local, public, clock>>
  PROVE  Data'
<1>1. agree \in Tables /\ observers \in Tables /\ clock \in Nat
  BY DEF Data, Shape
<1>2. agree[x][s] \in Table /\ observers[x][s] \in Table
  BY <1>1 DEF Tables
<1> DEFINE A == Record(agree[x][s], c, clock)
           O == Record(observers[x][s], c, clock)
<1>3. /\ A \in Table /\ O \in Table
      /\ A[c] \in {agree[x][s][c], clock}
      /\ \A d \in Orgs : d # c => A[d] = agree[x][s][d] /\ O[d] = observers[x][s][d]
  BY <1>1, <1>2, RecordType
<1>4. observers' = [observers EXCEPT ![x][s] = O]
  OBVIOUS
<1>5. agree' = agree \/ (agree' = [agree EXCEPT ![x][s] = A]
                          /\ Reported(s.model, s.metric, c, clock, local))
  OBVIOUS
<1> HIDE DEF A, O
<1>6. /\ observers' \in Tables
      /\ \A y \in Scorers, u \in Streams :
           observers'[y][u] = IF y = x /\ u = s THEN O ELSE observers[y][u]
  BY <1>1, <1>3, <1>4 DEF Tables
<1>7. agree' \in Tables
  BY <1>1, <1>3, <1>5 DEF Tables
<1>8. \A y \in Scorers, u \in Streams :
        \/ agree'[y][u] = agree[y][u]
        \/ /\ y = x /\ u = s /\ agree'[y][u] = A
           /\ Reported(s.model, s.metric, c, clock, local)
  <2>1. CASE agree' = agree
    BY <2>1
  <2>2. CASE agree' # agree
    <3>1. agree' = [agree EXCEPT ![x][s] = A]
          /\ Reported(s.model, s.metric, c, clock, local)
      BY <1>5, <2>2
    <3>2. \A y \in Scorers, u \in Streams :
            agree'[y][u] = IF y = x /\ u = s THEN A ELSE agree[y][u]
      BY <1>1, <1>3, <3>1 DEF Tables
    <3> QED BY <3>1, <3>2
  <2> QED BY <2>1, <2>2
<1>9. Shape'
  BY <1>6, <1>7 DEF Data, Shape
<1>10. Isolated'
  <2> SUFFICES ASSUME NEW y \in Scorers, NEW u \in Streams, NEW d \in Orgs,
                      observers'[y][u][d] # Absent \/ agree'[y][u][d] # Absent
               PROVE  Traced(u, d, wire, rows)
    BY DEF Isolated
  <2>1. CASE u = s /\ d = c
    BY <2>1
  <2>2. CASE ~ (u = s /\ d = c)
    <3>1. observers[y][u][d] # Absent \/ agree[y][u][d] # Absent
      BY <1>3, <1>6, <1>8, <2>2
    <3> QED BY <3>1 DEF Data, Isolated
  <2> QED BY <2>1, <2>2
<1>11. VotesReported'
  <2> SUFFICES ASSUME NEW y \in Scorers, NEW u \in Streams, NEW d \in Orgs,
                      agree'[y][u][d] # Absent
               PROVE  Reported(u.model, u.metric, d, agree'[y][u][d], local)
    BY DEF VotesReported
  <2>1. CASE agree'[y][u][d] = agree[y][u][d]
    BY <2>1 DEF Data, VotesReported
  <2>2. CASE agree'[y][u][d] # agree[y][u][d]
    BY <1>3, <1>8, <2>2
  <2> QED BY <2>1, <2>2
<1>12. FilingsBacked'
  BY DEF Data, FilingsBacked
<1> QED BY <1>9, <1>10, <1>11, <1>12 DEF Data

\* The candidates of a stream are dropped.
LEMMA FewerVotes ==
  ASSUME Data, NEW x \in Scorers, NEW s \in Streams,
         agree' = Dropped(x, s),
         UNCHANGED <<wire, rows, local, public, observers, clock>>
  PROVE  Data'
<1>1. agree \in Tables
  BY DEF Data, Shape
<1>2. /\ agree' \in Tables
      /\ \A y \in Scorers, u \in Streams :
           agree'[y][u] = IF y = x /\ u = s THEN EmptyTable ELSE agree[y][u]
  BY <1>1, EmptyType DEF Dropped, Tables
<1>3. \A y \in Scorers, u \in Streams, d \in Orgs :
        agree'[y][u][d] # Absent => agree'[y][u][d] = agree[y][u][d]
  BY <1>2, EmptyType
<1>4. Shape'
  BY <1>2 DEF Data, Shape
<1>5. Isolated'
  BY <1>3 DEF Data, Isolated
<1>6. VotesReported'
  BY <1>3 DEF Data, VotesReported
<1>7. FilingsBacked'
  BY DEF Data, FilingsBacked
<1> QED BY <1>4, <1>5, <1>6, <1>7 DEF Data

\* A public alert is filed.
LEMMA MoreFilings ==
  ASSUME Data, NEW n \in Filing, public' = Append(public, n), n.count >= Floor,
         n.count <= Cardinality(Behind(n.model, n.metric, n.at, local)),
         UNCHANGED <<wire, rows, local, agree, observers, clock>>
  PROVE  Data'
<1>1. public \in Seq(Filing)
  BY DEF Data, Shape
<1>2. /\ public' \in Seq(Filing)
      /\ DOMAIN public' = DOMAIN public \cup {Len(public) + 1}
      /\ public'[Len(public) + 1] = n
      /\ \A k \in DOMAIN public : public'[k] = public[k]
  BY <1>1, Appended DEF Grows
<1>3. Shape'
  BY <1>2 DEF Data, Shape
<1>4. FilingsBacked'
  BY <1>2 DEF Data, FilingsBacked
<1>5. Isolated' /\ VotesReported'
  BY DEF Data, Isolated, VotesReported
<1> QED BY <1>3, <1>4, <1>5 DEF Data

LEMMA ScorerType ==
  ASSUME NEW n \in Nodes PROVE ScorerOf(n) \in Scorers
BY DEF ScorerOf, Scorers

-----------------------------------------------------------------------------
(* The actions.                                                            *)

\* A request at a step of the loop, with a metric at hand.
LEMMA AtStep ==
  ASSUME Inv, NEW n \in Nodes, req[n].pc \in InLoop, req[n].todo # <<>>
  PROVE  /\ Shape /\ Requests /\ Data
         /\ req[n].pc # "idle"
         /\ StoredIn(req[n].id, rows)
         /\ Batch(n) = wire[req[n].id] /\ Batch(n).client \in Orgs
         /\ Batch(n).model \in Models /\ Batch(n).fleet \in Fleets \cup {NoFleet}
         /\ Metric(n) = req[n].todo[1] /\ Metric(n).name \in Metrics
         /\ Stream(n) \in Streams
         /\ Stream(n).model = Batch(n).model /\ Stream(n).metric = Metric(n).name
         /\ Batch(n).fleet = NoFleet =>
              Traced(Stream(n), Batch(n).client, wire, rows)
<1>1. Shape /\ Requests /\ Data /\ req[n].pc # "idle"
  BY DEF Inv, Data, InLoop
<1>2. StoredIn(req[n].id, rows)
  BY <1>1 DEF Requests, Sound
<1>3. Batch(n).fleet = NoFleet =>
        Traced(Stream(n), Batch(n).client, wire, rows)
  BY <1>1, <1>2, AtMetric DEF StoredIn, Traced
<1> QED BY <1>1, <1>2, <1>3, AtMetric

LEMMA ReceiveNewStep ==
  ASSUME Inv, NEW n \in Nodes, ReceiveNew(n)
  PROVE  Inv'
<1>1. PICK b \in Payloads : wire' = Append(wire, b) /\ Admit(n, Len(wire) + 1, b)
  BY DEF ReceiveNew
<1>2. /\ Len(wire) < MaxBatches
      /\ UNCHANGED <<rows, local, public, agree, observers, clock>>
  BY DEF ReceiveNew, dbVars, scorerVars, worldVars
<1>3. wire \in Seq(Payload) /\ b \in Payload /\ Len(wire) \in Nat /\ MaxBatches \in Nat
  BY GatewayAssumption DEF Inv, Shape
<1>4. /\ wire' \in Seq(Payload) /\ Grows(wire, wire')
      /\ Len(wire') = Len(wire) + 1
      /\ Len(wire) + 1 \in DOMAIN wire' /\ wire'[Len(wire) + 1] = b
      /\ DOMAIN wire' = DOMAIN wire \cup {Len(wire) + 1}
  BY <1>1, <1>3, Appended
<1>5. Shape'
  BY <1>2, <1>3, <1>4 DEF Inv, Shape
<1>6. Data'
  BY <1>2, <1>4, <1>5, MoreRows, GrowsSelf DEF Inv, Data
<1>7. Len(wire) + 1 \in 0 .. MaxBatches
  BY <1>2, <1>3
<1>8. Requests'
  BY <1>1, <1>2, <1>3, <1>4, <1>7, AdmitStep DEF Inv
<1> QED BY <1>6, <1>8 DEF Inv, Data

LEMMA RedeliverStep ==
  ASSUME Inv, NEW n \in Nodes, Redeliver(n)
  PROVE  Inv'
<1>1. PICK i \in DOMAIN wire : Admit(n, i, wire[i])
  BY DEF Redeliver
<1>2. UNCHANGED <<wire, rows, local, public, agree, observers, clock>>
  BY DEF Redeliver, dbVars, scorerVars, worldVars
<1>3. wire \in Seq(Payload) /\ Len(wire) <= MaxBatches /\ MaxBatches \in Nat
  BY GatewayAssumption DEF Inv, Shape
<1>4. i \in 0 .. MaxBatches /\ wire[i] \in Payload
  BY <1>3
<1>5. Admit(n, i, wire'[i]) /\ wire'[i] = wire[i] /\ DOMAIN wire' = DOMAIN wire
  BY <1>1, <1>2
<1>6. Requests'
  BY <1>2, <1>4, <1>5, AdmitStep, GrowsSelf DEF Inv
<1> QED BY <1>2, <1>6, SameData DEF Inv, Data

LEMMA SaveBatchStep ==
  ASSUME Inv, NEW n \in Nodes, SaveBatch(n)
  PROVE  Inv'
<1>1. /\ req[n].pc = "save" /\ rows' = Append(rows, req[n].id) /\ GoTo(n, "metric")
      /\ UNCHANGED <<wire, local, public, agree, observers, clock>>
  BY DEF SaveBatch, At, wireVars, scorerVars, worldVars
<1>2. req[n].id \in DOMAIN wire
  BY <1>1 DEF Inv, Requests, Sound
<1>3. rows \in Seq(Nat) /\ req[n].id \in Nat
  BY <1>2 DEF Inv, Shape
<1>4. /\ rows' \in Seq(Nat) /\ Grows(rows, rows')
      /\ Len(rows) + 1 \in DOMAIN rows' /\ rows'[Len(rows) + 1] = req[n].id
      /\ DOMAIN rows' = DOMAIN rows \cup {Len(rows) + 1}
  BY <1>1, <1>3, Appended
<1>5. \A k \in DOMAIN rows' : rows'[k] \in DOMAIN wire
  BY <1>2, <1>4 DEF Inv, Shape, Grows
<1>6. Shape'
  BY <1>1, <1>4, <1>5 DEF Inv, Shape
<1>7. Data'
  BY <1>1, <1>4, <1>6, MoreRows, GrowsSelf DEF Inv, Data
<1>8. StoredIn(req[n].id, rows')
  BY <1>4 DEF StoredIn
<1>9. Requests'
  BY <1>1, <1>4, <1>8, GoToStep, GrowsSelf DEF Inv, InLoop, AtScorer
<1> QED BY <1>7, <1>9 DEF Inv, Data

\* Scoring leads to the next metric or to the local alert.
LEMMA AfterScore ==
  ASSUME Inv, NEW n \in Nodes, req[n].pc = "metric", req[n].todo # <<>>,
         NextMetric(n) \/ GoTo(n, "local"),
         UNCHANGED <<wire, rows, local, clock>>
  PROVE  Requests'
<1>1. /\ Shape /\ Requests /\ req[n].pc \in InLoop /\ StoredIn(req[n].id, rows')
      /\ "local" \in InLoop \ {"public"} /\ "local" \notin AtScorer
      /\ req[n].pc # "idle"
  BY AtStep DEF InLoop, AtScorer
<1>2. Grows(wire, wire') /\ Grows(rows, rows') /\ Grows(local, local')
  BY GrowsSelf
<1>3. CASE NextMetric(n)
  BY <1>1, <1>2, <1>3, NextStep
<1>4. CASE GoTo(n, "local")
  BY <1>1, <1>2, <1>4, GoToStep
<1> QED BY <1>3, <1>4

LEMMA ScorePublicStep ==
  ASSUME Inv, NEW n \in Nodes, ScorePublic(n)
  PROVE  Inv'
<1>1. /\ req[n].pc = "metric" /\ req[n].todo # <<>> /\ Batch(n).fleet = NoFleet
      /\ observers' = [observers EXCEPT ![ScorerOf(n)][Stream(n)] =
                         Record(@, Batch(n).client, clock)]
      /\ NextMetric(n) \/ GoTo(n, "local")
      /\ UNCHANGED <<wire, rows, local, public, agree, clock>>
  BY DEF ScorePublic, At, IsPublic, wireVars, dbVars, worldVars
<1>2. /\ Data /\ Stream(n) \in Streams /\ Batch(n).client \in Orgs
      /\ Traced(Stream(n), Batch(n).client, wire, rows)
  BY <1>1, AtStep DEF InLoop
<1>3. Data'
  BY <1>1, <1>2, ScorerType, MoreVotes
<1>4. Requests'
  BY <1>1, AfterScore
<1> QED BY <1>3, <1>4 DEF Inv, Data

LEMMA ScorePrivateStep ==
  ASSUME Inv, NEW n \in Nodes, ScorePrivate(n)
  PROVE  Inv'
<1>1. /\ req[n].pc = "metric" /\ req[n].todo # <<>>
      /\ NextMetric(n) \/ GoTo(n, "local")
      /\ UNCHANGED <<wire, rows, local, public, agree, observers, clock>>
  BY DEF ScorePrivate, At, wireVars, dbVars, scorerVars, worldVars
<1>2. Data'
  BY <1>1, SameData DEF Inv, Data
<1>3. Requests'
  BY <1>1, AfterScore
<1> QED BY <1>2, <1>3 DEF Inv, Data

LEMMA SaveLocalAlertStep ==
  ASSUME Inv, NEW n \in Nodes, SaveLocalAlert(n)
  PROVE  Inv'
<1> DEFINE a == [model |-> Batch(n).model, metric |-> Metric(n).name,
                 client |-> Batch(n).client, fleet |-> Batch(n).fleet, at |-> clock]
<1>1. /\ req[n].pc = "local" /\ local' = Append(local, a)
      /\ GoTo(n, AfterLocalAlert(n))
      /\ UNCHANGED <<wire, rows, public, agree, observers, clock>>
  BY DEF SaveLocalAlert, At, wireVars, scorerVars, worldVars
<1>2. req[n].pc \in InLoop /\ req[n].todo # <<>>
  BY <1>1 DEF Inv, Requests, Sound, InLoop
<1>3. /\ Shape /\ Requests /\ Data /\ StoredIn(req[n].id, rows)
      /\ Batch(n) = wire[req[n].id] /\ Batch(n).client \in Orgs
      /\ Batch(n).model \in Models /\ Batch(n).fleet \in Fleets \cup {NoFleet}
      /\ Metric(n) = req[n].todo[1] /\ Metric(n).name \in Metrics
  BY <1>2, AtStep
<1>4. a \in Alert /\ local \in Seq(Alert)
  BY <1>3 DEF Shape, Alert
<1>5. /\ a.client = Batch(n).client /\ a.fleet = Batch(n).fleet
      /\ a.model = Batch(n).model /\ a.metric = Metric(n).name /\ a.at = clock
  OBVIOUS
<1> HIDE DEF a
<1>6. /\ local' \in Seq(Alert) /\ Grows(local, local')
      /\ Len(local) + 1 \in DOMAIN local' /\ local'[Len(local) + 1] = a
  BY <1>1, <1>4, Appended
<1>7. Shape'
  BY <1>1, <1>3, <1>6 DEF Shape
<1>8. Data'
  BY <1>1, <1>3, <1>6, <1>7, MoreAlerts
<1>9. Grows(wire, wire') /\ Grows(rows, rows')
  BY <1>1, GrowsSelf
<1>10. CASE Batch(n).fleet = NoFleet
  <2>1. AfterLocalAlert(n) = "candidate"
    BY <1>10 DEF AfterLocalAlert, IsPublic
  <2>2. Reported(wire[req[n].id].model, req[n].todo[1].name,
                 wire[req[n].id].client, clock, local')
    BY <1>3, <1>5, <1>6, <1>10 DEF Reported
  <2>3. Requests'
    BY <1>1, <1>2, <1>3, <1>6, <1>9, <1>10, <2>1, <2>2, GoToStep DEF InLoop
  <2> QED BY <1>8, <2>3 DEF Inv, Data
<1>11. CASE Batch(n).fleet # NoFleet
  <2>1. AfterLocalAlert(n) = "notify"
    BY <1>11 DEF AfterLocalAlert, IsPublic
  <2>2. Requests'
    BY <1>1, <1>2, <1>3, <1>6, <1>9, <2>1, GoToStep DEF InLoop, AtScorer
  <2> QED BY <1>8, <2>2 DEF Inv, Data
<1> QED BY <1>10, <1>11

LEMMA NotifyStep ==
  ASSUME Inv, NEW n \in Nodes, Notify(n)
  PROVE  Inv'
<1>1. /\ req[n].pc = "notify" /\ NextMetric(n)
      /\ UNCHANGED <<wire, rows, local, public, agree, observers, clock>>
  BY DEF Notify, At, wireVars, dbVars, scorerVars, worldVars
<1>2. req[n].pc \in InLoop /\ req[n].todo # <<>>
  BY <1>1 DEF Inv, Requests, Sound, InLoop
<1>3. Data' /\ Grows(wire, wire') /\ Grows(rows, rows') /\ Grows(local, local')
  BY <1>1, SameData DEF Inv, Data
<1>4. Requests'
  BY <1>1, <1>2, <1>3, NextStep DEF Inv
<1> QED BY <1>3, <1>4 DEF Inv, Data

\* A request at the scorer is about a public batch.
LEMMA AtScorerStep ==
  ASSUME Inv, NEW n \in Nodes, req[n].pc \in AtScorer
  PROVE  /\ req[n].pc \in InLoop /\ req[n].todo # <<>>
         /\ Batch(n).fleet = NoFleet /\ wire[req[n].id].fleet = NoFleet
         /\ Traced(Stream(n), Batch(n).client, wire, rows)
<1>1. req[n].pc \in InLoop /\ req[n].todo # <<>> /\ wire[req[n].id].fleet = NoFleet
  BY DEF Inv, Requests, Sound, InLoop, AtScorer
<1> QED BY <1>1, AtStep

LEMMA IngestCandidateStep ==
  ASSUME Inv, NEW n \in Nodes, IngestCandidate(n)
  PROVE  Inv'
<1>1. /\ req[n].pc = "candidate" /\ GoTo(n, "promote")
      /\ agree' = [agree EXCEPT ![ScorerOf(n)][Stream(n)] =
                     Record(@, Batch(n).client, clock)]
      /\ observers' = [observers EXCEPT ![ScorerOf(n)][Stream(n)] =
                         Record(@, Batch(n).client, clock)]
      /\ UNCHANGED <<wire, rows, local, public, clock>>
  BY DEF IngestCandidate, At, wireVars, dbVars, worldVars
<1>2. /\ req[n].pc \in InLoop /\ req[n].todo # <<>>
      /\ wire[req[n].id].fleet = NoFleet
      /\ Traced(Stream(n), Batch(n).client, wire, rows)
  BY <1>1, AtScorerStep DEF AtScorer
<1>3. /\ Shape /\ Requests /\ Data /\ StoredIn(req[n].id, rows)
      /\ req[n].pc # "idle"
      /\ Batch(n) = wire[req[n].id] /\ Batch(n).client \in Orgs
      /\ Metric(n) = req[n].todo[1] /\ Stream(n) \in Streams
      /\ Stream(n).model = Batch(n).model /\ Stream(n).metric = Metric(n).name
  BY <1>2, AtStep
<1>4. Reported(Stream(n).model, Stream(n).metric, Batch(n).client, clock, local)
  BY <1>1, <1>3 DEF Requests, Sound
<1>5. Data'
  BY <1>1, <1>2, <1>3, <1>4, ScorerType, MoreVotes
<1>6. Grows(wire, wire') /\ Grows(rows, rows') /\ Grows(local, local')
  BY <1>1, GrowsSelf
<1>7. "promote" \in InLoop \ {"public"} /\ StoredIn(req[n].id, rows')
  BY <1>1, <1>3 DEF InLoop
<1>8. Requests'
  BY <1>1, <1>2, <1>3, <1>6, <1>7, GoToStep
<1> QED BY <1>5, <1>8 DEF Inv, Data

\* Whoever the promotion counts has an alert behind it.
LEMMA VotersBehind ==
  ASSUME Data, NEW x \in Scorers, NEW s \in Streams,
         QuorumMet(observers[x][s], agree[x][s], clock)
  PROVE  LET k == Cardinality(LiveOrgs(agree[x][s], clock)) IN
           /\ k \in Nat /\ k >= Floor
           /\ k <= Cardinality(Behind(s.model, s.metric, clock, local))
<1> DEFINE V == LiveOrgs(agree[x][s], clock)
           B == Behind(s.model, s.metric, clock, local)
<1>1. agree[x][s] \in Table
  BY DEF Data, Shape, Tables
<1>2. V \subseteq B
  <2> SUFFICES ASSUME NEW c \in V PROVE c \in B
    OBVIOUS
  <2>1. /\ c \in Orgs /\ agree[x][s][c] # Absent
        /\ clock - TTL <= agree[x][s][c] /\ agree[x][s][c] <= clock
    BY DEF LiveOrgs
  <2>2. agree[x][s][c] \in Nat
    BY <1>1, <2>1 DEF Table
  <2>3. Reported(s.model, s.metric, c, agree[x][s][c], local)
    BY <2>1 DEF Data, VotesReported
  <2> QED BY <2>1, <2>2, <2>3 DEF Behind
<1>3. IsFiniteSet(B)
  <2>1. B \subseteq Orgs
    BY DEF Behind
  <2> QED BY <2>1, QuorumAssumption, FS_Subset
<1>4. Cardinality(V) <= Cardinality(B)
  BY <1>2, <1>3, FS_Subset
<1>5. Cardinality(V) \in Nat /\ Cardinality(V) >= Floor
  BY LiveOrgsFinite, QuorumMetBounds
<1> QED BY <1>4, <1>5

LEMMA PromoteStep ==
  ASSUME Inv, NEW n \in Nodes, Promote(n)
  PROVE  Inv'
<1> DEFINE x == ScorerOf(n)
           s == Stream(n)
           k == Cardinality(LiveOrgs(agree[x][s], clock))
<1>1. /\ req[n].pc = "promote"
      /\ UNCHANGED <<wire, rows, local, public, observers, clock>>
  BY DEF Promote, At, wireVars, dbVars, worldVars
<1>2. /\ req[n].pc \in InLoop /\ req[n].todo # <<>>
      /\ wire[req[n].id].fleet = NoFleet
  BY <1>1, AtScorerStep DEF AtScorer
<1>3. /\ Shape /\ Requests /\ Data /\ StoredIn(req[n].id, rows)
      /\ Batch(n) = wire[req[n].id] /\ Metric(n) = req[n].todo[1]
      /\ s \in Streams /\ x \in Scorers
      /\ s.model = Batch(n).model /\ s.metric = Metric(n).name
  BY <1>2, AtStep, ScorerType
<1>4. Grows(wire, wire') /\ Grows(rows, rows') /\ Grows(local, local')
  BY <1>1, GrowsSelf
<1>5. CASE QuorumMet(observers[x][s], agree[x][s], clock)
  <2>1. /\ agree' = Dropped(x, s)
        /\ req' = [req EXCEPT ![n].pc = "public", ![n].count = k]
    BY <1>5 DEF Promote
  <2>2. Data'
    BY <1>1, <1>3, <2>1, FewerVotes
  <2>3. /\ k \in Nat /\ k >= Floor
        /\ k <= Cardinality(Behind(s.model, s.metric, clock, local))
    BY <1>3, <1>5, VotersBehind
  <2> DEFINE r == [pc |-> "public", id |-> req[n].id,
                   todo |-> req[n].todo, count |-> k]
  <2> HIDE DEF k
  <2>4. req[n] \in Request /\ req \in [Nodes -> Request]
    BY <1>3 DEF Requests
  <2>5. r \in Request
    BY <2>3, <2>4 DEF Request
  <2> DEFINE mid == [req[n] EXCEPT !.pc = "public"]
  <2>6. [mid EXCEPT !.count = k] = r
    <3>1. mid = [pc |-> "public", id |-> req[n].id,
                 todo |-> req[n].todo, count |-> req[n].count]
      BY <2>4, RequestFields
    <3> HIDE DEF mid
    <3> QED BY <3>1
  <2>7. req' = [[req EXCEPT ![n] = mid] EXCEPT ![n] = [mid EXCEPT !.count = k]]
    BY <2>1, <2>4
  <2>8. r.pc = "public" /\ r.id = req[n].id /\ r.todo = req[n].todo /\ r.count = k
    OBVIOUS
  <2> HIDE DEF r
  <2>9. req' = [[req EXCEPT ![n] = mid] EXCEPT ![n] = r]
    BY <2>6, <2>7
  <2> HIDE DEF mid
  <2>10. req' = [req EXCEPT ![n] = r]
    BY <2>4, <2>9
  <2>11. req[n].id \in DOMAIN wire /\ FromBatch(req[n].todo, wire[req[n].id])
    BY <1>1, <1>3 DEF Requests, Sound
  <2>12. Sound(r, wire, rows, local, clock)
    BY <1>2, <1>3, <2>3, <2>5, <2>8, <2>11 DEF Sound
  <2>13. Sound(r, wire', rows', local', clock')
    BY <1>1, <2>12
  <2>14. Requests'
    BY <1>1, <1>3, <1>4, <2>5, <2>10, <2>13, SetRequest, OneRequest
  <2> QED BY <2>2, <2>14 DEF Inv, Data
<1>6. CASE ~ QuorumMet(observers[x][s], agree[x][s], clock)
  <2>1. NextMetric(n) /\ agree' = agree
    BY <1>6 DEF Promote
  <2>2. Data'
    BY <1>1, <1>3, <2>1, SameData
  <2>3. Requests'
    BY <1>1, <1>2, <1>3, <1>4, <2>1, NextStep
  <2> QED BY <2>2, <2>3 DEF Inv, Data
<1> QED BY <1>5, <1>6

LEMMA SavePublicAlertStep ==
  ASSUME Inv, NEW n \in Nodes, SavePublicAlert(n)
  PROVE  Inv'
<1> DEFINE p == [model |-> Batch(n).model, metric |-> Metric(n).name,
                 count |-> req[n].count, at |-> clock]
<1>1. /\ req[n].pc = "public" /\ GoTo(n, "clear")
      /\ public' = Append(public, p)
      /\ UNCHANGED <<wire, rows, local, agree, observers, clock>>
  BY DEF SavePublicAlert, Filed, At, wireVars, scorerVars, worldVars
<1>2. /\ req[n].pc \in InLoop /\ req[n].todo # <<>>
      /\ wire[req[n].id].fleet = NoFleet
  BY <1>1, AtScorerStep DEF AtScorer
<1>3. /\ Shape /\ Requests /\ Data /\ StoredIn(req[n].id, rows)
      /\ req[n].pc # "idle"
      /\ Batch(n) = wire[req[n].id] /\ Batch(n).model \in Models
      /\ Metric(n) = req[n].todo[1] /\ Metric(n).name \in Metrics
  BY <1>2, AtStep
<1>4. /\ req[n].count >= Floor
      /\ req[n].count <= Cardinality(Behind(Batch(n).model, Metric(n).name, clock, local))
  BY <1>1, <1>3 DEF Requests, Sound
<1>5. p \in Filing
  BY <1>3 DEF Filing, Shape, Requests, Request
<1>6. /\ p.model = Batch(n).model /\ p.metric = Metric(n).name
      /\ p.count = req[n].count /\ p.at = clock
  OBVIOUS
<1> HIDE DEF p
<1>7. Data'
  BY <1>1, <1>3, <1>4, <1>5, <1>6, MoreFilings
<1>8. Grows(wire, wire') /\ Grows(rows, rows') /\ Grows(local, local')
  BY <1>1, GrowsSelf
<1>9. "clear" \in InLoop \ {"public"} /\ StoredIn(req[n].id, rows')
  BY <1>1, <1>3 DEF InLoop
<1>10. Requests'
  BY <1>1, <1>2, <1>3, <1>8, <1>9, GoToStep
<1> QED BY <1>7, <1>10 DEF Inv, Data

LEMMA ClearCandidatesStep ==
  ASSUME Inv, NEW n \in Nodes, ClearCandidates(n)
  PROVE  Inv'
<1>1. /\ req[n].pc = "clear" /\ NextMetric(n)
      /\ agree' = Dropped(ScorerOf(n), Stream(n))
      /\ UNCHANGED <<wire, rows, local, public, observers, clock>>
  BY DEF ClearCandidates, At, wireVars, dbVars, worldVars
<1>2. req[n].pc \in InLoop /\ req[n].todo # <<>>
  BY <1>1, AtScorerStep DEF AtScorer
<1>3. Shape /\ Requests /\ Data /\ Stream(n) \in Streams
  BY <1>2, AtStep
<1>4. Data'
  BY <1>1, <1>3, ScorerType, FewerVotes
<1>5. Grows(wire, wire') /\ Grows(rows, rows') /\ Grows(local, local')
  BY <1>1, GrowsSelf
<1>6. Requests'
  BY <1>1, <1>2, <1>3, <1>5, NextStep
<1> QED BY <1>4, <1>6 DEF Inv, Data

\* A request that is answered leaves the data alone.
LEMMA EndStep ==
  ASSUME Inv, NEW n \in Nodes, Respond(n) \/ Raise(n)
  PROVE  Inv'
<1>1. /\ req' = [req EXCEPT ![n] = Idle]
      /\ UNCHANGED <<wire, rows, local, public, agree, observers, clock>>
  BY DEF Respond, Raise, dbVars, scorerVars, worldVars
<1>2. Data' /\ Grows(wire, wire') /\ Grows(rows, rows') /\ Grows(local, local')
  BY <1>1, SameData DEF Inv, Data
<1>3. Requests'
  BY <1>1, <1>2, IdleStep DEF Inv
<1> QED BY <1>2, <1>3 DEF Inv, Data

\* A process that stops takes its own scorer along.
LEMMA StopStep ==
  ASSUME Inv, NEW n \in Nodes, Stop(n)
  PROVE  Inv'
<1>1. /\ req' = [req EXCEPT ![n] = Idle]
      /\ UNCHANGED <<wire, rows, local, public, clock>>
  BY DEF Stop, wireVars, dbVars
<1>2. Grows(wire, wire') /\ Grows(rows, rows') /\ Grows(local, local')
  BY <1>1, GrowsSelf
<1>3. Requests'
  BY <1>1, <1>2, IdleStep DEF Inv
<1>4. CASE SharedScorer
  <2>1. UNCHANGED <<agree, observers>>
    BY <1>4 DEF Stop, scorerVars
  <2> QED BY <1>1, <1>3, <2>1, SameData DEF Inv, Data
<1>5. CASE ~ SharedScorer
  <2> DEFINE none == [s \in Streams |-> EmptyTable]
  <2>1. /\ agree' = [agree EXCEPT ![n] = none]
        /\ observers' = [observers EXCEPT ![n] = none]
    BY <1>5 DEF Stop
  <2>2. none \in [Streams -> Table] /\ \A s \in Streams, c \in Orgs : none[s][c] = Absent
    BY EmptyType
  <2>3. agree \in Tables /\ observers \in Tables
    BY DEF Inv, Shape
  <2> HIDE DEF none
  <2>4. /\ agree' \in Tables /\ observers' \in Tables
        /\ \A x \in Scorers : /\ agree'[x] = IF x = n THEN none ELSE agree[x]
                              /\ observers'[x] = IF x = n THEN none ELSE observers[x]
    BY <2>1, <2>2, <2>3 DEF Tables
  <2>5. \A x \in Scorers, s \in Streams, c \in Orgs :
          /\ agree'[x][s][c] # Absent => agree'[x][s][c] = agree[x][s][c]
          /\ observers'[x][s][c] # Absent => observers'[x][s][c] = observers[x][s][c]
    BY <2>2, <2>4
  <2>6. Shape'
    BY <1>1, <2>4 DEF Inv, Shape
  <2>7. Isolated'
    BY <1>1, <2>5 DEF Inv, Isolated
  <2>8. VotesReported'
    BY <1>1, <2>5 DEF Inv, VotesReported
  <2>9. FilingsBacked'
    BY <1>1 DEF Inv, FilingsBacked
  <2> QED BY <1>3, <2>6, <2>7, <2>8, <2>9 DEF Inv
<1> QED BY <1>4, <1>5

\* Restarts, registrations and dispatches touch neither requests nor data.
LEMMA AsideStep ==
  ASSUME Inv, UNCHANGED <<req, wire, rows, local, public, agree, observers, clock>>
  PROVE  Inv'
<1>1. Data' /\ Grows(wire, wire') /\ Grows(rows, rows') /\ Grows(local, local')
  BY SameData DEF Inv, Data
<1>2. Requests'
  BY <1>1, SameRequests DEF Inv
<1> QED BY <1>1, <1>2 DEF Inv, Data

\* Time passes between requests only.
LEMMA TickStep ==
  ASSUME Inv, Tick
  PROVE  Inv'
<1>1. /\ \A n \in Nodes : req[n].pc = "idle"
      /\ clock' = clock + 1
      /\ UNCHANGED <<req, wire, rows, local, public, agree, observers>>
  BY DEF Tick, wireVars, dbVars, scorerVars, processVars
<1>2. Shape'
  BY <1>1 DEF Inv, Shape
<1>3. Requests'
  BY <1>1 DEF Inv, Requests, Sound, InLoop, AtScorer
<1>4. Isolated' /\ VotesReported' /\ FilingsBacked'
  BY <1>1 DEF Inv, Isolated, VotesReported, FilingsBacked
<1> QED BY <1>2, <1>3, <1>4 DEF Inv

-----------------------------------------------------------------------------
(* The theorems.                                                           *)

LEMMA InitInv == Init => Inv
<1> SUFFICES ASSUME Init PROVE Inv
  OBVIOUS
<1>1. /\ wire = <<>> /\ rows = <<>> /\ local = <<>> /\ public = <<>> /\ clock = 1
      /\ agree = [x \in Scorers |-> [s \in Streams |-> EmptyTable]]
      /\ observers = agree
      /\ req = [n \in Nodes |-> Idle]
  BY DEF Init
<1>2. agree \in Tables /\ observers \in Tables
  BY <1>1, EmptyType DEF Tables
<1>3. \A x \in Scorers, s \in Streams, c \in Orgs :
        observers[x][s][c] = Absent /\ agree[x][s][c] = Absent
  BY <1>1, EmptyType
<1>4. MaxBatches \in Nat
  BY GatewayAssumption
<1>5. Shape
  BY <1>1, <1>2, <1>4 DEF Shape
<1>6. Requests
  BY <1>1, IdleSound DEF Requests
<1>7. Isolated /\ VotesReported /\ FilingsBacked
  BY <1>1, <1>3 DEF Isolated, VotesReported, FilingsBacked
<1> QED BY <1>5, <1>6, <1>7 DEF Inv

LEMMA NextInv == Inv /\ [Next]_vars => Inv'
<1> SUFFICES ASSUME Inv, [Next]_vars PROVE Inv'
  OBVIOUS
<1>1. CASE Tick
  BY <1>1, TickStep
<1>2. ASSUME NEW n \in Nodes, ReceiveNew(n) \/ Redeliver(n) \/ Handle(n)
      PROVE  Inv'
  BY <1>2, ReceiveNewStep, RedeliverStep, SaveBatchStep, ScorePublicStep,
     ScorePrivateStep, SaveLocalAlertStep, NotifyStep, IngestCandidateStep,
     PromoteStep, SavePublicAlertStep, ClearCandidatesStep, EndStep DEF Handle
<1>3. ASSUME NEW n \in Nodes, Raise(n) \/ Stop(n)
      PROVE  Inv'
  BY <1>3, EndStep, StopStep
<1>4. ASSUME NEW n \in Nodes, Start(n)
      PROVE  Inv'
  BY <1>4, AsideStep DEF Start, wireVars, dbVars, scorerVars, worldVars
<1>5. ASSUME NEW n \in Nodes, NEW f \in Fleets, RegisterWebhook(n, f) \/ Dispatch(n, f)
      PROVE  Inv'
  BY <1>5, AsideStep
     DEF RegisterWebhook, Dispatch, wireVars, dbVars, scorerVars, processVars, worldVars
<1>6. CASE UNCHANGED vars
  BY <1>6, AsideStep
     DEF vars, wireVars, dbVars, scorerVars, processVars, worldVars
<1> QED BY <1>1, <1>2, <1>3, <1>4, <1>5, <1>6 DEF Next

\* The inductive invariant of POST /v1/signals: what the requests under way
\* have stored, who is recorded in the scorer, and what stands behind every
\* vote and every filed alert.
THEOREM Invariance == Spec => []Inv
BY InitInv, NextInv, PTL DEF Spec

\* Every public alert in the database counts at least the floor, and no more
\* clients than have a stored public alert of their own on the same model and
\* metric within the TTL, whatever stops, fails or is sent again.
THEOREM BackedCorrect == Spec => []PublicAlertsBacked
<1>1. Inv => PublicAlertsBacked
  <2> SUFFICES ASSUME Inv, NEW k \in DOMAIN public
               PROVE  /\ public[k].count >= Floor
                      /\ public[k].count <= Cardinality(Reporters(public[k]))
    BY DEF PublicAlertsBacked
  <2> DEFINE p == public[k]
             B == Behind(p.model, p.metric, p.at, local)
             R == Reporters(p)
  <2>1. p.count >= Floor /\ p.count <= Cardinality(B)
    BY DEF Inv, FilingsBacked
  <2>2. p.count \in Nat
    <3>1. p \in Filing
      BY DEF Inv, Shape
    <3> QED BY <3>1 DEF Filing
  <2>3. B \subseteq R /\ R \subseteq Orgs
    BY DEF Behind, Reported, Reporters
  <2>4. IsFiniteSet(B) /\ IsFiniteSet(R)
    BY <2>3, QuorumAssumption, FS_Subset
  <2>5. /\ Cardinality(B) \in Nat /\ Cardinality(R) \in Nat
        /\ Cardinality(B) <= Cardinality(R)
    BY <2>3, <2>4, FS_Subset, FS_CardinalityType
  <2> QED BY <2>1, <2>2, <2>5
<1> QED BY <1>1, Invariance, PTL

\* Private traffic never reaches the quorum: whoever a scorer records on a
\* stream has a stored public batch of its own on that stream.
THEOREM IsolationCorrect == Spec => []PrivateIsolation
<1>1. Inv => PrivateIsolation
  <2> SUFFICES ASSUME Inv, NEW x \in Scorers, NEW s \in Streams, NEW c \in Orgs,
                      observers[x][s][c] # Absent \/ agree[x][s][c] # Absent
               PROVE  \E i \in ToSet(rows) :
                        wire[i].fleet = NoFleet /\ wire[i].client = c /\ Carries(i, s)
    BY DEF PrivateIsolation
  <2>1. Traced(s, c, wire, rows)
    BY DEF Inv, Isolated
  <2>2. PICK k \in DOMAIN rows : OnStream(wire[rows[k]], s, c)
    BY <2>1 DEF Traced
  <2>3. rows[k] \in ToSet(rows)
    BY DEF ToSet
  <2> QED BY <2>2, <2>3 DEF OnStream, Carries
<1> QED BY <1>1, Invariance, PTL

-----------------------------------------------------------------------------
(* One process: nothing is stored twice.                                   *)

Once ==
  /\ answered \in [1 .. MaxBatches -> SUBSET Nat]
  /\ \A j, k \in DOMAIN rows : rows[j] = rows[k] => j = k
  /\ \A n \in Nodes : req[n].pc = "save" => ~ HasBatch(req[n].id)
  /\ \A i \in 1 .. MaxBatches : answered[i] \cap {202, 409} # {} => HasBatch(i)

\* No request comes to the save, and nothing is stored or answered.
LEMMA OnceSame ==
  ASSUME Once, rows' = rows, answered' = answered,
         \A n \in Nodes :
           req'[n].pc = "save" => req[n].pc = "save" /\ req'[n].id = req[n].id
  PROVE  Once'
BY DEF Once, HasBatch

\* One request leaves the save for a step of the loop.
LEMMA OnceLoop ==
  ASSUME Once, Requests, NEW n \in Nodes, rows' = rows, answered' = answered,
         \/ NextMetric(n)
         \/ \E pc \in InLoop : GoTo(n, pc)
         \/ req' = [req EXCEPT ![n] = Idle]
         \/ \E k \in Nat : req' = [req EXCEPT ![n].pc = "public", ![n].count = k]
         \/ req' = req
  PROVE  Once'
<1>1. req \in [Nodes -> Request]
  BY DEF Requests
<1>2. \A m \in Nodes : m # n => req'[m] = req[m]
  BY <1>1 DEF NextMetric, GoTo
<1>3. req'[n].pc # "save" \/ req' = req
  BY <1>1 DEF NextMetric, GoTo, InLoop, Idle, Request
<1> QED BY <1>2, <1>3, OnceSame

LEMMA OnceAnswer ==
  ASSUME Once, NEW n \in Nodes, NEW i \in 1 .. MaxBatches, NEW code \in Nat,
         Answer(i, code), code \in {202, 409} => HasBatch(i),
         rows' = rows,
         \A m \in Nodes :
           req'[m].pc = "save" => req[m].pc = "save" /\ req'[m].id = req[m].id
  PROVE  Once'
<1>1. answered' = [answered EXCEPT ![i] = @ \cup {code}]
  BY DEF Answer
<1>2. /\ answered' \in [1 .. MaxBatches -> SUBSET Nat]
      /\ \A j \in 1 .. MaxBatches :
           answered'[j] = IF j = i THEN answered[i] \cup {code} ELSE answered[j]
  BY <1>1 DEF Once
<1>3. \A j \in 1 .. MaxBatches : answered'[j] \cap {202, 409} # {} => HasBatch(j)
  BY <1>2 DEF Once
<1> QED BY <1>2, <1>3 DEF Once, HasBatch

LEMMA OnceAdmit ==
  ASSUME Once, Requests, NEW n \in Nodes, NEW i \in 1 .. MaxBatches, NEW b,
         Admit(n, i, b), rows' = rows
  PROVE  Once'
<1>1. req \in [Nodes -> Request]
  BY DEF Requests
<1>2. CASE b.form = "unsigned"
  BY <1>2, OnceAnswer DEF Admit
<1>3. CASE b.form # "unsigned" /\ b.form = "malformed"
  BY <1>3, OnceAnswer DEF Admit
<1>4. CASE b.form # "unsigned" /\ b.form # "malformed" /\ HasBatch(i)
  BY <1>4, OnceAnswer DEF Admit
<1>5. CASE b.form # "unsigned" /\ b.form # "malformed" /\ ~ HasBatch(i)
  <2> DEFINE r == [pc |-> "save", id |-> i, todo |-> b.metrics, count |-> 0]
  <2>1. req' = [req EXCEPT ![n] = r] /\ answered' = answered
    BY <1>5 DEF Admit
  <2>2. r.id = i
    OBVIOUS
  <2> HIDE DEF r
  <2>3. \A m \in Nodes : req'[m] = IF m = n THEN r ELSE req[m]
    BY <1>1, <2>1
  <2> QED BY <1>5, <2>1, <2>2, <2>3 DEF Once, HasBatch
<1> QED BY <1>2, <1>3, <1>4, <1>5

LEMMA OnceSave ==
  ASSUME Inv, Once, NEW n \in Nodes, Nodes = {n}, SaveBatch(n)
  PROVE  Once'
<1>1. /\ req[n].pc = "save" /\ rows' = Append(rows, req[n].id)
      /\ answered' = answered /\ GoTo(n, "metric")
  BY DEF SaveBatch, At, wireVars
<1>2. req[n].id \in Nat /\ rows \in Seq(Nat)
  BY DEF Inv, Shape, Requests, Request
<1>3. /\ Grows(rows, rows') /\ rows'[Len(rows) + 1] = req[n].id
      /\ Len(rows) + 1 \in DOMAIN rows'
      /\ DOMAIN rows' = DOMAIN rows \cup {Len(rows) + 1}
  BY <1>1, <1>2, Appended
<1>4. \A k \in DOMAIN rows : rows[k] # req[n].id
  BY <1>1 DEF Once, HasBatch
<1>5. \A j, k \in DOMAIN rows' : rows'[j] = rows'[k] => j = k
  BY <1>3, <1>4 DEF Once, Grows
<1>6. \A i : HasBatch(i) => HasBatch(i)'
  BY <1>3 DEF HasBatch, Grows
<1>7. req'[n].pc # "save"
  BY <1>1 DEF GoTo, Inv, Requests, Request
<1> QED BY <1>1, <1>5, <1>6, <1>7 DEF Once

\* With one gateway process a batch is stored once, however often and whenever
\* it is sent again, and whoever was told 202 or 409 finds it stored.
THEOREM OnceCorrect ==
  ASSUME NEW node, Nodes = {node}
  PROVE  Spec => []StoredOnce
<1>1. Init => Once
  BY DEF Init, Once, HasBatch, Idle
<1>2. Inv /\ Once /\ [Next]_vars => Once'
  <2> SUFFICES ASSUME Inv, Once, [Next]_vars PROVE Once'
    OBVIOUS
  <2> USE DEF wireVars, dbVars, scorerVars, processVars, worldVars, historyVars
  <2>1. Requests /\ Shape
    BY DEF Inv
  <2>2. ASSUME NEW n \in Nodes, ReceiveNew(n) PROVE Once'
    <3>1. Len(wire) \in Nat /\ Len(wire) < MaxBatches /\ MaxBatches \in Nat
      BY <2>1, <2>2, GatewayAssumption DEF ReceiveNew, Shape
    <3>2. Len(wire) + 1 \in 1 .. MaxBatches
      BY <3>1
    <3> QED BY <2>1, <2>2, <3>2, OnceAdmit DEF ReceiveNew
  <2>3. ASSUME NEW n \in Nodes, Redeliver(n) PROVE Once'
    <3>1. DOMAIN wire \subseteq 1 .. MaxBatches
      BY <2>1, GatewayAssumption DEF Shape
    <3> QED BY <2>1, <2>3, <3>1, OnceAdmit DEF Redeliver
  <2>4. ASSUME NEW n \in Nodes, SaveBatch(n) PROVE Once'
    BY <2>4, OnceSave
  <2>5. ASSUME NEW n \in Nodes,
               ScorePublic(n) \/ ScorePrivate(n) \/ SaveLocalAlert(n) \/ Notify(n)
        PROVE  Once'
    BY <2>1, <2>5, OnceLoop
       DEF ScorePublic, ScorePrivate, SaveLocalAlert, Notify, AfterLocalAlert, InLoop
  <2>6. ASSUME NEW n \in Nodes,
               IngestCandidate(n) \/ SavePublicAlert(n) \/ ClearCandidates(n)
        PROVE  Once'
    BY <2>1, <2>6, OnceLoop DEF IngestCandidate, SavePublicAlert, ClearCandidates, InLoop
  <2>7. ASSUME NEW n \in Nodes, Promote(n) PROVE Once'
    BY <2>1, <2>7, LiveOrgsFinite, OnceLoop DEF Promote
  <2>8. ASSUME NEW n \in Nodes, Respond(n) PROVE Once'
    <3>1. HasBatch(req[n].id)
      BY <2>1, <2>8 DEF Requests, Sound, InLoop, StoredIn, HasBatch, Respond, At
    <3>2. req[n].id \in 1 .. MaxBatches
      BY <2>1, <2>8, GatewayAssumption DEF Requests, Sound, Shape, Respond, At
    <3>3. req \in [Nodes -> Request] /\ req' = [req EXCEPT ![n] = Idle]
      BY <2>1, <2>8 DEF Requests, Respond
    <3> QED BY <2>8, <3>1, <3>2, <3>3, OnceAnswer DEF Respond, Idle
  <2>9. ASSUME NEW n \in Nodes, Raise(n) PROVE Once'
    <3>1. req[n].id \in 1 .. MaxBatches
      BY <2>1, <2>9, GatewayAssumption DEF Requests, Sound, Shape, Raise
    <3>2. req \in [Nodes -> Request] /\ req' = [req EXCEPT ![n] = Idle]
      BY <2>1, <2>9 DEF Requests, Raise
    <3> QED BY <2>9, <3>1, <3>2, OnceAnswer DEF Raise, Idle
  <2>10. ASSUME NEW n \in Nodes, Stop(n) PROVE Once'
    BY <2>1, <2>10, OnceLoop DEF Stop
  <2>11. ASSUME NEW n \in Nodes, Start(n) PROVE Once'
    BY <2>1, <2>11, OnceLoop DEF Start
  <2>12. ASSUME NEW n \in Nodes, NEW f \in Fleets, RegisterWebhook(n, f) \/ Dispatch(n, f)
         PROVE  Once'
    BY <2>1, <2>12, OnceLoop DEF RegisterWebhook, Dispatch
  <2>13. CASE Tick
    BY <2>13, OnceSame DEF Tick
  <2>14. CASE UNCHANGED vars
    BY <2>14, OnceSame DEF vars
  <2> QED
    BY <2>2, <2>3, <2>4, <2>5, <2>6, <2>7, <2>8, <2>9, <2>10, <2>11, <2>12,
       <2>13, <2>14 DEF Next, Handle
<1>3. Inv /\ Once => StoredOnce
  BY GatewayAssumption DEF Inv, Shape, Once, StoredOnce
<1> QED BY <1>1, <1>2, <1>3, Invariance, PTL DEF Spec

-----------------------------------------------------------------------------
(* No quorum goes unnoticed.                                               *)

Seen(table) == {o \in Orgs : table[o] # Absent}

\* The live candidates are no quorum of everyone ever sighted.
NoQuorum(agr, obs, t) ==
  LET live == Cardinality(LiveOrgs(agr, t))
  IN  live = 0 \/ live < RequiredQuorum(Cardinality(Seen(obs)))

\* Node n is about to check stream s.
Checking(n, x, s) ==
  req[n].pc = "promote" /\ ScorerOf(n) = x /\ Stream(n) = s

\* Whoever agrees has been sighted, and no later than now.
Watched(agr, obs, t) ==
  \A c \in Orgs : agr[c] # Absent => obs[c] # Absent /\ agr[c] <= t

Noticed ==
  \A x \in Scorers, s \in Streams :
    /\ Watched(agree[x][s], observers[x][s], clock)
    /\ \/ NoQuorum(agree[x][s], observers[x][s], clock)
       \/ \E n \in Nodes : Checking(n, x, s)

LEMMA SeenFinite ==
  ASSUME NEW obs
  PROVE  IsFiniteSet(Seen(obs)) /\ Cardinality(Seen(obs)) \in Nat
<1>1. Seen(obs) \subseteq Orgs
  BY DEF Seen
<1> QED BY <1>1, FS_Subset, FS_CardinalityType, QuorumAssumption

\* A quorum is not reached by fewer candidates, nor because more are sighted.
LEMMA NoQuorumKept ==
  ASSUME NEW agr, NEW obs, NEW t, NEW agr2, NEW obs2, NEW t2,
         NoQuorum(agr, obs, t),
         LiveOrgs(agr2, t2) \subseteq LiveOrgs(agr, t), Seen(obs) \subseteq Seen(obs2)
  PROVE  NoQuorum(agr2, obs2, t2)
<1> DEFINE a == Cardinality(LiveOrgs(agr, t))
           b == Cardinality(LiveOrgs(agr2, t2))
           m == Cardinality(Seen(obs))
           p == Cardinality(Seen(obs2))
<1>1. a \in Nat /\ b \in Nat /\ b <= a
  BY LiveOrgsFinite, FS_Subset
<1>2. m \in Nat /\ p \in Nat /\ m <= p
  BY SeenFinite, FS_Subset
<1>3. RequiredQuorum(m) \in Nat /\ RequiredQuorum(p) \in Nat
      /\ RequiredQuorum(m) <= RequiredQuorum(p)
  BY <1>2, RequiredQuorumBounds, RequiredQuorumMonotone
<1>4. a = 0 \/ a < RequiredQuorum(m)
  BY DEF NoQuorum
<1> HIDE DEF a, b, m, p
<1>5. b = 0 \/ b < RequiredQuorum(p)
  BY <1>1, <1>2, <1>3, <1>4
<1> QED BY <1>5 DEF NoQuorum, b, p

LEMMA EmptyNoQuorum == ASSUME NEW obs, NEW t PROVE NoQuorum(EmptyTable, obs, t)
<1>1. LiveOrgs(EmptyTable, t) = {}
  BY EmptyType DEF LiveOrgs
<1> QED BY <1>1, FS_EmptySet DEF NoQuorum

\* The check that fails has counted no more than everyone sighted.
LEMMA NotMet ==
  ASSUME NEW agr, NEW obs, NEW t, Watched(agr, obs, t), ~ QuorumMet(obs, agr, t)
  PROVE  NoQuorum(agr, obs, t)
<1> DEFINE live == Cardinality(LiveOrgs(agr, t))
           m == Population(obs, agr, t)
           p == Cardinality(Seen(obs))
<1>1. LiveOrgs(agr, t) \subseteq Seen(obs) /\ LiveOrgs(obs, t) \subseteq Seen(obs)
  BY DEF LiveOrgs, Seen, Watched
<1>2. m \in Nat /\ p \in Nat /\ m <= p
  BY <1>1, PopulationType, SeenFinite, FS_Subset DEF Population
<1>3. /\ RequiredQuorum(m) \in Nat /\ RequiredQuorum(p) \in Nat
      /\ RequiredQuorum(m) <= RequiredQuorum(p)
  BY <1>2, RequiredQuorumBounds, RequiredQuorumMonotone
<1>4. live \in Nat /\ (LiveOrgs(agr, t) = {} => live = 0)
  BY LiveOrgsFinite, FS_EmptySet
<1>5. LiveOrgs(agr, t) = {} \/ ~ (live >= RequiredQuorum(m))
  BY DEF QuorumMet
<1> HIDE DEF live, m, p
<1>6. live = 0 \/ live < RequiredQuorum(p)
  BY <1>2, <1>3, <1>4, <1>5
<1> QED BY <1>6 DEF NoQuorum, live, p

\* A request that does not move is still at its check.
LEMMA StillChecking ==
  ASSUME Requests, NEW m \in Nodes, NEW x, NEW s, Checking(m, x, s),
         req'[m] = req[m], Grows(wire, wire')
  PROVE  Checking(m, x, s)'
<1>1. req[m].id \in DOMAIN wire
  BY DEF Checking, Requests, Sound
<1>2. wire'[req[m].id] = wire[req[m].id]
  BY <1>1 DEF Grows
<1> QED BY <1>2 DEF Checking, Stream, StreamOf, Batch, Metric, ScorerOf

\* What a step of node n may do to a stream of a scorer: empty its candidates,
\* leave them, or add to them and go on to the check.
Quiet(n, x, s) ==
  /\ agree'[x][s] = agree[x][s]
  /\ Seen(observers[x][s]) \subseteq Seen(observers'[x][s])
  /\ \/ req'[n] = req[n]
     \/ ~ Checking(n, x, s)
     \/ NoQuorum(agree[x][s], observers[x][s], clock)

LEMMA NoticedStep ==
  ASSUME Noticed, Requests, NEW n \in Nodes,
         \A m \in Nodes : m # n => req'[m] = req[m],
         Grows(wire, wire'), clock' = clock,
         \A x \in Scorers, s \in Streams :
           \/ agree'[x][s] = EmptyTable
           \/ Quiet(n, x, s)
           \/ Watched(agree'[x][s], observers'[x][s], clock) /\ Checking(n, x, s)'
  PROVE  Noticed'
<1> SUFFICES ASSUME NEW x \in Scorers, NEW s \in Streams
             PROVE  /\ Watched(agree[x][s], observers[x][s], clock)'
                    /\ \/ NoQuorum(agree[x][s], observers[x][s], clock)'
                       \/ \E m \in Nodes : Checking(m, x, s)'
  BY DEF Noticed
<1>1. /\ Watched(agree[x][s], observers[x][s], clock)
      /\ \/ NoQuorum(agree[x][s], observers[x][s], clock)
         \/ \E m \in Nodes : Checking(m, x, s)
  BY DEF Noticed
<1>2. CASE agree'[x][s] = EmptyTable
  BY <1>2, EmptyNoQuorum, EmptyType DEF Watched
<1>3. CASE Quiet(n, x, s)
  <2>1. Watched(agree[x][s], observers[x][s], clock)'
    BY <1>1, <1>3 DEF Quiet, Watched, Seen
  <2>2. CASE NoQuorum(agree[x][s], observers[x][s], clock)
    BY <1>3, <2>1, <2>2, NoQuorumKept DEF Quiet
  <2>3. CASE ~ NoQuorum(agree[x][s], observers[x][s], clock)
    <3>1. PICK m \in Nodes : Checking(m, x, s)
      BY <1>1, <2>3
    <3>2. req'[m] = req[m]
      BY <1>3, <2>3, <3>1 DEF Quiet
    <3>3. Checking(m, x, s)'
      BY <3>1, <3>2, StillChecking
    <3> QED BY <2>1, <3>3
  <2> QED BY <2>2, <2>3
<1>4. CASE Watched(agree'[x][s], observers'[x][s], clock) /\ Checking(n, x, s)'
  BY <1>4
<1> QED BY <1>2, <1>3, <1>4

\* A step that leaves the scorers alone and does not take a request off its check.
LEMMA NoticedAside ==
  ASSUME Noticed, Requests, NEW n \in Nodes,
         \A m \in Nodes : m # n => req'[m] = req[m],
         req[n].pc # "promote" \/ req' = req,
         Grows(wire, wire'), UNCHANGED <<agree, observers, clock>>
  PROVE  Noticed'
<1>1. \A x \in Scorers, s \in Streams : Quiet(n, x, s)
  BY DEF Quiet, Checking
<1> QED BY <1>1, NoticedStep

\* Whoever is observed is sighted, and stays so.
LEMMA RecordSeen ==
  ASSUME NEW x \in Scorers, NEW u \in Streams, NEW c \in Orgs, observers \in Tables,
         clock \in Nat \ {0},
         observers' = [observers EXCEPT ![x][u] = Record(@, c, clock)]
  PROVE  /\ observers' \in Tables
         /\ \A y \in Scorers, s \in Streams :
              Seen(observers[y][s]) \subseteq Seen(observers'[y][s])
         /\ observers'[x][u][c] # Absent
<1> DEFINE t == Record(observers[x][u], c, clock)
<1>1. observers[x][u] \in Table
  BY DEF Tables
<1>2. t \in Table /\ t[c] # Absent /\ Seen(observers[x][u]) \subseteq Seen(t)
  BY <1>1 DEF Record, Table, Seen, Absent
<1>3. observers' = [observers EXCEPT ![x][u] = t]
  OBVIOUS
<1> HIDE DEF t
<1>4. /\ observers' \in Tables
      /\ \A y \in Scorers, s \in Streams :
           observers'[y][s] = IF y = x /\ s = u THEN t ELSE observers[y][s]
  BY <1>2, <1>3 DEF Tables
<1> QED BY <1>2, <1>4

LEMMA NoticedScore ==
  ASSUME Inv, Noticed, NEW n \in Nodes, ScorePublic(n)
  PROVE  Noticed'
<1>1. /\ req[n].pc = "metric" /\ req[n].todo # <<>> /\ req \in [Nodes -> Request]
      /\ observers' = [observers EXCEPT ![ScorerOf(n)][Stream(n)] =
                         Record(@, Batch(n).client, clock)]
      /\ NextMetric(n) \/ GoTo(n, "local")
      /\ UNCHANGED <<wire, agree, clock>>
  BY DEF ScorePublic, At, Inv, Requests, wireVars, worldVars
<1>2. Stream(n) \in Streams /\ Batch(n).client \in Orgs /\ ScorerOf(n) \in Scorers
  BY <1>1, AtStep, ScorerType DEF InLoop
<1>3. \A y \in Scorers, s \in Streams :
        Seen(observers[y][s]) \subseteq Seen(observers'[y][s])
  BY <1>1, <1>2, RecordSeen DEF Inv, Shape
<1>4. \A y \in Scorers, s \in Streams : Quiet(n, y, s)
  BY <1>1, <1>3 DEF Quiet, Checking
<1>5. \A m \in Nodes : m # n => req'[m] = req[m]
  BY <1>1 DEF NextMetric, GoTo
<1> QED BY <1>1, <1>4, <1>5, GrowsSelf, NoticedStep DEF Inv

LEMMA NoticedIngest ==
  ASSUME Inv, Noticed, NEW n \in Nodes, IngestCandidate(n)
  PROVE  Noticed'
<1>1. PICK x \in Scorers, u \in Streams, c \in Orgs :
        x = ScorerOf(n) /\ u = Stream(n) /\ c = Batch(n).client
  <2>1. req[n].pc \in InLoop /\ req[n].todo # <<>>
    BY AtScorerStep DEF AtScorer, IngestCandidate, At
  <2> QED BY <2>1, AtStep, ScorerType
<1>2. /\ req[n].pc = "candidate" /\ GoTo(n, "promote") /\ req \in [Nodes -> Request]
      /\ agree' = [agree EXCEPT ![x][u] = Record(@, c, clock)]
      /\ observers' = [observers EXCEPT ![x][u] = Record(@, c, clock)]
      /\ UNCHANGED <<wire, clock>>
      /\ agree \in Tables /\ observers \in Tables /\ clock \in Nat \ {0}
  BY <1>1 DEF IngestCandidate, At, Inv, Shape, Requests, wireVars, worldVars
<1>3. /\ \A y \in Scorers, s \in Streams :
           Seen(observers[y][s]) \subseteq Seen(observers'[y][s])
      /\ observers'[x][u][c] # Absent
  BY <1>2, RecordSeen
<1> DEFINE t == Record(agree[x][u], c, clock)
<1>4. /\ agree' = [agree EXCEPT ![x][u] = t]
      /\ \A d \in Orgs : d # c => t[d] = agree[x][u][d]
      /\ t[c] <= clock
  <2>1. agree[x][u] \in Table
    BY <1>2 DEF Tables
  <2>2. agree[x][u][c] # Absent => agree[x][u][c] <= clock
    BY <1>2 DEF Noticed, Watched
  <2>3. t[c] \in {agree[x][u][c], clock} /\ (agree[x][u][c] = Absent => t[c] = clock)
        /\ \A d \in Orgs : d # c => t[d] = agree[x][u][d]
    BY <1>2, <2>1 DEF Record, Table, Absent
  <2> QED BY <1>2, <2>2, <2>3
<1> HIDE DEF t
<1>5. /\ \A m \in Nodes : m # n => req'[m] = req[m]
      /\ req'[n].pc = "promote" /\ req'[n].id = req[n].id /\ req'[n].todo = req[n].todo
  BY <1>2 DEF GoTo, Request
<1>6. Checking(n, x, u)'
  BY <1>1, <1>2, <1>5 DEF Checking, Stream, StreamOf, Batch, Metric, ScorerOf
<1>7. \A y \in Scorers, s \in Streams :
        agree'[y][s] = IF y = x /\ s = u THEN t ELSE agree[y][s]
  BY <1>2, <1>4 DEF Tables
<1>8. Watched(agree'[x][u], observers'[x][u], clock)
  <2>1. Watched(agree[x][u], observers[x][u], clock)
    BY <1>2 DEF Noticed
  <2> QED BY <1>2, <1>3, <1>4, <1>7, <2>1 DEF Watched, Seen
<1>9. \A y \in Scorers, s \in Streams :
        \/ Quiet(n, y, s)
        \/ Watched(agree'[y][s], observers'[y][s], clock) /\ Checking(n, y, s)'
  <2> TAKE y \in Scorers, s \in Streams
  <2>1. CASE y = x /\ s = u
    BY <1>6, <1>8, <2>1
  <2>2. CASE ~ (y = x /\ s = u)
    BY <1>2, <1>3, <1>7, <2>2 DEF Quiet, Checking
  <2> QED BY <2>1, <2>2
<1> QED BY <1>2, <1>5, <1>9, GrowsSelf, NoticedStep DEF Inv

LEMMA NoticedPromote ==
  ASSUME Inv, Noticed, NEW n \in Nodes, Promote(n)
  PROVE  Noticed'
<1> DEFINE x == ScorerOf(n)
           u == Stream(n)
<1>1. /\ req[n].pc = "promote" /\ req \in [Nodes -> Request] /\ agree \in Tables
      /\ UNCHANGED <<wire, observers, clock>>
      /\ \/ NextMetric(n)
         \/ \E k : req' = [req EXCEPT ![n].pc = "public", ![n].count = k]
  BY DEF Promote, At, Inv, Shape, Requests, wireVars, worldVars
<1>2. u \in Streams /\ x \in Scorers
  <2>1. req[n].pc \in InLoop /\ req[n].todo # <<>>
    BY <1>1, AtScorerStep DEF AtScorer
  <2> QED BY <1>1, <2>1, AtStep, ScorerType
<1>3. \A m \in Nodes : m # n => req'[m] = req[m]
  BY <1>1 DEF NextMetric
<1>4. \A y \in Scorers, s \in Streams : agree'[y][s] = EmptyTable \/ Quiet(n, y, s)
  <2> TAKE y \in Scorers, s \in Streams
  <2>1. CASE QuorumMet(observers[x][u], agree[x][u], clock)
    <3>1. agree' = [agree EXCEPT ![x][u] = EmptyTable]
      BY <2>1 DEF Promote, Dropped
    <3>2. agree'[y][s] = IF y = x /\ s = u THEN EmptyTable ELSE agree[y][s]
      BY <1>1, <1>2, <3>1 DEF Tables
    <3> QED BY <1>1, <3>2 DEF Quiet, Checking
  <2>2. CASE ~ QuorumMet(observers[x][u], agree[x][u], clock)
    <3>1. agree' = agree
      BY <2>2 DEF Promote
    <3>2. y = x /\ s = u => NoQuorum(agree[y][s], observers[y][s], clock)
      BY <1>2, <2>2, NotMet DEF Noticed
    <3> QED BY <1>1, <3>1, <3>2 DEF Quiet, Checking
  <2> QED BY <2>1, <2>2
<1> QED BY <1>1, <1>3, <1>4, GrowsSelf, NoticedStep DEF Inv

LEMMA NoticedClear ==
  ASSUME Inv, Noticed, NEW n \in Nodes, ClearCandidates(n)
  PROVE  Noticed'
<1> DEFINE x == ScorerOf(n)
           u == Stream(n)
<1>1. /\ req[n].pc = "clear" /\ req \in [Nodes -> Request] /\ agree \in Tables
      /\ agree' = [agree EXCEPT ![x][u] = EmptyTable] /\ NextMetric(n)
      /\ UNCHANGED <<wire, observers, clock>>
  BY DEF ClearCandidates, Dropped, At, Inv, Shape, Requests, wireVars, worldVars
<1>2. \A m \in Nodes : m # n => req'[m] = req[m]
  BY <1>1 DEF NextMetric
<1>3. \A y \in Scorers, s \in Streams : agree'[y][s] = EmptyTable \/ Quiet(n, y, s)
  <2> TAKE y \in Scorers, s \in Streams
  <2>1. CASE y = x /\ s = u
    BY <1>1, <2>1 DEF Tables
  <2>2. CASE ~ (y = x /\ s = u)
    BY <1>1, <2>2 DEF Tables, Quiet, Checking
  <2> QED BY <2>1, <2>2
<1> QED BY <1>1, <1>2, <1>3, GrowsSelf, NoticedStep DEF Inv

\* A process that stops before its check takes its own scorer along.
LEMMA NoticedStop ==
  ASSUME Inv, Noticed, ~ SharedScorer, NEW n \in Nodes, Stop(n)
  PROVE  Noticed'
<1> DEFINE none == [s \in Streams |-> EmptyTable]
<1>1. /\ req' = [req EXCEPT ![n] = Idle] /\ req \in [Nodes -> Request]
      /\ agree \in Tables /\ observers \in Tables
      /\ agree' = [agree EXCEPT ![n] = none]
      /\ observers' = [observers EXCEPT ![n] = none]
      /\ UNCHANGED <<wire, clock>>
  BY DEF Stop, Inv, Shape, Requests, wireVars
<1> HIDE DEF none
<1>2. \A m \in Nodes : m # n => req'[m] = req[m]
  BY <1>1
<1>3. \A y \in Scorers, s \in Streams : agree'[y][s] = EmptyTable \/ Quiet(n, y, s)
  <2> TAKE y \in Scorers, s \in Streams
  <2>1. CASE y = n
    BY <1>1, <2>1 DEF Tables, none
  <2>2. CASE y # n
    <3>1. agree'[y] = agree[y] /\ observers'[y] = observers[y]
      BY <1>1, <2>2 DEF Tables
    <3>2. ~ Checking(n, y, s)
      BY <2>2 DEF Checking, ScorerOf
    <3> QED BY <3>1, <3>2 DEF Quiet
  <2> QED BY <2>1, <2>2
<1> QED BY <1>1, <1>2, <1>3, GrowsSelf, NoticedStep DEF Inv

\* Candidates only expire, and no one is at a check when time passes.
LEMMA NoticedTick ==
  ASSUME Inv, Noticed, Tick
  PROVE  Noticed'
<1>1. /\ \A n \in Nodes : req[n].pc = "idle"
      /\ clock' = clock + 1 /\ clock \in Nat
      /\ agree \in Tables
      /\ UNCHANGED <<agree, observers>>
  BY DEF Tick, Inv, Shape, scorerVars
<1> SUFFICES ASSUME NEW x \in Scorers, NEW s \in Streams
             PROVE  /\ Watched(agree[x][s], observers[x][s], clock + 1)
                    /\ NoQuorum(agree[x][s], observers[x][s], clock + 1)
  BY <1>1 DEF Noticed
<1>2. /\ Watched(agree[x][s], observers[x][s], clock)
      /\ NoQuorum(agree[x][s], observers[x][s], clock)
  BY <1>1 DEF Noticed, Checking
<1>3. \A c \in Orgs : agree[x][s][c] \in Nat
  BY <1>1 DEF Tables, Table
<1>4. Watched(agree[x][s], observers[x][s], clock + 1)
  BY <1>1, <1>2, <1>3 DEF Watched
<1>5. LiveOrgs(agree[x][s], clock + 1) \subseteq LiveOrgs(agree[x][s], clock)
  BY <1>1, <1>2, <1>3, QuorumAssumption DEF LiveOrgs, Watched
<1> QED BY <1>2, <1>4, <1>5, NoQuorumKept

\* No quorum of everyone ever sighted waits unpromoted between requests,
\* whatever processes and batches do: with the scorer of the process even when
\* it stops or a save fails before the check, and with a shared one as long as
\* no process stops and no call fails.
THEOREM NoMissedCorrect ==
  ASSUME ~ SharedScorer \/ (~ CallsMayFail /\ ~ MayStop)
  PROVE  Spec => []NoMissedQuorum
<1>1. Init => Noticed
  <2> SUFFICES ASSUME Init PROVE Noticed
    OBVIOUS
  <2>1. \A x \in Scorers, s \in Streams : agree[x][s] = EmptyTable
    BY DEF Init
  <2> QED BY <2>1, EmptyType, EmptyNoQuorum DEF Noticed, Watched
<1>2. Inv /\ Noticed /\ [Next]_vars => Noticed'
  <2> SUFFICES ASSUME Inv, Noticed, [Next]_vars PROVE Noticed'
    OBVIOUS
  <2> USE DEF wireVars, dbVars, scorerVars, processVars, worldVars
  <2>1. Requests /\ req \in [Nodes -> Request]
    BY DEF Inv, Requests
  <2>2. ASSUME NEW n \in Nodes, ReceiveNew(n) \/ Redeliver(n) PROVE Noticed'
    <3>1. /\ req[n].pc = "idle" /\ UNCHANGED <<agree, observers, clock>>
          /\ \A m \in Nodes : m # n => req'[m] = req[m]
      BY <2>1, <2>2 DEF ReceiveNew, Redeliver, Admit, At
    <3>2. Grows(wire, wire')
      <4>1. wire \in Seq(Payload) /\ Payloads \subseteq Payload
        BY GatewayAssumption DEF Inv, Shape
      <4>2. wire' = wire \/ \E b \in Payloads : wire' = Append(wire, b)
        BY <2>2 DEF ReceiveNew, Redeliver
      <4> QED BY <4>1, <4>2, Appended, GrowsSelf
    <3> QED BY <2>1, <3>1, <3>2, NoticedAside
  <2>3. ASSUME NEW n \in Nodes,
               \/ SaveBatch(n) \/ ScorePrivate(n) \/ SaveLocalAlert(n) \/ Notify(n)
               \/ SavePublicAlert(n) \/ Respond(n)
        PROVE  Noticed'
    <3>1. req[n].pc # "promote" /\ UNCHANGED <<wire, agree, observers, clock>>
      BY <2>3 DEF SaveBatch, ScorePrivate, SaveLocalAlert, Notify, SavePublicAlert,
                  Respond, At
    <3>2. \A m \in Nodes : m # n => req'[m] = req[m]
      BY <2>1, <2>3 DEF SaveBatch, ScorePrivate, SaveLocalAlert, Notify, SavePublicAlert,
                        Respond, NextMetric, GoTo
    <3> QED BY <2>1, <3>1, <3>2, GrowsSelf, NoticedAside
  <2>4. ASSUME NEW n \in Nodes, Raise(n) PROVE Noticed'
    <3>1. req[n].pc # "promote" /\ UNCHANGED <<wire, agree, observers, clock>>
      BY <2>4 DEF Raise
    <3>2. \A m \in Nodes : m # n => req'[m] = req[m]
      BY <2>1, <2>4 DEF Raise
    <3> QED BY <2>1, <3>1, <3>2, GrowsSelf, NoticedAside
  <2>5. ASSUME NEW n \in Nodes, Stop(n) PROVE Noticed'
    BY <2>5, NoticedStop DEF Stop
  <2>6. ASSUME NEW n \in Nodes, Start(n) PROVE Noticed'
    BY <2>1, <2>6, GrowsSelf, NoticedAside DEF Start
  <2>7. ASSUME NEW n \in Nodes, NEW f \in Fleets, RegisterWebhook(n, f) \/ Dispatch(n, f)
        PROVE  Noticed'
    BY <2>1, <2>7, GrowsSelf, NoticedAside DEF RegisterWebhook, Dispatch
  <2>8. CASE Tick
    BY <2>8, NoticedTick
  <2>9. CASE UNCHANGED vars
    <3>1. UNCHANGED <<wire, req, agree, observers, clock>>
      BY <2>9 DEF vars
    <3>2. \A n \in Nodes, x \in Scorers, s \in Streams :
            Checking(n, x, s) => Checking(n, x, s)'
      BY <2>1, <3>1, GrowsSelf, StillChecking
    <3>3. \A x \in Scorers, s \in Streams :
            /\ Watched(agree[x][s], observers[x][s], clock)'
            /\ \/ NoQuorum(agree[x][s], observers[x][s], clock)'
               \/ \E n \in Nodes : Checking(n, x, s)'
      BY <3>1, <3>2 DEF Noticed
    <3> QED BY <3>3 DEF Noticed
  <2> QED
    BY <2>2, <2>3, <2>4, <2>5, <2>6, <2>7, <2>8, <2>9, NoticedScore, NoticedIngest,
       NoticedPromote, NoticedClear DEF Next, Handle
<1>3. Noticed => NoMissedQuorum
  <2> SUFFICES ASSUME Noticed, \A n \in Nodes : At(n, "idle"),
                      NEW x \in Scorers, NEW s \in Streams
               PROVE  NoQuorum(agree[x][s], observers[x][s], clock)
    BY DEF NoMissedQuorum, NoQuorum, Seen, Sighted
  <2> QED BY DEF Noticed, Checking, At
<1> QED BY <1>1, <1>2, <1>3, Invariance, PTL DEF Spec

-----------------------------------------------------------------------------
(* Every vote is paid for by a local alert, once.                          *)

Promotion == [stream : Streams, voters : SUBSET Orgs, at : Nat]

\* The promotions on a model and a metric that counted client c.
Spent(c, model, metric, ps) ==
  {k \in DOMAIN ps : /\ ps[k].stream.model = model
                     /\ ps[k].stream.metric = metric
                     /\ c \in ps[k].voters}

\* Its public local alerts.
Alerted(c, model, metric, ls) ==
  {k \in DOMAIN ls : /\ ls[k].client = c /\ ls[k].fleet = NoFleet
                     /\ ls[k].model = model
                     /\ ls[k].metric = metric}

\* Where its candidates stand.
Standing(c, model, metric) ==
  {p \in Scorers \X Streams :
     p[2].model = model /\ p[2].metric = metric /\ agree[p[1]][p[2]][c] # Absent}

\* The requests whose alert is stored and whose candidate is not yet ingested.
Voting(c, model, metric) ==
  {n \in Nodes : /\ req[n].pc = "candidate"
                 /\ wire[req[n].id].client = c
                 /\ wire[req[n].id].model = model
                 /\ req[n].todo[1].name = metric}

Paid(c, model, metric) ==
  /\ IsFiniteSet(Spent(c, model, metric, promoted))
  /\ IsFiniteSet(Standing(c, model, metric))
  /\ IsFiniteSet(Voting(c, model, metric))
  /\ IsFiniteSet(Alerted(c, model, metric, local))
  /\ Cardinality(Spent(c, model, metric, promoted))
       + Cardinality(Standing(c, model, metric))
       + Cardinality(Voting(c, model, metric))
       <= Cardinality(Alerted(c, model, metric, local))

Accounted ==
  /\ promoted \in Seq(Promotion)
  /\ \A c \in Orgs, model \in Models, metric \in Metrics : Paid(c, model, metric)

\* One element more, or one less, changes a count by one.
LEMMA OneMore ==
  ASSUME NEW S, IsFiniteSet(S), NEW e, NEW T, T \subseteq S \cup {e}
  PROVE  /\ IsFiniteSet(T)
         /\ Cardinality(S) \in Nat /\ Cardinality(T) \in Nat
         /\ Cardinality(T) <= Cardinality(S) + 1
<1>1. /\ IsFiniteSet(S \cup {e})
      /\ \/ Cardinality(S \cup {e}) = Cardinality(S)
         \/ Cardinality(S \cup {e}) = Cardinality(S) + 1
  BY FS_AddElement, Zenon
<1>2. IsFiniteSet(T) /\ Cardinality(T) <= Cardinality(S \cup {e})
  BY <1>1, FS_Subset
<1>3. Cardinality(S) \in Nat /\ Cardinality(T) \in Nat
  BY <1>2, FS_CardinalityType
<1> QED BY <1>1, <1>2, <1>3

LEMMA OneLess ==
  ASSUME NEW S, IsFiniteSet(S), NEW e \in S, NEW T, T \subseteq S \ {e}
  PROVE  /\ IsFiniteSet(T)
         /\ Cardinality(S) \in Nat /\ Cardinality(T) \in Nat
         /\ Cardinality(T) + 1 <= Cardinality(S)
<1>1. IsFiniteSet(T)
  BY FS_Subset
<1>2. Cardinality(T) + 1 = Cardinality(T \cup {e}) /\ IsFiniteSet(T \cup {e})
  BY <1>1, FS_AddElement, Zenon
<1>3. T \cup {e} \subseteq S
  OBVIOUS
<1>4. Cardinality(T \cup {e}) <= Cardinality(S)
  BY <1>3, FS_Subset
<1>5. Cardinality(S) \in Nat /\ Cardinality(T) \in Nat
  BY <1>1, FS_CardinalityType
<1> QED BY <1>1, <1>2, <1>4, <1>5

LEMMA NoMore ==
  ASSUME NEW S, IsFiniteSet(S), NEW T, T \subseteq S
  PROVE  /\ IsFiniteSet(T)
         /\ Cardinality(S) \in Nat /\ Cardinality(T) \in Nat
         /\ Cardinality(T) <= Cardinality(S)
BY FS_Subset, FS_CardinalityType

LEMMA AppendSpent ==
  ASSUME NEW ps \in Seq(Promotion), NEW p \in Promotion, NEW c, NEW model, NEW metric
  PROVE  /\ Spent(c, model, metric, Append(ps, p))
              \subseteq Spent(c, model, metric, ps) \cup {Len(ps) + 1}
         /\ c \notin p.voters \/ p.stream.model # model \/ p.stream.metric # metric =>
              Spent(c, model, metric, Append(ps, p)) = Spent(c, model, metric, ps)
<1> DEFINE new == Append(ps, p)
<1>1. /\ DOMAIN new = DOMAIN ps \cup {Len(ps) + 1}
      /\ \A k \in DOMAIN ps : new[k] = ps[k]
      /\ new[Len(ps) + 1] = p /\ Len(ps) + 1 \notin DOMAIN ps
  BY Appended DEF Grows
<1> HIDE DEF new
<1> QED BY <1>1 DEF Spent, new

LEMMA AppendAlerted ==
  ASSUME NEW ls \in Seq(Alert), NEW a \in Alert, NEW c, NEW model, NEW metric
  PROVE  /\ Alerted(c, model, metric, ls)
              \subseteq Alerted(c, model, metric, Append(ls, a))
         /\ Alerted(c, model, metric, Append(ls, a))
              \subseteq Alerted(c, model, metric, ls) \cup {Len(ls) + 1}
         /\ Len(ls) + 1 \notin Alerted(c, model, metric, ls)
         /\ a.client = c /\ a.fleet = NoFleet /\ a.model = model /\ a.metric = metric =>
              Len(ls) + 1 \in Alerted(c, model, metric, Append(ls, a))
<1> DEFINE new == Append(ls, a)
<1>1. /\ DOMAIN new = DOMAIN ls \cup {Len(ls) + 1}
      /\ \A k \in DOMAIN ls : new[k] = ls[k]
      /\ new[Len(ls) + 1] = a /\ Len(ls) + 1 \notin DOMAIN ls
  BY Appended DEF Grows
<1> HIDE DEF new
<1> QED BY <1>1 DEF Alerted, new

\* Who else is about to vote is not changed by a step of node n.
LEMMA OthersVoting ==
  ASSUME Requests, NEW n \in Nodes, \A m \in Nodes : m # n => req'[m] = req[m],
         Grows(wire, wire'), NEW c, NEW model, NEW metric
  PROVE  /\ Voting(c, model, metric)' \subseteq Voting(c, model, metric) \cup {n}
         /\ req'[n].pc # "candidate" => Voting(c, model, metric)' \subseteq Voting(c, model, metric) \ {n}
         /\ req'[n] = req[n] => Voting(c, model, metric)' \subseteq Voting(c, model, metric)
<1>1. ASSUME NEW m \in Nodes, req'[m] = req[m], m \in Voting(c, model, metric)'
      PROVE  m \in Voting(c, model, metric)
  <2>1. req[m].pc = "candidate"
    BY <1>1 DEF Voting
  <2>2. req[m].id \in DOMAIN wire
    BY <2>1 DEF Requests, Sound
  <2>3. wire'[req[m].id] = wire[req[m].id]
    BY <2>2 DEF Grows
  <2> QED BY <1>1, <2>1, <2>3 DEF Voting
<1>2. Voting(c, model, metric)' \subseteq Nodes
  BY DEF Voting
<1>3. req'[n].pc # "candidate" => n \notin Voting(c, model, metric)'
  BY DEF Voting
<1> QED BY <1>1, <1>2, <1>3

\* A step that adds no vote.
LEMMA PaidSame ==
  ASSUME Accounted, promoted' = promoted, local' = local,
         \A c \in Orgs, model \in Models, metric \in Metrics :
           /\ Standing(c, model, metric)' \subseteq Standing(c, model, metric)
           /\ Voting(c, model, metric)' \subseteq Voting(c, model, metric)
  PROVE  Accounted'
<1> SUFFICES ASSUME NEW c \in Orgs, NEW model \in Models, NEW metric \in Metrics
             PROVE  Paid(c, model, metric)'
  BY DEF Accounted
<1>1. Paid(c, model, metric)
  BY DEF Accounted
<1>2. /\ IsFiniteSet(Standing(c, model, metric)')
      /\ Cardinality(Standing(c, model, metric)) \in Nat
      /\ Cardinality(Standing(c, model, metric)') \in Nat
      /\ Cardinality(Standing(c, model, metric)') <= Cardinality(Standing(c, model, metric))
  BY <1>1, NoMore DEF Paid
<1>3. /\ IsFiniteSet(Voting(c, model, metric)')
      /\ Cardinality(Voting(c, model, metric)) \in Nat
      /\ Cardinality(Voting(c, model, metric)') \in Nat
      /\ Cardinality(Voting(c, model, metric)') <= Cardinality(Voting(c, model, metric))
  BY <1>1, NoMore DEF Paid
<1>4. /\ Cardinality(Spent(c, model, metric, promoted)) \in Nat
      /\ Cardinality(Alerted(c, model, metric, local)) \in Nat
  BY <1>1, FS_CardinalityType DEF Paid
<1> QED BY <1>1, <1>2, <1>3, <1>4 DEF Paid

\* Candidates are only dropped.
LEMMA FewerStanding ==
  ASSUME NEW c, NEW model, NEW metric,
         \A x \in Scorers, s \in Streams :
           s.model = model /\ s.metric = metric /\ agree'[x][s][c] # Absent =>
             agree[x][s][c] # Absent
  PROVE  Standing(c, model, metric)' \subseteq Standing(c, model, metric)
<1>1. ASSUME NEW p \in Standing(c, model, metric)'
      PROVE  p \in Standing(c, model, metric)
  <2>1. /\ p \in Scorers \X Streams
        /\ p[2].model = model /\ p[2].metric = metric
        /\ agree'[p[1]][p[2]][c] # Absent
    BY <1>1 DEF Standing, Scorers
  <2>2. PICK x \in Scorers, s \in Streams : p = <<x, s>>
    BY <2>1
  <2>3. agree[x][s][c] # Absent
    BY <2>1, <2>2
  <2> QED BY <2>1, <2>2, <2>3 DEF Standing
<1> QED BY <1>1

\* A step of node n that leaves its request short of the candidate, drops what
\* candidates it may, and neither promotes nor stores a local alert.
LEMMA PaidAside ==
  ASSUME Accounted, Requests, NEW n \in Nodes,
         \A m \in Nodes : m # n => req'[m] = req[m],
         req'[n].pc # "candidate" \/ req'[n] = req[n],
         Grows(wire, wire'), UNCHANGED <<promoted, local>>,
         \A x \in Scorers, s \in Streams, c \in Orgs :
           agree'[x][s][c] # Absent => agree[x][s][c] # Absent
  PROVE  Accounted'
<1>1. \A c, model, metric : Voting(c, model, metric)' \subseteq Voting(c, model, metric)
  BY OthersVoting
<1>2. ASSUME NEW c \in Orgs, NEW model, NEW metric
      PROVE  Standing(c, model, metric)' \subseteq Standing(c, model, metric)
  BY FewerStanding
<1> QED BY <1>1, <1>2, PaidSame

\* The local alert comes before the vote.
LEMMA PaidAlert ==
  ASSUME Inv, Accounted, NEW n \in Nodes, SaveLocalAlert(n)
  PROVE  Accounted'
<1>1. PICK a : a = [model |-> Batch(n).model, metric |-> Metric(n).name,
                    client |-> Batch(n).client, fleet |-> Batch(n).fleet, at |-> clock]
  OBVIOUS
<1>2. /\ req[n].pc = "local" /\ local' = Append(local, a)
      /\ GoTo(n, AfterLocalAlert(n)) /\ req \in [Nodes -> Request]
      /\ UNCHANGED <<wire, agree, promoted>>
  BY <1>1 DEF SaveLocalAlert, At, Inv, Requests, wireVars, scorerVars, historyVars
<1>3. req[n].pc \in InLoop /\ req[n].todo # <<>>
  BY <1>2 DEF Inv, Requests, Sound, InLoop
<1>4. a \in Alert /\ local \in Seq(Alert)
  BY <1>1, <1>3, AtStep DEF Shape, Alert
<1>5. /\ \A m \in Nodes : m # n => req'[m] = req[m]
      /\ req'[n].pc = AfterLocalAlert(n)
      /\ req'[n].id = req[n].id /\ req'[n].todo = req[n].todo
  BY <1>2 DEF GoTo, Request
<1> SUFFICES ASSUME NEW c \in Orgs, NEW model \in Models, NEW metric \in Metrics
             PROVE  Paid(c, model, metric)'
  BY <1>2 DEF Accounted
<1>6. Paid(c, model, metric)
  BY DEF Accounted
<1>7. /\ Standing(c, model, metric)' = Standing(c, model, metric)
      /\ Spent(c, model, metric, promoted)' = Spent(c, model, metric, promoted)
  BY <1>2 DEF Standing, Spent, Scorers
<1>8. /\ Alerted(c, model, metric, local) \subseteq Alerted(c, model, metric, local')
      /\ Alerted(c, model, metric, local')
           \subseteq Alerted(c, model, metric, local) \cup {Len(local) + 1}
      /\ Len(local) + 1 \notin Alerted(c, model, metric, local)
      /\ a.client = c /\ a.fleet = NoFleet /\ a.model = model /\ a.metric = metric =>
           Len(local) + 1 \in Alerted(c, model, metric, local')
  BY <1>2, <1>4, AppendAlerted
<1> DEFINE S == Cardinality(Spent(c, model, metric, promoted))
           T == Cardinality(Standing(c, model, metric))
           V == Cardinality(Voting(c, model, metric))
           W == Cardinality(Voting(c, model, metric)')
           L == Cardinality(Alerted(c, model, metric, local))
           M == Cardinality(Alerted(c, model, metric, local'))
<1>9. S \in Nat /\ T \in Nat /\ V \in Nat /\ L \in Nat /\ S + T + V <= L
  BY <1>6, FS_CardinalityType DEF Paid
<1>10. IsFiniteSet(Alerted(c, model, metric, local')) /\ M \in Nat /\ L <= M
  BY <1>6, <1>8, OneMore, NoMore DEF Paid
<1>11. IsFiniteSet(Voting(c, model, metric)') /\ W \in Nat
       /\ \/ W <= V
          \/ W <= V + 1 /\ L + 1 <= M
  <2>1. CASE n \in Voting(c, model, metric)'
    <3>0. Voting(c, model, metric)' \subseteq Voting(c, model, metric) \cup {n}
      BY <1>2, <1>5, OthersVoting, GrowsSelf DEF Inv
    <3>1. IsFiniteSet(Voting(c, model, metric)') /\ W \in Nat /\ W <= V + 1
      BY <1>6, <3>0, OneMore DEF Paid
    <3>2. /\ wire[req[n].id].client = c /\ wire[req[n].id].model = model
          /\ req[n].todo[1].name = metric
      BY <1>2, <1>5, <2>1 DEF Voting
    <3>3. Batch(n).fleet = NoFleet
      BY <1>5, <2>1 DEF Voting, AfterLocalAlert, IsPublic
    <3>4. a.client = c /\ a.fleet = NoFleet /\ a.model = model /\ a.metric = metric
      BY <1>1, <1>3, <3>2, <3>3, AtStep
    <3>5. Len(local) + 1 \in Alerted(c, model, metric, local')
      BY <1>8, <3>4
    <3>6. Alerted(c, model, metric, local)
            \subseteq Alerted(c, model, metric, local') \ {Len(local) + 1}
      BY <1>8
    <3>7. L + 1 <= M
      BY <1>10, <3>5, <3>6, OneLess
    <3> QED BY <3>1, <3>7
  <2>2. CASE n \notin Voting(c, model, metric)'
    <3>1. Voting(c, model, metric)' \subseteq Voting(c, model, metric)
      BY <1>2, <1>5, <2>2, OthersVoting, GrowsSelf DEF Inv
    <3> QED BY <1>6, <3>1, NoMore DEF Paid
  <2> QED BY <2>1, <2>2
<1>12. S + T + W <= M
  BY <1>9, <1>10, <1>11
<1> QED BY <1>2, <1>6, <1>7, <1>10, <1>11, <1>12 DEF Paid

\* The request's vote becomes a candidate.
LEMMA PaidIngest ==
  ASSUME Inv, Accounted, NEW n \in Nodes, IngestCandidate(n)
  PROVE  Accounted'
<1>1. PICK x \in Scorers, u \in Streams, d \in Orgs :
        x = ScorerOf(n) /\ u = Stream(n) /\ d = Batch(n).client
  <2>1. req[n].pc \in InLoop /\ req[n].todo # <<>>
    BY AtScorerStep DEF AtScorer, IngestCandidate, At
  <2> QED BY <2>1, AtStep, ScorerType
<1>2. /\ req[n].pc = "candidate" /\ GoTo(n, "promote") /\ req \in [Nodes -> Request]
      /\ agree' = [agree EXCEPT ![x][u] = Record(@, d, clock)]
      /\ UNCHANGED <<wire, local, promoted>>
      /\ agree \in Tables /\ clock \in Nat
  BY <1>1 DEF IngestCandidate, At, Inv, Shape, Requests, wireVars, dbVars, historyVars
<1>3. /\ wire[req[n].id].client = d /\ wire[req[n].id].model = u.model
      /\ req[n].todo[1].name = u.metric
  <2>1. req[n].pc \in InLoop /\ req[n].todo # <<>>
    BY <1>2, AtScorerStep DEF AtScorer
  <2> QED BY <1>1, <2>1, AtStep
<1>4. \A y \in Scorers, s \in Streams, c \in Orgs :
        ~ (y = x /\ s = u /\ c = d) => agree'[y][s][c] = agree[y][s][c]
  <2> DEFINE t == Record(agree[x][u], d, clock)
  <2>1. \A c \in Orgs : c # d => t[c] = agree[x][u][c]
    BY <1>2, RecordType DEF Tables
  <2>2. agree' = [agree EXCEPT ![x][u] = t]
    BY <1>2
  <2> HIDE DEF t
  <2> QED BY <1>2, <2>1, <2>2 DEF Tables
<1>5. \A m \in Nodes : m # n => req'[m] = req[m]
  BY <1>2 DEF GoTo
<1>6. req'[n].pc = "promote"
  BY <1>2 DEF GoTo, Request
<1> SUFFICES ASSUME NEW c \in Orgs, NEW model \in Models, NEW metric \in Metrics
             PROVE  Paid(c, model, metric)'
  BY <1>2 DEF Accounted
<1>7. Paid(c, model, metric)
  BY DEF Accounted
<1>8. Voting(c, model, metric)' \subseteq Voting(c, model, metric) \ {n}
  BY <1>2, <1>5, <1>6, OthersVoting, GrowsSelf DEF Inv
<1>9. /\ Spent(c, model, metric, promoted)' = Spent(c, model, metric, promoted)
      /\ Alerted(c, model, metric, local)' = Alerted(c, model, metric, local)
  BY <1>2 DEF Spent, Alerted
<1> DEFINE S == Cardinality(Spent(c, model, metric, promoted))
           T == Cardinality(Standing(c, model, metric))
           U == Cardinality(Standing(c, model, metric)')
           V == Cardinality(Voting(c, model, metric))
           W == Cardinality(Voting(c, model, metric)')
           L == Cardinality(Alerted(c, model, metric, local))
<1>10. S \in Nat /\ T \in Nat /\ V \in Nat /\ L \in Nat /\ S + T + V <= L
  BY <1>7, FS_CardinalityType DEF Paid
<1>11. CASE c = d /\ model = u.model /\ metric = u.metric
  <2>1. n \in Voting(c, model, metric)
    BY <1>2, <1>3, <1>11 DEF Voting
  <2>2. IsFiniteSet(Voting(c, model, metric)') /\ W \in Nat /\ W + 1 <= V
    BY <1>7, <1>8, <2>1, OneLess DEF Paid
  <2>3. Standing(c, model, metric)' \subseteq Standing(c, model, metric) \cup {<<x, u>>}
    <3> SUFFICES ASSUME NEW p \in Standing(c, model, metric)', p # <<x, u>>
                 PROVE  p \in Standing(c, model, metric)
      OBVIOUS
    <3>1. /\ p \in Scorers \X Streams /\ p[2].model = model /\ p[2].metric = metric
          /\ agree'[p[1]][p[2]][c] # Absent
      BY DEF Standing, Scorers
    <3>2. ~ (p[1] = x /\ p[2] = u)
      BY <3>1
    <3> QED BY <1>4, <3>1, <3>2 DEF Standing
  <2>4. IsFiniteSet(Standing(c, model, metric)') /\ U \in Nat /\ U <= T + 1
    BY <1>7, <2>3, OneMore DEF Paid
  <2>5. S + U + W <= L
    BY <1>10, <2>2, <2>4
  <2> QED BY <1>7, <1>9, <2>2, <2>4, <2>5 DEF Paid
<1>12. CASE ~ (c = d /\ model = u.model /\ metric = u.metric)
  <2>1. IsFiniteSet(Voting(c, model, metric)') /\ W \in Nat /\ W <= V
    BY <1>7, <1>8, NoMore DEF Paid
  <2>2. Standing(c, model, metric)' \subseteq Standing(c, model, metric)
    BY <1>4, <1>12, FewerStanding
  <2>3. IsFiniteSet(Standing(c, model, metric)') /\ U \in Nat /\ U <= T
    BY <1>7, <2>2, NoMore DEF Paid
  <2>4. S + U + W <= L
    BY <1>10, <2>1, <2>3
  <2> QED BY <1>7, <1>9, <2>1, <2>3, <2>4 DEF Paid
<1> QED BY <1>11, <1>12

\* A promotion takes the candidates it counts.
LEMMA PaidPromote ==
  ASSUME Inv, Accounted, NEW n \in Nodes, Promote(n)
  PROVE  Accounted'
<1>1. PICK x \in Scorers, u \in Streams : x = ScorerOf(n) /\ u = Stream(n)
  <2>1. req[n].pc \in InLoop /\ req[n].todo # <<>>
    BY AtScorerStep DEF AtScorer, Promote, At
  <2> QED BY <2>1, AtStep, ScorerType
<1>2. /\ req[n].pc = "promote" /\ req \in [Nodes -> Request]
      /\ UNCHANGED <<wire, local>> /\ agree \in Tables /\ clock \in Nat
  BY DEF Promote, At, Inv, Shape, Requests, wireVars, dbVars
<1>3. CASE UNCHANGED <<agree, promoted>> /\ NextMetric(n)
  <2>1. /\ \A m \in Nodes : m # n => req'[m] = req[m]
        /\ req'[n].pc # "candidate"
    BY <1>2, <1>3 DEF NextMetric, Request
  <2> QED BY <1>2, <1>3, <2>1, PaidAside, GrowsSelf DEF Inv
<1>4. CASE /\ agree' = [agree EXCEPT ![x][u] = EmptyTable]
           /\ req' = [req EXCEPT ![n].pc = "public",
                         ![n].count = Cardinality(LiveOrgs(agree[x][u], clock))]
           /\ promoted' = Append(promoted, [stream |-> u,
                             voters |-> LiveOrgs(agree[x][u], clock), at |-> clock])
  <2>1. /\ \A m \in Nodes : m # n => req'[m] = req[m]
        /\ req'[n].pc # "candidate"
    BY <1>2, <1>4 DEF Request
  <2>2. \A c, model, metric : Voting(c, model, metric)' \subseteq Voting(c, model, metric)
    BY <1>2, <2>1, OthersVoting, GrowsSelf DEF Inv
  <2>3. PICK p \in Promotion :
          /\ p = [stream |-> u, voters |-> LiveOrgs(agree[x][u], clock), at |-> clock]
          /\ promoted' = Append(promoted, p)
    BY <1>2, <1>4 DEF Promotion, LiveOrgs
  <2>4. \A c \in p.voters : agree[x][u][c] # Absent
    BY <2>3, <1>2, EmptyType DEF LiveOrgs
  <2>5. /\ agree'[x][u] = EmptyTable
        /\ \A y \in Scorers, s \in Streams : ~ (y = x /\ s = u) => agree'[y][s] = agree[y][s]
    BY <1>2, <1>4 DEF Tables
  <2>6. \A c \in Orgs : agree'[x][u][c] = Absent
    BY <2>5 DEF EmptyTable
  <2>7. promoted \in Seq(Promotion) /\ promoted' \in Seq(Promotion)
    BY <2>3 DEF Accounted
  <2> SUFFICES ASSUME NEW c \in Orgs, NEW model \in Models, NEW metric \in Metrics
               PROVE  Paid(c, model, metric)'
    BY <2>7 DEF Accounted
  <2>8. Paid(c, model, metric)
    BY DEF Accounted
  <2>9. Alerted(c, model, metric, local)' = Alerted(c, model, metric, local)
    BY <1>2 DEF Alerted
  <2> DEFINE S == Cardinality(Spent(c, model, metric, promoted))
             R == Cardinality(Spent(c, model, metric, promoted'))
             T == Cardinality(Standing(c, model, metric))
             U == Cardinality(Standing(c, model, metric)')
             V == Cardinality(Voting(c, model, metric))
             W == Cardinality(Voting(c, model, metric)')
             L == Cardinality(Alerted(c, model, metric, local))
  <2>10. S \in Nat /\ T \in Nat /\ V \in Nat /\ L \in Nat /\ S + T + V <= L
    BY <2>8, FS_CardinalityType DEF Paid
  <2>11. IsFiniteSet(Voting(c, model, metric)') /\ W \in Nat /\ W <= V
    BY <2>2, <2>8, NoMore DEF Paid
  <2>12. Standing(c, model, metric)' \subseteq Standing(c, model, metric)
    BY <2>5, <2>6, FewerStanding
  <2>13. CASE c \in p.voters /\ u.model = model /\ u.metric = metric
    <3>1. <<x, u>> \in Standing(c, model, metric)
      BY <2>4, <2>13 DEF Standing
    <3>2. <<x, u>> \notin Standing(c, model, metric)'
      BY <2>6 DEF Standing
    <3>3. IsFiniteSet(Standing(c, model, metric)') /\ U \in Nat /\ U + 1 <= T
      BY <2>8, <2>12, <3>1, <3>2, OneLess DEF Paid
    <3>4. Spent(c, model, metric, promoted')
            \subseteq Spent(c, model, metric, promoted) \cup {Len(promoted) + 1}
      BY <2>3, <2>7, AppendSpent
    <3>5. IsFiniteSet(Spent(c, model, metric, promoted')) /\ R \in Nat /\ R <= S + 1
      BY <2>8, <3>4, OneMore DEF Paid
    <3>6. R + U + W <= L
      BY <2>10, <2>11, <3>3, <3>5
    <3> QED BY <2>8, <2>9, <2>11, <3>3, <3>5, <3>6 DEF Paid
  <2>14. CASE ~ (c \in p.voters /\ u.model = model /\ u.metric = metric)
    <3>1. Spent(c, model, metric, promoted') = Spent(c, model, metric, promoted)
      BY <2>3, <2>7, <2>14, AppendSpent
    <3>2. IsFiniteSet(Standing(c, model, metric)') /\ U \in Nat /\ U <= T
      BY <2>8, <2>12, NoMore DEF Paid
    <3>3. S + U + W <= L
      BY <2>10, <2>11, <3>2
    <3> QED BY <2>8, <2>9, <2>11, <3>1, <3>2, <3>3 DEF Paid
  <2> QED BY <2>13, <2>14
<1> QED BY <1>1, <1>3, <1>4 DEF Promote, Dropped

\* Nothing is counted before the first promotion.
LEMMA EmptyPaid ==
  ASSUME Init PROVE Accounted
<1>1. promoted = <<>> /\ local = <<>> /\ promoted \in Seq(Promotion)
  BY DEF Init
<1>2. \A c \in Orgs, model \in Models, metric \in Metrics :
        /\ Spent(c, model, metric, promoted) = {}
        /\ Standing(c, model, metric) = {}
        /\ Voting(c, model, metric) = {}
        /\ Alerted(c, model, metric, local) = {}
  <2> TAKE c \in Orgs, model \in Models, metric \in Metrics
  <2>1. Voting(c, model, metric) = {}
    BY DEF Init, Voting, Idle
  <2>2. Standing(c, model, metric) = {}
    <3>1. \A p \in Scorers \X Streams : agree[p[1]][p[2]] = EmptyTable
      BY DEF Init
    <3>2. EmptyTable[c] = Absent
      BY DEF EmptyTable
    <3> QED BY <3>1, <3>2 DEF Standing
  <2>3. /\ Spent(c, model, metric, promoted) = {}
        /\ Alerted(c, model, metric, local) = {}
    BY <1>1 DEF Spent, Alerted
  <2> QED BY <2>1, <2>2, <2>3
<1>3. IsFiniteSet({}) /\ Cardinality({}) = 0
  BY FS_EmptySet
<1>4. \A c \in Orgs, model \in Models, metric \in Metrics : Paid(c, model, metric)
  BY <1>2, <1>3 DEF Paid
<1> QED BY <1>1, <1>4 DEF Accounted

\* A vote is spent by the promotion that counts it, in every run of every
\* deployment: whatever nodes interleave, calls fail, processes stop and
\* restart, a client's promotions and standing candidates on a model and a
\* metric never outnumber its public local alerts.
THEOREM NotReusedCorrect == Spec => []VotesNotReused
<1>1. Init => Accounted
  BY EmptyPaid
<1>2. Inv /\ Accounted /\ [Next]_vars => Accounted'
  <2> SUFFICES ASSUME Inv, Accounted, [Next]_vars PROVE Accounted'
    OBVIOUS
  <2> USE DEF wireVars, dbVars, scorerVars, processVars, historyVars
  <2>0. req \in [Nodes -> Request] /\ Grows(wire, wire) /\ Requests /\ agree \in Tables
    BY GrowsSelf DEF Inv, Requests, Shape
  <2>1. CASE UNCHANGED <<promoted, local, agree, req, wire>>
    BY <2>0, <2>1, PaidSame DEF Standing, Voting, Scorers
  <2>2. CASE Tick \/ UNCHANGED vars
    BY <2>1, <2>2 DEF Tick, vars
  <2>3. ASSUME NEW n \in Nodes, ReceiveNew(n) \/ Redeliver(n) PROVE Accounted'
    <3>1. /\ UNCHANGED <<agree, promoted, local>>
          /\ \A m \in Nodes : m # n => req'[m] = req[m]
          /\ req'[n].pc # "candidate" \/ req'[n] = req[n]
      BY <2>0, <2>3 DEF ReceiveNew, Redeliver, Admit
    <3>2. Grows(wire, wire')
      <4>1. wire \in Seq(Payload) /\ Payloads \subseteq Payload
        BY GatewayAssumption DEF Inv, Shape
      <4>2. wire' = wire \/ \E b \in Payloads : wire' = Append(wire, b)
        BY <2>3 DEF ReceiveNew, Redeliver
      <4> QED BY <4>1, <4>2, Appended, GrowsSelf
    <3> QED BY <2>0, <3>1, <3>2, PaidAside
  <2>4. ASSUME NEW n \in Nodes,
               \/ SaveBatch(n) \/ ScorePublic(n) \/ ScorePrivate(n) \/ Notify(n)
               \/ SavePublicAlert(n) \/ Respond(n) \/ Raise(n)
        PROVE  Accounted'
    <3>1. UNCHANGED <<wire, agree, promoted, local>>
      BY <2>4 DEF SaveBatch, ScorePublic, ScorePrivate, Notify, SavePublicAlert,
                  Respond, Raise
    <3>2. /\ \A m \in Nodes : m # n => req'[m] = req[m]
          /\ req'[n].pc # "candidate"
      BY <2>0, <2>4 DEF SaveBatch, ScorePublic, ScorePrivate, Notify, SavePublicAlert,
                        Respond, Raise, NextMetric, GoTo, Request, Idle
    <3> QED BY <2>0, <3>1, <3>2, PaidAside
  <2>5. ASSUME NEW n \in Nodes, ClearCandidates(n) \/ Stop(n) PROVE Accounted'
    <3>1. /\ UNCHANGED <<wire, promoted, local>>
          /\ \A m \in Nodes : m # n => req'[m] = req[m]
          /\ req'[n].pc # "candidate"
      BY <2>0, <2>5 DEF ClearCandidates, Stop, NextMetric, Request, Idle
    <3>2. \A x \in Scorers, s \in Streams, c \in Orgs :
            agree'[x][s][c] = agree[x][s][c] \/ agree'[x][s][c] = Absent
      <4> TAKE x \in Scorers, s \in Streams, c \in Orgs
      <4>1. EmptyTable[c] = Absent
        BY DEF EmptyTable
      <4>2. agree'[x][s] = agree[x][s] \/ agree'[x][s] = EmptyTable
        BY <2>0, <2>5 DEF ClearCandidates, Stop, Dropped, Tables
      <4> QED BY <4>1, <4>2
    <3>3. \A x \in Scorers, s \in Streams, c \in Orgs :
            agree'[x][s][c] # Absent => agree[x][s][c] # Absent
      BY <3>2
    <3>4. Requests
      BY <2>0
    <3> HIDE DEF wireVars, dbVars, scorerVars, processVars, historyVars
    <3>5. Grows(wire, wire') /\ UNCHANGED <<promoted, local>>
      BY <3>1, GrowsSelf
    <3> QED BY <3>1, <3>3, <3>4, <3>5, PaidAside
  <2>6. ASSUME NEW n \in Nodes,
               \/ Start(n)
               \/ \E f \in Fleets : RegisterWebhook(n, f) \/ Dispatch(n, f)
        PROVE  Accounted'
    BY <2>1, <2>6 DEF Start, RegisterWebhook, Dispatch
  <2> QED
    BY <2>2, <2>3, <2>4, <2>5, <2>6, PaidAlert, PaidIngest, PaidPromote DEF Next, Handle
<1>3. Accounted => VotesNotReused
  <2> SUFFICES ASSUME Accounted, NEW c \in Orgs, NEW model \in Models, NEW metric \in Metrics
               PROVE  Cardinality(Spent(c, model, metric, promoted))
                        <= Cardinality(Alerted(c, model, metric, local))
    BY DEF VotesNotReused, Spent, Alerted
  <2>1. Paid(c, model, metric)
    BY DEF Accounted
  <2> QED BY <2>1, FS_CardinalityType DEF Paid
<1> QED BY <1>1, <1>2, <1>3, Invariance, PTL DEF Spec

-----------------------------------------------------------------------------
(* Every promotion has a cause.                                            *)

\* Some public client's observation of stream s left the slack band.
Strayed(s) == \E c \in Orgs : <<s, c>> \in strayed

AlertPath == {"local", "candidate", "promote"}

\* What has accumulated, alerts, stands as a candidate or was promoted has a
\* cause on its own stream.
Caused ==
  /\ \A n \in Nodes : up[n]
  /\ detector \in [Nodes -> [Streams -> MetricState]]
  /\ promoted \in Seq(Promotion)
  /\ \A n \in Nodes, s \in Streams :
       /\ WellFormed(detector[n][s])
       /\ detector[n][s].pos > 0 \/ detector[n][s].neg > 0 => Strayed(s)
  /\ \A n \in Nodes : req[n].pc \in AlertPath /\ IsPublic(n) => Strayed(Stream(n))
  /\ \A x \in Scorers, s \in Streams, c \in Orgs :
       agree[x][s][c] # Absent => Strayed(s)
  /\ \A k \in DOMAIN promoted : Strayed(promoted[k].stream)

\* An accumulator leaves zero only on an observation outside the slack band,
\* and an alert needs one that has.
LEMMA ScoreCause ==
  ASSUME NEW st, WellFormed(st), NEW v \in Int
  PROVE  LET new == Updated(st, v)
             z == ZScore(st, v)
         IN  /\ WellFormed(new) /\ new \in MetricState
             /\ new.pos > 0 \/ new.neg > 0 =>
                  \/ st.pos > 0 \/ st.neg > 0
                  \/ st.ready /\ (z > K \/ -z > K)
             /\ Direction(new) # "none" => new.pos > 0 \/ new.neg > 0
<1> DEFINE new == Updated(st, v)
           z == ZScore(st, v)
<1>1. WellFormed(new) /\ new \in MetricState
  BY UpdatedWellFormed DEF WellFormed
<1>2. Direction(new) # "none" => new.pos > 0 \/ new.neg > 0
  BY <1>1, CusumAssumption DEF Direction, MetricState
<1>3. CASE ~ st.ready
  BY <1>1, <1>2, <1>3, CollectWellFormed DEF Updated
<1>4. CASE st.ready
  <2>1. /\ z \in Int /\ st.pos \in Nat /\ st.neg \in Nat /\ K \in Nat
    BY <1>4, ZScoreType, CusumAssumption DEF WellFormed, MetricState
  <2>2. new.pos = Positive(st.pos + z - K) /\ new.neg = Positive(st.neg - z - K)
    BY <1>4, AccumulateEffect DEF Updated
  <2> HIDE DEF new, z
  <2>3. /\ st.pos = 0 /\ ~ (z > K) => st.pos + z - K \in Int /\ st.pos + z - K <= 0
        /\ st.neg = 0 /\ ~ (-z > K) => st.neg - z - K \in Int /\ st.neg - z - K <= 0
    BY <2>1
  <2>4. /\ st.pos = 0 /\ ~ (z > K) => new.pos = 0
        /\ st.neg = 0 /\ ~ (-z > K) => new.neg = 0
    BY <2>2, <2>3, PositiveBounds
  <2>5. new.pos > 0 \/ new.neg > 0 =>
          st.pos > 0 \/ st.neg > 0 \/ z > K \/ -z > K
    BY <2>1, <2>4
  <2> QED BY <1>1, <1>2, <1>4, <2>5 DEF new, z
<1> QED BY <1>3, <1>4

\* A request keeps its stream for as long as it keeps its batch and its metrics.
LEMMA SameStream ==
  ASSUME Requests, NEW n \in Nodes, req[n].pc # "idle", Grows(wire, wire'),
         req'[n].id = req[n].id, req'[n].todo = req[n].todo
  PROVE  Stream(n)' = Stream(n) /\ IsPublic(n)' = IsPublic(n)
<1>1. req[n].id \in DOMAIN wire
  BY DEF Requests, Sound
<1>2. wire'[req'[n].id] = wire[req[n].id]
  BY <1>1 DEF Grows
<1> QED BY <1>2 DEF Stream, StreamOf, Batch, Metric, IsPublic

\* A step of node n that scores no public batch.
LEMMA CausedAside ==
  ASSUME Caused, Requests, NEW n \in Nodes,
         \A m \in Nodes : m # n => req'[m] = req[m],
         Grows(wire, wire'), UNCHANGED <<up, detector, strayed>>,
         \/ req'[n].pc \notin AlertPath
         \/ ~ IsPublic(n)'
         \/ /\ req[n].pc \in AlertPath
            /\ req'[n].id = req[n].id /\ req'[n].todo = req[n].todo,
         \A x \in Scorers, s \in Streams, c \in Orgs :
           agree'[x][s][c] # Absent => agree[x][s][c] # Absent \/ Strayed(s),
         promoted' \in Seq(Promotion),
         \A k \in DOMAIN promoted' : Strayed(promoted'[k].stream)
  PROVE  Caused'
<1>1. \A s : Strayed(s)' = Strayed(s)
  BY DEF Strayed
<1>2. ASSUME NEW m \in Nodes, req'[m].pc \in AlertPath, IsPublic(m)'
      PROVE  Strayed(Stream(m))'
  <2>1. /\ req[m].pc \in AlertPath
        /\ req'[m].id = req[m].id /\ req'[m].todo = req[m].todo
    BY <1>2
  <2>2. Stream(m)' = Stream(m) /\ IsPublic(m)' = IsPublic(m)
    BY <2>1, SameStream DEF AlertPath
  <2>3. Strayed(Stream(m))
    BY <1>2, <2>1, <2>2 DEF Caused
  <2> QED BY <2>2, <2>3 DEF Strayed
<1>3. \A x \in Scorers, s \in Streams, c \in Orgs :
        agree'[x][s][c] # Absent => Strayed(s)'
  BY <1>1 DEF Caused
<1>4. \A m \in Nodes, s \in Streams :
        /\ WellFormed(detector'[m][s])
        /\ detector'[m][s].pos > 0 \/ detector'[m][s].neg > 0 => Strayed(s)'
  BY <1>1 DEF Caused
<1>5. \A k \in DOMAIN promoted' : \E c \in Orgs : <<promoted'[k].stream, c>> \in strayed'
  BY DEF Strayed
<1>6. (\A m \in Nodes : up'[m]) /\ detector' \in [Nodes -> [Streams -> MetricState]]
  BY DEF Caused
<1>7. (\A k \in DOMAIN promoted : Strayed(promoted[k].stream))'
  BY <1>5 DEF Strayed
<1>8. (\A m \in Nodes : req[m].pc \in AlertPath /\ IsPublic(m) => Strayed(Stream(m)))'
  BY <1>2
<1> QED BY <1>3, <1>4, <1>6, <1>7, <1>8 DEF Caused, Scorers

\* Scoring a public batch: what starts to accumulate has just strayed.
LEMMA CausedScore ==
  ASSUME Inv, Caused, NEW n \in Nodes, ScorePublic(n)
  PROVE  Caused'
<1>1. req[n].pc = "metric" /\ req[n].pc \in InLoop /\ req[n].todo # <<>>
  BY DEF ScorePublic, At, InLoop
<1>2. PICK u \in Streams, c \in Orgs, v \in Int :
        u = Stream(n) /\ c = Batch(n).client /\ v = Metric(n).value
  <2>1. req[n].todo \in Seq(Pairs)
    BY DEF Inv, Requests, Request, Pairs
  <2>2. Head(req[n].todo) \in Pairs
    BY <1>1, <2>1
  <2> QED BY <1>1, <2>2, AtStep DEF Metric, Pairs
<1>3. PICK old : old = detector[n][u]
  OBVIOUS
<1>4. PICK new : new = Updated(old, v)
  OBVIOUS
<1>5. PICK z : z = ZScore(old, v)
  OBVIOUS
<1>6. /\ IsPublic(n)
      /\ detector' = [detector EXCEPT ![n][u] = new]
      /\ IF Direction(new) = "none" THEN NextMetric(n) ELSE GoTo(n, "local")
      /\ strayed' = IF old.ready /\ (z > K \/ -z > K)
                    THEN strayed \cup {<<u, c>>} ELSE strayed
      /\ UNCHANGED <<wire, agree, up, promoted>>
  BY <1>2, <1>3, <1>4, <1>5 DEF ScorePublic, wireVars
<1>7. /\ WellFormed(old) /\ (old.pos > 0 \/ old.neg > 0 => Strayed(u))
      /\ detector \in [Nodes -> [Streams -> MetricState]]
      /\ req \in [Nodes -> Request] /\ Requests
  BY <1>3 DEF Caused, Inv, Requests
<1>8. /\ WellFormed(new) /\ new \in MetricState
      /\ new.pos > 0 \/ new.neg > 0 =>
           \/ old.pos > 0 \/ old.neg > 0
           \/ old.ready /\ (z > K \/ -z > K)
      /\ Direction(new) # "none" => new.pos > 0 \/ new.neg > 0
  BY <1>4, <1>5, <1>7, ScoreCause
<1>9. \A s : Strayed(s) => Strayed(s)'
  BY <1>6 DEF Strayed
<1>10. new.pos > 0 \/ new.neg > 0 => Strayed(u)'
  BY <1>6, <1>7, <1>8, <1>9 DEF Strayed
<1>11. detector' \in [Nodes -> [Streams -> MetricState]]
  BY <1>6, <1>7, <1>8
<1>12. ASSUME NEW m \in Nodes, NEW s \in Streams
       PROVE  /\ WellFormed(detector'[m][s])
              /\ detector'[m][s].pos > 0 \/ detector'[m][s].neg > 0 => Strayed(s)'
  <2>1. CASE m = n /\ s = u
    <3>1. detector'[m][s] = new
      BY <1>6, <1>7, <2>1
    <3> QED BY <1>8, <1>10, <2>1, <3>1
  <2>2. CASE ~ (m = n /\ s = u)
    <3>1. detector'[m][s] = detector[m][s]
      BY <1>6, <1>7, <2>2
    <3> QED BY <1>9, <3>1 DEF Caused
  <2> QED BY <2>1, <2>2
<1>13. ASSUME NEW m \in Nodes, req'[m].pc \in AlertPath, IsPublic(m)'
       PROVE  Strayed(Stream(m))'
  <2>1. CASE m = n
    <3>1. /\ Direction(new) # "none"
          /\ req'[n].id = req[n].id /\ req'[n].todo = req[n].todo
      BY <1>6, <1>7, <1>13, <2>1 DEF NextMetric, GoTo, Request, AlertPath
    <3>2. Stream(n)' = u
      BY <1>1, <1>2, <1>6, <1>7, <3>1, SameStream, GrowsSelf
    <3>3. Strayed(u)'
      BY <1>8, <1>10, <3>1
    <3> QED BY <2>1, <3>2, <3>3 DEF Strayed
  <2>2. CASE m # n
    <3>1. req'[m] = req[m]
      BY <1>6, <1>7, <2>2 DEF NextMetric, GoTo
    <3>2. Stream(m)' = Stream(m) /\ IsPublic(m)' = IsPublic(m)
      BY <1>6, <3>1 DEF Stream, StreamOf, Batch, Metric, IsPublic
    <3>3. Strayed(Stream(m))
      BY <1>13, <3>1, <3>2 DEF Caused
    <3> QED BY <1>6, <3>2, <3>3 DEF Strayed
  <2> QED BY <2>1, <2>2
<1>14. \A x \in Scorers, s \in Streams, d \in Orgs :
         agree'[x][s][d] # Absent => Strayed(s)'
  BY <1>6, <1>9 DEF Caused
<1>15. (\A k \in DOMAIN promoted : Strayed(promoted[k].stream))'
  BY <1>6 DEF Caused, Strayed
<1>16. (\A m \in Nodes : up[m])' /\ (promoted \in Seq(Promotion))'
  BY <1>6 DEF Caused
<1>17. (\A m \in Nodes : req[m].pc \in AlertPath /\ IsPublic(m) => Strayed(Stream(m)))'
  BY <1>13
<1> QED BY <1>11, <1>12, <1>14, <1>15, <1>16, <1>17 DEF Caused, Scorers

\* A candidate stands where its alert was.
LEMMA CausedIngest ==
  ASSUME Inv, Caused, NEW n \in Nodes, IngestCandidate(n)
  PROVE  Caused'
<1>1. PICK x \in Scorers, u \in Streams, d \in Orgs :
        x = ScorerOf(n) /\ u = Stream(n) /\ d = Batch(n).client
  <2>1. req[n].pc \in InLoop /\ req[n].todo # <<>>
    BY AtScorerStep DEF AtScorer, IngestCandidate, At
  <2> QED BY <2>1, AtStep, ScorerType
<1>2. /\ req[n].pc = "candidate" /\ GoTo(n, "promote") /\ req \in [Nodes -> Request]
      /\ agree' = [agree EXCEPT ![x][u] = Record(@, d, clock)]
      /\ UNCHANGED <<wire, up, detector, promoted, strayed>>
      /\ agree \in Tables /\ clock \in Nat
  BY <1>1 DEF IngestCandidate, At, Inv, Shape, Requests, wireVars, historyVars
<1>3. Strayed(u)
  <2>1. IsPublic(n)
    BY <1>2, AtScorerStep DEF AtScorer, IsPublic
  <2> QED BY <1>1, <1>2, <2>1 DEF Caused, AlertPath
<1>4. \A y \in Scorers, s \in Streams, c \in Orgs :
        agree'[y][s][c] # Absent => agree[y][s][c] # Absent \/ Strayed(s)
  <2> TAKE y \in Scorers, s \in Streams, c \in Orgs
  <2>1. CASE y = x /\ s = u
    BY <1>3, <2>1
  <2>2. CASE ~ (y = x /\ s = u)
    BY <1>2, <2>2 DEF Tables
  <2> QED BY <2>1, <2>2
<1>5. /\ \A m \in Nodes : m # n => req'[m] = req[m]
      /\ req'[n].id = req[n].id /\ req'[n].todo = req[n].todo
      /\ req[n].pc \in AlertPath
  BY <1>2 DEF GoTo, Request, AlertPath
<1>6. promoted' \in Seq(Promotion) /\ \A k \in DOMAIN promoted' : Strayed(promoted'[k].stream)
  BY <1>2 DEF Caused
<1> QED BY <1>2, <1>4, <1>5, <1>6, CausedAside, GrowsSelf DEF Inv

\* A promotion has the cause of the candidates it counts.
LEMMA CausedPromote ==
  ASSUME Inv, Caused, NEW n \in Nodes, Promote(n)
  PROVE  Caused'
<1>1. PICK x \in Scorers, u \in Streams : x = ScorerOf(n) /\ u = Stream(n)
  <2>1. req[n].pc \in InLoop /\ req[n].todo # <<>>
    BY AtScorerStep DEF AtScorer, Promote, At
  <2> QED BY <2>1, AtStep, ScorerType
<1>2. /\ req[n].pc = "promote" /\ req \in [Nodes -> Request]
      /\ UNCHANGED <<wire, up, detector, strayed>>
      /\ agree \in Tables /\ clock \in Nat
      /\ promoted \in Seq(Promotion)
  BY DEF Promote, At, Inv, Shape, Requests, wireVars, Caused
<1>3. /\ \A m \in Nodes : m # n => req'[m] = req[m]
      /\ req'[n].pc \notin AlertPath
  BY <1>2 DEF Promote, NextMetric, Request, AlertPath
<1>4. \A y \in Scorers, s \in Streams, c \in Orgs :
        agree'[y][s][c] # Absent => agree[y][s][c] # Absent
  <2>1. CASE UNCHANGED agree
    BY <2>1
  <2>2. CASE agree' = [agree EXCEPT ![x][u] = EmptyTable]
    <3> TAKE y \in Scorers, s \in Streams, c \in Orgs
    <3>1. EmptyTable[c] = Absent
      BY DEF EmptyTable
    <3>2. agree'[y][s] = agree[y][s] \/ agree'[y][s] = EmptyTable
      BY <1>2, <2>2 DEF Tables
    <3> QED BY <3>1, <3>2
  <2> QED BY <1>1, <2>1, <2>2 DEF Promote, Dropped
<1>5. promoted' \in Seq(Promotion) /\ \A k \in DOMAIN promoted' : Strayed(promoted'[k].stream)
  <2>1. CASE UNCHANGED promoted
    BY <2>1 DEF Caused
  <2>2. CASE /\ QuorumMet(observers[x][u], agree[x][u], clock)
             /\ promoted' = Append(promoted, [stream |-> u,
                               voters |-> LiveOrgs(agree[x][u], clock), at |-> clock])
    <3>1. PICK p \in Promotion : p.stream = u /\ promoted' = Append(promoted, p)
      BY <1>2, <2>2 DEF Promotion, LiveOrgs
    <3>2. /\ promoted' \in Seq(Promotion)
          /\ DOMAIN promoted' = DOMAIN promoted \cup {Len(promoted) + 1}
          /\ \A k \in DOMAIN promoted : promoted'[k] = promoted[k]
          /\ promoted'[Len(promoted) + 1] = p
      BY <1>2, <3>1, Appended DEF Grows
    <3>3. Strayed(u)
      <4>1. PICK c \in Orgs : agree[x][u][c] # Absent
        BY <2>2 DEF QuorumMet, LiveOrgs
      <4> QED BY <4>1 DEF Caused
    <3> QED BY <3>1, <3>2, <3>3 DEF Caused
  <2> QED BY <1>1, <2>1, <2>2 DEF Promote
<1> QED BY <1>2, <1>3, <1>4, <1>5, CausedAside, GrowsSelf DEF Inv

\* Every promotion has a cause on its own stream: a public client's observation
\* left the slack band of that stream.  Other suites, metrics and private
\* fleets add nothing.  A process that stops is left out: what it re-warms from
\* the database scores rows of private fleets too.
THEOREM CauseCorrect ==
  ASSUME ~ MayStop
  PROVE  Spec => []PublicAlertHasCause
<1>1. Init => Caused
  <2> SUFFICES ASSUME Init PROVE Caused
    OBVIOUS
  <2>1. /\ \A n \in Nodes : up[n] /\ req[n].pc = "idle"
        /\ detector \in [Nodes -> [Streams -> MetricState]]
        /\ \A n \in Nodes, s \in Streams : detector[n][s] = NewMetricState
    BY NewWellFormed DEF Init, Untracked, Idle, WellFormed
  <2>2. \A x \in Scorers, s \in Streams, c \in Orgs : agree[x][s][c] = Absent
    BY DEF Init, EmptyTable
  <2>3. promoted \in Seq(Promotion) /\ DOMAIN promoted = {}
    BY DEF Init
  <2>4. NewMetricState.pos = 0 /\ NewMetricState.neg = 0
    BY DEF NewMetricState
  <2> QED BY <2>1, <2>2, <2>3, <2>4, NewWellFormed DEF Caused, AlertPath
<1>2. Inv /\ Caused /\ [Next]_vars => Caused'
  <2> SUFFICES ASSUME Inv, Caused, [Next]_vars PROVE Caused'
    OBVIOUS
  <2> USE DEF wireVars, dbVars, scorerVars, processVars, historyVars, worldVars
  <2>0. /\ req \in [Nodes -> Request] /\ Grows(wire, wire) /\ Requests
        /\ agree \in Tables /\ promoted \in Seq(Promotion)
        /\ \A k \in DOMAIN promoted : Strayed(promoted[k].stream)
    BY GrowsSelf DEF Inv, Requests, Shape, Caused
  <2>1. CASE UNCHANGED <<up, detector, promoted, req, wire, agree, strayed>>
    BY <2>1 DEF Caused, Strayed, Stream, StreamOf, Batch, Metric, IsPublic, Scorers
  <2>2. CASE Tick \/ UNCHANGED vars
    BY <2>1, <2>2 DEF Tick, vars
  <2>3. ASSUME NEW n \in Nodes, ReceiveNew(n) \/ Redeliver(n) PROVE Caused'
    <3>1. /\ UNCHANGED <<agree, promoted, up, detector, strayed>>
          /\ \A m \in Nodes : m # n => req'[m] = req[m]
          /\ req'[n].pc \notin AlertPath
      BY <2>0, <2>3 DEF ReceiveNew, Redeliver, Admit, At, AlertPath
    <3>2. Grows(wire, wire')
      <4>1. wire \in Seq(Payload) /\ Payloads \subseteq Payload
        BY GatewayAssumption DEF Inv, Shape
      <4>2. wire' = wire \/ \E b \in Payloads : wire' = Append(wire, b)
        BY <2>3 DEF ReceiveNew, Redeliver
      <4> QED BY <4>1, <4>2, Appended, GrowsSelf
    <3> QED BY <2>0, <3>1, <3>2, CausedAside
  <2>4. ASSUME NEW n \in Nodes,
               \/ SaveBatch(n) \/ SaveLocalAlert(n) \/ Notify(n)
               \/ SavePublicAlert(n) \/ Respond(n) \/ Raise(n)
        PROVE  Caused'
    <3>1. UNCHANGED <<wire, agree, promoted, up, detector, strayed>>
      BY <2>4 DEF SaveBatch, SaveLocalAlert, Notify, SavePublicAlert, Respond, Raise
    <3>2. /\ \A m \in Nodes : m # n => req'[m] = req[m]
          /\ \/ req'[n].pc \notin AlertPath
             \/ /\ req[n].pc \in AlertPath
                /\ req'[n].id = req[n].id /\ req'[n].todo = req[n].todo
      BY <2>0, <2>4 DEF SaveBatch, SaveLocalAlert, Notify, SavePublicAlert,
                        Respond, Raise, NextMetric, GoTo, Request, Idle, AlertPath, At
    <3> QED BY <2>0, <3>1, <3>2, CausedAside
  <2>5. ASSUME NEW n \in Nodes, ClearCandidates(n) PROVE Caused'
    <3>1. /\ UNCHANGED <<wire, promoted, up, detector, strayed>>
          /\ \A m \in Nodes : m # n => req'[m] = req[m]
          /\ req'[n].pc \notin AlertPath
      BY <2>0, <2>5 DEF ClearCandidates, NextMetric, Request, AlertPath
    <3>2. \A x \in Scorers, s \in Streams, c \in Orgs :
            agree'[x][s][c] = agree[x][s][c] \/ agree'[x][s][c] = Absent
      <4> TAKE x \in Scorers, s \in Streams, c \in Orgs
      <4>1. EmptyTable[c] = Absent
        BY DEF EmptyTable
      <4>2. agree'[x][s] = agree[x][s] \/ agree'[x][s] = EmptyTable
        BY <2>0, <2>5 DEF ClearCandidates, Dropped, Tables
      <4> QED BY <4>1, <4>2
    <3> HIDE DEF wireVars, dbVars, scorerVars, processVars, historyVars
    <3>3. \A x \in Scorers, s \in Streams, c \in Orgs :
            agree'[x][s][c] # Absent => agree[x][s][c] # Absent
      BY <3>2
    <3> QED BY <2>0, <3>1, <3>3, CausedAside
  <2>6. ASSUME NEW n \in Nodes, ScorePrivate(n) PROVE Caused'
    <3>1. /\ UNCHANGED <<wire, agree, promoted, up, detector, strayed>>
          /\ \A m \in Nodes : m # n => req'[m] = req[m]
          /\ req'[n].id = req[n].id /\ req[n].pc = "metric" /\ ~ IsPublic(n)
      BY <2>0, <2>6 DEF ScorePrivate, NextMetric, GoTo, Request, At
    <3>2. ~ IsPublic(n)'
      BY <3>1 DEF IsPublic, Batch
    <3> QED BY <2>0, <3>1, <3>2, CausedAside
  <2>7. ASSUME NEW n \in Nodes,
               \/ Stop(n) \/ Start(n)
               \/ \E f \in Fleets : RegisterWebhook(n, f) \/ Dispatch(n, f)
        PROVE  Caused'
    BY <2>1, <2>7 DEF Stop, Start, RegisterWebhook, Dispatch, Caused
  <2> QED
    BY <2>2, <2>3, <2>4, <2>5, <2>6, <2>7, CausedScore, CausedIngest, CausedPromote
       DEF Next, Handle
<1>3. Caused => PublicAlertHasCause
  BY DEF Caused, Strayed, PublicAlertHasCause
<1> QED BY <1>1, <1>2, <1>3, Invariance, PTL DEF Spec

-----------------------------------------------------------------------------
(* Replaying observations.                                                 *)

\* Every set of natural numbers but the empty one has a least member.
LEMMA Least ==
  ASSUME NEW S \in SUBSET Nat, S # {}
  PROVE  \E n \in S : \A m \in S : n <= m
<1> DEFINE R == OpToRel(<, Nat)
<1>1. IsWellFoundedOn(R, Nat)
  BY NatLessThanWellFounded
<1>2. R = {p \in Nat \X Nat : p[1] < p[2]}
  BY DEF OpToRel
<1> HIDE DEF R
<1>3. PICK n \in S : \A m \in S : ~ (<<m, n>> \in R)
  BY <1>1, WFMin
<1>4. ASSUME NEW m \in S PROVE n <= m
  <2>1. <<m, n>> \notin R
    BY <1>3
  <2>2. m \in Nat /\ n \in Nat
    OBVIOUS
  <2> QED BY <1>2, <2>1, <2>2
<1> QED BY <1>4

\* st goes through the observations V[k], of which it is fed those at places P.
Run(n, P, V, st) ==
  st = [k \in 0 .. n |-> IF k = 0 THEN NewMetricState
                         ELSE IF k \in P THEN Updated(st[k - 1], V[k])
                         ELSE st[k - 1]]

\* The state it ends in.
Outcome(n, P, V) == (CHOOSE st : Run(n, P, V, st))[n]

LEMMA RunSteps ==
  ASSUME NEW n \in Nat, NEW P, NEW V, NEW st, Run(n, P, V, st)
  PROVE  /\ st[0] = NewMetricState
         /\ \A k \in 1 .. n :
              st[k] = IF k \in P THEN Updated(st[k - 1], V[k]) ELSE st[k - 1]
<1> DEFINE f == [k \in 0 .. n |-> IF k = 0 THEN NewMetricState
                         ELSE IF k \in P THEN Updated(st[k - 1], V[k])
                         ELSE st[k - 1]]
<1>1. st = f
  BY DEF Run
<1>2. f[0] = NewMetricState
  OBVIOUS
<1>3. \A k \in 1 .. n :
        f[k] = IF k \in P THEN Updated(st[k - 1], V[k]) ELSE st[k - 1]
  OBVIOUS
<1> HIDE DEF f
<1> QED BY <1>1, <1>2, <1>3

\* Two runs agree as long as they are fed alike.
LEMMA RunsAgree ==
  ASSUME NEW n \in Nat, NEW m \in Nat, NEW j \in 0 .. n, j <= m,
         NEW P, NEW V, NEW Q, NEW W,
         \A k \in 1 .. j : (k \in P <=> k \in Q) /\ (k \in P => V[k] = W[k]),
         NEW st, Run(n, P, V, st), NEW ru, Run(m, Q, W, ru)
  PROVE  st[j] = ru[j]
<1> DEFINE S == {k \in 0 .. j : st[k] # ru[k]}
<1>1. SUFFICES ASSUME S # {} PROVE FALSE
  BY <1>1
<1>2. S \in SUBSET Nat
  OBVIOUS
<1>3. PICK k \in S : \A i \in S : k <= i
  BY <1>1, <1>2, Least
<1>4. k \in 0 .. j /\ st[k] # ru[k]
  BY <1>3
<1>5. k # 0
  BY <1>4, RunSteps
<1>6. k - 1 \in 0 .. j /\ ~ (k <= k - 1) /\ k \in 1 .. j /\ k \in 1 .. n /\ k \in 1 .. m
  BY <1>4, <1>5
<1>7. st[k - 1] = ru[k - 1]
  BY <1>3, <1>6
<1>8. st[k] = IF k \in P THEN Updated(st[k - 1], V[k]) ELSE st[k - 1]
  BY <1>6, RunSteps
<1>9. ru[k] = IF k \in Q THEN Updated(ru[k - 1], W[k]) ELSE ru[k - 1]
  BY <1>6, RunSteps
<1> QED BY <1>4, <1>6, <1>7, <1>8, <1>9

\* A run can be continued by one observation.
LEMMA RunGrows ==
  ASSUME NEW n \in Nat, NEW P, NEW V, NEW st, Run(n, P, V, st)
  PROVE  \E ru : Run(n + 1, P, V, ru)
<1> DEFINE ru == [k \in 0 .. n + 1 |->
                    IF k \in 0 .. n THEN st[k]
                    ELSE IF k \in P THEN Updated(st[n], V[k]) ELSE st[n]]
<1>1. \A k \in 0 .. n : ru[k] = st[k]
  OBVIOUS
<1>2. ru[n + 1] = IF n + 1 \in P THEN Updated(st[n], V[n + 1]) ELSE st[n]
  OBVIOUS
<1>3. ru = [k \in 0 .. n + 1 |-> ru[k]]
  OBVIOUS
<1> HIDE DEF ru
<1>4. ASSUME NEW k \in 0 .. n + 1
      PROVE  ru[k] = IF k = 0 THEN NewMetricState
                     ELSE IF k \in P THEN Updated(ru[k - 1], V[k])
                     ELSE ru[k - 1]
  <2>1. CASE k = 0
    BY <1>1, <2>1, RunSteps
  <2>2. CASE k \in 1 .. n
    <3>1. k # 0 /\ k - 1 \in 0 .. n /\ k \in 0 .. n
      BY <2>2
    <3>2. st[k] = IF k \in P THEN Updated(st[k - 1], V[k]) ELSE st[k - 1]
      BY <2>2, RunSteps
    <3> QED BY <1>1, <3>1, <3>2
  <2>3. CASE k = n + 1
    <3>1. k # 0 /\ k - 1 = n /\ n \in 0 .. n
      BY <2>3
    <3> QED BY <1>1, <1>2, <2>3, <3>1
  <2>4. k = 0 \/ k \in 1 .. n \/ k = n + 1
    OBVIOUS
  <2> QED BY <2>1, <2>2, <2>3, <2>4
<1> DEFINE g == [k \in 0 .. n + 1 |-> IF k = 0 THEN NewMetricState
                     ELSE IF k \in P THEN Updated(ru[k - 1], V[k])
                     ELSE ru[k - 1]]
<1>5. ru = g
  BY <1>3, <1>4
<1>6. Run(n + 1, P, V, ru)
  BY <1>5 DEF Run
<1> QED BY <1>6

LEMMA RunExists ==
  ASSUME NEW n \in Nat, NEW P, NEW V
  PROVE  \E st : Run(n, P, V, st)
<1> DEFINE S == {k \in Nat : ~ \E st : Run(k, P, V, st)}
<1>1. SUFFICES ASSUME S # {} PROVE FALSE
  BY <1>1
<1>2. PICK k \in S : \A i \in S : k <= i
  BY <1>1, Least
<1>3. k \in Nat /\ ~ \E st : Run(k, P, V, st)
  BY <1>2
<1>4. k # 0
  <2> DEFINE st == [i \in {0} |-> NewMetricState]
             g == [i \in 0 .. 0 |-> IF i = 0 THEN NewMetricState
                         ELSE IF i \in P THEN Updated(st[i - 1], V[i])
                         ELSE st[i - 1]]
  <2>1. 0 .. 0 = {0}
    OBVIOUS
  <2>2. st = g
    BY <2>1
  <2>3. Run(0, P, V, st)
    BY <2>2 DEF Run
  <2> QED BY <1>3, <2>3
<1>5. k - 1 \in Nat /\ ~ (k <= k - 1) /\ (k - 1) + 1 = k
  BY <1>3, <1>4
<1>6. PICK st : Run(k - 1, P, V, st)
  BY <1>2, <1>5
<1>7. \E ru : Run(k, P, V, ru)
  BY <1>5, <1>6, RunGrows
<1> QED BY <1>3, <1>7

\* One more observation, and none.
LEMMA OutcomeStep ==
  ASSUME NEW n \in Nat, NEW P, NEW V, NEW Q, NEW W,
         \A k \in 1 .. n : (k \in P <=> k \in Q) /\ (k \in P => V[k] = W[k])
  PROVE  /\ Outcome(0, P, V) = NewMetricState
         /\ Outcome(n, Q, W) = Outcome(n, P, V)
         /\ Outcome(n + 1, Q, W) = IF n + 1 \in Q
                                   THEN Updated(Outcome(n, P, V), W[n + 1])
                                   ELSE Outcome(n, P, V)
<1> DEFINE a == CHOOSE st : Run(n, P, V, st)
           b == CHOOSE st : Run(n, Q, W, st)
           c == CHOOSE st : Run(n + 1, Q, W, st)
           d == CHOOSE st : Run(0, P, V, st)
<1>1. Run(n, P, V, a) /\ Run(n, Q, W, b) /\ Run(0, P, V, d)
  BY RunExists
<1>2. Run(n + 1, Q, W, c)
  <2>1. n + 1 \in Nat
    OBVIOUS
  <2> QED BY <2>1, RunExists
<1>3. /\ Outcome(n, P, V) = a[n] /\ Outcome(n, Q, W) = b[n]
      /\ Outcome(n + 1, Q, W) = c[n + 1] /\ Outcome(0, P, V) = d[0]
  BY DEF Outcome
<1> HIDE DEF a, b, c, d
<1>4. n \in 0 .. n /\ n <= n /\ n <= n + 1 /\ n + 1 \in Nat
      /\ n + 1 \in 1 .. n + 1 /\ (n + 1) - 1 = n
  OBVIOUS
<1>5. a[n] = b[n]
  BY <1>1, <1>4, RunsAgree
<1>6. a[n] = c[n]
  BY <1>1, <1>2, <1>4, RunsAgree
<1>7. c[n + 1] = IF n + 1 \in Q THEN Updated(c[n], W[n + 1]) ELSE c[n]
  <2>1. \A k \in 1 .. n + 1 :
          c[k] = IF k \in Q THEN Updated(c[k - 1], W[k]) ELSE c[k - 1]
    BY <1>2, <1>4, RunSteps
  <2>2. c[n + 1] = IF n + 1 \in Q THEN Updated(c[(n + 1) - 1], W[n + 1])
                   ELSE c[(n + 1) - 1]
    BY <1>4, <2>1
  <2> QED BY <1>4, <2>2
<1>8. d[0] = NewMetricState
  BY <1>1, RunSteps
<1> QED BY <1>3, <1>5, <1>6, <1>7, <1>8

LEMMA OutcomeStart == \A P, V : Outcome(0, P, V) = NewMetricState
<1>1. 0 \in Nat /\ \A P, V : \A k \in 1 .. 0 : k \in P => V[k] = V[k]
  OBVIOUS
<1> QED BY <1>1, OutcomeStep

\* The same run with its last observation, and without.
LEMMA OutcomeNext ==
  ASSUME NEW n \in Nat, NEW P, NEW V, NEW Q,
         \A k \in 1 .. n : k \in P <=> k \in Q,
         n + 1 \notin P, n + 1 \in Q
  PROVE  Outcome(n + 1, Q, V) = Updated(Outcome(n + 1, P, V), V[n + 1])
<1>1. Outcome(n + 1, P, V) = Outcome(n, P, V)
  BY OutcomeStep
<1>2. Outcome(n + 1, Q, V) = Updated(Outcome(n, P, V), V[n + 1])
  <2>1. \A k \in 1 .. n : (k \in P <=> k \in Q) /\ (k \in P => V[k] = V[k])
    OBVIOUS
  <2>2. Outcome(n + 1, Q, V) = IF n + 1 \in Q
                               THEN Updated(Outcome(n, P, V), V[n + 1])
                               ELSE Outcome(n, P, V)
    BY <2>1, OutcomeStep
  <2> QED BY <2>2
<1> QED BY <1>1, <1>2

\* A stream that is fed integers stays well-formed.
LEMMA OutcomeWellFormed ==
  ASSUME NEW n \in Nat, NEW P, NEW V, \A k \in 1 .. n : k \in P => V[k] \in Int
  PROVE  WellFormed(Outcome(n, P, V))
<1> DEFINE st == CHOOSE st : Run(n, P, V, st)
           S == {k \in 0 .. n : ~ WellFormed(st[k])}
<1>1. Run(n, P, V, st)
  BY RunExists
<1>2. Outcome(n, P, V) = st[n]
  BY DEF Outcome
<1> HIDE DEF st
<1>3. SUFFICES ASSUME S # {} PROVE FALSE
  BY <1>2, <1>3
<1>4. S \in SUBSET Nat
  OBVIOUS
<1>5. PICK k \in S : \A i \in S : k <= i
  BY <1>3, <1>4, Least
<1>6. k \in 0 .. n /\ ~ WellFormed(st[k])
  BY <1>5
<1>7. k # 0
  BY <1>1, <1>6, RunSteps, NewWellFormed
<1>8. k - 1 \in 0 .. n /\ ~ (k <= k - 1) /\ k \in 1 .. n
  BY <1>6, <1>7
<1>9. WellFormed(st[k - 1])
  BY <1>5, <1>8
<1>10. st[k] = IF k \in P THEN Updated(st[k - 1], V[k]) ELSE st[k - 1]
  BY <1>1, <1>8, RunSteps
<1>11. k \in P => WellFormed(Updated(st[k - 1], V[k]))
  BY <1>8, <1>9, UpdatedWellFormed
<1> QED BY <1>6, <1>9, <1>10, <1>11

-----------------------------------------------------------------------------
(* The rows as observations.                                               *)

ValuesOf(metric) == [k \in DOMAIN rows |-> ValueOf(rows[k], metric)]

\* Replay is the outcome of a run over the rows.
LEMMA ReplayOutcome ==
  ASSUME Len(rows) \in Nat, DOMAIN rows = 1 .. Len(rows), NEW P, NEW metric
  PROVE  Replay(P, metric) = Outcome(Len(rows), P, ValuesOf(metric))
<1> DEFINE n == Len(rows)
           V == ValuesOf(metric)
           Fits(st) == st = [k \in 0 .. n |->
                               IF k = 0 THEN NewMetricState
                               ELSE IF k \in P
                               THEN Updated(st[k - 1], ValueOf(rows[k], metric))
                               ELSE st[k - 1]]
           a == CHOOSE st : Fits(st)
           b == CHOOSE st : Run(n, P, V, st)
<1>1. Replay(P, metric) = a[n]
  BY DEF Replay
<1>2. Outcome(n, P, V) = b[n]
  BY DEF Outcome
<1>3. \A k \in 1 .. n : V[k] = ValueOf(rows[k], metric)
  BY DEF ValuesOf
<1>4. n \in Nat
  OBVIOUS
<1> HIDE DEF n, V
<1>5. ASSUME NEW st PROVE Fits(st) <=> Run(n, P, V, st)
  <2> DEFINE f == [k \in 0 .. n |-> IF k = 0 THEN NewMetricState
                                    ELSE IF k \in P
                                    THEN Updated(st[k - 1], ValueOf(rows[k], metric))
                                    ELSE st[k - 1]]
             g == [k \in 0 .. n |-> IF k = 0 THEN NewMetricState
                                    ELSE IF k \in P THEN Updated(st[k - 1], V[k])
                                    ELSE st[k - 1]]
  <2>1. \A k \in 0 .. n : k = 0 \/ k \in 1 .. n
    BY <1>4
  <2>2. \A k \in 0 .. n : f[k] = g[k]
    BY <1>3, <2>1
  <2>3. f = g
    BY <2>2
  <2> QED BY <2>3 DEF Run
<1> HIDE DEF Fits
<1>6. Run(n, P, V, b)
  BY <1>4, RunExists
<1>7. Fits(a)
  BY <1>5, <1>6
<1>8. Run(n, P, V, a)
  BY <1>5, <1>7
<1> HIDE DEF a, b
<1>9. a[n] = b[n]
  <2>1. n \in 0 .. n /\ n <= n
    BY <1>4
  <2> QED BY <1>4, <1>6, <1>8, <2>1, RunsAgree
<1> QED BY <1>1, <1>2, <1>9 DEF n, V

LEMMA RowsShape ==
  ASSUME Shape
  PROVE  /\ Len(rows) \in Nat /\ DOMAIN rows = 1 .. Len(rows)
         /\ \A k \in DOMAIN rows : rows[k] \in DOMAIN wire /\ wire[rows[k]] \in Payload
BY DEF Shape

\* What a row reports of a metric is a number.
LEMMA ValueType ==
  ASSUME NEW i, wire[i] \in Payload, NEW s, Carries(i, s)
  PROVE  ValueOf(i, s.metric) \in Int
<1> DEFINE ms == wire[i].metrics
           k == CHOOSE k \in DOMAIN ms : ms[k].name = s.metric
<1>1. ms \in Seq(Pairs)
  BY DEF Payload, Pairs
<1>2. k \in DOMAIN ms
  BY DEF Carries
<1>3. ValueOf(i, s.metric) = ms[k].value
  BY DEF ValueOf
<1> HIDE DEF ms, k
<1>4. ms[k] \in Pairs
  BY <1>1, <1>2
<1> QED BY <1>3, <1>4 DEF Pairs

\* Whatever rows of its own a stream is fed, it is well-formed.
LEMMA ReplayWellFormed ==
  ASSUME Shape, NEW s, NEW P, P \subseteq OfStream(s)
  PROVE  WellFormed(Replay(P, s.metric))
<1> DEFINE V == ValuesOf(s.metric)
<1>1. Replay(P, s.metric) = Outcome(Len(rows), P, V)
  BY RowsShape, ReplayOutcome
<1>2. ASSUME NEW k \in 1 .. Len(rows), k \in P PROVE V[k] \in Int
  <2>1. k \in DOMAIN rows /\ Carries(rows[k], s) /\ wire[rows[k]] \in Payload
    BY <1>2, RowsShape DEF OfStream
  <2>2. ValueOf(rows[k], s.metric) \in Int
    BY <2>1, ValueType
  <2> QED BY <2>1, <2>2 DEF ValuesOf
<1>3. Len(rows) \in Nat
  BY RowsShape
<1> HIDE DEF V
<1> QED BY <1>1, <1>2, <1>3, OutcomeWellFormed

\* A restarted process has a well-formed detector.
LEMMA BootstrappedType ==
  ASSUME Shape
  PROVE  /\ Bootstrapped \in [Streams -> MetricState]
         /\ \A s \in Streams : WellFormed(Bootstrapped[s])
<1>1. ASSUME NEW s \in Streams
      PROVE  WellFormed(Bootstrapped[s])
  <2>1. CASE s.metric \in ReplayedMetrics
    <3>1. Bootstrapped[s] = Replay(RecentSignals(s.model) \cap OfStream(s), s.metric)
      BY <2>1 DEF Bootstrapped
    <3>2. RecentSignals(s.model) \cap OfStream(s) \subseteq OfStream(s)
      OBVIOUS
    <3> QED BY <3>1, <3>2, ReplayWellFormed
  <2>2. CASE s.metric \notin ReplayedMetrics
    BY <2>2, NewWellFormed DEF Bootstrapped
  <2> QED BY <2>1, <2>2
<1>2. Bootstrapped = [s \in Streams |-> Bootstrapped[s]]
  BY DEF Bootstrapped
<1>3. \A s \in Streams : Bootstrapped[s] \in MetricState
  BY <1>1 DEF WellFormed
<1> QED BY <1>1, <1>2, <1>3

-----------------------------------------------------------------------------
(* The types of the whole gateway.                                         *)

Codes == {202, 401, 409, 422, 500}

Detectors ==
  /\ detector \in [Nodes -> [Streams -> MetricState]]
  /\ private \in [Nodes -> [Fleets -> [Streams -> MetricState]]]
  /\ \A n \in Nodes, s \in Streams : WellFormed(detector[n][s])
  /\ \A n \in Nodes, f \in Fleets, s \in Streams : WellFormed(private[n][f][s])

Counters ==
  /\ webhooks \subseteq Fleets
  /\ up \in [Nodes -> BOOLEAN]
  /\ tasks \in [Nodes -> [Fleets -> Nat]]
  /\ clock \in 1 .. MaxTime /\ faults \in 0 .. MaxFaults

Stamps ==
  /\ \A k \in DOMAIN local : local[k].at \in 1 .. MaxTime
  /\ \A k \in DOMAIN public : public[k].at \in 1 .. MaxTime

Types ==
  /\ answered \in [1 .. MaxBatches -> SUBSET Codes]
  /\ Counters /\ Stamps /\ Detectors

\* Which steps change what.
LEMMA Changes ==
  ASSUME [Next]_vars
  PROVE  /\ \/ answered' = answered
            \/ \E n \in Nodes : ReceiveNew(n) \/ Redeliver(n) \/ Respond(n) \/ Raise(n)
         /\ \/ UNCHANGED <<webhooks, up, tasks, clock, faults>>
            \/ Tick
            \/ \E n \in Nodes : Raise(n) \/ Stop(n) \/ Start(n) \/ Notify(n)
            \/ \E n \in Nodes, f \in Fleets : RegisterWebhook(n, f) \/ Dispatch(n, f)
         /\ \/ UNCHANGED <<local, public>>
            \/ \E n \in Nodes : SaveLocalAlert(n) \/ SavePublicAlert(n)
         /\ \/ UNCHANGED <<detector, private>>
            \/ \E n \in Nodes : ScorePublic(n) \/ ScorePrivate(n) \/ Stop(n) \/ Start(n)
<1> USE DEF wireVars, dbVars, scorerVars, processVars, worldVars, historyVars
<1>1. ASSUME NEW n \in Nodes, ReceiveNew(n) \/ Redeliver(n)
      PROVE  UNCHANGED <<webhooks, up, tasks, clock, faults, local, public, detector, private>>
  BY <1>1 DEF ReceiveNew, Redeliver
<1>2. ASSUME NEW n \in Nodes, SaveBatch(n) \/ IngestCandidate(n) \/ Promote(n) \/ ClearCandidates(n)
      PROVE  UNCHANGED <<answered, webhooks, up, tasks, clock, faults, local, public, detector, private>>
  BY <1>2 DEF SaveBatch, IngestCandidate, Promote, ClearCandidates
<1>3. ASSUME NEW n \in Nodes, ScorePublic(n) \/ ScorePrivate(n)
      PROVE  UNCHANGED <<answered, webhooks, up, tasks, clock, faults, local, public>>
  BY <1>3 DEF ScorePublic, ScorePrivate
<1>4. ASSUME NEW n \in Nodes, SaveLocalAlert(n) \/ SavePublicAlert(n)
      PROVE  UNCHANGED <<answered, webhooks, up, tasks, clock, faults, detector, private>>
  BY <1>4 DEF SaveLocalAlert, SavePublicAlert
<1>5. ASSUME NEW n \in Nodes, Notify(n)
      PROVE  UNCHANGED <<answered, local, public, detector, private>>
  BY <1>5 DEF Notify
<1>6. ASSUME NEW n \in Nodes, Respond(n)
      PROVE  UNCHANGED <<webhooks, up, tasks, clock, faults, local, public, detector, private>>
  BY <1>6 DEF Respond
<1>7. ASSUME NEW n \in Nodes, Raise(n)
      PROVE  UNCHANGED <<local, public, detector, private>>
  BY <1>7 DEF Raise
<1>8. ASSUME NEW n \in Nodes, Stop(n) \/ Start(n)
      PROVE  UNCHANGED <<answered, local, public>>
  BY <1>8 DEF Stop, Start
<1>9. ASSUME NEW n \in Nodes, NEW f \in Fleets, RegisterWebhook(n, f) \/ Dispatch(n, f)
      PROVE  UNCHANGED <<answered, local, public, detector, private>>
  BY <1>9 DEF RegisterWebhook, Dispatch
<1>10. ASSUME Tick
       PROVE  UNCHANGED <<answered, local, public, detector, private>>
  BY <1>10 DEF Tick
<1>11. ASSUME UNCHANGED vars
       PROVE  UNCHANGED <<answered, webhooks, up, tasks, clock, faults, local, public,
                          detector, private>>
  BY <1>11 DEF vars
<1> QED
  BY <1>1, <1>2, <1>3, <1>4, <1>5, <1>6, <1>7, <1>8, <1>9, <1>10, <1>11
     DEF Next, Handle

LEMMA AnswerTyped ==
  ASSUME answered \in [1 .. MaxBatches -> SUBSET Codes],
         NEW i, NEW code \in Codes, Answer(i, code)
  PROVE  answered' \in [1 .. MaxBatches -> SUBSET Codes]
BY DEF Answer

LEMMA AnswersStep ==
  ASSUME answered \in [1 .. MaxBatches -> SUBSET Codes], [Next]_vars
  PROVE  answered' \in [1 .. MaxBatches -> SUBSET Codes]
<1>1. ASSUME NEW n \in Nodes, NEW i, NEW b, Admit(n, i, b)
      PROVE  answered' \in [1 .. MaxBatches -> SUBSET Codes]
  <2>1. answered' = answered \/ \E code \in Codes : Answer(i, code)
    BY <1>1 DEF Admit, Codes
  <2> QED BY <2>1, AnswerTyped
<1>2. ASSUME NEW n \in Nodes, ReceiveNew(n) \/ Redeliver(n)
      PROVE  answered' \in [1 .. MaxBatches -> SUBSET Codes]
  BY <1>1, <1>2 DEF ReceiveNew, Redeliver
<1>3. ASSUME NEW n \in Nodes, Respond(n) \/ Raise(n)
      PROVE  answered' \in [1 .. MaxBatches -> SUBSET Codes]
  BY <1>3, AnswerTyped DEF Respond, Raise, Codes
<1> QED BY <1>2, <1>3, Changes

LEMMA CountersStep ==
  ASSUME Counters, [Next]_vars
  PROVE  Counters'
<1> USE DEF wireVars, dbVars, scorerVars, processVars, worldVars, historyVars
<1>1. CASE UNCHANGED <<webhooks, up, tasks, clock, faults>>
  BY <1>1 DEF Counters
<1>2. CASE Tick
  <2>1. /\ clock < MaxTime /\ clock' = clock + 1
        /\ UNCHANGED <<webhooks, up, tasks, faults>>
    BY <1>2 DEF Tick
  <2>2. MaxTime \in Nat
    BY GatewayAssumption
  <2> QED BY <2>1, <2>2 DEF Counters
<1>3. ASSUME NEW n \in Nodes, Raise(n) PROVE Counters'
  <2>1. /\ faults < MaxFaults /\ faults' = faults + 1
        /\ UNCHANGED <<webhooks, up, tasks, clock>>
    BY <1>3 DEF Raise
  <2>2. MaxFaults \in Nat
    BY GatewayAssumption
  <2> QED BY <2>1, <2>2 DEF Counters
<1>4. ASSUME NEW n \in Nodes, Stop(n) PROVE Counters'
  <2>1. /\ faults < MaxFaults /\ faults' = faults + 1
        /\ up' = [up EXCEPT ![n] = FALSE]
        /\ tasks' = [tasks EXCEPT ![n] = [f \in Fleets |-> 0]]
        /\ UNCHANGED <<webhooks, clock>>
    BY <1>4 DEF Stop
  <2>2. MaxFaults \in Nat /\ [f \in Fleets |-> 0] \in [Fleets -> Nat]
    BY GatewayAssumption
  <2>3. tasks' \in [Nodes -> [Fleets -> Nat]]
    BY <2>1, <2>2 DEF Counters
  <2> QED BY <2>1, <2>2, <2>3 DEF Counters
<1>5. ASSUME NEW n \in Nodes, Start(n) PROVE Counters'
  BY <1>5 DEF Start, Counters
<1>6. ASSUME NEW n \in Nodes, NEW f, NEW d \in {1, -1},
             tasks' = [tasks EXCEPT ![n][f] = @ + d],
             f \in Fleets => tasks[n][f] + d \in Nat,
             Counters
      PROVE  tasks' \in [Nodes -> [Fleets -> Nat]]
  <2>1. tasks \in [Nodes -> [Fleets -> Nat]] /\ tasks[n] \in [Fleets -> Nat]
    BY <1>6 DEF Counters
  <2>2. [tasks[n] EXCEPT ![f] = @ + d] \in [Fleets -> Nat]
    BY <1>6, <2>1
  <2> QED BY <1>6, <2>1, <2>2
<1>7. ASSUME NEW n \in Nodes, Notify(n) PROVE Counters'
  <2>1. /\ \/ tasks' = tasks
           \/ tasks' = [tasks EXCEPT ![n][Batch(n).fleet] = @ + 1]
        /\ UNCHANGED <<webhooks, up, clock, faults>>
    BY <1>7 DEF Notify
  <2>2. \A f \in Fleets : tasks[n][f] + 1 \in Nat
    BY DEF Counters
  <2>3. tasks' \in [Nodes -> [Fleets -> Nat]]
    BY <1>6, <2>1, <2>2 DEF Counters
  <2> QED BY <2>1, <2>3 DEF Counters
<1>8. ASSUME NEW n \in Nodes, NEW f \in Fleets, Dispatch(n, f) PROVE Counters'
  <2>1. /\ tasks[n][f] > 0
        /\ tasks' = [tasks EXCEPT ![n][f] = @ - 1]
        /\ UNCHANGED <<webhooks, up, clock, faults>>
    BY <1>8 DEF Dispatch
  <2>2. tasks \in [Nodes -> [Fleets -> Nat]] /\ tasks[n] \in [Fleets -> Nat]
    BY DEF Counters
  <2>3. tasks[n][f] - 1 \in Nat
    BY <2>1, <2>2
  <2>4. [tasks[n] EXCEPT ![f] = @ - 1] \in [Fleets -> Nat]
    BY <2>2, <2>3
  <2>5. tasks' \in [Nodes -> [Fleets -> Nat]]
    BY <2>1, <2>2, <2>4
  <2> QED BY <2>1, <2>5 DEF Counters
<1>9. ASSUME NEW n \in Nodes, NEW f \in Fleets, RegisterWebhook(n, f) PROVE Counters'
  BY <1>9 DEF RegisterWebhook, Counters
<1> QED BY <1>1, <1>2, <1>3, <1>4, <1>5, <1>7, <1>8, <1>9, Changes

LEMMA StampsStep ==
  ASSUME Shape, Counters, Stamps, [Next]_vars
  PROVE  Stamps'
<1>1. ASSUME NEW v, NEW e, NEW S, v \in Seq(S), e.at = clock,
             \A k \in DOMAIN v : v[k].at \in 1 .. MaxTime
      PROVE  \A k \in DOMAIN Append(v, e) : Append(v, e)[k].at \in 1 .. MaxTime
  <2>1. clock \in 1 .. MaxTime
    BY DEF Counters
  <2>2. \A k \in DOMAIN Append(v, e) :
          Append(v, e)[k] = IF k \in DOMAIN v THEN v[k] ELSE e
    BY <1>1
  <2> QED BY <1>1, <2>1, <2>2
<1>2. local \in Seq(Alert) /\ public \in Seq(Filing)
  BY DEF Shape
<1>3. ASSUME NEW n \in Nodes, SaveLocalAlert(n) PROVE Stamps'
  <2> DEFINE e == [model |-> Batch(n).model, metric |-> Metric(n).name,
                   client |-> Batch(n).client, fleet |-> Batch(n).fleet, at |-> clock]
  <2>1. local' = Append(local, e) /\ public' = public
    BY <1>3 DEF SaveLocalAlert
  <2>2. e.at = clock
    OBVIOUS
  <2> HIDE DEF e
  <2> QED BY <1>1, <1>2, <2>1, <2>2 DEF Stamps
<1>4. ASSUME NEW n \in Nodes, SavePublicAlert(n) PROVE Stamps'
  <2> DEFINE e == [model |-> Batch(n).model, metric |-> Metric(n).name,
                   count |-> req[n].count, at |-> clock]
  <2>1. public' = Append(public, e) /\ local' = local
    BY <1>4 DEF SavePublicAlert, Filed
  <2>2. e.at = clock
    OBVIOUS
  <2> HIDE DEF e
  <2> QED BY <1>1, <1>2, <2>1, <2>2 DEF Stamps
<1>5. CASE UNCHANGED <<local, public>>
  BY <1>5 DEF Stamps
<1> QED BY <1>3, <1>4, <1>5, Changes

LEMMA MetricValue ==
  ASSUME Requests, NEW n \in Nodes, req[n].todo # <<>>
  PROVE  Metric(n) = req[n].todo[1] /\ Metric(n).value \in Int
<1>1. req[n].todo \in Seq(Pairs)
  BY DEF Requests, Request, Pairs
<1>2. Metric(n) = req[n].todo[1] /\ req[n].todo[1] \in Pairs
  BY <1>1 DEF Metric
<1> QED BY <1>2 DEF Pairs

LEMMA DetectorsStep ==
  ASSUME Inv, Detectors, [Next]_vars
  PROVE  Detectors'
<1>1. CASE UNCHANGED <<detector, private>>
  BY <1>1 DEF Detectors
<1>2. ASSUME NEW n \in Nodes, ScorePublic(n) PROVE Detectors'
  <2> DEFINE s == Stream(n)
             new == Updated(detector[n][s], Metric(n).value)
  <2>1. /\ req[n].pc = "metric" /\ req[n].todo # <<>>
        /\ detector' = [detector EXCEPT ![n][s] = new] /\ private' = private
    BY <1>2 DEF ScorePublic, At
  <2>2. s \in Streams /\ Metric(n).value \in Int
    BY <2>1, AtStep, MetricValue DEF InLoop
  <2>3. WellFormed(new) /\ new \in MetricState
    BY <2>2, UpdatedWellFormed DEF Detectors, WellFormed
  <2> HIDE DEF s, new
  <2>4. [detector[n] EXCEPT ![s] = new] \in [Streams -> MetricState]
    BY <2>2, <2>3 DEF Detectors
  <2>5. /\ detector' \in [Nodes -> [Streams -> MetricState]]
        /\ \A m \in Nodes, r \in Streams :
             detector'[m][r] = IF m = n /\ r = s THEN new ELSE detector[m][r]
    BY <2>1, <2>2, <2>4 DEF Detectors
  <2>6. \A m \in Nodes, r \in Streams : WellFormed(detector'[m][r])
    BY <2>3, <2>5 DEF Detectors
  <2> QED BY <2>1, <2>5, <2>6 DEF Detectors
<1>3. ASSUME NEW n \in Nodes, ScorePrivate(n) PROVE Detectors'
  <2> DEFINE s == Stream(n)
             f == Batch(n).fleet
             new == Updated(private[n][f][s], Metric(n).value)
  <2>1. /\ req[n].pc = "metric" /\ req[n].todo # <<>> /\ Batch(n).fleet # NoFleet
        /\ private' = [private EXCEPT ![n][f][s] = new] /\ detector' = detector
    BY <1>3 DEF ScorePrivate, At, IsPublic, FleetState
  <2>2. s \in Streams /\ Metric(n).value \in Int /\ f \in Fleets
    BY <2>1, AtStep, MetricValue DEF InLoop
  <2>3. WellFormed(new) /\ new \in MetricState
    BY <2>2, UpdatedWellFormed DEF Detectors, WellFormed
  <2> HIDE DEF s, f, new
  <2>4. [private[n][f] EXCEPT ![s] = new] \in [Streams -> MetricState]
    BY <2>2, <2>3 DEF Detectors
  <2>5. [private[n] EXCEPT ![f][s] = new] \in [Fleets -> [Streams -> MetricState]]
    BY <2>2, <2>4 DEF Detectors
  <2>6. private' \in [Nodes -> [Fleets -> [Streams -> MetricState]]]
    BY <2>1, <2>5 DEF Detectors
  <2>7. \A m \in Nodes, g \in Fleets, r \in Streams :
          private'[m][g][r] =
            IF m = n /\ g = f /\ r = s THEN new ELSE private[m][g][r]
    BY <2>1, <2>2, <2>4, <2>5 DEF Detectors
  <2>8. \A m \in Nodes, g \in Fleets, r \in Streams : WellFormed(private'[m][g][r])
    BY <2>3, <2>7 DEF Detectors
  <2> QED BY <2>1, <2>6, <2>8 DEF Detectors
<1>4. /\ Untracked \in [Streams -> MetricState]
      /\ \A s \in Streams : WellFormed(Untracked[s])
  BY NewWellFormed DEF Untracked, WellFormed
<1>5. ASSUME NEW n \in Nodes, Stop(n) PROVE Detectors'
  <2> DEFINE none == [f \in Fleets |-> Untracked]
  <2>1. /\ detector' = [detector EXCEPT ![n] = Untracked]
        /\ private' = [private EXCEPT ![n] = none]
    BY <1>5 DEF Stop
  <2>2. none \in [Fleets -> [Streams -> MetricState]] /\ \A f \in Fleets : none[f] = Untracked
    BY <1>4
  <2> HIDE DEF none
  <2>3. /\ detector' \in [Nodes -> [Streams -> MetricState]]
        /\ private' \in [Nodes -> [Fleets -> [Streams -> MetricState]]]
    BY <1>4, <2>1, <2>2 DEF Detectors
  <2>4. \A m \in Nodes : /\ detector'[m] = IF m = n THEN Untracked ELSE detector[m]
                         /\ private'[m] = IF m = n THEN none ELSE private[m]
    BY <2>1 DEF Detectors
  <2>5. \A m \in Nodes, s \in Streams : WellFormed(detector'[m][s])
    BY <1>4, <2>4 DEF Detectors
  <2>6. \A m \in Nodes, f \in Fleets, s \in Streams : WellFormed(private'[m][f][s])
    BY <1>4, <2>2, <2>4 DEF Detectors
  <2> QED BY <2>3, <2>5, <2>6 DEF Detectors
<1>6. ASSUME NEW n \in Nodes, Start(n) PROVE Detectors'
  <2>1. detector' = [detector EXCEPT ![n] = Bootstrapped] /\ private' = private
    BY <1>6 DEF Start
  <2>2. /\ Bootstrapped \in [Streams -> MetricState]
        /\ \A s \in Streams : WellFormed(Bootstrapped[s])
    BY BootstrappedType DEF Inv
  <2> QED BY <2>1, <2>2 DEF Detectors
<1> QED BY <1>1, <1>2, <1>3, <1>5, <1>6, Changes

LEMMA Narrowed ==
  ASSUME NEW S, NEW T, NEW v \in Seq(S), \A k \in DOMAIN v : v[k] \in T
  PROVE  v \in Seq(T)
OBVIOUS

LEMMA TypesInvariant == Spec => []Types
<1>1. Init => Types
  <2> SUFFICES ASSUME Init PROVE Types
    OBVIOUS
  <2>1. MaxTime \in Nat \ {0} /\ MaxFaults \in Nat
    BY GatewayAssumption
  <2>2. /\ Untracked \in [Streams -> MetricState]
        /\ \A s \in Streams : WellFormed(Untracked[s])
    BY NewWellFormed DEF Untracked, WellFormed
  <2>3. Detectors
    BY <2>2 DEF Init, Detectors
  <2>4. Counters
    BY <2>1 DEF Init, Counters
  <2> QED BY <2>3, <2>4 DEF Init, Types, Stamps
<1>2. Inv /\ Types /\ [Next]_vars => Types'
  BY AnswersStep, CountersStep, StampsStep, DetectorsStep DEF Types, Inv
<1> QED BY <1>1, <1>2, Invariance, PTL DEF Spec

\* The wire, the tables, the detectors and the requests keep their shape for
\* any number of nodes and fleets, any batches and any faults.
THEOREM TypeCorrect == Spec => []TypeOK
<1>1. Inv /\ Types => TypeOK
  <2> SUFFICES ASSUME Inv, Types PROVE TypeOK
    OBVIOUS
  <2>1. /\ wire \in Seq(Payload) /\ req \in [Nodes -> Request]
        /\ agree \in [Scorers -> [Streams -> Table]]
        /\ observers \in [Scorers -> [Streams -> Table]]
    BY DEF Inv, Shape, Requests, Tables
  <2>2. rows \in Seq(DOMAIN wire)
    BY DEF Inv, Shape
  <2>3. local \in Seq([model : Models, metric : Metrics, client : Orgs,
                       fleet : Fleets \cup {NoFleet}, at : 1 .. MaxTime])
    <3>1. local \in Seq(Alert) /\ \A k \in DOMAIN local : local[k].at \in 1 .. MaxTime
      BY DEF Inv, Shape, Types, Stamps
    <3>2. \A k \in DOMAIN local :
            local[k] \in [model : Models, metric : Metrics, client : Orgs,
                          fleet : Fleets \cup {NoFleet}, at : 1 .. MaxTime]
      <4> SUFFICES ASSUME NEW k \in DOMAIN local
                   PROVE  local[k] \in [model : Models, metric : Metrics, client : Orgs,
                                        fleet : Fleets \cup {NoFleet}, at : 1 .. MaxTime]
        OBVIOUS
      <4>1. local[k] \in Alert
        BY <3>1
      <4> QED BY <3>1, <4>1 DEF Alert
    <3> QED BY <3>1, <3>2, Narrowed
  <2>4. public \in Seq([model : Models, metric : Metrics, count : Nat,
                        at : 1 .. MaxTime])
    <3>1. public \in Seq(Filing) /\ \A k \in DOMAIN public : public[k].at \in 1 .. MaxTime
      BY DEF Inv, Shape, Types, Stamps
    <3>2. \A k \in DOMAIN public :
            public[k] \in [model : Models, metric : Metrics, count : Nat, at : 1 .. MaxTime]
      <4> SUFFICES ASSUME NEW k \in DOMAIN public
                   PROVE  public[k] \in [model : Models, metric : Metrics, count : Nat,
                                         at : 1 .. MaxTime]
        OBVIOUS
      <4>1. public[k] \in Filing
        BY <3>1
      <4> QED BY <3>1, <4>1 DEF Filing
    <3> QED BY <3>1, <3>2, Narrowed
  <2> QED
    BY <2>1, <2>2, <2>3, <2>4 DEF TypeOK, Types, Codes, Counters, Detectors
<1> QED BY <1>1, Invariance, TypesInvariant, PTL

-----------------------------------------------------------------------------
(* One process: the public detector is a function of the public rows.      *)

\* A metric of that name is on the list.
Named(todo, metric) == \E j \in DOMAIN todo : todo[j].name = metric

\* The metrics of the last row that are still to be scored.
Left(r) ==
  IF r.pc = "metric" THEN r.todo
  ELSE IF r.pc \in InLoop THEN Tail(r.todo) ELSE <<>>

\* The rows a public stream is made of, and those it has been fed.
PublicPlaces(s) == PlacesOf(NoFleet) \cap OfStream(s)

Done(r, s) ==
  {k \in PublicPlaces(s) : ~ (k = Len(rows) /\ Named(Left(r), s.metric))}

\* A request in the loop is about the last row, and names a metric once.
InTurn(r) ==
  /\ r.pc = "save" => r.todo = wire[r.id].metrics
  /\ r.pc \in InLoop => rows # <<>> /\ rows[Len(rows)] = r.id
  /\ \A j, k \in DOMAIN r.todo : r.todo[j].name = r.todo[k].name => j = k

Fed(n) ==
  /\ wire \in Seq(Payloads)
  /\ InTurn(req[n])
  /\ req[n].pc # "idle" => up[n]
  /\ up[n] => \A s \in Streams :
       detector[n][s] = Outcome(Len(rows), Done(req[n], s), ValuesOf(s.metric))

\* New batches change nothing of the rows.
LEMMA SameObservations ==
  ASSUME Shape, rows' = rows, Grows(wire, wire'), NEW s
  PROVE  PublicPlaces(s)' = PublicPlaces(s) /\ ValuesOf(s.metric)' = ValuesOf(s.metric)
<1>1. \A k \in DOMAIN rows : wire'[rows[k]] = wire[rows[k]]
  BY RowsShape DEF Grows
<1>2. \A k \in DOMAIN rows : Carries(rows[k], s)' <=> Carries(rows[k], s)
  BY <1>1 DEF Carries
<1>3. \A k \in DOMAIN rows : ValueOf(rows[k], s.metric)' = ValueOf(rows[k], s.metric)
  BY <1>1 DEF ValueOf
<1>4. PublicPlaces(s)' = PublicPlaces(s)
  BY <1>1, <1>2 DEF PublicPlaces, PlacesOf, OfStream
<1>5. ValuesOf(s.metric)' = ValuesOf(s.metric)
  BY <1>3 DEF ValuesOf
<1> QED BY <1>4, <1>5

\* What is left decides what is done.
LEMMA SameDone ==
  ASSUME Shape, rows' = rows, Grows(wire, wire'), NEW n \in Nodes, NEW s,
         Left(req'[n]) = Left(req[n])
  PROVE  Done(req[n], s)' = Done(req[n], s)
<1>1. PublicPlaces(s)' = PublicPlaces(s)
  BY SameObservations
<1>2. Done(req[n], s)' =
        {k \in PublicPlaces(s)' : ~ (k = Len(rows') /\ Named(Left(req'[n]), s.metric))}
  BY DEF Done, Left, Named
<1> QED BY <1>1, <1>2 DEF Done

\* A step that neither stores nor scores.
LEMMA FedKept ==
  ASSUME Shape, NEW n \in Nodes, Fed(n), rows' = rows, Grows(wire, wire'),
         wire' \in Seq(Payloads), detector'[n] = detector[n], up'[n] = up[n],
         InTurn(req[n])', req'[n].pc # "idle" => up[n],
         Left(req'[n]) = Left(req[n])
  PROVE  Fed(n)'
<1>1. ASSUME NEW s \in Streams, up'[n]
      PROVE  detector'[n][s] =
               Outcome(Len(rows'), Done(req[n], s)', ValuesOf(s.metric)')
  <2>1. detector[n][s] = Outcome(Len(rows), Done(req[n], s), ValuesOf(s.metric))
    BY <1>1 DEF Fed
  <2>2. Done(req[n], s)' = Done(req[n], s) /\ ValuesOf(s.metric)' = ValuesOf(s.metric)
    BY SameDone, SameObservations
  <2> QED BY <2>1, <2>2
<1> QED BY <1>1 DEF Fed

\* A request that goes on in the loop.
LEMMA InTurnMove ==
  ASSUME Requests, NEW n \in Nodes, InTurn(req[n]), NEW r, Moves(n, r),
         rows' = rows, r.id = req[n].id, req[n].pc \in InLoop, r.pc \in InLoop,
         \/ r.todo = req[n].todo
         \/ req[n].todo # <<>> /\ r.todo = Tail(req[n].todo)
  PROVE  InTurn(req[n])'
<1>1. req'[n] = r
  BY DEF Moves
<1>2. rows # <<>> /\ rows[Len(rows)] = r.id /\ r.pc # "save"
  BY DEF InTurn, InLoop
<1>3. req[n].todo \in Seq(Pairs)
  BY DEF Requests, Request, Pairs
<1>4. \A j, k \in DOMAIN req[n].todo : req[n].todo[j].name = req[n].todo[k].name => j = k
  BY DEF InTurn
<1>5. \A j, k \in DOMAIN r.todo : r.todo[j].name = r.todo[k].name => j = k
  <2> DEFINE v == req[n].todo
  <2>1. CASE r.todo = v
    BY <1>4, <2>1
  <2>2. CASE v # <<>> /\ r.todo = Tail(v)
    <3> HIDE DEF v
    <3>1. v \in Seq(Pairs)
      BY <1>3 DEF v
    <3>2. /\ DOMAIN Tail(v) \subseteq Nat
          /\ \A j \in DOMAIN Tail(v) : j + 1 \in DOMAIN v /\ Tail(v)[j] = v[j + 1]
      BY <2>2, <3>1
    <3>3. ASSUME NEW j \in DOMAIN Tail(v), NEW k \in DOMAIN Tail(v),
                 Tail(v)[j].name = Tail(v)[k].name
          PROVE  j = k
      <4>1. j + 1 = k + 1
        BY <1>4, <3>2, <3>3 DEF v
      <4>2. j \in Nat /\ k \in Nat
        BY <3>2
      <4> QED BY <4>1, <4>2
    <3> QED BY <2>2, <3>3
  <2> QED BY <2>1, <2>2
<1> QED BY <1>1, <1>2, <1>5 DEF InTurn

\* A request that goes on in the loop with the same metrics left.
LEMMA FedMove ==
  ASSUME Shape, Requests, NEW n \in Nodes, Fed(n), NEW r, Moves(n, r),
         UNCHANGED <<rows, wire, detector, up>>,
         r.id = req[n].id, req[n].pc \in InLoop, r.pc \in InLoop,
         \/ r.todo = req[n].todo
         \/ req[n].todo # <<>> /\ r.todo = Tail(req[n].todo),
         Left(r) = Left(req[n])
  PROVE  Fed(n)'
<1>1. InTurn(req[n])'
  BY InTurnMove DEF Fed
<1>2. req'[n] = r
  BY DEF Moves
<1>3. up[n]
  BY DEF Fed, InLoop
<1> QED BY <1>1, <1>2, <1>3, FedKept, GrowsSelf DEF Fed

LEMMA FedGoTo ==
  ASSUME Shape, Requests, NEW n \in Nodes, Fed(n), NEW pc, GoTo(n, pc),
         UNCHANGED <<rows, wire, detector, up>>,
         req[n].pc \in InLoop \ {"metric"}, pc \in InLoop \ {"metric"}
  PROVE  Fed(n)'
<1> DEFINE r == [pc |-> pc, id |-> req[n].id, todo |-> req[n].todo, count |-> req[n].count]
<1>1. Moves(n, r)
  BY GoToRequest
<1>2. r.pc = pc /\ r.id = req[n].id /\ r.todo = req[n].todo
  OBVIOUS
<1> HIDE DEF r
<1>3. Left(r) = Left(req[n])
  BY <1>2 DEF Left
<1> QED BY <1>1, <1>2, <1>3, FedMove

LEMMA FedNext ==
  ASSUME Shape, Requests, NEW n \in Nodes, Fed(n), NextMetric(n),
         UNCHANGED <<rows, wire, detector, up>>,
         req[n].pc \in InLoop \ {"metric"}, req[n].todo # <<>>
  PROVE  Fed(n)'
<1> DEFINE r == [pc |-> "metric", id |-> req[n].id,
                 todo |-> Tail(req[n].todo), count |-> req[n].count]
<1>1. Tail(req[n].todo) \in Seq(Pairs)
  BY AtMetric DEF InLoop
<1>2. Moves(n, r)
  BY <1>1, NextRequest
<1>3. r.pc = "metric" /\ r.id = req[n].id /\ r.todo = Tail(req[n].todo)
  OBVIOUS
<1> HIDE DEF r
<1>4. Left(r) = Left(req[n]) /\ r.pc \in InLoop
  BY <1>3 DEF Left, InLoop
<1> QED BY <1>2, <1>3, <1>4, FedMove

\* A request that begins.
LEMMA FedAdmit ==
  ASSUME Shape, Requests, NEW n \in Nodes, Fed(n), rows' = rows, Grows(wire, wire'),
         wire' \in Seq(Payloads), detector' = detector, up' = up,
         up[n], req[n].pc = "idle",
         NEW i, i \in DOMAIN wire', Admit(n, i, wire'[i])
  PROVE  Fed(n)'
<1>1. CASE req' = req
  <2>1. InTurn(req[n])'
    BY <1>1 DEF Fed, InTurn, InLoop
  <2> QED BY <1>1, <2>1, FedKept
<1>2. CASE req' # req
  <2> DEFINE r == [pc |-> "save", id |-> i, todo |-> wire'[i].metrics, count |-> 0]
  <2>1. req' = [req EXCEPT ![n] = r]
    BY <1>2 DEF Admit
  <2>2. r.pc = "save" /\ r.id = i /\ r.todo = wire'[i].metrics
    OBVIOUS
  <2> HIDE DEF r
  <2>3. req'[n] = r
    BY <2>1 DEF Requests
  <2>4. wire'[i] \in Payloads
    OBVIOUS
  <2>5. \A j, k \in DOMAIN r.todo : r.todo[j].name = r.todo[k].name => j = k
    BY <2>2, <2>4, GatewayAssumption
  <2>6. InTurn(req[n])'
    BY <2>2, <2>3, <2>5 DEF InTurn, InLoop
  <2>7. Left(req'[n]) = Left(req[n])
    BY <2>2, <2>3 DEF Left, InLoop
  <2> QED BY <2>6, <2>7, FedKept
<1> QED BY <1>1, <1>2

\* The batch is stored, all its metrics are still to be scored.
LEMMA FedSave ==
  ASSUME Inv, NEW n \in Nodes, Fed(n), SaveBatch(n)
  PROVE  Fed(n)'
<1> DEFINE id == req[n].id
           L == Len(rows)
<1>1. /\ up[n] /\ req[n].pc = "save" /\ rows' = Append(rows, id) /\ GoTo(n, "metric")
      /\ UNCHANGED <<wire, detector, up>>
  BY DEF SaveBatch, At, wireVars
<1>2. Shape /\ Requests /\ Shape'
  BY SaveBatchStep DEF Inv
<1>3. id \in DOMAIN wire /\ id \in Nat /\ rows \in Seq(Nat)
  BY <1>1, <1>2 DEF Requests, Sound, Shape
<1>4. /\ L \in Nat /\ Len(rows') = L + 1 /\ rows' # <<>>
      /\ DOMAIN rows = 1 .. L /\ DOMAIN rows' = 1 .. (L + 1)
      /\ rows'[L + 1] = id
      /\ \A k \in 1 .. L : rows'[k] = rows[k]
  BY <1>1, <1>3
<1> DEFINE r == [pc |-> "metric", id |-> id, todo |-> req[n].todo, count |-> req[n].count]
<1>5. Moves(n, r)
  BY <1>1, <1>2, GoToRequest DEF InLoop
<1>6. r.pc = "metric" /\ r.id = id /\ r.todo = req[n].todo
  OBVIOUS
<1> HIDE DEF r
<1>7. req'[n] = r
  BY <1>5 DEF Moves
<1>8. r.todo = wire[id].metrics
  BY <1>1, <1>6 DEF Fed, InTurn
<1>9. InTurn(req[n])'
  BY <1>4, <1>6, <1>7 DEF Fed, InTurn
<1>10. ASSUME NEW s \in Streams
       PROVE  detector'[n][s] =
                Outcome(Len(rows'), Done(req[n], s)', ValuesOf(s.metric)')
  <2> DEFINE P == Done(req[n], s)
             Q == Done(req[n], s)'
             V == ValuesOf(s.metric)
             W == ValuesOf(s.metric)'
  <2>1. detector[n][s] = Outcome(L, P, V)
    BY <1>1 DEF Fed
  <2>2. P = PublicPlaces(s)
    BY <1>1 DEF Done, Left, InLoop, Named
  <2>3. Q = {k \in PublicPlaces(s)' : ~ (k = L + 1 /\ Named(r.todo, s.metric))}
    BY <1>4, <1>6, <1>7 DEF Done, Left, Named
  <2>4. ASSUME NEW k \in 1 .. L
        PROVE  /\ k \in P <=> k \in Q
               /\ V[k] = W[k]
    <3>1. k \in DOMAIN rows /\ k \in DOMAIN rows' /\ rows'[k] = rows[k] /\ k # L + 1
      BY <1>4
    <3>2. k \in PublicPlaces(s) <=> k \in PublicPlaces(s)'
      BY <1>1, <3>1 DEF PublicPlaces, PlacesOf, OfStream, Carries
    <3>3. V[k] = ValueOf(rows[k], s.metric) /\ W[k] = ValueOf(rows[k], s.metric)'
      BY <3>1 DEF ValuesOf
    <3>4. ValueOf(rows[k], s.metric)' = ValueOf(rows[k], s.metric)
      BY <1>1, <3>1 DEF ValueOf
    <3> QED BY <2>2, <2>3, <3>1, <3>2, <3>3, <3>4
  <2>5. L + 1 \notin Q
    <3>1. SUFFICES ASSUME L + 1 \in PublicPlaces(s)' PROVE Named(r.todo, s.metric)
      BY <2>3
    <3>2. \E k \in DOMAIN wire[id].metrics : wire[id].metrics[k].name = s.metric
      BY <1>1, <1>4, <3>1 DEF PublicPlaces, OfStream, Carries
    <3> QED BY <1>8, <3>2 DEF Named
  <2> HIDE DEF P, Q, V, W, L
  <2>6. Outcome(L + 1, Q, W) = Outcome(L, P, V)
    <3>1. L \in Nat
      BY <1>4
    <3>2. \A k \in 1 .. L : (k \in P <=> k \in Q) /\ (k \in P => V[k] = W[k])
      BY <2>4
    <3> QED BY <2>5, <3>1, <3>2, OutcomeStep
  <2>7. detector'[n][s] = Outcome(L + 1, Q, W)
    BY <1>1, <2>1, <2>6
  <2> QED BY <1>4, <2>7 DEF Q, W
<1> QED BY <1>1, <1>9, <1>10 DEF Fed

\* What the loop scores is what the row reports.
LEMMA MetricOfRow ==
  ASSUME Inv, NEW n \in Nodes, Fed(n), req[n].pc = "metric", req[n].todo # <<>>
  PROVE  /\ Len(rows) \in DOMAIN rows /\ rows[Len(rows)] = req[n].id
         /\ Carries(req[n].id, Stream(n))
         /\ ValueOf(req[n].id, Metric(n).name) = Metric(n).value
<1> DEFINE id == req[n].id
           ms == wire[id].metrics
           t == req[n].todo[1]
<1>1. Shape /\ Requests /\ req[n].pc # "idle" /\ req[n].pc \in InLoop
  BY DEF Inv, InLoop
<1>2. rows # <<>> /\ rows[Len(rows)] = id
  BY <1>1 DEF Fed, InTurn
<1>3. Len(rows) \in DOMAIN rows
  BY <1>1, <1>2 DEF Shape
<1>4. /\ Batch(n) = wire[id] /\ Metric(n) = t /\ id \in DOMAIN wire
  BY <1>1, AtMetric
<1>5. FromBatch(req[n].todo, wire[id])
  BY <1>1 DEF Requests, Sound
<1>6. 1 \in DOMAIN req[n].todo
  <2>1. req[n].todo \in Seq(Pairs)
    BY <1>1 DEF Requests, Request, Pairs
  <2> QED BY <2>1
<1>7. PICK j \in DOMAIN ms : ms[j] = t
  BY <1>5, <1>6 DEF FromBatch
<1>8. wire[id] \in Payloads
  BY <1>4 DEF Fed
<1>9. \A i, k \in DOMAIN ms : ms[i].name = ms[k].name => i = k
  BY <1>8, GatewayAssumption
<1>10. Stream(n) = [model |-> wire[id].model, suite |-> wire[id].suite, metric |-> t.name]
  BY <1>4 DEF Stream, StreamOf
<1>11. Carries(id, Stream(n))
  BY <1>7, <1>10 DEF Carries
<1>12. ValueOf(id, t.name) = t.value
  <2> DEFINE k == CHOOSE k \in DOMAIN ms : ms[k].name = t.name
  <2>1. k \in DOMAIN ms /\ ms[k].name = t.name
    BY <1>7
  <2>2. ValueOf(id, t.name) = ms[k].value
    BY DEF ValueOf
  <2> HIDE DEF k
  <2>3. k = j
    BY <1>7, <1>9, <2>1
  <2> QED BY <1>7, <2>2, <2>3
<1> QED BY <1>2, <1>3, <1>4, <1>11, <1>12

\* After its score a metric is no longer left.
LEMMA AfterScoreRequest ==
  ASSUME Shape, Requests, NEW n \in Nodes, req[n].pc = "metric", req[n].todo # <<>>,
         NextMetric(n) \/ GoTo(n, "local")
  PROVE  \E r : /\ Moves(n, r) /\ r.id = req[n].id
                /\ r.pc \in InLoop /\ Left(r) = Tail(req[n].todo)
                /\ \/ r.todo = req[n].todo
                   \/ req[n].todo # <<>> /\ r.todo = Tail(req[n].todo)
<1>1. CASE NextMetric(n)
  <2> DEFINE r == [pc |-> "metric", id |-> req[n].id,
                   todo |-> Tail(req[n].todo), count |-> req[n].count]
  <2>1. Tail(req[n].todo) \in Seq(Pairs)
    BY AtMetric
  <2>2. Moves(n, r)
    BY <1>1, <2>1, NextRequest
  <2>3. r.pc = "metric" /\ r.id = req[n].id /\ r.todo = Tail(req[n].todo)
    OBVIOUS
  <2> HIDE DEF r
  <2> QED BY <2>2, <2>3 DEF Left, InLoop
<1>2. CASE GoTo(n, "local")
  <2> DEFINE r == [pc |-> "local", id |-> req[n].id,
                   todo |-> req[n].todo, count |-> req[n].count]
  <2>1. Moves(n, r)
    BY <1>2, GoToRequest DEF InLoop
  <2>2. r.pc = "local" /\ r.id = req[n].id /\ r.todo = req[n].todo
    OBVIOUS
  <2> HIDE DEF r
  <2> QED BY <2>1, <2>2 DEF Left, InLoop
<1> QED BY <1>1, <1>2

\* The first metric of the list is not on the rest of it.
LEMMA NamedOnce ==
  ASSUME NEW v \in Seq(Pairs), v # <<>>,
         \A j, k \in DOMAIN v : v[j].name = v[k].name => j = k
  PROVE  /\ Named(v, v[1].name) /\ ~ Named(Tail(v), v[1].name)
         /\ \A m : m # v[1].name => (Named(v, m) <=> Named(Tail(v), m))
<1>1. /\ 1 \in DOMAIN v /\ DOMAIN v \subseteq Nat
      /\ DOMAIN Tail(v) \subseteq Nat \ {0}
      /\ \A j \in DOMAIN Tail(v) : j + 1 \in DOMAIN v /\ Tail(v)[j] = v[j + 1]
      /\ \A j \in DOMAIN v : j # 1 => j - 1 \in DOMAIN Tail(v) /\ Tail(v)[j - 1] = v[j]
  OBVIOUS
<1>2. Named(v, v[1].name)
  BY <1>1 DEF Named
<1>3. ASSUME Named(Tail(v), v[1].name) PROVE FALSE
  <2>1. PICK j \in DOMAIN Tail(v) : Tail(v)[j].name = v[1].name
    BY <1>3 DEF Named
  <2>2. j + 1 = 1
    BY <1>1, <2>1
  <2> QED BY <1>1, <2>1, <2>2
<1>4. ASSUME NEW m, m # v[1].name
      PROVE  Named(v, m) <=> Named(Tail(v), m)
  <2>1. ASSUME Named(v, m) PROVE Named(Tail(v), m)
    <3>1. PICK j \in DOMAIN v : v[j].name = m
      BY <2>1 DEF Named
    <3>2. j # 1
      BY <1>4, <3>1
    <3> QED BY <1>1, <3>1, <3>2 DEF Named
  <2>2. ASSUME Named(Tail(v), m) PROVE Named(v, m)
    <3>1. PICK j \in DOMAIN Tail(v) : Tail(v)[j].name = m
      BY <2>2 DEF Named
    <3> QED BY <1>1, <3>1 DEF Named
  <2> QED BY <2>1, <2>2
<1> QED BY <1>2, <1>3, <1>4

\* One metric of the last row is scored.
LEMMA FedScorePublic ==
  ASSUME Inv, Detectors, NEW n \in Nodes, Fed(n), ScorePublic(n)
  PROVE  Fed(n)'
<1> DEFINE v == req[n].todo
           L == Len(rows)
           new == Updated(detector[n][Stream(n)], Metric(n).value)
<1>1. /\ up[n] /\ req[n].pc = "metric" /\ v # <<>> /\ Batch(n).fleet = NoFleet
      /\ detector' = [detector EXCEPT ![n][Stream(n)] = new]
      /\ NextMetric(n) \/ GoTo(n, "local")
      /\ UNCHANGED <<wire, rows, up>>
  BY DEF ScorePublic, At, IsPublic, wireVars, dbVars
<1>2. Shape /\ Requests /\ req[n].pc # "idle" /\ req[n].pc \in InLoop
  BY <1>1 DEF Inv, InLoop
<1>3. PICK r : /\ Moves(n, r) /\ r.id = req[n].id
               /\ r.pc \in InLoop /\ Left(r) = Tail(v)
               /\ \/ r.todo = v
                  \/ v # <<>> /\ r.todo = Tail(v)
  BY <1>1, <1>2, AfterScoreRequest
<1>4. InTurn(req[n])'
  BY <1>1, <1>2, <1>3, InTurnMove DEF Fed
<1>5. req'[n] = r
  BY <1>3 DEF Moves
<1>6. /\ v \in Seq(Pairs) /\ Left(req[n]) = v
      /\ \A j, k \in DOMAIN v : v[j].name = v[k].name => j = k
  BY <1>1, <1>2 DEF Requests, Request, Pairs, Left, Fed, InTurn
<1>7. /\ Named(v, v[1].name) /\ ~ Named(Tail(v), v[1].name)
      /\ \A m : m # v[1].name => (Named(v, m) <=> Named(Tail(v), m))
  BY <1>1, <1>6, NamedOnce
<1>8. /\ L \in DOMAIN rows /\ rows[L] = req[n].id
      /\ Carries(req[n].id, Stream(n))
      /\ ValueOf(req[n].id, Metric(n).name) = Metric(n).value
  BY <1>1, MetricOfRow
<1>9. /\ Stream(n) \in Streams /\ Metric(n) = v[1] /\ Batch(n) = wire[req[n].id]
      /\ Stream(n).metric = v[1].name
  BY <1>1, <1>2, AtMetric
<1>10. L \in Nat \ {0} /\ DOMAIN rows = 1 .. L /\ L - 1 \in Nat /\ (L - 1) + 1 = L
  BY <1>2, <1>8, RowsShape
<1>11. Grows(wire, wire')
  BY <1>1, GrowsSelf
<1>12. ASSUME NEW s \in Streams
       PROVE  detector'[n][s] =
                Outcome(Len(rows'), Done(req[n], s)', ValuesOf(s.metric)')
  <2> DEFINE P == Done(req[n], s)
             Q == Done(req[n], s)'
             V == ValuesOf(s.metric)
             All == PublicPlaces(s)
  <2>1. detector[n][s] = Outcome(L, P, V)
    BY <1>1 DEF Fed
  <2>2. PublicPlaces(s)' = All /\ ValuesOf(s.metric)' = V
    BY <1>1, <1>2, <1>11, SameObservations
  <2>3. P = {k \in All : ~ (k = L /\ Named(v, s.metric))}
    BY <1>6 DEF Done
  <2>4. Q = {k \in All : ~ (k = L /\ Named(Tail(v), s.metric))}
    <3>1. Q = {k \in PublicPlaces(s)' : ~ (k = Len(rows') /\ Named(Left(req'[n]), s.metric))}
      BY DEF Done, Left, Named
    <3> QED BY <1>1, <1>3, <1>5, <2>2, <3>1
  <2>5. CASE s = Stream(n)
    <3>1. L \in All
      BY <1>1, <1>8, <1>9, <2>5 DEF PublicPlaces, PlacesOf, OfStream
    <3>2. L \notin P /\ L \in Q
      BY <1>7, <1>9, <2>3, <2>4, <2>5, <3>1
    <3>3. \A k \in 1 .. L - 1 : k \in P <=> k \in Q
      <4>1. \A k \in 1 .. L - 1 : k # L
        <5>1. L \in Nat
          BY <1>10
        <5> HIDE DEF L
        <5> QED BY <5>1
      <4>2. \A k : k # L => (k \in P <=> k \in Q)
        BY <2>3, <2>4
      <4> QED BY <4>1, <4>2
    <3>4. V[L] = Metric(n).value
      BY <1>8, <1>9, <2>5 DEF ValuesOf
    <3>5. detector'[n][s] = Updated(detector[n][s], Metric(n).value)
      BY <1>1, <1>9, <2>5 DEF Detectors
    <3> HIDE DEF P, Q, V, All
    <3>6. Outcome((L - 1) + 1, Q, V) =
            Updated(Outcome((L - 1) + 1, P, V), V[(L - 1) + 1])
      <4>1. L - 1 \in Nat /\ (L - 1) + 1 \notin P /\ (L - 1) + 1 \in Q
        BY <1>10, <3>2
      <4> QED BY <3>3, <4>1, OutcomeNext
    <3>7. detector'[n][s] = Outcome(L, Q, V)
      BY <1>10, <2>1, <3>4, <3>5, <3>6
    <3> QED BY <1>1, <2>2, <3>7 DEF Q
  <2>6. CASE s # Stream(n)
    <3>1. L \in All => s.metric # v[1].name
      <4>1. SUFFICES ASSUME L \in All, s.metric = v[1].name PROVE s = Stream(n)
        BY <2>6
      <4>2. Carries(req[n].id, s)
        BY <1>8, <4>1 DEF PublicPlaces, OfStream
      <4>3. /\ Stream(n).model = wire[req[n].id].model
            /\ Stream(n).suite = wire[req[n].id].suite
        BY <1>9 DEF Stream, StreamOf
      <4> QED BY <1>9, <4>1, <4>2, <4>3 DEF Carries, Streams
    <3>2. P = Q
      BY <1>7, <2>3, <2>4, <3>1
    <3>3. detector'[n][s] = detector[n][s]
      BY <1>1, <1>9, <2>6 DEF Detectors
    <3> QED BY <1>1, <2>1, <2>2, <3>2, <3>3
  <2> QED BY <2>5, <2>6
<1> QED BY <1>1, <1>4, <1>12 DEF Fed

\* Private batches are not scored here.
LEMMA FedScorePrivate ==
  ASSUME Inv, NEW n \in Nodes, Fed(n), ScorePrivate(n)
  PROVE  Fed(n)'
<1> DEFINE v == req[n].todo
<1>1. /\ up[n] /\ req[n].pc = "metric" /\ v # <<>> /\ Batch(n).fleet # NoFleet
      /\ NextMetric(n) \/ GoTo(n, "local")
      /\ UNCHANGED <<wire, rows, up, detector>>
  BY DEF ScorePrivate, At, IsPublic, wireVars, dbVars
<1>2. Shape /\ Requests /\ req[n].pc # "idle" /\ req[n].pc \in InLoop
  BY <1>1 DEF Inv, InLoop
<1>3. PICK r : /\ Moves(n, r) /\ r.id = req[n].id
               /\ r.pc \in InLoop /\ Left(r) = Tail(v)
               /\ \/ r.todo = v
                  \/ v # <<>> /\ r.todo = Tail(v)
  BY <1>1, <1>2, AfterScoreRequest
<1>4. InTurn(req[n])'
  BY <1>1, <1>2, <1>3, InTurnMove DEF Fed
<1>5. rows[Len(rows)] = req[n].id /\ Batch(n) = wire[req[n].id]
  BY <1>2 DEF Fed, InTurn, Batch
<1>6. ASSUME NEW s \in Streams
      PROVE  detector'[n][s] =
               Outcome(Len(rows'), Done(req[n], s)', ValuesOf(s.metric)')
  <2>1. detector[n][s] = Outcome(Len(rows), Done(req[n], s), ValuesOf(s.metric))
    BY <1>1 DEF Fed
  <2>2. /\ PublicPlaces(s)' = PublicPlaces(s)
        /\ ValuesOf(s.metric)' = ValuesOf(s.metric)
    BY <1>1, <1>2, SameObservations, GrowsSelf
  <2>3. Len(rows) \notin PublicPlaces(s)
    BY <1>1, <1>5 DEF PublicPlaces, PlacesOf
  <2>4. Done(req[n], s) = PublicPlaces(s)
    BY <2>3 DEF Done
  <2>5. Done(req[n], s)' = PublicPlaces(s)
    BY <1>1, <2>2, <2>3 DEF Done
  <2> QED BY <1>1, <2>1, <2>2, <2>4, <2>5
<1> QED BY <1>1, <1>4, <1>6 DEF Fed

\* A process that stops has nothing to account for.
LEMMA FedStop ==
  ASSUME Inv, up \in [Nodes -> BOOLEAN], NEW n \in Nodes, Fed(n), Stop(n)
  PROVE  Fed(n)'
<1>1. req' = [req EXCEPT ![n] = Idle] /\ up' = [up EXCEPT ![n] = FALSE] /\ wire' = wire
  BY DEF Stop, wireVars
<1>2. req'[n] = Idle
  BY <1>1 DEF Inv, Requests
<1>3. InTurn(req[n])' /\ req'[n].pc = "idle"
  BY <1>2 DEF InTurn, InLoop, Idle
<1> QED BY <1>1, <1>3 DEF Fed

\* Batches are stored once, so the rows are no more than the batches.
LEMMA FewRows ==
  ASSUME Inv, StoredOnce
  PROVE  Len(rows) <= MaxBatches
<1> DEFINE L == Len(rows)
<1>1. /\ L \in Nat /\ DOMAIN rows = 1 .. L /\ MaxBatches \in Nat
      /\ DOMAIN wire \subseteq 1 .. MaxBatches
      /\ \A k \in DOMAIN rows : rows[k] \in DOMAIN wire
      /\ rows \in Seq(Nat)
  BY GatewayAssumption DEF Inv, Shape
<1>2. rows \in [1 .. L -> 1 .. MaxBatches]
  BY <1>1
<1>3. rows \in Injection(1 .. L, 1 .. MaxBatches)
  BY <1>1, <1>2 DEF StoredOnce, Injection, IsInjective
<1>4. /\ IsFiniteSet(1 .. MaxBatches)
      /\ Cardinality(1 .. MaxBatches) = IF 1 > MaxBatches THEN 0 ELSE MaxBatches - 1 + 1
      /\ Cardinality(1 .. L) = IF 1 > L THEN 0 ELSE L - 1 + 1
  <2>1. 1 \in Int /\ L \in Int /\ MaxBatches \in Int
    BY <1>1
  <2> HIDE DEF L
  <2> QED BY <2>1, FS_Interval
<1>5. Cardinality(1 .. L) <= Cardinality(1 .. MaxBatches)
  BY <1>3, <1>4, FS_Injection
<1> HIDE DEF L
<1>6. L <= MaxBatches
  BY <1>1, <1>4, <1>5
<1> QED BY <1>6 DEF L

\* A window of BootstrapLimit rows holds them all.
LEMMA WholeWindow ==
  ASSUME Inv, StoredOnce, MaxBatches <= BootstrapLimit, NEW model
  PROVE  RecentSignals(model) = {k \in DOMAIN rows : wire[rows[k]].model = model}
<1> DEFINE mine == {k \in DOMAIN rows : wire[rows[k]].model = model}
           L == Len(rows)
<1>1. L \in Nat /\ DOMAIN rows = 1 .. L
  BY RowsShape DEF Inv
<1>2. L <= BootstrapLimit
  BY <1>1, FewRows, GatewayAssumption
<1>3. ASSUME NEW k \in mine
      PROVE  Cardinality({j \in mine : j > k}) < BootstrapLimit
  <2> DEFINE later == {j \in mine : j > k}
  <2>1. later \subseteq 2 .. L /\ L >= 1
    BY <1>1
  <2> HIDE DEF later, L
  <2>2. L \in Int /\ 2 \in Int
    BY <1>1
  <2>3. /\ IsFiniteSet(2 .. L)
        /\ Cardinality(2 .. L) = IF 2 > L THEN 0 ELSE L - 2 + 1
    BY <2>2, FS_Interval
  <2>4. IsFiniteSet(later) /\ Cardinality(later) <= Cardinality(2 .. L)
    BY <2>1, <2>3, FS_Subset
  <2>5. Cardinality(later) \in Nat
    BY <2>4, FS_CardinalityType
  <2>6. Cardinality(later) < BootstrapLimit
    BY <1>2, <2>1, <2>2, <2>3, <2>4, <2>5, GatewayAssumption
  <2> QED BY <2>6 DEF later
<1>4. RecentSignals(model) = {k \in mine : Cardinality({j \in mine : j > k}) < BootstrapLimit}
  BY DEF RecentSignals
<1> HIDE DEF mine
<1>5. RecentSignals(model) = mine
  BY <1>3, <1>4
<1> QED BY <1>5 DEF mine

\* The re-warm of a restarted process sees all its rows.
LEMMA FedStart ==
  ASSUME Inv, Detectors, StoredOnce, NEW n \in Nodes, Fed(n), Start(n),
         Fleets = {}, ReplayedMetrics = Metrics, MaxBatches <= BootstrapLimit
  PROVE  Fed(n)'
<1>1. /\ ~ up[n] /\ detector' = [detector EXCEPT ![n] = Bootstrapped]
      /\ UNCHANGED <<wire, rows, req>>
  BY DEF Start, wireVars, dbVars
<1>2. req[n].pc = "idle" /\ Shape
  BY <1>1 DEF Fed, Inv
<1>3. InTurn(req[n])'
  BY <1>1 DEF Fed, InTurn
<1>4. ASSUME NEW s \in Streams
      PROVE  detector'[n][s] =
               Outcome(Len(rows'), Done(req[n], s)', ValuesOf(s.metric)')
  <2> DEFINE P == RecentSignals(s.model) \cap OfStream(s)
  <2>1. s.metric \in ReplayedMetrics
    BY DEF Streams
  <2>2. detector'[n][s] = Bootstrapped[s]
    BY <1>1 DEF Detectors
  <2>3. Bootstrapped[s] = Replay(P, s.metric)
    BY <2>1 DEF Bootstrapped
  <2>4. Replay(P, s.metric) = Outcome(Len(rows), P, ValuesOf(s.metric))
    BY <1>2, RowsShape, ReplayOutcome
  <2>5. P = OfStream(s)
    BY WholeWindow DEF OfStream, Carries
  <2>6. PlacesOf(NoFleet) = DOMAIN rows
    <3>1. ASSUME NEW k \in DOMAIN rows PROVE wire[rows[k]].fleet = NoFleet
      <4>1. wire[rows[k]] \in Payload
        BY <1>2, RowsShape
      <4> QED BY <4>1 DEF Payload
    <3> QED BY <3>1 DEF PlacesOf
  <2>7. PublicPlaces(s) = OfStream(s)
    BY <2>6 DEF PublicPlaces, OfStream
  <2>8. Done(req[n], s) = PublicPlaces(s)
    BY <1>2 DEF Done, Left, InLoop, Named
  <2>9. Done(req[n], s)' = Done(req[n], s) /\ ValuesOf(s.metric)' = ValuesOf(s.metric)
    BY <1>1, <1>2, SameDone, SameObservations, GrowsSelf
  <2> HIDE DEF P
  <2> QED BY <1>1, <2>2, <2>3, <2>4, <2>5, <2>7, <2>8, <2>9
<1> QED BY <1>1, <1>2, <1>3, <1>4 DEF Fed

\* Between requests the public detector of a gateway is what its public rows
\* make of it, in the order stored: with one process and backends that answer;
\* and, where the process may be restarted, with a window that holds all rows,
\* every metric replayed and no private fleets.
THEOREM DetectorCorrect ==
  ASSUME NEW node, Nodes = {node}, ~ CallsMayFail,
         MayStop => /\ Fleets = {} /\ ReplayedMetrics = Metrics
                    /\ MaxBatches <= BootstrapLimit
  PROVE  Spec => []PublicDetectorMatchesRows
<1>0. node \in Nodes /\ \A n \in Nodes : n = node
  OBVIOUS
<1> DEFINE AllUp == ~ MayStop => up[node]
           FInv == Fed(node) /\ AllUp
<1>1. Init => FInv
  <2> SUFFICES ASSUME Init PROVE FInv
    OBVIOUS
  <2>1. /\ wire = <<>> /\ rows = <<>> /\ up[node] /\ req[node] = Idle
        /\ detector[node] = Untracked
    BY <1>0 DEF Init
  <2>2. wire \in Seq(Payloads) /\ Len(rows) = 0
    BY <2>1
  <2>3. InTurn(req[node])
    BY <2>1 DEF InTurn, Idle, InLoop
  <2>4. ASSUME NEW s \in Streams
        PROVE  detector[node][s] =
                 Outcome(Len(rows), Done(req[node], s), ValuesOf(s.metric))
    <3>1. detector[node][s] = NewMetricState
      BY <2>1 DEF Untracked
    <3>2. Outcome(0, Done(req[node], s), ValuesOf(s.metric)) = NewMetricState
      BY OutcomeStart
    <3> QED BY <2>2, <3>1, <3>2
  <2> QED BY <2>1, <2>2, <2>3, <2>4 DEF Fed
<1>2. Inv /\ Types /\ StoredOnce /\ FInv /\ [Next]_vars => FInv'
  <2> SUFFICES ASSUME Inv, Types, StoredOnce, FInv, [Next]_vars PROVE FInv'
    OBVIOUS
  <2> USE <1>0
  <2> USE DEF wireVars, dbVars, scorerVars, processVars, worldVars, historyVars
  <2>1. /\ Shape /\ Requests /\ Detectors /\ Fed(node) /\ AllUp
        /\ up \in [Nodes -> BOOLEAN] /\ wire \in Seq(Payloads)
    BY DEF Inv, Types, Counters, Fed
  <2>2. CASE ReceiveNew(node)
    <3>1. PICK b \in Payloads : /\ wire' = Append(wire, b)
                                /\ Admit(node, Len(wire) + 1, b)
      BY <2>2 DEF ReceiveNew
    <3>2. /\ up[node] /\ req[node].pc = "idle"
          /\ UNCHANGED <<rows, detector, up>>
      BY <2>2 DEF ReceiveNew, At
    <3>3. /\ wire' \in Seq(Payloads) /\ Grows(wire, wire')
          /\ Len(wire) + 1 \in DOMAIN wire' /\ wire'[Len(wire) + 1] = b
      BY <2>1, <3>1, Appended
    <3>4. Admit(node, Len(wire) + 1, wire'[Len(wire) + 1])
      BY <3>1, <3>3
    <3>5. Fed(node)'
      BY <2>1, <3>2, <3>3, <3>4, FedAdmit
    <3> QED BY <2>1, <3>2, <3>5
  <2>3. CASE Redeliver(node)
    <3>1. PICK i \in DOMAIN wire : Admit(node, i, wire[i])
      BY <2>3 DEF Redeliver
    <3>2. /\ up[node] /\ req[node].pc = "idle"
          /\ UNCHANGED <<wire, rows, detector, up>>
      BY <2>3 DEF Redeliver, At
    <3>3. Admit(node, i, wire'[i]) /\ i \in DOMAIN wire'
      BY <3>1, <3>2
    <3>4. Fed(node)'
      BY <2>1, <3>2, <3>3, GrowsSelf, FedAdmit
    <3> QED BY <2>1, <3>2, <3>4
  <2>4. CASE SaveBatch(node)
    BY <2>1, <2>4, FedSave DEF SaveBatch
  <2>5. CASE ScorePublic(node)
    BY <2>1, <2>5, FedScorePublic DEF ScorePublic
  <2>6. CASE ScorePrivate(node)
    BY <2>1, <2>6, FedScorePrivate DEF ScorePrivate
  <2>7. CASE SaveLocalAlert(node) \/ IngestCandidate(node) \/ SavePublicAlert(node)
    <3>1. PICK pc \in InLoop \ {"metric"} : GoTo(node, pc)
      BY <2>7 DEF SaveLocalAlert, AfterLocalAlert, IngestCandidate, SavePublicAlert, InLoop
    <3>2. /\ req[node].pc \in InLoop \ {"metric"}
          /\ UNCHANGED <<rows, wire, detector, up>>
      BY <2>7 DEF SaveLocalAlert, IngestCandidate, SavePublicAlert, At, InLoop
    <3> QED BY <2>1, <3>1, <3>2, FedGoTo
  <2>8. ASSUME NextMetric(node), UNCHANGED <<rows, wire, detector, up>>,
               req[node].pc \in InLoop \ {"metric"}
        PROVE  FInv'
    <3>1. req[node].todo # <<>>
      BY <2>1, <2>8 DEF Requests, Sound
    <3> QED BY <2>1, <2>8, <3>1, FedNext
  <2>9. CASE Notify(node) \/ ClearCandidates(node)
    BY <2>8, <2>9 DEF Notify, ClearCandidates, At, InLoop
  <2>10. CASE Promote(node)
    <3>1. /\ req[node].pc = "promote"
          /\ UNCHANGED <<rows, wire, detector, up>>
      BY <2>10 DEF Promote, At
    <3>2. CASE NextMetric(node)
      BY <2>8, <3>1, <3>2 DEF InLoop
    <3>3. CASE ~ NextMetric(node)
      <4> DEFINE c == Cardinality(LiveOrgs(agree[ScorerOf(node)][Stream(node)], clock))
                 r == [pc |-> "public", id |-> req[node].id,
                       todo |-> req[node].todo, count |-> c]
      <4>1. req' = [req EXCEPT ![node].pc = "public", ![node].count = c]
        BY <2>10, <3>3 DEF Promote
      <4>2. c \in Nat
        BY LiveOrgsFinite
      <4>3. req \in [Nodes -> Request] /\ req[node] \in Request
        BY <2>1 DEF Requests
      <4> HIDE DEF c
      <4>4. r \in Request
        BY <4>2, <4>3 DEF Request
      <4>5. [[req[node] EXCEPT !.pc = "public"] EXCEPT !.count = c] = r
        <5> DEFINE mid == [pc |-> "public", id |-> req[node].id,
                           todo |-> req[node].todo, count |-> req[node].count]
        <5>1. [req[node] EXCEPT !.pc = "public"] = mid
          BY <4>3, RequestFields
        <5>2. [mid EXCEPT !.count = c] = r
          OBVIOUS
        <5> QED BY <5>1, <5>2
      <4>6. r.pc = "public" /\ r.id = req[node].id /\ r.todo = req[node].todo
        OBVIOUS
      <4> HIDE DEF r
      <4>7. req' = [req EXCEPT ![node] = r]
        BY <4>1, <4>3, <4>5
      <4>8. Moves(node, r)
        BY <2>1, <4>4, <4>7, SetRequest
      <4>9. Left(r) = Left(req[node])
        BY <3>1, <4>6 DEF Left, InLoop
      <4> QED BY <2>1, <3>1, <4>6, <4>8, <4>9, FedMove DEF InLoop
    <3> QED BY <3>2, <3>3
  <2>11. CASE Respond(node)
    <3>1. /\ up[node] /\ req[node].pc = "metric" /\ req[node].todo = <<>>
          /\ req' = [req EXCEPT ![node] = Idle]
          /\ UNCHANGED <<rows, wire, detector, up>>
      BY <2>11 DEF Respond, At
    <3>2. req'[node] = Idle
      BY <2>1, <3>1 DEF Requests
    <3>3. InTurn(req[node])' /\ Left(req'[node]) = Left(req[node])
      BY <3>1, <3>2 DEF InTurn, Left, Idle, InLoop
    <3>4. Fed(node)'
      BY <2>1, <3>1, <3>3, GrowsSelf, FedKept
    <3> QED BY <2>1, <3>1, <3>4
  <2>12. CASE Raise(node)
    BY <2>12 DEF Raise
  <2>13. CASE Stop(node)
    BY <2>1, <2>13, FedStop DEF Stop
  <2>14. CASE Start(node)
    <3>1. ~ up[node] /\ MayStop
      BY <2>1, <2>14 DEF Start
    <3> QED BY <2>1, <2>14, <3>1, FedStart
  <2>15. ASSUME UNCHANGED <<rows, wire, detector, up, req>> PROVE FInv'
    <3>1. InTurn(req[node])'
      BY <2>1, <2>15 DEF Fed, InTurn
    <3> QED BY <2>1, <2>15, <3>1, GrowsSelf, FedKept DEF Fed
  <2>16. ASSUME NEW f \in Fleets, RegisterWebhook(node, f) \/ Dispatch(node, f)
         PROVE  FInv'
    BY <2>15, <2>16 DEF RegisterWebhook, Dispatch
  <2>17. CASE Tick
    BY <2>15, <2>17 DEF Tick
  <2>18. CASE UNCHANGED vars
    BY <2>15, <2>18 DEF vars
  <2> QED
    BY <2>2, <2>3, <2>4, <2>5, <2>6, <2>7, <2>9, <2>10, <2>11, <2>12, <2>13,
       <2>14, <2>16, <2>17, <2>18 DEF Next, Handle
<1>3. Inv /\ FInv => PublicDetectorMatchesRows
  <2> SUFFICES ASSUME Inv, FInv, up[node], req[node].pc = "idle", NEW s \in Streams
               PROVE  detector[node][s] =
                        Replay(PlacesOf(NoFleet) \cap OfStream(s), s.metric)
    BY <1>0 DEF PublicDetectorMatchesRows, At
  <2>1. Done(req[node], s) = PlacesOf(NoFleet) \cap OfStream(s)
    BY DEF Done, PublicPlaces, Left, InLoop, Named
  <2>2. detector[node][s] = Outcome(Len(rows), Done(req[node], s), ValuesOf(s.metric))
    BY DEF Fed
  <2> QED BY <2>1, <2>2, RowsShape, ReplayOutcome DEF Inv
<1>4. Spec => []StoredOnce
  BY OnceCorrect
<1> QED BY <1>1, <1>2, <1>3, <1>4, Invariance, TypesInvariant, PTL DEF Spec
=============================================================================
