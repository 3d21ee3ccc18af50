------------------------- MODULE GatewayReads_proofs -------------------------
(***************************************************************************)
(* Proofs about the repository, for each backend, and about the export and *)
(* the weather that read it, for any batches and setbacks of the clock.    *)
(***************************************************************************)
EXTENDS GatewayReads, FiniteSetTheorems, WellFoundedInduction, TLAPS

-----------------------------------------------------------------------------
(* The backends are instances: the library's operators have a copy in      *)
(* each, which is the same operator.                                       *)

LEMMA SameCardinality ==
  ASSUME NEW S
  PROVE  /\ SQLite!Cardinality(S) = Cardinality(S)
         /\ ClickHouse!Sql!Cardinality(S) = Cardinality(S)
<1>1. SQLite!Cardinality(S) = Cardinality(S)
  BY DEF SQLite!Cardinality, Cardinality
<1>2. ClickHouse!Sql!Cardinality(S) = Cardinality(S)
  BY DEF ClickHouse!Sql!Cardinality, Cardinality
<1> QED BY <1>1, <1>2

LEMMA SameToSet ==
  ASSUME NEW t
  PROVE  SQLite!ToSet(t) = ToSet(t) /\ ClickHouse!Sql!ToSet(t) = ToSet(t)
BY DEF SQLite!ToSet, ClickHouse!Sql!ToSet, ToSet

-----------------------------------------------------------------------------
(* The newest of a set of rows.                                            *)

\* A set of naturals has a least member.
LEMMA Least ==
  ASSUME NEW S \in SUBSET Nat, S # {}
  PROVE  \E n \in S : \A m \in S : n <= m
<1> DEFINE R == OpToRel(<, Nat)
<1>1. IsWellFoundedOn(R, Nat)
  BY NatLessThanWellFounded
<1>2. R = {p \in Nat \X Nat : p[1] < p[2]}
  BY DEF OpToRel
<1> HIDE DEF R
<1>3. PICK n \in S : \A m \in S : ~ (<<m, n>> \in R)
  BY <1>1, WFMin
<1>4. ASSUME NEW m \in S PROVE n <= m
  <2>1. <<m, n>> \notin R
    BY <1>3
  <2>2. m \in Nat /\ n \in Nat
    OBVIOUS
  <2> QED BY <1>2, <2>1, <2>2
<1> QED BY <1>4

\* Some row is the newest when times are bounded.
LEMMA NewestRow ==
  ASSUME NEW R, R # {}, NEW column, NEW bound \in Nat,
         \A r \in R : r[column] \in 0 .. bound
  PROVE  \E x \in R : \A r \in R : x[column] >= r[column]
<1> DEFINE U == {m \in Nat : \A r \in R : r[column] <= m}
<1>1. bound \in U
  OBVIOUS
<1>2. PICK m \in U : \A k \in U : m <= k
  BY <1>1, Least
<1>3. m \in Nat /\ \A r \in R : r[column] <= m /\ r[column] \in Nat
  BY <1>2
<1>4. \E x \in R : x[column] = m
  <2>1. SUFFICES ASSUME \A x \in R : x[column] # m PROVE FALSE
    OBVIOUS
  <2>2. \A r \in R : r[column] <= m - 1
    BY <1>3, <2>1
  <2>3. m - 1 \in Nat
    BY <1>3, <2>2
  <2>4. m - 1 \in U
    BY <2>2, <2>3
  <2> QED BY <1>2, <1>3, <2>4
<1> QED BY <1>3, <1>4

\* A is a part of R, and nothing outside it is newer than what is in it.
Top(A, R, column) == A \subseteq R /\ \A a \in A, r \in R \ A : a[column] >= r[column]

\* As many of the newest as are asked for can be found.
LEMMA NewestOfAnyNumber ==
  ASSUME NEW R, IsFiniteSet(R), NEW column, NEW bound \in Nat,
         \A r \in R : r[column] \in 0 .. bound,
         NEW n \in Nat, n <= Cardinality(R)
  PROVE  \E A : Top(A, R, column) /\ Cardinality(A) = n
<1> DEFINE Found(k) == \E A : Top(A, R, column) /\ Cardinality(A) = k
           S == {k \in Nat : k <= Cardinality(R) /\ ~ Found(k)}
<1>1. SUFFICES ASSUME ~ Found(n) PROVE FALSE
  OBVIOUS
<1>2. n \in S
  BY <1>1
<1>3. PICK k \in S : \A j \in S : k <= j
  <2> HIDE DEF S
  <2>1. S \in SUBSET Nat
    BY DEF S
  <2> QED BY <1>2, <2>1, Least
<1>4. k \in Nat /\ k <= Cardinality(R) /\ ~ Found(k)
  OBVIOUS
<1>5. k # 0
  <2>1. Top({}, R, column) /\ Cardinality({}) = 0
    BY FS_EmptySet DEF Top
  <2> QED BY <1>4, <2>1
<1>6. Cardinality(R) \in Nat
  BY FS_CardinalityType
<1>7. k - 1 \in Nat /\ k - 1 <= Cardinality(R) /\ ~ (k <= k - 1)
  BY <1>4, <1>5, <1>6
<1>8. Found(k - 1)
  <2>1. k - 1 \notin S
    <3> HIDE DEF S
    <3> QED BY <1>3, <1>7
  <2> HIDE DEF Found
  <2> QED BY <1>7, <2>1
<1>9. PICK A : Top(A, R, column) /\ Cardinality(A) = k - 1
  BY <1>8
<1>10. IsFiniteSet(A)
  BY <1>9, FS_Subset DEF Top
<1>11. R \ A # {}
  <2>1. SUFFICES ASSUME R \ A = {} PROVE FALSE
    OBVIOUS
  <2>2. A = R
    BY <1>9, <2>1 DEF Top
  <2> QED BY <1>4, <1>6, <1>9, <2>2
<1>12. PICK x \in R \ A : \A r \in R \ A : x[column] >= r[column]
  <2>1. \A r \in R \ A : r[column] \in 0 .. bound
    OBVIOUS
  <2> QED BY <1>11, <2>1, NewestRow
<1>13. Top(A \cup {x}, R, column)
  BY <1>9, <1>12 DEF Top
<1>14. Cardinality(A \cup {x}) = k
  <2>1. Cardinality(A \cup {x}) = Cardinality(A) + 1
    BY <1>10, <1>12, FS_AddElement
  <2> QED BY <1>4, <1>9, <2>1
<1> QED BY <1>4, <1>13, <1>14

Shortest(R, limit) == IF Cardinality(R) < limit THEN Cardinality(R) ELSE limit

LEMMA NewestIs ==
  ASSUME NEW R, NEW column, NEW limit
  PROVE  /\ SQLite!Newest(R, column, limit)
              = {A \in SUBSET R : Top(A, R, column) /\ Cardinality(A) = Shortest(R, limit)}
         /\ ClickHouse!Sql!Newest(R, column, limit) = SQLite!Newest(R, column, limit)
<1> DEFINE n == Shortest(R, limit)
           T == {A \in SUBSET R : Top(A, R, column) /\ Cardinality(A) = n}
<1>1. /\ SQLite!kSubset(n, R) = {A \in SUBSET R : Cardinality(A) = n}
      /\ ClickHouse!Sql!kSubset(n, R) = {A \in SUBSET R : Cardinality(A) = n}
  BY SameCardinality DEF SQLite!kSubset, ClickHouse!Sql!kSubset
<1>2. SQLite!Newest(R, column, limit)
        = {A \in SQLite!kSubset(n, R) : \A a \in A, r \in R \ A : a[column] >= r[column]}
  BY SameCardinality DEF SQLite!Newest, Shortest
<1>3. ClickHouse!Sql!Newest(R, column, limit)
        = {A \in ClickHouse!Sql!kSubset(n, R) :
             \A a \in A, r \in R \ A : a[column] >= r[column]}
  BY SameCardinality DEF ClickHouse!Sql!Newest, Shortest
<1> HIDE DEF n
<1>4. SQLite!Newest(R, column, limit) = T
  BY <1>1, <1>2 DEF Top
<1>5. ClickHouse!Sql!Newest(R, column, limit) = T
  BY <1>1, <1>3 DEF Top
<1> QED BY <1>4, <1>5 DEF n

LEMMA NewestFound ==
  ASSUME NEW R, IsFiniteSet(R), NEW column, NEW bound \in Nat,
         \A r \in R : r[column] \in 0 .. bound, NEW limit \in Nat
  PROVE  SQLite!Newest(R, column, limit) # {}
<1>1. Shortest(R, limit) \in Nat /\ Shortest(R, limit) <= Cardinality(R)
  BY FS_CardinalityType DEF Shortest
<1>2. PICK A : Top(A, R, column) /\ Cardinality(A) = Shortest(R, limit)
  BY <1>1, NewestOfAnyNumber
<1> QED BY <1>2, NewestIs DEF Top

-----------------------------------------------------------------------------
(* The tables.                                                             *)

SignalFields ==
  {"id", "batch_id", "timestamp", "model_tuple", "fleet_id", "suite_version",
   "json_success_rate", "result_count"}
AlertFields == {"id", "timestamp", "model_tuple"}

\* Rows lie at their places, with times of the gateway's clock.
Table(t, fields) ==
  /\ t \in Seq(ToSet(t))
  /\ \A i \in DOMAIN t : /\ fields \subseteq DOMAIN t[i]
                         /\ t[i].id = i
                         /\ t[i].timestamp \in 0 .. MaxTime

OncePerBatch ==
  \A i, j \in DOMAIN signals : signals[i].batch_id = signals[j].batch_id => i = j

Received == {[b EXCEPT !.batch_id = i] : b \in Batches, i \in Nat}

TablesInv ==
  /\ backend \in {"sqlite", "clickhouse"}
  /\ now \in 0 .. MaxTime
  /\ Table(signals, SignalFields)
  /\ Table(local, AlertFields)
  /\ Table(public, AlertFields)
  /\ OncePerBatch
  /\ request \in {None} \cup
       [batch : Received, left : SUBSET Metrics, quorum : Metrics \cup {None}]

LEMMA InTable ==
  ASSUME NEW t, NEW fields, Table(t, fields)
  PROVE  /\ Len(t) \in Nat /\ DOMAIN t = 1 .. Len(t)
         /\ \A r : r \in ToSet(t) <=> \E i \in DOMAIN t : t[i] = r
         /\ IsFiniteSet(ToSet(t))
<1>1. t \in Seq(ToSet(t))
  BY DEF Table
<1>2. Len(t) \in Nat /\ DOMAIN t = 1 .. Len(t)
  BY <1>1
<1>3. \A r : r \in ToSet(t) <=> \E i \in DOMAIN t : t[i] = r
  BY DEF ToSet
<1>4. IsFiniteSet(ToSet(t))
  <2>1. IsFiniteSet(1 .. Len(t))
    BY <1>2, FS_Interval
  <2>2. t \in Surjection(1 .. Len(t), ToSet(t))
    BY <1>1, <1>2, <1>3 DEF Surjection
  <2> QED BY <2>1, <2>2, FS_Surjection
<1> QED BY <1>2, <1>3, <1>4

LEMMA TableAppend ==
  ASSUME NEW t, NEW fields, Table(t, fields),
         NEW r, fields \subseteq DOMAIN r, r.id = Len(t) + 1, r.timestamp \in 0 .. MaxTime
  PROVE  /\ Table(Append(t, r), fields)
         /\ Len(Append(t, r)) = Len(t) + 1
         /\ \A i \in DOMAIN t : i \in DOMAIN Append(t, r) /\ Append(t, r)[i] = t[i]
         /\ Append(t, r)[Len(t) + 1] = r
         /\ DOMAIN Append(t, r) = DOMAIN t \cup {Len(t) + 1}
<1> DEFINE u == Append(t, r)
<1>1. t \in Seq(ToSet(t)) /\ Len(t) \in Nat /\ DOMAIN t = 1 .. Len(t)
  BY InTable DEF Table
<1>2. /\ Len(u) = Len(t) + 1 /\ DOMAIN u = 1 .. Len(t) + 1
      /\ \A i \in 1 .. Len(t) : u[i] = t[i]
      /\ u[Len(t) + 1] = r
  BY <1>1
<1>3. ToSet(t) \subseteq ToSet(u) /\ r \in ToSet(u)
  BY <1>1, <1>2 DEF ToSet
<1>4. u \in Seq(ToSet(u))
  <2>1. t \in Seq(ToSet(u))
    BY <1>1, <1>3
  <2> QED BY <1>3, <2>1
<1> HIDE DEF u
<1>5. \A i \in DOMAIN u : /\ fields \subseteq DOMAIN u[i]
                          /\ u[i].id = i
                          /\ u[i].timestamp \in 0 .. MaxTime
  <2> SUFFICES ASSUME NEW i \in DOMAIN u
               PROVE  /\ fields \subseteq DOMAIN u[i]
                      /\ u[i].id = i
                      /\ u[i].timestamp \in 0 .. MaxTime
    OBVIOUS
  <2>1. CASE i = Len(t) + 1
    BY <1>2, <2>1
  <2>2. CASE i \in 1 .. Len(t)
    BY <1>1, <1>2, <2>2 DEF Table
  <2> QED BY <1>1, <1>2, <2>1, <2>2
<1>6. Table(u, fields)
  BY <1>4, <1>5 DEF Table
<1>7. 1 .. Len(t) + 1 = 1 .. Len(t) \cup {Len(t) + 1}
  BY <1>1
<1> QED BY <1>1, <1>2, <1>6, <1>7 DEF u

\* A DateTime is not later, by less than a second.
LEMMA DateTimeBounds ==
  ASSUME NEW t \in Int
  PROVE  /\ ClickHouse!DateTime(t) \in Int
         /\ ClickHouse!DateTime(t) <= t /\ ClickHouse!DateTime(t) > t - Second
         /\ t >= 0 => ClickHouse!DateTime(t) >= 0
BY StoreAssumption DEF ClickHouse!DateTime

\* The time either backend writes.
Stamp == IF backend = "sqlite" THEN now ELSE ClickHouse!DateTime(now)

\* The row of a batch.
SignalOf(b, place, t) ==
  [id |-> place, batch_id |-> b.batch_id, timestamp |-> t, model_tuple |-> b.model_tuple,
   avg_output_length |-> SQLite!MetricOf(b, "avg_output_length"),
   json_success_rate |-> SQLite!MetricOf(b, "json_success_rate"),
   result_count |-> IF "result_count" \in DOMAIN b.metrics
                    THEN b.metrics.result_count ELSE b.result_count,
   fleet_id |-> b.fleet_id, suite_version |-> b.suite_version]

LEMMA SavedBatch ==
  ASSUME NEW t, NEW b, NEW at
  PROVE  /\ SQLite!SaveBatch(t, b, at) = Append(t, SignalOf(b, Len(t) + 1, at))
         /\ ClickHouse!SaveBatch(t, b, at)
              = Append(t, SignalOf(b, Len(t) + 1, ClickHouse!DateTime(at)))
<1>1. SQLite!SaveBatch(t, b, at) = Append(t, SignalOf(b, Len(t) + 1, at))
  BY DEF SQLite!SaveBatch, SignalOf
<1>2. \A name : ClickHouse!Sql!MetricOf(b, name) = SQLite!MetricOf(b, name)
  BY DEF ClickHouse!Sql!MetricOf, SQLite!MetricOf
<1>3. ClickHouse!SaveBatch(t, b, at)
        = Append(t, SignalOf(b, Len(t) + 1, ClickHouse!DateTime(at)))
  BY <1>2 DEF ClickHouse!SaveBatch, ClickHouse!Sql!SaveBatch, SignalOf
<1> QED BY <1>1, <1>3

\* A batch that arrives keeps its fields and gets its id.
LEMMA ReceivedFields ==
  ASSUME NEW b \in Batches, NEW i \in Nat
  PROVE  LET c == [b EXCEPT !.batch_id = i]
         IN  /\ c \in Received /\ c.batch_id = i
             /\ c.model_tuple = b.model_tuple /\ c.client_id = b.client_id
             /\ c.fleet_id = b.fleet_id
             /\ SQLite!MetricOf(c, "json_success_rate") \in Rates \cup {None}
<1>1. {"batch_id", "model_tuple", "client_id", "fleet_id", "metrics"} \subseteq DOMAIN b
  BY StoreAssumption DEF BatchFields
<1>2. [b EXCEPT !.batch_id = i] \in Received
  BY DEF Received
<1> DEFINE c == [b EXCEPT !.batch_id = i]
<1>3. c.metrics = b.metrics
  BY <1>1
<1> HIDE DEF c
<1>4. SQLite!MetricOf(c, "json_success_rate") \in Rates \cup {None}
  BY <1>3, StoreAssumption DEF SQLite!MetricOf
<1> QED BY <1>1, <1>2, <1>4 DEF c

LEMMA TablesInit == ReadsInit => TablesInv
<1> SUFFICES ASSUME ReadsInit PROVE TablesInv
  OBVIOUS
<1>1. \A fields : Table(<<>>, fields)
  BY DEF Table
<1>2. /\ backend \in {"sqlite", "clickhouse"} /\ now = 0
      /\ local = <<>> /\ public = <<>> /\ request = None
  BY DEF ReadsInit, StoreInit
<1>3. now \in 0 .. MaxTime /\ 0 \in 0 .. MaxTime
  BY <1>2, StoreAssumption
<1>4. signals = <<>> \/ \E b \in Batches : signals = <<LegacyRow([b EXCEPT !.batch_id = 1])>>
  BY DEF ReadsInit, StoreInit
<1>5. Table(signals, SignalFields) /\ OncePerBatch
  <2>1. CASE signals = <<>>
    BY <1>1, <2>1 DEF OncePerBatch
  <2>2. ASSUME NEW b \in Batches, signals = <<LegacyRow([b EXCEPT !.batch_id = 1])>>
        PROVE  Table(signals, SignalFields) /\ OncePerBatch
    <3> DEFINE row == SignalOf([b EXCEPT !.batch_id = 1], 1, 0)
               old == [row EXCEPT !.suite_version = None]
    <3>1. SQLite!SaveBatch(<<>>, [b EXCEPT !.batch_id = 1], 0) = Append(<<>>, row)
      <4>1. Len(<<>>) + 1 = 1
        OBVIOUS
      <4> QED BY <4>1, SavedBatch
    <3>2. LegacyRow([b EXCEPT !.batch_id = 1]) = old
      <4> HIDE DEF row
      <4>1. Last(Append(<<>>, row)) = row
        BY DEF Last
      <4> QED BY <3>1, <4>1 DEF LegacyRow
    <3>3. SignalFields \subseteq DOMAIN old /\ old.id = 1 /\ old.timestamp = 0
      BY DEF SignalOf, SignalFields
    <3> HIDE DEF old
    <3>4. signals = <<old>>
      BY <2>2, <3>2
    <3>5. /\ DOMAIN signals = {1} /\ signals[1] = old
          /\ signals \in Seq(ToSet(signals))
      BY <3>4 DEF ToSet
    <3> QED BY <1>3, <3>3, <3>5 DEF Table, OncePerBatch
  <2> QED BY <1>4, <2>1, <2>2
<1> QED BY <1>1, <1>2, <1>3, <1>5 DEF TablesInv

\* The new row of a table.
LEMMA StampedNow ==
  ASSUME TablesInv
  PROVE  /\ now \in 0 .. MaxTime
         /\ ClickHouse!DateTime(now) \in 0 .. MaxTime
<1>1. now \in 0 .. MaxTime /\ MaxTime \in Nat /\ now \in Int
  BY StoreAssumption DEF TablesInv
<1> QED BY <1>1, DateTimeBounds

LEMMA TablesReceive ==
  ASSUME TablesInv, NEW b \in Batches, NEW id \in Nat, Receive(b, id)
  PROVE  /\ TablesInv'
         /\ UNCHANGED <<backend, now, setBacks, local, public, seen>>
         /\ \/ UNCHANGED <<signals, request>>
            \/ /\ request'.quorum = None
               /\ Len(signals') = Len(signals) + 1
               /\ DOMAIN signals' = DOMAIN signals \cup {Len(signals) + 1}
               /\ \A i \in DOMAIN signals : signals'[i] = signals[i]
               /\ signals'[Len(signals) + 1].timestamp = Stamp
               /\ signals'[Len(signals) + 1].json_success_rate \in Rates \cup {None}
         /\ reply' # None => "report" \notin DOMAIN reply'
<1> DEFINE c == [b EXCEPT !.batch_id = id]
<1>1. /\ c \in Received /\ c.batch_id = id
      /\ SQLite!MetricOf(c, "json_success_rate") \in Rates \cup {None}
  BY ReceivedFields
<1> HIDE DEF c
<1>2. UNCHANGED <<backend, now, setBacks, local, public, seen>>
  BY DEF Receive
<1>3. CASE UNCHANGED <<signals, request>>
            /\ (reply' = [status |-> 500] \/ reply' = [status |-> 409])
  <2>1. "report" \notin DOMAIN reply'
    BY <1>3
  <2> QED BY <1>2, <1>3, <2>1 DEF TablesInv, OncePerBatch
<1>4. CASE /\ ~ Known(id)
           /\ signals' = IF backend = "sqlite"
                         THEN SQLite!SaveBatch(signals, c, now)
                         ELSE ClickHouse!SaveBatch(signals, c, now)
           /\ request' = [batch |-> c, left |-> Metrics, quorum |-> None]
           /\ reply' = None
  <2> DEFINE n == Len(signals) + 1
  <2>1. PICK at \in 0 .. MaxTime :
          /\ signals' = Append(signals, SignalOf(c, n, at))
          /\ at = Stamp
    BY <1>4, SavedBatch, StampedNow DEF Stamp
  <2> DEFINE r == SignalOf(c, n, at)
  <2>2. /\ SignalFields \subseteq DOMAIN r /\ r.id = n /\ r.timestamp = at
        /\ r.batch_id = id /\ r.json_success_rate \in Rates \cup {None}
    BY <1>1 DEF SignalOf, SignalFields
  <2> HIDE DEF r, n
  <2>3. Table(signals, SignalFields)
    BY DEF TablesInv
  <2>4. /\ Table(signals', SignalFields)
        /\ Len(signals') = n
        /\ \A i \in DOMAIN signals : signals'[i] = signals[i]
        /\ signals'[n] = r
        /\ DOMAIN signals' = DOMAIN signals \cup {n}
    BY <2>1, <2>2, <2>3, TableAppend DEF n, r
  <2>5. \A i \in DOMAIN signals : signals[i].batch_id # id
    <3>1. \A x \in ToSet(signals) : x.batch_id # id
      BY <1>4, SameToSet DEF Known, SQLite!HasBatch, ClickHouse!HasBatch, ClickHouse!Sql!HasBatch,
         TablesInv
    <3> QED BY <2>3, <3>1, InTable
  <2>6. OncePerBatch'
    BY <2>2, <2>4, <2>5 DEF OncePerBatch, TablesInv
  <2>7. request' \in [batch : Received, left : SUBSET Metrics, quorum : Metrics \cup {None}]
    BY <1>1, <1>4
  <2>8. TablesInv'
    BY <1>2, <2>4, <2>6, <2>7 DEF TablesInv
  <2>9. request'.quorum = None
    BY <1>4
  <2> QED BY <1>2, <1>4, <2>1, <2>2, <2>4, <2>8, <2>9 DEF n
<1> QED BY <1>3, <1>4 DEF Receive, c

LocalRowOf(b, metric, place, t) ==
  [id |-> place, timestamp |-> t, model_tuple |-> b.model_tuple, metric_name |-> metric,
   client_id |-> b.client_id, fleet_id |-> b.fleet_id]

LEMMA TablesStoreLocal ==
  ASSUME TablesInv, NEW metric \in Metrics, StoreLocalAlert(metric)
  PROVE  /\ TablesInv'
         /\ UNCHANGED <<backend, now, setBacks, signals, public>>
         /\ request # None /\ request.quorum = None
         /\ Len(local') = Len(local) + 1
         /\ DOMAIN local' = DOMAIN local \cup {Len(local) + 1}
         /\ \A i \in DOMAIN local : local'[i] = local[i]
         /\ local'[Len(local) + 1] \in LocalRow
         /\ backend = "sqlite" => local'[Len(local) + 1].timestamp = now
         /\ seen' = [seen EXCEPT !.local = Append(@, Len(signals))]
         /\ reply' # None => "report" \notin DOMAIN reply'
<1> DEFINE b == request.batch
           n == Len(local) + 1
<1>1. /\ UNCHANGED <<backend, now, setBacks, signals, public>>
      /\ request # None /\ request.quorum = None
      /\ seen' = [seen EXCEPT !.local = Append(@, Len(signals))]
  BY DEF StoreLocalAlert
<1>2. /\ b \in Received
      /\ request \in [batch : Received, left : SUBSET Metrics, quorum : Metrics \cup {None}]
  BY <1>1 DEF TablesInv
<1>3. PICK a \in Batches, i \in Nat : b = [a EXCEPT !.batch_id = i]
  BY <1>2 DEF Received
<1>4. b.model_tuple = a.model_tuple /\ b.client_id = a.client_id /\ b.fleet_id = a.fleet_id
  BY <1>3, ReceivedFields
<1> HIDE DEF b
<1>5. PICK at \in 0 .. MaxTime :
        /\ local' = Append(local, LocalRowOf(b, metric, n, at))
        /\ backend = "sqlite" => at = now
  BY StampedNow DEF StoreLocalAlert, LocalRowOf, SQLite!SaveLocalAlert,
     ClickHouse!SaveLocalAlert, ClickHouse!Sql!SaveLocalAlert, b
<1> DEFINE r == LocalRowOf(b, metric, n, at)
<1>6. /\ AlertFields \subseteq DOMAIN r /\ r.id = n /\ r.timestamp = at
  BY DEF LocalRowOf, AlertFields
<1>7. Table(local, AlertFields)
  BY DEF TablesInv
<1>8. r \in LocalRow
  <2>1. n \in Nat /\ at \in Nat
    BY <1>7, InTable, StoreAssumption
  <2>2. /\ b.model_tuple \in {x.model_tuple : x \in Batches}
        /\ b.client_id \in {x.client_id : x \in Batches}
        /\ b.fleet_id \in {x.fleet_id : x \in Batches}
    BY <1>4
  <2> HIDE DEF n
  <2> QED BY <2>1, <2>2 DEF LocalRow, LocalRowOf
<1> HIDE DEF r, n
<1>9. /\ Table(local', AlertFields)
      /\ Len(local') = n
      /\ \A j \in DOMAIN local : local'[j] = local[j]
      /\ local'[n] = r
      /\ DOMAIN local' = DOMAIN local \cup {n}
  BY <1>5, <1>6, <1>7, TableAppend DEF n, r
<1>10. request' \in [batch : Received, left : SUBSET Metrics, quorum : Metrics \cup {None}]
  <2>1. PICK met \in BOOLEAN :
          request' = [request EXCEPT !.left = @ \ {metric},
                                     !.quorum = IF met THEN metric ELSE None]
    BY DEF StoreLocalAlert
  <2> QED BY <1>2, <2>1
<1>11. TablesInv'
  BY <1>1, <1>9, <1>10 DEF TablesInv, OncePerBatch
<1>12. reply' # None => "report" \notin DOMAIN reply'
  <2>1. reply' = None \/ \E h : reply' = [notify |-> h]
    BY DEF StoreLocalAlert
  <2> QED BY <2>1
<1> QED BY <1>1, <1>5, <1>6, <1>8, <1>9, <1>11, <1>12 DEF n

LEMMA TablesStorePublic ==
  ASSUME TablesInv, StorePublicAlert
  PROVE  /\ TablesInv'
         /\ UNCHANGED <<backend, now, setBacks, signals, local>>
         /\ request # None /\ request.quorum # None /\ request'.quorum = None
         /\ Len(public') = Len(public) + 1
         /\ seen' = [seen EXCEPT !.public = Append(@, Len(signals))]
         /\ reply' = None
<1> DEFINE n == Len(public) + 1
<1>1. /\ UNCHANGED <<backend, now, setBacks, signals, local>>
      /\ request # None /\ request.quorum # None
      /\ request' = [request EXCEPT !.quorum = None]
      /\ seen' = [seen EXCEPT !.public = Append(@, Len(signals))]
      /\ reply' = None
  BY DEF StorePublicAlert
<1>2. request \in [batch : Received, left : SUBSET Metrics, quorum : Metrics \cup {None}]
  BY <1>1 DEF TablesInv
<1>3. /\ request' \in [batch : Received, left : SUBSET Metrics, quorum : Metrics \cup {None}]
      /\ request'.quorum = None
  BY <1>1, <1>2
<1>4. PICK r : /\ public' = Append(public, r) /\ AlertFields \subseteq DOMAIN r
               /\ r.id = n /\ r.timestamp \in 0 .. MaxTime
  <2> DEFINE Row(at) ==
        [id |-> n, timestamp |-> at, model_tuple |-> request.batch.model_tuple,
         metric_name |-> request.quorum, contributing_org_count |-> 3]
  <2>1. \/ public' = Append(public, Row(now))
        \/ public' = Append(public, Row(ClickHouse!DateTime(now)))
    BY DEF StorePublicAlert, SQLite!SavePublicAlert, ClickHouse!SavePublicAlert,
           ClickHouse!Sql!SavePublicAlert
  <2>2. \A at : /\ AlertFields \subseteq DOMAIN Row(at)
                /\ Row(at).id = n /\ Row(at).timestamp = at
    BY DEF AlertFields
  <2> HIDE DEF Row, n
  <2> QED BY <2>1, <2>2, StampedNow
<1>5. Table(public, AlertFields)
  BY DEF TablesInv
<1>6. Table(public', AlertFields) /\ Len(public') = n
  BY <1>4, <1>5, TableAppend
<1>7. TablesInv'
  BY <1>1, <1>3, <1>6 DEF TablesInv, OncePerBatch
<1> QED BY <1>1, <1>3, <1>6, <1>7

\* The other steps leave the tables alone.
LEMMA TablesQuiet ==
  ASSUME TablesInv,
         \/ OpenStore \/ Accept \/ Tick \/ SetBack
         \/ Read \/ UNCHANGED readVars
  PROVE  /\ TablesInv'
         /\ UNCHANGED <<backend, signals, local, public, seen>>
         /\ request' \in {request, None}
         /\ \/ now <= now' /\ setBacks' = setBacks
            \/ setBacks' = setBacks + 1
<1>1. now \in Nat /\ MaxTime \in Nat
  BY StoreAssumption DEF TablesInv
<1>2. /\ UNCHANGED <<backend, signals, local, public, seen>>
      /\ request' \in {request, None}
      /\ now' \in 0 .. MaxTime
      /\ \/ now <= now' /\ setBacks' = setBacks
         \/ setBacks' = setBacks + 1
  <2>1. CASE OpenStore \/ Accept
    BY <1>1, <2>1 DEF OpenStore, Accept, tables, TablesInv
  <2>2. CASE Tick
    BY <1>1, <2>2 DEF Tick, tables
  <2>3. CASE SetBack
    BY <1>1, <2>3 DEF SetBack, tables, TablesInv
  <2>4. CASE Read
    BY <1>1, <2>4 DEF Read, Weather, RegisterWebhook, Export, ToReads, TablesInv
  <2>5. CASE UNCHANGED readVars
    BY <1>1, <2>5 DEF readVars, storeVars, tables, TablesInv
  <2> QED BY <2>1, <2>2, <2>3, <2>4, <2>5
<1>3. TablesInv'
  BY <1>2 DEF TablesInv, OncePerBatch
<1> QED BY <1>2, <1>3

-----------------------------------------------------------------------------
(* What either backend answers.                                            *)

\* The rows of a model.
LEMMA RowsOfModel ==
  ASSUME TablesInv, NEW model
  PROVE  LET R == SQLite!OfModel(signals, model)
         IN  /\ ClickHouse!Sql!OfModel(signals, model) = R
             /\ R = {r \in ToSet(signals) : r.model_tuple = model}
             /\ IsFiniteSet(R)
             /\ \A r \in R : /\ SignalFields \subseteq DOMAIN r
                             /\ r.id \in DOMAIN signals /\ signals[r.id] = r
                             /\ r.id \in 0 .. Len(signals)
                             /\ r.timestamp \in 0 .. MaxTime
<1> DEFINE R == SQLite!OfModel(signals, model)
<1>1. /\ ClickHouse!Sql!OfModel(signals, model) = R
      /\ R = {r \in ToSet(signals) : r.model_tuple = model}
  BY SameToSet DEF SQLite!OfModel, ClickHouse!Sql!OfModel
<1>2. Table(signals, SignalFields)
  BY DEF TablesInv
<1>3. IsFiniteSet(R)
  BY <1>1, <1>2, InTable, FS_Subset
<1>4. \A r \in R : /\ SignalFields \subseteq DOMAIN r
                   /\ r.id \in DOMAIN signals /\ signals[r.id] = r
                   /\ r.id \in 0 .. Len(signals)
                   /\ r.timestamp \in 0 .. MaxTime
  <2> SUFFICES ASSUME NEW r \in R
               PROVE  /\ SignalFields \subseteq DOMAIN r
                      /\ r.id \in DOMAIN signals /\ signals[r.id] = r
                      /\ r.id \in 0 .. Len(signals)
                      /\ r.timestamp \in 0 .. MaxTime
    OBVIOUS
  <2>1. PICK i \in DOMAIN signals : signals[i] = r
    BY <1>1, <1>2, InTable
  <2>2. r.id = i /\ SignalFields \subseteq DOMAIN r /\ r.timestamp \in 0 .. MaxTime
    BY <1>2, <2>1 DEF Table
  <2>3. i \in 0 .. Len(signals)
    BY <1>2, InTable
  <2> QED BY <2>1, <2>2, <2>3
<1> QED BY <1>1, <1>3, <1>4

\* A is an answer made of the rows B: the newest by their places or by time.
LEMMA AnswerKept ==
  ASSUME TablesInv, NEW model, NEW limit \in Nat, NEW column \in {"id", "timestamp"},
         NEW B, Top(B, SQLite!OfModel(signals, model), column),
         Cardinality(B) = Shortest(SQLite!OfModel(signals, model), limit),
         NEW A, Cardinality(A) = Cardinality(B),
         \A a \in A : \E b \in B : a.id = b.id /\ a.timestamp = b.timestamp
                                   /\ a.model_tuple = b.model_tuple,
         \A b \in B : \E a \in A : a.id = b.id
  PROVE  NewestKept(A, model, limit)
<1> DEFINE R == SQLite!OfModel(signals, model)
           left == {r \in ToSet(signals) : r.model_tuple = model
                                           /\ \A a \in A : a.id # r.id}
<1>1. /\ R = {r \in ToSet(signals) : r.model_tuple = model}
      /\ IsFiniteSet(R)
      /\ \A r \in R : r.id \in Nat /\ r.timestamp \in Nat
  BY RowsOfModel, StoreAssumption
<1>2. B \subseteq R /\ \A b \in B, r \in R \ B : b[column] >= r[column]
  BY DEF Top
<1> HIDE DEF R
<1>3. \A a \in A : a.model_tuple = model
  BY <1>1, <1>2
<1>4. left \subseteq R \ B
  BY <1>1
<1>5. left # {} => Cardinality(A) = limit
  <2>1. ASSUME left # {} PROVE Cardinality(B) # Cardinality(R)
    BY <1>1, <1>2, <1>4, <2>1, FS_Subset
  <2> QED BY <2>1 DEF Shortest, R
<1>6. ASSUME NEW r \in left, NEW a \in A PROVE ~ (r.id > a.id /\ r.timestamp > a.timestamp)
  <2>1. PICK b \in B : a.id = b.id /\ a.timestamp = b.timestamp
    OBVIOUS
  <2>2. r \in R \ B
    BY <1>4
  <2>3. b[column] >= r[column]
    BY <1>2, <2>2
  <2>4. /\ b.id \in Nat /\ b.timestamp \in Nat
        /\ r.id \in Nat /\ r.timestamp \in Nat
    BY <1>1, <1>2, <2>2
  <2>5. CASE column = "id"
    BY <2>1, <2>3, <2>4, <2>5
  <2>6. CASE column = "timestamp"
    BY <2>1, <2>3, <2>4, <2>6
  <2> QED BY <2>5, <2>6
<1> HIDE DEF left
<1>7. NewestKept(A, model, limit) <=>
        /\ \A a \in A : a.model_tuple = model
        /\ left # {} => Cardinality(A) = limit
        /\ \A r \in left, a \in A : ~ (r.id > a.id /\ r.timestamp > a.timestamp)
  BY DEF NewestKept, left
<1> QED BY <1>3, <1>5, <1>6, <1>7

LEMMA SQLiteKept ==
  ASSUME TablesInv, backend = "sqlite", NEW model, NEW limit \in Nat
  PROVE  /\ RecentSignals(model, limit) # {}
         /\ \A A \in RecentSignals(model, limit) : NewestKept(A, model, limit)
<1> DEFINE R == SQLite!OfModel(signals, model)
<1>1. RecentSignals(model, limit) = SQLite!Newest(R, "id", limit)
  BY DEF RecentSignals, SQLite!GetRecentSignals
<1>2. /\ IsFiniteSet(R)
      /\ \A r \in R : r.id \in 0 .. Len(signals)
  BY RowsOfModel
<1>3. Len(signals) \in Nat
  BY InTable DEF TablesInv
<1>4. SQLite!Newest(R, "id", limit) # {}
  <2> HIDE DEF R
  <2>1. \A r \in R : r["id"] \in 0 .. Len(signals)
    BY <1>2
  <2> QED BY <1>2, <1>3, <2>1, NewestFound
<1>5. ASSUME NEW A \in SQLite!Newest(R, "id", limit) PROVE NewestKept(A, model, limit)
  <2>1. Top(A, R, "id") /\ Cardinality(A) = Shortest(R, limit)
    BY NewestIs
  <2> QED BY <2>1, AnswerKept
<1> QED BY <1>1, <1>4, <1>5

\* A row read from ClickHouse is the row stored, but for an old suite.
LEMMA ReadRow ==
  ASSUME NEW r, SignalFields \subseteq DOMAIN r
  PROVE  LET a == ClickHouse!ToSignalRow(r)
         IN  a.id = r.id /\ a.timestamp = r.timestamp /\ a.model_tuple = r.model_tuple
BY DEF ClickHouse!ToSignalRow, SignalFields

LEMMA ClickHouseKept ==
  ASSUME TablesInv, backend # "sqlite", NEW model, NEW limit \in Nat
  PROVE  /\ RecentSignals(model, limit) # {}
         /\ \A A \in RecentSignals(model, limit) : NewestKept(A, model, limit)
<1> DEFINE R == SQLite!OfModel(signals, model)
<1>1. RecentSignals(model, limit)
        = {{ClickHouse!ToSignalRow(r) : r \in B} : B \in SQLite!Newest(R, "timestamp", limit)}
  BY RowsOfModel, NewestIs DEF RecentSignals, ClickHouse!GetRecentSignals, ClickHouse!SignalRows
<1>2. /\ IsFiniteSet(R)
      /\ \A r \in R : /\ r.timestamp \in 0 .. MaxTime /\ SignalFields \subseteq DOMAIN r
                      /\ signals[r.id] = r
  BY RowsOfModel
<1>3. SQLite!Newest(R, "timestamp", limit) # {}
  <2> HIDE DEF R
  <2>1. \A r \in R : r["timestamp"] \in 0 .. MaxTime
    BY <1>2
  <2> QED BY <1>2, <2>1, StoreAssumption, NewestFound
<1>4. ASSUME NEW B \in SQLite!Newest(R, "timestamp", limit)
      PROVE  NewestKept({ClickHouse!ToSignalRow(r) : r \in B}, model, limit)
  <2> DEFINE A == {ClickHouse!ToSignalRow(r) : r \in B}
  <2>1. Top(B, R, "timestamp") /\ Cardinality(B) = Shortest(R, limit) /\ B \subseteq R
    BY NewestIs
  <2> HIDE DEF R
  <2>2. \A r \in B : LET a == ClickHouse!ToSignalRow(r)
                     IN  a.id = r.id /\ a.timestamp = r.timestamp
                         /\ a.model_tuple = r.model_tuple
    BY <1>2, <2>1, ReadRow
  <2>3. Cardinality(A) = Cardinality(B)
    <3> DEFINE f == [r \in B |-> ClickHouse!ToSignalRow(r)]
    <3>1. \A r, q \in B : f[r] = f[q] => r = q
      BY <1>2, <2>1, <2>2
    <3>2. f \in Bijection(B, A)
      <4>1. f \in [B -> A] /\ \A a \in A : \E r \in B : f[r] = a
        OBVIOUS
      <4> HIDE DEF f, A
      <4> QED BY <3>1, <4>1 DEF Bijection, Injection, Surjection, IsInjective
    <3>3. IsFiniteSet(B)
      BY <1>2, <2>1, FS_Subset
    <3>4. ExistsBijection(B, A)
      BY <3>2 DEF ExistsBijection
    <3> QED BY <3>3, <3>4, FS_Bijection
  <2>4. \A a \in A : \E b \in B : a.id = b.id /\ a.timestamp = b.timestamp
                                  /\ a.model_tuple = b.model_tuple
    BY <2>2
  <2>5. \A b \in B : \E a \in A : a.id = b.id
    BY <2>2
  <2> HIDE DEF A
  <2>6. NewestKept(A, model, limit)
    BY <2>1, <2>3, <2>4, <2>5, AnswerKept DEF R
  <2> QED BY <2>6 DEF A
<1> QED BY <1>1, <1>3, <1>4

\* The alerts of the last day.
LEMMA AlertsCovered ==
  ASSUME TablesInv, NEW model, NEW A \in RecentAlerts(model, Day)
  PROVE  DayCovered(A, model)
<1>1. now \in Int /\ Day \in Nat /\ Second \in Nat \ {0}
  BY StoreAssumption DEF TablesInv
<1>2. PICK since \in Int :
        /\ A = {r \in ToSet(public) : r.model_tuple = model /\ r.timestamp >= since}
        /\ since <= now - Day /\ since > now - Day - Second
  <2>1. CASE backend = "sqlite"
    <3>1. A = {r \in ToSet(public) : r.model_tuple = model /\ r.timestamp >= now - Day}
      BY <2>1, SameToSet DEF RecentAlerts, SQLite!GetRecentAlerts, SQLite!OfModel
    <3>2. now - Day \in Int /\ now - Day <= now - Day /\ now - Day > now - Day - Second
      BY <1>1
    <3> QED BY <3>1, <3>2
  <2>2. CASE backend # "sqlite"
    <3>1. A = {r \in ToSet(public) : r.model_tuple = model
                                     /\ r.timestamp >= ClickHouse!DateTime(now - Day)}
      BY <2>2, SameToSet DEF RecentAlerts, ClickHouse!GetRecentAlerts, ClickHouse!Sql!OfModel
    <3>2. now - Day \in Int
      BY <1>1
    <3> QED BY <3>1, <3>2, DateTimeBounds
  <2> QED BY <2>1, <2>2
<1>3. Table(public, AlertFields)
  BY DEF TablesInv
<1>4. \A r \in ToSet(public) : r.timestamp \in Int
  <2> SUFFICES ASSUME NEW r \in ToSet(public) PROVE r.timestamp \in Int
    OBVIOUS
  <2>1. PICK i \in DOMAIN public : public[i] = r
    BY <1>3, InTable
  <2> QED BY <1>3, <2>1, StoreAssumption DEF Table
<1> QED BY <1>1, <1>2, <1>4 DEF DayCovered

LEMMA TablesGiveContract == ASSUME TablesInv PROVE ContractKept
<1>1. TablesSound
  BY DEF TablesInv, Table, OncePerBatch, TablesSound
<1>2. ASSUME NEW model, NEW limit \in 1 .. MaxRows
      PROVE  /\ RecentSignals(model, limit) # {}
             /\ \A A \in RecentSignals(model, limit) : NewestKept(A, model, limit)
  <2>1. limit \in Nat
    BY StoreAssumption
  <2> QED BY <2>1, SQLiteKept, ClickHouseKept
<1> QED BY <1>1, <1>2, AlertsCovered DEF ContractKept

-----------------------------------------------------------------------------
(* The export.                                                             *)

\* A public alert follows the local alert of its vote.
LocalFirst ==
  /\ \A i \in DOMAIN local : local[i] \in LocalRow
  /\ Len(public) <= Len(local)
  /\ request # None /\ request.quorum # None => Len(public) < Len(local)

\* As long as the clock goes forward, what is stored after an alert is not
\* older than the alert.
Forward ==
  /\ setBacks \in Nat
  /\ seen \in [local : Seq(Nat), public : Seq(Nat)]
  /\ Len(seen.local) = Len(local)
  /\ backend = "sqlite" /\ setBacks = 0 =>
       \A i \in DOMAIN local :
         /\ local[i].timestamp <= now
         /\ \A j \in DOMAIN signals :
              j > seen.local[i] => local[i].timestamp <= signals[j].timestamp

\* What was exported under an id is the local alert of that id.
Shown ==
  \A id \in DOMAIN exported :
    id \in DOMAIN local /\ exported[id] = Details("local", local[id])

ReadsInv == TablesInv /\ LocalFirst /\ Forward /\ Shown

LEMMA ReadsInitInv == ReadsInit => ReadsInv /\ AuditResolves
<1> SUFFICES ASSUME ReadsInit PROVE ReadsInv /\ AuditResolves
  OBVIOUS
<1>1. /\ local = <<>> /\ public = <<>> /\ request = None /\ reply = None /\ setBacks = 0
      /\ seen = [local |-> <<>>, public |-> <<>>] /\ exported = [id \in {} |-> None]
  BY DEF ReadsInit, StoreInit
<1>2. LocalFirst /\ Forward /\ Shown /\ AuditResolves
  BY <1>1 DEF LocalFirst, Forward, Shown, AuditResolves
<1> QED BY <1>2, TablesInit DEF ReadsInv

LEMMA LocalFirstStep ==
  ASSUME ReadsInv, [Next]_readVars
  PROVE  LocalFirst'
<1>1. Len(public) \in Nat /\ Len(local) \in Nat
  BY InTable DEF ReadsInv, TablesInv
<1>2. ASSUME NEW b \in Batches, NEW id \in 1 .. Len(signals) + 1, Receive(b, id)
      PROVE  LocalFirst'
  <2>1. id \in Nat
    BY InTable DEF ReadsInv, TablesInv
  <2>2. UNCHANGED <<local, public>> /\ (request' = request \/ request'.quorum = None)
    BY <1>2, <2>1, TablesReceive DEF ReadsInv
  <2> QED BY <2>2 DEF ReadsInv, LocalFirst
<1>3. ASSUME NEW metric \in Metrics, StoreLocalAlert(metric) PROVE LocalFirst'
  <2>1. /\ UNCHANGED public
        /\ Len(local') = Len(local) + 1
        /\ DOMAIN local' = DOMAIN local \cup {Len(local) + 1}
        /\ \A i \in DOMAIN local : local'[i] = local[i]
        /\ local'[Len(local) + 1] \in LocalRow
    BY <1>3, TablesStoreLocal DEF ReadsInv
  <2>2. Len(public') <= Len(local') /\ Len(public') < Len(local')
    BY <1>1, <2>1 DEF ReadsInv, LocalFirst
  <2>3. \A i \in DOMAIN local' : local'[i] \in LocalRow
    BY <2>1 DEF ReadsInv, LocalFirst
  <2> QED BY <2>2, <2>3 DEF LocalFirst
<1>4. CASE StorePublicAlert
  <2>1. /\ UNCHANGED local /\ request # None /\ request.quorum # None
        /\ request'.quorum = None /\ Len(public') = Len(public) + 1
    BY <1>4, TablesStorePublic DEF ReadsInv
  <2>2. Len(public) < Len(local)
    BY <2>1 DEF ReadsInv, LocalFirst
  <2>3. Len(public') <= Len(local')
    BY <1>1, <2>1, <2>2
  <2> QED BY <2>1, <2>3 DEF ReadsInv, LocalFirst
<1>5. CASE OpenStore \/ Accept \/ Tick \/ SetBack \/ Read \/ UNCHANGED readVars
  <2>1. UNCHANGED <<local, public>> /\ request' \in {request, None}
    BY <1>5, TablesQuiet DEF ReadsInv
  <2> QED BY <2>1 DEF ReadsInv, LocalFirst
<1> QED BY <1>2, <1>3, <1>4, <1>5 DEF Next, Write

LEMMA SeenAppend ==
  ASSUME NEW h \in [local : Seq(Nat), public : Seq(Nat)], NEW n \in Nat
  PROVE  LET hl == [h EXCEPT !.local = Append(@, n)]
             hp == [h EXCEPT !.public = Append(@, n)]
         IN  /\ hl \in [local : Seq(Nat), public : Seq(Nat)]
             /\ hl.local = Append(h.local, n)
             /\ hp \in [local : Seq(Nat), public : Seq(Nat)]
             /\ hp.local = h.local
<1>1. Append(h.local, n) \in Seq(Nat) /\ Append(h.public, n) \in Seq(Nat)
  OBVIOUS
<1>2. \A u \in Seq(Nat) :
        /\ [h EXCEPT !.local = u] \in [local : Seq(Nat), public : Seq(Nat)]
        /\ [h EXCEPT !.local = u].local = u
        /\ [h EXCEPT !.public = u] \in [local : Seq(Nat), public : Seq(Nat)]
        /\ [h EXCEPT !.public = u].local = h.local
  OBVIOUS
<1> QED BY <1>1, <1>2

LEMMA ForwardStep ==
  ASSUME ReadsInv, [Next]_readVars
  PROVE  Forward'
<1>0. /\ Len(local) \in Nat /\ DOMAIN local = 1 .. Len(local)
      /\ Len(signals) \in Nat /\ DOMAIN signals = 1 .. Len(signals)
      /\ now \in Nat /\ setBacks \in Nat
      /\ seen \in [local : Seq(Nat), public : Seq(Nat)]
      /\ Len(seen.local) = Len(local) /\ DOMAIN seen.local = DOMAIN local
      /\ \A i \in DOMAIN local : seen.local[i] \in Nat
  BY StoreAssumption, InTable DEF ReadsInv, TablesInv, Forward
<1>1. \A i \in DOMAIN local : local[i].timestamp \in Nat
  BY StoreAssumption DEF ReadsInv, TablesInv, Table
<1>2. ASSUME NEW b \in Batches, NEW id \in 1 .. Len(signals) + 1, Receive(b, id)
      PROVE  Forward'
  <2>1. id \in Nat
    BY <1>0
  <2>2. /\ UNCHANGED <<backend, now, setBacks, local, seen>>
        /\ \/ UNCHANGED signals
           \/ /\ DOMAIN signals' = DOMAIN signals \cup {Len(signals) + 1}
              /\ \A i \in DOMAIN signals : signals'[i] = signals[i]
              /\ backend = "sqlite" => signals'[Len(signals) + 1].timestamp = now
    BY <1>2, <2>1, TablesReceive DEF ReadsInv, Stamp
  <2>3. ASSUME backend = "sqlite", setBacks = 0, NEW i \in DOMAIN local,
               NEW j \in DOMAIN signals', j > seen.local[i]
        PROVE  local[i].timestamp <= signals'[j].timestamp
    <3>1. local[i].timestamp <= now
      BY <2>3 DEF ReadsInv, Forward
    <3>2. CASE j \in DOMAIN signals /\ signals'[j] = signals[j]
      BY <2>3, <3>2 DEF ReadsInv, Forward
    <3> QED BY <2>2, <2>3, <3>1, <3>2
  <2> QED BY <2>2, <2>3 DEF ReadsInv, Forward
<1>3. ASSUME NEW metric \in Metrics, StoreLocalAlert(metric) PROVE Forward'
  <2> DEFINE n == Len(local) + 1
  <2>1. /\ UNCHANGED <<backend, now, setBacks, signals>>
        /\ Len(local') = n
        /\ DOMAIN local' = DOMAIN local \cup {n}
        /\ \A i \in DOMAIN local : local'[i] = local[i]
        /\ backend = "sqlite" => local'[n].timestamp = now
        /\ seen' = [seen EXCEPT !.local = Append(@, Len(signals))]
    BY <1>3, TablesStoreLocal DEF ReadsInv
  <2>2. /\ seen' \in [local : Seq(Nat), public : Seq(Nat)]
        /\ seen'.local = Append(seen.local, Len(signals))
    BY <1>0, <2>1, SeenAppend
  <2>3. /\ Len(seen'.local) = n
        /\ \A i \in DOMAIN local : seen'.local[i] = seen.local[i]
        /\ seen'.local[n] = Len(signals)
    BY <1>0, <2>2
  <2>4. ASSUME backend = "sqlite", setBacks = 0, NEW i \in DOMAIN local'
        PROVE  /\ local'[i].timestamp <= now
               /\ \A j \in DOMAIN signals :
                    j > seen'.local[i] => local'[i].timestamp <= signals[j].timestamp
    <3>1. CASE i = n
      BY <1>0, <2>1, <2>3, <2>4, <3>1
    <3>2. CASE i \in DOMAIN local
      BY <2>1, <2>3, <2>4, <3>2 DEF ReadsInv, Forward
    <3> QED BY <2>1, <3>1, <3>2
  <2> QED BY <1>0, <2>1, <2>2, <2>3, <2>4 DEF Forward
<1>4. CASE StorePublicAlert
  <2>1. /\ UNCHANGED <<backend, now, setBacks, signals, local>>
        /\ seen' = [seen EXCEPT !.public = Append(@, Len(signals))]
    BY <1>4, TablesStorePublic DEF ReadsInv
  <2>2. seen' \in [local : Seq(Nat), public : Seq(Nat)] /\ seen'.local = seen.local
    BY <1>0, <2>1, SeenAppend
  <2> QED BY <2>1, <2>2 DEF ReadsInv, Forward
<1>5. CASE OpenStore \/ Accept \/ Tick \/ SetBack \/ Read \/ UNCHANGED readVars
  <2>1. /\ UNCHANGED <<backend, signals, local, seen>>
        /\ \/ now <= now' /\ setBacks' = setBacks
           \/ setBacks' = setBacks + 1
        /\ TablesInv'
    BY <1>5, TablesQuiet DEF ReadsInv
  <2>2. now' \in Nat
    BY <2>1, StoreAssumption DEF TablesInv
  <2>3. CASE now <= now' /\ setBacks' = setBacks
    BY <1>0, <1>1, <2>1, <2>2, <2>3 DEF ReadsInv, Forward
  <2>4. CASE setBacks' = setBacks + 1
    <3>1. setBacks' \in Nat /\ setBacks' # 0
      BY <1>0, <2>4
    <3> QED BY <1>0, <2>1, <3>1 DEF Forward
  <2> QED BY <2>1, <2>3, <2>4
<1> QED BY <1>2, <1>3, <1>4, <1>5 DEF Next, Write

\* An id resolves to the local alert of that number or to nothing.
LEMMA ResolvedLocal ==
  ASSUME ReadsInv, NEW id \in Nat, NEW d \in Resolutions(id), d # None
  PROVE  id \in DOMAIN local /\ d = Details("local", local[id])
<1>1. PICK r \in SQLite!GetLocalAlertById(local, id), p \in SQLite!GetPublicAlertById(public, id) :
        d = IF r # None THEN Details("local", r)
            ELSE IF p # None THEN Details("public", p) ELSE None
  BY DEF Resolutions
<1>2. /\ DOMAIN local = 1 .. Len(local) /\ Len(local) \in Nat
      /\ DOMAIN public = 1 .. Len(public) /\ Len(public) \in Nat
      /\ Len(public) <= Len(local)
  BY InTable DEF ReadsInv, TablesInv, LocalFirst
<1>3. CASE id \in DOMAIN local
  <2>1. r = local[id]
    BY <1>3 DEF SQLite!GetLocalAlertById, SQLite!Looked
  <2>2. r # None
    BY <1>3, <2>1, NoneAssumption DEF ReadsInv, LocalFirst
  <2> QED BY <1>1, <1>3, <2>1, <2>2
<1>4. CASE id \notin DOMAIN local
  <2>1. id \notin DOMAIN public
    BY <1>2, <1>4
  <2>2. r = None /\ p = None
    BY <1>4, <2>1 DEF SQLite!GetLocalAlertById, SQLite!GetPublicAlertById, SQLite!Looked
  <2> QED BY <1>1, <2>2
<1> QED BY <1>3, <1>4

\* The evidence of the local alert id.
LEMMA EvidenceOfLocal ==
  ASSUME ReadsInv, backend = "sqlite", NEW id \in DOMAIN local,
         NEW report \in Reports(Details("local", local[id]))
  PROVE  /\ report.details = Details("local", local[id])
         /\ EvidencePrecedes(id, report)
<1> DEFINE d == Details("local", local[id])
           R == SQLite!OfModel(signals, d.row.model_tuple)
           S == {r \in R : /\ r.timestamp < d.row.timestamp
                           /\ FleetOf(d) # None => r.fleet_id = FleetOf(d)}
<1>1. d.type = "local" /\ d.row = local[id]
  BY DEF Details
<1>2. PICK A \in SQLite!GetSignalsBeforeTimestamp(signals, d.row.model_tuple,
                  d.row.timestamp, FleetOf(d), EvidenceRows) :
        report = [details |-> d, evidence |-> A]
  BY DEF Reports
<1>3. A \subseteq S
  <2>1. A \in SQLite!Newest(S, "timestamp", EvidenceRows)
    BY DEF SQLite!GetSignalsBeforeTimestamp
  <2> HIDE DEF S
  <2> QED BY <2>1, NewestIs
<1>4. report.details = d /\ report.evidence = A
  BY <1>2
<1> HIDE DEF d
<1>5. ASSUME NEW r \in A
      PROVE  /\ r.model_tuple = d.row.model_tuple
             /\ setBacks = 0 => r.id <= seen.local[id]
             /\ FleetOf(d) # None => r.fleet_id = FleetOf(d)
  <2>1. /\ r \in R /\ r.timestamp < d.row.timestamp
        /\ FleetOf(d) # None => r.fleet_id = FleetOf(d)
    BY <1>3
  <2>2. /\ r.model_tuple = d.row.model_tuple
        /\ r.id \in DOMAIN signals /\ signals[r.id] = r
        /\ r.timestamp \in Nat
    BY <2>1, RowsOfModel, StoreAssumption DEF ReadsInv
  <2>3. /\ d.row.timestamp \in Nat /\ r.id \in Nat /\ seen.local[id] \in Nat
    <3>1. local[id].timestamp \in Nat
      BY StoreAssumption DEF ReadsInv, TablesInv, Table
    <3>2. r.id \in Nat
      BY <2>2, InTable DEF ReadsInv, TablesInv
    <3>3. seen.local \in Seq(Nat) /\ Len(seen.local) = Len(local)
      BY DEF ReadsInv, Forward
    <3>4. id \in DOMAIN seen.local
      BY <3>3, InTable DEF ReadsInv, TablesInv
    <3> QED BY <1>1, <3>1, <3>2, <3>3, <3>4
  <2>4. ASSUME setBacks = 0 PROVE r.id <= seen.local[id]
    <3>1. r.id > seen.local[id] => local[id].timestamp <= signals[r.id].timestamp
      BY <2>2, <2>4 DEF ReadsInv, Forward
    <3> QED BY <1>1, <2>1, <2>2, <2>3, <3>1
  <2> QED BY <2>1, <2>2, <2>4
<1>6. EvidencePrecedes(id, report)
  BY <1>1, <1>4, <1>5 DEF EvidencePrecedes
<1> QED BY <1>4, <1>6 DEF d

\* An export that answers shows the local alert of its id.
LEMMA ExportStep ==
  ASSUME ReadsInv, NEW id \in Nat, NEW token, Export(id, token)
  PROVE  Shown' /\ AuditResolves'
<1>1. UNCHANGED <<backend, setBacks, signals, local, seen>>
  BY DEF Export, ToReads
<1>2. ASSUME NEW code, reply' = [status |-> code], exported' = exported
      PROVE  Shown' /\ AuditResolves'
  <2>1. "report" \notin DOMAIN reply'
    BY <1>2
  <2> QED BY <1>1, <1>2, <2>1 DEF ReadsInv, Shown, AuditResolves
<1>3. ASSUME NEW d \in Resolutions(id), d # None, NEW report \in Reports(d),
             backend # "clickhouse",
             reply' = [status |-> 200, id |-> id, report |-> report],
             exported' = Remembering(id, d)
      PROVE  Shown' /\ AuditResolves'
  <2>1. id \in DOMAIN local /\ d = Details("local", local[id])
    BY <1>3, ResolvedLocal
  <2>2. backend = "sqlite"
    BY <1>3 DEF ReadsInv, TablesInv
  <2>3. report.details = d /\ EvidencePrecedes(id, report)
    BY <1>3, <2>1, <2>2, EvidenceOfLocal
  <2>4. exported'[id] = d /\ Shown'
    <3>1. /\ DOMAIN exported' = DOMAIN exported \cup {id}
          /\ \A i \in DOMAIN exported : exported'[i] = exported[i]
          /\ id \notin DOMAIN exported => exported'[id] = d
      BY <1>3 DEF Remembering
    <3>2. id \in DOMAIN exported => exported[id] = d
      BY <2>1 DEF ReadsInv, Shown
    <3> QED BY <1>1, <2>1, <3>1, <3>2 DEF ReadsInv, Shown
  <2>5. reply'.id = id /\ reply'.report = report
    BY <1>3
  <2>6. OneAlertForEver(id, d)'
    BY <2>4 DEF OneAlertForEver
  <2>7. EvidencePrecedes(id, report)'
    BY <1>1, <2>3 DEF EvidencePrecedes
  <2> QED BY <2>3, <2>4, <2>5, <2>6, <2>7 DEF AuditResolves
<1>4. CASE token \in {"unset", "wrong"} \/ backend = "clickhouse"
  <2>1. (\E code : reply' = [status |-> code]) /\ exported' = exported
    BY <1>4 DEF Export, ToReads
  <2> QED BY <1>2, <2>1
<1>5. CASE ~ (token \in {"unset", "wrong"} \/ backend = "clickhouse")
  <2>1. PICK d \in Resolutions(id) :
          IF d = None THEN ToReads([status |-> 404]) /\ UNCHANGED exported
          ELSE \E report \in Reports(d) :
                 /\ ToReads([status |-> 200, id |-> id, report |-> report])
                 /\ exported' = Remembering(id, d)
    BY <1>5 DEF Export
  <2>2. CASE d = None
    BY <1>2, <2>1, <2>2 DEF ToReads
  <2>3. CASE d # None
    BY <1>3, <1>5, <2>1, <2>3 DEF ToReads
  <2> QED BY <2>2, <2>3
<1> QED BY <1>4, <1>5

LEMMA ShownStep ==
  ASSUME ReadsInv, AuditResolves, [Next]_readVars
  PROVE  Shown' /\ AuditResolves'
<1>1. ASSUME exported' = exported, reply' # None => "report" \notin DOMAIN reply',
             \A i \in DOMAIN local : i \in DOMAIN local' /\ local'[i] = local[i]
      PROVE  Shown' /\ AuditResolves'
  BY <1>1 DEF ReadsInv, Shown, AuditResolves
<1>2. ASSUME NEW b \in Batches, NEW id \in 1 .. Len(signals) + 1, Receive(b, id), Write
      PROVE  Shown' /\ AuditResolves'
  <2>1. id \in Nat
    BY InTable DEF ReadsInv, TablesInv
  <2>2. UNCHANGED <<local, exported>> /\ (reply' # None => "report" \notin DOMAIN reply')
    BY <1>2, <2>1, TablesReceive DEF ReadsInv, Write
  <2> QED BY <1>1, <2>2
<1>3. ASSUME NEW metric \in Metrics, StoreLocalAlert(metric), Write
      PROVE  Shown' /\ AuditResolves'
  <2>1. /\ exported' = exported /\ (reply' # None => "report" \notin DOMAIN reply')
        /\ DOMAIN local' = DOMAIN local \cup {Len(local) + 1}
        /\ \A i \in DOMAIN local : local'[i] = local[i]
    BY <1>3, TablesStoreLocal DEF ReadsInv, Write
  <2> QED BY <1>1, <2>1
<1>4. CASE Write /\ (StorePublicAlert \/ OpenStore \/ Accept \/ Tick \/ SetBack)
  <2>1. /\ UNCHANGED <<local, exported>>
        /\ reply' = None \/ reply' = [status |-> 202]
    BY <1>4 DEF Write, StorePublicAlert, OpenStore, Accept, Tick, SetBack, tables
  <2>2. reply' # None => "report" \notin DOMAIN reply'
    BY <2>1
  <2> QED BY <1>1, <2>1, <2>2
<1>5. CASE Weather
  <2>1. UNCHANGED <<local, exported>> /\ \E f : reply' = [status |-> 200, weather |-> f]
    BY <1>5 DEF Weather, ToReads
  <2> QED BY <1>1, <2>1
<1>6. ASSUME NEW admin, NEW sound, NEW fleet, NEW url,
             RegisterWebhook(admin, sound, fleet, url, None)
      PROVE  Shown' /\ AuditResolves'
  <2>1. UNCHANGED <<local, exported>> /\ \E code : reply' = [status |-> code]
    BY <1>6 DEF RegisterWebhook, ToReads
  <2> QED BY <1>1, <2>1
<1>7. ASSUME NEW id \in 1 .. MaxAlerts, NEW token, Export(id, token)
      PROVE  Shown' /\ AuditResolves'
  BY <1>7, ExportStep
<1>8. CASE UNCHANGED readVars
  BY <1>8 DEF readVars, storeVars, tables, ReadsInv, Shown, AuditResolves, OneAlertForEver,
              EvidencePrecedes
<1> QED BY <1>2, <1>3, <1>4, <1>5, <1>6, <1>7, <1>8 DEF Next, Write, Read

LEMMA TablesStep ==
  ASSUME TablesInv, [Next]_readVars
  PROVE  TablesInv'
<1>1. ASSUME NEW b \in Batches, NEW id \in 1 .. Len(signals) + 1, Receive(b, id)
      PROVE  TablesInv'
  <2>1. id \in Nat
    BY InTable DEF TablesInv
  <2> QED BY <1>1, <2>1, TablesReceive
<1> QED BY <1>1, TablesStoreLocal, TablesStorePublic, TablesQuiet DEF Next, Write

-----------------------------------------------------------------------------

\* Whichever backend the gateway runs on, and whenever it is restarted: rows
\* are found under their ids, a batch is stored once, the rows of a model are
\* answered newest first and up to the limit, and every quorum of the last
\* day is among the alerts.
THEOREM ContractCorrect == Spec => []ContractKept
<1>1. TablesInv => ContractKept
  BY TablesGiveContract
<1> QED BY <1>1, TablesInit, TablesStep, PTL DEF Spec

\* The inductive invariant of the tables and the exports made of them.
THEOREM Invariance == Spec => [](ReadsInv /\ AuditResolves)
<1>1. ReadsInv /\ AuditResolves /\ [Next]_readVars => (ReadsInv /\ AuditResolves)'
  BY TablesStep, LocalFirstStep, ForwardStep, ShownStep DEF ReadsInv
<1> QED BY <1>1, ReadsInitInv, PTL DEF Spec

\* An alert id means one alert for ever, and unless the clock was set back the
\* evidence of an alert was stored before it, is of its model and its fleet.
THEOREM AuditCorrect == Spec => []AuditResolves
BY Invariance, PTL

-----------------------------------------------------------------------------
(* The weather.                                                            *)

\* As long as the clock goes forward, rows are in the order of their times,
\* which ClickHouse cuts to seconds.
Chronicle ==
  /\ setBacks \in Nat
  /\ backend # "sqlite" => \A i \in DOMAIN signals : signals[i].timestamp % Second = 0
  /\ setBacks = 0 =>
       /\ \A i \in DOMAIN signals : signals[i].timestamp <= now
       /\ \A i, j \in DOMAIN signals : i <= j => signals[i].timestamp <= signals[j].timestamp

\* A whole second that is not after t is not after the second of t.
LEMMA WholeSeconds ==
  ASSUME NEW t \in Nat
  PROVE  /\ ClickHouse!DateTime(t) % Second = 0
         /\ \A a \in Nat : a % Second = 0 /\ a <= t => a <= ClickHouse!DateTime(t)
<1> DEFINE q == t \div Second
           r == t % Second
<1>1. Second \in Nat /\ Second > 0
  BY StoreAssumption
<1>2. /\ q \in Nat /\ r \in Nat /\ r < Second /\ t = Second * q + r
      /\ Second * q \in Nat
  BY <1>1
<1>3. ClickHouse!DateTime(t) = Second * q
  BY <1>2 DEF ClickHouse!DateTime
<1> HIDE DEF q, r
<1>4. (Second * q) % Second = 0
  BY <1>1, <1>2
<1>5. ASSUME NEW a \in Nat, a % Second = 0, a <= t PROVE a <= Second * q
  <2> DEFINE k == a \div Second
  <2>1. k \in Nat /\ a = Second * k
    BY <1>1, <1>5
  <2> HIDE DEF k
  <2>2. CASE k <= q
    BY <1>1, <1>2, <2>1, <2>2
  <2>3. CASE k > q
    <3>1. k >= q + 1
      BY <1>2, <2>1, <2>3
    <3>2. Second * k >= Second * (q + 1)
      BY <1>1, <1>2, <2>1, <3>1
    <3>3. Second * (q + 1) = Second * q + Second
      BY <1>1, <1>2
    <3> QED BY <1>1, <1>2, <1>5, <2>1, <3>2, <3>3
  <2> QED BY <1>2, <2>1, <2>2, <2>3
<1> QED BY <1>3, <1>4, <1>5

\* A new database is empty or holds one row from before suite_version.
LEMMA FirstRows ==
  ASSUME ReadsInit
  PROVE  \A i \in DOMAIN signals :
           i = 1 /\ signals[i].timestamp = 0
           /\ signals[i].json_success_rate \in Rates \cup {None}
<1>1. signals = <<>> \/ \E b \in Batches : signals = <<LegacyRow([b EXCEPT !.batch_id = 1])>>
  BY DEF ReadsInit, StoreInit
<1>2. CASE signals = <<>>
  BY <1>2
<1>3. ASSUME NEW b \in Batches, signals = <<LegacyRow([b EXCEPT !.batch_id = 1])>>
      PROVE  \A i \in DOMAIN signals :
               i = 1 /\ signals[i].timestamp = 0
               /\ signals[i].json_success_rate \in Rates \cup {None}
  <2> DEFINE c == [b EXCEPT !.batch_id = 1]
             row == SignalOf(c, 1, 0)
             old == [row EXCEPT !.suite_version = None]
  <2>1. SQLite!MetricOf(c, "json_success_rate") \in Rates \cup {None}
    BY ReceivedFields
  <2> HIDE DEF c
  <2>2. SQLite!SaveBatch(<<>>, c, 0) = Append(<<>>, row)
    <3>1. Len(<<>>) + 1 = 1
      OBVIOUS
    <3> QED BY <3>1, SavedBatch
  <2>3. LegacyRow(c) = old
    <3> HIDE DEF row
    <3>1. Last(Append(<<>>, row)) = row
      BY DEF Last
    <3> QED BY <2>2, <3>1 DEF LegacyRow
  <2>4. old.timestamp = 0 /\ old.json_success_rate \in Rates \cup {None}
    BY <2>1 DEF SignalOf
  <2> HIDE DEF old
  <2> QED BY <1>3, <2>3, <2>4 DEF c
<1> QED BY <1>1, <1>2, <1>3

LEMMA ChronicleInit == ReadsInit => Chronicle
<1> SUFFICES ASSUME ReadsInit PROVE Chronicle
  OBVIOUS
<1>1. setBacks = 0 /\ now = 0
  BY DEF ReadsInit, StoreInit
<1>2. 0 % Second = 0
  BY StoreAssumption
<1> QED BY <1>1, <1>2, FirstRows DEF Chronicle

LEMMA ChronicleStep ==
  ASSUME TablesInv, Chronicle, [Next]_readVars
  PROVE  Chronicle'
<1>0. /\ Len(signals) \in Nat /\ DOMAIN signals = 1 .. Len(signals)
      /\ now \in Nat /\ setBacks \in Nat
      /\ \A i \in DOMAIN signals : signals[i].timestamp \in Nat
  BY StoreAssumption, InTable DEF TablesInv, Chronicle, Table
<1>1. ASSUME NEW b \in Batches, NEW id \in 1 .. Len(signals) + 1, Receive(b, id)
      PROVE  Chronicle'
  <2> DEFINE n == Len(signals) + 1
  <2>1. id \in Nat
    BY <1>0
  <2>2. /\ UNCHANGED <<backend, now, setBacks>>
        /\ \/ UNCHANGED signals
           \/ /\ DOMAIN signals' = DOMAIN signals \cup {n}
              /\ \A i \in DOMAIN signals : signals'[i] = signals[i]
              /\ signals'[n].timestamp = Stamp
    BY <1>1, <2>1, TablesReceive
  <2>3. CASE UNCHANGED signals
    BY <2>2, <2>3 DEF Chronicle
  <2>4. CASE /\ DOMAIN signals' = DOMAIN signals \cup {n}
             /\ \A i \in DOMAIN signals : signals'[i] = signals[i]
             /\ signals'[n].timestamp = Stamp
    <3>1. /\ Stamp \in Int /\ Stamp <= now
          /\ backend # "sqlite" => Stamp % Second = 0
          /\ setBacks = 0 => \A i \in DOMAIN signals : signals[i].timestamp <= Stamp
      BY <1>0, DateTimeBounds, WholeSeconds DEF Stamp, Chronicle
    <3>2. n \in Nat /\ \A i \in DOMAIN signals : i < n
      BY <1>0
    <3> HIDE DEF n
    <3>3. ASSUME setBacks = 0, NEW i \in DOMAIN signals', NEW j \in DOMAIN signals', i <= j
          PROVE  signals'[i].timestamp <= signals'[j].timestamp
      <4>1. CASE j = n
        BY <1>0, <2>4, <3>1, <3>3, <4>1
      <4>2. CASE j \in DOMAIN signals
        <5>1. i # n
          BY <1>0, <3>2, <3>3, <4>2
        <5> QED BY <2>4, <3>3, <4>2, <5>1 DEF Chronicle
      <4> QED BY <2>4, <4>1, <4>2
    <3>4. /\ backend # "sqlite" => \A i \in DOMAIN signals' : signals'[i].timestamp % Second = 0
          /\ setBacks = 0 => \A i \in DOMAIN signals' : signals'[i].timestamp <= now
      BY <2>4, <3>1 DEF Chronicle
    <3> QED BY <1>0, <2>2, <3>3, <3>4 DEF Chronicle
  <2> QED BY <2>2, <2>3, <2>4
<1>2. CASE /\ UNCHANGED <<backend, signals>>
           /\ \/ now <= now' /\ setBacks' = setBacks
              \/ setBacks' = setBacks + 1
           /\ now' \in Nat
  <2>1. CASE now <= now' /\ setBacks' = setBacks
    BY <1>0, <1>2, <2>1 DEF Chronicle
  <2>2. CASE setBacks' = setBacks + 1
    <3>1. setBacks' \in Nat /\ setBacks' # 0
      BY <1>0, <2>2
    <3> QED BY <1>2, <3>1 DEF Chronicle
  <2> QED BY <1>2, <2>1, <2>2
<1>3. ASSUME NEW metric \in Metrics, StoreLocalAlert(metric) PROVE Chronicle'
  BY <1>0, <1>2, <1>3 DEF StoreLocalAlert
<1>4. CASE StorePublicAlert
  BY <1>0, <1>2, <1>4 DEF StorePublicAlert
<1>5. CASE OpenStore \/ Accept \/ Tick \/ SetBack \/ Read \/ UNCHANGED readVars
  <2>1. /\ UNCHANGED <<backend, signals>>
        /\ \/ now <= now' /\ setBacks' = setBacks
           \/ setBacks' = setBacks + 1
        /\ TablesInv'
    BY <1>5, TablesQuiet
  <2>2. now' \in Nat
    BY <2>1, StoreAssumption DEF TablesInv
  <2> QED BY <1>2, <2>1, <2>2
<1> QED BY <1>1, <1>3, <1>4, <1>5 DEF Next, Write

\* What is answered was stored, for this model.
LEMMA WindowRows ==
  ASSUME TablesInv, NEW model, NEW limit, NEW window \in RecentSignals(model, limit)
  PROVE  /\ IsFiniteSet(window)
         /\ \A a \in window : \E r \in ToSet(signals) :
              r.model_tuple = model /\ (a = r \/ a = ClickHouse!ToSignalRow(r))
<1> DEFINE R == SQLite!OfModel(signals, model)
<1>1. /\ R = {r \in ToSet(signals) : r.model_tuple = model}
      /\ ClickHouse!Sql!OfModel(signals, model) = R
      /\ IsFiniteSet(R)
  BY RowsOfModel
<1> HIDE DEF R
<1>2. CASE backend = "sqlite"
  <2>1. window \in SQLite!Newest(R, "id", limit)
    BY <1>2 DEF RecentSignals, SQLite!GetRecentSignals, R
  <2>2. window \subseteq R
    BY <2>1, NewestIs
  <2> QED BY <1>1, <2>2, FS_Subset
<1>3. CASE backend # "sqlite"
  <2>1. PICK B \in SQLite!Newest(R, "timestamp", limit) :
          window = {ClickHouse!ToSignalRow(r) : r \in B}
    <3>1. RecentSignals(model, limit)
            = {{ClickHouse!ToSignalRow(r) : r \in B} : B \in SQLite!Newest(R, "timestamp", limit)}
      BY <1>3, RowsOfModel, NewestIs
         DEF RecentSignals, ClickHouse!GetRecentSignals, ClickHouse!SignalRows, R
    <3> QED BY <3>1
  <2>2. B \subseteq R
    BY <2>1, NewestIs
  <2>3. IsFiniteSet(B)
    BY <1>1, <2>2, FS_Subset
  <2>4. IsFiniteSet(window)
    <3> DEFINE f == [r \in B |-> ClickHouse!ToSignalRow(r)]
    <3>1. f \in [B -> window] /\ \A a \in window : \E r \in B : f[r] = a
      BY <2>1
    <3> HIDE DEF f
    <3>2. f \in Surjection(B, window)
      BY <3>1 DEF Surjection
    <3> QED BY <2>3, <3>2, FS_Surjection
  <2> QED BY <1>1, <2>1, <2>2, <2>4
<1> QED BY <1>2, <1>3

\* A row as the answer shows it.
LEMMA WindowRow ==
  ASSUME TablesInv, NEW model, NEW limit, NEW window \in RecentSignals(model, limit),
         NEW a \in window
  PROVE  \E r \in ToSet(signals) :
           /\ r.model_tuple = model
           /\ a.id = r.id /\ a.timestamp = r.timestamp
           /\ r.id \in DOMAIN signals /\ signals[r.id] = r
           /\ r.timestamp \in 0 .. MaxTime
<1>1. PICK r \in ToSet(signals) :
        r.model_tuple = model /\ (a = r \/ a = ClickHouse!ToSignalRow(r))
  BY WindowRows
<1>2. r \in SQLite!OfModel(signals, model)
  BY <1>1, RowsOfModel
<1>3. /\ SignalFields \subseteq DOMAIN r
      /\ r.id \in DOMAIN signals /\ signals[r.id] = r /\ r.timestamp \in 0 .. MaxTime
  BY <1>2, RowsOfModel
<1> QED BY <1>1, <1>3, ReadRow

\* Times that are bounded have a latest.
LEMMA LatestTime ==
  ASSUME NEW S \in SUBSET (0 .. MaxTime), S # {}
  PROVE  Max(S) \in S /\ \A t \in S : t <= Max(S)
<1> DEFINE R == {[at |-> t] : t \in S}
<1>1. \E x \in R : \A r \in R : x["at"] >= r["at"]
  <2>1. R # {}
    <3>1. PICK t \in S : TRUE
      OBVIOUS
    <3>2. [at |-> t] \in R
      BY <3>1
    <3> QED BY <3>2
  <2>2. \A r \in R : r["at"] \in 0 .. MaxTime
    <3>1. \A t \in S : [at |-> t]["at"] \in 0 .. MaxTime
      OBVIOUS
    <3> QED BY <3>1
  <2> HIDE DEF R
  <2> QED BY <2>1, <2>2, StoreAssumption, NewestRow
<1>2. \E t \in S : \A u \in S : t >= u
  <2>1. PICK x \in R : \A r \in R : x["at"] >= r["at"]
    BY <1>1
  <2>2. PICK t \in S : x = [at |-> t]
    BY <2>1
  <2>3. \A u \in S : [at |-> u] \in R
    OBVIOUS
  <2>4. \A u \in S : x["at"] >= [at |-> u]["at"]
    BY <2>1, <2>3
  <2> QED BY <2>2, <2>4
<1>3. Max(S) \in S /\ \A u \in S : Max(S) >= u
  BY <1>2 DEF Max
<1>4. \A t \in S : t \in Int
  BY StoreAssumption
<1> QED BY <1>3, <1>4

\* The end of the window is as late as any row of the model.
EndOf(window) ==
  LET stamps == {r.timestamp : r \in window}
  IN  IF stamps = {} THEN None ELSE Max(stamps)

LEMMA WindowEnds ==
  ASSUME TablesInv, NEW model, NEW window \in RecentSignals(model, WeatherRows),
         NEW end, end = EndOf(window)
  PROVE  /\ end # None => /\ end \in 0 .. MaxTime
                          /\ \E r \in ToSet(signals) :
                               r.model_tuple = model /\ r.timestamp = end
         /\ Chronicle /\ setBacks = 0 =>
              \A r \in ToSet(signals) :
                r.model_tuple = model => end # None /\ r.timestamp <= end
<1> DEFINE stamps == {r.timestamp : r \in window}
<1>1. stamps \in SUBSET (0 .. MaxTime)
  BY WindowRow
<1>2. /\ stamps # {} => end \in stamps /\ end # None /\ \A t \in stamps : t <= end
      /\ stamps = {} => end = None
  BY <1>1, LatestTime, NoneAssumption DEF EndOf
<1>3. ASSUME end # None
      PROVE  /\ end \in 0 .. MaxTime
             /\ \E r \in ToSet(signals) : r.model_tuple = model /\ r.timestamp = end
  <2>1. end \in stamps
    BY <1>2, <1>3
  <2>2. PICK a \in window : a.timestamp = end
    BY <2>1
  <2>3. PICK r \in ToSet(signals) : r.model_tuple = model /\ a.timestamp = r.timestamp
    BY WindowRow
  <2> QED BY <1>1, <2>1, <2>2, <2>3
<1>4. ASSUME Chronicle, setBacks = 0, NEW r \in ToSet(signals), r.model_tuple = model
      PROVE  end # None /\ r.timestamp <= end
  <2>1. r \in SQLite!OfModel(signals, model)
    BY <1>4, RowsOfModel
  <2>2. /\ r.id \in DOMAIN signals /\ signals[r.id] = r
        /\ r.id \in Nat /\ r.timestamp \in Nat
    BY <2>1, RowsOfModel, StoreAssumption
  <2>3. \E a \in window : r.timestamp <= a.timestamp
    <3>1. CASE \E a \in window : a.id = r.id
      <4>1. PICK a \in window : a.id = r.id
        BY <3>1
      <4>2. a.timestamp = r.timestamp
        BY <2>2, <4>1, WindowRow
      <4> QED BY <2>2, <4>1, <4>2
    <3>2. CASE \A a \in window : a.id # r.id
      <4>1. WeatherRows \in Nat /\ WeatherRows # 0
        BY ReadsAssumption
      <4>2. NewestKept(window, model, WeatherRows)
        BY <4>1, SQLiteKept, ClickHouseKept
      <4>3. /\ Cardinality(window) = WeatherRows
            /\ \A a \in window : ~ (r.id > a.id /\ r.timestamp > a.timestamp)
        BY <1>4, <3>2, <4>2 DEF NewestKept
      <4>4. PICK a \in window : TRUE
        BY <4>1, <4>3, FS_EmptySet
      <4>5. /\ a.id \in DOMAIN signals /\ signals[a.id].timestamp = a.timestamp
            /\ a.timestamp \in Nat
        BY StoreAssumption, WindowRow
      <4>6. a.id \in Nat
        BY <4>5, InTable DEF TablesInv
      <4>7. CASE r.timestamp <= a.timestamp
        BY <4>7
      <4>8. CASE r.timestamp > a.timestamp
        <5>1. r.id <= a.id
          BY <2>2, <4>3, <4>6, <4>8
        <5>2. signals[r.id].timestamp <= signals[a.id].timestamp
          BY <1>4, <2>2, <4>5, <5>1 DEF Chronicle
        <5> QED BY <2>2, <4>5, <5>2
      <4> QED BY <2>2, <4>5, <4>7, <4>8
    <3> QED BY <3>1, <3>2
  <2>4. PICK t \in stamps : r.timestamp <= t
    BY <2>3
  <2>5. end \in stamps /\ end # None /\ t <= end
    BY <1>2, <2>4
  <2>6. t \in Nat /\ end \in Nat
    BY <1>1, <2>4, <2>5, StoreAssumption
  <2>7. \A x, y, z \in Nat : x <= y /\ y <= z => x <= z
    OBVIOUS
  <2>8. r.timestamp <= end
    BY <2>2, <2>4, <2>5, <2>6, <2>7
  <2> QED BY <2>5, <2>8
<1> QED BY <1>3, <1>4

LEMMA LightHolds ==
  ASSUME TablesInv, Chronicle, NEW model,
         NEW window \in RecentSignals(model, WeatherRows),
         NEW alerts \in RecentAlerts(model, Day)
  PROVE  LightTrue(model, ModelWeather(model, window, alerts))
<1> DEFINE end == EndOf(window)
           w == ModelWeather(model, window, alerts)
           age == IF end = None THEN None ELSE now - end
<1>1. w.status = IF alerts # {} THEN "DRIFTING"
                 ELSE IF age = None THEN "STALE"
                 ELSE IF age > StaleAfter THEN "STALE" ELSE "STABLE"
  BY DEF ModelWeather, StatusOf, WindowAge, EndOf
<1>2. /\ now \in Nat /\ Day \in Nat /\ Second \in Nat \ {0} /\ StaleAfter \in Nat
  BY StoreAssumption, ReadsAssumption DEF TablesInv
<1>3. /\ end # None => /\ end \in Nat
                       /\ \E r \in ToSet(signals) :
                            r.model_tuple = model /\ r.timestamp = end
      /\ setBacks = 0 =>
           \A r \in ToSet(signals) :
             r.model_tuple = model => end # None /\ r.timestamp <= end
  <2>1. /\ end # None => /\ end \in 0 .. MaxTime
                         /\ \E r \in ToSet(signals) :
                              r.model_tuple = model /\ r.timestamp = end
        /\ setBacks = 0 =>
             \A r \in ToSet(signals) :
               r.model_tuple = model => end # None /\ r.timestamp <= end
    BY WindowEnds
  <2>2. end \in 0 .. MaxTime => end \in Nat
    BY StoreAssumption
  <2> HIDE DEF end
  <2> QED BY <2>1, <2>2
<1>4. \A r \in ToSet(signals) : r.timestamp \in Nat
  <2> SUFFICES ASSUME NEW r \in ToSet(signals) PROVE r.timestamp \in Nat
    OBVIOUS
  <2>1. PICK i \in DOMAIN signals : signals[i] = r
    BY InTable DEF TablesInv
  <2> QED BY <2>1, StoreAssumption DEF TablesInv, Table
<1>5. /\ \A r \in ToSet(public) :
           r.model_tuple = model /\ r.timestamp >= now - Day => r \in alerts
      /\ \A r \in alerts : r \in ToSet(public) /\ r.model_tuple = model
                           /\ r.timestamp > now - Day - Second
  BY AlertsCovered DEF DayCovered
<1>6. \A r \in ToSet(public) : r.timestamp \in Nat
  <2> SUFFICES ASSUME NEW r \in ToSet(public) PROVE r.timestamp \in Nat
    OBVIOUS
  <2>1. PICK i \in DOMAIN public : public[i] = r
    BY InTable DEF TablesInv
  <2> QED BY <2>1, StoreAssumption DEF TablesInv, Table
<1> HIDE DEF end, w
<1>7. Alarmed(model, Day) => w.status = "DRIFTING"
  <2> SUFFICES ASSUME NEW r \in ToSet(public), r.model_tuple = model,
                      now - r.timestamp <= Day
               PROVE  alerts # {}
    BY <1>1 DEF Alarmed
  <2>1. r.timestamp >= now - Day
    BY <1>2, <1>6
  <2> QED BY <1>5, <2>1
<1>8. w.status = "DRIFTING" => Alarmed(model, Day + Second - 1)
  <2> SUFFICES ASSUME w.status = "DRIFTING" PROVE Alarmed(model, Day + Second - 1)
    OBVIOUS
  <2>1. PICK r \in alerts : TRUE
    BY <1>1
  <2>2. r \in ToSet(public) /\ r.model_tuple = model /\ r.timestamp > now - Day - Second
        /\ r.timestamp \in Nat
    BY <1>5, <1>6
  <2>3. now - r.timestamp <= Day + Second - 1
    BY <1>2, <2>2
  <2> QED BY <2>2, <2>3 DEF Alarmed
<1>9. w.status = "STABLE" => Heard(model, StaleAfter)
  <2> SUFFICES ASSUME w.status = "STABLE" PROVE Heard(model, StaleAfter)
    OBVIOUS
  <2>1. age # None /\ ~ (age > StaleAfter)
    BY <1>1
  <2>2. end # None /\ age = now - end
    BY <2>1
  <2>3. now - end <= StaleAfter
    BY <1>2, <1>3, <2>1, <2>2
  <2> QED BY <1>3, <2>2, <2>3 DEF Heard
<1>10. w.status = "STALE" /\ setBacks = 0 => ~ Heard(model, StaleAfter)
  <2> SUFFICES ASSUME w.status = "STALE", setBacks = 0, NEW r \in ToSet(signals),
                      r.model_tuple = model, now - r.timestamp <= StaleAfter
               PROVE  FALSE
    BY DEF Heard
  <2>1. end # None /\ r.timestamp <= end /\ end \in Nat /\ r.timestamp \in Nat
    BY <1>3, <1>4
  <2>2. age = now - end
    BY <2>1
  <2>3. PICK s \in ToSet(signals) : s.timestamp = end
    BY <1>3, <2>1
  <2>4. end <= now
    <3>1. PICK i \in DOMAIN signals : signals[i] = s
      BY InTable DEF TablesInv
    <3> QED BY <2>3, <3>1 DEF Chronicle
  <2>5. age \in 0 .. MaxTime
    BY <1>2, <2>1, <2>2, <2>4, StoreAssumption DEF TablesInv
  <2>6. age # None /\ age > StaleAfter
    BY <1>1, <2>5, NoneAssumption
  <2> QED BY <1>2, <2>1, <2>2, <2>6
<1> QED BY <1>7, <1>8, <1>9, <1>10 DEF LightTrue, w
-----------------------------------------------------------------------------
(* The rates of the weather.                                               *)

RatesKept == \A i \in DOMAIN signals : signals[i].json_success_rate \in Rates \cup {None}

LEMMA RatesStep ==
  ASSUME TablesInv, RatesKept, [Next]_readVars
  PROVE  RatesKept'
<1>1. ASSUME NEW b \in Batches, NEW id \in 1 .. Len(signals) + 1, Receive(b, id)
      PROVE  RatesKept'
  <2> DEFINE n == Len(signals) + 1
  <2>1. id \in Nat
    BY InTable DEF TablesInv
  <2>2. \/ UNCHANGED signals
        \/ /\ DOMAIN signals' = DOMAIN signals \cup {n}
           /\ \A i \in DOMAIN signals : signals'[i] = signals[i]
           /\ signals'[n].json_success_rate \in Rates \cup {None}
    BY <1>1, <2>1, TablesReceive
  <2> HIDE DEF n
  <2> QED BY <2>2 DEF RatesKept
<1>2. CASE UNCHANGED signals
  BY <1>2 DEF RatesKept
<1>3. ASSUME NEW metric \in Metrics, StoreLocalAlert(metric) PROVE RatesKept'
  BY <1>2, <1>3 DEF StoreLocalAlert
<1>4. CASE StorePublicAlert
  BY <1>2, <1>4 DEF StorePublicAlert
<1>5. CASE OpenStore \/ Accept \/ Tick \/ SetBack \/ Read \/ UNCHANGED readVars
  BY <1>2, <1>5, TablesQuiet
<1> QED BY <1>1, <1>3, <1>4, <1>5 DEF Next, Write

\* Fractions between 0 and 1.
Shares == {p \in Nat \X (Nat \ {0}) : p[1] <= p[2]}

LEMMA ClampedShare ==
  ASSUME NEW p \in Rates
  PROVE  Clamped(p) \in Shares /\ (p[1] >= p[2] => Clamped(p)[1] = Clamped(p)[2])
<1>1. p[1] \in Int /\ p[2] \in Nat \ {0} /\ p = <<p[1], p[2]>>
  BY DEF Rates
<1>2. Below(p, <<0, 1>>) <=> p[1] < 0
  BY <1>1 DEF Below
<1>3. Below(<<1, 1>>, p) <=> p[2] < p[1]
  BY <1>1 DEF Below
<1>4. CASE p[1] < 0
  <2>1. Clamped(p) = <<0, 1>>
    BY <1>2, <1>4 DEF Clamped
  <2> QED BY <1>1, <1>4, <2>1 DEF Shares
<1>5. CASE p[2] < p[1]
  <2>1. Clamped(p) = <<1, 1>>
    BY <1>1, <1>2, <1>3, <1>5 DEF Clamped
  <2> QED BY <2>1 DEF Shares
<1>6. CASE ~ (p[1] < 0) /\ ~ (p[2] < p[1])
  <2>1. Clamped(p) = p
    BY <1>2, <1>3, <1>6 DEF Clamped
  <2>2. p[1] \in Nat /\ p[1] <= p[2] /\ p \in Nat \X (Nat \ {0})
    BY <1>1, <1>6
  <2> QED BY <1>1, <2>1, <2>2 DEF Shares
<1> QED BY <1>4, <1>5, <1>6

\* A rate that is published lies between 0 and 1, and is 1 if every prompt
\* that can score does.
LEMMA ScaledRate ==
  ASSUME NEW raw \in Rates \cup {None}, NEW count, NEW suite,
         NEW share, share = ScorableJsonRate(raw, count, suite), share # None
  PROVE  /\ raw # None /\ suite \in DOMAIN JsonBaseBySuite
         /\ count = JsonBaseBySuite[suite].total
         /\ share \in Shares
         /\ ~ Below(raw, <<JsonBaseBySuite[suite].scorable, count>>) => share[1] = share[2]
<1> DEFINE base == JsonBaseBySuite[suite]
           p == <<raw[1] * base.total, raw[2] * base.scorable>>
<1>1. /\ raw # None /\ suite \in DOMAIN JsonBaseBySuite
      /\ count = base.total
      /\ share = Clamped(p)
  BY DEF ScorableJsonRate
<1>2. base.total \in Nat \ {0} /\ base.scorable \in Nat \ {0}
  BY <1>1 DEF JsonBaseBySuite
<1>3. raw[1] \in Int /\ raw[2] \in Nat \ {0}
  BY <1>1 DEF Rates
<1> HIDE DEF base
<1>4. /\ raw[1] * base.total \in Int
      /\ raw[2] * base.scorable \in Nat \ {0}
  BY <1>2, <1>3
<1>5. p \in Rates
  BY <1>4 DEF Rates
<1>6. ASSUME ~ Below(raw, <<base.scorable, count>>) PROVE p[1] >= p[2]
  <2>1. ~ (raw[1] * count < base.scorable * raw[2])
    BY <1>6 DEF Below
  <2>2. base.scorable * raw[2] = raw[2] * base.scorable
    BY <1>2, <1>3
  <2> QED BY <1>1, <1>4, <2>1, <2>2
<1> HIDE DEF p
<1>7. share \in Shares /\ (p[1] >= p[2] => share[1] = share[2])
  BY <1>1, <1>5, ClampedShare
<1> QED BY <1>1, <1>6, <1>7 DEF base

\* The sums of a finite set are built by its size: a set is what one of its
\* elements adds to the rest.
Some(s) == CHOOSE x \in s : TRUE

Summed(f, sum, S) ==
  sum = [s \in S |-> IF s = {} THEN <<0, 1>> ELSE Plus(f[Some(s)], sum[s \ {Some(s)}])]

UpTo(S, n) == {s \in SUBSET S : Cardinality(s) <= n}

LEMMA RestIsSmaller ==
  ASSUME NEW S, IsFiniteSet(S), NEW s \in SUBSET S, s # {}
  PROVE  /\ Some(s) \in s /\ IsFiniteSet(s)
         /\ s \ {Some(s)} \in SUBSET S
         /\ Cardinality(s) \in Nat
         /\ Cardinality(s \ {Some(s)}) = Cardinality(s) - 1
         /\ Cardinality(s \ {Some(s)}) \in Nat
<1>1. Some(s) \in s
  BY DEF Some
<1>2. IsFiniteSet(s)
  BY FS_Subset
<1>3. IsFiniteSet(s \ {Some(s)})
  BY <1>2, FS_Subset
<1> QED BY <1>1, <1>2, <1>3, FS_CardinalityType, FS_RemoveElement

LEMMA SumsExist ==
  ASSUME NEW S, IsFiniteSet(S), NEW f
  PROVE  \A n \in Nat : \E sum : Summed(f, sum, UpTo(S, n))
<1> DEFINE Bad == {n \in Nat : ~ \E sum : Summed(f, sum, UpTo(S, n))}
<1>1. SUFFICES ASSUME Bad # {} PROVE FALSE
  OBVIOUS
<1>2. PICK n \in Bad : \A m \in Bad : n <= m
  BY <1>1, Least
<1>3. n \in Nat
  BY <1>2
<1>4. CASE n = 0
  <2> DEFINE sum == [s \in UpTo(S, 0) |-> <<0, 1>>]
  <2>1. \A s \in UpTo(S, 0) : s = {}
    <3> SUFFICES ASSUME NEW s \in UpTo(S, 0), s # {} PROVE FALSE
      OBVIOUS
    <3>1. s \in SUBSET S /\ Cardinality(s) <= 0
      BY DEF UpTo
    <3>2. Cardinality(s) \in Nat /\ Cardinality(s \ {Some(s)}) = Cardinality(s) - 1
          /\ Cardinality(s \ {Some(s)}) \in Nat
      BY <3>1, RestIsSmaller
    <3> QED BY <3>1, <3>2
  <2>2. Summed(f, sum, UpTo(S, 0))
    BY <2>1 DEF Summed
  <2> QED BY <1>2, <1>4, <2>2
<1>5. CASE n > 0
  <2>1. n - 1 \in Nat /\ n - 1 \notin Bad
    BY <1>2, <1>3, <1>5
  <2>2. PICK less : Summed(f, less, UpTo(S, n - 1))
    BY <2>1
  <2> DEFINE sum == [s \in UpTo(S, n) |->
                       IF s = {} THEN <<0, 1>> ELSE Plus(f[Some(s)], less[s \ {Some(s)}])]
  <2>3. \A s \in UpTo(S, n) : s # {} =>
          /\ s \ {Some(s)} \in UpTo(S, n - 1)
          /\ s \ {Some(s)} \in UpTo(S, n)
    BY <1>3, RestIsSmaller DEF UpTo
  <2>4. \A s \in UpTo(S, n - 1) : s \in UpTo(S, n) => sum[s] = less[s]
    BY <2>2 DEF Summed
  <2>5. \A s \in UpTo(S, n) : s # {} => sum[s \ {Some(s)}] = less[s \ {Some(s)}]
    BY <2>3, <2>4
  <2>6. Summed(f, sum, UpTo(S, n))
    BY <2>5 DEF Summed
  <2> QED BY <1>2, <2>6
<1> QED BY <1>3, <1>4, <1>5

\* The fold over a set, by what it adds.
LEMMA FoldIs ==
  ASSUME NEW S, IsFiniteSet(S), NEW f
  PROVE  \E sum : /\ Summed(f, sum, SUBSET S)
                  /\ FoldFunctionOnSet(Plus, <<0, 1>>, f, S) = sum[S]
<1> DEFINE g == CHOOSE sum : sum = [s \in SUBSET S |->
                  IF s = {} THEN <<0, 1>>
                  ELSE LET x == CHOOSE y \in s : TRUE IN Plus(f[x], sum[s \ {x}])]
<1>1. FoldFunctionOnSet(Plus, <<0, 1>>, f, S) = g[S]
  BY SMT DEF FoldFunctionOnSet, MapThenFoldSet, Plus
<1>2. UpTo(S, Cardinality(S)) = SUBSET S /\ Cardinality(S) \in Nat
  BY FS_CardinalityType, FS_Subset DEF UpTo
<1>3. \E sum : Summed(f, sum, SUBSET S)
  <2>1. \E sum : Summed(f, sum, UpTo(S, Cardinality(S)))
    BY <1>2, SumsExist
  <2> QED BY <1>2, <2>1
<1>4. g = CHOOSE sum : Summed(f, sum, SUBSET S)
  BY DEF Summed, Some
<1> HIDE DEF g
<1> QED BY <1>1, <1>3, <1>4

LEMMA SharesAdd ==
  ASSUME NEW k \in Nat, NEW p \in Shares, NEW q \in Nat \X (Nat \ {0}), q[1] <= k * q[2]
  PROVE  /\ Plus(p, q) \in Nat \X (Nat \ {0})
         /\ Plus(p, q)[1] <= (k + 1) * Plus(p, q)[2]
         /\ p[1] = p[2] /\ q[1] = k * q[2] => Plus(p, q)[1] = (k + 1) * Plus(p, q)[2]
<1>1. PICK a \in Nat, b \in Nat, c \in Nat, d \in Nat :
        p = <<a, b>> /\ q = <<c, d>> /\ b # 0 /\ d # 0 /\ a <= b
  BY DEF Shares
<1>2. Plus(p, q) = <<a * d + c * b, b * d>>
  BY <1>1 DEF Plus
<1>3. /\ a * d \in Nat /\ c * b \in Nat /\ b * d \in Nat \ {0} /\ k * d \in Nat
      /\ (k * d) * b \in Nat
  BY <1>1
<1>4. a * d <= b * d
  BY <1>1
<1>5. c <= k * d
  BY <1>1
<1>6. c * b <= (k * d) * b
  BY <1>1, <1>3, <1>5
<1>7. (k + 1) * (b * d) = b * d + (k * d) * b
  BY <1>1
<1>8. a = b /\ c = k * d => a * d + c * b = (k + 1) * (b * d)
  BY <1>1, <1>7
<1> QED BY <1>1, <1>2, <1>3, <1>4, <1>6, <1>7, <1>8

\* As many shares as a set has elements come to no more than their number,
\* and to that number if each is 1.
LEMMA SharesSum ==
  ASSUME NEW S, IsFiniteSet(S), NEW f, \A r \in S : f[r] \in Shares
  PROVE  LET sum == FoldFunctionOnSet(Plus, <<0, 1>>, f, S)
         IN  /\ sum \in Nat \X (Nat \ {0})
             /\ sum[1] <= Cardinality(S) * sum[2]
             /\ (\A r \in S : f[r][1] = f[r][2]) => sum[1] = Cardinality(S) * sum[2]
<1>1. PICK g : Summed(f, g, SUBSET S) /\ FoldFunctionOnSet(Plus, <<0, 1>>, f, S) = g[S]
  BY FoldIs
<1> DEFINE Fine(s) == /\ g[s] \in Nat \X (Nat \ {0})
                      /\ g[s][1] <= Cardinality(s) * g[s][2]
                      /\ (\A r \in S : f[r][1] = f[r][2]) => g[s][1] = Cardinality(s) * g[s][2]
           Bad == {n \in Nat : \E s \in SUBSET S : Cardinality(s) = n /\ ~ Fine(s)}
<1>2. Bad = {}
  <2>1. SUFFICES ASSUME Bad # {} PROVE FALSE
    OBVIOUS
  <2>2. PICK n \in Bad : \A m \in Bad : n <= m
    BY <2>1, Least
  <2>3. PICK s \in SUBSET S : Cardinality(s) = n /\ ~ Fine(s)
    BY <2>2
  <2>4. CASE s = {}
    <3>1. g[s] = <<0, 1>> /\ Cardinality(s) = 0
      BY <1>1, <2>4, FS_EmptySet DEF Summed
    <3>2. Fine(s)
      BY <3>1
    <3> QED BY <2>3, <3>2
  <2>5. CASE s # {}
    <3> DEFINE t == s \ {Some(s)}
               k == n - 1
    <3>1. /\ Some(s) \in s /\ t \in SUBSET S /\ n \in Nat
          /\ Cardinality(t) = k /\ k \in Nat
      <4>1. /\ Some(s) \in s /\ s \ {Some(s)} \in SUBSET S
            /\ Cardinality(s) \in Nat
            /\ Cardinality(s \ {Some(s)}) = Cardinality(s) - 1
            /\ Cardinality(s \ {Some(s)}) \in Nat
        BY <2>5, RestIsSmaller
      <4> QED BY <2>3, <4>1
    <3>2. k \notin Bad
      BY <2>2, <3>1
    <3>3. Fine(t)
      <4> HIDE DEF Fine
      <4> QED BY <3>1, <3>2
    <3>4. g[s] = Plus(f[Some(s)], g[t])
      BY <1>1, <2>3, <2>5 DEF Summed
    <3>5. f[Some(s)] \in Shares
      BY <3>1
    <3>6. n = k + 1
      BY <3>1
    <3> HIDE DEF k, t
    <3>7. Fine(s)
      BY <2>3, <3>1, <3>3, <3>4, <3>5, <3>6, SharesAdd
    <3> QED BY <2>3, <3>7
  <2> QED BY <2>4, <2>5
<1>3. Cardinality(S) \in Nat
  BY FS_CardinalityType
<1>4. Fine(S)
  <2> HIDE DEF Fine
  <2> QED BY <1>2, <1>3
<1> QED BY <1>1, <1>4

\* The mean of shares is one, is 1 if they all are, and counts its rows.
LEMMA AverageOfShares ==
  ASSUME NEW W, IsFiniteSet(W), NEW f, DOMAIN f = W,
         \A a \in W : f[a] # None => f[a] \in Shares,
         NEW mean, mean = Average(f), mean # None
  PROVE  /\ ~ Below(mean, <<0, 1>>) /\ ~ Below(<<1, 1>>, mean)
         /\ Counted(f) \in 1 .. Cardinality(W)
         /\ (\A a \in W : f[a] # None => f[a][1] = f[a][2]) => ~ Below(mean, <<1, 1>>)
<1> DEFINE rows == {a \in DOMAIN f : f[a] # None}
           sum == FoldFunctionOnSet(Plus, <<0, 1>>, f, rows)
<1>1. rows # {} /\ mean = <<sum[1], sum[2] * Cardinality(rows)>> /\ Counted(f) = Cardinality(rows)
  BY DEF Average, Counted
<1>2. rows \subseteq W /\ \A a \in rows : f[a] \in Shares
  OBVIOUS
<1>3. IsFiniteSet(rows)
  BY <1>2, FS_Subset
<1>4. /\ sum \in Nat \X (Nat \ {0})
      /\ sum[1] <= Cardinality(rows) * sum[2]
      /\ (\A a \in rows : f[a][1] = f[a][2]) => sum[1] = Cardinality(rows) * sum[2]
  <2> HIDE DEF rows
  <2> QED BY <1>2, <1>3, SharesSum
<1>5. \A a \in W : a \in rows <=> f[a] # None
  OBVIOUS
<1> HIDE DEF rows, sum
<1>6. /\ Cardinality(rows) \in Nat \ {0} /\ Cardinality(W) \in Nat
      /\ Cardinality(rows) <= Cardinality(W)
  BY <1>1, <1>2, <1>3, FS_CardinalityType, FS_EmptySet, FS_Subset
<1>7. PICK a \in Nat, b \in Nat \ {0}, n \in Nat \ {0} :
        /\ sum = <<a, b>> /\ n = Cardinality(rows)
        /\ a <= n * b
        /\ (\A r \in rows : f[r][1] = f[r][2]) => a = n * b
  BY <1>4, <1>6
<1>8. mean = <<a, b * n>> /\ n * b = b * n /\ b * n \in Nat
  BY <1>1, <1>7
<1>9. /\ Below(mean, <<0, 1>>) <=> a * 1 < 0 * (b * n)
      /\ Below(<<1, 1>>, mean) <=> 1 * (b * n) < a * 1
      /\ Below(mean, <<1, 1>>) <=> a * 1 < 1 * (b * n)
  BY <1>8 DEF Below
<1>10. ~ Below(mean, <<0, 1>>) /\ ~ Below(<<1, 1>>, mean)
  BY <1>7, <1>8, <1>9
<1>11. ASSUME \A r \in W : f[r] # None => f[r][1] = f[r][2]
       PROVE  ~ Below(mean, <<1, 1>>)
  <2>1. a = n * b
    BY <1>2, <1>5, <1>7, <1>11
  <2> QED BY <1>7, <1>8, <1>9, <2>1
<1>12. Counted(f) \in 1 .. Cardinality(W)
  BY <1>1, <1>6
<1> QED BY <1>10, <1>11, <1>12

\* What a row says of its run is answered by either backend, except for a run
\* from before suite_version.
LEMMA RateRow ==
  ASSUME TablesInv, RatesKept, NEW model, NEW limit,
         NEW window \in RecentSignals(model, limit), NEW a \in window
  PROVE  /\ a.json_success_rate \in Rates \cup {None}
         /\ a.suite_version \in DOMAIN JsonBaseBySuite =>
              \E r \in ToSet(signals) :
                /\ r.model_tuple = model
                /\ r.suite_version = a.suite_version
                /\ r.json_success_rate = a.json_success_rate
                /\ r.result_count = a.result_count
<1>1. PICK r \in ToSet(signals) :
        r.model_tuple = model /\ (a = r \/ a = ClickHouse!ToSignalRow(r))
  BY WindowRows
<1>2. PICK i \in DOMAIN signals : signals[i] = r
  BY InTable DEF TablesInv
<1>3. r.json_success_rate \in Rates \cup {None} /\ SignalFields \subseteq DOMAIN r
  BY <1>2 DEF RatesKept, TablesInv, Table
<1>4. CASE a = r
  BY <1>1, <1>3, <1>4
<1>5. CASE a = ClickHouse!ToSignalRow(r)
  <2>1. /\ a.json_success_rate = r.json_success_rate
        /\ a.result_count = r.result_count
        /\ a.suite_version = IF r.suite_version = None THEN "" ELSE r.suite_version
    BY <1>3, <1>5 DEF ClickHouse!ToSignalRow, SignalFields
  <2>2. "" \notin DOMAIN JsonBaseBySuite
    BY DEF JsonBaseBySuite
  <2> QED BY <1>1, <1>3, <2>1, <2>2
<1> QED BY <1>1, <1>4, <1>5

LEMMA RateHolds ==
  ASSUME TablesInv, RatesKept, NEW model,
         NEW window \in RecentSignals(model, WeatherRows), NEW alerts
  PROVE  RateTrue(model, ModelWeather(model, window, alerts))
<1> DEFINE f == [r \in window |->
                   ScorableJsonRate(r.json_success_rate, r.result_count, r.suite_version)]
           w == ModelWeather(model, window, alerts)
<1>1. /\ w.json_rate = Average(f) /\ w.json_samples = Counted(f)
      /\ w.sample_count = Cardinality(window)
  BY DEF ModelWeather
<1>2. IsFiniteSet(window) /\ DOMAIN f = window
  BY WindowRows
<1>3. ASSUME NEW a \in window, f[a] # None
      PROVE  /\ a.json_success_rate # None
             /\ a.suite_version \in DOMAIN JsonBaseBySuite
             /\ a.result_count = JsonBaseBySuite[a.suite_version].total
             /\ f[a] \in Shares
             /\ ~ Below(a.json_success_rate,
                        <<JsonBaseBySuite[a.suite_version].scorable, a.result_count>>)
                  => f[a][1] = f[a][2]
  <2>1. f[a] = ScorableJsonRate(a.json_success_rate, a.result_count, a.suite_version)
    OBVIOUS
  <2>2. a.json_success_rate \in Rates \cup {None}
    BY RateRow
  <2> HIDE DEF f
  <2> QED BY <1>3, <2>1, <2>2, ScaledRate
<1> HIDE DEF f, w
<1>4. SUFFICES ASSUME w.json_rate # None
      PROVE  /\ ~ Below(w.json_rate, <<0, 1>>) /\ ~ Below(<<1, 1>>, w.json_rate)
             /\ w.json_samples \in 1 .. w.sample_count
             /\ (\A r \in ToSet(signals) :
                   /\ r.model_tuple = model
                   /\ r.suite_version \in DOMAIN JsonBaseBySuite
                   /\ r.json_success_rate # None
                   /\ r.result_count = JsonBaseBySuite[r.suite_version].total
                   => ~ Below(r.json_success_rate,
                              <<JsonBaseBySuite[r.suite_version].scorable, r.result_count>>))
                => ~ Below(w.json_rate, <<1, 1>>)
  BY DEF RateTrue, w
<1>5. /\ ~ Below(w.json_rate, <<0, 1>>) /\ ~ Below(<<1, 1>>, w.json_rate)
      /\ Counted(f) \in 1 .. Cardinality(window)
      /\ (\A a \in window : f[a] # None => f[a][1] = f[a][2]) => ~ Below(w.json_rate, <<1, 1>>)
  <2>1. \A a \in window : f[a] # None => f[a] \in Shares
    BY <1>3
  <2>2. w.json_rate = Average(f) /\ w.json_rate # None
    BY <1>1, <1>4
  <2>3. \A mean : mean = Average(f) /\ mean # None =>
          /\ ~ Below(mean, <<0, 1>>) /\ ~ Below(<<1, 1>>, mean)
          /\ Counted(f) \in 1 .. Cardinality(window)
          /\ (\A a \in window : f[a] # None => f[a][1] = f[a][2]) => ~ Below(mean, <<1, 1>>)
    BY <1>2, <2>1, AverageOfShares
  <2> QED BY <2>2, <2>3
<1>6. ASSUME \A r \in ToSet(signals) :
               /\ r.model_tuple = model
               /\ r.suite_version \in DOMAIN JsonBaseBySuite
               /\ r.json_success_rate # None
               /\ r.result_count = JsonBaseBySuite[r.suite_version].total
               => ~ Below(r.json_success_rate,
                          <<JsonBaseBySuite[r.suite_version].scorable, r.result_count>>),
             NEW a \in window, f[a] # None
      PROVE  f[a][1] = f[a][2]
  <2>1. a.suite_version \in DOMAIN JsonBaseBySuite
    BY <1>3, <1>6
  <2>2. PICK r \in ToSet(signals) :
          /\ r.model_tuple = model
          /\ r.suite_version = a.suite_version
          /\ r.json_success_rate = a.json_success_rate
          /\ r.result_count = a.result_count
    BY <2>1, RateRow
  <2>3. ~ Below(r.json_success_rate,
                <<JsonBaseBySuite[r.suite_version].scorable, r.result_count>>)
    BY <1>3, <1>6, <2>1, <2>2
  <2> QED BY <1>3, <1>6, <2>2, <2>3
<1> QED BY <1>1, <1>5, <1>6

-----------------------------------------------------------------------------

WeatherInv == TablesInv /\ Chronicle /\ RatesKept

LEMMA WeatherStep ==
  ASSUME WeatherInv, WeatherHonest, [Next]_readVars
  PROVE  WeatherHonest'
<1>1. ASSUME reply' # None => "weather" \notin DOMAIN reply' PROVE WeatherHonest'
  BY <1>1 DEF WeatherHonest
<1>2. ASSUME NEW b \in Batches, NEW id \in 1 .. Len(signals) + 1, Receive(b, id)
      PROVE  reply' # None => "weather" \notin DOMAIN reply'
  <2>1. reply' = None \/ \E code : reply' = [status |-> code]
    BY <1>2 DEF Receive
  <2> QED BY <2>1
<1>3. ASSUME NEW metric \in Metrics, StoreLocalAlert(metric)
      PROVE  reply' # None => "weather" \notin DOMAIN reply'
  <2>1. reply' = None \/ \E url : reply' = [notify |-> url]
    BY <1>3 DEF StoreLocalAlert
  <2> QED BY <2>1
<1>4. CASE StorePublicAlert \/ OpenStore \/ Accept \/ Tick \/ SetBack
  <2>1. reply' = None \/ reply' = [status |-> 202]
    BY <1>4 DEF StorePublicAlert, OpenStore, Accept, Tick, SetBack
  <2>2. reply' # None => "weather" \notin DOMAIN reply'
    BY <2>1
  <2> QED BY <1>1, <2>2
<1>5. CASE Weather
  <2>1. PICK g : /\ \A m \in ModelTuples : g[m] \in Weathers(m)
                 /\ reply' = [status |-> 200, weather |-> g]
    BY <1>5 DEF Weather, ToReads
  <2>2. UNCHANGED <<backend, now, setBacks, signals, public>>
    BY <1>5 DEF Weather, ToReads
  <2>3. ASSUME NEW m \in ModelTuples PROVE LightTrue(m, g[m]) /\ RateTrue(m, g[m])
    <3>1. PICK window \in RecentSignals(m, WeatherRows), alerts \in RecentAlerts(m, Day) :
            g[m] = ModelWeather(m, window, alerts)
      BY <2>1 DEF Weathers
    <3> QED BY <3>1, LightHolds, RateHolds DEF WeatherInv
  <2>4. ModelTuples' = ModelTuples
    BY <2>2 DEF ModelTuples
  <2>5. ASSUME NEW m, NEW v, LightTrue(m, v), RateTrue(m, v)
        PROVE  LightTrue(m, v)' /\ RateTrue(m, v)'
    BY <2>2, <2>5 DEF LightTrue, RateTrue, Alarmed, Heard
  <2> QED BY <2>1, <2>3, <2>4, <2>5 DEF WeatherHonest
<1>6. ASSUME NEW admin, NEW sound, NEW fleet, NEW url,
             RegisterWebhook(admin, sound, fleet, url, None)
      PROVE  reply' # None => "weather" \notin DOMAIN reply'
  <2>1. \E code : reply' = [status |-> code]
    BY <1>6 DEF RegisterWebhook, ToReads
  <2> QED BY <2>1
<1>7. ASSUME NEW id, NEW token, Export(id, token)
      PROVE  reply' # None => "weather" \notin DOMAIN reply'
  <2>1. \/ \E code : reply' = [status |-> code]
        \/ \E report : reply' = [status |-> 200, id |-> id, report |-> report]
    BY <1>7 DEF Export, ToReads
  <2> QED BY <2>1
<1>8. CASE UNCHANGED readVars
  BY <1>8 DEF readVars, storeVars, tables, WeatherHonest, LightTrue, RateTrue, Alarmed, Heard,
              ModelTuples
<1> QED BY <1>1, <1>2, <1>3, <1>4, <1>5, <1>6, <1>7, <1>8 DEF Next, Write, Read

LEMMA WeatherInit == ReadsInit => WeatherInv /\ WeatherHonest
<1>1. ReadsInit => RatesKept
  BY FirstRows DEF RatesKept
<1>2. ReadsInit => WeatherHonest
  BY DEF ReadsInit, StoreInit, WeatherHonest
<1> QED BY <1>1, <1>2, TablesInit, ChronicleInit DEF WeatherInv

\* Whatever was stored, and by either backend: a model is DRIFTING for every
\* quorum of the last day and for nothing else, STABLE only if it was heard
\* of and STALE only if not (unless the clock was set back); its published
\* rate lies between 0 and 1, and is 1 when every whole run scored fully.
THEOREM WeatherCorrect == Spec => []WeatherHonest
<1>1. WeatherInv /\ WeatherHonest /\ [Next]_readVars => (WeatherInv /\ WeatherHonest)'
  BY TablesStep, ChronicleStep, RatesStep, WeatherStep DEF WeatherInv
<1> QED BY <1>1, WeatherInit, PTL DEF Spec
=============================================================================
