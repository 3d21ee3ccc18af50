----------------------------- MODULE RedisScorer -----------------------------
(***************************************************************************)
(* engine/scorer_redis.py: the quorum gate shared by several gateway       *)
(* nodes.  Its two tables are sorted sets of one Redis server, so every    *)
(* client command is atomic but a call is not: observe and ingest are a    *)
(* ZADD per org and table and then an EXPIRE per table, other nodes' calls *)
(* and the passing of time fall between two commands, and a node that      *)
(* crashes, or whose command fails, abandons the rest.  promote is one Lua *)
(* script and clear one DEL: one step each.                                *)
(*                                                                         *)
(* Scores are event times; key expiry is the server's own clock, counted   *)
(* here in remaining seconds.  A call without a timestamp takes the node's *)
(* clock, which may read anything: it is one of the enumerated instants.   *)
(***************************************************************************)
EXTENDS QuorumPolicy, Sequences

CONSTANTS
  Streams,    \* (model_tuple, suite_version, metric_name) keys
  Nodes,      \* the gateway processes
  NsPerMs,    \* _NS_PER_MS
  NsPerS,     \* 1_000_000_000
  TtlNs,      \* ttl_ns; TTL is ttl_ms, the window of the sorted sets
  Instants,   \* event times, in nanoseconds
  MaxCalls    \* bound on observe and ingest calls

ASSUME RedisAssumption ==
  /\ NsPerMs \in Nat \ {0}
  /\ NsPerS \in Nat \ {0}
  /\ TtlNs \in Nat
  /\ TTL = TtlNs \div NsPerMs
  /\ Instants \subseteq Nat
  /\ \A ns \in Instants : ns >= NsPerMs
  /\ MaxCalls \in Nat

VARIABLES
  zset,       \* key -> member -> score
  left,       \* key -> seconds until the server drops it, or NoExpiry
  calls,      \* node -> the commands its current call has still to send
  begun,      \* how many observe and ingest calls have been made
  verdict,    \* what the last completed call returned
  ballots,    \* history: candidates added since the last decision
  age,        \* history: stream -> org -> seconds since its candidate, capped
  unarmed,    \* history: <<stream, org>> of candidates with no EXPIRE since
  cut         \* history: some call was abandoned half way

vars == <<zset, left, calls, begun, verdict, ballots, age, unarmed, cut>>

\* An event time has at least one full millisecond: a score is never Absent.
Ms(ns) == ns \div NsPerMs
Scores == {Ms(ns) : ns \in Instants}

Keys == [table : {"observers", "agree"}, stream : Streams]
ObsKey(s) == [table |-> "observers", stream |-> s]
AgreeKey(s) == [table |-> "agree", stream |-> s]

NoExpiry == 0
Backstop == LET s == (2 * TtlNs) \div NsPerS IN IF s > 1 THEN s ELSE 1

Gate == INSTANCE QuorumGate WITH Instants <- Scores

Members(k) == {o \in Orgs : zset[k][o] # Absent}

Zadd(k, o, ts) == [op |-> "zadd", key |-> k, org |-> o, ts |-> ts]
Arm(k) == [op |-> "expire", key |-> k]

Init ==
  /\ zset = [k \in Keys |-> EmptyTable]
  /\ left = [k \in Keys |-> NoExpiry]
  /\ calls = [n \in Nodes |-> <<>>]
  /\ begun = 0
  /\ verdict = Gate!NoVerdict
  /\ ballots = {}
  /\ age = [s \in Streams |-> [o \in Orgs |-> 0]]
  /\ unarmed = {}
  /\ cut = FALSE

Idle(n) == calls[n] = <<>>

Begin(n, commands) ==
  /\ Idle(n)
  /\ begun < MaxCalls
  /\ begun' = begun + 1
  /\ calls' = [calls EXCEPT ![n] = commands]
  /\ verdict' = Gate!NoVerdict
  /\ UNCHANGED <<zset, left, ballots, age, unarmed, cut>>

Observe(n, s, o, ns) ==
  Begin(n, <<Zadd(ObsKey(s), o, Ms(ns)), Arm(ObsKey(s))>>)

\* The members ingest adds, org by org, each an observer before it agrees.
Additions(s, orgs, detected, ts) ==
  IF detected
  THEN [i \in 1 .. 2 * Len(orgs) |->
         Zadd(IF i % 2 = 1 THEN ObsKey(s) ELSE AgreeKey(s), orgs[(i + 1) \div 2], ts)]
  ELSE [i \in 1 .. Len(orgs) |-> Zadd(ObsKey(s), orgs[i], ts)]

IngestUnarmed(s, orgs, detected, ts) ==
  Additions(s, orgs, detected, ts) \o <<Arm(ObsKey(s))>>

\* The commands of ingest: both expiries are renewed at the end only.
IngestCommands(s, orgs, detected, ts) ==
  Additions(s, orgs, detected, ts) \o
    (IF detected THEN <<Arm(ObsKey(s)), Arm(AgreeKey(s))>> ELSE <<Arm(ObsKey(s))>>)

\* contributing_orgs lists distinct orgs, in any order.
Contributors ==
  {q \in UNION {[1 .. m -> Orgs] : m \in 0 .. Cardinality(Orgs)} :
     \A i, j \in DOMAIN q : q[i] = q[j] => i = j}

\* Empty contributing_orgs: the call does nothing.
Ingest(n, s, orgs, detected, ns) ==
  /\ orgs # <<>>
  /\ Begin(n, IngestCommands(s, orgs, detected, Ms(ns)))

\* ZADD overwrites the member's score, later or earlier.
Added(k, o, ts) == [zset EXCEPT ![k][o] = ts]

SendZadd(c) ==
  /\ zset' = Added(c.key, c.org, c.ts)
  /\ IF c.key.table = "agree"
     THEN /\ ballots' = ballots \cup Gate!Cast(c.key.stream, {c.org}, c.ts)
          /\ age' = [age EXCEPT ![c.key.stream][c.org] = 0]
          /\ unarmed' = unarmed \cup {<<c.key.stream, c.org>>}
     ELSE UNCHANGED <<ballots, age, unarmed>>
  /\ UNCHANGED left

ArmedOnce(k) ==
  [left EXCEPT ![k] = IF Members(k) = {} \/ @ # NoExpiry THEN @ ELSE Backstop]

\* EXPIRE of a key that is gone does nothing.
Armed(k) == [left EXCEPT ![k] = IF Members(k) = {} THEN NoExpiry ELSE Backstop]

SendExpire(c) ==
  /\ left' = Armed(c.key)
  /\ unarmed' = {u \in unarmed : AgreeKey(u[1]) # c.key}
  /\ UNCHANGED <<zset, ballots, age>>

Send(n) ==
  /\ ~Idle(n)
  /\ LET c == Head(calls[n]) IN
       IF c.op = "zadd" THEN SendZadd(c) ELSE SendExpire(c)
  /\ calls' = [calls EXCEPT ![n] = Tail(@)]
  /\ verdict' = Gate!NoVerdict
  /\ UNCHANGED <<begun, cut>>

\* The node crashes, or its next command raises.
Abandon(n) ==
  /\ ~Idle(n)
  /\ calls' = [calls EXCEPT ![n] = <<>>]
  /\ cut' = TRUE
  /\ verdict' = Gate!NoVerdict
  /\ UNCHANGED <<zset, left, begun, ballots, age, unarmed>>

\* ZREMRANGEBYSCORE of everything below the cutoff.
Pruned(table, t) ==
  [o \in Orgs |-> IF table[o] < t - TTL THEN Absent ELSE table[o]]

AfterScriptOnBoth(s, t) ==
  [k \in Keys |->
    IF k.stream # s THEN zset[k]
    ELSE IF QuorumMet(zset[ObsKey(s)], zset[AgreeKey(s)], t) THEN EmptyTable
    ELSE Pruned(zset[k], t)]

AfterScriptKeeps(s, t) ==
  [zset EXCEPT ![ObsKey(s)] = Pruned(@, t), ![AgreeKey(s)] = Pruned(@, t)]

\* Both tables are pruned whatever the outcome; a quorum deletes agree.
AfterScript(s, t) ==
  [zset EXCEPT
    ![ObsKey(s)] = Pruned(@, t),
    ![AgreeKey(s)] = IF QuorumMet(zset[ObsKey(s)], zset[AgreeKey(s)], t)
                     THEN EmptyTable ELSE Pruned(@, t)]

\* The history of the candidates that are still there, some seconds later.
Remembered(seconds) ==
  /\ age' = [s \in Streams |-> [o \in Orgs |->
              IF zset'[AgreeKey(s)][o] = Absent THEN 0
              ELSE IF age[s][o] + seconds < Backstop THEN age[s][o] + seconds
              ELSE Backstop]]
  /\ unarmed' = {u \in unarmed : zset'[AgreeKey(u[1])][u[2]] # Absent}

\* A key that lost its last member is gone, and its expiry with it.
Settled ==
  /\ left' = [k \in Keys |-> IF zset'[k] = EmptyTable THEN NoExpiry ELSE left[k]]
  /\ Remembered(0)

PromoteToPublicAlert(n, s, ns) ==
  LET t == Ms(ns)
      agreeing == LiveOrgs(zset[AgreeKey(s)], t)
  IN
  /\ Idle(n)
  /\ zset' = AfterScript(s, t)
  /\ IF QuorumMet(zset[ObsKey(s)], zset[AgreeKey(s)], t)
     THEN /\ verdict' = [stream |-> s, count |-> Cardinality(agreeing)]
          /\ ballots' = Gate!OtherStreams(s)
     ELSE /\ verdict' = Gate!NoVerdict
          /\ UNCHANGED ballots
  /\ Settled
  /\ UNCHANGED <<calls, begun, cut>>

Clear(n, s) ==
  /\ Idle(n)
  /\ zset' = [zset EXCEPT ![AgreeKey(s)] = EmptyTable]
  /\ ballots' = Gate!OtherStreams(s)
  /\ verdict' = Gate!NoVerdict
  /\ Settled
  /\ UNCHANGED <<calls, begun, cut>>

Present == {k \in Keys : Members(k) # {}}

\* A second passes on the server; keys whose time is up are dropped.
Tick ==
  /\ Present # {}
  /\ LET due == {k \in Keys : left[k] = 1} IN
       /\ zset' = [k \in Keys |-> IF k \in due THEN EmptyTable ELSE zset[k]]
       /\ left' = [k \in Keys |-> IF left[k] = NoExpiry THEN NoExpiry ELSE left[k] - 1]
  /\ Remembered(1)
  /\ verdict' = Gate!NoVerdict
  /\ UNCHANGED <<calls, begun, ballots, cut>>

Next ==
  \/ Tick
  \/ \E n \in Nodes :
       \/ Send(n)
       \/ Abandon(n)
       \/ \E s \in Streams :
            \/ Clear(n, s)
            \/ \E ns \in Instants :
                 \/ PromoteToPublicAlert(n, s, ns)
                 \/ \E o \in Orgs : Observe(n, s, o, ns)
                 \/ \E orgs \in Contributors, detected \in BOOLEAN :
                      Ingest(n, s, orgs, detected, ns)

Spec == Init /\ [][Next]_vars

-----------------------------------------------------------------------------

Commands ==
  [op : {"zadd"}, key : Keys, org : Orgs, ts : Scores] \cup [op : {"expire"}, key : Keys]

\* Every variable keeps its type: scores are milliseconds of event times, an
\* expiry is at most the backstop, a call is a sequence of commands.
TypeOK ==
  /\ zset \in [Keys -> [Orgs -> Scores \cup {Absent}]]
  /\ left \in [Keys -> 0 .. Backstop]
  /\ calls \in [Nodes -> Seq(Commands)]
  /\ begun \in 0 .. MaxCalls
  /\ verdict \in [stream : Streams \cup {"none"}, count : Nat]
  /\ ballots \subseteq [stream : Streams, org : Orgs, ts : Scores]
  /\ age \in [Streams -> [Orgs -> 0 .. Backstop]]
  /\ unarmed \subseteq Streams \X Orgs
  /\ cut \in BOOLEAN

\* The sorted sets keep the promise of QuorumGate to every node at once: of
\* two nodes that evaluate the same candidates only one promotes, on Floor
\* distinct live orgs, however calls interleave, crash or lose their keys to
\* expiry (the atomic Lua script; ingest's per-org ZADDs are not atomic).
GateKept == Gate!Spec

ScaledPromotion ==
  verdict' # Gate!NoVerdict =>
    \E t \in Scores :
      /\ verdict'.count = Cardinality(LiveOrgs(zset[AgreeKey(verdict'.stream)], t))
      /\ FracDen * verdict'.count >=
           FracNum * Cardinality(LiveOrgs(zset[ObsKey(verdict'.stream)], t))
      /\ LiveOrgs(zset'[ObsKey(verdict'.stream)], t) =
           LiveOrgs(zset[ObsKey(verdict'.stream)], t)

\* A promotion clears its quorum of the live population all nodes have
\* recorded, and leaves every live observer to the next episode: the script
\* prunes the observers but deletes only the candidates.
PromotionScales == [][ScaledPromotion]_vars

\* The garbage-collection backstop reclaims no live stream: a candidate whose
\* call, or a later one on the same key, has reached EXPIRE still has what is
\* left of the backstop counted from its own ZADD, through deletions,
\* re-creations and other nodes' calls on the same key.
ArmedOutlives ==
  \A s \in Streams : \A o \in Members(AgreeKey(s)) :
    <<s, o>> \notin unarmed =>
      /\ left[AgreeKey(s)] # NoExpiry
      /\ left[AgreeKey(s)] + age[s][o] >= Backstop

\* No key stays for ever: one without an expiry has a call on its way to
\* give it one, unless some call was abandoned half way.
KeysReclaimed ==
  \A k \in Present :
    left[k] = NoExpiry =>
      cut \/ \E n \in Nodes : \E i \in DOMAIN calls[n] : calls[n][i] = Arm(k)
=============================================================================
