------------------------- MODULE RedisScorer_proofs -------------------------
(***************************************************************************)
(* Theorems about RedisScorer for every set of nodes, orgs and streams,    *)
(* every window, every backstop and every quorum policy.                   *)
(***************************************************************************)
EXTENDS RedisScorer, Engine_proofs

-----------------------------------------------------------------------------
(* Keys, scores and commands.                                              *)

Row == [Orgs -> Scores \cup {Absent}]

LEMMA KeyTypes ==
  /\ \A s \in Streams : ObsKey(s) \in Keys /\ AgreeKey(s) \in Keys
  /\ \A s, r \in Streams : ObsKey(s) # AgreeKey(r)
  /\ \A s, r \in Streams : AgreeKey(s) = AgreeKey(r) => s = r
  /\ \A k \in Keys : /\ k.stream \in Streams
                     /\ k.table = "agree" <=> k = AgreeKey(k.stream)
                     /\ k.table # "agree" => \A s \in Streams : k # AgreeKey(s)
BY DEF Keys, ObsKey, AgreeKey

LEMMA ScoreTypes ==
  /\ \A ns \in Instants : Ms(ns) \in Scores
  /\ Scores \subseteq Nat
  /\ Scores \cup {Absent} \subseteq Nat
<1>1. \A ns \in Instants : Ms(ns) \in Nat
  BY RedisAssumption DEF Ms
<1>2. QED
  BY <1>1 DEF Scores, Absent

LEMMA BackstopType == Backstop \in Nat /\ Backstop >= 1
<1> DEFINE b == (2 * TtlNs) \div NsPerS
<1>1. b \in Nat
  BY RedisAssumption
<1>2. QED
  BY <1>1 DEF Backstop

LEMMA CommandTypes ==
  /\ \A k \in Keys, o \in Orgs, ts \in Scores :
       /\ Zadd(k, o, ts) \in Commands
       /\ Zadd(k, o, ts).op = "zadd"
       /\ Zadd(k, o, ts).key = k
  /\ \A k \in Keys : Arm(k) \in Commands /\ Arm(k).op = "expire"
  /\ \A c \in Commands :
       /\ c.key \in Keys
       /\ c.op = "zadd" => c.org \in Orgs /\ c.ts \in Scores
       /\ c.op # "zadd" => c = Arm(c.key)
BY DEF Commands, Zadd, Arm

LEMMA AdditionsType ==
  ASSUME NEW s \in Streams, NEW orgs \in Contributors,
         NEW detected \in BOOLEAN, NEW ts \in Scores
  PROVE  /\ Additions(s, orgs, detected, ts) \in Seq(Commands)
         /\ \A i \in DOMAIN Additions(s, orgs, detected, ts) :
              LET c == Additions(s, orgs, detected, ts)[i]
              IN  c.key = ObsKey(s) \/ (detected /\ c.key = AgreeKey(s))
<1>1. PICK m \in 0 .. Cardinality(Orgs) : orgs \in [1 .. m -> Orgs]
  BY DEF Contributors
<1>2. m \in Nat /\ Len(orgs) = m
  BY <1>1, FS_CardinalityType, QuorumAssumption
<1>3. CASE detected
  <2> DEFINE key(i) == IF i % 2 = 1 THEN ObsKey(s) ELSE AgreeKey(s)
             org(i) == orgs[(i + 1) \div 2]
  <2>1. ASSUME NEW i \in 1 .. 2 * m
        PROVE  (i + 1) \div 2 \in 1 .. m
    BY <1>2
  <2>2. \A i \in 1 .. 2 * m : org(i) \in Orgs /\ key(i) \in Keys
    BY <1>1, <2>1, KeyTypes
  <2>3. Additions(s, orgs, detected, ts) =
          [i \in 1 .. 2 * m |-> Zadd(key(i), org(i), ts)]
    BY <1>2, <1>3 DEF Additions
  <2>4. 2 * m \in Nat
    BY <1>2
  <2>5. \A i \in 1 .. 2 * m : key(i) = ObsKey(s) \/ key(i) = AgreeKey(s)
    OBVIOUS
  <2> HIDE DEF key, org
  <2>6. Additions(s, orgs, detected, ts) \in Seq(Commands)
    BY <2>2, <2>3, <2>4, CommandTypes
  <2>7. ASSUME NEW i \in DOMAIN Additions(s, orgs, detected, ts)
        PROVE  Additions(s, orgs, detected, ts)[i].key = key(i) /\ i \in 1 .. 2 * m
    BY <2>2, <2>3, <2>7, CommandTypes
  <2>8. QED
    BY <1>3, <2>5, <2>6, <2>7
<1>4. CASE ~ detected
  <2>1. Additions(s, orgs, detected, ts) =
          [i \in 1 .. m |-> Zadd(ObsKey(s), orgs[i], ts)]
    BY <1>2, <1>4 DEF Additions
  <2>2. Additions(s, orgs, detected, ts) \in Seq(Commands)
    BY <1>1, <1>2, <2>1, KeyTypes, CommandTypes
  <2>3. \A i \in 1 .. m : Zadd(ObsKey(s), orgs[i], ts).key = ObsKey(s)
    BY <1>1, KeyTypes, CommandTypes
  <2>4. QED
    BY <2>1, <2>2, <2>3
<1>5. QED
  BY <1>3, <1>4

\* What a call sends: commands, and after each ZADD the EXPIRE of its key.
ArmsAfter(commands) ==
  \A i \in DOMAIN commands :
    commands[i].op = "zadd" =>
      \E j \in DOMAIN commands : j > i /\ commands[j] = Arm(commands[i].key)

LEMMA IngestCommandsType ==
  ASSUME NEW s \in Streams, NEW orgs \in Contributors,
         NEW detected \in BOOLEAN, NEW ts \in Scores
  PROVE  /\ IngestCommands(s, orgs, detected, ts) \in Seq(Commands)
         /\ ArmsAfter(IngestCommands(s, orgs, detected, ts))
<1> DEFINE adds == Additions(s, orgs, detected, ts)
           arms == IF detected THEN <<Arm(ObsKey(s)), Arm(AgreeKey(s))>>
                   ELSE <<Arm(ObsKey(s))>>
           all == adds \o arms
<1>1. adds \in Seq(Commands)
  BY AdditionsType
<1>2. \A i \in DOMAIN adds :
        adds[i].key = ObsKey(s) \/ (detected /\ adds[i].key = AgreeKey(s))
  BY AdditionsType
<1>3. arms \in Seq(Commands) /\ Len(arms) \in 1 .. 2
  BY KeyTypes, CommandTypes
<1>4. /\ arms[1] = Arm(ObsKey(s))
      /\ detected => Len(arms) = 2 /\ arms[2] = Arm(AgreeKey(s))
      /\ \A i \in 1 .. Len(arms) : arms[i].op = "expire"
  <2>1. Arm(ObsKey(s)).op = "expire" /\ Arm(AgreeKey(s)).op = "expire"
    BY KeyTypes, CommandTypes
  <2>2. CASE detected
    <3>1. arms = <<Arm(ObsKey(s)), Arm(AgreeKey(s))>>
      BY <2>2
    <3>2. Len(arms) = 2 /\ arms[1] = Arm(ObsKey(s)) /\ arms[2] = Arm(AgreeKey(s))
      BY <3>1
    <3>3. QED
      BY <2>1, <3>2
  <2>3. CASE ~ detected
    <3>1. arms = <<Arm(ObsKey(s))>>
      BY <2>3
    <3>2. Len(arms) = 1 /\ arms[1] = Arm(ObsKey(s))
      BY <3>1
    <3>3. QED
      BY <2>1, <2>3, <3>2
  <2>4. QED
    BY <2>2, <2>3
<1>5. IngestCommands(s, orgs, detected, ts) = all
  BY DEF IngestCommands
<1> HIDE DEF adds, arms
<1>6. all \in Seq(Commands) /\ Len(all) = Len(adds) + Len(arms)
  BY <1>1, <1>3
<1>7. /\ \A i \in 1 .. Len(adds) : all[i] = adds[i]
      /\ \A i \in 1 .. Len(arms) : all[Len(adds) + i] = arms[i]
  BY <1>1, <1>3
<1> HIDE DEF all
<1>8. ASSUME NEW i \in DOMAIN all, all[i].op = "zadd"
      PROVE  \E j \in DOMAIN all : j > i /\ all[j] = Arm(all[i].key)
  <2>1. /\ i \in 1 .. (Len(adds) + Len(arms)) /\ Len(adds) \in Nat
        /\ DOMAIN all = 1 .. (Len(adds) + Len(arms))
    BY <1>1, <1>6
  <2>2. i \in 1 .. Len(adds)
    <3>1. SUFFICES ASSUME i > Len(adds)
                   PROVE  FALSE
      BY <2>1
    <3>2. i - Len(adds) \in 1 .. Len(arms) /\ Len(adds) + (i - Len(adds)) = i
      BY <1>3, <2>1, <3>1
    <3>3. all[i] = arms[i - Len(adds)]
      BY <1>7, <3>2
    <3>4. QED
      BY <1>4, <1>8, <3>2, <3>3
  <2>3. all[i] = adds[i] /\ i \in DOMAIN adds
    BY <1>1, <1>7, <2>2
  <2>4. CASE adds[i].key = ObsKey(s)
    <3>1. Len(adds) + 1 \in DOMAIN all /\ all[Len(adds) + 1] = arms[1]
      BY <1>3, <1>7, <2>1
    <3>2. QED
      BY <1>4, <2>1, <2>2, <2>3, <2>4, <3>1
  <2>5. CASE detected /\ adds[i].key = AgreeKey(s)
    <3>1. Len(arms) = 2
      BY <1>4, <2>5
    <3>2. Len(adds) + 2 \in DOMAIN all /\ all[Len(adds) + 2] = arms[2]
      BY <1>7, <2>1, <3>1
    <3>3. QED
      BY <1>4, <2>1, <2>2, <2>3, <2>5, <3>1, <3>2
  <2>6. QED
    BY <1>2, <2>3, <2>4, <2>5
<1>9. QED
  BY <1>5, <1>6, <1>8 DEF ArmsAfter

LEMMA ObserveCommandsType ==
  ASSUME NEW k \in Keys, NEW o \in Orgs, NEW ts \in Scores
  PROVE  /\ <<Zadd(k, o, ts), Arm(k)>> \in Seq(Commands)
         /\ ArmsAfter(<<Zadd(k, o, ts), Arm(k)>>)
<1> DEFINE both == <<Zadd(k, o, ts), Arm(k)>>
<1>1. both \in Seq(Commands) /\ Len(both) = 2 /\ DOMAIN both = 1 .. 2
  BY CommandTypes
<1>2. both[1].key = k /\ both[2] = Arm(k) /\ both[2].op = "expire"
  BY CommandTypes
<1> HIDE DEF both
<1>3. ArmsAfter(both)
  BY <1>1, <1>2 DEF ArmsAfter
<1>4. QED
  BY <1>1, <1>3 DEF both

-----------------------------------------------------------------------------
(* Type correctness.                                                       *)

LEMMA NoVerdictType ==
  Gate!NoVerdict \in [stream : Streams \cup {"none"}, count : Nat]
BY DEF Gate!NoVerdict

LEMMA PrunedType ==
  ASSUME NEW row \in Row, NEW t
  PROVE  /\ Pruned(row, t) \in Row
         /\ \A o \in Orgs : Pruned(row, t)[o] \in {row[o], Absent}
         /\ EmptyTable \in Row
BY DEF Pruned, Row, EmptyTable

\* The script empties or prunes the two rows of its stream and no other row.
LEMMA ScriptType ==
  ASSUME TypeOK, NEW s \in Streams, NEW t
  PROVE  /\ AfterScript(s, t) \in [Keys -> Row]
         /\ \A k \in Keys, o \in Orgs :
              AfterScript(s, t)[k][o] \in {zset[k][o], Absent}
<1>1. zset \in [Keys -> Row]
  BY DEF TypeOK, Row
<1>2. ObsKey(s) \in Keys /\ AgreeKey(s) \in Keys /\ ObsKey(s) # AgreeKey(s)
  BY KeyTypes
<1> DEFINE new == IF QuorumMet(zset[ObsKey(s)], zset[AgreeKey(s)], t)
                  THEN EmptyTable ELSE Pruned(zset[AgreeKey(s)], t)
           old == Pruned(zset[ObsKey(s)], t)
<1>3. /\ new \in Row /\ old \in Row
      /\ \A o \in Orgs : /\ new[o] \in {zset[AgreeKey(s)][o], Absent}
                         /\ old[o] \in {zset[ObsKey(s)][o], Absent}
  BY <1>1, <1>2, PrunedType DEF EmptyTable
<1>4. AfterScript(s, t) =
        [zset EXCEPT ![ObsKey(s)] = old, ![AgreeKey(s)] = new]
  BY <1>1, <1>2 DEF AfterScript
<1> HIDE DEF new, old
<1>5. QED
  BY <1>1, <1>2, <1>3, <1>4

LEMMA RememberedType ==
  ASSUME TypeOK, NEW seconds \in {0, 1}, Remembered(seconds)
  PROVE  /\ age' \in [Streams -> [Orgs -> 0 .. Backstop]]
         /\ unarmed' \subseteq Streams \X Orgs
<1>1. \A s \in Streams, o \in Orgs : age[s][o] \in 0 .. Backstop
  BY DEF TypeOK
<1>2. QED
  BY <1>1, BackstopType DEF Remembered, TypeOK

LEMMA SettledType ==
  ASSUME TypeOK, Settled
  PROVE  /\ left' \in [Keys -> 0 .. Backstop]
         /\ age' \in [Streams -> [Orgs -> 0 .. Backstop]]
         /\ unarmed' \subseteq Streams \X Orgs
<1>1. Remembered(0)
  BY DEF Settled
<1>2. left' \in [Keys -> 0 .. Backstop]
  BY BackstopType DEF Settled, TypeOK, NoExpiry
<1>3. QED
  BY <1>1, <1>2, RememberedType

LEMMA TypeInit == Init => TypeOK
<1> SUFFICES ASSUME Init
             PROVE  TypeOK
  OBVIOUS
<1>1. EmptyTable \in [Orgs -> Scores \cup {Absent}]
  BY DEF EmptyTable
<1>2. <<>> \in Seq(Commands)
  OBVIOUS
<1>3. /\ zset \in [Keys -> [Orgs -> Scores \cup {Absent}]]
      /\ left \in [Keys -> 0 .. Backstop]
  BY <1>1, BackstopType DEF Init, NoExpiry
<1>4. calls \in [Nodes -> Seq(Commands)]
  BY <1>2 DEF Init
<1>5. age \in [Streams -> [Orgs -> 0 .. Backstop]]
  BY BackstopType DEF Init
<1>6. begun \in 0 .. MaxCalls /\ cut \in BOOLEAN
  <2>1. begun \in 0 .. MaxCalls
    BY RedisAssumption DEF Init
  <2>2. cut \in BOOLEAN
    BY DEF Init
  <2>3. QED
    BY <2>1, <2>2
<1>7. QED
  BY <1>3, <1>4, <1>5, <1>6, NoVerdictType DEF Init, TypeOK

LEMMA BeginType ==
  ASSUME TypeOK, NEW n \in Nodes, NEW commands \in Seq(Commands),
         Begin(n, commands)
  PROVE  TypeOK'
BY NoVerdictType, RedisAssumption DEF Begin, TypeOK

LEMMA SendType ==
  ASSUME TypeOK, NEW n \in Nodes, Send(n)
  PROVE  TypeOK'
<1> DEFINE c == Head(calls[n])
<1>1. calls[n] \in Seq(Commands) /\ calls[n] # <<>>
  BY DEF TypeOK, Send, Idle
<1>2. c \in Commands /\ Tail(calls[n]) \in Seq(Commands)
  BY <1>1
<1>3. calls' \in [Nodes -> Seq(Commands)]
  BY <1>2 DEF Send, TypeOK
<1> HIDE DEF c
<1>4. c.key \in Keys
  BY <1>2, CommandTypes
<1>5. CASE c.op = "zadd"
  <2>1. SendZadd(c)
    BY <1>5 DEF Send, c
  <2>2. c.org \in Orgs /\ c.ts \in Scores
    BY <1>2, <1>5, CommandTypes
  <2>3. zset' \in [Keys -> [Orgs -> Scores \cup {Absent}]]
    BY <1>4, <2>1, <2>2 DEF SendZadd, Added, TypeOK
  <2>4. c.key.stream \in Streams
    BY <1>4, KeyTypes
  <2>5. /\ ballots' \subseteq [stream : Streams, org : Orgs, ts : Scores]
        /\ age' \in [Streams -> [Orgs -> 0 .. Backstop]]
        /\ unarmed' \subseteq Streams \X Orgs
    <3>1. Gate!Cast(c.key.stream, {c.org}, c.ts) \subseteq
            [stream : Streams, org : Orgs, ts : Scores]
      BY <2>2, <2>4 DEF Gate!Cast
    <3>2. [age EXCEPT ![c.key.stream][c.org] = 0]
            \in [Streams -> [Orgs -> 0 .. Backstop]]
      BY <2>2, <2>4, BackstopType DEF TypeOK
    <3>3. CASE c.key.table = "agree"
      <4>1. /\ ballots' = ballots \cup Gate!Cast(c.key.stream, {c.org}, c.ts)
            /\ age' = [age EXCEPT ![c.key.stream][c.org] = 0]
            /\ unarmed' = unarmed \cup {<<c.key.stream, c.org>>}
        BY <2>1, <3>3 DEF SendZadd
      <4>2. unarmed' \subseteq Streams \X Orgs
        BY <2>2, <2>4, <4>1 DEF TypeOK
      <4>3. QED
        BY <3>1, <3>2, <4>1, <4>2 DEF TypeOK
    <3>4. CASE c.key.table # "agree"
      BY <2>1, <3>4 DEF SendZadd, TypeOK
    <3>5. QED
      BY <3>3, <3>4
  <2>6. QED
    BY <1>3, <2>1, <2>3, <2>5, NoVerdictType DEF SendZadd, Send, TypeOK
<1>6. CASE c.op # "zadd"
  <2>1. SendExpire(c)
    BY <1>6 DEF Send, c
  <2>2. left' \in [Keys -> 0 .. Backstop]
    BY <1>4, <2>1, BackstopType DEF SendExpire, Armed, TypeOK, NoExpiry
  <2>3. QED
    BY <1>3, <2>1, <2>2, NoVerdictType DEF SendExpire, Send, TypeOK
<1>7. QED
  BY <1>5, <1>6

LEMMA TypeStep == TypeOK /\ [Next]_vars => TypeOK'
<1> SUFFICES ASSUME TypeOK, [Next]_vars
             PROVE  TypeOK'
  OBVIOUS
<1>1. ASSUME NEW n \in Nodes, NEW s \in Streams, NEW o \in Orgs,
             NEW ns \in Instants, Observe(n, s, o, ns)
      PROVE  TypeOK'
  <2>1. <<Zadd(ObsKey(s), o, Ms(ns)), Arm(ObsKey(s))>> \in Seq(Commands)
    BY KeyTypes, ScoreTypes, ObserveCommandsType
  <2>2. QED
    BY <1>1, <2>1, BeginType DEF Observe
<1>2. ASSUME NEW n \in Nodes, NEW s \in Streams, NEW orgs \in Contributors,
             NEW detected \in BOOLEAN, NEW ns \in Instants,
             Ingest(n, s, orgs, detected, ns)
      PROVE  TypeOK'
  BY <1>2, ScoreTypes, IngestCommandsType, BeginType DEF Ingest
<1>3. ASSUME NEW n \in Nodes, Send(n)
      PROVE  TypeOK'
  BY <1>3, SendType
<1>4. ASSUME NEW n \in Nodes, Abandon(n)
      PROVE  TypeOK'
  BY <1>4, NoVerdictType DEF Abandon, TypeOK
<1>5. ASSUME NEW n \in Nodes, NEW s \in Streams, NEW ns \in Instants,
             PromoteToPublicAlert(n, s, ns)
      PROVE  TypeOK'
  <2> DEFINE t == Ms(ns)
             met == QuorumMet(zset[ObsKey(s)], zset[AgreeKey(s)], t)
             count == Cardinality(LiveOrgs(zset[AgreeKey(s)], t))
  <2>1. zset' \in [Keys -> [Orgs -> Scores \cup {Absent}]]
    BY <1>5, ScriptType DEF PromoteToPublicAlert, Row
  <2>2. count \in Nat
    BY LiveOrgsFinite
  <2>3. /\ verdict' \in [stream : Streams \cup {"none"}, count : Nat]
        /\ ballots' \subseteq ballots
    <3>1. CASE met
      BY <1>5, <2>2, <3>1 DEF PromoteToPublicAlert, Gate!OtherStreams
    <3>2. CASE ~ met
      BY <1>5, <3>2, NoVerdictType DEF PromoteToPublicAlert
    <3>3. QED
      BY <3>1, <3>2
  <2>4. QED
    BY <1>5, <2>1, <2>3, SettledType DEF PromoteToPublicAlert, TypeOK
<1>6. ASSUME NEW n \in Nodes, NEW s \in Streams, Clear(n, s)
      PROVE  TypeOK'
  <2>1. zset' \in [Keys -> [Orgs -> Scores \cup {Absent}]]
    BY <1>6, KeyTypes DEF Clear, TypeOK, EmptyTable
  <2>2. QED
    BY <1>6, <2>1, SettledType, NoVerdictType
       DEF Clear, TypeOK, Gate!OtherStreams
<1>7. CASE Tick
  <2>1. zset' \in [Keys -> [Orgs -> Scores \cup {Absent}]]
    BY <1>7 DEF Tick, TypeOK, EmptyTable
  <2>2. left' \in [Keys -> 0 .. Backstop]
    BY <1>7, BackstopType DEF Tick, TypeOK, NoExpiry
  <2>3. Remembered(1)
    BY <1>7 DEF Tick
  <2>4. QED
    BY <1>7, <2>1, <2>2, <2>3, RememberedType, NoVerdictType DEF Tick, TypeOK
<1>8. CASE UNCHANGED vars
  BY <1>8 DEF vars, TypeOK
<1>9. QED
  BY <1>1, <1>2, <1>3, <1>4, <1>5, <1>6, <1>7, <1>8 DEF Next

\* Whatever the nodes send and wherever they stop, the sorted sets hold
\* scores, no expiry exceeds the backstop and every call is well formed.
THEOREM TypeCorrect == Spec => []TypeOK
BY TypeInit, TypeStep, PTL DEF Spec

-----------------------------------------------------------------------------
(* The sorted sets implement the gate.                                     *)

\* A candidate in Redis was cast since the last decision on its stream.
Backed ==
  \A s \in Streams, o \in Orgs :
    zset[AgreeKey(s)][o] # Absent =>
      [stream |-> s, org |-> o, ts |-> zset[AgreeKey(s)][o]] \in ballots

\* Dropping candidates, and all of one stream's, keeps the rest backed.
LEMMA BackedLess ==
  ASSUME TypeOK, Backed, NEW s \in Streams,
         \A r \in Streams, o \in Orgs :
           zset'[AgreeKey(r)][o] \in {zset[AgreeKey(r)][o], Absent},
         \/ ballots' = ballots
         \/ /\ ballots' = Gate!OtherStreams(s)
            /\ zset'[AgreeKey(s)] = EmptyTable
  PROVE  Backed'
<1> SUFFICES ASSUME NEW r \in Streams, NEW o \in Orgs,
                    zset'[AgreeKey(r)][o] # Absent
             PROVE  [stream |-> r, org |-> o, ts |-> zset'[AgreeKey(r)][o]]
                      \in ballots'
  BY DEF Backed
<1>1. zset'[AgreeKey(r)][o] = zset[AgreeKey(r)][o]
  OBVIOUS
<1>2. [stream |-> r, org |-> o, ts |-> zset'[AgreeKey(r)][o]] \in ballots
  BY <1>1 DEF Backed
<1>3. CASE ballots' = ballots
  BY <1>2, <1>3
<1>4. CASE ballots' = Gate!OtherStreams(s) /\ zset'[AgreeKey(s)] = EmptyTable
  <2>1. r # s
    BY <1>4 DEF EmptyTable
  <2>2. QED
    BY <1>2, <1>4, <2>1 DEF Gate!OtherStreams
<1>5. QED
  BY <1>3, <1>4

LEMMA BackedStep == TypeOK /\ Backed /\ [Next]_vars => Backed'
<1> SUFFICES ASSUME TypeOK, Backed, [Next]_vars
             PROVE  Backed'
  OBVIOUS
<1>1. ASSUME NEW n \in Nodes, Send(n)
      PROVE  Backed'
  <2> DEFINE c == Head(calls[n])
  <2>1. calls[n] \in Seq(Commands) /\ calls[n] # <<>>
    BY <1>1 DEF TypeOK, Send, Idle
  <2>2. c \in Commands
    BY <2>1
  <2>3. IF c.op = "zadd" THEN SendZadd(c) ELSE SendExpire(c)
    BY <1>1 DEF Send
  <2> HIDE DEF c
  <2>4. c.key \in Keys /\ c.key.stream \in Streams
    BY <2>2, CommandTypes, KeyTypes
  <2>5. CASE c.op = "zadd"
    <3>1. c.org \in Orgs /\ c.ts \in Scores
      BY <2>2, <2>5, CommandTypes
    <3>2. zset' = [zset EXCEPT ![c.key][c.org] = c.ts]
      BY <2>3, <2>5 DEF SendZadd, Added
    <3>3. CASE c.key.table = "agree"
      <4>1. c.key = AgreeKey(c.key.stream)
        BY <2>4, <3>3, KeyTypes
      <4>2. ballots' = ballots \cup Gate!Cast(c.key.stream, {c.org}, c.ts)
        BY <2>3, <2>5, <3>3 DEF SendZadd
      <4>3. ASSUME NEW s \in Streams, NEW o \in Orgs,
                   zset'[AgreeKey(s)][o] # Absent
            PROVE  [stream |-> s, org |-> o, ts |-> zset'[AgreeKey(s)][o]]
                     \in ballots'
        <5>1. CASE s = c.key.stream /\ o = c.org
          <6>1. zset'[AgreeKey(s)][o] = c.ts
            BY <2>4, <3>1, <3>2, <4>1, <5>1 DEF TypeOK
          <6>2. QED
            BY <4>2, <5>1, <6>1 DEF Gate!Cast
        <5>2. CASE ~ (s = c.key.stream /\ o = c.org)
          <6>1. AgreeKey(s) \in Keys /\ (AgreeKey(s) = c.key => s = c.key.stream)
            BY <2>4, <4>1, KeyTypes
          <6>2. zset'[AgreeKey(s)][o] = zset[AgreeKey(s)][o]
            BY <2>4, <3>1, <3>2, <5>2, <6>1 DEF TypeOK
          <6>3. QED
            BY <4>2, <4>3, <6>2 DEF Backed
        <5>3. QED
          BY <5>1, <5>2
      <4>4. QED
        BY <4>3 DEF Backed
    <3>4. CASE c.key.table # "agree"
      <4>1. \A s \in Streams : AgreeKey(s) \in Keys /\ c.key # AgreeKey(s)
        BY <2>4, <3>4, KeyTypes
      <4>2. \A s \in Streams : zset'[AgreeKey(s)] = zset[AgreeKey(s)]
        BY <3>2, <4>1 DEF TypeOK
      <4>3. ballots' = ballots
        BY <2>3, <2>5, <3>4 DEF SendZadd
      <4>4. QED
        BY <4>2, <4>3 DEF Backed
    <3>5. QED
      BY <3>3, <3>4
  <2>6. CASE c.op # "zadd"
    BY <2>3, <2>6 DEF SendExpire, Backed
  <2>7. QED
    BY <2>5, <2>6
<1>2. ASSUME NEW n \in Nodes, NEW s \in Streams, NEW ns \in Instants,
             PromoteToPublicAlert(n, s, ns)
      PROVE  Backed'
  <2> DEFINE t == Ms(ns)
  <2>1. zset' = AfterScript(s, t)
    BY <1>2 DEF PromoteToPublicAlert
  <2>2. \A r \in Streams, o \in Orgs :
          zset'[AgreeKey(r)][o] \in {zset[AgreeKey(r)][o], Absent}
    BY <2>1, ScriptType, KeyTypes
  <2>3. CASE QuorumMet(zset[ObsKey(s)], zset[AgreeKey(s)], t)
    <3>1. zset'[AgreeKey(s)] = EmptyTable
      BY <2>1, <2>3, KeyTypes DEF AfterScript, TypeOK
    <3>2. ballots' = Gate!OtherStreams(s)
      BY <1>2, <2>3 DEF PromoteToPublicAlert
    <3>3. QED
      BY <2>2, <3>1, <3>2, BackedLess
  <2>4. CASE ~ QuorumMet(zset[ObsKey(s)], zset[AgreeKey(s)], t)
    <3>1. ballots' = ballots
      BY <1>2, <2>4 DEF PromoteToPublicAlert
    <3>2. QED
      BY <2>2, <3>1, BackedLess
  <2>5. QED
    BY <2>3, <2>4
<1>3. ASSUME NEW n \in Nodes, NEW s \in Streams, Clear(n, s)
      PROVE  Backed'
  <2>1. /\ zset' = [zset EXCEPT ![AgreeKey(s)] = EmptyTable]
        /\ ballots' = Gate!OtherStreams(s)
    BY <1>3 DEF Clear
  <2>2. \A r \in Streams, o \in Orgs :
          zset'[AgreeKey(r)][o] \in {zset[AgreeKey(r)][o], Absent}
    BY <2>1, KeyTypes DEF TypeOK, EmptyTable
  <2>3. zset'[AgreeKey(s)] = EmptyTable
    BY <2>1, KeyTypes DEF TypeOK
  <2>4. QED
    BY <2>1, <2>2, <2>3, BackedLess
<1>4. CASE Tick
  <2>1. ballots' = ballots
    BY <1>4 DEF Tick
  <2>2. \A r \in Streams, o \in Orgs :
          zset'[AgreeKey(r)][o] \in {zset[AgreeKey(r)][o], Absent}
    BY <1>4, KeyTypes DEF Tick, TypeOK, EmptyTable
  <2>3. QED
    BY <2>1, <2>2 DEF Backed
<1>5. ASSUME UNCHANGED <<zset, ballots>>
      PROVE  Backed'
  BY <1>5 DEF Backed
<1>6. QED
  BY <1>1, <1>2, <1>3, <1>4, <1>5
     DEF Next, Begin, Observe, Ingest, Abandon, vars

LEMMA SameCardinality == \A S : Gate!Cardinality(S) = Cardinality(S)
BY DEF Gate!Cardinality, Cardinality

LEMMA PromoteIsGate ==
  ASSUME TypeOK, Backed, NEW n \in Nodes, NEW s \in Streams,
         NEW ns \in Instants, PromoteToPublicAlert(n, s, ns)
  PROVE  Gate!Next
<1> DEFINE t == Ms(ns)
           voters == LiveOrgs(zset[AgreeKey(s)], t)
<1>1. t \in Scores
  BY ScoreTypes
<1>2. CASE QuorumMet(zset[ObsKey(s)], zset[AgreeKey(s)], t)
  <2>1. voters \in SUBSET Orgs /\ Cardinality(voters) >= Floor
    BY <1>2, QuorumMetBounds, LiveOrgsFinite
  <2>2. voters # {}
    BY <1>2 DEF QuorumMet
  <2>3. ASSUME NEW o \in voters
        PROVE  Gate!HasBallot(s, o, t)
    <3>1. /\ o \in Orgs /\ zset[AgreeKey(s)][o] # Absent
          /\ t - TTL <= zset[AgreeKey(s)][o] /\ zset[AgreeKey(s)][o] <= t
      BY <2>3 DEF LiveOrgs
    <3>2. [stream |-> s, org |-> o, ts |-> zset[AgreeKey(s)][o]] \in ballots
      BY <3>1 DEF Backed
    <3>3. QED
      BY <3>1, <3>2 DEF Gate!HasBallot
  <2>4. /\ verdict' = [stream |-> s, count |-> Cardinality(voters)]
        /\ ballots' = Gate!OtherStreams(s)
    BY <1>2 DEF PromoteToPublicAlert
  <2> HIDE DEF t, voters
  <2>5. \A o \in voters : Gate!HasBallot(s, o, t)
    BY <2>3
  <2>6. \E v \in SUBSET Orgs :
          /\ Cardinality(v) >= Floor
          /\ v # {}
          /\ \A o \in v : Gate!HasBallot(s, o, t)
          /\ verdict' = [stream |-> s, count |-> Cardinality(v)]
          /\ ballots' = Gate!OtherStreams(s)
    BY <2>1, <2>2, <2>4, <2>5
  <2>7. Gate!Promote(s, t)
    BY <2>6, SameCardinality DEF Gate!Promote
  <2>8. QED
    BY <1>1, <2>7 DEF Gate!Next
<1>3. CASE ~ QuorumMet(zset[ObsKey(s)], zset[AgreeKey(s)], t)
  BY <1>3 DEF PromoteToPublicAlert, Gate!Next, Gate!NoDecision
<1>4. QED
  BY <1>2, <1>3

LEMMA GateStep == TypeOK /\ Backed /\ [Next]_vars => [Gate!Next]_(Gate!vars)
<1> SUFFICES ASSUME TypeOK, Backed, [Next]_vars
             PROVE  Gate!Next \/ UNCHANGED Gate!vars
  OBVIOUS
<1>1. ASSUME NEW n \in Nodes, Send(n)
      PROVE  Gate!Next
  <2> DEFINE c == Head(calls[n])
  <2>1. calls[n] \in Seq(Commands) /\ calls[n] # <<>>
    BY <1>1 DEF TypeOK, Send, Idle
  <2>2. c \in Commands
    BY <2>1
  <2>3. /\ IF c.op = "zadd" THEN SendZadd(c) ELSE SendExpire(c)
        /\ verdict' = Gate!NoVerdict
    BY <1>1 DEF Send
  <2> HIDE DEF c
  <2>4. CASE c.op = "zadd" /\ c.key.table = "agree"
    <3>1. c.key.stream \in Streams /\ {c.org} \in SUBSET Orgs /\ c.ts \in Scores
      BY <2>2, <2>4, CommandTypes, KeyTypes
    <3>2. Gate!Vote(c.key.stream, {c.org}, c.ts)
      BY <2>3, <2>4 DEF SendZadd, Gate!Vote
    <3>3. QED
      BY <3>1, <3>2 DEF Gate!Next
  <2>5. CASE ~ (c.op = "zadd" /\ c.key.table = "agree")
    BY <2>3, <2>5 DEF SendZadd, SendExpire, Gate!Next, Gate!NoDecision
  <2>6. QED
    BY <2>4, <2>5
<1>2. ASSUME NEW n \in Nodes, NEW s \in Streams, NEW ns \in Instants,
             PromoteToPublicAlert(n, s, ns)
      PROVE  Gate!Next
  BY <1>2, PromoteIsGate
<1>3. ASSUME NEW n \in Nodes, NEW s \in Streams, Clear(n, s)
      PROVE  Gate!Next
  BY <1>3 DEF Clear, Gate!Next, Gate!Discard
<1>4. ASSUME verdict' = Gate!NoVerdict, ballots' = ballots
      PROVE  Gate!Next
  BY <1>4 DEF Gate!Next, Gate!NoDecision
<1>5. CASE UNCHANGED vars
  BY <1>5 DEF vars, Gate!vars
<1>6. QED
  BY <1>1, <1>2, <1>3, <1>4, <1>5
     DEF Next, Begin, Observe, Ingest, Abandon, Tick

\* The Redis scorer implements QuorumGate for any number of nodes: calls that
\* interleave, stop half way or lose their keys to expiry promote nothing the
\* gate would not, and a candidate is spent by one promotion only.
THEOREM GateCorrect == Spec => GateKept
<1>1. Init => Gate!Init /\ Backed
  BY KeyTypes DEF Init, Gate!Init, Backed, EmptyTable
<1>2. QED
  BY <1>1, BackedStep, GateStep, TypeCorrect, PTL DEF Spec, GateKept, Gate!Spec

-----------------------------------------------------------------------------
(* What the steps that only remove members do.                             *)

\* Promote, clear and the clock remove members and renew no expiry.
Removes(seconds) ==
  /\ \A k \in Keys, o \in Orgs : zset'[k][o] \in {zset[k][o], Absent}
  /\ \A k \in Keys :
       zset'[k] # EmptyTable =>
         left'[k] = IF left[k] = NoExpiry THEN NoExpiry ELSE left[k] - seconds
  /\ \A k \in Keys :
       zset'[k] # EmptyTable /\ left[k] # NoExpiry => left[k] > seconds
  /\ Remembered(seconds)
  /\ UNCHANGED <<calls, cut>>

LEMMA SettledRemoves ==
  ASSUME TypeOK, Settled, UNCHANGED <<calls, cut>>,
         \A k \in Keys, o \in Orgs : zset'[k][o] \in {zset[k][o], Absent}
  PROVE  Removes(0)
<1>1. \A k \in Keys : left[k] \in Nat
  BY BackstopType DEF TypeOK
<1>2. QED
  BY <1>1 DEF Removes, Settled, NoExpiry

LEMMA PromoteRemoves ==
  ASSUME TypeOK, NEW n \in Nodes, NEW s \in Streams, NEW ns \in Instants,
         PromoteToPublicAlert(n, s, ns)
  PROVE  Removes(0)
<1>1. zset' = AfterScript(s, Ms(ns)) /\ Settled /\ UNCHANGED <<calls, cut>>
  BY DEF PromoteToPublicAlert
<1>2. QED
  BY <1>1, ScriptType, SettledRemoves

LEMMA ClearRemoves ==
  ASSUME TypeOK, NEW n \in Nodes, NEW s \in Streams, Clear(n, s)
  PROVE  Removes(0)
<1>1. \A k \in Keys, o \in Orgs : zset'[k][o] \in {zset[k][o], Absent}
  BY KeyTypes DEF Clear, TypeOK, EmptyTable
<1>2. QED
  BY <1>1, SettledRemoves DEF Clear

LEMMA TickRemoves ==
  ASSUME TypeOK, Tick
  PROVE  Removes(1)
<1>1. \A k \in Keys : left[k] \in Nat
  BY BackstopType DEF TypeOK
<1>2. \A k \in Keys, o \in Orgs : zset'[k][o] \in {zset[k][o], Absent}
  BY DEF Tick, EmptyTable
<1>3. \A k \in Keys :
        left'[k] = IF left[k] = NoExpiry THEN NoExpiry ELSE left[k] - 1
  BY DEF Tick
<1>4. \A k \in Keys : zset'[k] # EmptyTable => left[k] # 1
  BY DEF Tick
<1>5. QED
  BY <1>1, <1>2, <1>3, <1>4 DEF Removes, Tick, NoExpiry

-----------------------------------------------------------------------------
(* No key stays for ever.                                                  *)

Awaits(commands, k) == \E i \in DOMAIN commands : commands[i] = Arm(k)

EachArms == \A n \in Nodes : ArmsAfter(calls[n])

LEMMA TailArms ==
  ASSUME NEW q \in Seq(Commands), q # <<>>, ArmsAfter(q)
  PROVE  /\ ArmsAfter(Tail(q))
         /\ Head(q).op = "zadd" => Awaits(Tail(q), Head(q).key)
         /\ \A k \in Keys :
              Awaits(q, k) => Head(q) = Arm(k) \/ Awaits(Tail(q), k)
<1>1. /\ Tail(q) \in Seq(Commands) /\ Len(q) \in Nat \ {0}
      /\ Len(Tail(q)) = Len(q) - 1 /\ Head(q) = q[1]
      /\ DOMAIN q = 1 .. Len(q) /\ DOMAIN Tail(q) = 1 .. (Len(q) - 1)
      /\ \A i \in 1 .. (Len(q) - 1) : Tail(q)[i] = q[i + 1]
  OBVIOUS
<1>2. ASSUME NEW j \in DOMAIN q, j > 1
      PROVE  j - 1 \in DOMAIN Tail(q) /\ Tail(q)[j - 1] = q[j]
  <2>1. j - 1 \in 1 .. (Len(q) - 1) /\ (j - 1) + 1 = j
    BY <1>1, <1>2
  <2>2. QED
    BY <1>1, <2>1
<1>3. ASSUME NEW i \in DOMAIN Tail(q), Tail(q)[i].op = "zadd"
      PROVE  \E j \in DOMAIN Tail(q) :
               j > i /\ Tail(q)[j] = Arm(Tail(q)[i].key)
  <2>1. i + 1 \in DOMAIN q /\ q[i + 1] = Tail(q)[i] /\ i \in Nat /\ i >= 1
    BY <1>1
  <2>2. PICK j \in DOMAIN q : j > i + 1 /\ q[j] = Arm(Tail(q)[i].key)
    BY <1>3, <2>1 DEF ArmsAfter
  <2>3. j > 1 /\ j - 1 > i /\ j \in Nat
    BY <1>1, <2>1, <2>2
  <2>4. QED
    BY <1>2, <2>2, <2>3
<1>4. ASSUME Head(q).op = "zadd"
      PROVE  Awaits(Tail(q), Head(q).key)
  <2>1. 1 \in DOMAIN q /\ q[1] = Head(q)
    BY <1>1
  <2>2. PICK j \in DOMAIN q : j > 1 /\ q[j] = Arm(Head(q).key)
    BY <1>4, <2>1 DEF ArmsAfter
  <2>3. QED
    BY <1>2, <2>2 DEF Awaits
<1>5. ASSUME NEW k \in Keys, Awaits(q, k), Head(q) # Arm(k)
      PROVE  Awaits(Tail(q), k)
  <2>1. PICK j \in DOMAIN q : q[j] = Arm(k)
    BY <1>5 DEF Awaits
  <2>2. j > 1
    BY <1>1, <1>5, <2>1
  <2>3. QED
    BY <1>2, <2>1, <2>2 DEF Awaits
<1>6. QED
  BY <1>3, <1>4, <1>5 DEF ArmsAfter

LEMMA EachArmsStep == TypeOK /\ EachArms /\ [Next]_vars => EachArms'
<1> SUFFICES ASSUME TypeOK, EachArms, [Next]_vars, NEW m \in Nodes
             PROVE  ArmsAfter(calls[m])'
  BY DEF EachArms
<1>1. ArmsAfter(calls[m]) /\ calls[m] \in Seq(Commands)
  BY DEF EachArms, TypeOK
<1>2. ASSUME NEW n \in Nodes, NEW commands, ArmsAfter(commands),
             calls' = [calls EXCEPT ![n] = commands]
      PROVE  ArmsAfter(calls[m])'
  <2>1. calls'[m] = calls[m] \/ calls'[m] = commands
    BY <1>2 DEF TypeOK
  <2>2. QED
    BY <1>1, <1>2, <2>1 DEF ArmsAfter
<1>3. ASSUME NEW n \in Nodes, NEW s \in Streams, NEW o \in Orgs,
             NEW ns \in Instants, Observe(n, s, o, ns)
      PROVE  ArmsAfter(calls[m])'
  BY <1>2, <1>3, KeyTypes, ScoreTypes, ObserveCommandsType DEF Observe, Begin
<1>4. ASSUME NEW n \in Nodes, NEW s \in Streams, NEW orgs \in Contributors,
             NEW detected \in BOOLEAN, NEW ns \in Instants,
             Ingest(n, s, orgs, detected, ns)
      PROVE  ArmsAfter(calls[m])'
  BY <1>2, <1>4, ScoreTypes, IngestCommandsType DEF Ingest, Begin
<1>5. ASSUME NEW n \in Nodes, Send(n)
      PROVE  ArmsAfter(calls[m])'
  <2>1. calls[n] \in Seq(Commands) /\ calls[n] # <<>> /\ ArmsAfter(calls[n])
    BY <1>5 DEF EachArms, TypeOK, Send, Idle
  <2>2. calls' = [calls EXCEPT ![n] = Tail(calls[n])]
    BY <1>5 DEF Send
  <2>3. QED
    BY <1>2, <2>1, <2>2, TailArms
<1>6. ASSUME NEW n \in Nodes, Abandon(n)
      PROVE  ArmsAfter(calls[m])'
  <2>1. ArmsAfter(<<>>)
    BY DEF ArmsAfter
  <2>2. QED
    BY <1>2, <1>6, <2>1 DEF Abandon
<1>7. ASSUME UNCHANGED calls
      PROVE  ArmsAfter(calls[m])'
  BY <1>1, <1>7 DEF ArmsAfter
<1>8. QED
  BY <1>3, <1>4, <1>5, <1>6, <1>7
     DEF Next, PromoteToPublicAlert, Clear, Tick, vars

\* A key that will be given an expiry, or whose call was cut short.
Pending(k) == cut \/ \E n \in Nodes : Awaits(calls[n], k)

LEMMA ReclaimedStep ==
  TypeOK /\ EachArms /\ KeysReclaimed /\ [Next]_vars => KeysReclaimed'
<1> SUFFICES ASSUME TypeOK, EachArms, KeysReclaimed, [Next]_vars,
                    NEW k \in Keys, (Members(k) # {})', left'[k] = NoExpiry
             PROVE  Pending(k)'
  BY DEF KeysReclaimed, Present, Pending, Awaits
<1>1. Members(k) # {} /\ left[k] = NoExpiry => Pending(k)
  BY DEF KeysReclaimed, Present, Pending, Awaits
<1>2. ASSUME NEW n \in Nodes, NEW commands, Begin(n, commands)
      PROVE  Pending(k)'
  <2>1. Pending(k)
    BY <1>1, <1>2 DEF Begin, Members
  <2>2. ASSUME NEW m \in Nodes, Awaits(calls[m], k)
        PROVE  Awaits(calls[m], k)'
    <3>1. m # n
      BY <1>2, <2>2 DEF Begin, Idle, Awaits
    <3>2. calls'[m] = calls[m]
      BY <1>2, <3>1 DEF Begin, TypeOK
    <3>3. QED
      BY <2>2, <3>2 DEF Awaits
  <2>3. QED
    BY <1>2, <2>1, <2>2 DEF Pending, Begin
<1>3. ASSUME NEW n \in Nodes, Send(n)
      PROVE  Pending(k)'
  <2> DEFINE c == Head(calls[n])
             rest == Tail(calls[n])
  <2>1. calls[n] \in Seq(Commands) /\ calls[n] # <<>> /\ ArmsAfter(calls[n])
    BY <1>3 DEF EachArms, TypeOK, Send, Idle
  <2>2. c \in Commands
    BY <2>1
  <2>3. /\ c.op = "zadd" => Awaits(rest, c.key)
        /\ Awaits(calls[n], k) => c = Arm(k) \/ Awaits(rest, k)
    BY <2>1, TailArms
  <2>4. /\ IF c.op = "zadd" THEN SendZadd(c) ELSE SendExpire(c)
        /\ calls' = [calls EXCEPT ![n] = rest]
        /\ cut' = cut
    BY <1>3 DEF Send
  <2> HIDE DEF c, rest
  <2>5. /\ calls'[n] = rest
        /\ \A m \in Nodes \ {n} : calls'[m] = calls[m]
    BY <2>4 DEF TypeOK
  <2>6. ASSUME Awaits(rest, k)
        PROVE  Pending(k)'
    BY <2>5, <2>6 DEF Pending, Awaits
  <2>7. ASSUME Pending(k), c # Arm(k)
        PROVE  Pending(k)'
    <3>1. CASE cut
      BY <2>4, <3>1 DEF Pending
    <3>2. ASSUME NEW m \in Nodes, Awaits(calls[m], k)
          PROVE  Pending(k)'
      <4>1. CASE m = n
        BY <2>3, <2>6, <2>7, <3>2, <4>1
      <4>2. CASE m # n
        <5>1. Awaits(calls[m], k)'
          BY <2>5, <3>2, <4>2 DEF Awaits
        <5>2. QED
          BY <5>1 DEF Pending
      <4>3. QED
        BY <4>1, <4>2
    <3>3. QED
      BY <2>7, <3>1, <3>2 DEF Pending
  <2>8. CASE c.op = "zadd"
    <3>1. CASE c.key = k
      BY <2>3, <2>6, <2>8, <3>1
    <3>2. CASE c.key # k
      <4>1. zset'[k] = zset[k] /\ left'[k] = left[k]
        BY <2>4, <2>8, <3>2 DEF SendZadd, Added, TypeOK
      <4>2. Pending(k)
        BY <1>1, <4>1 DEF Members
      <4>3. c # Arm(k)
        BY <2>8, CommandTypes
      <4>4. QED
        BY <2>7, <4>2, <4>3
    <3>3. QED
      BY <3>1, <3>2
  <2>9. CASE c.op # "zadd"
    <3>1. /\ zset' = zset
          /\ left' = [left EXCEPT ![c.key] =
                        IF Members(c.key) = {} THEN NoExpiry ELSE Backstop]
      BY <2>4, <2>9 DEF SendExpire, Armed
    <3>2. Members(k) # {}
      BY <3>1 DEF Members
    <3>3. c.key # k
      BY <3>1, <3>2, BackstopType DEF TypeOK, NoExpiry
    <3>4. left'[k] = left[k]
      BY <3>1, <3>3 DEF TypeOK
    <3>5. c # Arm(k)
      BY <3>3 DEF Arm
    <3>6. QED
      BY <1>1, <2>7, <3>2, <3>4, <3>5
  <2>10. QED
    BY <2>8, <2>9
<1>4. ASSUME NEW n \in Nodes, Abandon(n)
      PROVE  Pending(k)'
  BY <1>4 DEF Abandon, Pending
<1>5. ASSUME NEW seconds \in {0, 1}, Removes(seconds)
      PROVE  Pending(k)'
  <2>1. Members(k) # {}
    BY <1>5 DEF Removes, Members
  <2>2. zset'[k] # EmptyTable
    BY DEF Members, EmptyTable
  <2>3. left[k] \in Nat
    BY BackstopType DEF TypeOK
  <2>4. left[k] = NoExpiry
    BY <1>5, <2>2, <2>3 DEF Removes, NoExpiry
  <2>5. calls' = calls /\ cut' = cut
    BY <1>5 DEF Removes
  <2>6. QED
    BY <1>1, <2>1, <2>4, <2>5 DEF Pending, Awaits
<1>6. CASE UNCHANGED vars
  BY <1>1, <1>6 DEF vars, Pending, Awaits, Members
<1>7. QED
  BY <1>2, <1>3, <1>4, <1>5, <1>6, PromoteRemoves, ClearRemoves, TickRemoves
     DEF Next, Observe, Ingest

\* Unless a call is abandoned, every key gets its expiry: Redis never keeps
\* the sets of a stream nobody reports on.
THEOREM ReclaimedCorrect == Spec => []KeysReclaimed
<1>1. Init => EachArms /\ KeysReclaimed
  BY DEF Init, EachArms, ArmsAfter, KeysReclaimed, Present, Members, EmptyTable
<1>2. QED
  BY <1>1, EachArmsStep, ReclaimedStep, TypeCorrect, PTL DEF Spec

-----------------------------------------------------------------------------
(* The backstop reclaims no live stream.                                   *)

LEMMA ArmedStep == TypeOK /\ ArmedOutlives /\ [Next]_vars => ArmedOutlives'
<1> DEFINE Outlives(s, o) ==
             zset[AgreeKey(s)][o] # Absent /\ <<s, o>> \notin unarmed =>
               /\ left[AgreeKey(s)] # NoExpiry
               /\ left[AgreeKey(s)] + age[s][o] >= Backstop
<1> SUFFICES ASSUME TypeOK, ArmedOutlives, [Next]_vars,
                    NEW s \in Streams, NEW o \in Orgs
             PROVE  Outlives(s, o)'
  BY DEF ArmedOutlives, Members
<1>1. Outlives(s, o)
  BY DEF ArmedOutlives, Members
<1>2. /\ AgreeKey(s) \in Keys
      /\ age[s][o] \in 0 .. Backstop /\ left[AgreeKey(s)] \in Nat
      /\ Backstop \in Nat /\ Backstop >= 1
  BY KeyTypes, BackstopType DEF TypeOK
<1>3. ASSUME NEW n \in Nodes, Send(n)
      PROVE  Outlives(s, o)'
  <2> DEFINE c == Head(calls[n])
  <2>1. c \in Commands
    BY <1>3 DEF TypeOK, Send, Idle
  <2>2. IF c.op = "zadd" THEN SendZadd(c) ELSE SendExpire(c)
    BY <1>3 DEF Send
  <2> HIDE DEF c
  <2>3. c.key \in Keys /\ c.key.stream \in Streams
    BY <2>1, CommandTypes, KeyTypes
  <2>4. CASE c.op = "zadd"
    <3>1. /\ c.org \in Orgs
          /\ zset' = [zset EXCEPT ![c.key][c.org] = c.ts] /\ left' = left
      BY <2>1, <2>2, <2>4, CommandTypes DEF SendZadd, Added
    <3>2. CASE c.key = AgreeKey(s) /\ c.org = o
      <4>1. c.key.table = "agree" /\ c.key.stream = s
        BY <3>2 DEF AgreeKey
      <4>2. <<s, o>> \in unarmed'
        BY <2>2, <2>4, <3>2, <4>1 DEF SendZadd
      <4>3. QED
        BY <4>2
    <3>3. CASE ~ (c.key = AgreeKey(s) /\ c.org = o)
      <4>1. zset'[AgreeKey(s)][o] = zset[AgreeKey(s)][o]
        BY <1>2, <2>3, <3>1, <3>3 DEF TypeOK
      <4>2. /\ <<s, o>> \notin unarmed' => <<s, o>> \notin unarmed
            /\ age'[s][o] = age[s][o]
        <5>1. CASE c.key.table = "agree"
          <6>1. c.key.stream = s => c.org # o
            BY <2>3, <3>3, <5>1, KeyTypes
          <6>2. /\ age' = [age EXCEPT ![c.key.stream][c.org] = 0]
                /\ unarmed' = unarmed \cup {<<c.key.stream, c.org>>}
            BY <2>2, <2>4, <5>1 DEF SendZadd
          <6>3. QED
            BY <2>3, <3>1, <6>1, <6>2 DEF TypeOK
        <5>2. CASE c.key.table # "agree"
          BY <2>2, <2>4, <5>2 DEF SendZadd
        <5>3. QED
          BY <5>1, <5>2
      <4>3. QED
        BY <1>1, <3>1, <4>1, <4>2
    <3>4. QED
      BY <3>2, <3>3
  <2>5. CASE c.op # "zadd"
    <3>1. /\ zset' = zset /\ age' = age
          /\ left' = [left EXCEPT ![c.key] =
                        IF Members(c.key) = {} THEN NoExpiry ELSE Backstop]
          /\ unarmed' = {u \in unarmed : AgreeKey(u[1]) # c.key}
      BY <2>2, <2>5 DEF SendExpire, Armed
    <3>2. CASE c.key = AgreeKey(s)
      <4>1. zset[AgreeKey(s)][o] # Absent => left'[AgreeKey(s)] = Backstop
        BY <1>2, <3>1, <3>2 DEF TypeOK, Members
      <4>2. QED
        BY <1>2, <3>1, <4>1 DEF NoExpiry
    <3>3. CASE c.key # AgreeKey(s)
      <4>1. left'[AgreeKey(s)] = left[AgreeKey(s)]
        BY <1>2, <3>1, <3>3 DEF TypeOK
      <4>2. <<s, o>> \notin unarmed' => <<s, o>> \notin unarmed
        BY <3>1, <3>3
      <4>3. QED
        BY <1>1, <3>1, <4>1, <4>2
    <3>4. QED
      BY <3>2, <3>3
  <2>6. QED
    BY <2>4, <2>5
<1>4. ASSUME NEW seconds \in {0, 1}, Removes(seconds)
      PROVE  Outlives(s, o)'
  <2> SUFFICES ASSUME zset'[AgreeKey(s)][o] # Absent, <<s, o>> \notin unarmed'
               PROVE  /\ left'[AgreeKey(s)] # NoExpiry
                      /\ left'[AgreeKey(s)] + age'[s][o] >= Backstop
    OBVIOUS
  <2>1. zset[AgreeKey(s)][o] # Absent /\ zset'[AgreeKey(s)] # EmptyTable
    BY <1>2, <1>4 DEF Removes, EmptyTable
  <2>2. <<s, o>> \notin unarmed
    BY <1>4 DEF Removes, Remembered
  <2>3. /\ left[AgreeKey(s)] # NoExpiry
        /\ left[AgreeKey(s)] + age[s][o] >= Backstop
    BY <1>1, <2>1, <2>2
  <2>4. /\ left'[AgreeKey(s)] = left[AgreeKey(s)] - seconds
        /\ left[AgreeKey(s)] > seconds
    BY <1>2, <1>4, <2>1, <2>3 DEF Removes
  <2>5. age'[s][o] = IF age[s][o] + seconds < Backstop
                     THEN age[s][o] + seconds ELSE Backstop
    BY <1>4 DEF Removes, Remembered
  <2>6. QED
    BY <1>2, <2>3, <2>4, <2>5 DEF NoExpiry
<1>5. ASSUME UNCHANGED <<zset, left, age, unarmed>>
      PROVE  Outlives(s, o)'
  BY <1>1, <1>5
<1>6. QED
  BY <1>3, <1>4, <1>5, PromoteRemoves, ClearRemoves, TickRemoves
     DEF Next, Observe, Ingest, Begin, Abandon, vars

\* A candidate under an expiry is never reclaimed before the backstop has
\* passed since it was cast, however many nodes share, delete or re-create
\* its key.
THEOREM ArmedCorrect == Spec => []ArmedOutlives
<1>1. Init => ArmedOutlives
  BY KeyTypes DEF Init, ArmedOutlives, Members, EmptyTable
<1>2. QED
  BY <1>1, ArmedStep, TypeCorrect, PTL DEF Spec

-----------------------------------------------------------------------------
(* Promotions scale with the population.                                   *)

\* Pruning at t takes nobody who is live at t.
LEMMA PrunedLive ==
  ASSUME NEW row \in Row, NEW t \in Nat
  PROVE  LiveOrgs(Pruned(row, t), t) = LiveOrgs(row, t)
<1>1. \A o \in Orgs : row[o] \in Nat
  BY ScoreTypes DEF Row
<1>2. QED
  BY <1>1, QuorumAssumption DEF Pruned, LiveOrgs, Absent

LEMMA ScalesStep == TypeOK /\ [Next]_vars => [ScaledPromotion]_vars
<1> SUFFICES ASSUME TypeOK, Next
             PROVE  ScaledPromotion
  OBVIOUS
<1>1. ASSUME NEW n \in Nodes, NEW s \in Streams, NEW ns \in Instants,
             PromoteToPublicAlert(n, s, ns)
      PROVE  ScaledPromotion
  <2> DEFINE t == Ms(ns)
             agreeing == LiveOrgs(zset[AgreeKey(s)], t)
             watching == LiveOrgs(zset[ObsKey(s)], t)
  <2>1. CASE ~ QuorumMet(zset[ObsKey(s)], zset[AgreeKey(s)], t)
    BY <1>1, <2>1 DEF PromoteToPublicAlert, ScaledPromotion
  <2>2. CASE QuorumMet(zset[ObsKey(s)], zset[AgreeKey(s)], t)
    <3>1. verdict' = [stream |-> s, count |-> Cardinality(agreeing)]
      BY <1>1, <2>2 DEF PromoteToPublicAlert
    <3>2. FracDen * Cardinality(agreeing) >= FracNum * Cardinality(watching)
      BY <2>2, QuorumMetBounds
    <3>3. zset[ObsKey(s)] \in Row /\ t \in Scores /\ t \in Nat
      BY KeyTypes, ScoreTypes DEF TypeOK, Row
    <3>4. zset'[ObsKey(s)] = Pruned(zset[ObsKey(s)], t)
      BY <1>1, KeyTypes DEF PromoteToPublicAlert, AfterScript, TypeOK
    <3>5. LiveOrgs(zset'[ObsKey(s)], t) = watching
      BY <3>3, <3>4, PrunedLive
    <3> HIDE DEF t
    <3>6. verdict'.stream = s /\ verdict'.count = Cardinality(agreeing)
      BY <3>1
    <3>7. QED
      BY <3>2, <3>3, <3>5, <3>6 DEF ScaledPromotion
  <2>3. QED
    BY <2>1, <2>2
<1>2. ASSUME verdict' = Gate!NoVerdict
      PROVE  ScaledPromotion
  BY <1>2 DEF ScaledPromotion
<1>3. QED
  BY <1>1, <1>2
     DEF Next, Observe, Ingest, Begin, Send, Abandon, Clear, Tick

\* The script's verdict clears the quorum of every observer live on any node,
\* and the prune costs none of them their place in the next one.
THEOREM ScalesCorrect == Spec => PromotionScales
BY TypeCorrect, ScalesStep, PTL DEF Spec, PromotionScales
=============================================================================
