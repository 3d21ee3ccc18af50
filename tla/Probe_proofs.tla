----------------------------- MODULE Probe_proofs -----------------------------
(***************************************************************************)
(* Proofs about the probe: the delivery of its batches, for any models and *)
(* suites, any cap and age limit of the spool and any number of faults and *)
(* crashes; the strict runner, for every suite, endpoint and setting of    *)
(* the delay, the retries and the backoff; the legs of the live emission   *)
(* that run it, for any number of runs, faults and kills; and comparisons  *)
(* of two sides, for any suite files, answers, metrics and limits.         *)
(***************************************************************************)
EXTENDS ProbeDelivery, ProbeTools, FiniteSetTheorems, WellFoundedInduction, TLAPS

-----------------------------------------------------------------------------
(* The inductive invariant.                                                *)

\* A result is staged once, or is in one batch, and is never made again.
Fresh ==
  /\ \A m \in Models : \A r \in staged[m] : r.n <= resultsMade
  /\ \A b \in DOMAIN built : \A r \in built[b].results : r.n <= resultsMade
  /\ \A m, o \in Models : staged[m] \cap staged[o] # {} => m = o
  /\ \A m \in Models, b \in DOMAIN built : staged[m] \cap built[b].results = {}
  /\ \A b, c \in DOMAIN built : built[b].results \cap built[c].results # {} => b = c

\* The gateway holds a batch once.
RowsDistinct == \A j, k \in DOMAIN stored : stored[j] = stored[k] => j = k

\* SpoolBounded counts; counting needs a finite spool.
SpoolInv == IsFiniteSet(spool) /\ SpoolBounded

-----------------------------------------------------------------------------
(* Lemmas.                                                                 *)

LEMMA WiderSeq ==
  ASSUME NEW S, NEW T, S \subseteq T, NEW s \in Seq(S)
  PROVE  s \in Seq(T)
  OBVIOUS

\* A request that reaches the gateway adds at most the row of its batch.
LEMMA KeptAdds ==
  ASSUME TypeOK, NEW b \in DOMAIN built
  PROVE  /\ Kept(b) \in Seq(DOMAIN built)
         /\ ToSet(stored) \subseteq {Kept(b)[i] : i \in DOMAIN Kept(b)}
         /\ built[b].model \notin Refused => b \in {Kept(b)[i] : i \in DOMAIN Kept(b)}
         /\ RowsDistinct =>
              \A j, k \in DOMAIN Kept(b) : Kept(b)[j] = Kept(b)[k] => j = k
<1>1. stored \in Seq(DOMAIN built)
  BY DEF TypeOK
<1>2. CASE Kept(b) = stored /\ (built[b].model \notin Refused => b \in ToSet(stored))
  BY <1>1, <1>2 DEF ToSet, RowsDistinct
<1>3. CASE Kept(b) = Append(stored, b) /\ b \notin ToSet(stored)
  <2> DEFINE s == Append(stored, b)
  <2>1. s \in Seq(DOMAIN built) /\ Len(s) = Len(stored) + 1 /\ s[Len(s)] = b
    BY <1>1
  <2>2. \A i \in DOMAIN stored : i \in DOMAIN s /\ s[i] = stored[i]
    BY <1>1
  <2>3. ToSet(stored) \subseteq {s[i] : i \in DOMAIN s}
    BY <2>2 DEF ToSet
  <2>4. b \in {s[i] : i \in DOMAIN s}
    BY <2>1
  <2>5. \A i \in DOMAIN stored : stored[i] # b
    BY <1>3 DEF ToSet
  <2>6. DOMAIN s = DOMAIN stored \cup {Len(s)} /\ Len(s) \notin DOMAIN stored
    BY <1>1
  <2>7. RowsDistinct => \A j, k \in DOMAIN s : s[j] = s[k] => j = k
    BY <2>1, <2>2, <2>5, <2>6 DEF RowsDistinct
  <2> HIDE DEF s
  <2> QED BY <1>3, <2>1, <2>3, <2>4, <2>7 DEF s
<1> QED BY <1>2, <1>3 DEF Kept, StoredOnce

\* What a POST may do to the gateway, and what its answer is worth.
LEMMA PostFacts ==
  ASSUME TypeOK, NEW b \in DOMAIN built, NEW status, Post(b, status)
  PROVE  /\ stored' \in Seq(DOMAIN built)
         /\ late' \subseteq DOMAIN built
         /\ faults' \in 0 .. MaxFaults
         /\ ToSet(stored) \subseteq ToSet(stored')
         /\ Delivered(status) => b \in ToSet(stored')
         /\ RowsDistinct => RowsDistinct'
<1>1. stored' \in {stored, Kept(b)}
  BY DEF Post, AnsweredPost, Faulty
<1>2. late' \in {late, late \cup {b}} /\ faults' \in 0 .. MaxFaults
  BY DeliveryAssumption DEF TypeOK, Post, AnsweredPost, Faulty
<1>3. Delivered(status) => stored' = Kept(b) /\ built[b].model \notin Refused
  BY DEF Delivered, Post, AnsweredPost, Faulty, Answer
<1>4. stored \in Seq(DOMAIN built) /\ late \subseteq DOMAIN built
  BY DEF TypeOK
<1> DEFINE kept == Kept(b)
<1>5. /\ kept \in Seq(DOMAIN built)
      /\ ToSet(stored) \subseteq ToSet(kept)
      /\ built[b].model \notin Refused => b \in ToSet(kept)
      /\ RowsDistinct => \A j, k \in DOMAIN kept : kept[j] = kept[k] => j = k
  BY KeptAdds DEF ToSet
<1> HIDE DEF kept
<1>6. stored' = stored \/ stored' = kept
  BY <1>1 DEF kept
<1>7. Delivered(status) => stored' = kept /\ built[b].model \notin Refused
  BY <1>3 DEF kept
<1>8. stored' \in Seq(DOMAIN built) /\ ToSet(stored) \subseteq ToSet(stored')
  BY <1>4, <1>5, <1>6
<1>9. Delivered(status) => b \in ToSet(stored')
  BY <1>5, <1>7
<1>10. RowsDistinct => RowsDistinct'
  BY <1>5, <1>6 DEF RowsDistinct
<1> QED BY <1>2, <1>4, <1>8, <1>9, <1>10

-----------------------------------------------------------------------------
(* Types.                                                                  *)

LEMMA TypeInit == Init => TypeOK
  BY DeliveryAssumption, SMTT(30) DEF Init, TypeOK, NoBatch, File, Result

LEMMA TypeStep == TypeOK /\ [Next]_vars => TypeOK'
<1> SUFFICES ASSUME TypeOK, [Next]_vars PROVE TypeOK'
  OBVIOUS
<1> USE DeliveryAssumption
<1>1. CASE BeginFlush
  BY <1>1 DEF TypeOK, BeginFlush, File, gatewayVars
<1>2. ASSUME NEW status, NEW f \in queue, DrainEntry(f, status) PROVE TypeOK'
  <2>1. f.batch \in DOMAIN built
    BY DEF TypeOK, File
  <2>2. Post(f.batch, status)
    BY <1>2 DEF DrainEntry
  <2>3. /\ stored' \in Seq(DOMAIN built) /\ late' \subseteq DOMAIN built
        /\ faults' \in 0 .. MaxFaults
    BY <2>1, <2>2, PostFacts
  <2> QED BY <1>2, <2>1, <2>3 DEF TypeOK, DrainEntry, File, Without
<1>3. CASE Gate
  BY <1>3 DEF TypeOK, Gate, File, gatewayVars
<1>4. ASSUME NEW m \in Models, Build(m) PROVE TypeOK'
  <2>1. CASE Mixed(m)
    BY <1>4, <2>1 DEF TypeOK, Build, File, gatewayVars, NoBatch
  <2>2. CASE ~ Mixed(m)
    <3> DEFINE batch == [model |-> m, results |-> staged[m]]
    <3>1. batch \in [model : Models, results : SUBSET Result]
      BY DEF TypeOK
    <3>2. built' = Append(built, batch)
      BY <1>4, <2>2 DEF Build
    <3>3. /\ built' \in Seq([model : Models, results : SUBSET Result])
          /\ Len(built') \in DOMAIN built' /\ Len(built') # 0
          /\ DOMAIN built \subseteq DOMAIN built'
      BY <3>1, <3>2 DEF TypeOK
    <3>4. stored \in Seq(DOMAIN built')
      BY <3>3, WiderSeq DEF TypeOK
    <3>5. staged' \in [Models -> SUBSET Result]
      BY <1>4, <2>2 DEF TypeOK, Build
    <3> HIDE DEF batch
    <3>6. hand' \in {NoBatch} \cup DOMAIN built' /\ (hand' # NoBatch <=> pc' \in {"post", "put"})
      BY <1>4, <2>2, <3>3 DEF TypeOK, Build, NoBatch
    <3>7. dropped' \subseteq DOMAIN built' /\ pc' \in {"send", "post"} /\ todo' \subseteq Models
      BY <1>4, <2>2, <3>3 DEF TypeOK, Build
    <3>8. queue' \subseteq File' /\ spool' \subseteq File'
      BY <1>4, <2>2, <3>3 DEF TypeOK, Build, File
    <3>9. quarantine' \subseteq DOMAIN built' /\ late' \subseteq DOMAIN built'
      BY <1>4, <2>2, <3>3 DEF TypeOK, Build, gatewayVars
    <3> QED BY <1>4, <2>2, <3>3, <3>4, <3>5, <3>6, <3>7, <3>8, <3>9
          DEF TypeOK, Build, gatewayVars
  <2> QED BY <2>1, <2>2
<1>5. ASSUME NEW status, PostBatch(status) PROVE TypeOK'
  <2>1. hand \in DOMAIN built
    BY <1>5 DEF TypeOK, PostBatch
  <2>2. Post(hand, status)
    BY <1>5 DEF PostBatch
  <2>3. /\ stored' \in Seq(DOMAIN built) /\ late' \subseteq DOMAIN built
        /\ faults' \in 0 .. MaxFaults
    BY <2>1, <2>2, PostFacts
  <2> QED BY <1>5, <2>1, <2>3 DEF TypeOK, PostBatch, File, NoBatch
<1>6. CASE Put
  <2> DEFINE file == [batch |-> hand, at |-> clock, sound |-> TRUE]
  <2>1. hand \in DOMAIN built /\ clock \in 0 .. MaxTime
    BY <1>6 DEF TypeOK, Put
  <2>2. file \in File
    BY <2>1, Zenon DEF File
  <2>3. spool' = spool \cup {file}
    BY <1>6 DEF Put
  <2> HIDE DEF file
  <2>4. spool' \subseteq File
    BY <2>2, <2>3 DEF TypeOK
  <2>5. built' = built /\ File' = File
    BY <1>6 DEF Put, File
  <2> QED BY <1>6, <2>4, <2>5 DEF TypeOK, Put, gatewayVars, NoBatch
<1>7. CASE EnforceCap
  BY <1>7 DEF TypeOK, EnforceCap, File, gatewayVars
<1>8. CASE EndFlush
  BY <1>8 DEF TypeOK, EndFlush, File, gatewayVars
<1>9. ASSUME NEW m \in Models, NEW su \in Suites, AddResult(m, su) PROVE TypeOK'
  BY <1>9 DEF TypeOK, AddResult, File, gatewayVars, Result
<1>10. ASSUME NEW b \in late, Arrive(b) PROVE TypeOK'
  <2>1. b \in DOMAIN built
    BY DEF TypeOK
  <2>2. stored' \in Seq(DOMAIN built)
    BY <1>10, <2>1, KeptAdds DEF Arrive
  <2> QED BY <1>10, <2>2 DEF TypeOK, Arrive, File, probeVars
<1>11. ASSUME NEW f \in spool, Rot(f) PROVE TypeOK'
  <2> DEFINE file == [f EXCEPT !.sound = FALSE]
  <2>1. f \in File
    BY DEF TypeOK
  <2>2. file \in File
    BY <2>1, Zenon DEF File
  <2>3. spool' = (spool \ {f}) \cup {file}
    BY <1>11 DEF Rot
  <2> HIDE DEF file
  <2>4. spool' \subseteq File
    BY <2>2, <2>3 DEF TypeOK
  <2>5. built' = built /\ File' = File
    BY <1>11 DEF Rot, File
  <2> QED BY <1>11, <2>4, <2>5 DEF TypeOK, Rot, probeVars
<1>12. CASE Crash
  BY <1>12 DEF TypeOK, Crash, File, gatewayVars, NoBatch
<1>13. CASE Tick
  BY <1>13 DEF TypeOK, Tick, File, probeVars, gatewayVars
<1>14. CASE UNCHANGED vars
  BY <1>14 DEF TypeOK, vars, File, probeVars, gatewayVars
<1> QED BY <1>1, <1>2, <1>3, <1>4, <1>5, <1>6, <1>7, <1>8, <1>9, <1>10, <1>11,
           <1>12, <1>13, <1>14 DEF Next, Flush

-----------------------------------------------------------------------------
(* Every result in one place.                                              *)

LEMMA FreshStep == TypeOK /\ Fresh /\ [Next]_vars => Fresh'
<1> SUFFICES ASSUME TypeOK, Fresh, [Next]_vars PROVE Fresh'
  OBVIOUS
<1>1. CASE UNCHANGED <<resultsMade, staged, built>>
  BY <1>1 DEF Fresh
<1>2. CASE staged' = [m \in Models |-> {}] /\ UNCHANGED <<resultsMade, built>>
  BY <1>2 DEF Fresh
<1>3. ASSUME NEW m \in Models, NEW su \in Suites, AddResult(m, su) PROVE Fresh'
  <2> DEFINE r == [n |-> resultsMade + 1, suite |-> su]
  <2>1. /\ resultsMade' = resultsMade + 1 /\ built' = built
        /\ staged' = [staged EXCEPT ![m] = @ \cup {r}]
    BY <1>3 DEF AddResult
  <2>2. r.n = resultsMade + 1 /\ resultsMade \in Nat
    BY DEF TypeOK
  <2> HIDE DEF r
  <2>3. \A o \in Models : \A q \in staged[o] : q.n \in Nat
    BY DEF TypeOK, Result
  <2>4. \A b \in DOMAIN built : \A q \in built[b].results : q.n \in Nat
    <3> DEFINE Batch == [model : Models, results : SUBSET Result]
    <3>1. \A x \in Batch : x.results \in SUBSET Result
      OBVIOUS
    <3>2. built \in Seq(Batch)
      BY DEF TypeOK
    <3> HIDE DEF Batch
    <3>3. \A b \in DOMAIN built : built[b] \in Batch
      BY <3>2
    <3> QED BY <3>1, <3>3 DEF Result
  <2>5. \A o \in Models : staged'[o] = IF o = m THEN staged[o] \cup {r} ELSE staged[o]
    BY <2>1 DEF TypeOK
  <2>6. \A o \in Models : r \notin staged[o]
    BY <2>2, <2>3 DEF Fresh
  <2>7. \A b \in DOMAIN built : r \notin built[b].results
    BY <2>2, <2>4 DEF Fresh
  <2>8. \A o \in Models : \A q \in staged'[o] : q.n <= resultsMade'
    BY <2>1, <2>2, <2>3, <2>5 DEF Fresh
  <2>9. \A b \in DOMAIN built : \A q \in built[b].results : q.n <= resultsMade'
    BY <2>1, <2>2, <2>4 DEF Fresh
  <2>10. \A o, p \in Models : staged'[o] \cap staged'[p] # {} => o = p
    <3>1. \A o, p \in Models : staged[o] \cap staged[p] # {} => o = p
      BY DEF Fresh
    <3> HIDE DEF Fresh
    <3> QED BY <2>5, <2>6, <3>1, ZenonT(30)
  <2>11. \A o \in Models, b \in DOMAIN built : staged'[o] \cap built[b].results = {}
    BY <2>5, <2>7 DEF Fresh
  <2>12. \A b, c \in DOMAIN built : built[b].results \cap built[c].results # {} => b = c
    BY DEF Fresh
  <2> HIDE DEF Fresh
  <2> QED BY <2>1, <2>8, <2>9, <2>10, <2>11, <2>12 DEF Fresh
<1>4. ASSUME NEW m \in Models, Build(m) PROVE Fresh'
  <2>1. CASE Mixed(m)
    BY <1>1, <1>4, <2>1 DEF Build
  <2>2. CASE ~ Mixed(m)
    <3> DEFINE batch == [model |-> m, results |-> staged[m]]
               new == Len(built')
    <3>1. /\ built' = Append(built, batch) /\ resultsMade' = resultsMade
          /\ staged' = [staged EXCEPT ![m] = {}]
      BY <1>4, <2>2 DEF Build
    <3>2. built \in Seq([model : Models, results : SUBSET Result]) /\ batch.results = staged[m]
      BY DEF TypeOK
    <3> HIDE DEF batch
    <3>3. /\ DOMAIN built' = DOMAIN built \cup {new} /\ new \notin DOMAIN built
          /\ built'[new] = batch /\ \A b \in DOMAIN built : built'[b] = built[b]
      BY <3>1, <3>2
    <3> HIDE DEF new
    <3>4. \A o \in Models : staged'[o] = IF o = m THEN {} ELSE staged[o]
      BY <3>1 DEF TypeOK
    <3>5. \A o \in Models : \A q \in staged'[o] : q.n <= resultsMade'
      BY <3>1, <3>4 DEF Fresh
    <3>6. \A b \in DOMAIN built' : \A q \in built'[b].results : q.n <= resultsMade'
      BY <3>1, <3>2, <3>3 DEF Fresh
    <3>7. \A o, p \in Models : staged'[o] \cap staged'[p] # {} => o = p
      BY <3>4 DEF Fresh
    <3>8. \A o \in Models, b \in DOMAIN built' : staged'[o] \cap built'[b].results = {}
      BY <3>2, <3>3, <3>4 DEF Fresh
    <3>9. \A b, c \in DOMAIN built' : built'[b].results \cap built'[c].results # {} => b = c
      BY <3>2, <3>3 DEF Fresh
    <3> QED BY <3>5, <3>6, <3>7, <3>8, <3>9 DEF Fresh
  <2> QED BY <2>1, <2>2
<1>5. CASE BeginFlush \/ Put \/ EnforceCap \/ EndFlush \/ Tick \/ UNCHANGED vars
  BY <1>1, <1>5 DEF BeginFlush, Put, EnforceCap, EndFlush, Tick, vars, probeVars
<1>6. CASE Gate \/ Crash
  BY <1>1, <1>2, <1>6 DEF Gate, Crash
<1>7. CASE (\E status \in Statuses : PostBatch(status) \/ \E f \in queue : DrainEntry(f, status))
           \/ (\E b \in late : Arrive(b)) \/ (\E f \in spool : Rot(f))
  BY <1>1, <1>7 DEF PostBatch, DrainEntry, Arrive, Rot, probeVars
<1> QED BY <1>3, <1>4, <1>5, <1>6, <1>7 DEF Next, Flush

-----------------------------------------------------------------------------
(* Every batch stored once.                                                *)

LEMMA RowsStep == TypeOK /\ RowsDistinct /\ [Next]_vars => RowsDistinct'
<1> SUFFICES ASSUME TypeOK, RowsDistinct, [Next]_vars PROVE RowsDistinct'
  OBVIOUS
<1>1. CASE UNCHANGED stored
  BY <1>1 DEF RowsDistinct
<1>2. ASSUME NEW status, NEW f \in queue, DrainEntry(f, status) PROVE RowsDistinct'
  <2>1. f.batch \in DOMAIN built /\ Post(f.batch, status)
    BY <1>2 DEF TypeOK, File, DrainEntry
  <2> QED BY <2>1, PostFacts
<1>3. ASSUME NEW status, PostBatch(status) PROVE RowsDistinct'
  <2>1. hand \in DOMAIN built /\ Post(hand, status)
    BY <1>3 DEF TypeOK, PostBatch
  <2> QED BY <2>1, PostFacts
<1>4. ASSUME NEW b \in late, Arrive(b) PROVE RowsDistinct'
  <2>1. b \in DOMAIN built /\ stored' = Kept(b)
    BY <1>4 DEF TypeOK, Arrive
  <2> QED BY <2>1, KeptAdds DEF RowsDistinct
<1>5. CASE \/ BeginFlush \/ Gate \/ Put \/ EnforceCap \/ EndFlush \/ Crash \/ Tick
           \/ UNCHANGED vars
  BY <1>1, <1>5 DEF BeginFlush, Gate, Put, EnforceCap, EndFlush, Crash, Tick, vars, gatewayVars
<1>6. CASE \/ \E m \in Models : Build(m)
           \/ \E m \in Models, su \in Suites : AddResult(m, su)
           \/ \E f \in spool : Rot(f)
  BY <1>1, <1>6 DEF Build, AddResult, Rot, gatewayVars
<1> QED BY <1>2, <1>3, <1>4, <1>5, <1>6 DEF Next, Flush

-----------------------------------------------------------------------------
(* No batch lost in silence.                                               *)

\* A batch that is neither touched nor forgotten by a step stays accounted for.
LEMMA LossStep == TypeOK /\ NoSilentLoss /\ [Next]_vars => NoSilentLoss'
<1> SUFFICES ASSUME TypeOK, NoSilentLoss, [Next]_vars PROVE NoSilentLoss'
  OBVIOUS
<1> USE DEF NoSilentLoss, InSpool
<1>1. CASE BeginFlush
  BY <1>1 DEF BeginFlush, gatewayVars
<1>2. ASSUME NEW status, NEW f \in queue, DrainEntry(f, status) PROVE NoSilentLoss'
  <2>1. f.batch \in DOMAIN built /\ Post(f.batch, status)
    BY <1>2 DEF TypeOK, File, DrainEntry
  <2>2. /\ ToSet(stored) \subseteq ToSet(stored')
        /\ Delivered(status) => f.batch \in ToSet(stored')
    BY <2>1, PostFacts
  <2> QED BY <1>2, <2>2 DEF DrainEntry, Without
<1>3. ASSUME NEW m \in Models, Build(m) PROVE NoSilentLoss'
  <2>1. CASE Mixed(m)
    BY <1>3, <2>1 DEF Build, gatewayVars
  <2>2. CASE ~ Mixed(m)
    <3>1. built' = Append(built, [model |-> m, results |-> staged[m]])
      BY <1>3, <2>2 DEF Build
    <3>2. DOMAIN built' = DOMAIN built \cup {Len(built')}
      BY <3>1 DEF TypeOK
    <3>3. Len(built') = hand' \/ Len(built') \in dropped'
      BY <1>3, <2>2 DEF Build
    <3>4. hand \notin DOMAIN built
      BY <1>3 DEF TypeOK, Build, NoBatch
    <3> QED BY <1>3, <2>2, <3>2, <3>3, <3>4 DEF Build, gatewayVars
  <2> QED BY <2>1, <2>2
<1>4. ASSUME NEW status, PostBatch(status) PROVE NoSilentLoss'
  <2>1. hand \in DOMAIN built /\ Post(hand, status)
    BY <1>4 DEF TypeOK, PostBatch
  <2>2. /\ ToSet(stored) \subseteq ToSet(stored')
        /\ Delivered(status) => hand \in ToSet(stored')
    BY <2>1, PostFacts
  <2> QED BY <1>4, <2>2 DEF PostBatch
<1>5. CASE Put
  <2> DEFINE file == [batch |-> hand, at |-> clock, sound |-> TRUE]
  <2>1. file.batch = hand /\ spool' = spool \cup {file}
    BY <1>5 DEF Put
  <2> HIDE DEF file
  <2> QED BY <1>5, <2>1 DEF Put, gatewayVars
<1>6. CASE EnforceCap
  BY <1>6 DEF EnforceCap, gatewayVars
<1>7. ASSUME NEW f \in spool, Rot(f) PROVE NoSilentLoss'
  <2> DEFINE file == [f EXCEPT !.sound = FALSE]
  <2>1. file.batch = f.batch
    BY DEF TypeOK, File
  <2>2. spool' = (spool \ {f}) \cup {file}
    BY <1>7 DEF Rot
  <2> HIDE DEF file
  <2> QED BY <1>7, <2>1, <2>2 DEF Rot, probeVars
<1>8. ASSUME NEW b \in late, Arrive(b) PROVE NoSilentLoss'
  <2>1. b \in DOMAIN built /\ stored' = Kept(b)
    BY <1>8 DEF TypeOK, Arrive
  <2> DEFINE kept == Kept(b)
  <2>2. ToSet(stored) \subseteq ToSet(kept) /\ stored' = kept
    BY <2>1, KeptAdds DEF ToSet
  <2> HIDE DEF kept
  <2>3. ToSet(stored) \subseteq ToSet(stored')
    BY <2>2
  <2> QED BY <1>8, <2>3 DEF Arrive, probeVars
<1>9. CASE Crash
  BY <1>9 DEF Crash, gatewayVars
<1>10. CASE Gate \/ EndFlush \/ Tick \/ UNCHANGED vars
  BY <1>10 DEF Gate, EndFlush, Tick, vars, probeVars, gatewayVars
<1>11. ASSUME NEW m \in Models, NEW su \in Suites, AddResult(m, su) PROVE NoSilentLoss'
  BY <1>11 DEF AddResult, gatewayVars
<1> QED BY <1>1, <1>2, <1>3, <1>4, <1>5, <1>6, <1>7, <1>8, <1>9, <1>10, <1>11
        DEF Next, Flush

-----------------------------------------------------------------------------
(* The size of the spool.                                                  *)

\* A set with no more members than a bound, and a step that adds one.
LEMMA Fewer ==
  ASSUME NEW S, IsFiniteSet(S), NEW T, T \subseteq S
  PROVE  /\ IsFiniteSet(T) /\ Cardinality(T) \in Nat
         /\ Cardinality(S) \in Nat /\ Cardinality(T) <= Cardinality(S)
  BY FS_Subset, FS_CardinalityType

LEMMA OneWider ==
  ASSUME NEW S, IsFiniteSet(S), NEW x
  PROVE  /\ IsFiniteSet(S \cup {x}) /\ Cardinality(S \cup {x}) \in Nat
         /\ Cardinality(S) \in Nat /\ Cardinality(S \cup {x}) <= Cardinality(S) + 1
<1>1. Cardinality(S) \in Nat
  BY FS_CardinalityType
<1>2. CASE x \in S
  <2> DEFINE T == S \cup {x}
  <2>1. T = S
    BY <1>2
  <2> HIDE DEF T
  <2>2. IsFiniteSet(T) /\ Cardinality(T) \in Nat /\ Cardinality(T) <= Cardinality(S) + 1
    BY <1>1, <2>1
  <2> QED BY <1>1, <2>2 DEF T
<1>3. CASE x \notin S
  <2> DEFINE T == S \cup {x}
  <2>1. IsFiniteSet(T) /\ Cardinality(T) = Cardinality(S) + 1
    BY <1>3, FS_AddElement
  <2> HIDE DEF T
  <2>2. IsFiniteSet(T) /\ Cardinality(T) \in Nat /\ Cardinality(T) <= Cardinality(S) + 1
    BY <1>1, <2>1
  <2> QED BY <1>1, <2>2 DEF T
<1> QED BY <1>2, <1>3

LEMMA SpoolStep == TypeOK /\ SpoolInv /\ [Next]_vars => SpoolInv'
<1> SUFFICES ASSUME TypeOK, SpoolInv, [Next]_vars PROVE SpoolInv'
  OBVIOUS
<1> USE DeliveryAssumption
<1>0. /\ IsFiniteSet(spool) /\ Cardinality(spool) \in Nat /\ stops \in Nat
      /\ Cardinality(spool) <= MaxFiles + stops + (IF pc = "cap" THEN 1 ELSE 0)
  BY FS_CardinalityType DEF SpoolInv, SpoolBounded, TypeOK
<1>1. CASE spool' \subseteq spool /\ stops' = stops /\ pc # "cap"
  <2>1. /\ IsFiniteSet(spool') /\ Cardinality(spool') \in Nat
        /\ Cardinality(spool') <= Cardinality(spool)
    BY <1>0, <1>1, Fewer
  <2> QED BY <1>0, <1>1, <2>1 DEF SpoolInv, SpoolBounded
<1>2. CASE UNCHANGED <<spool, stops, pc>>
  BY <1>0, <1>2 DEF SpoolInv, SpoolBounded
<1>3. CASE Put
  <2>1. spool' = spool \cup {[batch |-> hand, at |-> clock, sound |-> TRUE]}
    BY <1>3 DEF Put
  <2>2. IsFiniteSet(spool') /\ Cardinality(spool') \in Nat /\ Cardinality(spool') <= Cardinality(spool) + 1
    BY <1>0, <2>1, OneWider
  <2>3. pc = "put" /\ pc' = "cap" /\ stops' = stops
    BY <1>3 DEF Put
  <2> QED BY <1>0, <2>2, <2>3 DEF SpoolInv, SpoolBounded
<1>4. CASE EnforceCap
  <2>1. PICK gone \in SUBSET spool : Cardinality(gone) = Excess /\ spool' = spool \ gone
    BY <1>4 DEF EnforceCap
  <2>2. /\ IsFiniteSet(spool') /\ Cardinality(spool') = Cardinality(spool) - Cardinality(spool \cap gone)
    BY <1>0, <2>1, FS_Difference
  <2>3. spool \cap gone = gone
    BY <2>1
  <2>4. Cardinality(spool') <= MaxFiles /\ Cardinality(spool') \in Int
    <3>1. Cardinality(spool') = Cardinality(spool) - Excess
      BY <2>1, <2>2, <2>3
    <3> QED BY <1>0, <3>1 DEF Excess
  <2>5. stops' = stops /\ pc' = "send"
    BY <1>4 DEF EnforceCap
  <2> QED BY <1>0, <2>2, <2>4, <2>5 DEF SpoolInv, SpoolBounded
<1>5. ASSUME NEW f \in spool, Rot(f) PROVE SpoolInv'
  <2>1. spool' = (spool \ {f}) \cup {[f EXCEPT !.sound = FALSE]}
    BY <1>5 DEF Rot
  <2>2. IsFiniteSet(spool \ {f}) /\ Cardinality(spool \ {f}) = Cardinality(spool) - 1
    BY <1>0, FS_RemoveElement
  <2> DEFINE kept == spool \ {f}
             file == [f EXCEPT !.sound = FALSE]
  <2>3. IsFiniteSet(spool') /\ Cardinality(spool') \in Nat /\ Cardinality(spool') <= Cardinality(spool)
    <3>1. IsFiniteSet(kept) /\ Cardinality(kept) = Cardinality(spool) - 1 /\ spool' = kept \cup {file}
      BY <2>1, <2>2
    <3> HIDE DEF kept, file
    <3>2. /\ IsFiniteSet(kept \cup {file}) /\ Cardinality(kept \cup {file}) \in Nat
          /\ Cardinality(kept \cup {file}) <= Cardinality(kept) + 1
      BY <3>1, OneWider
    <3> QED BY <1>0, <3>1, <3>2
  <2>4. pc' = pc /\ stops' = stops
    BY <1>5 DEF Rot, probeVars
  <2> QED BY <1>0, <2>3, <2>4 DEF SpoolInv, SpoolBounded
<1>6. CASE Crash
  BY <1>0, <1>6 DEF Crash, SpoolInv, SpoolBounded
<1>7. CASE BeginFlush \/ Gate \/ EndFlush
  BY <1>1, <1>7 DEF BeginFlush, Gate, EndFlush
<1>8. CASE Tick \/ UNCHANGED vars
  BY <1>2, <1>8 DEF Tick, vars, probeVars
<1>9. ASSUME NEW status, NEW f \in queue, DrainEntry(f, status) PROVE SpoolInv'
  <2>1. spool' \subseteq spool /\ stops' = stops /\ pc # "cap"
    BY <1>9 DEF DrainEntry, Without
  <2> QED BY <1>1, <2>1
<1>10. ASSUME NEW status, PostBatch(status) PROVE SpoolInv'
  BY <1>1, <1>10 DEF PostBatch
<1>11. ASSUME NEW m \in Models, Build(m) PROVE SpoolInv'
  BY <1>1, <1>11 DEF Build
<1>12. ASSUME NEW m \in Models, NEW su \in Suites, AddResult(m, su) PROVE SpoolInv'
  BY <1>2, <1>12 DEF AddResult
<1>13. ASSUME NEW b \in late, Arrive(b) PROVE SpoolInv'
  BY <1>2, <1>13 DEF Arrive, probeVars
<1> QED BY <1>3, <1>4, <1>5, <1>6, <1>7, <1>8, <1>9, <1>10, <1>11, <1>12, <1>13
        DEF Next, Flush

-----------------------------------------------------------------------------
(* The theorems.                                                           *)

IInv == TypeOK /\ Fresh /\ RowsDistinct /\ NoSilentLoss /\ SpoolInv

\* What delivery keeps through every fault, crash and restart: results in one
\* place, rows once, batches accounted for and a bounded spool.
THEOREM Invariance == Spec => []IInv
<1>1. Init => IInv
  <2> SUFFICES ASSUME Init PROVE IInv
    OBVIOUS
  <2>1. TypeOK
    BY TypeInit
  <2>2. Fresh /\ RowsDistinct /\ NoSilentLoss
    BY DEF Init, Fresh, RowsDistinct, NoSilentLoss
  <2>3. spool = {} /\ stops = 0
    BY DEF Init
  <2>4. IsFiniteSet({}) /\ Cardinality({}) = 0
    BY FS_EmptySet
  <2>5. SpoolInv
    BY <2>3, <2>4, DeliveryAssumption DEF SpoolInv, SpoolBounded
  <2> QED BY <2>1, <2>2, <2>5 DEF IInv
<1>2. IInv /\ [Next]_vars => IInv'
  BY TypeStep, FreshStep, RowsStep, LossStep, SpoolStep DEF IInv
<1> QED BY <1>1, <1>2, PTL DEF Spec

\* ProbeSDK.flush, Aggregator and Spool keep their types, for any models,
\* suites and bounds.
THEOREM TypeCorrect == Spec => []TypeOK
<1>1. IInv => TypeOK
  BY DEF IInv
<1> QED BY <1>1, Invariance, PTL

\* No two rows of the gateway hold the same result, however often batches are
\* re-sent, delayed or spooled after a lost reply.
THEOREM CountedCorrect == Spec => []CountedOnce
<1>1. IInv => CountedOnce
  BY DEF IInv, TypeOK, Fresh, RowsDistinct, CountedOnce
<1> QED BY <1>1, Invariance, PTL

\* Whatever was signed is stored, on disk, in hand, or was given up with a line
\* in the log.
THEOREM LossCorrect == Spec => []NoSilentLoss
<1>1. IInv => NoSilentLoss
  BY DEF IInv
<1> QED BY <1>1, Invariance, PTL

\* The spool exceeds its cap by at most one file for every crash and one that
\* is about to be evicted.
THEOREM SpoolCorrect == Spec => []SpoolBounded
<1>1. IInv => SpoolBounded
  BY DEF IInv, SpoolInv
<1> QED BY <1>1, Invariance, PTL

-----------------------------------------------------------------------------
(* The strict runner.                                                      *)
PromptIds == {p.id : p \in ToSet(RunnerSuite)}

-----------------------------------------------------------------------------
(* Facts about the operators.                                              *)

\* A prompt that is answered gives a result of its own.
LEMMA OneResult ==
  ASSUME NEW p, NEW m, NEW v, NEW x, ExecuteOne(p, SuiteVersion, m, v, x).ok
  PROVE  ExecuteOne(p, SuiteVersion, m, v, x).result.prompt_id = p.id
<1> DEFINE r == IF m THEN MockAnswer(p)
                ELSE IF v = "complete" THEN Complete(x)
                ELSE CompleteEx(x, IsTool(p), FALSE)
           one == ExecuteOne(p, SuiteVersion, m, v, x)
<1>1. one = IF r.ok THEN [ok |-> TRUE, result |-> Derived(p, SuiteVersion, r)]
            ELSE [ok |-> FALSE, error |-> r]
  BY DEF ExecuteOne
<1> HIDE DEF r
<1>2. r.ok
  BY <1>1
<1>3. one.result = Derived(p, SuiteVersion, r)
  BY <1>1, <1>2
<1>4. Derived(p, SuiteVersion, r).prompt_id = p.id
  BY DEF Derived, CanaryResult
<1> QED BY <1>3, <1>4

\* Waits are integers and never exceed what is left of the budget.
LEMMA WaitBound ==
  ASSUME NEW n \in Nat, n # 0, spent \in Nat
  PROVE  Wait(n) \in Int /\ spent + Wait(n) <= MaxBackoffMs
<1>1. 2 ^ (n - 1) \in Int
  BY SMT
<1>2. Backoff(n) \in Int
  BY <1>1, RunnerAssumption DEF Backoff
<1> QED BY <1>2, RunnerAssumption DEF Wait, Least

LEMMA DelayIsNat == NotNegative(DelayMs) \in Nat /\ NotNegative(MaxBackoffMs) \in Nat
  BY RunnerAssumption DEF NotNegative

LEMMA SuiteLength == Len(RunnerSuite) \in Nat
  BY RunnerAssumption

LEMMA PromptOfSuite ==
  ASSUME NEW i \in 1 .. Len(RunnerSuite)
  PROVE  RunnerSuite[i] \in ToSet(RunnerSuite) /\ RunnerSuite[i].id \in PromptIds
<1>1. DOMAIN RunnerSuite = 1 .. Len(RunnerSuite)
  BY RunnerAssumption
<1> QED BY <1>1 DEF ToSet, PromptIds

\* A pause more, and no more pauses than gaps between prompts.
LEMMA OnePauseMore ==
  ASSUME NEW d \in Nat, NEW i \in Nat, i >= 2 PROVE (i - 2) * d + d = (i - 1) * d
  BY SMT

LEMMA FewerPauses ==
  ASSUME NEW d \in Nat, NEW i \in Nat, NEW j \in Nat, i <= j PROVE i * d <= j * d
  BY SMT

-----------------------------------------------------------------------------
(* Types.                                                                  *)

LEMMA TypesInit == RunnerInit => RunnerTypeOK
<1>1. RunnerInit => mock \in BOOLEAN
  BY Zenon DEF RunnerInit
<1>2. <<>> \in Seq(Gathered) /\ <<>> \in Seq({p.id : p \in ToSet(RunnerSuite)})
  OBVIOUS
<1> QED
  BY <1>1, <1>2, SuiteLength, SMTT(30) DEF RunnerTypeOK, RunnerInit, Providers

LEMMA TypesStart == RunnerTypeOK /\ StartRun => RunnerTypeOK'
  BY SuiteLength, SMTT(30) DEF RunnerTypeOK, StartRun, Providers

LEMMA TypesEnd == EndRun => RunnerTypeOK'
<1>1. EndRun => mock' \in BOOLEAN
  BY Zenon DEF EndRun
<1>2. <<>> \in Seq(Gathered) /\ <<>> \in Seq({p.id : p \in ToSet(RunnerSuite)})
  OBVIOUS
<1> QED
  BY <1>1, <1>2, SuiteLength, SMTT(30) DEF RunnerTypeOK, EndRun, Providers

LEMMA TypesPace == RunnerTypeOK /\ Pace => RunnerTypeOK'
  BY SuiteLength, RunnerAssumption, SMTT(30) DEF RunnerTypeOK, Pace, Pauses

LEMMA TypesFinish == RunnerTypeOK /\ Finish => RunnerTypeOK'
  BY SuiteLength, SMTT(30) DEF RunnerTypeOK, Finish

LEMMA TypesAnswered ==
  ASSUME NEW x \in Exchanges, RunnerTypeOK, Answered(x)
  PROVE  RunnerTypeOK'
<1> DEFINE one == ExecuteOne(Current, SuiteVersion, mock, provider, x)
<1>1. stage = "call" /\ index \in 1 .. Len(RunnerSuite)
  BY SuiteLength DEF RunnerTypeOK, Answered
<1>2. Current \in ToSet(RunnerSuite)
  BY <1>1, PromptOfSuite DEF Current
<1>3. one.result \in Gathered
  BY <1>2 DEF Gathered, RunnerTypeOK, Answered
<1>4. results' = Append(results, one.result)
  BY DEF Answered
<1> HIDE DEF one
<1>5. results' \in Seq(Gathered)
  BY <1>3, <1>4 DEF RunnerTypeOK
<1> QED
  BY <1>1, <1>5, SuiteLength, SMTT(30) DEF RunnerTypeOK, Answered

LEMMA TypesFailed ==
  ASSUME NEW x \in Exchanges, RunnerTypeOK, Failed(x)
  PROVE  RunnerTypeOK'
<1> DEFINE one == ExecuteOne(Current, SuiteVersion, mock, provider, x)
<1> HIDE DEF one
<1>1. stage = "call" /\ index \in 1 .. Len(RunnerSuite) /\ attempt' = attempt + 1
  BY SuiteLength DEF RunnerTypeOK, Failed
<1>2. Current.id \in PromptIds
  BY <1>1, PromptOfSuite DEF Current
<1>3. UNCHANGED <<mock, provider, results>>
  BY DEF Failed
<1>4. CASE GivesUp(one.error, attempt')
  <2>1. /\ failed' = Append(failed, Current.id)
        /\ index' = index + 1 /\ stage' = "pace" /\ UNCHANGED <<spent, slept>>
    BY <1>4 DEF Failed, one
  <2>2. failed' \in Seq(PromptIds)
    BY <1>2, <2>1 DEF RunnerTypeOK, PromptIds
  <2> QED
    BY <1>1, <1>3, <2>1, <2>2, SuiteLength, SMTT(30) DEF RunnerTypeOK, PromptIds
<1>5. CASE ~GivesUp(one.error, attempt')
  <2>1. /\ spent' = spent + Wait(attempt') /\ slept' = slept + Wait(attempt')
        /\ UNCHANGED <<failed, index, stage>>
    BY <1>5 DEF Failed, one
  <2>2. attempt' \in Nat /\ attempt' # 0 /\ spent \in Nat /\ slept \in Nat
    BY <1>1, SMT DEF RunnerTypeOK
  <2>3. Wait(attempt') \in Int
    BY <2>2, WaitBound
  <2>4. ~(Wait(attempt') <= 0)
    BY <1>5 DEF GivesUp
  <2>5. spent' \in Nat /\ slept' \in Nat
    BY <2>1, <2>2, <2>3, <2>4, SMT
  <2> QED
    BY <1>1, <1>3, <2>1, <2>2, <2>5 DEF RunnerTypeOK
<1> QED BY <1>4, <1>5

LEMMA TypesStep == RunnerTypeOK /\ [RunnerNext]_runnerVars => RunnerTypeOK'
<1> SUFFICES ASSUME RunnerTypeOK, [RunnerNext]_runnerVars PROVE RunnerTypeOK'
  OBVIOUS
<1>1. CASE UNCHANGED runnerVars
  BY <1>1 DEF RunnerTypeOK, runnerVars
<1>2. CASE RunnerNext
  BY <1>2, TypesStart, TypesEnd, TypesPace, TypesFinish, TypesAnswered, TypesFailed
  DEF RunnerNext, Serve
<1> QED BY <1>1, <1>2

\* The variables of the runner keep their types, whatever the endpoint does.
THEOREM RunnerTypes == RunnerSpec => []RunnerTypeOK
  BY TypesInit, TypesStep, PTL DEF RunnerSpec

-----------------------------------------------------------------------------
(* The time a run adds.                                                    *)

DelayBound == NotNegative(DelayMs)

\* A prompt reached has cost the pauses before it and the waits so far.
TimeAccounted ==
  /\ spent <= NotNegative(MaxBackoffMs)
  /\ stage = "pace" /\ index = 1 => slept <= spent
  /\ stage = "pace" /\ index >= 2 => slept <= spent + (index - 2) * DelayBound
  /\ stage = "call" => slept <= spent + (index - 1) * DelayBound
  /\ AddedTimeBounded

LEMMA DelayBoundIsNat == DelayBound \in Nat /\ NotNegative(MaxBackoffMs) \in Nat
  BY DelayIsNat DEF DelayBound

LEMMA BudgetCovers ==
  ASSUME NEW k \in Nat, NEW w \in Nat, NEW t \in Nat,
         k = 0 \/ k <= Len(RunnerSuite) - 1,
         w <= NotNegative(MaxBackoffMs), t <= w + k * DelayBound
  PROVE  t <= PacingBudget
<1> DEFINE n == Len(RunnerSuite)
           M == NotNegative(MaxBackoffMs)
<1>1. n \in Nat /\ DelayBound \in Nat /\ M \in Nat
  BY SuiteLength, DelayBoundIsNat
<1>2. PacingBudget = (IF n <= 1 THEN 0 ELSE (n - 1) * DelayBound) + M
  BY DEF PacingBudget, DelayBound
<1> HIDE DEF n, M
<1>3. CASE k = 0
  <2>1. k * DelayBound = 0
    BY <1>1, <1>3, SMT
  <2>2. n > 1 => (n - 1) * DelayBound \in Nat
    <3> SUFFICES ASSUME n > 1 PROVE (n - 1) * DelayBound \in Nat
      OBVIOUS
    <3>1. n - 1 \in Nat
      BY <1>1, SMT
    <3> QED BY <1>1, <3>1, SMT
  <2> QED BY <1>1, <1>2, <2>1, <2>2, SMT DEF M
<1>4. CASE k # 0
  <2>1. n - 1 \in Nat /\ k <= n - 1 /\ n > 1
    BY <1>1, <1>4, SMT DEF n
  <2>2. k * DelayBound <= (n - 1) * DelayBound
    BY <1>1, <2>1, FewerPauses
  <2>3. k * DelayBound \in Nat /\ (n - 1) * DelayBound \in Nat
    BY <1>1, <2>1, SMT
  <2> QED BY <1>1, <1>2, <2>1, <2>2, <2>3, SMT DEF M
<1> QED BY <1>3, <1>4

LEMMA TimeInit == RunnerInit => TimeAccounted
<1> SUFFICES ASSUME RunnerInit PROVE TimeAccounted
  OBVIOUS
<1>1. slept = 0 /\ spent = 0 /\ stage = "idle"
  BY DEF RunnerInit
<1>2. 0 * DelayBound = 0
  BY DelayBoundIsNat, SMT
<1>3. slept <= PacingBudget
  BY <1>1, <1>2, DelayBoundIsNat, BudgetCovers
<1> QED BY <1>1, <1>3, DelayBoundIsNat DEF TimeAccounted, AddedTimeBounded

\* A run that starts, or is gone, has added nothing.
LEMMA TimeReset ==
  ASSUME slept' = 0, spent' = 0, index' = 1, stage' # "call"
  PROVE  TimeAccounted'
<1>1. 0 * DelayBound = 0
  BY DelayBoundIsNat, SMT
<1>2. 0 <= PacingBudget
  BY <1>1, DelayBoundIsNat, BudgetCovers
<1> QED BY <1>2, DelayBoundIsNat DEF TimeAccounted, AddedTimeBounded

LEMMA TimePace == RunnerTypeOK /\ TimeAccounted /\ Pace => TimeAccounted'
<1> SUFFICES ASSUME RunnerTypeOK, TimeAccounted, Pace PROVE TimeAccounted'
  OBVIOUS
<1>1. /\ index \in Nat /\ index >= 1 /\ index <= Len(RunnerSuite)
      /\ spent \in Nat /\ slept \in Nat /\ slept' \in Nat
  BY TypesPace, SuiteLength DEF RunnerTypeOK, Pace
<1>2. stage = "pace" /\ stage' = "call" /\ index' = index /\ spent' = spent
  BY DEF Pace
<1>3. slept' <= spent + (index - 1) * DelayBound
  <2>1. CASE index = 1
    <3>1. slept' = slept
      BY <2>1, <1>1, SMT DEF Pace, Pauses
    <3>2. (index - 1) * DelayBound = 0
      BY <2>1, DelayBoundIsNat, SMT
    <3> QED BY <1>1, <1>2, <2>1, <3>1, <3>2 DEF TimeAccounted
  <2>2. CASE index >= 2
    <3>1. slept' <= slept + DelayBound
      BY <1>1, RunnerAssumption, SMT DEF Pace, Pauses, DelayBound, NotNegative
    <3>2. (index - 2) * DelayBound + DelayBound = (index - 1) * DelayBound
      BY <1>1, <2>2, DelayBoundIsNat, OnePauseMore
    <3>3. slept <= spent + (index - 2) * DelayBound
      BY <1>2, <2>2 DEF TimeAccounted
    <3>4. (index - 2) * DelayBound \in Int /\ (index - 1) * DelayBound \in Int
      BY <1>1, DelayBoundIsNat, SMT
    <3> QED BY <1>1, <3>1, <3>2, <3>3, <3>4, DelayBoundIsNat, SMT
  <2> QED BY <1>1, <2>1, <2>2, SMT
<1>4. slept' <= PacingBudget
  <2>1. index - 1 \in Nat /\ index - 1 <= Len(RunnerSuite) - 1
    BY <1>1, SuiteLength, SMT
  <2> QED BY <1>1, <1>3, <2>1, BudgetCovers DEF TimeAccounted
<1> QED BY <1>2, <1>3, <1>4 DEF TimeAccounted, AddedTimeBounded

LEMMA TimeAnswered ==
  ASSUME NEW x \in Exchanges, RunnerTypeOK, TimeAccounted, Answered(x)
  PROVE  TimeAccounted'
<1>1. /\ stage = "call" /\ stage' = "pace" /\ index' = index + 1
      /\ UNCHANGED <<spent, slept>>
  BY DEF Answered
<1>2. index \in Nat /\ index >= 1 /\ index' - 2 = index - 1 /\ index' # 1
  BY <1>1, SuiteLength, SMT DEF RunnerTypeOK
<1>3. AddedTimeBounded'
  BY <1>1 DEF TimeAccounted, AddedTimeBounded
<1> QED BY <1>1, <1>2, <1>3 DEF TimeAccounted

LEMMA TimeFailed ==
  ASSUME NEW x \in Exchanges, RunnerTypeOK, TimeAccounted, Failed(x)
  PROVE  TimeAccounted'
<1> DEFINE one == ExecuteOne(Current, SuiteVersion, mock, provider, x)
<1> HIDE DEF one
<1>1. /\ index \in Nat /\ index >= 1 /\ index <= Len(RunnerSuite)
      /\ spent \in Nat /\ slept \in Nat /\ stage = "call"
  BY SuiteLength DEF RunnerTypeOK, Failed
<1>2. slept <= spent + (index - 1) * DelayBound
  BY <1>1 DEF TimeAccounted
<1>3. CASE GivesUp(one.error, attempt')
  <2>1. index' = index + 1 /\ stage' = "pace" /\ UNCHANGED <<spent, slept>>
    BY <1>3 DEF Failed, one
  <2>2. index' - 2 = index - 1 /\ index' # 1
    BY <1>1, <2>1, SMT
  <2> QED BY <1>2, <2>1, <2>2 DEF TimeAccounted, AddedTimeBounded
<1>4. CASE ~GivesUp(one.error, attempt')
  <2>1. /\ spent' = spent + Wait(attempt') /\ slept' = slept + Wait(attempt')
        /\ UNCHANGED <<failed, index, stage>> /\ attempt' = attempt + 1
    BY <1>4 DEF Failed, one
  <2>2. attempt' \in Nat /\ attempt' # 0
    BY <2>1, SMT DEF RunnerTypeOK
  <2>3. Wait(attempt') \in Int /\ spent + Wait(attempt') <= MaxBackoffMs
    BY <1>1, <2>2, WaitBound
  <2>4. ~(Wait(attempt') <= 0)
    BY <1>4 DEF GivesUp
  <2>5. spent' \in Nat /\ slept' \in Nat /\ spent' <= NotNegative(MaxBackoffMs)
    BY <1>1, <2>1, <2>3, <2>4, RunnerAssumption, SMT DEF NotNegative
  <2>6. (index - 1) * DelayBound \in Int
    BY <1>1, DelayBoundIsNat, SMT
  <2>7. slept' <= spent' + (index - 1) * DelayBound
    BY <1>1, <1>2, <2>1, <2>3, <2>6, SMT
  <2>8. slept' <= PacingBudget
    <3>1. index - 1 \in Nat /\ index - 1 <= Len(RunnerSuite) - 1
      BY <1>1, SuiteLength, SMT
    <3> QED BY <2>5, <2>7, <3>1, BudgetCovers
  <2> QED BY <1>1, <2>1, <2>5, <2>7, <2>8 DEF TimeAccounted, AddedTimeBounded
<1> QED BY <1>3, <1>4

LEMMA TimeFinish == TimeAccounted /\ Finish => TimeAccounted'
  BY DEF TimeAccounted, Finish, AddedTimeBounded

LEMMA TimeStep ==
  RunnerTypeOK /\ TimeAccounted /\ [RunnerNext]_runnerVars => TimeAccounted'
<1> SUFFICES ASSUME RunnerTypeOK, TimeAccounted, [RunnerNext]_runnerVars
             PROVE  TimeAccounted'
  OBVIOUS
<1>1. CASE UNCHANGED runnerVars
  BY <1>1 DEF TimeAccounted, AddedTimeBounded, runnerVars
<1>2. CASE StartRun
  BY <1>2, TimeReset DEF StartRun
<1>3. CASE EndRun
  BY <1>3, TimeReset DEF EndRun
<1>4. CASE Serve
  BY <1>4, TimePace, TimeAnswered, TimeFailed, TimeFinish DEF Serve
<1> QED BY <1>1, <1>2, <1>3, <1>4 DEF RunnerNext

\* pacing_budget_ms is an upper bound of the time execute_canary_strict adds,
\* for every suite, delay, retry count and backoff, and whatever is answered.
THEOREM PacingBudgetHolds == RunnerSpec => []AddedTimeBounded
<1>1. RunnerInit => RunnerTypeOK /\ TimeAccounted
  BY TypesInit, TimeInit
<1>2. RunnerTypeOK /\ TimeAccounted /\ [RunnerNext]_runnerVars
        => (RunnerTypeOK /\ TimeAccounted)'
  BY TypesStep, TimeStep
<1>3. TimeAccounted => AddedTimeBounded
  BY DEF TimeAccounted
<1> QED BY <1>1, <1>2, <1>3, PTL DEF RunnerSpec

-----------------------------------------------------------------------------
(* Whole runs.                                                             *)

\* A result that belongs to its prompt.
Fits(r, p) ==
  /\ r.prompt_id = p.id
  /\ r.tool_call_valid # None <=> IsTool(p)
  /\ r.json_valid => p.category = "structured_output"

FitSuite(rs) == \A i \in DOMAIN rs : Fits(rs[i], RunnerSuite[i])

LEMMA DerivedFits ==
  ASSUME NEW p, NEW r PROVE Fits(Derived(p, SuiteVersion, r), p)
<1> DEFINE d == Derived(p, SuiteVersion, r)
<1>1. CASE IsTool(p)
  <2>1. d = CanaryResult(p, SuiteVersion,
              IF r.tool_calls # None THEN r.tool_calls ELSE <<r.text>>,
              FALSE, IsToolCallValid(r.tool_calls), r.output_tokens, r.reasoning_tokens)
    BY <1>1 DEF Derived
  <2>2. /\ d.prompt_id = p.id /\ d.json_valid = FALSE
        /\ d.tool_call_valid = IsToolCallValid(r.tool_calls)
    BY <2>1 DEF CanaryResult
  <2>3. IsToolCallValid(r.tool_calls) \in BOOLEAN
    BY DEF IsToolCallValid
  <2> QED BY <1>1, <2>2, <2>3, NoneAssumption DEF Fits
<1>2. CASE ~ IsTool(p)
  <2>1. d = CanaryResult(p, SuiteVersion, <<r.text>>, ScoredJson(p, r.text),
              None, r.output_tokens, r.reasoning_tokens)
    BY <1>2 DEF Derived
  <2>2. /\ d.prompt_id = p.id /\ d.json_valid = ScoredJson(p, r.text)
        /\ d.tool_call_valid = None
    BY <2>1 DEF CanaryResult
  <2>3. ScoredJson(p, r.text) => p.category = "structured_output"
    BY DEF ScoredJson
  <2> QED BY <1>2, <2>2, <2>3 DEF Fits
<1> QED BY <1>1, <1>2

LEMMA ResultFits ==
  ASSUME NEW p, NEW m, NEW v, NEW x, ExecuteOne(p, SuiteVersion, m, v, x).ok
  PROVE  Fits(ExecuteOne(p, SuiteVersion, m, v, x).result, p)
<1> DEFINE r == IF m THEN MockAnswer(p)
                ELSE IF v = "complete" THEN Complete(x)
                ELSE CompleteEx(x, IsTool(p), FALSE)
           one == ExecuteOne(p, SuiteVersion, m, v, x)
<1>1. one = IF r.ok THEN [ok |-> TRUE, result |-> Derived(p, SuiteVersion, r)]
            ELSE [ok |-> FALSE, error |-> r]
  BY DEF ExecuteOne
<1> HIDE DEF r
<1>2. r.ok
  BY <1>1
<1>3. one.result = Derived(p, SuiteVersion, r)
  BY <1>1, <1>2
<1> QED BY <1>3, DerivedFits

\* Every prompt passed has left a result or its id, and as long as none has
\* failed the results are those of the prompts, in order.
Matched ==
  /\ stage \in {"pace", "call"} => Len(results) + Len(failed) = index - 1
  /\ stage \in {"pace", "call", "returned"} /\ failed = <<>> => FitSuite(results)
  /\ stage = "returned" => failed = <<>> /\ Len(results) = Len(RunnerSuite)
  /\ stage = "partial" => failed # <<>>

LEMMA MatchedReset ==
  ASSUME stage' \in {"idle", "pace", "misconfigured"}, index' = 1,
         results' = <<>>, failed' = <<>>
  PROVE  Matched'
<1>1. Len(<<>>) = 0 /\ DOMAIN <<>> = {}
  OBVIOUS
<1> QED BY <1>1 DEF Matched, FitSuite

LEMMA MatchedAnswered ==
  ASSUME NEW x \in Exchanges, RunnerTypeOK, Matched, Answered(x)
  PROVE  Matched'
<1>1. PICK r : /\ r = ExecuteOne(Current, SuiteVersion, mock, provider, x).result
               /\ results' = Append(results, r)
  BY DEF Answered
<1>2. Fits(r, Current)
  BY <1>1, ResultFits DEF Answered
<1>3. /\ stage = "call" /\ stage' = "pace" /\ index' = index + 1 /\ failed' = failed
      /\ results \in Seq(Gathered) /\ failed \in Seq(PromptIds) /\ index \in Nat
  BY SuiteLength DEF Answered, RunnerTypeOK, PromptIds
<1>4. results' \in Seq(Gathered) /\ r \in Gathered
  <2>1. index \in 1 .. Len(RunnerSuite)
    BY SuiteLength DEF RunnerTypeOK, Answered
  <2>2. Current \in ToSet(RunnerSuite)
    BY <2>1, PromptOfSuite DEF Current
  <2>3. r \in Gathered
    BY <1>1, <2>2 DEF Gathered, RunnerTypeOK, Answered
  <2> QED BY <1>1, <1>3, <2>3
<1>5. Len(results') = Len(results) + 1
  BY <1>1, <1>3
<1>6. Len(results') + Len(failed') = index' - 1
  BY <1>3, <1>5 DEF Matched
<1>7. ASSUME failed = <<>>, NEW i \in DOMAIN results'
      PROVE  Fits(results'[i], RunnerSuite[i])
  <2>1. Len(results) = index - 1
    BY <1>3, <1>7 DEF Matched
  <2>2. CASE i = index
    <3>1. results'[i] = r
      BY <1>1, <1>3, <2>1, <2>2
    <3> QED BY <1>2, <2>2, <3>1 DEF Current
  <2>3. CASE i # index
    <3>1. i \in DOMAIN results /\ results'[i] = results[i]
      BY <1>1, <1>3, <1>4, <2>1, <2>3
    <3> QED BY <1>3, <1>7, <3>1 DEF Matched, FitSuite
  <2> QED BY <2>2, <2>3
<1> QED BY <1>3, <1>6, <1>7 DEF Matched, FitSuite

LEMMA MatchedFailed ==
  ASSUME NEW x \in Exchanges, RunnerTypeOK, Matched, Failed(x)
  PROVE  Matched'
<1> DEFINE one == ExecuteOne(Current, SuiteVersion, mock, provider, x)
<1> HIDE DEF one
<1>1. /\ stage = "call" /\ results' = results /\ index \in Nat
      /\ failed \in Seq(PromptIds) /\ results \in Seq(Gathered)
  BY SuiteLength DEF Failed, RunnerTypeOK, PromptIds
<1>2. CASE GivesUp(one.error, attempt')
  <2>1. /\ failed' = Append(failed, Current.id)
        /\ index' = index + 1 /\ stage' = "pace"
    BY <1>2 DEF Failed, one
  <2>2. Current.id \in PromptIds
    BY PromptOfSuite, SuiteLength DEF Current, RunnerTypeOK, Failed
  <2>3. Len(failed') = Len(failed) + 1 /\ failed' # <<>>
    BY <1>1, <2>1, <2>2
  <2>4. Len(results') + Len(failed') = index' - 1
    BY <1>1, <2>1, <2>3 DEF Matched
  <2> QED BY <2>1, <2>3, <2>4 DEF Matched
<1>3. CASE ~ GivesUp(one.error, attempt')
  <2>1. UNCHANGED <<failed, index, stage>>
    BY <1>3 DEF Failed, one
  <2> QED BY <1>1, <2>1 DEF Matched, FitSuite
<1> QED BY <1>2, <1>3

LEMMA MatchedFinish == ASSUME RunnerTypeOK, Matched, Finish PROVE Matched'
<1>1. /\ stage = "pace" /\ index = Len(RunnerSuite) + 1
      /\ UNCHANGED <<index, results, failed>>
      /\ results \in Seq(Gathered) /\ failed \in Seq(PromptIds)
  BY SuiteLength DEF Finish, RunnerTypeOK, PromptIds
<1>2. Len(results) + Len(failed) = Len(RunnerSuite)
  BY <1>1, SuiteLength DEF Matched
<1>3. CASE IsPartial
  <2>1. failed # <<>>
    <3>1. failed = <<>> => Len(failed) = 0
      OBVIOUS
    <3> QED BY <1>1, <1>2, <1>3, <3>1, SuiteLength DEF IsPartial
  <2>2. stage' = "partial"
    BY <1>3 DEF Finish
  <2> QED BY <1>1, <2>1, <2>2 DEF Matched
<1>4. CASE ~ IsPartial
  <2>1. stage' = "returned" /\ failed = <<>> /\ Len(results) = Len(RunnerSuite)
    BY <1>4 DEF Finish, IsPartial
  <2> QED BY <1>1, <2>1 DEF Matched, FitSuite
<1> QED BY <1>3, <1>4

LEMMA MatchedStep ==
  RunnerTypeOK /\ Matched /\ [RunnerNext]_runnerVars => Matched'
<1> SUFFICES ASSUME RunnerTypeOK, Matched, [RunnerNext]_runnerVars PROVE Matched'
  OBVIOUS
<1>1. CASE UNCHANGED runnerVars
  BY <1>1 DEF Matched, FitSuite, runnerVars
<1>2. CASE StartRun
  <2>1. stage' \in {"misconfigured", "pace"}
    BY <1>2 DEF StartRun
  <2> QED BY <1>2, <2>1, MatchedReset DEF StartRun
<1>3. CASE EndRun
  BY <1>3, MatchedReset DEF EndRun
<1>4. CASE Pace
  BY <1>4 DEF Pace, Matched, FitSuite
<1>5. CASE Serve
  BY <1>4, <1>5, MatchedAnswered, MatchedFailed, MatchedFinish DEF Serve
<1> QED BY <1>1, <1>2, <1>3, <1>5 DEF RunnerNext

RunnerInv == RunnerTypeOK /\ TimeAccounted /\ Matched

LEMMA RunnerInvInit == RunnerInit => RunnerInv
<1>1. RunnerInit => Matched
  BY MatchedReset DEF RunnerInit, Matched, FitSuite
<1> QED BY <1>1, TypesInit, TimeInit DEF RunnerInv

LEMMA RunnerInvStep == RunnerInv /\ [RunnerNext]_runnerVars => RunnerInv'
  BY TypesStep, TimeStep, MatchedStep DEF RunnerInv

LEMMA MatchedIsWhole ==
  ASSUME RunnerTypeOK, Matched, stage = "returned"
  PROVE  FitSuite(results) /\ IsWholeRun(results)
  BY DEF Matched, FitSuite, Fits, IsWholeRun

LEMMA MatchedAllOrNothing == RunnerTypeOK /\ Matched => AllOrNothing
  BY MatchedIsWhole DEF AllOrNothing, Matched

\* execute_canary_strict returns the whole suite, each result of its own
\* prompt, or raises with an id of a prompt that failed.
THEOREM AllOrNothingCorrect == RunnerSpec => []AllOrNothing
<1>1. RunnerInv => AllOrNothing
  BY MatchedAllOrNothing DEF RunnerInv
<1> QED BY <1>1, RunnerInvInit, RunnerInvStep, PTL DEF RunnerSpec

-----------------------------------------------------------------------------
(* The legs.                                                               *)

Runs == Seq(Gathered)

\* What is drained is what the spool holds, and what is sent or kept was made.
LegTypes ==
  /\ LegTypeOK
  /\ made \in Seq(Runs) /\ held \in Seq(Nat)
  /\ backlog \in Seq(Nat) /\ entries \in Seq(Nat)
  /\ leg = "drain" /\ entries # <<>> => entries = backlog

\* Every batch is a whole run.
Batches ==
  \A b \in DOMAIN made : IsWholeRun(made[b]) /\ FitSuite(made[b])

\* A run that has shown the weather, or is about to, has been stored; and a
\* run under way has no exit code yet.
Answerable ==
  /\ leg # "off" => exit # 0
  /\ leg = "weather" => Len(made) \in ToSet(held)
  /\ ExitIsTruth

Sorted(s) == \A i, j \in DOMAIN s : i < j => s[i] <= s[j]

\* A batch waits because a request failed; a run that goes on while one waits
\* has seen a second failure.  Until then the rows are in the order in which
\* the batches were made, and none is newer than the batch that waits.
InTurn ==
  KeepSpool =>
    /\ backlog # <<>> => trouble >= 1
    /\ backlog # <<>> /\ leg \in {"construct", "probe", "post"} => trouble >= 2
    /\ backlog # <<>> /\ leg = "drain" /\ entries = <<>> => trouble >= 2
    /\ trouble < 2 =>
         /\ Len(backlog) <= 1 /\ Sorted(held)
         /\ \A i \in DOMAIN held, j \in DOMAIN backlog : held[i] <= backlog[j]

LegInv == LegTypes /\ Batches /\ Answerable /\ InTurn

LEMMA SetOfSeq ==
  ASSUME NEW s \in Seq(Nat) PROVE \A x : x \in ToSet(s) <=> \E i \in DOMAIN s : s[i] = x
  BY DEF ToSet

\* The entry at the head of the spool is forgotten: the others are left.
LEMMA ForgetHead ==
  ASSUME backlog \in Seq(Nat), entries = backlog, entries # <<>>
  PROVE  Forgotten = Tail(backlog)
<1> DEFINE I == {i \in 1 .. Len(backlog) : backlog[i] = Entry}
<1>1. 1 \in I /\ Len(backlog) \in Nat /\ \A i \in I : i \in Nat /\ 1 <= i
  BY DEF Entry
<1>2. Min(I) = 1
  <2>1. Min(I) \in I /\ \A i \in I : Min(I) <= i
    <3>1. \E x \in I : \A y \in I : x <= y
      BY <1>1
    <3> QED BY <3>1 DEF Min
  <2> HIDE DEF I
  <2> QED BY <1>1, <2>1
<1>3. SelectInSeq(backlog, LAMBDA v : v = Entry) = 1
  BY <1>1, <1>2 DEF SelectInSeq
<1>4. Forgotten = RemoveAt(backlog, 1)
  BY <1>1, <1>3 DEF Forgotten, RemoveFirst
<1>5. RemoveAt(backlog, 1) = SubSeq(backlog, 1, 0) \o SubSeq(backlog, 2, Len(backlog))
  BY DEF RemoveAt
<1>6. SubSeq(backlog, 1, 0) = <<>> /\ SubSeq(backlog, 2, Len(backlog)) = Tail(backlog)
  BY <1>1
<1>7. Tail(backlog) \in Seq(Nat)
  OBVIOUS
<1>8. <<>> \o Tail(backlog) = Tail(backlog)
  BY <1>7
<1> QED BY <1>4, <1>5, <1>6, <1>8

LEMMA AppendSet ==
  ASSUME NEW s \in Seq(Nat), NEW b \in Nat
  PROVE  Append(s, b) \in Seq(Nat) /\ ToSet(Append(s, b)) = ToSet(s) \cup {b}
<1>1. DOMAIN Append(s, b) = DOMAIN s \cup {Len(s) + 1}
  OBVIOUS
<1>2. Append(s, b)[Len(s) + 1] = b /\ \A i \in DOMAIN s : Append(s, b)[i] = s[i]
  OBVIOUS
<1> QED BY <1>1, <1>2 DEF ToSet

LEMMA TailOf ==
  ASSUME NEW s \in Seq(Nat), s # <<>>
  PROVE  /\ Tail(s) \in Seq(Nat) /\ Len(Tail(s)) = Len(s) - 1
         /\ \A i \in DOMAIN Tail(s) : i + 1 \in DOMAIN s /\ Tail(s)[i] = s[i + 1]
         /\ ToSet(Tail(s)) \subseteq ToSet(s) /\ Head(s) \in ToSet(s) /\ Head(s) = s[1]
         /\ 1 \in DOMAIN s
  BY DEF ToSet

LEMMA IngestedType ==
  ASSUME held \in Seq(Nat), NEW b \in Nat, NEW h \in {held, Ingested(b)}
  PROVE  /\ h \in Seq(Nat) /\ ToSet(held) \subseteq ToSet(h)
         /\ ToSet(h) \subseteq ToSet(held) \cup {b}
<1>1. h = held \/ h = Append(held, b)
  BY DEF Ingested
<1>2. CASE h = held
  BY <1>2
<1>3. CASE h = Append(held, b)
  BY <1>3, AppendSet
<1> QED BY <1>1, <1>2, <1>3

LEMMA IngestedHolds ==
  ASSUME held \in Seq(Nat), NEW b \in Nat PROVE b \in ToSet(Ingested(b))
<1>1. CASE b \in ToSet(held)
  BY <1>1 DEF Ingested
<1>2. CASE b \notin ToSet(held)
  <2>1. Ingested(b) = Append(held, b)
    BY <1>2 DEF Ingested
  <2>2. Len(held) + 1 \in DOMAIN Ingested(b) /\ Ingested(b)[Len(held) + 1] = b
    BY <2>1
  <2> QED BY <2>2 DEF ToSet
<1> QED BY <1>1, <1>2

\* A batch no older than any row keeps the rows in order.
LEMMA IngestedSorted ==
  ASSUME held \in Seq(Nat), NEW b \in Nat, NEW h \in {held, Ingested(b)},
         Sorted(held), \A i \in DOMAIN held : held[i] <= b
  PROVE  Sorted(h) /\ \A i \in DOMAIN h : h[i] <= b
<1>1. CASE h = held
  BY <1>1
<1>2. CASE h = Append(held, b)
  <2>1. \A i \in DOMAIN h :
          \/ i \in DOMAIN held /\ h[i] = held[i]
          \/ i = Len(held) + 1 /\ h[i] = b
    BY <1>2
  <2>2. \A i \in DOMAIN held : i <= Len(held) /\ i \in Nat /\ held[i] \in Nat
    OBVIOUS
  <2>3. \A i \in DOMAIN h : h[i] <= b
    BY <2>1
  <2>4. ASSUME NEW i \in DOMAIN h, NEW j \in DOMAIN h, i < j PROVE h[i] <= h[j]
    BY <2>1, <2>2, <2>4, <2>3 DEF Sorted
  <2> QED BY <2>3, <2>4 DEF Sorted
<1> QED BY <1>1, <1>2 DEF Ingested

LEMMA RepliedRows ==
  ASSUME NEW b, NEW status, Replied(b, status)
  PROVE  held' \in {held, Ingested(b)} /\ trouble' = trouble
  BY DEF Replied

LEMMA UnclearRows ==
  ASSUME NEW b, Unclear(b)
  PROVE  /\ held' \in {held, Ingested(b)} /\ trouble' = trouble + 1
         /\ trouble < MaxLegFaults
  BY DEF Unclear

\* A step of a leg is a step of the runner, or leaves it alone.
LEMMA LegRunsRunner == [LegNext]_liveVars => [RunnerNext]_runnerVars
<1> SUFFICES ASSUME [LegNext]_liveVars PROVE [RunnerNext]_runnerVars
  OBVIOUS
<1>1. CASE UNCHANGED liveVars
  BY <1>1 DEF liveVars
<1>2. CASE LegNext
  BY <1>2 DEF LegNext, StartLeg, DrainOne, Drained, BeginProbe, Probe, Discard,
    BuildSignedRequest, Deliver, ShowWeather, Kill, RunnerNext
<1> QED BY <1>1, <1>2

LEMMA LegTypesInit == LegInit => LegTypes
<1> SUFFICES ASSUME LegInit PROVE LegTypes
  OBVIOUS
<1>1. ToSet(<<>>) = {}
  BY DEF ToSet
<1> QED BY <1>1, LegAssumption DEF LegInit, LegTypes, LegTypeOK

LEMMA DomainOf == ASSUME made \in Seq(Runs) PROVE DOMAIN made = 1 .. Len(made) /\ Len(made) \in Nat
  OBVIOUS

LEMMA LegTypesDrain == ASSUME LegTypes, DrainOne PROVE LegTypes'
<1>1. PICK b \in Nat :
        /\ b = Entry /\ b \in ToSet(backlog) /\ leg = "drain" /\ leg' = leg
        /\ entries = backlog /\ entries # <<>> /\ backlog \in Seq(Nat)
        /\ UNCHANGED <<runs, made, exit>>
  BY TailOf DEF DrainOne, LegTypes, Entry
<1>2. /\ held' \in {held, Ingested(b)}
      /\ trouble' \in 0 .. MaxLegFaults
  <2>1. trouble \in 0 .. MaxLegFaults /\ MaxLegFaults \in Nat
    BY LegAssumption DEF LegTypes, LegTypeOK
  <2> QED BY <1>1, <2>1, RepliedRows, UnclearRows DEF DrainOne
<1>3. held' \in Seq(Nat) /\ ToSet(held') \subseteq ToSet(held) \cup {b}
  BY <1>2, IngestedType DEF LegTypes
<1>4. Forgotten = Tail(backlog)
  BY <1>1, ForgetHead
<1>5. /\ backlog' \in Seq(Nat) /\ ToSet(backlog') \subseteq ToSet(backlog)
      /\ entries' \in Seq(Nat) /\ (entries' = <<>> \/ entries' = backlog')
  <2>1. \/ backlog' = Tail(backlog) /\ entries' = Tail(backlog)
        \/ backlog' = backlog /\ entries' = <<>>
    BY <1>1, <1>4 DEF DrainOne
  <2>2. CASE backlog' = Tail(backlog) /\ entries' = Tail(backlog)
    BY <1>1, <2>2, TailOf
  <2>3. CASE backlog' = backlog /\ entries' = <<>>
    BY <1>1, <2>3
  <2> QED BY <2>1, <2>2, <2>3
<1>6. aside' \subseteq aside \cup {b}
  BY <1>1 DEF DrainOne
<1>7. ToSet(held') \cup ToSet(backlog') \cup aside' \subseteq DOMAIN made
  BY <1>1, <1>3, <1>5, <1>6 DEF LegTypes, LegTypeOK
<1> QED BY <1>1, <1>2, <1>3, <1>5, <1>7 DEF LegTypes, LegTypeOK

LEMMA LegTypesBuild ==
  ASSUME RunnerTypeOK, LegTypes, BuildSignedRequest PROVE LegTypes'
<1>1. made' = Append(made, results) /\ results \in Runs /\ made \in Seq(Runs)
  BY DEF BuildSignedRequest, RunnerTypeOK, LegTypes, Runs
<1>2. made' \in Seq(Runs) /\ DOMAIN made \subseteq DOMAIN made' /\ made' # <<>>
  BY <1>1
<1> QED BY <1>2 DEF BuildSignedRequest, LegTypes, LegTypeOK

LEMMA LegTypesDeliver == ASSUME LegTypes, Deliver PROVE LegTypes'
<1>1. PICK b \in Nat :
        b = Len(made) /\ b \in DOMAIN made /\ leg = "post" /\ backlog \in Seq(Nat)
  <2>1. leg = "post" /\ made # <<>> /\ made \in Seq(Runs) /\ backlog \in Seq(Nat)
    BY DEF Deliver, LegTypes, LegTypeOK
  <2>2. Len(made) \in DOMAIN made /\ Len(made) \in Nat
    BY <2>1, DomainOf
  <2> QED BY <2>1, <2>2
<1>2. held' \in {held, Ingested(b)} /\ trouble' \in 0 .. MaxLegFaults
  <2>1. trouble \in 0 .. MaxLegFaults /\ MaxLegFaults \in Nat
    BY LegAssumption DEF LegTypes, LegTypeOK
  <2> QED BY <1>1, <2>1, RepliedRows, UnclearRows DEF Deliver
<1>3. held' \in Seq(Nat) /\ ToSet(held') \subseteq ToSet(held) \cup {b}
  BY <1>2, IngestedType DEF LegTypes
<1>4. backlog' \in Seq(Nat) /\ ToSet(backlog') \subseteq ToSet(backlog) \cup {b}
  <2>1. backlog' = backlog \/ backlog' = Append(backlog, b)
    BY <1>1 DEF Deliver, Spooled, Escaped
  <2> QED BY <1>1, <2>1, AppendSet
<1>5. leg' \in {"off", "weather"} /\ exit' \in {exit, 0, 1}
  BY DEF Deliver, Exit
<1>6. UNCHANGED <<runs, entries, aside, made>>
  BY DEF Deliver
<1> QED BY <1>1, <1>2, <1>3, <1>4, <1>5, <1>6 DEF LegTypes, LegTypeOK

LEMMA LegTypesKill == ASSUME LegTypes, Kill PROVE LegTypes'
<1>1. PICK b \in Nat :
        held' \in {held, Ingested(b)} /\ (held' # held => b \in DOMAIN made)
  <2>1. CASE held' = held
    BY <2>1
  <2>2. CASE held' # held
    <3>1. CASE leg = "post"
      <4>1. Len(made) \in DOMAIN made /\ Len(made) \in Nat
        BY <3>1, DomainOf DEF LegTypes, LegTypeOK
      <4> QED BY <3>1, <4>1 DEF Kill
    <3>2. CASE leg = "drain" /\ entries # <<>>
      <4>1. Entry \in ToSet(backlog) /\ Entry \in Nat
        BY <3>2, TailOf DEF Entry, LegTypes
      <4> QED BY <3>2, <4>1 DEF Kill, LegTypes, LegTypeOK
    <3> QED BY <2>2, <3>1, <3>2 DEF Kill
  <2> QED BY <2>1, <2>2
<1>2. held' \in Seq(Nat) /\ ToSet(held') \subseteq DOMAIN made
  BY <1>1, IngestedType DEF LegTypes, LegTypeOK
<1>3. trouble' \in 0 .. MaxLegFaults
  BY LegAssumption DEF Kill, LegTypes, LegTypeOK
<1> QED BY <1>2, <1>3 DEF Kill, Exit, LegTypes, LegTypeOK

LEMMA LegTypesStep ==
  ASSUME RunnerTypeOK, LegTypes, [LegNext]_liveVars PROVE LegTypes'
<1>1. CASE UNCHANGED liveVars
  BY <1>1 DEF liveVars, legVars, LegTypes, LegTypeOK
<1>2. CASE StartLeg
  <2>1. runs' \in 0 .. MaxRuns
    BY <1>2, LegAssumption DEF StartLeg, LegTypes, LegTypeOK
  <2> QED BY <1>2, <2>1 DEF StartLeg, LegTypes, LegTypeOK
<1>3. CASE DrainOne
  BY <1>3, LegTypesDrain
<1>4. CASE Drained
  BY <1>4 DEF Drained, LegTypes, LegTypeOK
<1>5. ASSUME NEW key \in Keys, BeginProbe(key) PROVE LegTypes'
  <2>1. leg' \in {"off", "probe"} /\ exit' \in {exit, 1}
    BY <1>5 DEF BeginProbe, Exit
  <2> QED BY <1>5, <2>1 DEF BeginProbe, LegTypes, LegTypeOK
<1>6. CASE Probe
  BY <1>6 DEF Probe, legVars, LegTypes, LegTypeOK
<1>7. CASE Discard
  BY <1>7 DEF Discard, Exit, LegTypes, LegTypeOK
<1>8. CASE BuildSignedRequest
  BY <1>8, LegTypesBuild
<1>9. CASE Deliver
  BY <1>9, LegTypesDeliver
<1>10. CASE ShowWeather
  <2>1. trouble' \in 0 .. MaxLegFaults
    BY <1>10, LegAssumption DEF ShowWeather, LegTypes, LegTypeOK
  <2> QED BY <1>10, <2>1 DEF ShowWeather, Exit, LegTypes, LegTypeOK
<1>11. CASE Kill
  BY <1>11, LegTypesKill
<1> QED
  BY <1>1, <1>2, <1>3, <1>4, <1>5, <1>6, <1>7, <1>8, <1>9, <1>10, <1>11 DEF LegNext

LEMMA BatchesStep ==
  ASSUME RunnerTypeOK, Matched, LegTypes, Batches, [LegNext]_liveVars
  PROVE  Batches'
<1>1. CASE BuildSignedRequest
  <2>1. made' = Append(made, results) /\ results \in Runs /\ made \in Seq(Runs)
    BY <1>1 DEF BuildSignedRequest, RunnerTypeOK, LegTypes, Runs
  <2>2. IsWholeRun(results) /\ FitSuite(results)
    BY <1>1, MatchedIsWhole DEF BuildSignedRequest
  <2>3. \A b \in DOMAIN made' : (b \in DOMAIN made /\ made'[b] = made[b]) \/ made'[b] = results
    BY <2>1
  <2>4. ASSUME NEW b \in DOMAIN made' PROVE IsWholeRun(made'[b]) /\ FitSuite(made'[b])
    BY <2>2, <2>3 DEF Batches
  <2> QED BY <2>4 DEF Batches, IsWholeRun, FitSuite
<1>2. CASE UNCHANGED made
  BY <1>2 DEF Batches, IsWholeRun, FitSuite
<1> QED
  BY <1>1, <1>2 DEF LegNext, StartLeg, DrainOne, Drained, BeginProbe, Probe, Discard,
    Deliver, ShowWeather, Kill, liveVars, legVars

\* Rows are never deleted, and none is newer than the newest batch.
LEMMA RowsStay ==
  ASSUME LegTypes, [LegNext]_liveVars, held' # held
  PROVE  \E b \in Nat : held' = Ingested(b) /\ (leg = "post" => b = Len(made))
<1>1. CASE DrainOne
  <2>1. Entry \in Nat /\ leg = "drain"
    BY <1>1, TailOf DEF DrainOne, LegTypes, Entry
  <2>2. held' = Ingested(Entry)
    BY <1>1, RepliedRows, UnclearRows DEF DrainOne
  <2> QED BY <2>1, <2>2
<1>2. CASE Deliver
  <2>1. Len(made) \in Nat
    BY DomainOf DEF LegTypes
  <2>2. held' = Ingested(Len(made))
    BY <1>2, RepliedRows, UnclearRows DEF Deliver
  <2> QED BY <2>1, <2>2
<1>3. CASE Kill
  <2>1. CASE leg = "post"
    <3>1. held' = Ingested(Len(made)) /\ Len(made) \in Nat
      BY <1>3, <2>1, DomainOf DEF Kill, LegTypes
    <3> QED BY <3>1
  <2>2. CASE leg # "post"
    <3>1. leg = "drain" /\ entries # <<>> /\ held' = Ingested(Entry)
      BY <1>3, <2>2 DEF Kill
    <3>2. Entry \in Nat
      BY <3>1, TailOf DEF LegTypes, Entry
    <3> QED BY <2>2, <3>1, <3>2
  <2> QED BY <2>1, <2>2
<1> QED
  BY <1>1, <1>2, <1>3 DEF LegNext, StartLeg, Drained, BeginProbe, Probe, Discard,
    BuildSignedRequest, ShowWeather, liveVars, legVars

LEMMA RowsKept ==
  ASSUME LegTypes, [LegNext]_liveVars PROVE ToSet(held) \subseteq ToSet(held')
<1>1. CASE held' = held
  BY <1>1
<1>2. CASE held' # held
  BY <1>2, RowsStay, IngestedType DEF LegTypes
<1> QED BY <1>1, <1>2

LEMMA AnswerableStep ==
  ASSUME LegTypes, Answerable, [LegNext]_liveVars PROVE Answerable'
<1> USE NoneAssumption
<1>0. ToSet(held) \subseteq ToSet(held')
  BY RowsKept
<1>1. CASE UNCHANGED liveVars
  BY <1>1 DEF liveVars, legVars, Answerable, ExitIsTruth
<1>2. CASE StartLeg
  BY <1>2 DEF StartLeg, Answerable, ExitIsTruth
<1>3. CASE DrainOne
  BY <1>0, <1>3 DEF DrainOne, Answerable, ExitIsTruth
<1>4. CASE Drained
  BY <1>4 DEF Drained, Answerable, ExitIsTruth
<1>5. ASSUME NEW key \in Keys, BeginProbe(key) PROVE Answerable'
  BY <1>5 DEF BeginProbe, Exit, Answerable, ExitIsTruth
<1>6. CASE Probe
  BY <1>6 DEF Probe, legVars, Answerable, ExitIsTruth
<1>7. CASE Discard
  BY <1>7 DEF Discard, Exit, Answerable, ExitIsTruth
<1>8. CASE BuildSignedRequest
  BY <1>8 DEF BuildSignedRequest, Answerable, ExitIsTruth
<1>9. CASE Deliver
  <2>1. \/ leg' = "off" /\ exit' = 1
        \/ leg' = "weather" /\ exit' = exit /\ Len(made) \in ToSet(held')
    <3>1. ASSUME NEW status \in {"accepted", "duplicate"}, Replied(Len(made), status)
          PROVE  Len(made) \in ToSet(held')
      <4>1. held' = Ingested(Len(made)) /\ Len(made) \in Nat
        BY <3>1, DomainOf DEF Replied, LegTypes
      <4> QED BY <4>1, IngestedHolds DEF LegTypes
    <3> QED BY <1>9, <3>1 DEF Deliver, Exit
  <2>2. leg = "post" /\ made' = made
    BY <1>9 DEF Deliver
  <2> QED BY <2>1, <2>2 DEF Answerable, ExitIsTruth
<1>10. CASE ShowWeather
  <2>1. leg = "weather" /\ leg' = "off" /\ held' = held /\ made' = made
    BY <1>10 DEF ShowWeather, Exit
  <2> QED BY <2>1 DEF Answerable, ExitIsTruth
<1>11. CASE Kill
  BY <1>11 DEF Kill, Exit, Answerable, ExitIsTruth
<1> QED
  BY <1>1, <1>2, <1>3, <1>4, <1>5, <1>6, <1>7, <1>8, <1>9, <1>10, <1>11 DEF LegNext

\* The rows after a batch that was sent in its turn.
LEMMA InTurnRows ==
  ASSUME LegTypes, InTurn, KeepSpool, trouble < 2, NEW b \in Nat,
         held' \in {held, Ingested(b)},
         \/ leg = "drain" /\ entries # <<>> /\ b = Entry
         \/ leg = "post" /\ b = Len(made)
  PROVE  Sorted(held') /\ \A i \in DOMAIN held' : held'[i] <= b
<1>1. held \in Seq(Nat) /\ Sorted(held)
  BY DEF LegTypes, InTurn
<1>2. \A i \in DOMAIN held : held[i] <= b
  <2>1. CASE leg = "drain"
    <3>1. backlog = entries /\ backlog \in Seq(Nat) /\ backlog # <<>> /\ b = Entry
      BY <2>1 DEF LegTypes
    <3>2. 1 \in DOMAIN backlog /\ backlog[1] = b
      BY <3>1 DEF Entry
    <3> QED BY <3>2 DEF InTurn
  <2>2. CASE leg = "post"
    <3>1. b = Len(made) /\ DOMAIN made = 1 .. b
      BY <2>2, DomainOf DEF LegTypes
    <3>2. ToSet(held) \subseteq 1 .. b
      BY <3>1 DEF LegTypes, LegTypeOK
    <3>3. \A i \in DOMAIN held : held[i] \in 1 .. b
      BY <1>1, <3>2, SetOfSeq
    <3> QED BY <3>3
  <2> QED BY <2>1, <2>2
<1> QED BY <1>1, <1>2, IngestedSorted

LEMMA EmptyWaits == <<>> \in Seq(Nat) /\ Len(<<>>) = 0 /\ DOMAIN <<>> = {}
  OBVIOUS

LEMMA InTurnDrain == ASSUME LegTypes, InTurn, KeepSpool, DrainOne PROVE InTurn'
<1>1. /\ leg = "drain" /\ leg' = "drain" /\ entries = backlog /\ backlog # <<>>
      /\ backlog \in Seq(Nat) /\ Entry \in Nat /\ trouble \in Nat
  BY TailOf DEF DrainOne, LegTypes, LegTypeOK, Entry
<1>2. trouble >= 1
  BY <1>1 DEF InTurn
<1>3. CASE Unclear(Entry)
  <2>1. trouble' >= 2
    BY <1>1, <1>2, <1>3 DEF Unclear
  <2>2. trouble' \in Nat /\ ~ (trouble' < 2) /\ trouble' >= 1
    BY <1>1, <1>3, <2>1 DEF Unclear
  <2> QED BY <2>1, <2>2 DEF InTurn
<1>4. CASE ~ Unclear(Entry)
  <2>1. PICK status : Replied(Entry, status) /\ backlog' = Forgotten /\ entries' = Tail(entries)
    BY <1>4 DEF DrainOne
  <2>2. backlog' = Tail(backlog) /\ entries' = backlog'
    BY <1>1, <2>1, ForgetHead
  <2>3. trouble' = trouble /\ held' \in {held, Ingested(Entry)}
    BY <2>1, RepliedRows
  <2>4. ASSUME trouble < 2
        PROVE  backlog' = <<>> /\ Sorted(held')
    <3>1. Len(backlog) <= 1
      BY <2>4 DEF InTurn
    <3>2. backlog' = <<>>
      BY <1>1, <2>2, <3>1
    <3>3. Sorted(held')
      BY <1>1, <2>3, <2>4, InTurnRows
    <3> QED BY <3>2, <3>3
  <2> QED
    BY <1>1, <1>2, <2>2, <2>3, <2>4, EmptyWaits DEF InTurn, Sorted
<1> QED BY <1>3, <1>4

LEMMA InTurnDeliver == ASSUME LegTypes, InTurn, KeepSpool, Deliver PROVE InTurn'
<1>1. PICK b \in Nat : b = Len(made)
  BY DomainOf DEF LegTypes
<1>2. /\ leg = "post" /\ leg' \in {"off", "weather"}
      /\ backlog \in Seq(Nat) /\ trouble \in Nat
  BY DEF Deliver, Exit, LegTypes, LegTypeOK
<1>3. trouble < 2 => backlog = <<>>
  BY <1>2 DEF InTurn
<1>4. ASSUME held' \in {held, Ingested(b)}, trouble < 2
      PROVE  Sorted(held') /\ \A i \in DOMAIN held' : held'[i] <= b
  BY <1>1, <1>2, <1>4, InTurnRows
<1>5. CASE Unclear(b)
  <2>1. /\ held' \in {held, Ingested(b)} /\ trouble' = trouble + 1
        /\ backlog' = backlog \/ backlog' = Append(backlog, b)
    BY <1>1, <1>5, UnclearRows DEF Deliver, Spooled, Escaped
  <2>2. ASSUME trouble' < 2
        PROVE  /\ Len(backlog') <= 1 /\ Sorted(held')
               /\ \A i \in DOMAIN held', j \in DOMAIN backlog' : held'[i] <= backlog'[j]
    <3>1. trouble < 2
      BY <1>2, <2>1, <2>2
    <3>2. Sorted(held') /\ \A i \in DOMAIN held' : held'[i] <= b
      BY <1>4, <2>1, <3>1
    <3>3. backlog' = <<>> \/ backlog' = <<b>>
      BY <1>1, <1>3, <2>1, <3>1
    <3>4. CASE backlog' = <<>>
      BY <3>2, <3>4, EmptyWaits
    <3>5. CASE backlog' = <<b>>
      BY <3>2, <3>5
    <3> QED BY <3>3, <3>4, <3>5
  <2> QED BY <1>2, <2>1, <2>2 DEF InTurn, Sorted
<1>6. CASE ~ Unclear(b)
  <2>1. backlog' = backlog /\ held' \in {held, Ingested(b)} /\ trouble' = trouble
    BY <1>1, <1>6, RepliedRows DEF Deliver
  <2> QED BY <1>2, <1>3, <1>4, <2>1, EmptyWaits DEF InTurn, Sorted
<1> QED BY <1>5, <1>6

LEMMA InTurnKill == ASSUME LegTypes, InTurn, KeepSpool, Kill PROVE InTurn'
<1>1. /\ leg' = "off" /\ trouble' = trouble + 1 /\ trouble \in Nat
      /\ backlog' = backlog /\ backlog \in Seq(Nat)
  BY DEF Kill, Exit, LegTypes, LegTypeOK
<1>2. ASSUME trouble' < 2
      PROVE  /\ Len(backlog') <= 1 /\ Sorted(held')
             /\ \A i \in DOMAIN held', j \in DOMAIN backlog' : held'[i] <= backlog'[j]
  <2>1. trouble < 2 /\ backlog = <<>>
    BY <1>1, <1>2 DEF InTurn
  <2>2. Sorted(held')
    <3>1. CASE held' = held
      BY <2>1, <3>1 DEF InTurn, Sorted
    <3>2. CASE held' # held
      <4>1. ~ (leg = "drain" /\ entries # <<>>)
        BY <2>1 DEF LegTypes
      <4>2. leg = "post" /\ held' = Ingested(Len(made))
        BY <3>2, <4>1 DEF Kill
      <4>3. Len(made) \in Nat
        BY DomainOf DEF LegTypes
      <4> QED BY <2>1, <4>2, <4>3, InTurnRows
    <3> QED BY <3>1, <3>2
  <2> QED BY <1>1, <2>1, <2>2, EmptyWaits
<1> QED BY <1>1, <1>2 DEF InTurn, Sorted

LEMMA InTurnStep ==
  ASSUME LegTypes, InTurn, [LegNext]_liveVars PROVE InTurn'
<1> SUFFICES ASSUME KeepSpool PROVE InTurn'
  BY DEF InTurn
<1>0. trouble \in Nat
  BY DEF LegTypes, LegTypeOK
<1>1. CASE UNCHANGED liveVars
  BY <1>1 DEF liveVars, legVars, InTurn, Sorted
<1>2. CASE StartLeg
  BY <1>2 DEF StartLeg, InTurn, Sorted
<1>3. CASE DrainOne
  BY <1>3, InTurnDrain
<1>4. CASE Drained
  BY <1>4 DEF Drained, InTurn, Sorted
<1>5. ASSUME NEW key \in Keys, BeginProbe(key) PROVE InTurn'
  <2>1. leg = "construct" /\ UNCHANGED <<entries, backlog, held, trouble>>
    BY <1>5 DEF BeginProbe
  <2> QED BY <1>5, <2>1 DEF BeginProbe, Exit, InTurn, Sorted
<1>6. CASE Probe
  BY <1>6 DEF Probe, legVars, InTurn, Sorted
<1>7. CASE Discard
  BY <1>7 DEF Discard, Exit, InTurn, Sorted
<1>8. CASE BuildSignedRequest
  BY <1>8 DEF BuildSignedRequest, InTurn, Sorted
<1>9. CASE Deliver
  BY <1>9, InTurnDeliver
<1>10. CASE ShowWeather
  <2>1. /\ leg' = "off" /\ trouble' \in Nat /\ trouble' >= trouble
        /\ UNCHANGED <<entries, backlog, held>>
    BY <1>0, <1>10 DEF ShowWeather, Exit
  <2> QED BY <1>0, <2>1 DEF InTurn, Sorted
<1>11. CASE Kill
  BY <1>11, InTurnKill
<1> QED
  BY <1>1, <1>2, <1>3, <1>4, <1>5, <1>6, <1>7, <1>8, <1>9, <1>10, <1>11 DEF LegNext

WholeLeg == RunnerInv /\ LegInv

LEMMA WholeLegInit == RunnerInit /\ LegInit => WholeLeg
<1> SUFFICES ASSUME RunnerInit, LegInit PROVE WholeLeg
  OBVIOUS
<1>1. ToSet(<<>>) = {}
  BY DEF ToSet
<1>2. Batches /\ Answerable
  BY EmptyWaits, NoneAssumption DEF LegInit, Batches, Answerable, ExitIsTruth
<1>3. InTurn
  BY EmptyWaits DEF LegInit, InTurn, Sorted
<1> QED BY <1>2, <1>3, RunnerInvInit, LegTypesInit DEF WholeLeg, LegInv

LEMMA WholeLegStep == WholeLeg /\ [LegNext]_liveVars => WholeLeg'
<1> SUFFICES ASSUME WholeLeg, [LegNext]_liveVars PROVE WholeLeg'
  OBVIOUS
<1>1. RunnerTypeOK /\ Matched /\ LegTypes /\ Batches /\ Answerable /\ InTurn
  BY DEF WholeLeg, RunnerInv, LegInv
<1>2. RunnerInv'
  BY LegRunsRunner, RunnerInvStep DEF WholeLeg
<1>3. LegInv'
  BY <1>1, LegTypesStep, BatchesStep, AnswerableStep, InTurnStep DEF LegInv
<1> QED BY <1>2, <1>3 DEF WholeLeg

\* The runner of a leg and the leg itself keep the types of their variables.
THEOREM LegTypesCorrect == LegSpec => [](RunnerTypeOK /\ LegTypeOK)
<1>1. WholeLeg => RunnerTypeOK /\ LegTypeOK
  BY DEF WholeLeg, RunnerInv, LegInv, LegTypes
<1> QED BY <1>1, WholeLegInit, WholeLegStep, PTL DEF LegSpec

LEMMA WholeLegRuns == WholeLeg => WholeRunsOnly
<1> SUFFICES ASSUME WholeLeg PROVE WholeRunsOnly
  OBVIOUS
<1>1. AllOrNothing
  BY MatchedAllOrNothing DEF WholeLeg, RunnerInv
<1>2. Batches
  BY DEF WholeLeg, LegInv
<1>3. \A b \in DOMAIN made : IsWholeRun(made[b]) /\ FitSuite(made[b])
  BY <1>2 DEF Batches
<1> QED BY <1>1, <1>3 DEF WholeRunsOnly, FitSuite, Fits

LEMMA WholeLegExit == WholeLeg => ExitIsTruth
  BY DEF WholeLeg, LegInv, Answerable

LEMMA WholeLegOrder == WholeLeg => OlderFirst
<1> SUFFICES ASSUME WholeLeg PROVE OlderFirst
  OBVIOUS
<1>1. trouble \in Nat /\ held \in Seq(Nat)
  BY DEF WholeLeg, LegInv, LegTypes, LegTypeOK
<1>2. KeepSpool /\ trouble < 2 => Sorted(held)
  BY DEF WholeLeg, LegInv, InTurn
<1>3. Sorted(held) => ~ \E i, j \in DOMAIN held : i < j /\ held[i] > held[j]
  <2>1. \A i \in DOMAIN held : held[i] \in Nat
    BY <1>1
  <2> QED BY <2>1 DEF Sorted
<1> QED BY <1>1, <1>2, <1>3 DEF OlderFirst

\* live_emit sends whole runs and nothing else, whatever failed, was retried
\* or was killed before, and each result is scored as its prompt allows.
THEOREM WholeRunsCorrect == LegSpec => []WholeRunsOnly
  BY WholeLegRuns, WholeLegInit, WholeLegStep, PTL DEF LegSpec

\* The scheduler is told 0 only if the gateway holds the batch of the run.
THEOREM ExitCorrect == LegSpec => []ExitIsTruth
  BY WholeLegExit, WholeLegInit, WholeLegStep, PTL DEF LegSpec

\* With a spool it takes two failures to turn two batches round.
THEOREM OrderCorrect == LegSpec => []OlderFirst
  BY WholeLegOrder, WholeLegInit, WholeLegStep, PTL DEF LegSpec

-----------------------------------------------------------------------------
(* Comparisons.  Induction, as facts about sets.                           *)

LEMMA SmallestNat ==
  ASSUME NEW S \in SUBSET Nat, S # {}
  PROVE  \E n \in S : \A m \in S : n <= m
<1> DEFINE R == OpToRel(<, Nat)
<1>1. IsWellFoundedOn(R, Nat)
  BY NatLessThanWellFounded
<1>2. R = {p \in Nat \X Nat : p[1] < p[2]}
  BY DEF OpToRel
<1> HIDE DEF R
<1>3. PICK n \in S : \A m \in S : ~ (<<m, n>> \in R)
  BY <1>1, WFMin
<1>4. ASSUME NEW m \in S PROVE n <= m
  <2>1. <<m, n>> \notin R
    BY <1>3
  <2>2. m \in Nat /\ n \in Nat
    OBVIOUS
  <2> QED BY <1>2, <2>1, <2>2
<1> QED BY <1>4

\* What holds of 0 and passes from a number to the next holds of all up to N.
LEMMA UpToAll ==
  ASSUME NEW N \in Nat, NEW Q, 0 \in Q,
         \A n \in 0 .. N : n \in Q /\ n < N => n + 1 \in Q
  PROVE  0 .. N \subseteq Q
<1> DEFINE Bad == {n \in 0 .. N : n \notin Q}
<1>1. SUFFICES ASSUME Bad # {} PROVE FALSE
  OBVIOUS
<1>2. PICK n \in Bad : \A m \in Bad : n <= m
  <2> Bad \in SUBSET Nat
    OBVIOUS
  <2> HIDE DEF Bad
  <2> QED BY <1>1, SmallestNat
<1>3. n \in 0 .. N /\ n # 0 /\ n \notin Q
  OBVIOUS
<1>4. n - 1 \in 0 .. N /\ n - 1 \notin Bad
  BY <1>2, <1>3
<1>5. n - 1 \in Q /\ n - 1 < N /\ (n - 1) + 1 = n
  BY <1>3, <1>4
<1> QED BY <1>3, <1>4, <1>5

\* What holds of {} and passes to a set from the set without one of its
\* elements holds of every part of a finite set.
LEMMA AllParts ==
  ASSUME NEW S, IsFiniteSet(S), NEW Q, {} \in Q,
         \A s \in SUBSET S : s # {} /\ (\A x \in s : s \ {x} \in Q) => s \in Q
  PROVE  SUBSET S \subseteq Q
<1> DEFINE Bad == {n \in Nat : \E s \in SUBSET S : Cardinality(s) = n /\ s \notin Q}
<1>1. \A s \in SUBSET S : IsFiniteSet(s) /\ Cardinality(s) \in Nat
  BY FS_Subset, FS_CardinalityType
<1>2. SUFFICES ASSUME Bad # {} PROVE FALSE
  BY <1>1
<1>3. PICK n \in Bad : \A m \in Bad : n <= m
  <2> Bad \in SUBSET Nat
    OBVIOUS
  <2> HIDE DEF Bad
  <2> QED BY <1>2, SmallestNat
<1>4. PICK s \in SUBSET S : Cardinality(s) = n /\ s \notin Q
  BY <1>3
<1>5. PICK x \in s : s \ {x} \notin Q
  BY <1>4
<1>6. s \ {x} \in SUBSET S /\ s \ {x} \notin Q
  BY <1>4, <1>5
<1>7. Cardinality(s \ {x}) = n - 1 /\ Cardinality(s \ {x}) \in Nat
  BY <1>1, <1>4, <1>5, <1>6, FS_RemoveElement
<1>8. n - 1 \in Bad /\ n \in Nat
  BY <1>6, <1>7
<1> QED BY <1>3, <1>8

-----------------------------------------------------------------------------
(* Folds over finite sets.                                                 *)

Some(s) == CHOOSE x \in s : TRUE

\* h is the fold over the parts of S: of a part, the step of one element from
\* the fold over the rest.
Folds(h, base, step, parts) ==
  h = [s \in parts |-> IF s = {} THEN base ELSE step[<<Some(s), h[s \ {Some(s)}]>>]]

UpTo(S, n) == {s \in SUBSET S : Cardinality(s) <= n}

LEMMA RestOf ==
  ASSUME NEW S, IsFiniteSet(S), NEW s \in SUBSET S, s # {}
  PROVE  /\ Some(s) \in s /\ IsFiniteSet(s)
         /\ s \ {Some(s)} \in SUBSET S
         /\ Cardinality(s) \in Nat
         /\ Cardinality(s \ {Some(s)}) = Cardinality(s) - 1
         /\ Cardinality(s \ {Some(s)}) \in Nat
<1>1. Some(s) \in s
  BY DEF Some
<1>2. IsFiniteSet(s)
  BY FS_Subset
<1>3. IsFiniteSet(s \ {Some(s)})
  BY <1>2, FS_Subset
<1> QED BY <1>1, <1>2, <1>3, FS_CardinalityType, FS_RemoveElement

LEMMA FoldExists ==
  ASSUME NEW S, IsFiniteSet(S), NEW base, NEW step
  PROVE  \E h : Folds(h, base, step, SUBSET S)
<1> DEFINE N == Cardinality(S)
           Q == {n \in 0 .. N : \E h : Folds(h, base, step, UpTo(S, n))}
<1>1. N \in Nat
  BY FS_CardinalityType
<1>2. 0 \in Q
  <2> DEFINE h == [s \in UpTo(S, 0) |-> base]
  <2>1. \A s \in UpTo(S, 0) : s = {}
    <3> SUFFICES ASSUME NEW s \in UpTo(S, 0), s # {} PROVE FALSE
      OBVIOUS
    <3>1. s \in SUBSET S /\ Cardinality(s) <= 0
      BY DEF UpTo
    <3>2. Cardinality(s) \in Nat /\ Cardinality(s \ {Some(s)}) = Cardinality(s) - 1
          /\ Cardinality(s \ {Some(s)}) \in Nat
      BY <3>1, RestOf
    <3> QED BY <3>1, <3>2
  <2>2. Folds(h, base, step, UpTo(S, 0))
    BY <2>1 DEF Folds
  <2> QED BY <1>1, <2>2
<1>3. ASSUME NEW n \in 0 .. N, n \in Q, n < N
      PROVE  n + 1 \in Q
  <2>1. PICK less : Folds(less, base, step, UpTo(S, n))
    BY <1>3
  <2>2. n \in Nat /\ n + 1 \in 0 .. N
    BY <1>1, <1>3
  <2> DEFINE h == [s \in UpTo(S, n + 1) |->
                     IF s = {} THEN base ELSE step[<<Some(s), less[s \ {Some(s)}]>>]]
  <2>3. \A s \in UpTo(S, n + 1) : s # {} =>
          /\ s \ {Some(s)} \in UpTo(S, n)
          /\ s \ {Some(s)} \in UpTo(S, n + 1)
    BY <2>2, RestOf DEF UpTo
  <2>4. \A s \in UpTo(S, n) : s \in UpTo(S, n + 1) => h[s] = less[s]
    BY <2>1 DEF Folds
  <2>5. \A s \in UpTo(S, n + 1) : s # {} => h[s \ {Some(s)}] = less[s \ {Some(s)}]
    BY <2>3, <2>4
  <2>6. Folds(h, base, step, UpTo(S, n + 1))
    BY <2>5 DEF Folds
  <2> QED BY <2>2, <2>6
<1>4. N \in Q
  <2> HIDE DEF Q, N
  <2>1. 0 .. N \subseteq Q
    BY <1>1, <1>2, <1>3, UpToAll
  <2> QED BY <1>1, <2>1
<1>5. UpTo(S, N) = SUBSET S
  BY FS_CardinalityType, FS_Subset DEF UpTo
<1> QED BY <1>4, <1>5
-----------------------------------------------------------------------------
(* Sums over finite sets.                                                  *)

\* h is the sum of f over each part of S.
Sums(h, f, S) ==
  h = [s \in SUBSET S |-> IF s = {} THEN 0 ELSE f[Some(s)] + h[s \ {Some(s)}]]

SumOf(f, S) == (CHOOSE h : Sums(h, f, S))[S]

LEMMA SumsTyped ==
  ASSUME NEW S, IsFiniteSet(S), NEW f, \A x \in S : f[x] \in Int, NEW h, Sums(h, f, S)
  PROVE  \A s \in SUBSET S : h[s] \in Int
<1> DEFINE Q == {s \in SUBSET S : h[s] \in Int}
<1>1. {} \in Q
  BY DEF Sums
<1>2. \A s \in SUBSET S : s # {} /\ (\A x \in s : s \ {x} \in Q) => s \in Q
  BY DEF Sums, Some
<1>3. SUBSET S \subseteq Q
  <2> HIDE DEF Q
  <2> QED BY <1>1, <1>2, AllParts
<1> QED BY <1>3

LEMMA SumsExist ==
  ASSUME NEW S, IsFiniteSet(S), NEW f, \A x \in S : f[x] \in Int
  PROVE  \E h : Sums(h, f, S)
<1> DEFINE step == [p \in S \X Int |-> f[p[1]] + p[2]]
<1>1. PICK h : Folds(h, 0, step, SUBSET S)
  BY FoldExists
<1> DEFINE Q == {s \in SUBSET S : h[s] \in Int}
<1>2. {} \in Q
  BY <1>1 DEF Folds
<1>3. \A s \in SUBSET S : s # {} /\ s \ {Some(s)} \in Q => h[s] = f[Some(s)] + h[s \ {Some(s)}]
  <2> SUFFICES ASSUME NEW s \in SUBSET S, s # {}, s \ {Some(s)} \in Q
               PROVE  h[s] = f[Some(s)] + h[s \ {Some(s)}]
    OBVIOUS
  <2>1. Some(s) \in S
    BY DEF Some
  <2>2. h[s] = step[<<Some(s), h[s \ {Some(s)}]>>]
    BY <1>1 DEF Folds
  <2> QED BY <2>1, <2>2
<1>4. \A s \in SUBSET S : s # {} /\ (\A x \in s : s \ {x} \in Q) => s \in Q
  <2> SUFFICES ASSUME NEW s \in SUBSET S, s # {}, \A x \in s : s \ {x} \in Q PROVE s \in Q
    OBVIOUS
  <2>1. Some(s) \in s
    BY DEF Some
  <2>2. s \ {Some(s)} \in Q
    BY <2>1
  <2>3. f[Some(s)] \in Int /\ h[s \ {Some(s)}] \in Int
    BY <2>1, <2>2
  <2>4. h[s] = f[Some(s)] + h[s \ {Some(s)}]
    BY <1>3, <2>2
  <2> QED BY <2>3, <2>4
<1>5. SUBSET S \subseteq Q
  <2> HIDE DEF Q
  <2> QED BY <1>2, <1>4, AllParts
<1>6. \A s \in SUBSET S : s # {} => s \ {Some(s)} \in Q
  <2> HIDE DEF Q
  <2> QED BY <1>5, RestOf
<1>7. Sums(h, f, S)
  <2> HIDE DEF Q
  <2>1. \A s \in SUBSET S : h[s] = IF s = {} THEN 0 ELSE f[Some(s)] + h[s \ {Some(s)}]
    BY <1>1, <1>3, <1>6 DEF Folds
  <2> QED BY <1>1, <2>1 DEF Folds, Sums
<1> QED BY <1>7

LEMMA SumsAgree ==
  ASSUME NEW S, IsFiniteSet(S), NEW f, NEW g, NEW T, S \subseteq T, \A x \in S : f[x] = g[x],
         NEW h, NEW k, Sums(h, f, S), Sums(k, g, T)
  PROVE  \A s \in SUBSET S : h[s] = k[s]
<1> DEFINE Q == {s \in SUBSET S : h[s] = k[s]}
<1>1. {} \in Q
  BY DEF Sums
<1>2. ASSUME NEW s \in SUBSET S, s # {}, \A x \in s : s \ {x} \in Q
      PROVE  s \in Q
  <2>1. Some(s) \in s
    BY <1>2 DEF Some
  <2>2. h[s] = f[Some(s)] + h[s \ {Some(s)}]
    BY <1>2 DEF Sums
  <2>3. s \in SUBSET T
    OBVIOUS
  <2>4. k[s] = g[Some(s)] + k[s \ {Some(s)}]
    BY <1>2, <2>3 DEF Sums
  <2>5. h[s \ {Some(s)}] = k[s \ {Some(s)}] /\ f[Some(s)] = g[Some(s)]
    BY <1>2, <2>1
  <2> QED BY <2>2, <2>4, <2>5
<1>3. SUBSET S \subseteq Q
  <2> HIDE DEF Q
  <2> QED BY <1>1, <1>2, AllParts
<1> QED BY <1>3

LEMMA SumOfIs ==
  ASSUME NEW S, IsFiniteSet(S), NEW f, \A x \in S : f[x] \in Int
  PROVE  /\ SumOf(f, S) \in Int
         /\ \A h, T : S \subseteq T /\ Sums(h, f, T) => SumOf(f, S) = h[S]
<1> DEFINE k == CHOOSE h : Sums(h, f, S)
<1>1. Sums(k, f, S) /\ SumOf(f, S) = k[S]
  BY SumsExist DEF SumOf
<1> HIDE DEF k
<1>2. SumOf(f, S) \in Int
  BY <1>1, SumsTyped
<1>3. ASSUME NEW h, NEW T, S \subseteq T, Sums(h, f, T) PROVE SumOf(f, S) = h[S]
  BY <1>1, <1>3, SumsAgree
<1> QED BY <1>2, <1>3

LEMMA SumEmpty ==
  ASSUME NEW f
  PROVE  SumOf(f, {}) = 0
<1>1. IsFiniteSet({})
  BY FS_EmptySet
<1>2. PICK h : Sums(h, f, {})
  BY <1>1, SumsExist
<1>3. SumOf(f, {}) = h[{}]
  BY <1>1, <1>2, SumOfIs
<1> QED BY <1>2, <1>3 DEF Sums

\* A sum is any one of its terms and the sum of the others.
LEMMA SumSplit ==
  ASSUME NEW S, IsFiniteSet(S), NEW f, \A x \in S : f[x] \in Int, NEW x \in S
  PROVE  SumOf(f, S) = f[x] + SumOf(f, S \ {x})
<1>1. PICK h : Sums(h, f, S)
  BY SumsExist
<1>2. \A s \in SUBSET S : h[s] \in Int
  BY <1>1, SumsTyped
<1> DEFINE Q == {s \in SUBSET S : \A y \in s : h[s] = f[y] + h[s \ {y}]}
<1>3. {} \in Q
  OBVIOUS
<1>4. ASSUME NEW s \in SUBSET S, s # {}, \A y \in s : s \ {y} \in Q
      PROVE  s \in Q
  <2> SUFFICES ASSUME NEW y \in s PROVE h[s] = f[y] + h[s \ {y}]
    OBVIOUS
  <2> DEFINE z == Some(s)
  <2>1. z \in s /\ h[s] = f[z] + h[s \ {z}]
    BY <1>1, <1>4 DEF Sums, Some
  <2> HIDE DEF z
  <2>2. CASE y # z
    <3>1. h[s \ {z}] = f[y] + h[(s \ {z}) \ {y}]
      BY <1>4, <2>1, <2>2
    <3>2. h[s \ {y}] = f[z] + h[(s \ {y}) \ {z}]
      BY <1>4, <2>1, <2>2
    <3>3. (s \ {z}) \ {y} = (s \ {y}) \ {z}
      OBVIOUS
    <3> DEFINE r == h[(s \ {y}) \ {z}]
    <3>4. r \in Int /\ f[y] \in Int /\ f[z] \in Int
      BY <1>2, <2>1
    <3>5. h[s] = f[z] + (f[y] + r) /\ h[s \ {y}] = f[z] + r
      BY <2>1, <3>1, <3>2, <3>3
    <3> HIDE DEF r
    <3> QED BY <3>4, <3>5
  <2> QED BY <2>1, <2>2
<1>5. S \in Q
  <2> HIDE DEF Q
  <2>1. SUBSET S \subseteq Q
    BY <1>3, <1>4, AllParts
  <2> QED BY <2>1
<1>6. h[S] = f[x] + h[S \ {x}]
  BY <1>5
<1>7. IsFiniteSet(S \ {x})
  BY FS_Subset
<1>8. SumOf(f, S) = h[S] /\ SumOf(f, S \ {x}) = h[S \ {x}]
  BY <1>1, <1>7, SumOfIs
<1> QED BY <1>6, <1>8

\* A sum is an integer, whichever part of S it is over, and splits.
LEMMA SumParts ==
  ASSUME NEW S, IsFiniteSet(S), NEW f, \A x \in S : f[x] \in Int
  PROVE  \A s \in SUBSET S :
           /\ SumOf(f, s) \in Int
           /\ \A x \in s : SumOf(f, s) = f[x] + SumOf(f, s \ {x}) /\ SumOf(f, s \ {x}) \in Int
<1> SUFFICES ASSUME NEW s \in SUBSET S
             PROVE  /\ SumOf(f, s) \in Int
                    /\ \A x \in s : SumOf(f, s) = f[x] + SumOf(f, s \ {x})
                                    /\ SumOf(f, s \ {x}) \in Int
  OBVIOUS
<1>1. IsFiniteSet(s) /\ \A x \in s : IsFiniteSet(s \ {x})
  BY FS_Subset
<1>2. \A x \in s : f[x] \in Int
  OBVIOUS
<1>3. SumOf(f, s) \in Int
  BY <1>1, <1>2, SumOfIs
<1>4. ASSUME NEW x \in s
      PROVE  SumOf(f, s) = f[x] + SumOf(f, s \ {x}) /\ SumOf(f, s \ {x}) \in Int
  <2>1. SumOf(f, s) = f[x] + SumOf(f, s \ {x})
    BY <1>1, <1>2, SumSplit
  <2>2. \A y \in s \ {x} : f[y] \in Int
    BY <1>2
  <2> QED BY <1>1, <2>1, <2>2, SumOfIs
<1> QED BY <1>3, <1>4

LEMMA SumSame ==
  ASSUME NEW S, IsFiniteSet(S), NEW f, NEW g, \A x \in S : f[x] \in Int /\ f[x] = g[x]
  PROVE  SumOf(f, S) = SumOf(g, S)
<1>1. PICK h : Sums(h, f, S)
  BY SumsExist
<1>2. PICK k : Sums(k, g, S)
  BY SumsExist
<1>3. SumOf(f, S) = h[S] /\ SumOf(g, S) = k[S]
  BY <1>1, <1>2, SumOfIs
<1>4. \A s \in SUBSET S : h[s] = k[s]
  BY <1>1, <1>2, SumsAgree
<1> QED BY <1>3, <1>4

LEMMA SumCombines ==
  ASSUME NEW S, IsFiniteSet(S), NEW a \in Int, NEW b \in Int, NEW c \in Int,
         NEW f, NEW g, NEW h, NEW k,
         \A x \in S : /\ f[x] \in Int /\ g[x] \in Int /\ h[x] \in Int
                      /\ k[x] = a * f[x] + b * g[x] + c * h[x]
  PROVE  SumOf(k, S) = a * SumOf(f, S) + b * SumOf(g, S) + c * SumOf(h, S)
<1>1. \A x \in S : f[x] \in Int /\ g[x] \in Int /\ h[x] \in Int /\ k[x] \in Int
  OBVIOUS
<1> DEFINE Q == {s \in SUBSET S :
                   SumOf(k, s) = a * SumOf(f, s) + b * SumOf(g, s) + c * SumOf(h, s)}
<1>2. {} \in Q
  BY SumEmpty
<1>3. ASSUME NEW s \in SUBSET S, s # {}, \A x \in s : s \ {x} \in Q
      PROVE  s \in Q
  <2>1. PICK x \in s : TRUE
    BY <1>3
  <2> DEFINE F == SumOf(f, s \ {x})
             G == SumOf(g, s \ {x})
             H == SumOf(h, s \ {x})
             K == SumOf(k, s \ {x})
  <2>2. /\ SumOf(f, s) = f[x] + F /\ F \in Int
        /\ SumOf(g, s) = g[x] + G /\ G \in Int
        /\ SumOf(h, s) = h[x] + H /\ H \in Int
        /\ SumOf(k, s) = k[x] + K /\ K \in Int
    BY <1>1, SumParts
  <2>3. K = a * F + b * G + c * H
    BY <1>3
  <2>4. k[x] = a * f[x] + b * g[x] + c * h[x] /\ f[x] \in Int /\ g[x] \in Int /\ h[x] \in Int
    OBVIOUS
  <2> HIDE DEF F, G, H, K
  <2>5. /\ a * (f[x] + F) = a * f[x] + a * F
        /\ b * (g[x] + G) = b * g[x] + b * G
        /\ c * (h[x] + H) = c * h[x] + c * H
    BY <2>2, <2>4
  <2>6. SumOf(k, s) = a * SumOf(f, s) + b * SumOf(g, s) + c * SumOf(h, s)
    BY <2>2, <2>3, <2>4, <2>5
  <2> QED BY <2>6
<1>4. S \in Q
  <2> HIDE DEF Q
  <2>1. SUBSET S \subseteq Q
    BY <1>2, <1>3, AllParts
  <2> QED BY <2>1
<1> QED BY <1>4

LEMMA SumAdds ==
  ASSUME NEW S, IsFiniteSet(S), NEW f, NEW g, NEW k,
         \A x \in S : f[x] \in Int /\ g[x] \in Int /\ k[x] = f[x] + g[x]
  PROVE  SumOf(k, S) = SumOf(f, S) + SumOf(g, S)
<1>1. \A x \in S : f[x] \in Int /\ g[x] \in Int /\ k[x] \in Int
  OBVIOUS
<1> DEFINE Q == {s \in SUBSET S : SumOf(k, s) = SumOf(f, s) + SumOf(g, s)}
<1>2. {} \in Q
  BY SumEmpty
<1>3. ASSUME NEW s \in SUBSET S, s # {}, \A x \in s : s \ {x} \in Q
      PROVE  s \in Q
  <2>1. PICK x \in s : TRUE
    BY <1>3
  <2>2. /\ SumOf(f, s) = f[x] + SumOf(f, s \ {x}) /\ SumOf(f, s \ {x}) \in Int
        /\ SumOf(g, s) = g[x] + SumOf(g, s \ {x}) /\ SumOf(g, s \ {x}) \in Int
        /\ SumOf(k, s) = k[x] + SumOf(k, s \ {x}) /\ SumOf(k, s \ {x}) \in Int
    BY <1>1, SumParts
  <2>3. SumOf(k, s \ {x}) = SumOf(f, s \ {x}) + SumOf(g, s \ {x})
    BY <1>3
  <2>4. k[x] = f[x] + g[x] /\ f[x] \in Int /\ g[x] \in Int
    OBVIOUS
  <2>5. SumOf(k, s) = SumOf(f, s) + SumOf(g, s)
    BY <2>2, <2>3, <2>4
  <2> QED BY <2>5
<1>4. S \in Q
  <2> HIDE DEF Q
  <2>1. SUBSET S \subseteq Q
    BY <1>2, <1>3, AllParts
  <2> QED BY <2>1
<1> QED BY <1>4

LEMMA SumMonotone ==
  ASSUME NEW S, IsFiniteSet(S), NEW f, NEW g,
         \A x \in S : f[x] \in Int /\ g[x] \in Int /\ f[x] <= g[x]
  PROVE  SumOf(f, S) <= SumOf(g, S)
<1> DEFINE Q == {s \in SUBSET S : SumOf(f, s) <= SumOf(g, s)}
<1>1. {} \in Q
  BY SumEmpty
<1>2. ASSUME NEW s \in SUBSET S, s # {}, \A x \in s : s \ {x} \in Q
      PROVE  s \in Q
  <2>1. PICK x \in s : TRUE
    BY <1>2
  <2>2. /\ SumOf(f, s) = f[x] + SumOf(f, s \ {x}) /\ SumOf(f, s \ {x}) \in Int
        /\ SumOf(g, s) = g[x] + SumOf(g, s \ {x}) /\ SumOf(g, s \ {x}) \in Int
    BY SumParts
  <2>3. SumOf(f, s \ {x}) <= SumOf(g, s \ {x}) /\ f[x] <= g[x] /\ f[x] \in Int /\ g[x] \in Int
    BY <1>2
  <2>4. SumOf(f, s) <= SumOf(g, s)
    BY <2>2, <2>3
  <2> QED BY <2>4
<1>3. S \in Q
  <2> HIDE DEF Q
  <2>1. SUBSET S \subseteq Q
    BY <1>1, <1>2, AllParts
  <2> QED BY <2>1
<1> QED BY <1>3

LEMMA SumConstant ==
  ASSUME NEW S, IsFiniteSet(S), NEW c \in Int, NEW f, \A x \in S : f[x] = c
  PROVE  SumOf(f, S) = c * Cardinality(S)
<1> DEFINE Q == {s \in SUBSET S : SumOf(f, s) = c * Cardinality(s)}
<1>1. {} \in Q
  BY SumEmpty, FS_EmptySet
<1>2. ASSUME NEW s \in SUBSET S, s # {}, \A x \in s : s \ {x} \in Q
      PROVE  s \in Q
  <2>1. PICK x \in s : TRUE
    BY <1>2
  <2>2. SumOf(f, s) = c + SumOf(f, s \ {x})
    BY SumParts
  <2>3. SumOf(f, s \ {x}) = c * Cardinality(s \ {x})
    BY <1>2
  <2>4. IsFiniteSet(s)
    BY FS_Subset
  <2>5. Cardinality(s \ {x}) = Cardinality(s) - 1 /\ Cardinality(s) \in Nat
    BY <2>4, FS_RemoveElement, FS_CardinalityType
  <2>6. c + c * (Cardinality(s) - 1) = c * Cardinality(s)
    BY <2>5
  <2> QED BY <2>2, <2>3, <2>5, <2>6
<1>3. S \in Q
  <2> HIDE DEF Q
  <2>1. SUBSET S \subseteq Q
    BY <1>1, <1>2, AllParts
  <2> QED BY <2>1
<1> QED BY <1>3

\* A sum of bits counts.
LEMMA SumBits ==
  ASSUME NEW S, IsFiniteSet(S), NEW A, NEW f, \A x \in S : f[x] = Bit(x \in A)
  PROVE  SumOf(f, S) = Cardinality(S \cap A)
<1>1. \A x \in S : f[x] \in Int
  BY DEF Bit
<1> DEFINE Q == {s \in SUBSET S : SumOf(f, s) = Cardinality(s \cap A)}
<1>2. {} \in Q
  <2>1. {} \cap A = {}
    OBVIOUS
  <2> QED BY <2>1, SumEmpty, FS_EmptySet
<1>3. ASSUME NEW s \in SUBSET S, s # {}, \A x \in s : s \ {x} \in Q
      PROVE  s \in Q
  <2>1. PICK x \in s : TRUE
    BY <1>3
  <2>2. SumOf(f, s) = f[x] + SumOf(f, s \ {x})
    BY <1>1, SumParts
  <2>3. SumOf(f, s \ {x}) = Cardinality((s \ {x}) \cap A)
    BY <1>3
  <2>4. IsFiniteSet(s \cap A)
    BY FS_Subset
  <2>5. (s \ {x}) \cap A = (s \cap A) \ {x} /\ Cardinality(s \cap A) \in Nat
    BY <2>4, FS_CardinalityType
  <2>6. Cardinality((s \cap A) \ {x})
          = IF x \in s \cap A THEN Cardinality(s \cap A) - 1 ELSE Cardinality(s \cap A)
    BY <2>4, FS_RemoveElement
  <2>7. SumOf(f, s) = Cardinality(s \cap A)
    <3> DEFINE n == Cardinality(s \cap A)
    <3>1. CASE x \in A
      <4>1. f[x] = 1 /\ SumOf(f, s \ {x}) = n - 1 /\ n \in Nat
        BY <2>1, <2>3, <2>5, <2>6, <3>1 DEF Bit
      <4> HIDE DEF n
      <4> QED BY <2>2, <4>1 DEF n
    <3>2. CASE x \notin A
      <4>1. f[x] = 0 /\ SumOf(f, s \ {x}) = n /\ n \in Nat
        BY <2>1, <2>3, <2>5, <2>6, <3>2 DEF Bit
      <4> HIDE DEF n
      <4> QED BY <2>2, <4>1 DEF n
    <3> QED BY <3>1, <3>2
  <2> QED BY <2>7
<1>4. S \in Q
  <2> HIDE DEF Q
  <2>1. SUBSET S \subseteq Q
    BY <1>2, <1>3, AllParts
  <2> QED BY <2>1
<1> QED BY <1>4

\* The sum of r over a rectangle, by rows and by columns.
ByRows(r, S, T) == SumOf([x \in S |-> SumOf([y \in T |-> r[<<x, y>>]], T)], S)
ByColumns(r, S, T) == SumOf([y \in T |-> SumOf([x \in S |-> r[<<x, y>>]], S)], T)

LEMMA SumSwap ==
  ASSUME NEW S, IsFiniteSet(S), NEW T, IsFiniteSet(T), NEW r, \A p \in S \X T : r[p] \in Int
  PROVE  ByRows(r, S, T) = ByColumns(r, S, T)
<1> DEFINE row(x) == [y \in T |-> r[<<x, y>>]]
           rows == [x \in S |-> SumOf(row(x), T)]
           col(y) == [x \in S |-> r[<<x, y>>]]
           cols(s) == [y \in T |-> SumOf(col(y), s)]
           Q == {s \in SUBSET S : SumOf(rows, s) = SumOf(cols(s), T)}
<1>1. \A x \in S, y \in T : row(x)[y] = r[<<x, y>>] /\ col(y)[x] = r[<<x, y>>] /\ r[<<x, y>>] \in Int
  OBVIOUS
<1>2. \A x \in S : rows[x] = SumOf(row(x), T) /\ rows[x] \in Int
  <2> SUFFICES ASSUME NEW x \in S PROVE rows[x] = SumOf(row(x), T) /\ rows[x] \in Int
    OBVIOUS
  <2>1. \A y \in T : row(x)[y] \in Int
    BY <1>1
  <2> HIDE DEF row
  <2> QED BY <2>1, SumOfIs
<1>3. \A y \in T : \A s \in SUBSET S :
        /\ cols(s)[y] = SumOf(col(y), s) /\ cols(s)[y] \in Int
        /\ \A x \in s : cols(s)[y] = r[<<x, y>>] + cols(s \ {x})[y]
  <2> SUFFICES ASSUME NEW y \in T, NEW s \in SUBSET S
               PROVE  /\ cols(s)[y] = SumOf(col(y), s) /\ cols(s)[y] \in Int
                      /\ \A x \in s : cols(s)[y] = r[<<x, y>>] + cols(s \ {x})[y]
    OBVIOUS
  <2>1. PICK c : c = col(y)
    OBVIOUS
  <2>2. \A x \in S : c[x] = r[<<x, y>>]
    BY <1>1, <2>1
  <2>3. \A x \in S : c[x] \in Int
    BY <1>1, <2>1
  <2>4. /\ SumOf(c, s) \in Int
        /\ \A x \in s : SumOf(c, s) = c[x] + SumOf(c, s \ {x})
    BY <2>3, SumParts
  <2> QED BY <2>1, <2>2, <2>4
<1>4. {} \in Q
  <2>1. \A y \in T : cols({})[y] = 0
    BY SumEmpty
  <2>2. SumOf(cols({}), T) = 0 * Cardinality(T)
    <3> HIDE DEF cols
    <3> QED BY <2>1, SumConstant
  <2>3. Cardinality(T) \in Nat
    BY FS_CardinalityType
  <2>4. SumOf(rows, {}) = 0
    BY SumEmpty
  <2> HIDE DEF rows, cols
  <2> QED BY <2>2, <2>3, <2>4
<1>5. ASSUME NEW s \in SUBSET S, s # {}, \A x \in s : s \ {x} \in Q
      PROVE  s \in Q
  <2>1. PICK x \in s : TRUE
    BY <1>5
  <2> DEFINE u == s \ {x}
  <2>2. u \in SUBSET S /\ u \in Q
    BY <1>5
  <2>3. SumOf(rows, u) = SumOf(cols(u), T)
    BY <2>2
  <2>4. SumOf(rows, s) = rows[x] + SumOf(rows, u) /\ SumOf(rows, u) \in Int
    <3> HIDE DEF rows
    <3> QED BY <1>2, SumParts
  <2>5. \A y \in T : /\ row(x)[y] \in Int /\ cols(u)[y] \in Int
                     /\ cols(s)[y] = row(x)[y] + cols(u)[y]
    <3> SUFFICES ASSUME NEW y \in T
                 PROVE  /\ row(x)[y] \in Int /\ cols(u)[y] \in Int
                        /\ cols(s)[y] = row(x)[y] + cols(u)[y]
      OBVIOUS
    <3>1. row(x)[y] = r[<<x, y>>] /\ row(x)[y] \in Int
      BY <1>1
    <3>2. cols(s)[y] = r[<<x, y>>] + cols(u)[y] /\ cols(u)[y] \in Int
      <4> HIDE DEF cols
      <4> QED BY <1>3, <2>2
    <3> HIDE DEF cols, row
    <3> QED BY <3>1, <3>2
  <2>6. SumOf(cols(s), T) = SumOf(row(x), T) + SumOf(cols(u), T)
    <3> HIDE DEF cols, row
    <3>1. PICK g, h, k : g = row(x) /\ h = cols(u) /\ k = cols(s)
      OBVIOUS
    <3>2. \A y \in T : g[y] \in Int /\ h[y] \in Int /\ k[y] = g[y] + h[y]
      BY <2>5, <3>1
    <3>3. SumOf(k, T) = SumOf(g, T) + SumOf(h, T)
      BY <3>2, SumAdds
    <3> QED BY <3>1, <3>3
  <2>7. SumOf(row(x), T) = rows[x] /\ rows[x] \in Int
    BY <1>2
  <2> HIDE DEF rows, cols, row
  <2>8. SumOf(rows, s) = SumOf(cols(s), T)
    BY <2>3, <2>4, <2>6, <2>7
  <2> QED BY <2>8
<1>6. S \in Q
  <2> HIDE DEF Q
  <2>1. SUBSET S \subseteq Q
    BY <1>4, <1>5, AllParts
  <2> QED BY <2>1
<1> QED BY <1>6 DEF ByRows, ByColumns

-----------------------------------------------------------------------------
(* The statistic of one cut.                                               *)

Gap(n, m, k, l) ==
  (m * (m - 1)) * (k * (k - 1)) + (n * (n - 1)) * (l * (l - 1)) - 2 * (((n - 1) * (m - 1)) * (k * l))

Moved(n, m, k, l, i) ==
  ((i - k) * (i - k)) * (m * (m - 1) + n * (n - 1) + 2 * ((n - 1) * (m - 1)))
    + (i - k) * ((n - 1) * (n - 2 * k) - (m - 1) * (m - 2 * l))

LEMMA GapMoves ==
  ASSUME NEW n \in Int, NEW m \in Int, NEW k \in Int, NEW l \in Int, NEW i \in Int, NEW j \in Int,
         m * k = n * l, i + j = k + l
  PROVE  Gap(n, m, i, j) - Gap(n, m, k, l) = Moved(n, m, k, l, i)
<1> DEFINE d == i - k
<1>0. d \in Int /\ i = k + d /\ j = l - d
  OBVIOUS
<1> HIDE DEF d
<1> DEFINE M == m - 1
           N == n - 1
<1>1. M \in Int /\ N \in Int
  OBVIOUS
<1>2. (k + d) * (k + d - 1) = k * (k - 1) + (2 * (k * d) + d * d - d)
  BY <1>0
<1>3. (l - d) * (l - d - 1) = l * (l - 1) + (d * d - 2 * (l * d) + d)
  BY <1>0
<1>4. (k + d) * (l - d) = k * l + (d * l - d * k - d * d)
  BY <1>0
<1> DEFINE a == m * M
           b == n * N
           c == N * M
           kk == 2 * (k * d) + d * d - d
           ll == d * d - 2 * (l * d) + d
           kl == d * l - d * k - d * d
<1>5. a \in Int /\ b \in Int /\ c \in Int /\ kk \in Int /\ ll \in Int /\ kl \in Int
  BY <1>0
<1>6. Gap(n, m, k + d, l - d) = a * (k * (k - 1) + kk) + b * (l * (l - 1) + ll) - 2 * (c * (k * l + kl))
  BY <1>0, <1>2, <1>3, <1>4, <1>5 DEF Gap
<1>7. Gap(n, m, k, l) = a * (k * (k - 1)) + b * (l * (l - 1)) - 2 * (c * (k * l))
  BY DEF Gap
<1>8. Gap(n, m, k + d, l - d) - Gap(n, m, k, l) = a * kk + b * ll - 2 * (c * kl)
  <2> HIDE DEF a, b, c, kk, ll, kl
  <2>1. /\ a * (k * (k - 1) + kk) = a * (k * (k - 1)) + a * kk
        /\ b * (l * (l - 1) + ll) = b * (l * (l - 1)) + b * ll
        /\ c * (k * l + kl) = c * (k * l) + c * kl
    BY <1>0, <1>5
  <2>2. /\ a * (k * (k - 1)) \in Int /\ a * kk \in Int /\ b * (l * (l - 1)) \in Int
        /\ b * ll \in Int /\ c * (k * l) \in Int /\ c * kl \in Int
    BY <1>0, <1>5
  <2> QED BY <1>6, <1>7, <2>1, <2>2
<1>9. /\ a * kk = 2 * ((a * k) * d) + a * (d * d) - a * d
      /\ b * ll = b * (d * d) - 2 * ((b * l) * d) + b * d
      /\ c * kl = (c * l) * d - (c * k) * d - c * (d * d)
  <2> HIDE DEF a, b, c
  <2> QED BY <1>0, <1>5
<1>10. a * k = M * (n * l) /\ b * l = N * (m * k)
  OBVIOUS
<1>11. a * k - b * l - c * l + c * k = M * l - N * k
  OBVIOUS
<1>12. a * kk + b * ll - 2 * (c * kl)
         = (d * d) * (a + b + 2 * c) + d * (b - a + 2 * (a * k - b * l - c * l + c * k))
  <2> HIDE DEF a, b, c
  <2> QED BY <1>0, <1>5, <1>9
<1>13. b - a + 2 * (M * l - N * k) = N * (n - 2 * k) - M * (m - 2 * l)
  OBVIOUS
<1>14. Gap(n, m, i, j) = Gap(n, m, k + d, l - d)
  BY <1>0
<1> QED BY <1>8, <1>11, <1>12, <1>13, <1>14 DEF d, Moved

LEMMA GapLeast ==
  ASSUME NEW n \in Nat \ {0}, NEW m \in Nat \ {0}, NEW k \in 0 .. n, NEW l \in 0 .. m, NEW i \in Int, NEW j \in Int,
         m * k = n * l, i + j = k + l
  PROVE  Gap(n, m, i, j) >= Gap(n, m, k, l)
<1> DEFINE d == i - k
           A == n * (n - 1)
           B == m * (m - 1)
           C == (n - 1) * (m - 1)
           e == (n - 1) * (n - 2 * k) - (m - 1) * (m - 2 * l)
<1>1. A \in Nat /\ B \in Nat /\ C \in Nat /\ e \in Int /\ d \in Int
  OBVIOUS
<1>2. -A <= (n - 1) * (n - 2 * k) /\ (n - 1) * (n - 2 * k) <= A
  <2>1. n - 1 \in Nat /\ n - 2 * k \in Int /\ -n <= n - 2 * k /\ n - 2 * k <= n
    OBVIOUS
  <2>2. \A x \in Nat, y \in Int : -n <= y /\ y <= n => -(n * x) <= x * y /\ x * y <= n * x
    OBVIOUS
  <2> QED BY <2>1, <2>2
<1>3. -B <= (m - 1) * (m - 2 * l) /\ (m - 1) * (m - 2 * l) <= B
  <2>1. m - 1 \in Nat /\ m - 2 * l \in Int /\ -m <= m - 2 * l /\ m - 2 * l <= m
    OBVIOUS
  <2>2. \A x \in Nat, y \in Int : -m <= y /\ y <= m => -(m * x) <= x * y /\ x * y <= m * x
    OBVIOUS
  <2> QED BY <2>1, <2>2
<1>4. -(A + B) <= e /\ e <= A + B
  BY <1>2, <1>3
<1>5. Gap(n, m, i, j) - Gap(n, m, k, l) = (d * d) * (B + A + 2 * C) + d * e
  <2>1. n \in Int /\ m \in Int /\ k \in Int /\ l \in Int
    OBVIOUS
  <2>2. Gap(n, m, i, j) - Gap(n, m, k, l) = Moved(n, m, k, l, i)
    BY <2>1, GapMoves
  <2> QED BY <2>2 DEF Moved
<1>6. Gap(n, m, i, j) \in Int /\ Gap(n, m, k, l) \in Int
  <2>1. i \in Int /\ j \in Int
    OBVIOUS
  <2> QED BY <2>1 DEF Gap
<1> DEFINE g == Gap(n, m, i, j)
           h == Gap(n, m, k, l)
           z == A + B
<1> HIDE DEF A, B, C, d, e, g, h
<1>7. z \in Nat /\ (d * d) * (B + A + 2 * C) = (d * d) * z + 2 * ((d * d) * C)
  BY <1>1
<1>8. (d * d) * C >= 0 /\ (d * d) * z >= 0 /\ d * d \in Nat
  BY <1>1, <1>7
<1> HIDE DEF z
<1>9. (d * d) * z + d * e >= 0
  <2>1. d * e >= -((d * d) * z)
    <3>1. CASE d = 0
      BY <1>1, <1>7, <3>1
    <3>2. CASE d > 0
      <4>1. d * e >= d * (-z)
        BY <1>1, <1>4, <1>7, <3>2 DEF z
      <4>2. d * d >= d
        BY <1>1, <3>2
      <4>3. (d * d) * z >= d * z
        BY <1>1, <1>7, <1>8, <3>2, <4>2
      <4> QED BY <1>1, <1>7, <1>8, <4>1, <4>3
    <3>3. CASE d < 0
      <4>1. d * e >= d * z
        BY <1>1, <1>4, <1>7, <3>3 DEF z
      <4>2. d * d >= -d
        BY <1>1, <3>3
      <4>3. (d * d) * z >= (-d) * z
        BY <1>1, <1>7, <1>8, <3>3, <4>2
      <4>4. (-d) * z = -(d * z) /\ d * z \in Int /\ d * e \in Int /\ (d * d) * z \in Int
        BY <1>1, <1>7
      <4> QED BY <1>8, <4>1, <4>3, <4>4
    <3> QED BY <1>1, <3>1, <3>2, <3>3
  <2> QED BY <1>1, <1>7, <1>8, <2>1
<1>10. d * e \in Int /\ (d * d) * C \in Int /\ (d * d) * z \in Int
  BY <1>1, <1>7
<1>11. g - h >= 0
  BY <1>5, <1>7, <1>8, <1>9, <1>10 DEF g, h
<1>12. g \in Int /\ h \in Int
  BY <1>6 DEF g, h
<1> QED BY <1>11, <1>12 DEF g, h

\* The numerator of the statistic, for one cut.
Cost(n, m, P, Q, w, u, x) == 2 * ((P * Q) * x) - (n * m) * (Q * w + P * u)

LEMMA CostIsGap ==
  ASSUME NEW n \in Int, NEW m \in Int, NEW k \in Int, NEW l \in Int, NEW P \in Int, NEW Q \in Int,
         2 * P = n * (n - 1), 2 * Q = m * (m - 1)
  PROVE  2 * Cost(n, m, P, Q, k * (n - k), l * (m - l), k * (m - l) + (n - k) * l)
           = (n * m) * Gap(n, m, k, l)
<1> DEFINE w == k * (n - k)
           u == l * (m - l)
           x == k * (m - l) + (n - k) * l
<1>1. w \in Int /\ u \in Int /\ x \in Int
  OBVIOUS
<1>2. 2 * Cost(n, m, P, Q, w, u, x) = ((2 * P) * (2 * Q)) * x - (n * m) * ((2 * Q) * w + (2 * P) * u)
  <2> HIDE DEF w, u, x
  <2> QED BY <1>1 DEF Cost
<1> DEFINE N == n - 1
           M == m - 1
<1>3. N \in Int /\ M \in Int /\ n = N + 1 /\ m = M + 1
  OBVIOUS
<1>4. ((n * N) * (m * M)) * x = (n * m) * ((N * M) * x)
  <2> HIDE DEF w, u, x, N, M
  <2> QED BY <1>1, <1>3
<1>5. 2 * Cost(n, m, P, Q, w, u, x) = (n * m) * ((N * M) * x - ((m * M) * w + (n * N) * u))
  <2>1. 2 * P = n * N /\ 2 * Q = m * M
    OBVIOUS
  <2> HIDE DEF w, u, x, N, M
  <2>2. 2 * Cost(n, m, P, Q, w, u, x) = ((n * N) * (m * M)) * x - (n * m) * ((m * M) * w + (n * N) * u)
    BY <1>2, <2>1
  <2>3. ((m * M) * w + (n * N) * u) \in Int /\ (N * M) * x \in Int /\ n * m \in Int
    BY <1>1, <1>3
  <2>4. \A a, b, c \in Int : a * b - a * c = a * (b - c)
    OBVIOUS
  <2> QED BY <1>4, <2>2, <2>3, <2>4
<1>6. (N * M) * x - ((m * M) * w + (n * N) * u) = Gap(n, m, k, l)
  <2>1. x = k * m + n * l - 2 * (k * l)
    OBVIOUS
  <2>2. w = k * n - k * k /\ u = l * m - l * l
    OBVIOUS
  <2>3. k * (k - 1) = k * k - k /\ l * (l - 1) = l * l - l
    OBVIOUS
  <2>4. Gap(n, m, k, l) = (m * M) * (k * k - k) + (n * N) * (l * l - l) - 2 * ((N * M) * (k * l))
    BY <2>3 DEF Gap
  <2> DEFINE a == m * M
             b == n * N
             c == N * M
  <2>5. a \in Int /\ b \in Int /\ c \in Int
    OBVIOUS
  <2>6. c * x = c * (k * m) + c * (n * l) - 2 * (c * (k * l))
    BY <2>1, <2>5
  <2>7. a * w + b * u = a * (k * n) - a * (k * k) + b * (l * m) - b * (l * l)
    BY <2>2, <2>5
  <2>8. c * (k * m) = N * (k * a) /\ a * (k * n) = N * (k * a) + k * a
    OBVIOUS
  <2>9. c * (n * l) = M * (l * b) /\ b * (l * m) = M * (l * b) + l * b
    OBVIOUS
  <2>10. Gap(n, m, k, l) = a * (k * k) - a * k + b * (l * l) - b * l - 2 * (c * (k * l))
    BY <2>4, <2>5
  <2> HIDE DEF a, b, c, w, u, x
  <2> QED BY <1>1, <1>3, <2>5, <2>6, <2>7, <2>8, <2>9, <2>10 DEF a, b, c
<1> QED BY <1>5, <1>6

-----------------------------------------------------------------------------
(* Counting pairs of places.                                               *)

LEMMA OneToOne ==
  ASSUME NEW S, NEW T, IsFiniteSet(S), NEW f \in [S -> T],
         \A x, y \in S : f[x] = f[y] => x = y,
         \A z \in T : \E x \in S : f[x] = z
  PROVE  IsFiniteSet(T) /\ Cardinality(T) = Cardinality(S)
<1>1. f \in Bijection(S, T)
  BY DEF Bijection, Injection, Surjection, IsInjective
<1> QED BY <1>1, FS_Bijection DEF ExistsBijection

LEMMA ApartCount ==
  ASSUME NEW S, NEW T, IsFiniteSet(S), IsFiniteSet(T), S \cap T = {}
  PROVE  IsFiniteSet(S \cup T) /\ Cardinality(S \cup T) = Cardinality(S) + Cardinality(T)
<1>1. Cardinality(S \cap T) = 0
  BY FS_EmptySet
<1>2. Cardinality(S) \in Nat /\ Cardinality(T) \in Nat
  BY FS_CardinalityType
<1>3. IsFiniteSet(S \cup T)
      /\ Cardinality(S \cup T) = Cardinality(S) + Cardinality(T) - Cardinality(S \cap T)
  BY FS_Union
<1> QED BY <1>1, <1>2, <1>3

LEMMA PairsCount ==
  ASSUME NEW I \in SUBSET Int, IsFiniteSet(I)
  PROVE  /\ IsFiniteSet(Pairs(I)) /\ Cardinality(Pairs(I)) \in Nat /\ Cardinality(I) \in Nat
         /\ 2 * Cardinality(Pairs(I)) = Cardinality(I) * (Cardinality(I) - 1)
<1> DEFINE up == Pairs(I)
           down == {p \in I \X I : p[2] < p[1]}
           flat == {p \in I \X I : p[1] = p[2]}
           n == Cardinality(I)
<1>1. IsFiniteSet(I \X I) /\ Cardinality(I \X I) = n * n /\ n \in Nat
  BY FS_Product, FS_CardinalityType
<1>2. IsFiniteSet(up) /\ IsFiniteSet(down) /\ IsFiniteSet(flat) /\ IsFiniteSet(up \cup down)
  BY <1>1, FS_Subset DEF Pairs
<1>3. Cardinality(down) = Cardinality(up)
  <2> DEFINE f == [p \in up |-> <<p[2], p[1]>>]
  <2>1. f \in [up -> down]
    BY DEF Pairs
  <2>2. \A x, y \in up : f[x] = f[y] => x = y
    BY DEF Pairs
  <2>3. ASSUME NEW z \in down PROVE \E x \in up : f[x] = z
    <3> DEFINE x == <<z[2], z[1]>>
    <3>1. x \in up /\ f[x] = z
      BY DEF Pairs
    <3> QED BY <3>1
  <2> HIDE DEF f, up, down
  <2> QED BY <1>2, <2>1, <2>2, <2>3, OneToOne
<1>4. Cardinality(flat) = n
  <2> DEFINE f == [x \in I |-> <<x, x>>]
  <2>1. f \in [I -> flat]
    OBVIOUS
  <2>2. \A x, y \in I : f[x] = f[y] => x = y
    OBVIOUS
  <2>3. ASSUME NEW z \in flat PROVE \E x \in I : f[x] = z
    <3>1. z[1] \in I /\ z = <<z[1], z[1]>>
      OBVIOUS
    <3>2. f[z[1]] = z
      BY <3>1
    <3> QED BY <3>1, <3>2
  <2> HIDE DEF f, flat
  <2> QED BY <2>1, <2>2, <2>3, OneToOne
<1>5. I \X I = (up \cup down) \cup flat /\ up \cap down = {} /\ (up \cup down) \cap flat = {}
  <2>1. \A p \in I \X I : /\ p[1] \in Int /\ p[2] \in Int
                          /\ p \in up <=> p[1] < p[2]
                          /\ p \in down <=> p[2] < p[1]
                          /\ p \in flat <=> p[1] = p[2]
    BY DEF Pairs
  <2>2. up \subseteq I \X I /\ down \subseteq I \X I /\ flat \subseteq I \X I
    BY DEF Pairs
  <2> HIDE DEF up, down, flat
  <2>3. \A p \in I \X I : p \in up \/ p \in down \/ p \in flat
    BY <2>1
  <2>4. \A p \in I \X I : ~ (p \in up /\ p \in down) /\ ~ (p \in up /\ p \in flat)
                          /\ ~ (p \in down /\ p \in flat)
    BY <2>1
  <2> DEFINE X == I \X I
  <2> HIDE DEF X
  <2>5. /\ up \subseteq X /\ down \subseteq X /\ flat \subseteq X
        /\ \A p \in X : p \in up \/ p \in down \/ p \in flat
        /\ \A p \in X : ~ (p \in up /\ p \in down) /\ ~ (p \in up /\ p \in flat)
                       /\ ~ (p \in down /\ p \in flat)
    BY <2>2, <2>3, <2>4 DEF X
  <2>6. X = (up \cup down) \cup flat /\ up \cap down = {} /\ (up \cup down) \cap flat = {}
    BY <2>5
  <2> QED BY <2>6 DEF X
<1> HIDE DEF up, down, flat, n
<1>6. Cardinality(up \cup down) = Cardinality(up) + Cardinality(down)
  BY <1>2, <1>5, ApartCount
<1>7. n * n = Cardinality(up \cup down) + Cardinality(flat)
  BY <1>1, <1>2, <1>5, ApartCount
<1>8. Cardinality(up) \in Nat
  BY <1>2, FS_CardinalityType
<1>9. 2 * Cardinality(up) = n * (n - 1)
  BY <1>1, <1>3, <1>4, <1>6, <1>7, <1>8
<1> QED BY <1>1, <1>2, <1>8, <1>9 DEF up, n

\* The pairs with one place in M and one outside.
Across(M, pairs) == {p \in pairs : ~ (p[1] \in M <=> p[2] \in M)}

LEMMA AcrossPairs ==
  ASSUME NEW I \in SUBSET Int, IsFiniteSet(I), NEW M
  PROVE  Cardinality(Across(M, Pairs(I)))
           = Cardinality(I \cap M) * (Cardinality(I) - Cardinality(I \cap M))
<1> DEFINE K == I \cap M
           L == I \ M
           T == Across(M, Pairs(I))
           f == [q \in K \X L |-> IF q[1] < q[2] THEN <<q[1], q[2]>> ELSE <<q[2], q[1]>>]
<1>1. IsFiniteSet(K) /\ IsFiniteSet(L) /\ Cardinality(L) = Cardinality(I) - Cardinality(K)
  <2>1. IsFiniteSet(I \ M) /\ Cardinality(I \ M) = Cardinality(I) - Cardinality(I \cap M)
    BY FS_Difference
  <2> QED BY <2>1, FS_Subset
<1>2. IsFiniteSet(K \X L) /\ Cardinality(K \X L) = Cardinality(K) * Cardinality(L)
  BY <1>1, FS_Product
<1>3. ASSUME NEW q \in K \X L
      PROVE  /\ q[1] \in Int /\ q[2] \in Int /\ q[1] \in I /\ q[2] \in I
             /\ q[1] \in M /\ q[2] \notin M
             /\ f[q] = IF q[1] < q[2] THEN <<q[1], q[2]>> ELSE <<q[2], q[1]>>
  OBVIOUS
<1>4. f \in [K \X L -> T]
  <2>1. ASSUME NEW q \in K \X L PROVE f[q] \in T
    BY <1>3 DEF Across, Pairs
  <2> QED BY <2>1
<1>5. \A x, y \in K \X L : f[x] = f[y] => x = y
  <2> SUFFICES ASSUME NEW x \in K \X L, NEW y \in K \X L, f[x] = f[y] PROVE x = y
    OBVIOUS
  <2>1. x[1] \in M /\ x[2] \notin M /\ y[1] \in M /\ y[2] \notin M
    BY <1>3
  <2>2. x[1] = y[1] /\ x[2] = y[2]
    <3>1. \/ f[x][1] = x[1] /\ f[x][2] = x[2]
          \/ f[x][1] = x[2] /\ f[x][2] = x[1]
      BY <1>3
    <3>2. \/ f[y][1] = y[1] /\ f[y][2] = y[2]
          \/ f[y][1] = y[2] /\ f[y][2] = y[1]
      BY <1>3
    <3> HIDE DEF f
    <3>3. \/ x[1] = y[1] /\ x[2] = y[2]
          \/ x[1] = y[2] /\ x[2] = y[1]
      BY <3>1, <3>2
    <3> QED BY <2>1, <3>3
  <2> QED BY <2>2
<1>6. ASSUME NEW z \in T PROVE \E x \in K \X L : f[x] = z
  <2>1. z \in I \X I /\ z[1] < z[2] /\ ~ (z[1] \in M <=> z[2] \in M)
        /\ z = <<z[1], z[2]>> /\ z[1] \in Int /\ z[2] \in Int
    <3>1. z \in I \X I /\ z[1] < z[2] /\ ~ (z[1] \in M <=> z[2] \in M)
      BY DEF Across, Pairs
    <3>2. z = <<z[1], z[2]>> /\ z[1] \in I /\ z[2] \in I
      BY <3>1
    <3>3. z[1] \in Int /\ z[2] \in Int
      BY <3>2
    <3> QED BY <3>1, <3>2, <3>3
  <2>2. CASE z[1] \in M
    <3> DEFINE x == <<z[1], z[2]>>
    <3>1. x \in K \X L /\ x[1] = z[1] /\ x[2] = z[2]
      BY <2>1, <2>2
    <3>2. f[x] = z
      BY <2>1, <3>1
    <3> QED BY <3>1, <3>2
  <2>3. CASE z[1] \notin M
    <3> DEFINE x == <<z[2], z[1]>>
    <3>1. x \in K \X L /\ x[1] = z[2] /\ x[2] = z[1] /\ ~ (x[1] < x[2])
      BY <2>1, <2>3
    <3>2. f[x] = z
      BY <2>1, <3>1
    <3> QED BY <3>1, <3>2
  <2> QED BY <2>2, <2>3
<1>7. Cardinality(T) = Cardinality(K \X L)
  <2>1. PICK S : S = K \X L
    OBVIOUS
  <2>2. IsFiniteSet(S) /\ f \in [S -> T]
    BY <1>2, <1>4, <2>1
  <2>3. \A x, y \in S : f[x] = f[y] => x = y
    BY <1>5, <2>1
  <2>4. \A z \in T : \E x \in S : f[x] = z
    BY <1>6, <2>1
  <2> HIDE DEF f, T, K, L
  <2>5. Cardinality(T) = Cardinality(S)
    BY <2>2, <2>3, <2>4, OneToOne
  <2> QED BY <2>1, <2>5
<1> QED BY <1>1, <1>2, <1>7

LEMMA AcrossSides ==
  ASSUME NEW I, IsFiniteSet(I), NEW J, IsFiniteSet(J), NEW M
  PROVE  Cardinality(Across(M, I \X J))
           = Cardinality(I \cap M) * (Cardinality(J) - Cardinality(J \cap M))
             + (Cardinality(I) - Cardinality(I \cap M)) * Cardinality(J \cap M)
<1> DEFINE A == (I \cap M) \X (J \ M)
           B == (I \ M) \X (J \cap M)
<1>1. Across(M, I \X J) = A \cup B /\ A \cap B = {}
  BY DEF Across
<1>2. /\ IsFiniteSet(I \ M) /\ Cardinality(I \ M) = Cardinality(I) - Cardinality(I \cap M)
      /\ IsFiniteSet(J \ M) /\ Cardinality(J \ M) = Cardinality(J) - Cardinality(J \cap M)
  BY FS_Difference
<1>3. IsFiniteSet(I \cap M) /\ IsFiniteSet(J \cap M)
  BY FS_Intersection
<1>4. IsFiniteSet(A) /\ Cardinality(A) = Cardinality(I \cap M) * Cardinality(J \ M)
  BY <1>2, <1>3, FS_Product
<1>5. IsFiniteSet(B) /\ Cardinality(B) = Cardinality(I \ M) * Cardinality(J \cap M)
  BY <1>2, <1>3, FS_Product
<1>6. Cardinality(A \cup B) = Cardinality(A) + Cardinality(B)
  <2> HIDE DEF A, B
  <2> QED BY <1>1, <1>4, <1>5, ApartCount
<1> QED BY <1>1, <1>2, <1>4, <1>5, <1>6

LEMMA SumScales ==
  ASSUME NEW S, IsFiniteSet(S), NEW c \in Int, NEW f, NEW g,
         \A x \in S : f[x] \in Int /\ g[x] = c * f[x]
  PROVE  SumOf(g, S) = c * SumOf(f, S)
<1>1. \A x \in S : f[x] \in Int /\ g[x] \in Int
  OBVIOUS
<1> DEFINE Q == {s \in SUBSET S : SumOf(g, s) = c * SumOf(f, s)}
<1>2. {} \in Q
  BY SumEmpty
<1>3. ASSUME NEW s \in SUBSET S, s # {}, \A x \in s : s \ {x} \in Q
      PROVE  s \in Q
  <2>1. PICK x \in s : TRUE
    BY <1>3
  <2>2. /\ SumOf(f, s) = f[x] + SumOf(f, s \ {x}) /\ SumOf(f, s \ {x}) \in Int
        /\ SumOf(g, s) = g[x] + SumOf(g, s \ {x})
    BY <1>1, SumParts
  <2>3. SumOf(g, s \ {x}) = c * SumOf(f, s \ {x}) /\ g[x] = c * f[x] /\ f[x] \in Int
    BY <1>3
  <2>4. SumOf(g, s) = c * SumOf(f, s)
    BY <2>2, <2>3
  <2> QED BY <2>4
<1>4. S \in Q
  <2> HIDE DEF Q
  <2>1. SUBSET S \subseteq Q
    BY <1>2, <1>3, AllParts
  <2> QED BY <2>1
<1> QED BY <1>4

-----------------------------------------------------------------------------
(* Distances as numbers of cuts.                                           *)

\* The distance of two places, w times over, is the number of cuts that have
\* one of them on either side; mark is what a cut has on its one side.
CutUp(dist, w, D, Cuts, mark) ==
  /\ D \in SUBSET Int /\ IsFiniteSet(D) /\ IsFiniteSet(Cuts) /\ w \in Nat \ {0}
  /\ \A p \in D \X D :
       /\ dist[p] \in Int
       /\ w * dist[p] = Cardinality({c \in Cuts : ~ (p[1] \in mark[c] <=> p[2] \in mark[c])})

\* Opaque to the provers where only the fact matters.
PairsWithin(pairs, D) == pairs \in SUBSET (D \X D)
PartOf(I, D) == I \in SUBSET D

\* How many of the pairs each cut has on both sides.
AcrossCounts(Cuts, mark, pairs) == [c \in Cuts |-> Cardinality(Across(mark[c], pairs))]

LEMMA DistancesByCut ==
  ASSUME NEW dist, NEW w, NEW D, NEW Cuts, NEW mark, CutUp(dist, w, D, Cuts, mark),
         NEW pairs, PairsWithin(pairs, D)
  PROVE  /\ SumOf(dist, pairs) \in Int
         /\ \A c \in Cuts : Cardinality(Across(mark[c], pairs)) \in Nat
         /\ w * SumOf(dist, pairs) = SumOf(AcrossCounts(Cuts, mark, pairs), Cuts)
<1> DEFINE between(p) == {c \in Cuts : ~ (p[1] \in mark[c] <=> p[2] \in mark[c])}
           r == [q \in pairs \X Cuts |-> Bit(q[2] \in between(q[1]))]
           row(p) == [c \in Cuts |-> r[<<p, c>>]]
           col(c) == [p \in pairs |-> r[<<p, c>>]]
           rows == [p \in pairs |-> SumOf(row(p), Cuts)]
           cols == [c \in Cuts |-> SumOf(col(c), pairs)]
           counts == [c \in Cuts |-> Cardinality(Across(mark[c], pairs))]
<1>1. IsFiniteSet(pairs) /\ IsFiniteSet(Cuts) /\ w \in Nat \ {0}
  <2>1. IsFiniteSet(D) /\ IsFiniteSet(Cuts) /\ w \in Nat \ {0}
    BY DEF CutUp
  <2>2. IsFiniteSet(D \X D)
    BY <2>1, FS_Product
  <2> QED BY <2>1, <2>2, FS_Subset DEF PairsWithin
<1>2. \A p \in pairs : dist[p] \in Int /\ w * dist[p] = Cardinality(between(p))
  BY DEF CutUp, PairsWithin
<1>3. \A p \in pairs, c \in Cuts :
        /\ row(p)[c] = Bit(c \in between(p))
        /\ col(c)[p] = Bit(c \in between(p))
        /\ c \in between(p) <=> p \in Across(mark[c], pairs)
  BY DEF Across
<1>4. \A q \in pairs \X Cuts : r[q] \in Int
  BY DEF Bit
<1>5. ByRows(r, pairs, Cuts) = ByColumns(r, pairs, Cuts)
  <2> HIDE DEF r
  <2> QED BY <1>1, <1>4, SumSwap
<1>6. SumOf(rows, pairs) = SumOf(cols, Cuts)
  BY <1>5 DEF ByRows, ByColumns
<1>7. \A p \in pairs : rows[p] = w * dist[p]
  <2> SUFFICES ASSUME NEW p \in pairs PROVE rows[p] = w * dist[p]
    OBVIOUS
  <2>1. PICK A, f : A = between(p) /\ f = row(p)
    OBVIOUS
  <2>2. \A c \in Cuts : f[c] = Bit(c \in A)
    BY <1>3, <2>1
  <2>3. SumOf(f, Cuts) = Cardinality(Cuts \cap A)
    BY <1>1, <2>2, SumBits
  <2>4. Cuts \cap A = A
    BY <2>1
  <2> QED BY <1>2, <2>1, <2>3, <2>4
<1>8. \A c \in Cuts : cols[c] = counts[c]
  <2> SUFFICES ASSUME NEW c \in Cuts PROVE cols[c] = counts[c]
    OBVIOUS
  <2>1. PICK A, f : A = Across(mark[c], pairs) /\ f = col(c)
    OBVIOUS
  <2>2. \A p \in pairs : f[p] = Bit(p \in A)
    <3> SUFFICES ASSUME NEW p \in pairs PROVE f[p] = Bit(p \in A)
      OBVIOUS
    <3>1. col(c)[p] = Bit(c \in between(p)) /\ (c \in between(p) <=> p \in A)
      BY <1>3, <2>1
    <3> HIDE DEF between
    <3> QED BY <2>1, <3>1 DEF Bit
  <2>3. SumOf(f, pairs) = Cardinality(pairs \cap A)
    BY <1>1, <2>2, SumBits
  <2>4. pairs \cap A = A
    BY <2>1 DEF Across
  <2> QED BY <2>1, <2>3, <2>4
<1>9. \A c \in Cuts : Cardinality(Across(mark[c], pairs)) \in Nat
  BY <1>1, FS_Subset, FS_CardinalityType DEF Across
<1> HIDE DEF rows, cols, counts
<1>10. SumOf(rows, pairs) = w * SumOf(dist, pairs) /\ SumOf(dist, pairs) \in Int
  <2>1. w \in Int
    BY <1>1
  <2>2. \A p \in pairs : dist[p] \in Int /\ rows[p] = w * dist[p]
    BY <1>2, <1>7
  <2>3. SumOf(rows, pairs) = w * SumOf(dist, pairs)
    BY <1>1, <2>1, <2>2, SumScales
  <2> QED BY <1>1, <2>2, <2>3, SumOfIs
<1>11. SumOf(cols, Cuts) = SumOf(counts, Cuts)
  <2>1. \A c \in Cuts : cols[c] \in Int /\ cols[c] = counts[c]
    BY <1>8, <1>9 DEF counts
  <2> QED BY <1>1, <2>1, SumSame
<1> QED BY <1>6, <1>9, <1>10, <1>11 DEF counts, AcrossCounts

\* Of the places of I and J, M has the same share.
Balanced(M, I, J) ==
  Cardinality(J) * Cardinality(I \cap M) = Cardinality(I) * Cardinality(J \cap M)

\* The numerator of the statistic for the places I and J, as far as one cut
\* goes and over all distances.
CutCost(M, I, J) ==
  Cost(Cardinality(I), Cardinality(J), Cardinality(Pairs(I)), Cardinality(Pairs(J)),
       Cardinality(Across(M, Pairs(I))), Cardinality(Across(M, Pairs(J))),
       Cardinality(Across(M, I \X J)))

SplitCost(dist, I, J) ==
  Cost(Cardinality(I), Cardinality(J), Cardinality(Pairs(I)), Cardinality(Pairs(J)),
       SumOf(dist, Pairs(I)), SumOf(dist, Pairs(J)), SumOf(dist, I \X J))

LEMMA CutCostIs ==
  ASSUME NEW I \in SUBSET Int, IsFiniteSet(I), NEW J \in SUBSET Int, IsFiniteSet(J), NEW M
  PROVE  /\ CutCost(M, I, J) \in Int
         /\ 2 * CutCost(M, I, J)
              = (Cardinality(I) * Cardinality(J))
                * Gap(Cardinality(I), Cardinality(J), Cardinality(I \cap M), Cardinality(J \cap M))
<1> DEFINE n == Cardinality(I)
           m == Cardinality(J)
           P == Cardinality(Pairs(I))
           Q == Cardinality(Pairs(J))
           k == Cardinality(I \cap M)
           l == Cardinality(J \cap M)
<1>1. k \in Int /\ l \in Int
  <2>1. IsFiniteSet(I \cap M) /\ IsFiniteSet(J \cap M)
    BY FS_Intersection
  <2> QED BY <2>1, FS_CardinalityType
<1>2. /\ n \in Int /\ m \in Int /\ P \in Int /\ Q \in Int
      /\ 2 * P = n * (n - 1) /\ 2 * Q = m * (m - 1)
  BY PairsCount
<1>3. Cardinality(Across(M, Pairs(I))) = k * (n - k)
  BY AcrossPairs
<1>4. Cardinality(Across(M, Pairs(J))) = l * (m - l)
  BY AcrossPairs
<1>5. Cardinality(Across(M, I \X J)) = k * (m - l) + (n - k) * l
  BY AcrossSides
<1>6. CutCost(M, I, J)
        = Cost(n, m, P, Q, k * (n - k), l * (m - l), k * (m - l) + (n - k) * l)
  BY <1>3, <1>4, <1>5 DEF CutCost
<1> HIDE DEF n, m, P, Q, k, l
<1>7. 2 * Cost(n, m, P, Q, k * (n - k), l * (m - l), k * (m - l) + (n - k) * l)
        = (n * m) * Gap(n, m, k, l)
  BY <1>1, <1>2, CostIsGap
<1>8. Cost(n, m, P, Q, k * (n - k), l * (m - l), k * (m - l) + (n - k) * l) \in Int
  BY <1>1, <1>2 DEF Cost
<1> QED BY <1>6, <1>7, <1>8 DEF n, m, k, l

\* Two ways to take as many of the places D.
Exchange(D, I, H) ==
  /\ D \in SUBSET Int /\ IsFiniteSet(D)
  /\ I \in SUBSET D /\ H \in SUBSET D /\ H # {} /\ D \ H # {}
  /\ Cardinality(I) = Cardinality(H)

LEMMA ExchangeFacts ==
  ASSUME NEW D, NEW I, NEW H, Exchange(D, I, H)
  PROVE  /\ I \in SUBSET Int /\ H \in SUBSET Int /\ D \ I \in SUBSET Int /\ D \ H \in SUBSET Int
         /\ IsFiniteSet(I) /\ IsFiniteSet(H) /\ IsFiniteSet(D \ I) /\ IsFiniteSet(D \ H)
         /\ Cardinality(D \ I) = Cardinality(D \ H)
         /\ Cardinality(H) \in Nat \ {0} /\ Cardinality(D \ H) \in Nat \ {0}
<1>1. D \in SUBSET Int /\ IsFiniteSet(D) /\ I \in SUBSET D /\ H \in SUBSET D
  BY DEF Exchange
<1>2. IsFiniteSet(I) /\ IsFiniteSet(H) /\ D \cap I = I /\ D \cap H = H
  BY <1>1, FS_Subset
<1>3. IsFiniteSet(D \ I) /\ Cardinality(D \ I) = Cardinality(D) - Cardinality(D \cap I)
  BY <1>1, FS_Difference
<1>4. IsFiniteSet(D \ H) /\ Cardinality(D \ H) = Cardinality(D) - Cardinality(D \cap H)
  BY <1>1, FS_Difference
<1>5. Cardinality(D \ I) = Cardinality(D \ H)
  BY <1>2, <1>3, <1>4 DEF Exchange
<1>6. Cardinality(H) \in Nat \ {0} /\ Cardinality(D \ H) \in Nat \ {0}
  BY <1>2, <1>4, FS_EmptySet, FS_CardinalityType DEF Exchange
<1> QED BY <1>1, <1>2, <1>3, <1>4, <1>5, <1>6

\* No exchange makes a balanced cut cost less.
LEMMA CutCostLeast ==
  ASSUME NEW D, NEW I, NEW H, Exchange(D, I, H), NEW M, Balanced(M, H, D \ H)
  PROVE  CutCost(M, I, D \ I) >= CutCost(M, H, D \ H)
<1> DEFINE n == Cardinality(H)
           m == Cardinality(D \ H)
           i == Cardinality(I \cap M)
           j == Cardinality((D \ I) \cap M)
           k == Cardinality(H \cap M)
           l == Cardinality((D \ H) \cap M)
<1>1. /\ I \in SUBSET Int /\ H \in SUBSET Int /\ D \ I \in SUBSET Int /\ D \ H \in SUBSET Int
      /\ IsFiniteSet(I) /\ IsFiniteSet(H) /\ IsFiniteSet(D \ I) /\ IsFiniteSet(D \ H)
      /\ Cardinality(I) = n /\ Cardinality(D \ I) = m
      /\ n \in Nat \ {0} /\ m \in Nat \ {0}
  BY ExchangeFacts DEF Exchange
<1>2. i + j = Cardinality(D \cap M) /\ k + l = Cardinality(D \cap M)
  <2>1. /\ IsFiniteSet(I \cap M) /\ IsFiniteSet((D \ I) \cap M)
        /\ IsFiniteSet(H \cap M) /\ IsFiniteSet((D \ H) \cap M)
    BY <1>1, FS_Intersection
  <2>2. /\ D \cap M = (I \cap M) \cup ((D \ I) \cap M) /\ (I \cap M) \cap ((D \ I) \cap M) = {}
        /\ D \cap M = (H \cap M) \cup ((D \ H) \cap M) /\ (H \cap M) \cap ((D \ H) \cap M) = {}
    BY DEF Exchange
  <2> QED BY <2>1, <2>2, ApartCount
<1>3. i \in Int /\ j \in Int /\ k \in 0 .. n /\ l \in 0 .. m
  <2>1. \A S : IsFiniteSet(S) => Cardinality(S \cap M) \in Nat /\ Cardinality(S \cap M) <= Cardinality(S)
    BY FS_Intersection, FS_CardinalityType
  <2>2. i \in Nat /\ j \in Nat /\ k \in Nat /\ l \in Nat /\ k <= n /\ l <= m
    BY <1>1, <2>1
  <2> QED BY <1>1, <2>2
<1>4. m * k = n * l
  BY DEF Balanced
<1>5. /\ CutCost(M, I, D \ I) \in Int
      /\ 2 * CutCost(M, I, D \ I)
           = (Cardinality(I) * Cardinality(D \ I)) * Gap(Cardinality(I), Cardinality(D \ I), i, j)
  <2>1. PICK J : J = D \ I
    OBVIOUS
  <2>2. J \in SUBSET Int /\ IsFiniteSet(J)
    BY <1>1, <2>1
  <2>3. /\ CutCost(M, I, J) \in Int
        /\ 2 * CutCost(M, I, J) = (Cardinality(I) * Cardinality(J))
             * Gap(Cardinality(I), Cardinality(J), Cardinality(I \cap M), Cardinality(J \cap M))
    BY <1>1, <2>2, CutCostIs
  <2> QED BY <2>1, <2>3
<1>6. /\ CutCost(M, H, D \ H) \in Int
      /\ 2 * CutCost(M, H, D \ H) = (n * m) * Gap(n, m, k, l)
  BY <1>1, CutCostIs
<1> HIDE DEF n, m, i, j, k, l
<1>7. i + j = k + l
  BY <1>2, <1>3
<1>8. Gap(n, m, i, j) >= Gap(n, m, k, l)
  BY <1>1, <1>3, <1>4, <1>7, GapLeast
<1>9. Gap(n, m, i, j) \in Int /\ Gap(n, m, k, l) \in Int /\ n * m \in Nat
  BY <1>1, <1>3 DEF Gap
<1>10. (n * m) * Gap(n, m, i, j) >= (n * m) * Gap(n, m, k, l)
  BY <1>8, <1>9
<1>11. 2 * CutCost(M, I, D \ I) = (n * m) * Gap(n, m, i, j)
  BY <1>1, <1>5
<1> QED BY <1>5, <1>6, <1>9, <1>10, <1>11

CutCosts(Cuts, mark, I, J) == [c \in Cuts |-> CutCost(mark[c], I, J)]

LEMMA SplitCostByCut ==
  ASSUME NEW dist, NEW w, NEW D, NEW Cuts, NEW mark, NEW I, NEW J,
         CutUp(dist, w, D, Cuts, mark), PartOf(I, D), PartOf(J, D)
  PROVE  /\ SplitCost(dist, I, J) \in Int
         /\ \A c \in Cuts : CutCost(mark[c], I, J) \in Int
         /\ w * SplitCost(dist, I, J) = SumOf(CutCosts(Cuts, mark, I, J), Cuts)
<1> DEFINE n == Cardinality(I)
           m == Cardinality(J)
           P == Cardinality(Pairs(I))
           Q == Cardinality(Pairs(J))
           wa == AcrossCounts(Cuts, mark, Pairs(I))
           wb == AcrossCounts(Cuts, mark, Pairs(J))
           x == AcrossCounts(Cuts, mark, I \X J)
           all == CutCosts(Cuts, mark, I, J)
<1>1. PairsWithin(Pairs(I), D) /\ PairsWithin(Pairs(J), D) /\ PairsWithin(I \X J, D)
  BY DEF Pairs, PairsWithin, PartOf
<1>2. ASSUME NEW pairs, PairsWithin(pairs, D), NEW counts, counts = AcrossCounts(Cuts, mark, pairs)
      PROVE  /\ SumOf(dist, pairs) \in Int
             /\ \A c \in Cuts : counts[c] = Cardinality(Across(mark[c], pairs)) /\ counts[c] \in Int
             /\ w * SumOf(dist, pairs) = SumOf(counts, Cuts)
  <2>1. /\ SumOf(dist, pairs) \in Int
        /\ \A c \in Cuts : Cardinality(Across(mark[c], pairs)) \in Nat
        /\ w * SumOf(dist, pairs) = SumOf(AcrossCounts(Cuts, mark, pairs), Cuts)
    BY <1>2, DistancesByCut
  <2>2. \A c \in Cuts : counts[c] = Cardinality(Across(mark[c], pairs))
    BY <1>2 DEF AcrossCounts
  <2> QED BY <1>2, <2>1, <2>2
<1>3. /\ SumOf(dist, Pairs(I)) \in Int /\ w * SumOf(dist, Pairs(I)) = SumOf(wa, Cuts)
      /\ \A c \in Cuts : wa[c] = Cardinality(Across(mark[c], Pairs(I))) /\ wa[c] \in Int
  BY <1>1, <1>2
<1>4. /\ SumOf(dist, Pairs(J)) \in Int /\ w * SumOf(dist, Pairs(J)) = SumOf(wb, Cuts)
      /\ \A c \in Cuts : wb[c] = Cardinality(Across(mark[c], Pairs(J))) /\ wb[c] \in Int
  BY <1>1, <1>2
<1>5. PICK pairs : pairs = I \X J
  OBVIOUS
<1>6. /\ SumOf(dist, pairs) \in Int /\ w * SumOf(dist, pairs) = SumOf(x, Cuts)
      /\ \A c \in Cuts : x[c] = Cardinality(Across(mark[c], pairs)) /\ x[c] \in Int
  <2>1. PairsWithin(pairs, D) /\ x = AcrossCounts(Cuts, mark, pairs)
    BY <1>1, <1>5
  <2> HIDE DEF x
  <2> QED BY <1>2, <2>1
<1>7. n \in Int /\ m \in Int /\ P \in Int /\ Q \in Int
  <2>1. IsFiniteSet(I) /\ IsFiniteSet(J) /\ I \in SUBSET Int /\ J \in SUBSET Int
    BY FS_Subset DEF CutUp, PartOf
  <2> QED BY <2>1, PairsCount
<1>8. IsFiniteSet(Cuts) /\ w \in Int
  BY DEF CutUp
<1>9. \A c \in Cuts : all[c] = CutCost(mark[c], I, J)
  BY DEF CutCosts
<1>10. \A c \in Cuts : all[c] = Cost(n, m, P, Q, wa[c], wb[c], x[c])
  <2> SUFFICES ASSUME NEW c \in Cuts PROVE all[c] = Cost(n, m, P, Q, wa[c], wb[c], x[c])
    OBVIOUS
  <2>1. CutCost(mark[c], I, J) = Cost(n, m, P, Q, Cardinality(Across(mark[c], Pairs(I))),
            Cardinality(Across(mark[c], Pairs(J))), Cardinality(Across(mark[c], pairs)))
    BY <1>5 DEF CutCost
  <2>2. /\ Cardinality(Across(mark[c], Pairs(I))) = wa[c]
        /\ Cardinality(Across(mark[c], Pairs(J))) = wb[c]
        /\ Cardinality(Across(mark[c], pairs)) = x[c]
    BY <1>3, <1>4, <1>6
  <2> HIDE DEF n, m, P, Q, wa, wb, x, all
  <2> QED BY <1>9, <2>1, <2>2
<1> DEFINE X == SumOf(dist, pairs)
           A == SumOf(dist, Pairs(I))
           B == SumOf(dist, Pairs(J))
<1>11. SplitCost(dist, I, J) = Cost(n, m, P, Q, A, B, X)
  BY <1>5 DEF SplitCost
<1> HIDE DEF wa, wb, x, all, n, m, P, Q, X, A, B
<1>12. PICK a \in Int, b \in Int, e \in Int :
        a = 2 * (P * Q) /\ b = -((n * m) * Q) /\ e = -((n * m) * P)
  BY <1>7
<1>13. \A p, q, r \in Int : Cost(n, m, P, Q, p, q, r) = a * r + b * p + e * q
  <2> SUFFICES ASSUME NEW p \in Int, NEW q \in Int, NEW r \in Int
               PROVE  Cost(n, m, P, Q, p, q, r) = a * r + b * p + e * q
    OBVIOUS
  <2>1. a * r = 2 * ((P * Q) * r)
    BY <1>7, <1>12
  <2>2. b * p = -(((n * m) * Q) * p) /\ e * q = -(((n * m) * P) * q)
    BY <1>7, <1>12
  <2>3. (n * m) * (Q * p + P * q) = ((n * m) * Q) * p + ((n * m) * P) * q
    BY <1>7
  <2> QED BY <1>7, <2>1, <2>2, <2>3 DEF Cost
<1>14. \A c \in Cuts : /\ x[c] \in Int /\ wa[c] \in Int /\ wb[c] \in Int
                     /\ all[c] = a * x[c] + b * wa[c] + e * wb[c]
  <2> SUFFICES ASSUME NEW c \in Cuts
               PROVE  /\ x[c] \in Int /\ wa[c] \in Int /\ wb[c] \in Int
                      /\ all[c] = a * x[c] + b * wa[c] + e * wb[c]
    OBVIOUS
  <2>1. x[c] \in Int /\ wa[c] \in Int /\ wb[c] \in Int
    BY <1>3, <1>4, <1>6
  <2>2. Cost(n, m, P, Q, wa[c], wb[c], x[c]) = a * x[c] + b * wa[c] + e * wb[c]
    BY <1>13, <2>1
  <2> QED BY <1>10, <2>1, <2>2
<1>15. \A c \in Cuts : CutCost(mark[c], I, J) \in Int
  BY <1>9, <1>14
<1>16. SumOf(all, Cuts) = a * SumOf(x, Cuts) + b * SumOf(wa, Cuts) + e * SumOf(wb, Cuts)
  <2> DEFINE ax == [c \in Cuts |-> a * x[c]]
             bw == [c \in Cuts |-> b * wa[c]]
             ew == [c \in Cuts |-> e * wb[c]]
             axbw == [c \in Cuts |-> ax[c] + bw[c]]
  <2>1. \A c \in Cuts : ax[c] = a * x[c] /\ bw[c] = b * wa[c] /\ ew[c] = e * wb[c]
    OBVIOUS
  <2>2. \A c \in Cuts : ax[c] \in Int /\ bw[c] \in Int /\ ew[c] \in Int
    BY <1>14, <2>1
  <2>3. \A c \in Cuts : axbw[c] = ax[c] + bw[c] /\ axbw[c] \in Int
    BY <2>2
  <2> HIDE DEF ax, bw, ew, axbw
  <2>4. \A c \in Cuts : all[c] = axbw[c] + ew[c]
    BY <1>14, <2>1, <2>3
  <2>5. SumOf(ax, Cuts) = a * SumOf(x, Cuts)
    BY <1>8, <1>14, <2>1, SumScales
  <2>6. SumOf(bw, Cuts) = b * SumOf(wa, Cuts)
    BY <1>8, <1>14, <2>1, SumScales
  <2>7. SumOf(ew, Cuts) = e * SumOf(wb, Cuts)
    BY <1>8, <1>14, <2>1, SumScales
  <2>8. SumOf(axbw, Cuts) = SumOf(ax, Cuts) + SumOf(bw, Cuts)
    BY <1>8, <2>2, <2>3, SumAdds
  <2>9. SumOf(all, Cuts) = SumOf(axbw, Cuts) + SumOf(ew, Cuts)
    BY <1>8, <2>2, <2>3, <2>4, SumAdds
  <2> QED BY <2>5, <2>6, <2>7, <2>8, <2>9
<1>17. X \in Int /\ A \in Int /\ B \in Int
  BY <1>3, <1>4, <1>6 DEF X, A, B
<1>18. SplitCost(dist, I, J) = a * X + b * A + e * B
  BY <1>11, <1>13, <1>17
<1>19. SumOf(all, Cuts) = a * (w * X) + b * (w * A) + e * (w * B)
  BY <1>3, <1>4, <1>6, <1>16 DEF X, A, B
<1>20. w * (a * X + b * A + e * B) = a * (w * X) + b * (w * A) + e * (w * B)
  BY <1>8, <1>17
<1>21. a * X + b * A + e * B \in Int
  BY <1>17
<1> QED BY <1>15, <1>18, <1>19, <1>20, <1>21 DEF all

\* No exchange makes the statistic smaller if every cut is balanced.
LEMMA SplitCostLeast ==
  ASSUME NEW D, NEW I, NEW H, Exchange(D, I, H),
         NEW dist, NEW w, NEW Cuts, NEW mark, CutUp(dist, w, D, Cuts, mark),
         \A c \in Cuts : Balanced(mark[c], H, D \ H)
  PROVE  /\ SplitCost(dist, I, D \ I) \in Int /\ SplitCost(dist, H, D \ H) \in Int
         /\ SplitCost(dist, I, D \ I) >= SplitCost(dist, H, D \ H)
<1> DEFINE f == CutCosts(Cuts, mark, H, D \ H)
           g == CutCosts(Cuts, mark, I, D \ I)
           F == SplitCost(dist, H, D \ H)
           G == SplitCost(dist, I, D \ I)
<1>1. IsFiniteSet(Cuts) /\ w \in Nat \ {0}
  BY DEF CutUp
<1>2. PartOf(I, D) /\ PartOf(H, D)
  BY DEF Exchange, PartOf
<1>3. F \in Int /\ w * F = SumOf(f, Cuts) /\ \A c \in Cuts : CutCost(mark[c], H, D \ H) \in Int
  <2>1. PICK J : J = D \ H
    OBVIOUS
  <2>2. PartOf(J, D)
    BY <2>1 DEF PartOf
  <2>3. SplitCost(dist, H, J) \in Int
    BY <1>2, <2>2, SplitCostByCut
  <2>4. w * SplitCost(dist, H, J) = SumOf(CutCosts(Cuts, mark, H, J), Cuts)
    BY <1>2, <2>2, SplitCostByCut
  <2>5. \A c \in Cuts : CutCost(mark[c], H, J) \in Int
    BY <1>2, <2>2, SplitCostByCut
  <2> QED BY <2>1, <2>3, <2>4, <2>5
<1>4. G \in Int /\ w * G = SumOf(g, Cuts) /\ \A c \in Cuts : CutCost(mark[c], I, D \ I) \in Int
  <2>1. PICK J : J = D \ I
    OBVIOUS
  <2>2. PartOf(J, D)
    BY <2>1 DEF PartOf
  <2>3. SplitCost(dist, I, J) \in Int
    BY <1>2, <2>2, SplitCostByCut
  <2>4. w * SplitCost(dist, I, J) = SumOf(CutCosts(Cuts, mark, I, J), Cuts)
    BY <1>2, <2>2, SplitCostByCut
  <2>5. \A c \in Cuts : CutCost(mark[c], I, J) \in Int
    BY <1>2, <2>2, SplitCostByCut
  <2> QED BY <2>1, <2>3, <2>4, <2>5
<1>5. \A c \in Cuts : f[c] \in Int /\ g[c] \in Int /\ f[c] <= g[c]
  <2> SUFFICES ASSUME NEW c \in Cuts PROVE f[c] \in Int /\ g[c] \in Int /\ f[c] <= g[c]
    OBVIOUS
  <2>1. CutCost(mark[c], I, D \ I) >= CutCost(mark[c], H, D \ H)
    BY CutCostLeast
  <2>2. CutCost(mark[c], I, D \ I) \in Int /\ CutCost(mark[c], H, D \ H) \in Int
    BY <1>3, <1>4
  <2>3. f[c] = CutCost(mark[c], H, D \ H) /\ g[c] = CutCost(mark[c], I, D \ I)
    BY DEF CutCosts
  <2> QED BY <2>1, <2>2, <2>3
<1> HIDE DEF f, g, F, G
<1>6. SumOf(f, Cuts) <= SumOf(g, Cuts)
  BY <1>1, <1>5, SumMonotone
<1>7. w * F <= w * G
  BY <1>3, <1>4, <1>6
<1>8. F <= G
  BY <1>1, <1>3, <1>4, <1>7
<1> QED BY <1>3, <1>4, <1>8 DEF F, G

-----------------------------------------------------------------------------
(* Values as cuts.                                                         *)

\* The places of D that hold a value of X.
Holding(v, X, D) == {i \in D : v[i] \in X}

\* Each value is as frequent at the places H as at the others.
Alike(v, D, H) ==
  \A x \in {v[i] : i \in D} : Balanced(Holding(v, {x}, D), H, D \ H)

\* The distances of different answers, and of numbers.
WordDistance(dist, v, D) == \A p \in D \X D : dist[p] = Bit(v[p[1]] # v[p[2]])
NumberDistance(dist, v, D) ==
  /\ \A i \in D : v[i] \in Int
  /\ \A p \in D \X D : dist[p] = IF v[p[1]] < v[p[2]] THEN v[p[2]] - v[p[1]]
                                 ELSE v[p[1]] - v[p[2]]

LEMMA ValuesFinite ==
  ASSUME NEW S, IsFiniteSet(S), NEW v
  PROVE  IsFiniteSet({v[i] : i \in S})
<1> DEFINE T == {v[i] : i \in S}
           f == [i \in S |-> v[i]]
<1>1. f \in Surjection(S, T)
  BY DEF Surjection
<1> HIDE DEF f, T
<1>2. IsFiniteSet(T)
  BY <1>1, FS_Surjection
<1> QED BY <1>2 DEF T

WordMarks(v, D) == [x \in {v[i] : i \in D} |-> Holding(v, {x}, D)]

LEMMA WordCuts ==
  ASSUME NEW D, D \in SUBSET Int, IsFiniteSet(D), NEW v, NEW dist, WordDistance(dist, v, D)
  PROVE  CutUp(dist, 2, D, {v[i] : i \in D}, WordMarks(v, D))
<1> DEFINE Cuts == {v[i] : i \in D}
           mark == WordMarks(v, D)
<1>1. IsFiniteSet(Cuts)
  BY ValuesFinite
<1>2. ASSUME NEW p \in D \X D
      PROVE  dist[p] \in Int /\ 2 * dist[p] = Cardinality({c \in Cuts : ~ (p[1] \in mark[c] <=> p[2] \in mark[c])})
  <2> DEFINE x == v[p[1]]
             y == v[p[2]]
             between == {c \in Cuts : ~ (p[1] \in mark[c] <=> p[2] \in mark[c])}
  <2>1. dist[p] = Bit(x # y)
    BY DEF WordDistance
  <2>2. x \in Cuts /\ y \in Cuts
    OBVIOUS
  <2>3. between = {c \in Cuts : ~ (x = c <=> y = c)}
    BY DEF WordMarks, Holding
  <2>4. CASE x = y
    <3>1. between = {}
      BY <2>3, <2>4
    <3> HIDE DEF x, y, between
    <3>2. dist[p] = 0 /\ Cardinality(between) = 0
      BY <2>1, <2>4, <3>1, FS_EmptySet DEF Bit
    <3> QED BY <3>2 DEF between
  <2>5. CASE x # y
    <3>1. between = {x, y}
      BY <2>2, <2>3, <2>5
    <3>2. IsFiniteSet({x}) /\ Cardinality({x}) = 1 /\ y \notin {x}
      BY <2>5, FS_Singleton
    <3> HIDE DEF x, y, between
    <3>3. Cardinality({x} \cup {y}) = 2
      BY <3>2, FS_AddElement
    <3>4. {x} \cup {y} = {x, y}
      OBVIOUS
    <3>5. dist[p] = 1 /\ Cardinality(between) = 2
      BY <2>1, <2>5, <3>1, <3>3, <3>4 DEF Bit
    <3> QED BY <3>5 DEF between
  <2> QED BY <2>4, <2>5
<1> QED BY <1>1, <1>2 DEF CutUp

LEMMA FiniteBounds ==
  ASSUME NEW S \in SUBSET Int, IsFiniteSet(S)
  PROVE  \E lo, hi \in Int : S \subseteq lo .. hi
<1> DEFINE Q == {s \in SUBSET S : \E lo, hi \in Int : s \subseteq lo .. hi}
<1>1. {} \in Q
  <2>1. {} \subseteq 0 .. 0 /\ 0 \in Int
    OBVIOUS
  <2> QED BY <2>1
<1>2. ASSUME NEW s \in SUBSET S, s # {}, \A x \in s : s \ {x} \in Q
      PROVE  s \in Q
  <2>1. PICK x \in s : TRUE
    BY <1>2
  <2>2. PICK lo \in Int, hi \in Int : s \ {x} \subseteq lo .. hi
    BY <1>2
  <2>3. x \in Int
    OBVIOUS
  <2>4. PICK a \in Int, b \in Int : a <= lo /\ a <= x /\ hi <= b /\ x <= b
    <3>1. \A p, q \in Int : \E r \in Int : r <= p /\ r <= q
      OBVIOUS
    <3>2. \A p, q \in Int : \E r \in Int : p <= r /\ q <= r
      OBVIOUS
    <3> QED BY <2>3, <3>1, <3>2
  <2>5. s \subseteq a .. b
    BY <2>2, <2>3, <2>4
  <2> QED BY <2>5
<1>3. SUBSET S \subseteq Q
  <2> HIDE DEF Q
  <2> QED BY <1>1, <1>2, AllParts
<1> QED BY <1>3

LEMMA StepsBetween ==
  ASSUME NEW lo \in Int, NEW hi \in Int, NEW x \in lo .. hi, NEW y \in lo .. hi, x < y, NEW S,
         \A c : c \in S <=> c \in lo .. hi /\ ~ (x <= c <=> y <= c)
  PROVE  Cardinality(S) = y - x /\ y - x \in Int
<1>1. PICK z \in Int : z = y - 1
  OBVIOUS
<1>2. \A c : c \in S <=> c \in x .. z
  BY <1>1
<1>3. S = x .. z
  BY <1>2
<1>4. Cardinality(x .. z) = (z - x) + 1
  BY <1>1, FS_Interval
<1>5. (z - x) + 1 = y - x
  BY <1>1
<1> QED BY <1>3, <1>4, <1>5

NumberMarks(v, D, lo, hi) == [u \in lo .. hi |-> Holding(v, {x \in Int : x <= u}, D)]

LEMMA NumberCuts ==
  ASSUME NEW D, D \in SUBSET Int, IsFiniteSet(D), NEW v, NEW dist, NumberDistance(dist, v, D),
         NEW lo \in Int, NEW hi \in Int, \A i \in D : v[i] \in lo .. hi
  PROVE  CutUp(dist, 1, D, lo .. hi, NumberMarks(v, D, lo, hi))
<1> DEFINE Cuts == lo .. hi
           mark == NumberMarks(v, D, lo, hi)
<1>1. IsFiniteSet(Cuts)
  BY FS_Interval
<1>2. ASSUME NEW p \in D \X D
      PROVE  dist[p] \in Int /\ 1 * dist[p] = Cardinality({c \in Cuts : ~ (p[1] \in mark[c] <=> p[2] \in mark[c])})
  <2> DEFINE between == {c \in Cuts : ~ (p[1] \in mark[c] <=> p[2] \in mark[c])}
  <2> DEFINE x == v[p[1]]
             y == v[p[2]]
  <2>1. x \in Int /\ y \in Int /\ x \in lo .. hi /\ y \in lo .. hi
    BY DEF NumberDistance
  <2>2. dist[p] = IF x < y THEN y - x ELSE x - y
    BY <2>1 DEF NumberDistance
  <2>3. between = {c \in Cuts : ~ (x <= c <=> y <= c)}
    BY <2>1 DEF NumberMarks, Holding
  <2> HIDE DEF between, mark, x, y
  <2>4. CASE x < y
    <3>1. \A c : c \in between <=> c \in lo .. hi /\ ~ (x <= c <=> y <= c)
      BY <2>3
    <3>2. Cardinality(between) = y - x /\ y - x \in Int
      BY <2>1, <2>4, <3>1, StepsBetween
    <3>3. dist[p] = y - x /\ dist[p] \in Int
      BY <2>1, <2>2, <2>4
    <3>5. 1 * dist[p] = Cardinality(between)
      BY <3>2, <3>3
    <3> QED BY <3>3, <3>5 DEF between
  <2>5. CASE y < x
    <3>1. \A c : c \in between <=> c \in lo .. hi /\ ~ (y <= c <=> x <= c)
      BY <2>3
    <3>2. Cardinality(between) = x - y /\ x - y \in Int
      BY <2>1, <2>5, <3>1, StepsBetween
    <3>3. dist[p] = x - y /\ dist[p] \in Int
      BY <2>1, <2>2, <2>5
    <3>5. 1 * dist[p] = Cardinality(between)
      BY <3>2, <3>3
    <3> QED BY <3>3, <3>5 DEF between
  <2>6. CASE x = y
    <3>1. between = {}
      BY <2>3, <2>6
    <3>2. dist[p] = 0 /\ Cardinality(between) = 0
      BY <2>1, <2>2, <2>6, <3>1, FS_EmptySet
    <3>3. dist[p] \in Int /\ 1 * dist[p] = Cardinality(between)
      BY <3>2
    <3> QED BY <3>3 DEF between
  <2> QED BY <2>1, <2>4, <2>5, <2>6
<1> QED BY <1>1, <1>2 DEF CutUp

\* Values each as frequent on both sides are so together.
LEMMA AlikeTogether ==
  ASSUME NEW D, D \in SUBSET Int, IsFiniteSet(D), NEW H \in SUBSET D, NEW v, Alike(v, D, H)
  PROVE  \A X \in SUBSET {v[i] : i \in D} : Balanced(Holding(v, X, D), H, D \ H)
<1> DEFINE S == {v[i] : i \in D}
           n == Cardinality(H)
           m == Cardinality(D \ H)
           a(X) == Cardinality(H \cap Holding(v, X, D))
           b(X) == Cardinality((D \ H) \cap Holding(v, X, D))
           Q == {X \in SUBSET S : m * a(X) = n * b(X)}
<1>1. IsFiniteSet(S)
  BY ValuesFinite
<1>2. IsFiniteSet(H) /\ IsFiniteSet(D \ H) /\ n \in Int /\ m \in Int
  <2>1. IsFiniteSet(H) /\ IsFiniteSet(D \ H)
    BY FS_Subset, FS_Difference
  <2> QED BY <2>1, FS_CardinalityType
<1>3. {} \in Q
  <2>1. H \cap Holding(v, {}, D) = {} /\ (D \ H) \cap Holding(v, {}, D) = {}
    BY DEF Holding
  <2>2. a({}) = 0 /\ b({}) = 0
    BY <2>1, FS_EmptySet
  <2> HIDE DEF a, b, n, m
  <2> QED BY <1>2, <2>2
<1>4. ASSUME NEW K, IsFiniteSet(K), K \in SUBSET D, NEW X, NEW x \in X
      PROVE  /\ Cardinality(K \cap Holding(v, X, D))
                  = Cardinality(K \cap Holding(v, X \ {x}, D)) + Cardinality(K \cap Holding(v, {x}, D))
             /\ Cardinality(K \cap Holding(v, X \ {x}, D)) \in Nat
             /\ Cardinality(K \cap Holding(v, {x}, D)) \in Nat
  <2> DEFINE A == K \cap Holding(v, X \ {x}, D)
             B == K \cap Holding(v, {x}, D)
  <2>1. K \cap Holding(v, X, D) = A \cup B /\ A \cap B = {}
    BY DEF Holding
  <2>2. IsFiniteSet(A) /\ IsFiniteSet(B)
    BY <1>4, FS_Intersection
  <2> HIDE DEF A, B
  <2>3. Cardinality(A \cup B) = Cardinality(A) + Cardinality(B) /\ Cardinality(A) \in Nat
        /\ Cardinality(B) \in Nat
    BY <2>1, <2>2, ApartCount, FS_CardinalityType
  <2> QED BY <2>1, <2>3 DEF A, B
<1>5. ASSUME NEW X \in SUBSET S, X # {}, \A x \in X : X \ {x} \in Q
      PROVE  X \in Q
  <2>1. PICK x \in X : TRUE
    BY <1>5
  <2>2. m * a(X \ {x}) = n * b(X \ {x})
    BY <1>5
  <2>3. m * a({x}) = n * b({x})
    BY DEF Alike, Balanced
  <2>4. a(X) = a(X \ {x}) + a({x}) /\ a(X \ {x}) \in Nat /\ a({x}) \in Nat
    BY <1>2, <1>4
  <2>5. PICK J : J = D \ H
    OBVIOUS
  <2>6. IsFiniteSet(J) /\ J \in SUBSET D
    BY <1>2, <2>5
  <2>7. b(X) = b(X \ {x}) + b({x}) /\ b(X \ {x}) \in Nat /\ b({x}) \in Nat
    <3>1. /\ Cardinality(J \cap Holding(v, X, D))
               = Cardinality(J \cap Holding(v, X \ {x}, D)) + Cardinality(J \cap Holding(v, {x}, D))
          /\ Cardinality(J \cap Holding(v, X \ {x}, D)) \in Nat
          /\ Cardinality(J \cap Holding(v, {x}, D)) \in Nat
      BY <1>4, <2>6
    <3> QED BY <2>5, <3>1
  <2>8. m * a(X) = n * b(X)
    <3> HIDE DEF n, m
    <3>1. PICK a1 \in Int, a2 \in Int, b1 \in Int, b2 \in Int :
            a1 = a(X \ {x}) /\ a2 = a({x}) /\ b1 = b(X \ {x}) /\ b2 = b({x})
      BY <2>4, <2>7
    <3>2. a(X) = a1 + a2 /\ b(X) = b1 + b2 /\ m * a1 = n * b1 /\ m * a2 = n * b2
      BY <2>2, <2>3, <2>4, <2>7, <3>1
    <3> HIDE DEF a, b
    <3>3. m * (a1 + a2) = n * (b1 + b2)
      BY <1>2, <3>1, <3>2
    <3> QED BY <3>2, <3>3
  <2> QED BY <2>8
<1>6. SUBSET S \subseteq Q
  <2> HIDE DEF Q
  <2> QED BY <1>1, <1>3, <1>5, AllParts
<1> QED BY <1>6 DEF Balanced

\* No exchange of labels makes the statistic of an item smaller if either side
\* gave each answer in the same share of its calls.
LEMMA AlikeLeast ==
  ASSUME NEW D, NEW I, NEW H, Exchange(D, I, H), NEW v, Alike(v, D, H),
         NEW dist, WordDistance(dist, v, D) \/ NumberDistance(dist, v, D)
  PROVE  /\ SplitCost(dist, I, D \ I) \in Int /\ SplitCost(dist, H, D \ H) \in Int
         /\ SplitCost(dist, I, D \ I) >= SplitCost(dist, H, D \ H)
<1>1. D \in SUBSET Int /\ IsFiniteSet(D) /\ H \in SUBSET D
  BY DEF Exchange
<1>2. CASE WordDistance(dist, v, D)
  <2> DEFINE Cuts == {v[i] : i \in D}
             mark == WordMarks(v, D)
  <2>1. CutUp(dist, 2, D, Cuts, mark)
    BY <1>1, <1>2, WordCuts
  <2>2. \A c \in Cuts : Balanced(mark[c], H, D \ H)
    BY DEF Alike, WordMarks
  <2> HIDE DEF Cuts, mark
  <2> QED BY <2>1, <2>2, SplitCostLeast
<1>3. CASE NumberDistance(dist, v, D)
  <2> DEFINE S == {v[i] : i \in D}
  <2>1. {v[i] : i \in D} \in SUBSET Int /\ IsFiniteSet({v[i] : i \in D})
    <3>1. S \in SUBSET Int
      BY <1>3 DEF NumberDistance
    <3>2. IsFiniteSet(S)
      BY <1>1, ValuesFinite
    <3> QED BY <3>1, <3>2
  <2>2. PICK lo \in Int, hi \in Int : {v[i] : i \in D} \subseteq lo .. hi
    BY <2>1, FiniteBounds
  <2> DEFINE Cuts == lo .. hi
             mark == NumberMarks(v, D, lo, hi)
  <2>3. CutUp(dist, 1, D, Cuts, mark)
    BY <1>1, <1>3, <2>2, NumberCuts
  <2>4. \A X \in SUBSET {v[i] : i \in D} : Balanced(Holding(v, X, D), H, D \ H)
    BY <1>1, AlikeTogether
  <2>5. ASSUME NEW c \in Cuts PROVE Balanced(mark[c], H, D \ H)
    <3> DEFINE X == {x \in {v[i] : i \in D} : x <= c}
    <3>1. Holding(v, {x \in Int : x <= c}, D) = Holding(v, X, D)
      BY <2>1 DEF Holding
    <3>2. mark[c] = Holding(v, X, D)
      BY <3>1 DEF NumberMarks
    <3> QED BY <2>4, <3>2
  <2> HIDE DEF Cuts, mark
  <2> QED BY <2>3, <2>5, SplitCostLeast
<1> QED BY <1>2, <1>3

-----------------------------------------------------------------------------
(* Selections from a sequence.                                             *)

\* upto is the selection of the places of G from the first k elements of s,
\* from fewer of them.
Selects(upto, s, G, k) ==
  upto = [n \in 0 .. k |-> IF n = 0 THEN <<>>
                           ELSE IF n \in G THEN Append(upto[n - 1], s[n]) ELSE upto[n - 1]]

\* r has elements of s at places of G, each place at most once.
Picks(r, s, G) ==
  /\ r \in Seq(ToSet(s))
  /\ \E h : /\ \A j \in DOMAIN r : h[j] \in DOMAIN s /\ h[j] \in G /\ r[j] = s[h[j]]
            /\ \A j, k \in DOMAIN r : h[j] = h[k] => j = k

LEMMA SelectsExist ==
  ASSUME NEW s, NEW G, NEW K \in Nat
  PROVE  \E upto : Selects(upto, s, G, K)
<1> DEFINE Q == {k \in 0 .. K : \E upto : Selects(upto, s, G, k)}
<1>1. 0 \in Q
  <2> DEFINE upto == [n \in 0 .. 0 |-> <<>>]
  <2>1. Selects(upto, s, G, 0)
    BY DEF Selects
  <2> QED BY <2>1
<1>2. ASSUME NEW k \in 0 .. K, k \in Q, k < K
      PROVE  k + 1 \in Q
  <2>1. PICK less : Selects(less, s, G, k)
    BY <1>2
  <2> DEFINE upto == [n \in 0 .. (k + 1) |->
                        IF n = 0 THEN <<>>
                        ELSE IF n \in G THEN Append(less[n - 1], s[n]) ELSE less[n - 1]]
  <2>2. \A n \in 0 .. k :
          less[n] = IF n = 0 THEN <<>>
                    ELSE IF n \in G THEN Append(less[n - 1], s[n]) ELSE less[n - 1]
    BY <2>1 DEF Selects
  <2>3. \A n \in 0 .. (k + 1) :
          upto[n] = IF n = 0 THEN <<>>
                    ELSE IF n \in G THEN Append(less[n - 1], s[n]) ELSE less[n - 1]
    OBVIOUS
  <2>6. upto = [n \in 0 .. (k + 1) |-> upto[n]]
    OBVIOUS
  <2> HIDE DEF upto
  <2>7. \A n \in 0 .. k : n \in 0 .. (k + 1) /\ upto[n] = less[n]
    BY <2>2, <2>3
  <2>8. \A n \in 0 .. (k + 1) : n # 0 => n - 1 \in 0 .. k
    OBVIOUS
  <2>9. \A n \in 0 .. (k + 1) : n # 0 => upto[n - 1] = less[n - 1]
    BY <2>7, <2>8
  <2>4. Selects(upto, s, G, k + 1)
    BY <2>3, <2>6, <2>9 DEF Selects
  <2>5. k + 1 \in 0 .. K
    BY <1>2
  <2> QED BY <2>4, <2>5
<1>3. K \in Q
  <2> HIDE DEF Q
  <2> QED BY <1>1, <1>2, UpToAll
<1> QED BY <1>3

LEMMA SelectsPick ==
  ASSUME NEW s, s \in Seq(ToSet(s)), NEW G, NEW upto, Selects(upto, s, G, Len(s))
  PROVE  Picks(upto[Len(s)], s, G)
<1> DEFINE S == ToSet(s)
           Good(n) ==
             /\ upto[n] \in Seq(S)
             /\ \E h : /\ \A j \in DOMAIN upto[n] :
                            h[j] \in 1 .. n /\ h[j] \in G /\ upto[n][j] = s[h[j]]
                       /\ \A j, k \in DOMAIN upto[n] : h[j] = h[k] => j = k
           Q == {n \in 0 .. Len(s) : Good(n)}
<1>1. Len(s) \in Nat /\ DOMAIN s = 1 .. Len(s) /\ \A i \in 1 .. Len(s) : s[i] \in S
  BY DEF ToSet
<1> HIDE DEF S
<1>2. 0 \in Q
  <2>1. upto[0] = <<>>
    BY <1>1 DEF Selects
  <2>2. upto[0] \in Seq(S) /\ DOMAIN upto[0] = {}
    BY <2>1
  <2>3. Good(0)
    BY <2>2
  <2> QED BY <1>1, <2>3
<1>3. ASSUME NEW m \in 0 .. Len(s), m \in Q, m < Len(s)
      PROVE  m + 1 \in Q
  <2> DEFINE n == m + 1
             q == upto[m]
  <2>1. n \in 0 .. Len(s) /\ n \in 1 .. Len(s) /\ n # 0 /\ n - 1 = m
    BY <1>1, <1>3
  <2>2. q \in Seq(S)
    BY <1>3
  <2>3. PICK h : /\ \A j \in DOMAIN q : h[j] \in 1 .. m /\ h[j] \in G /\ q[j] = s[h[j]]
                 /\ \A j, k \in DOMAIN q : h[j] = h[k] => j = k
    BY <1>3
  <2>4. upto[n] = IF n \in G THEN Append(q, s[n]) ELSE q
    BY <2>1 DEF Selects
  <2> HIDE DEF q
  <2>5. CASE n \notin G
    <3>1. upto[n] = q
      BY <2>4, <2>5
    <3>2. \A j \in DOMAIN q : h[j] \in 1 .. n
      BY <2>1, <2>3
    <3>3. Good(n)
      BY <2>2, <2>3, <3>1, <3>2
    <3> QED BY <2>1, <3>3
  <2>6. CASE n \in G
    <3> DEFINE l == Len(q)
               g == [j \in 1 .. l + 1 |-> IF j = l + 1 THEN n ELSE h[j]]
    <3>1. l \in Nat /\ DOMAIN q = 1 .. l
      BY <2>2
    <3>2. s[n] \in S
      BY <1>1, <2>1
    <3>3. /\ upto[n] = Append(q, s[n]) /\ upto[n] \in Seq(S)
          /\ DOMAIN upto[n] = 1 .. l + 1 /\ upto[n][l + 1] = s[n]
          /\ \A j \in 1 .. l : upto[n][j] = q[j]
      BY <2>2, <2>4, <2>6, <3>2
    <3> HIDE DEF l, n
    <3>4. \A j \in 1 .. l + 1 : j # l + 1 => j \in 1 .. l
      BY <3>1
    <3>5. ASSUME NEW j \in 1 .. l + 1
          PROVE  g[j] \in 1 .. n /\ g[j] \in G /\ upto[n][j] = s[g[j]]
      <4>1. CASE j = l + 1
        BY <2>1, <2>6, <3>3, <4>1
      <4>2. CASE j # l + 1
        <5>1. j \in 1 .. l /\ g[j] = h[j] /\ upto[n][j] = q[j]
          BY <3>3, <3>4, <4>2
        <5>2. h[j] \in 1 .. m /\ h[j] \in G /\ q[j] = s[h[j]]
          BY <2>3, <3>1, <5>1
        <5>3. 1 .. m \subseteq 1 .. n
          BY <2>1
        <5> QED BY <5>1, <5>2, <5>3
      <4> QED BY <4>1, <4>2
    <3>6. \A j \in 1 .. l : h[j] # n
      BY <2>1, <2>3, <3>1
    <3>7. \A j, k \in 1 .. l + 1 : g[j] = g[k] => j = k
      BY <2>3, <3>1, <3>4, <3>6
    <3> HIDE DEF g
    <3>8. /\ \A j \in DOMAIN upto[n] : g[j] \in 1 .. n /\ g[j] \in G /\ upto[n][j] = s[g[j]]
          /\ \A j, k \in DOMAIN upto[n] : g[j] = g[k] => j = k
      <4>1. PICK r, X : r = upto[n] /\ X = 1 .. l + 1
        OBVIOUS
      <4>2. /\ DOMAIN r = X
            /\ \A j \in X : g[j] \in 1 .. n /\ g[j] \in G /\ r[j] = s[g[j]]
            /\ \A j, k \in X : g[j] = g[k] => j = k
        BY <3>3, <3>5, <3>7, <4>1
      <4>3. /\ \A j \in DOMAIN r : g[j] \in 1 .. n /\ g[j] \in G /\ r[j] = s[g[j]]
            /\ \A j, k \in DOMAIN r : g[j] = g[k] => j = k
        BY <4>2
      <4> QED BY <4>1, <4>3
    <3>9. Good(n)
      BY <3>3, <3>8
    <3> QED BY <2>1, <3>9 DEF n
  <2> QED BY <2>5, <2>6
<1>4. Len(s) \in Q
  <2>1. PICK N \in Nat : N = Len(s)
    BY <1>1
  <2>2. \A m \in 0 .. N : m \in Q /\ m < N => m + 1 \in Q
    BY <1>3, <2>1
  <2> HIDE DEF Q
  <2>3. 0 .. N \subseteq Q
    BY <1>2, <2>2, UpToAll
  <2> QED BY <2>1, <2>3
<1>5. Good(Len(s))
  BY <1>4
<1> QED BY <1>1, <1>5 DEF Picks, S

-----------------------------------------------------------------------------
(* The statistic of an item, as a cost over a denominator.                 *)

DistancesOf(metric, v) ==
  [p \in (DOMAIN v) \X (DOMAIN v) |-> Dist(metric, v[p[1]], v[p[2]])]

LEMMA PairMeanIs ==
  ASSUME NEW metric, NEW v, NEW pairs, IsFiniteSet(pairs), pairs # {}, NEW dist,
         \A p \in pairs : dist[p] = Dist(metric, v[p[1]], v[p[2]]) /\ dist[p] \in Int
  PROVE  PairMean(metric, v, pairs) = <<SumOf(dist, pairs), Cardinality(pairs)>>
<1> DEFINE IsSum(sum) == sum = [s \in SUBSET pairs |->
                  IF s = {} THEN 0
                  ELSE LET x == CHOOSE y \in s : TRUE
                       IN  Dist(metric, v[x[1]], v[x[2]]) + sum[s \ {x}]]
           g == CHOOSE sum : IsSum(sum)
<1>1. MapThenSumSet(LAMBDA p : Dist(metric, v[p[1]], v[p[2]]), pairs) = g[pairs]
  BY SMT DEF MapThenSumSet, MapThenFoldSet
<1>2. PICK h : Sums(h, dist, pairs)
  BY SumsExist
<1>3. \A s \in SUBSET pairs : s # {} => Some(s) \in pairs
  BY DEF Some
<1>4. \A sum : IsSum(sum) <=> Sums(sum, dist, pairs)
  BY <1>3 DEF Sums, Some
<1>5. Sums(g, dist, pairs)
  <2> HIDE DEF IsSum
  <2>1. IsSum(h)
    BY <1>2, <1>4
  <2>2. IsSum(g)
    BY <2>1
  <2> HIDE DEF g
  <2> QED BY <1>4, <2>2
<1> HIDE DEF g
<1>6. g[pairs] = SumOf(dist, pairs)
  BY <1>5, SumOfIs
<1> QED BY <1>1, <1>6 DEF PairMean

LEMMA MeanDifference ==
  ASSUME NEW X \in Int, NEW A \in Int, NEW B \in Int, NEW n \in Int, NEW m \in Int,
         NEW P \in Int, NEW Q \in Int, NEW N, N = n * m,
         NEW wa, wa = <<A, P>>, NEW wb, wb = <<B, Q>>, NEW cross, cross = <<X, N>>
  PROVE  Minus(cross, Halved(Plus(wa, wb))) = <<Cost(n, m, P, Q, A, B, X), N * (2 * (P * Q))>>
<1> DEFINE Y == A * Q + B * P
           Z == 2 * (P * Q)
<1>1. Halved(Plus(wa, wb)) = <<Y, Z>>
  BY DEF Halved, Plus
<1>2. Y \in Int /\ Z \in Int /\ N \in Int
  OBVIOUS
<1>3. Minus(cross, <<Y, Z>>) = <<X * Z + (-Y) * N, N * Z>>
  BY DEF Minus, Plus
<1>4. X * Z = 2 * ((P * Q) * X)
  OBVIOUS
<1>5. (-Y) * N = -(N * (Q * A + P * B))
  <2>1. Y = Q * A + P * B
    OBVIOUS
  <2> HIDE DEF Y
  <2> QED BY <1>2, <2>1
<1>6. X * Z + (-Y) * N = Cost(n, m, P, Q, A, B, X)
  BY <1>4, <1>5 DEF Cost
<1> HIDE DEF Y, Z
<1> QED BY <1>1, <1>3, <1>6 DEF Z

\* The denominator of the statistic, for n and m places.
SplitScale(I, J) ==
  (Cardinality(I) * Cardinality(J)) * (2 * (Cardinality(Pairs(I)) * Cardinality(Pairs(J))))

\* dist are the distances between the values v at the places D.
Measures(dist, metric, v, D) ==
  /\ D = DOMAIN v /\ D \in SUBSET Int /\ IsFiniteSet(D)
  /\ dist = DistancesOf(metric, v) /\ \A p \in D \X D : dist[p] \in Int

\* The places D in two parts of two or more.
Halves(I, J, D) ==
  I \in SUBSET D /\ J = D \ I /\ Cardinality(I) >= 2 /\ Cardinality(J) >= 2

LEMMA SplitIs ==
  ASSUME NEW metric, NEW v, NEW D, NEW dist, Measures(dist, metric, v, D),
         NEW I, NEW J, Halves(I, J, D)
  PROVE  Split(metric, v, I).t = <<SplitCost(dist, I, J), SplitScale(I, J)>>
<1>1. /\ D = DOMAIN v /\ D \in SUBSET Int /\ IsFiniteSet(D)
      /\ dist = DistancesOf(metric, v) /\ \A p \in D \X D : dist[p] \in Int
      /\ I \in SUBSET D /\ J = D \ I /\ Cardinality(I) >= 2 /\ Cardinality(J) >= 2
  BY DEF Measures, Halves
<1>2. I \in SUBSET Int /\ J \in SUBSET Int /\ IsFiniteSet(I) /\ IsFiniteSet(J)
  BY <1>1, FS_Subset
<1>3. /\ IsFiniteSet(Pairs(I)) /\ Cardinality(Pairs(I)) \in Nat /\ Cardinality(I) \in Nat
      /\ 2 * Cardinality(Pairs(I)) = Cardinality(I) * (Cardinality(I) - 1)
  BY <1>2, PairsCount
<1>4. /\ IsFiniteSet(Pairs(J)) /\ Cardinality(Pairs(J)) \in Nat /\ Cardinality(J) \in Nat
      /\ 2 * Cardinality(Pairs(J)) = Cardinality(J) * (Cardinality(J) - 1)
  BY <1>2, PairsCount
<1>5. IsFiniteSet(I \X J) /\ Cardinality(I \X J) = Cardinality(I) * Cardinality(J)
  BY <1>2, FS_Product
<1>6. Pairs(I) # {} /\ Pairs(J) # {} /\ I \X J # {}
  <2>1. \A n \in Nat : n >= 2 => n * (n - 1) # 0
    OBVIOUS
  <2>2. Cardinality(Pairs(I)) # 0 /\ Cardinality(Pairs(J)) # 0
    BY <1>1, <1>3, <1>4, <2>1
  <2>3. I # {} /\ J # {}
    BY <1>1, <1>2, <1>3, <1>4, FS_EmptySet
  <2>4. Cardinality({}) = 0
    BY FS_EmptySet
  <2>5. Pairs(I) # {} /\ Pairs(J) # {}
    BY <2>2, <2>4
  <2>6. PICK x \in I, y \in J : TRUE
    BY <2>3
  <2>7. <<x, y>> \in I \X J
    OBVIOUS
  <2> QED BY <2>5, <2>7
<1>7. \A p \in D \X D : dist[p] = Dist(metric, v[p[1]], v[p[2]]) /\ dist[p] \in Int
  BY <1>1 DEF DistancesOf
<1>8. ASSUME NEW pairs, pairs \in SUBSET (D \X D), IsFiniteSet(pairs), pairs # {}
      PROVE  /\ PairMean(metric, v, pairs) = <<SumOf(dist, pairs), Cardinality(pairs)>>
             /\ SumOf(dist, pairs) \in Int
  <2>1. \A p \in pairs : dist[p] = Dist(metric, v[p[1]], v[p[2]]) /\ dist[p] \in Int
    BY <1>7, <1>8
  <2> QED BY <1>8, <2>1, PairMeanIs, SumOfIs
<1>9. /\ PairMean(metric, v, Pairs(I)) = <<SumOf(dist, Pairs(I)), Cardinality(Pairs(I))>>
      /\ SumOf(dist, Pairs(I)) \in Int
  <2>1. Pairs(I) \in SUBSET (D \X D)
    BY <1>1 DEF Pairs
  <2> QED BY <1>3, <1>6, <1>8, <2>1
<1>10. /\ PairMean(metric, v, Pairs(J)) = <<SumOf(dist, Pairs(J)), Cardinality(Pairs(J))>>
       /\ SumOf(dist, Pairs(J)) \in Int
  <2>1. Pairs(J) \in SUBSET (D \X D)
    BY <1>1 DEF Pairs
  <2> QED BY <1>4, <1>6, <1>8, <2>1
<1>11. /\ PairMean(metric, v, I \X J) = <<SumOf(dist, I \X J), Cardinality(I) * Cardinality(J)>>
       /\ SumOf(dist, I \X J) \in Int
  <2>1. PICK pairs : pairs = I \X J
    OBVIOUS
  <2>2. pairs \in SUBSET (D \X D) /\ IsFiniteSet(pairs) /\ pairs # {}
    BY <1>1, <1>5, <1>6, <2>1
  <2>3. /\ PairMean(metric, v, pairs) = <<SumOf(dist, pairs), Cardinality(pairs)>>
        /\ SumOf(dist, pairs) \in Int
    BY <1>8, <2>2
  <2> QED BY <1>5, <2>1, <2>3
<1>12. Split(metric, v, I).t
         = Minus(PairMean(metric, v, I \X J),
                 Halved(Plus(PairMean(metric, v, Pairs(I)), PairMean(metric, v, Pairs(J)))))
  BY <1>1 DEF Split
<1>13. Split(metric, v, I).t = <<SplitCost(dist, I, J), SplitScale(I, J)>>
  <2> DEFINE X == SumOf(dist, I \X J)
             A == SumOf(dist, Pairs(I))
             B == SumOf(dist, Pairs(J))
             n == Cardinality(I)
             m == Cardinality(J)
             P == Cardinality(Pairs(I))
             Q == Cardinality(Pairs(J))
  <2>1. X \in Int /\ A \in Int /\ B \in Int /\ n \in Int /\ m \in Int /\ P \in Int /\ Q \in Int
    BY <1>3, <1>4, <1>9, <1>10, <1>11
  <2>2. PICK wa, wb, cross, N :
          /\ wa = PairMean(metric, v, Pairs(I)) /\ wb = PairMean(metric, v, Pairs(J))
          /\ cross = PairMean(metric, v, I \X J) /\ N = n * m
    OBVIOUS
  <2>3. wa = <<A, P>> /\ wb = <<B, Q>> /\ cross = <<X, N>>
    BY <1>9, <1>10, <1>11, <2>2
  <2>4. Split(metric, v, I).t = Minus(cross, Halved(Plus(wa, wb)))
    BY <1>12, <2>2
  <2>5. SplitCost(dist, I, J) = Cost(n, m, P, Q, A, B, X)
        /\ SplitScale(I, J) = N * (2 * (P * Q))
    BY <2>2 DEF SplitCost, SplitScale
  <2>6. N = n * m
    BY <2>2
  <2> HIDE DEF X, A, B, n, m, P, Q
  <2>7. Minus(cross, Halved(Plus(wa, wb))) = <<Cost(n, m, P, Q, A, B, X), N * (2 * (P * Q))>>
    BY <2>1, <2>3, <2>6, MeanDifference
  <2> QED BY <2>4, <2>5, <2>7
<1> QED BY <1>13

-----------------------------------------------------------------------------
(* No exchange of labels for sides that answer alike.                      *)

\* Values of a metric that the statistic can compare, at least two a side.
Sampled(metric, a, b) ==
  /\ a \in Seq(ToSet(a)) /\ b \in Seq(ToSet(b)) /\ Len(a) >= 2 /\ Len(b) >= 2
  /\ metric = "agreement" \/ (ToSet(a) \subseteq Int /\ ToSet(b) \subseteq Int)

\* The times the value x is in s.
Times(s, x) == Cardinality({i \in DOMAIN s : s[i] = x})

SameShares(a, b) ==
  \A x \in ToSet(a \o b) : Times(a, x) * Len(b) = Times(b, x) * Len(a)

LEMMA ScaleSame ==
  ASSUME NEW I \in SUBSET Int, NEW J \in SUBSET Int, IsFiniteSet(I), IsFiniteSet(J),
         NEW H \in SUBSET Int, NEW K \in SUBSET Int, IsFiniteSet(H), IsFiniteSet(K),
         Cardinality(I) = Cardinality(H), Cardinality(J) = Cardinality(K),
         Cardinality(I) >= 2, Cardinality(J) >= 2
  PROVE  SplitScale(I, J) = SplitScale(H, K) /\ SplitScale(I, J) \in Nat \ {0}
<1>1. /\ Cardinality(Pairs(I)) \in Nat /\ Cardinality(I) \in Nat
      /\ 2 * Cardinality(Pairs(I)) = Cardinality(I) * (Cardinality(I) - 1)
  BY PairsCount
<1>2. /\ Cardinality(Pairs(J)) \in Nat /\ Cardinality(J) \in Nat
      /\ 2 * Cardinality(Pairs(J)) = Cardinality(J) * (Cardinality(J) - 1)
  BY PairsCount
<1>3. /\ Cardinality(Pairs(H)) \in Nat
      /\ 2 * Cardinality(Pairs(H)) = Cardinality(H) * (Cardinality(H) - 1)
  BY PairsCount
<1>4. /\ Cardinality(Pairs(K)) \in Nat
      /\ 2 * Cardinality(Pairs(K)) = Cardinality(K) * (Cardinality(K) - 1)
  BY PairsCount
<1>5. PICK n \in Nat, m \in Nat, P \in Nat, Q \in Nat :
        n = Cardinality(I) /\ m = Cardinality(J) /\ P = Cardinality(Pairs(I)) /\ Q = Cardinality(Pairs(J))
  BY <1>1, <1>2
<1>6. 2 * P = n * (n - 1) /\ 2 * Q = m * (m - 1) /\ n >= 2 /\ m >= 2
  BY <1>1, <1>2, <1>5
<1>7. Cardinality(Pairs(H)) = P /\ Cardinality(Pairs(K)) = Q
  <2>1. 2 * Cardinality(Pairs(H)) = 2 * P /\ 2 * Cardinality(Pairs(K)) = 2 * Q
    BY <1>1, <1>2, <1>3, <1>4, <1>5
  <2>2. Cardinality(Pairs(H)) \in Nat /\ Cardinality(Pairs(K)) \in Nat
    BY <1>3, <1>4
  <2>3. \A k, l \in Nat : 2 * k = 2 * l => k = l
    OBVIOUS
  <2> QED BY <2>1, <2>2, <2>3
<1>8. P > 0 /\ Q > 0
  <2>1. \A k \in Nat : k >= 2 => k * (k - 1) > 0
    OBVIOUS
  <2> QED BY <1>5, <1>6, <2>1
<1>9. SplitScale(I, J) = (n * m) * (2 * (P * Q)) /\ SplitScale(H, K) = (n * m) * (2 * (P * Q))
  BY <1>5, <1>7 DEF SplitScale
<1>10. (n * m) * (2 * (P * Q)) \in Nat \ {0}
  <2>1. \A k, l \in Nat : k > 0 /\ l > 0 => k * l > 0 /\ k * l \in Nat
    OBVIOUS
  <2>2. n * m > 0 /\ n * m \in Nat /\ P * Q > 0 /\ P * Q \in Nat
    BY <1>5, <1>6, <1>8, <2>1
  <2>3. 2 * (P * Q) > 0 /\ 2 * (P * Q) \in Nat
    BY <2>2
  <2>4. (n * m) * (2 * (P * Q)) > 0 /\ (n * m) * (2 * (P * Q)) \in Nat
    BY <2>1, <2>2, <2>3
  <2> QED BY <2>4
<1> QED BY <1>9, <1>10

\* v is a followed by b, D its places and H those of a.
Joined(a, b, v, D, H) ==
  /\ Len(a) \in Nat /\ Len(b) \in Nat /\ D = 1 .. Len(a) + Len(b) /\ IsFiniteSet(D)
  /\ D \in SUBSET Int /\ H \in SUBSET D /\ Cardinality(H) = Len(a)
  /\ IsFiniteSet(D \ H) /\ Cardinality(D \ H) = Len(b)
  /\ \A i \in 1 .. Len(a) : i \in DOMAIN a /\ v[i] = a[i]
  /\ \A i \in 1 .. Len(b) : i \in DOMAIN b /\ v[Len(a) + i] = b[i]

LEMMA JoinedFacts ==
  ASSUME NEW a, NEW b, a \in Seq(ToSet(a)), b \in Seq(ToSet(b)), NEW v, v = a \o b,
         NEW D, D = DOMAIN v, NEW H, H = 1 .. Len(a)
  PROVE  Joined(a, b, v, D, H)
<1> DEFINE S == ToSet(a) \cup ToSet(b)
<1>1. Len(a) \in Nat /\ Len(b) \in Nat /\ DOMAIN a = 1 .. Len(a) /\ DOMAIN b = 1 .. Len(b)
  OBVIOUS
<1>2. a \in Seq(S) /\ b \in Seq(S)
  <2> HIDE DEF S
  <2>1. \A i \in 1 .. Len(a) : a[i] \in S
    BY <1>1 DEF S, ToSet
  <2>2. \A i \in 1 .. Len(b) : b[i] \in S
    BY <1>1 DEF S, ToSet
  <2>3. a = [i \in 1 .. Len(a) |-> a[i]] /\ b = [i \in 1 .. Len(b) |-> b[i]]
    BY <1>1
  <2>4. \A s, n : n \in Nat /\ (\A i \in 1 .. n : s[i] \in S) => [i \in 1 .. n |-> s[i]] \in Seq(S)
    OBVIOUS
  <2>5. a \in Seq(S)
    BY <1>1, <2>1, <2>3, <2>4
  <2>6. b \in Seq(S)
    BY <1>1, <2>2, <2>3, <2>4
  <2> QED BY <2>5, <2>6
<1>3. v \in Seq(S) /\ Len(v) = Len(a) + Len(b)
      /\ \A i \in 1 .. Len(v) : v[i] = IF i <= Len(a) THEN a[i] ELSE b[i - Len(a)]
  BY <1>2
<1>4. D = 1 .. Len(a) + Len(b)
  BY <1>3
<1>5. IsFiniteSet(D) /\ Cardinality(D) = Len(a) + Len(b) /\ Cardinality(H) = Len(a)
  <2>1. Len(a) + Len(b) \in Nat
    BY <1>1
  <2>2. ASSUME NEW n \in Nat PROVE Cardinality(1 .. n) = n /\ IsFiniteSet(1 .. n)
    <3>1. n \in Int /\ 1 \in Int
      OBVIOUS
    <3>2. IsFiniteSet(1 .. n) /\ Cardinality(1 .. n) = IF 1 > n THEN 0 ELSE n - 1 + 1
      BY <3>1, FS_Interval
    <3> QED BY <3>2
  <2>3. PICK p \in Nat : p = Len(a) + Len(b)
    BY <2>1
  <2>4. D = 1 .. p
    BY <1>4, <2>3
  <2> QED BY <1>1, <2>2, <2>3, <2>4
<1>6. H \in SUBSET D /\ D \in SUBSET Int
  BY <1>1, <1>4
<1>7. IsFiniteSet(D \ H) /\ Cardinality(D \ H) = Len(b)
  <2>1. D \cap H = H
    BY <1>6
  <2>2. IsFiniteSet(D \ H) /\ Cardinality(D \ H) = Cardinality(D) - Cardinality(D \cap H)
    BY <1>5, FS_Difference
  <2>3. Cardinality(D \ H) = Cardinality(D) - Cardinality(H)
    BY <2>1, <2>2
  <2> QED BY <1>1, <1>5, <2>2, <2>3
<1>8. \A i \in 1 .. Len(a) : i \in DOMAIN a /\ v[i] = a[i]
  BY <1>1, <1>3
<1>9. \A i \in 1 .. Len(b) : i \in DOMAIN b /\ v[Len(a) + i] = b[i]
  BY <1>1, <1>3
<1> QED BY <1>1, <1>4, <1>5, <1>6, <1>7, <1>8, <1>9 DEF Joined

LEMMA SharesAlike ==
  ASSUME NEW a, NEW b, a \in Seq(ToSet(a)), b \in Seq(ToSet(b)), SameShares(a, b),
         NEW v, v = a \o b, NEW D, D = DOMAIN v, NEW H, H = 1 .. Len(a)
  PROVE  Alike(v, D, H)
<1>1. /\ Len(a) \in Nat /\ Len(b) \in Nat /\ D = 1 .. Len(a) + Len(b) /\ IsFiniteSet(D)
      /\ D \in SUBSET Int /\ H \in SUBSET D /\ Cardinality(H) = Len(a)
      /\ IsFiniteSet(D \ H) /\ Cardinality(D \ H) = Len(b)
      /\ \A i \in 1 .. Len(a) : i \in DOMAIN a /\ v[i] = a[i]
      /\ \A i \in 1 .. Len(b) : i \in DOMAIN b /\ v[Len(a) + i] = b[i]
  <2>1. Joined(a, b, v, D, H)
    BY JoinedFacts
  <2> QED BY <2>1 DEF Joined
<1>2. DOMAIN a = 1 .. Len(a) /\ DOMAIN b = 1 .. Len(b)
  OBVIOUS
<1>3. SUFFICES ASSUME NEW x \in {v[i] : i \in D} PROVE Balanced(Holding(v, {x}, D), H, D \ H)
  BY DEF Alike
<1>4. x \in ToSet(a \o b)
  BY DEF ToSet
<1>5. H \cap Holding(v, {x}, D) = {i \in DOMAIN a : a[i] = x}
  BY <1>1, <1>2 DEF Holding
<1>6. Cardinality((D \ H) \cap Holding(v, {x}, D)) = Times(b, x)
  <2> DEFINE S == {i \in DOMAIN b : b[i] = x}
             T == (D \ H) \cap Holding(v, {x}, D)
             f == [i \in S |-> Len(a) + i]
  <2>1. IsFiniteSet(S)
    <3>1. IsFiniteSet(1 .. Len(b))
      BY <1>1, FS_Interval
    <3> QED BY <1>2, <3>1, FS_Subset
  <2>2. f \in [S -> T]
    <3>1. \A i \in S : Len(a) + i \in T
      BY <1>1, <1>2 DEF Holding
    <3> QED BY <3>1
  <2>3. \A i, j \in S : f[i] = f[j] => i = j
    BY <1>1, <1>2
  <2>4. \A z \in T : \E i \in S : f[i] = z
    <3> SUFFICES ASSUME NEW z \in T PROVE \E i \in S : f[i] = z
      OBVIOUS
    <3>1. z \in D /\ z \notin H /\ v[z] = x /\ z \in Int
      BY <1>1 DEF Holding
    <3>2. PICK i : i = z - Len(a)
      OBVIOUS
    <3>3. i \in 1 .. Len(b) /\ z = Len(a) + i
      BY <1>1, <3>1, <3>2
    <3>4. i \in S
      BY <1>1, <1>2, <3>1, <3>3
    <3> QED BY <3>3, <3>4
  <2> HIDE DEF S, T, f
  <2>5. Cardinality(T) = Cardinality(S)
    BY <2>1, <2>2, <2>3, <2>4, OneToOne
  <2> QED BY <2>5 DEF S, T, Times
<1>7. Times(a, x) * Len(b) = Times(b, x) * Len(a)
  BY <1>4 DEF SameShares
<1>8. Times(a, x) \in Nat /\ Times(b, x) \in Nat
  <2>1. IsFiniteSet(1 .. Len(a)) /\ IsFiniteSet(1 .. Len(b))
    BY <1>1, FS_Interval
  <2>2. IsFiniteSet({i \in DOMAIN a : a[i] = x}) /\ IsFiniteSet({i \in DOMAIN b : b[i] = x})
    BY <1>2, <2>1, FS_Subset
  <2> QED BY <2>2, FS_CardinalityType DEF Times
<1>9. Cardinality(H \cap Holding(v, {x}, D)) = Times(a, x)
  BY <1>5 DEF Times
<1>10. Cardinality(D \ H) * Times(a, x) = Cardinality(H) * Times(b, x)
  <2>1. PICK t \in Nat, u \in Nat, m \in Nat, n \in Nat :
          t = Times(a, x) /\ u = Times(b, x) /\ m = Len(b) /\ n = Len(a)
    BY <1>1, <1>8
  <2>2. t * m = u * n
    BY <1>7, <2>1
  <2>3. m * t = n * u
    BY <2>2
  <2> QED BY <1>1, <2>1, <2>3
<1> QED BY <1>6, <1>9, <1>10 DEF Balanced

\* The statistic of a and b and the least of an exchange, over one scale.
NoSmaller(metric, a, b) ==
  \E d \in Nat \ {0}, f, g \in Int :
    ItemStat(metric, a, b).t = <<f, d>> /\ LeastSplit(metric, a, b) = <<g, d>> /\ f <= g

LEMMA DistancesKnown ==
  ASSUME NEW metric, NEW a, NEW b, Sampled(metric, a, b), NEW v, v = a \o b,
         NEW D, D = DOMAIN v, NEW H, H = 1 .. Len(a),
         NEW dist, dist = DistancesOf(metric, v)
  PROVE  /\ WordDistance(dist, v, D) \/ NumberDistance(dist, v, D)
         /\ \A p \in D \X D : dist[p] \in Int
<1>1. Joined(a, b, v, D, H)
  BY JoinedFacts DEF Sampled
<1>2. \A p \in D \X D : dist[p] = Dist(metric, v[p[1]], v[p[2]])
  BY DEF DistancesOf
<1>3. CASE metric = "agreement"
  <2>1. \A p \in D \X D : dist[p] = Bit(v[p[1]] # v[p[2]])
    BY <1>2, <1>3 DEF Dist
  <2> QED BY <2>1 DEF WordDistance, Bit
<1>4. CASE metric # "agreement"
  <2>1. \A i \in D : v[i] \in Int
    <3> SUFFICES ASSUME NEW i \in D PROVE v[i] \in Int
      OBVIOUS
    <3>1. PICK n \in Nat, m \in Nat : n = Len(a) /\ m = Len(b)
      BY <1>1 DEF Joined
    <3>2. i \in 1 .. n + m
      BY <1>1, <3>1 DEF Joined
    <3>3. CASE i \in 1 .. n
      BY <1>1, <1>4, <3>1, <3>3 DEF Joined, Sampled, ToSet
    <3>4. CASE i \notin 1 .. n
      <4>1. PICK j : j = i - n
        OBVIOUS
      <4>2. j \in 1 .. m /\ n + j = i
        BY <3>1, <3>2, <3>4, <4>1
      <4>3. j \in DOMAIN b /\ v[i] = b[j]
        BY <1>1, <3>1, <4>2 DEF Joined
      <4> QED BY <1>4, <4>3 DEF Sampled, ToSet
    <3> QED BY <3>3, <3>4
  <2>2. \A p \in D \X D : dist[p] = IF v[p[1]] < v[p[2]] THEN v[p[2]] - v[p[1]]
                                    ELSE v[p[1]] - v[p[2]]
    BY <1>2, <1>4 DEF Dist
  <2>3. NumberDistance(dist, v, D)
    BY <2>1, <2>2 DEF NumberDistance
  <2>4. ASSUME NEW p \in D \X D PROVE dist[p] \in Int
    <3>1. PICK x \in Int, y \in Int : x = v[p[1]] /\ y = v[p[2]]
      BY <2>1
    <3>2. dist[p] = IF x < y THEN y - x ELSE x - y
      BY <2>2, <3>1
    <3> QED BY <3>2
  <2> QED BY <2>3, <2>4
<1> QED BY <1>3, <1>4

LEMMA AlikeItem ==
  ASSUME NEW metric, NEW a, NEW b, Sampled(metric, a, b), SameShares(a, b)
  PROVE  NoSmaller(metric, a, b)
<1>1. PICK v, D, H, dist : v = a \o b /\ D = DOMAIN v /\ H = 1 .. Len(a)
                           /\ dist = DistancesOf(metric, v)
  OBVIOUS
<1>2. Joined(a, b, v, D, H)
  BY <1>1, JoinedFacts DEF Sampled
<1>3. Alike(v, D, H)
  BY <1>1, SharesAlike DEF Sampled
<1>4. /\ WordDistance(dist, v, D) \/ NumberDistance(dist, v, D)
      /\ \A p \in D \X D : dist[p] \in Int
  <2>1. v = a \o b /\ D = DOMAIN v /\ H = 1 .. Len(a) /\ dist = DistancesOf(metric, v)
    BY <1>1
  <2>2. WordDistance(dist, v, D) \/ NumberDistance(dist, v, D)
    BY <2>1, DistancesKnown, ZenonT(30)
  <2>3. \A p \in D \X D : dist[p] \in Int
    BY <2>1, DistancesKnown, ZenonT(30)
  <2> QED BY <2>2, <2>3
<1>5. /\ D \in SUBSET Int /\ IsFiniteSet(D) /\ H \in SUBSET D /\ Cardinality(H) = Len(a)
      /\ Cardinality(D \ H) = Len(b) /\ Len(a) >= 2 /\ Len(b) >= 2
      /\ Len(a) \in Nat /\ Len(b) \in Nat /\ IsFiniteSet(D \ H)
  <2>1. Len(a) >= 2 /\ Len(b) >= 2
    BY DEF Sampled
  <2> QED BY <1>2, <2>1 DEF Joined
<1>6. H # {} /\ D \ H # {}
  <2>1. Cardinality({}) = 0
    BY FS_EmptySet
  <2>2. PICK K : K = D \ H
    OBVIOUS
  <2>3. Cardinality(H) # 0 /\ Cardinality(K) # 0
    BY <1>5, <2>2
  <2>4. H # {} /\ K # {}
    BY <2>1, <2>3
  <2> QED BY <2>2, <2>4
<1> DEFINE d == SplitScale(H, D \ H)
           parts == kSubset(Len(a), D)
           F == SplitCost(dist, H, D \ H)
           G(I) == SplitCost(dist, I, D \ I)
<1>7. ASSUME NEW I \in parts
      PROVE  Split(metric, v, I).t = <<G(I), d>> /\ G(I) \in Int /\ F \in Int /\ G(I) >= F
             /\ d \in Nat \ {0}
  <2>1. I \in SUBSET D /\ Cardinality(I) = Cardinality(H)
    BY <1>5 DEF kSubset
  <2>2. Exchange(D, I, H)
    BY <1>5, <1>6, <2>1 DEF Exchange
  <2>3. G(I) \in Int /\ F \in Int /\ G(I) >= F
    BY <1>3, <1>4, <2>2, AlikeLeast
  <2>4. PICK J, K : J = D \ I /\ K = D \ H
    OBVIOUS
  <2>5. /\ I \in SUBSET Int /\ H \in SUBSET Int /\ J \in SUBSET Int /\ K \in SUBSET Int
        /\ IsFiniteSet(I) /\ IsFiniteSet(H) /\ IsFiniteSet(J) /\ IsFiniteSet(K)
        /\ Cardinality(J) = Cardinality(K)
    BY <2>2, <2>4, ExchangeFacts
  <2>6. Cardinality(I) >= 2 /\ Cardinality(J) >= 2
    BY <1>5, <2>1, <2>4, <2>5
  <2>7. SplitScale(I, J) = SplitScale(H, K) /\ SplitScale(I, J) \in Nat \ {0}
    BY <2>1, <2>5, <2>6, ScaleSame
  <2>8. Split(metric, v, I).t = <<SplitCost(dist, I, J), SplitScale(I, J)>>
    <3>1. Measures(dist, metric, v, D)
      BY <1>1, <1>4, <1>5 DEF Measures
    <3>2. Halves(I, J, D)
      BY <2>1, <2>4, <2>6 DEF Halves
    <3> QED BY <3>1, <3>2, SplitIs
  <2> QED BY <2>3, <2>4, <2>7, <2>8
<1>8. H \in parts
  BY <1>5 DEF kSubset
<1>9. ItemStat(metric, a, b).t = <<F, d>>
  <2>1. Split(metric, v, H).t = <<F, d>>
    BY <1>7, <1>8
  <2> QED BY <1>1, <2>1 DEF ItemStat
<1> DEFINE ts == {Split(metric, v, I).t : I \in parts}
<1>10. LeastSplit(metric, a, b) = CHOOSE t \in ts : \A u \in ts : ~ Below(u, t)
  BY <1>1 DEF LeastSplit
<1>11. F \in Int /\ d \in Nat \ {0}
  BY <1>7, <1>8
<1>12. \A t \in ts : \E g \in Int : t = <<g, d>> /\ F <= g
  BY <1>7
<1>13. <<F, d>> \in ts
  <2>1. Split(metric, v, H).t = <<F, d>>
    BY <1>7, <1>8
  <2> QED BY <1>8, <2>1
<1> HIDE DEF d, F, ts, parts, G
<1>14. \A u \in ts : ~ Below(u, <<F, d>>)
  <2> SUFFICES ASSUME NEW u \in ts PROVE ~ Below(u, <<F, d>>)
    OBVIOUS
  <2>1. PICK g \in Int : u = <<g, d>> /\ F <= g
    BY <1>12
  <2>2. ~ (g * d < F * d)
    BY <1>11, <2>1
  <2> QED BY <2>1, <2>2 DEF Below
<1>15. LeastSplit(metric, a, b) \in ts
  BY <1>10, <1>13, <1>14
<1>16. PICK g \in Int : LeastSplit(metric, a, b) = <<g, d>> /\ F <= g
  BY <1>12, <1>15
<1> QED BY <1>9, <1>11, <1>16 DEF NoSmaller

-----------------------------------------------------------------------------
(* Totals of fractions.                                                    *)

\* h is the total of f over each part of S.
Adds(h, f, S) ==
  h = [s \in SUBSET S |-> IF s = {} THEN Zero ELSE Plus(f[Some(s)], h[s \ {Some(s)}])]

LEMMA AddsExist ==
  ASSUME NEW S, IsFiniteSet(S), NEW f, \A x \in S : f[x] \in Int \X Int
  PROVE  \E h : Adds(h, f, S)
<1> DEFINE step == [p \in S \X (Int \X Int) |-> Plus(f[p[1]], p[2])]
<1>1. PICK h : Folds(h, Zero, step, SUBSET S)
  BY FoldExists
<1> DEFINE Q == {s \in SUBSET S : h[s] \in Int \X Int}
<1>2. {} \in Q
  BY <1>1 DEF Folds, Zero
<1>3. ASSUME NEW p \in Int \X Int, NEW q \in Int \X Int
      PROVE  Plus(p, q) \in Int \X Int
  BY DEF Plus
<1>4. ASSUME NEW s \in SUBSET S, s # {}, s \ {Some(s)} \in Q
      PROVE  h[s] = Plus(f[Some(s)], h[s \ {Some(s)}]) /\ h[s] \in Int \X Int
  <2>1. Some(s) \in S
    BY <1>4 DEF Some
  <2>2. h[s] = step[<<Some(s), h[s \ {Some(s)}]>>]
    BY <1>1, <1>4 DEF Folds
  <2>3. h[s \ {Some(s)}] \in Int \X Int
    BY <1>4
  <2>4. h[s] = Plus(f[Some(s)], h[s \ {Some(s)}])
    BY <2>1, <2>2, <2>3
  <2> QED BY <1>3, <2>1, <2>3, <2>4
<1>5. ASSUME NEW s \in SUBSET S, s # {}, \A x \in s : s \ {x} \in Q
      PROVE  s \in Q
  <2>1. Some(s) \in s
    BY <1>5 DEF Some
  <2>2. s \ {Some(s)} \in Q
    BY <1>5, <2>1
  <2>3. h[s] \in Int \X Int
    BY <1>4, <1>5, <2>2
  <2> QED BY <2>3
<1>6. SUBSET S \subseteq Q
  <2> HIDE DEF Q
  <2> QED BY <1>2, <1>5, AllParts
<1>7. \A s \in SUBSET S : s # {} => s \ {Some(s)} \in Q
  <2> HIDE DEF Q
  <2> QED BY <1>6, RestOf
<1>8. \A s \in SUBSET S : h[s] = IF s = {} THEN Zero ELSE Plus(f[Some(s)], h[s \ {Some(s)}])
  <2> HIDE DEF Q
  <2> QED BY <1>1, <1>4, <1>7 DEF Folds
<1>9. h = [s \in SUBSET S |-> h[s]]
  BY <1>1 DEF Folds
<1> QED BY <1>8, <1>9 DEF Adds

LEMMA TotalIs ==
  ASSUME NEW ps, IsFiniteSet(DOMAIN ps), \A x \in DOMAIN ps : ps[x] \in Int \X Int
  PROVE  \E h : Adds(h, ps, DOMAIN ps) /\ Total(ps) = h[DOMAIN ps]
<1> DEFINE S == DOMAIN ps
           g == CHOOSE sum : sum = [s \in SUBSET S |->
                  IF s = {} THEN Zero
                  ELSE LET x == CHOOSE y \in s : TRUE IN Plus(ps[x], sum[s \ {x}])]
<1>1. Total(ps) = g[S]
  BY SMT DEF Total, FoldSeq, FoldFunction, FoldFunctionOnSet, MapThenFoldSet, Plus, Zero
<1>2. PICK h : Adds(h, ps, S)
  BY AddsExist
<1>3. g = CHOOSE sum : Adds(sum, ps, S)
  BY DEF Adds, Some
<1> HIDE DEF g
<1>4. Adds(g, ps, S)
  BY <1>2, <1>3
<1> QED BY <1>1, <1>4

\* Over one scale, q is no smaller than p.
NotAbove(p, q) ==
  \E d \in Nat \ {0}, a, b \in Int : p = <<a, d>> /\ q = <<b, d>> /\ a <= b

\* Over the same scales, no smaller terms have no smaller total.
LEMMA TotalsOrdered ==
  ASSUME NEW S, IsFiniteSet(S), NEW f, NEW g,
         \A x \in S : NotAbove(f[x], g[x]),
         NEW h, NEW k, Adds(h, f, S), Adds(k, g, S)
  PROVE  NotAbove(h[S], k[S])
<1> DEFINE Q == {s \in SUBSET S : NotAbove(h[s], k[s])}
<1>1. {} \in Q
  <2>1. h[{}] = <<0, 1>> /\ k[{}] = <<0, 1>>
    BY DEF Adds, Zero
  <2> QED BY <2>1 DEF NotAbove
<1>2. ASSUME NEW p, NEW q, NEW r, NEW t, NotAbove(p, q), NotAbove(r, t)
      PROVE  NotAbove(Plus(p, r), Plus(q, t))
  <2>1. PICK d \in Nat \ {0}, a \in Int, b \in Int : p = <<a, d>> /\ q = <<b, d>> /\ a <= b
    BY <1>2 DEF NotAbove
  <2>2. PICK e \in Nat \ {0}, x \in Int, y \in Int : r = <<x, e>> /\ t = <<y, e>> /\ x <= y
    BY <1>2 DEF NotAbove
  <2>3. Plus(p, r) = <<a * e + x * d, d * e>> /\ Plus(q, t) = <<b * e + y * d, d * e>>
    BY <2>1, <2>2 DEF Plus
  <2>4. a * e <= b * e /\ x * d <= y * d
    BY <2>1, <2>2
  <2>5. d * e \in Nat \ {0} /\ a * e \in Int /\ x * d \in Int /\ b * e \in Int /\ y * d \in Int
    OBVIOUS
  <2>6. PICK D \in Nat \ {0}, A \in Int, B \in Int :
          D = d * e /\ A = a * e + x * d /\ B = b * e + y * d
    BY <2>5
  <2>7. A <= B
    BY <2>4, <2>5, <2>6
  <2> QED BY <2>3, <2>6, <2>7 DEF NotAbove
<1>3. ASSUME NEW s \in SUBSET S, s # {}, \A x \in s : s \ {x} \in Q
      PROVE  s \in Q
  <2>1. Some(s) \in s
    BY <1>3 DEF Some
  <2>2. NotAbove(h[s \ {Some(s)}], k[s \ {Some(s)}])
    BY <1>3, <2>1
  <2>3. NotAbove(f[Some(s)], g[Some(s)])
    BY <2>1
  <2>4. /\ h[s] = Plus(f[Some(s)], h[s \ {Some(s)}])
        /\ k[s] = Plus(g[Some(s)], k[s \ {Some(s)}])
    BY <1>3 DEF Adds
  <2>5. NotAbove(h[s], k[s])
    BY <1>2, <2>2, <2>3, <2>4
  <2> QED BY <2>5
<1>4. S \in Q
  <2> HIDE DEF Q
  <2>1. SUBSET S \subseteq Q
    BY <1>1, <1>3, AllParts
  <2> QED BY <2>1
<1> QED BY <1>4

LEMMA NeverSignificant ==
  ASSUME NEW metric, NEW pairs, IsFiniteSet(DOMAIN pairs),
         \A i \in DOMAIN pairs : NoSmaller(metric, pairs[i].a, pairs[i].b)
  PROVE  ~ MayBeSignificant(metric, pairs)
<1> DEFINE S == DOMAIN pairs
           observed == [i \in S |-> ItemStat(metric, pairs[i].a, pairs[i].b).t]
           least == [i \in S |-> LeastSplit(metric, pairs[i].a, pairs[i].b)]
<1>1. DOMAIN observed = S /\ DOMAIN least = S
  OBVIOUS
<1>2. ASSUME NEW i \in S
      PROVE  NotAbove(observed[i], least[i])
  BY DEF NoSmaller, NotAbove
<1>3. MayBeSignificant(metric, pairs) <=> Below(Total(least), Total(observed))
  BY DEF MayBeSignificant
<1> HIDE DEF observed, least, S
<1>4. IsFiniteSet(S)
  BY DEF S
<1>5. \A i \in S : observed[i] \in Int \X Int /\ least[i] \in Int \X Int
  <2>1. ASSUME NEW p, NEW q, NotAbove(p, q) PROVE p \in Int \X Int /\ q \in Int \X Int
    BY <2>1 DEF NotAbove
  <2> QED BY <1>2, <2>1
<1>6. PICK h : Adds(h, observed, S) /\ Total(observed) = h[S]
  BY <1>1, <1>4, <1>5, TotalIs
<1>7. PICK k : Adds(k, least, S) /\ Total(least) = k[S]
  BY <1>1, <1>4, <1>5, TotalIs
<1>8. PICK d \in Nat \ {0}, a \in Int, b \in Int : h[S] = <<a, d>> /\ k[S] = <<b, d>> /\ a <= b
  <2>1. NotAbove(h[S], k[S])
    BY <1>2, <1>4, <1>6, <1>7, TotalsOrdered
  <2> QED BY <2>1 DEF NotAbove
<1>9. ~ (b * d < a * d)
  BY <1>8
<1> QED BY <1>3, <1>6, <1>7, <1>8, <1>9 DEF Below

LEMMA DivTwo ==
  ASSUME NEW k \in Nat, NEW q \in 0 .. 1
  PROVE  (2 * k + q) % 2 = q /\ (2 * k + q) \div 2 = k
OBVIOUS
LEMMA DivDef ==
  ASSUME NEW n \in Nat, NEW L \in Nat \ {0}
  PROVE  n = L * (n \div L) + (n % L) /\ n % L \in 0 .. L - 1 /\ n \div L \in Nat
OBVIOUS
LEMMA ModUnique ==
  ASSUME NEW L \in Nat \ {0}, NEW c \in Nat, NEW p \in 0 .. L - 1
  PROVE  (L * c + p) % L = p
<1> DEFINE n == L * c + p
<1>1. n = L * (n \div L) + (n % L) /\ n % L \in 0 .. L - 1 /\ n \div L \in Nat
  <2>1. n \in Nat
    OBVIOUS
  <2> HIDE DEF n
  <2> QED BY <2>1, DivDef
<1> DEFINE d == n \div L
           r == n % L
<1>2. d \in Nat /\ r \in 0 .. L - 1 /\ L * c + p = L * d + r
  BY <1>1
<1> HIDE DEF d, r, n
<1>3. L * (c - d) = r - p
  BY <1>2
<1>4. c - d = 0
  <2>1. CASE c - d >= 1
    <3>1. L * (c - d) >= L
      BY <1>2, <2>1
    <3> QED BY <1>2, <1>3, <3>1
  <2>2. CASE c - d <= -1
    <3>1. L * (c - d) <= -L
      BY <1>2, <2>2
    <3> QED BY <1>2, <1>3, <3>1
  <2> QED BY <1>2, <2>1, <2>2
<1>5. r = p
  BY <1>2, <1>4
<1> QED BY <1>5 DEF r, n

-----------------------------------------------------------------------------
(* The observations.                                                       *)

IsSeq(q) == q \in Seq(ToSet(q))

LEMMA SeqWithin ==
  ASSUME NEW q, NEW S, q \in Seq(S)
  PROVE  IsSeq(q)
<1>1. Len(q) \in Nat /\ DOMAIN q = 1 .. Len(q) /\ q = [i \in 1 .. Len(q) |-> q[i]]
  OBVIOUS
<1>2. \A i \in 1 .. Len(q) : q[i] \in ToSet(q)
  BY <1>1 DEF ToSet
<1>3. \A s, n, T : n \in Nat /\ (\A i \in 1 .. n : s[i] \in T) => [i \in 1 .. n |-> s[i]] \in Seq(T)
  OBVIOUS
<1>4. [i \in 1 .. Len(q) |-> q[i]] \in Seq(ToSet(q))
  BY <1>1, <1>2, <1>3
<1> QED BY <1>1, <1>4 DEF IsSeq

LEMMA AppendSeq ==
  ASSUME NEW q, IsSeq(q), NEW o
  PROVE  /\ IsSeq(Append(q, o)) /\ Len(q) \in Nat /\ Len(Append(q, o)) = Len(q) + 1
         /\ \A x \in ToSet(Append(q, o)) : x \in ToSet(q) \/ x = o
<1> DEFINE S == ToSet(q)
           T == S \cup {o}
<1>1. q \in Seq(S) /\ Len(q) \in Nat /\ DOMAIN q = 1 .. Len(q)
  BY DEF IsSeq
<1> HIDE DEF S
<1>2. Append(q, o) \in Seq(T) /\ Len(Append(q, o)) = Len(q) + 1
  <2>1. q \in Seq(T)
    BY <1>1
  <2> QED BY <2>1
<1>3. \A x \in ToSet(Append(q, o)) : x \in T
  BY <1>2 DEF ToSet
<1> QED BY <1>1, <1>2, <1>3, SeqWithin DEF S

\* O becomes P by the observation o of item id on side s.
Appended(O, P, s, id, o) ==
  /\ DOMAIN P = DOMAIN O
  /\ \A t \in DOMAIN O : DOMAIN P[t] = DOMAIN O[t]
  /\ \A t \in DOMAIN O : \A k \in DOMAIN O[t] :
       P[t][k] = IF t = s /\ k = id THEN Append(O[t][k], o) ELSE O[t][k]

LEMMA AppendedAt ==
  ASSUME NEW O, NEW s, s \in DOMAIN O, NEW id, id \in DOMAIN O[s], NEW o, NEW P,
         P = [O EXCEPT ![s][id] = Append(@, o)]
  PROVE  Appended(O, P, s, id, o)
<1>1. P = [t \in DOMAIN O |-> IF t = s THEN [O[s] EXCEPT ![id] = Append(O[s][id], o)] ELSE O[t]]
  OBVIOUS
<1>2. DOMAIN P = DOMAIN O /\ P[s] = [O[s] EXCEPT ![id] = Append(O[s][id], o)]
      /\ \A t \in DOMAIN O : t # s => P[t] = O[t]
  BY <1>1
<1>3. P[s] = [k \in DOMAIN O[s] |-> IF k = id THEN Append(O[s][id], o) ELSE O[s][k]]
  BY <1>2
<1> QED BY <1>2, <1>3 DEF Appended

\* What the statistics can use of an observation.
Sound(o) == Valid(o) => \A m \in METRICS \ {"agreement"} : o[m] \in Int \cup {None}

LEMMA ReplyFields ==
  ASSUME NEW text, NEW calls, NEW out, NEW rea, NEW finish, NEW model, NEW null, NEW r,
         r = [ok |-> TRUE, text |-> text, tool_calls |-> calls, output_tokens |-> out,
              reasoning_tokens |-> rea, finish_reason |-> finish,
              returned_model |-> model, content_null |-> null]
  PROVE  r.text = text /\ r.output_tokens = out /\ r.reasoning_tokens = rea
OBVIOUS

LEMMA ReplySound ==
  ASSUME NEW x, NEW r, r = Completion(x, FALSE, TRUE), Len(x.text) \in Nat,
         \A n \in {ParseUsage(x.usage).output, ParseUsage(x.usage).reasoning} : n = None \/ n \in Int
  PROVE  /\ Len(r.text) \in Int
         /\ r.output_tokens \in Int \cup {None} /\ r.reasoning_tokens \in Int \cup {None}
<1> DEFINE text == IF x.content = "text" THEN x.text ELSE <<>>
           calls == IF x.calls = <<>> THEN None ELSE x.calls
           out == ParseUsage(x.usage).output
           rea == ParseUsage(x.usage).reasoning
           null == x.content = "null" /\ TRUE
<1>1. r = [ok |-> TRUE, text |-> text, tool_calls |-> calls, output_tokens |-> out,
           reasoning_tokens |-> rea, finish_reason |-> x.finish,
           returned_model |-> x.model, content_null |-> null]
  BY DEF Completion
<1>2. Len(text) \in Int /\ out \in Int \cup {None} /\ rea \in Int \cup {None}
  OBVIOUS
<1> HIDE DEF text, calls, out, rea, null
<1>3. r.text = text /\ r.output_tokens = out /\ r.reasoning_tokens = rea
  BY ONLY <1>1, ReplyFields
<1> QED BY <1>2, <1>3

LEMMA ObserveSound ==
  ASSUME NEW x \in CompareExchanges, NEW it, NEW r, r = CompleteEx(x, FALSE, TRUE), r.ok
  PROVE  Sound(Observe(it, r))
<1>1. x.end = "reply"
  BY CompareAssumption DEF CompleteEx, TransportError, ProviderError
<1>2. r = Completion(x, FALSE, TRUE)
  BY <1>1 DEF CompleteEx, ProviderError
<1>3. /\ Len(x.text) \in Nat
      /\ \A n \in {ParseUsage(x.usage).output, ParseUsage(x.usage).reasoning} : n = None \/ n \in Int
  BY <1>1, CompareAssumption
<1>4. /\ Len(r.text) \in Int
      /\ r.output_tokens \in Int \cup {None} /\ r.reasoning_tokens \in Int \cup {None}
  BY <1>2, <1>3, ReplySound
<1> DEFINE o == Observe(it, r)
<1>5. /\ o["length"] = Len(r.text) /\ o["json_valid"] \in Int \cup {None}
      /\ o["truncated"] \in Int /\ o["empty"] \in Int /\ o["refusal"] \in Int
      /\ o["output_tokens"] = r.output_tokens /\ o["reasoning_tokens"] = r.reasoning_tokens
  BY DEF Observe, Bit
<1> HIDE DEF o
<1>6. \A m \in METRICS \ {"agreement"} : o[m] \in Int \cup {None}
  BY <1>4, <1>5 DEF METRICS
<1> QED BY <1>6 DEF Sound, o

LEMMA FailureSound ==
  ASSUME NEW class \in FailureNames
  PROVE  Sound(Failure(class))
  BY CompareAssumption DEF Sound, Failure, Valid

LEMMA ClassifyNames ==
  ASSUME NEW e
  PROVE  Classify(e) \in FailureNames /\ "not_attempted" \in FailureNames
<1> DEFINE c == Classify(e)
<1>1. CASE e.status = None
  BY <1>1 DEF Classify, FailureNames
<1>2. CASE e.status # None /\ e.status \in {401, 403}
  BY <1>2 DEF Classify, FailureNames
<1>3. CASE e.status \notin {None, 401, 403}
  BY <1>3 DEF Classify, FailureNames
<1> QED BY <1>1, <1>2, <1>3

-----------------------------------------------------------------------------
(* Counting what was asked.                                                *)

\* The observations a side has gathered, by item.
Lens(f) == [id \in DOMAIN f |-> Len(f[id])]
AskedOf(f) == MapThenSumSet(LAMBDA id : Len(f[id]), DOMAIN f)

LEMMA SizesAre ==
  ASSUME NEW S, IsFiniteSet(S), NEW f, NEW F, \A id \in S : F[id] = Len(f[id]) /\ F[id] \in Int
  PROVE  MapThenSumSet(LAMBDA id : Len(f[id]), S) = SumOf(F, S)
<1> DEFINE IsSum(sum) == sum = [s \in SUBSET S |->
                  IF s = {} THEN 0
                  ELSE LET x == CHOOSE y \in s : TRUE IN Len(f[x]) + sum[s \ {x}]]
           g == CHOOSE sum : IsSum(sum)
<1>1. MapThenSumSet(LAMBDA id : Len(f[id]), S) = g[S]
  BY SMT DEF MapThenSumSet, MapThenFoldSet
<1>2. PICK h : Sums(h, F, S)
  BY SumsExist
<1>3. \A s \in SUBSET S : s # {} => Some(s) \in S
  BY DEF Some
<1>4. \A sum : IsSum(sum) <=> Sums(sum, F, S)
  BY <1>3 DEF Sums, Some
<1>5. Sums(g, F, S)
  <2> HIDE DEF IsSum
  <2>1. IsSum(h)
    BY <1>2, <1>4
  <2>2. IsSum(g)
    BY <2>1
  <2> HIDE DEF g
  <2> QED BY <1>4, <2>2
<1> HIDE DEF g
<1>6. g[S] = SumOf(F, S)
  BY <1>5, SumOfIs
<1> QED BY <1>1, <1>6

LEMMA AskedIs ==
  ASSUME NEW f, IsFiniteSet(DOMAIN f), \A id \in DOMAIN f : Len(f[id]) \in Nat
  PROVE  AskedOf(f) = SumOf(Lens(f), DOMAIN f) /\ AskedOf(f) \in Int
<1>1. PICK S, F : S = DOMAIN f /\ F = Lens(f)
  OBVIOUS
<1>2. \A id \in S : F[id] = Len(f[id]) /\ F[id] \in Int
  BY <1>1 DEF Lens
<1>3. AskedOf(f) = SumOf(F, S)
  BY <1>1, <1>2, SizesAre DEF AskedOf
<1>4. S \in SUBSET S /\ IsFiniteSet(S) /\ \A id \in S : F[id] \in Int
  BY <1>1, <1>2
<1>5. SumOf(F, S) \in Int
  BY <1>4, SumParts
<1> QED BY <1>1, <1>3, <1>5

\* g has one more observation than f, o of item k.
OneMore(f, g, k, o) ==
  /\ DOMAIN g = DOMAIN f /\ k \in DOMAIN f
  /\ \A id \in DOMAIN f : g[id] = IF id = k THEN Append(f[id], o) ELSE f[id]

LEMMA OneAskedMore ==
  ASSUME NEW f, NEW g, IsFiniteSet(DOMAIN f), \A id \in DOMAIN f : IsSeq(f[id]),
         NEW k, NEW o, OneMore(f, g, k, o)
  PROVE  AskedOf(g) = AskedOf(f) + 1
<1>0. /\ DOMAIN g = DOMAIN f /\ k \in DOMAIN f
      /\ \A id \in DOMAIN f : g[id] = IF id = k THEN Append(f[id], o) ELSE f[id]
  BY DEF OneMore
<1> DEFINE S == DOMAIN f
           F == Lens(f)
           G == Lens(g)
<1>1. \A id \in S : Len(f[id]) \in Nat
  BY AppendSeq
<1>2. \A id \in S : /\ Len(g[id]) \in Nat
                    /\ Len(g[id]) = IF id = k THEN Len(f[id]) + 1 ELSE Len(f[id])
  BY <1>0, <1>1, AppendSeq
<1>3. \A id \in S : F[id] \in Int /\ G[id] \in Int /\ G[id] = IF id = k THEN F[id] + 1 ELSE F[id]
  BY <1>0, <1>1, <1>2 DEF Lens
<1>4. AskedOf(f) = SumOf(F, S) /\ AskedOf(g) = SumOf(G, S)
  BY <1>0, <1>1, <1>2, AskedIs
<1> HIDE DEF S, F, G
<1>5. IsFiniteSet(S) /\ k \in S /\ IsFiniteSet(S \ {k})
  <2>1. IsFiniteSet(S)
    BY DEF S
  <2> QED BY <1>0, <2>1, FS_Subset DEF S
<1>6. /\ SumOf(F, S) = F[k] + SumOf(F, S \ {k}) /\ SumOf(F, S \ {k}) \in Int
      /\ SumOf(G, S) = G[k] + SumOf(G, S \ {k})
  <2>1. S \in SUBSET S
    OBVIOUS
  <2>2. /\ SumOf(F, S) = F[k] + SumOf(F, S \ {k})
        /\ SumOf(F, S \ {k}) \in Int
    <3>1. \A id \in S : F[id] \in Int
      BY <1>3
    <3> QED BY <1>5, <2>1, <3>1, SumParts
  <2>3. SumOf(G, S) = G[k] + SumOf(G, S \ {k})
    <3>1. \A id \in S : G[id] \in Int
      BY <1>3
    <3>2. IsFiniteSet(S) /\ k \in S
      BY <1>5
    <3> HIDE DEF G
    <3> QED BY <2>1, <3>1, <3>2, SumParts
  <2> QED BY <2>2, <2>3
<1>7. SumOf(F, S \ {k}) = SumOf(G, S \ {k})
  <2>1. \A id \in S \ {k} : F[id] \in Int /\ F[id] = G[id]
    BY <1>3
  <2> QED BY <1>5, <2>1, SumSame
<1> QED BY <1>3, <1>4, <1>5, <1>6, <1>7

LEMMA AskedEach ==
  ASSUME NEW f, IsFiniteSet(DOMAIN f), NEW c \in Nat, \A id \in DOMAIN f : Len(f[id]) = c
  PROVE  AskedOf(f) = c * Cardinality(DOMAIN f)
<1>1. PICK S, F : S = DOMAIN f /\ F = Lens(f)
  OBVIOUS
<1>2. \A id \in S : F[id] = c
  BY <1>1 DEF Lens
<1>3. AskedOf(f) = SumOf(F, S)
  BY <1>1, AskedIs
<1>4. SumOf(F, S) = c * Cardinality(S)
  <2>1. IsFiniteSet(S) /\ c \in Int
    BY <1>1
  <2> QED BY <1>2, <2>1, SumConstant
<1> QED BY <1>1, <1>3, <1>4

LEMMA ListSeq ==
  ASSUME NEW L \in Nat, NEW f, f = [i \in 1 .. L |-> f[i]]
  PROVE  IsSeq(f) /\ Len(f) = L /\ DOMAIN f = 1 .. L
<1>1. PICK T : T = {f[i] : i \in 1 .. L}
  OBVIOUS
<1>2. \A i \in 1 .. L : f[i] \in T
  BY <1>1
<1>3. f \in Seq(T) /\ Len(f) = L /\ DOMAIN f = 1 .. L
  BY <1>2
<1> QED BY <1>3, SeqWithin

-----------------------------------------------------------------------------
(* Where a comparison stands.                                              *)

\* A comparison of the items its after t calls: c repeats are over, of the
\* next one p items, of the item after them q sides.
AtPlace(its, O, t, c, p, q) ==
  /\ c \in Nat /\ p \in 0 .. Len(its) - 1 /\ q \in 0 .. 1
  /\ t = 2 * (Len(its) * c + p) + q
  /\ \A i \in DOMAIN its : /\ Len(O["A"][its[i].id]) = c + Bit(i <= p + q)
                           /\ Len(O["B"][its[i].id]) = c + Bit(i <= p)

Suite(its) ==
  /\ IsSeq(its)
  /\ \A i, j \in DOMAIN its : its[i].id = its[j].id => i = j

IdsOf(its) == {its[i].id : i \in DOMAIN its}

\* Both sides have a sequence of observations for every item.
Collected(its, O) ==
  /\ DOMAIN O = {"A", "B"}
  /\ \A s \in {"A", "B"} : DOMAIN O[s] = IdsOf(its)
  /\ \A s \in {"A", "B"} : \A id \in IdsOf(its) :
       IsSeq(O[s][id]) /\ \A o \in ToSet(O[s][id]) : Sound(o)

Progress ==
  \/ /\ items = <<>> /\ turn = 0 /\ retries = 0 /\ repeats = 0
     /\ cstage \in {"args", "ended"} /\ report = None
  \/ /\ Len(items) >= 1 /\ repeats \in 2 .. 5
     /\ IF cstage \in {"calling", "fallback"} THEN turn < Planned
        ELSE cstage \in {"report", "ended"} /\ turn = Planned
     /\ \E c \in 0 .. repeats, p \in 0 .. Len(items) - 1, q \in 0 .. 1 :
          AtPlace(items, obs, turn, c, p, q)

SideRecords ==
  [send_temperature : BOOLEAN, temperature : {"0", "provider default"},
   fallback_tried : BOOLEAN, fatal : Fatal \cup {None}, calls_made : Nat]

\* With temperature while it is sent, once without it when it is not.
Tempered(s) ==
  /\ side[s].send_temperature <=> side[s].temperature = "0"
  /\ IF side[s].send_temperature THEN ways[s] \subseteq {TRUE} ELSE FALSE \in ways[s]

Trying(s) == IF cstage \in {"calling", "fallback"} /\ SideAt = s THEN retries ELSE 0

\* The requests a side has made, those of its open call included.
Paid(s) ==
  side[s].calls_made <= AskedOf(obs[s]) * (1 + MaxCallRetries) + Trying(s)
                          + Bit(side[s].fallback_tried)

CompareInv ==
  /\ Suite(items) /\ Collected(items, obs) /\ Progress
  /\ retries \in 0 .. MaxCallRetries
  /\ side \in [{"A", "B"} -> SideRecords] /\ DOMAIN ways = {"A", "B"}
  /\ \A s \in {"A", "B"} : Tempered(s) /\ Paid(s)
  /\ code \in {None, 0, 1, 2, 3}
  /\ report # None => cstage = "ended"

\* The calls before that of side q on item p in repeat c of L items.
CallsBefore(L, c, p, q) == 2 * (L * c + p) + q

\* The side and the item that t calls lead to.
CallAt(L, t, p, q) == t \in Nat /\ t % 2 = q /\ (t \div 2) % L = p

LEMMA Places ==
  ASSUME NEW L \in Nat \ {0}, NEW c \in Nat, NEW p \in 0 .. L - 1, NEW q \in 0 .. 1, NEW t,
         t = CallsBefore(L, c, p, q)
  PROVE  CallAt(L, t, p, q)
<1> DEFINE k == L * c + p
<1>1. k \in Nat
  OBVIOUS
<1>2. k % L = p
  BY ModUnique
<1> HIDE DEF k
<1>3. t = 2 * k + q
  BY DEF k, CallsBefore
<1>4. t % 2 = q /\ t \div 2 = k
  BY <1>1, <1>3, DivTwo
<1> QED BY <1>1, <1>2, <1>3, <1>4 DEF CallAt

LEMMA PlaceBounds ==
  ASSUME NEW L \in Nat \ {0}, NEW c \in Nat, NEW p \in 0 .. L - 1, NEW q \in 0 .. 1,
         NEW R \in Nat
  PROVE  /\ 2 * (L * c + p) + q < 2 * (L * R) => c < R
         /\ 2 * (L * c + p) + q = 2 * (L * R) => c = R /\ p = 0 /\ q = 0
<1> DEFINE x == L * c
           y == L * R
<1>1. x \in Nat /\ y \in Nat
  OBVIOUS
<1>2. c >= R => x >= y
  <2>1. L * (c - R) = x - y
    OBVIOUS
  <2>2. c - R >= 0 => L * (c - R) >= 0
    OBVIOUS
  <2> HIDE DEF x, y
  <2> QED BY <1>1, <2>1, <2>2
<1>3. c < R => x + L <= y
  <2>1. L * ((R - c) - 1) = (y - x) - L
    OBVIOUS
  <2>2. (R - c) - 1 >= 0 => L * ((R - c) - 1) >= 0
    OBVIOUS
  <2> HIDE DEF x, y
  <2> QED BY <1>1, <2>1, <2>2
<1>4. c > R => x >= y + L
  <2>1. L * ((c - R) - 1) = (x - y) - L
    OBVIOUS
  <2>2. (c - R) - 1 >= 0 => L * ((c - R) - 1) >= 0
    OBVIOUS
  <2> HIDE DEF x, y
  <2> QED BY <1>1, <2>1, <2>2
<1>5. c = R => x = y
  OBVIOUS
<1> HIDE DEF x, y
<1>6. 2 * (x + p) + q < 2 * y => c < R
  BY <1>1, <1>2
<1>7. 2 * (x + p) + q = 2 * y => c = R /\ p = 0 /\ q = 0
  <2>1. SUFFICES ASSUME 2 * (x + p) + q = 2 * y
                 PROVE  c = R /\ p = 0 /\ q = 0
    OBVIOUS
  <2>2. ~(c < R) /\ ~(c > R)
    BY <1>1, <1>3, <1>4, <2>1
  <2>3. c = R
    BY <2>2
  <2> QED BY <1>1, <1>5, <2>1, <2>3
<1> QED BY <1>6, <1>7 DEF x, y

LEMMA NextPlace ==
  ASSUME NEW its, Suite(its), Len(its) >= 1, NEW O, Collected(its, O),
         NEW t, NEW c \in Nat, NEW p \in 0 .. Len(its) - 1, NEW q \in 0 .. 1,
         AtPlace(its, O, t, c, p, q),
         NEW s, s = Sides[q + 1], NEW o, Sound(o),
         NEW P, Appended(O, P, s, its[p + 1].id, o)
  PROVE  /\ Collected(its, P)
         /\ \E d \in 0 .. c + 1, u \in 0 .. Len(its) - 1, w \in 0 .. 1 :
              AtPlace(its, P, t + 1, d, u, w)
<1> DEFINE L == Len(its)
           k == its[p + 1].id
<1>1. L \in Nat \ {0} /\ DOMAIN its = 1 .. L /\ p + 1 \in DOMAIN its
  BY DEF Suite, IsSeq
<1>2. s = (IF q = 0 THEN "A" ELSE "B") /\ s \in {"A", "B"}
  BY DEF Sides
<1>3. k \in IdsOf(its) /\ \A i \in DOMAIN its : its[i].id \in IdsOf(its)
  BY <1>1 DEF IdsOf
<1>4. \A i \in DOMAIN its : its[i].id = k <=> i = p + 1
  BY <1>1 DEF Suite
<1>5. \A x \in {"A", "B"} : \A id \in IdsOf(its) :
        /\ IsSeq(O[x][id]) /\ Len(O[x][id]) \in Nat
        /\ P[x][id] = IF x = s /\ id = k THEN Append(O[x][id], o) ELSE O[x][id]
  <2>1. \A x \in {"A", "B"} : \A id \in IdsOf(its) : IsSeq(O[x][id])
    BY DEF Collected
  <2>2. \A x \in {"A", "B"} : \A id \in IdsOf(its) : Len(O[x][id]) \in Nat
    BY <2>1, AppendSeq
  <2>3. DOMAIN O = {"A", "B"} /\ \A x \in {"A", "B"} : DOMAIN O[x] = IdsOf(its)
    BY DEF Collected
  <2> QED BY <2>1, <2>2, <2>3 DEF Appended
<1>6. Collected(its, P)
  <2>1. DOMAIN P = {"A", "B"} /\ \A x \in {"A", "B"} : DOMAIN P[x] = IdsOf(its)
    BY DEF Collected, Appended
  <2>2. ASSUME NEW x \in {"A", "B"}, NEW id \in IdsOf(its)
        PROVE  IsSeq(P[x][id]) /\ \A y \in ToSet(P[x][id]) : Sound(y)
    <3>1. IsSeq(O[x][id]) /\ \A y \in ToSet(O[x][id]) : Sound(y)
      BY DEF Collected
    <3>2. PICK old, new : old = O[x][id] /\ new = P[x][id]
      OBVIOUS
    <3>3. new = Append(old, o) \/ new = old
      BY <1>5, <3>2
    <3>4. IsSeq(old) /\ \A y \in ToSet(old) : Sound(y)
      BY <3>1, <3>2
    <3>5. /\ IsSeq(Append(old, o))
          /\ \A y \in ToSet(Append(old, o)) : y \in ToSet(old) \/ y = o
      BY <3>4, AppendSeq
    <3>6. IsSeq(new) /\ \A y \in ToSet(new) : Sound(y)
      BY <3>3, <3>4, <3>5
    <3> QED BY <3>2, <3>6
  <2> QED BY <2>1, <2>2 DEF Collected
<1>7. ASSUME NEW i \in DOMAIN its
      PROVE  /\ Len(P["A"][its[i].id]) = c + Bit(i <= p + q) + Bit(q = 0 /\ i = p + 1)
             /\ Len(P["B"][its[i].id]) = c + Bit(i <= p) + Bit(q = 1 /\ i = p + 1)
  <2>1. \A x \in {"A", "B"} :
          Len(P[x][its[i].id]) = Len(O[x][its[i].id]) + Bit(x = s /\ i = p + 1)
    <3>1. SUFFICES ASSUME NEW x \in {"A", "B"}
                   PROVE  Len(P[x][its[i].id]) = Len(O[x][its[i].id]) + Bit(x = s /\ i = p + 1)
      OBVIOUS
    <3>2. PICK old, new : old = O[x][its[i].id] /\ new = P[x][its[i].id]
      OBVIOUS
    <3>3. /\ IsSeq(old) /\ Len(old) \in Nat
          /\ new = IF x = s /\ i = p + 1 THEN Append(old, o) ELSE old
      BY <1>3, <1>4, <1>5, <3>2
    <3>4. Len(Append(old, o)) = Len(old) + 1
      BY <3>3, AppendSeq
    <3>5. Len(new) = Len(old) + Bit(x = s /\ i = p + 1)
      <4>1. CASE x = s /\ i = p + 1
        BY <3>3, <3>4, <4>1 DEF Bit
      <4>2. CASE ~(x = s /\ i = p + 1)
        BY <3>3, <4>2 DEF Bit
      <4> QED BY <4>1, <4>2
    <3> QED BY <3>2, <3>5
  <2>2. /\ Len(O["A"][its[i].id]) = c + Bit(i <= p + q)
        /\ Len(O["B"][its[i].id]) = c + Bit(i <= p)
    BY DEF AtPlace
  <2>3. ("A" = s <=> q = 0) /\ ("B" = s <=> q = 1)
    BY <1>2
  <2> QED BY <2>1, <2>2, <2>3
<1>8. t = 2 * (L * c + p) + q
  BY DEF AtPlace
<1>9. CASE q = 0
  <2>1. AtPlace(its, P, t + 1, c, p, 1)
    <3>1. ASSUME NEW i \in DOMAIN its
          PROVE  /\ Len(P["A"][its[i].id]) = c + Bit(i <= p + 1)
                 /\ Len(P["B"][its[i].id]) = c + Bit(i <= p)
      BY <1>1, <1>7, <1>9 DEF Bit
    <3> QED BY <1>1, <1>8, <1>9, <3>1 DEF AtPlace
  <2> QED BY <1>6, <2>1
<1>10. CASE q = 1 /\ p + 1 < L
  <2>1. AtPlace(its, P, t + 1, c, p + 1, 0)
    <3>1. ASSUME NEW i \in DOMAIN its
          PROVE  /\ Len(P["A"][its[i].id]) = c + Bit(i <= (p + 1) + 0)
                 /\ Len(P["B"][its[i].id]) = c + Bit(i <= p + 1)
      BY <1>1, <1>7, <1>10 DEF Bit
    <3>2. t + 1 = 2 * (L * c + (p + 1)) + 0
      BY <1>1, <1>8, <1>10
    <3> QED BY <1>1, <1>10, <3>1, <3>2 DEF AtPlace
  <2>2. c \in 0 .. c + 1 /\ p + 1 \in 0 .. Len(its) - 1 /\ 0 \in 0 .. 1
    BY <1>1, <1>10
  <2> QED BY <1>6, <2>1, <2>2
<1>11. CASE q = 1 /\ p + 1 = L
  <2>1. AtPlace(its, P, t + 1, c + 1, 0, 0)
    <3>1. ASSUME NEW i \in DOMAIN its
          PROVE  /\ Len(P["A"][its[i].id]) = (c + 1) + Bit(i <= 0 + 0)
                 /\ Len(P["B"][its[i].id]) = (c + 1) + Bit(i <= 0)
      <4>1. i \in 1 .. L
        BY <1>1
      <4>2. Bit(i <= p + q) = 1 /\ Bit(q = 0 /\ i = p + 1) = 0
        BY <1>1, <1>11, <4>1 DEF Bit
      <4>3. Bit(i <= p) + Bit(q = 1 /\ i = p + 1) = 1
        BY <1>1, <1>11, <4>1 DEF Bit
      <4>4. Bit(i <= 0 + 0) = 0 /\ Bit(i <= 0) = 0
        BY <4>1 DEF Bit
      <4>5. Bit(i <= p) \in Int /\ Bit(q = 1 /\ i = p + 1) \in Int
        BY DEF Bit
      <4> QED BY <1>7, <4>2, <4>3, <4>4, <4>5
    <3>2. t + 1 = 2 * (L * (c + 1) + 0) + 0
      <4>1. L * (c + 1) = L * c + L
        BY <1>1
      <4> QED BY <1>1, <1>8, <1>11, <4>1
    <3> QED BY <1>1, <3>1, <3>2 DEF AtPlace
  <2>2. c + 1 \in 0 .. c + 1 /\ 0 \in 0 .. Len(its) - 1 /\ 0 \in 0 .. 1
    BY <1>1
  <2> QED BY <1>6, <2>1, <2>2
<1>12. q = 0 \/ (q = 1 /\ p + 1 < L) \/ (q = 1 /\ p + 1 = L)
  <2>1. L \in Nat /\ p \in 0 .. L - 1
    BY <1>1
  <2> HIDE DEF L
  <2>2. p + 1 < L \/ p + 1 = L
    BY <2>1
  <2> QED BY <2>2
<1> HIDE DEF L
<1> QED BY <1>9, <1>10, <1>11, <1>12

LEMMA SidesAre == ToSet(Sides) = {"A", "B"} /\ Len(Sides) = 2
<1>1. Len(Sides) = 2 /\ DOMAIN Sides = 1 .. 2 /\ Sides[1] = "A" /\ Sides[2] = "B"
  BY DEF Sides
<1> QED BY <1>1 DEF ToSet

\* The sides T after one more request of side a, which leaves these fields.
Charged(S, T, a, send, temperature, tried, fatal) ==
  /\ T \in [{"A", "B"} -> SideRecords]
  /\ \A s \in {"A", "B"} : s # a => T[s] = S[s]
  /\ T[a].calls_made = S[a].calls_made + 1
  /\ T[a].send_temperature = send /\ T[a].temperature = temperature
  /\ T[a].fallback_tried = tried /\ T[a].fatal = fatal

\* r after one more request.
ChargedRecord(r, u, send, temperature, tried, fatal) ==
  /\ u \in SideRecords
  /\ u.calls_made = r.calls_made + 1
  /\ u.send_temperature = send /\ u.temperature = temperature
  /\ u.fallback_tried = tried /\ u.fatal = fatal

LEMMA ChargedIs ==
  ASSUME NEW S \in [{"A", "B"} -> SideRecords], NEW a \in {"A", "B"}, NEW u,
         NEW send, NEW temperature, NEW tried, NEW fatal,
         ChargedRecord(S[a], u, send, temperature, tried, fatal)
  PROVE  Charged(S, [S EXCEPT ![a] = u], a, send, temperature, tried, fatal)
<1>1. PICK T : T = [S EXCEPT ![a] = u]
  OBVIOUS
<1>2. u \in SideRecords
  BY DEF ChargedRecord
<1>3. T \in [{"A", "B"} -> SideRecords] /\ T[a] = u /\ \A s \in {"A", "B"} : s # a => T[s] = S[s]
  BY <1>1, <1>2
<1> QED BY <1>1, <1>3 DEF Charged, ChargedRecord

LEMMA ChargedRecords ==
  ASSUME NEW r \in SideRecords
  PROVE  /\ ChargedRecord(r, [r EXCEPT !.calls_made = @ + 1], r.send_temperature, r.temperature,
                          r.fallback_tried, r.fatal)
         /\ ChargedRecord(r, [r EXCEPT !.calls_made = @ + 1, !.fallback_tried = TRUE],
                          r.send_temperature, r.temperature, TRUE, r.fatal)
         /\ ChargedRecord(r, [r EXCEPT !.calls_made = @ + 1, !.send_temperature = FALSE,
                                       !.temperature = "provider default"],
                          FALSE, "provider default", r.fallback_tried, r.fatal)
         /\ \A class : ChargedRecord(r, [r EXCEPT !.calls_made = @ + 1,
                                              !.fatal = IF class \in Fatal THEN class ELSE @],
                          r.send_temperature, r.temperature, r.fallback_tried,
                          IF class \in Fatal THEN class ELSE r.fatal)
<1>1. /\ r.send_temperature \in BOOLEAN /\ r.temperature \in {"0", "provider default"}
      /\ r.fallback_tried \in BOOLEAN /\ r.fatal \in Fatal \cup {None} /\ r.calls_made \in Nat
      /\ r = [send_temperature |-> r.send_temperature, temperature |-> r.temperature,
              fallback_tried |-> r.fallback_tried, fatal |-> r.fatal, calls_made |-> r.calls_made]
  BY DEF SideRecords
<1>7. PICK n \in Nat : n = r.calls_made
  BY DEF SideRecords
<1>8. n + 1 \in Nat
  OBVIOUS
<1>9. r.calls_made + 1 = n + 1
  BY <1>7
<1>2. ChargedRecord(r, [r EXCEPT !.calls_made = r.calls_made + 1], r.send_temperature, r.temperature,
                    r.fallback_tried, r.fatal)
  <2>1. PICK u : u = [r EXCEPT !.calls_made = r.calls_made + 1]
    OBVIOUS
  <2>2. u = [send_temperature |-> r.send_temperature, temperature |-> r.temperature,
             fallback_tried |-> r.fallback_tried, fatal |-> r.fatal, calls_made |-> r.calls_made + 1]
    BY <1>1, <2>1
  <2>3. u \in SideRecords
    BY <1>1, <1>8, <1>9, <2>2 DEF SideRecords
  <2>4. /\ u.calls_made = r.calls_made + 1
        /\ u.send_temperature = r.send_temperature /\ u.temperature = r.temperature
        /\ u.fallback_tried = r.fallback_tried /\ u.fatal = r.fatal
    BY <1>1, <2>1
  <2> QED BY <2>1, <2>3, <2>4 DEF ChargedRecord
<1>3. ChargedRecord(r, [r EXCEPT !.calls_made = r.calls_made + 1, !.fallback_tried = TRUE], r.send_temperature, r.temperature,
                    TRUE, r.fatal)
  <2>1. PICK u : u = [r EXCEPT !.calls_made = r.calls_made + 1, !.fallback_tried = TRUE]
    OBVIOUS
  <2>2. u = [send_temperature |-> r.send_temperature, temperature |-> r.temperature,
             fallback_tried |-> TRUE, fatal |-> r.fatal, calls_made |-> r.calls_made + 1]
    BY <1>1, <2>1
  <2>3. u \in SideRecords
    BY <1>1, <1>8, <1>9, <2>2 DEF SideRecords
  <2>4. /\ u.calls_made = r.calls_made + 1
        /\ u.send_temperature = r.send_temperature /\ u.temperature = r.temperature
        /\ u.fallback_tried = TRUE /\ u.fatal = r.fatal
    BY <1>1, <2>1
  <2> QED BY <2>1, <2>3, <2>4 DEF ChargedRecord
<1>4. ChargedRecord(r, [r EXCEPT !.calls_made = r.calls_made + 1, !.send_temperature = FALSE, !.temperature = "provider default"], FALSE, "provider default",
                    r.fallback_tried, r.fatal)
  <2>1. PICK u : u = [r EXCEPT !.calls_made = r.calls_made + 1, !.send_temperature = FALSE, !.temperature = "provider default"]
    OBVIOUS
  <2>2. u = [send_temperature |-> FALSE, temperature |-> "provider default",
             fallback_tried |-> r.fallback_tried, fatal |-> r.fatal, calls_made |-> r.calls_made + 1]
    BY <1>1, <2>1
  <2>3. u \in SideRecords
    BY <1>1, <1>8, <1>9, <2>2 DEF SideRecords
  <2>4. /\ u.calls_made = r.calls_made + 1
        /\ u.send_temperature = FALSE /\ u.temperature = "provider default"
        /\ u.fallback_tried = r.fallback_tried /\ u.fatal = r.fatal
    BY <1>1, <2>1
  <2> QED BY <2>1, <2>3, <2>4 DEF ChargedRecord
<1>5. ASSUME NEW final \in Fatal \cup {None}
      PROVE  ChargedRecord(r, [r EXCEPT !.calls_made = r.calls_made + 1, !.fatal = final],
                           r.send_temperature, r.temperature, r.fallback_tried, final)
  <2>1. PICK u : u = [r EXCEPT !.calls_made = r.calls_made + 1, !.fatal = final]
    OBVIOUS
  <2>2. u = [send_temperature |-> r.send_temperature, temperature |-> r.temperature,
             fallback_tried |-> r.fallback_tried, fatal |-> final, calls_made |-> r.calls_made + 1]
    BY <1>1, <2>1
  <2>3. u \in SideRecords
    BY <1>1, <1>8, <1>9, <2>2 DEF SideRecords
  <2>4. /\ u.calls_made = r.calls_made + 1
        /\ u.send_temperature = r.send_temperature /\ u.temperature = r.temperature
        /\ u.fallback_tried = r.fallback_tried /\ u.fatal = final
    BY <1>1, <2>1
  <2> QED BY <2>1, <2>3, <2>4 DEF ChargedRecord
<1>6. \A class : (IF class \in Fatal THEN class ELSE r.fatal) \in Fatal \cup {None}
  BY <1>1
<1> QED BY <1>2, <1>3, <1>4, <1>5, <1>6

LEMMA ChargedSides ==
  ASSUME NEW S \in [{"A", "B"} -> SideRecords], NEW a \in {"A", "B"}
  PROVE  /\ Charged(S, [S EXCEPT ![a].calls_made = @ + 1], a, S[a].send_temperature,
                    S[a].temperature, S[a].fallback_tried, S[a].fatal)
         /\ Charged(S, [S EXCEPT ![a].calls_made = @ + 1, ![a].fallback_tried = TRUE], a,
                    S[a].send_temperature, S[a].temperature, TRUE, S[a].fatal)
         /\ Charged(S, [S EXCEPT ![a].calls_made = @ + 1, ![a].send_temperature = FALSE,
                                 ![a].temperature = "provider default"], a,
                    FALSE, "provider default", S[a].fallback_tried, S[a].fatal)
         /\ \A class :
              Charged(S, [S EXCEPT ![a].calls_made = @ + 1,
                                   ![a].fatal = IF class \in Fatal THEN class ELSE @], a,
                      S[a].send_temperature, S[a].temperature, S[a].fallback_tried,
                      IF class \in Fatal THEN class ELSE S[a].fatal)
<1>1. PICK r : r = S[a]
  OBVIOUS
<1>2. r \in SideRecords
  BY <1>1
<1>3. [S EXCEPT ![a].calls_made = @ + 1] = [S EXCEPT ![a] = [r EXCEPT !.calls_made = @ + 1]]
  BY <1>1
<1>4. [S EXCEPT ![a].calls_made = @ + 1, ![a].fallback_tried = TRUE]
        = [S EXCEPT ![a] = [r EXCEPT !.calls_made = @ + 1, !.fallback_tried = TRUE]]
  BY <1>1
<1>5. [S EXCEPT ![a].calls_made = @ + 1, ![a].send_temperature = FALSE,
                ![a].temperature = "provider default"]
        = [S EXCEPT ![a] = [r EXCEPT !.calls_made = @ + 1, !.send_temperature = FALSE,
                                     !.temperature = "provider default"]]
  BY <1>1
<1>6. \A class :
        [S EXCEPT ![a].calls_made = @ + 1, ![a].fatal = IF class \in Fatal THEN class ELSE @]
          = [S EXCEPT ![a] = [r EXCEPT !.calls_made = @ + 1,
                                       !.fatal = IF class \in Fatal THEN class ELSE @]]
  BY <1>1
<1>7. \A u, send, temperature, tried, fatal :
        ChargedRecord(r, u, send, temperature, tried, fatal)
          => Charged(S, [S EXCEPT ![a] = u], a, send, temperature, tried, fatal)
  BY <1>1, ChargedIs
<1>8. Charged(S, [S EXCEPT ![a].calls_made = @ + 1], a, r.send_temperature,
              r.temperature, r.fallback_tried, r.fatal)
  BY <1>2, <1>3, <1>7, ChargedRecords
<1>9. Charged(S, [S EXCEPT ![a].calls_made = @ + 1, ![a].fallback_tried = TRUE], a,
              r.send_temperature, r.temperature, TRUE, r.fatal)
  BY <1>2, <1>4, <1>7, ChargedRecords
<1>10. Charged(S, [S EXCEPT ![a].calls_made = @ + 1, ![a].send_temperature = FALSE,
                           ![a].temperature = "provider default"], a,
               FALSE, "provider default", r.fallback_tried, r.fatal)
  BY <1>2, <1>5, <1>7, ChargedRecords
<1>11. ASSUME NEW class
       PROVE  Charged(S, [S EXCEPT ![a].calls_made = @ + 1,
                                   ![a].fatal = IF class \in Fatal THEN class ELSE @], a,
                      r.send_temperature, r.temperature, r.fallback_tried,
                      IF class \in Fatal THEN class ELSE r.fatal)
  BY <1>2, <1>6, <1>7, ChargedRecords
<1> QED BY <1>1, <1>8, <1>9, <1>10, <1>11

LEMMA IdsFinite ==
  ASSUME NEW its, IsSeq(its)
  PROVE  IsFiniteSet(IdsOf(its))
<1> DEFINE f == [i \in DOMAIN its |-> its[i].id]
<1>1. Len(its) \in Nat /\ DOMAIN its = 1 .. Len(its)
  BY DEF IsSeq
<1>2. IsFiniteSet(DOMAIN its)
  <2>1. 1 \in Int /\ Len(its) \in Int
    BY <1>1
  <2> QED BY <1>1, <2>1, FS_Interval
<1>3. IdsOf(its) = {f[i] : i \in DOMAIN its}
  BY DEF IdsOf
<1>4. IsFiniteSet({f[i] : i \in DOMAIN its})
  <2> HIDE DEF f
  <2> QED BY <1>2, ValuesFinite
<1> QED BY <1>3, <1>4

\* The place of the call being made.
LEMMA AtCall ==
  ASSUME Suite(items), Len(items) >= 1, NEW c \in Nat, NEW p \in 0 .. Len(items) - 1, NEW q \in 0 .. 1,
         AtPlace(items, obs, turn, c, p, q)
  PROVE  /\ turn \in Nat /\ SideAt = Sides[q + 1] /\ SideAt \in {"A", "B"}
         /\ p + 1 \in DOMAIN items /\ ItemAt = items[p + 1] /\ ItemAt.id \in IdsOf(items)
<1>1. Len(items) \in Nat \ {0} /\ DOMAIN items = 1 .. Len(items)
  BY DEF Suite, IsSeq
<1>2. turn = 2 * (Len(items) * c + p) + q
  BY DEF AtPlace
<1>3. turn \in Nat /\ turn % 2 = q /\ (turn \div 2) % Len(items) = p
  <2>1. PICK L, t : L = Len(items) /\ t = turn
    OBVIOUS
  <2>2. L \in Nat \ {0} /\ p \in 0 .. L - 1 /\ t = CallsBefore(L, c, p, q)
    BY <1>1, <1>2, <2>1 DEF CallsBefore
  <2>3. CallAt(L, t, p, q)
    BY <2>2, Places
  <2> QED BY <2>1, <2>3 DEF CallAt
<1>4. SideAt = Sides[q + 1] /\ ItemAt = items[p + 1]
  BY <1>3, SidesAre DEF SideAt, ItemAt
<1>5. Sides[q + 1] \in {"A", "B"}
  BY DEF Sides
<1>6. p + 1 \in DOMAIN items
  BY <1>1
<1> QED BY <1>3, <1>4, <1>5, <1>6 DEF IdsOf

LEMMA PlannedIs ==
  ASSUME Suite(items), Len(items) >= 1, repeats \in 2 .. 5
  PROVE  Planned = 2 * (Len(items) * repeats) /\ Planned \in Nat
<1>1. Len(items) \in Nat
  BY DEF Suite, IsSeq
<1>2. PICK L, R : L = Len(items) /\ R = repeats
  OBVIOUS
<1>3. (R * L) * 2 = 2 * (L * R) /\ 2 * (L * R) \in Nat
  BY <1>1, <1>2
<1> QED BY <1>2, <1>3, SidesAre DEF Planned

\* The invariant while a comparison calls.
LEMMA Calling ==
  ASSUME CompareInv, cstage \in {"calling", "fallback"}
  PROVE  /\ Suite(items) /\ Len(items) >= 1 /\ repeats \in 2 .. 5 /\ Collected(items, obs)
         /\ turn \in Nat /\ turn < Planned
         /\ SideAt \in {"A", "B"} /\ ItemAt.id \in IdsOf(items)
         /\ \E c \in Nat, p \in 0 .. Len(items) - 1, q \in 0 .. 1 :
              /\ AtPlace(items, obs, turn, c, p, q) /\ c < repeats
              /\ SideAt = Sides[q + 1] /\ ItemAt = items[p + 1]
<1>1. /\ Suite(items) /\ Len(items) >= 1 /\ repeats \in 2 .. 5 /\ Collected(items, obs)
      /\ turn < Planned
      /\ \E c \in 0 .. repeats, p \in 0 .. Len(items) - 1, q \in 0 .. 1 :
           AtPlace(items, obs, turn, c, p, q)
  BY DEF CompareInv, Progress
<1>2. PICK c \in 0 .. repeats, p \in 0 .. Len(items) - 1, q \in 0 .. 1 :
        AtPlace(items, obs, turn, c, p, q)
  BY <1>1
<1>3. c \in Nat
  BY <1>1
<1>4. /\ turn \in Nat /\ SideAt = Sides[q + 1] /\ SideAt \in {"A", "B"}
      /\ p + 1 \in DOMAIN items /\ ItemAt = items[p + 1] /\ ItemAt.id \in IdsOf(items)
  BY <1>1, <1>2, <1>3, AtCall
<1>5. c < repeats
  <2>1. turn = 2 * (Len(items) * c + p) + q /\ turn < 2 * (Len(items) * repeats)
    BY <1>1, <1>2, PlannedIs DEF AtPlace
  <2>2. Len(items) \in Nat \ {0} /\ repeats \in Nat
    BY <1>1 DEF Suite, IsSeq
  <2>3. PICK L, R : L = Len(items) /\ R = repeats
    OBVIOUS
  <2>4. L \in Nat \ {0} /\ R \in Nat /\ p \in 0 .. L - 1 /\ 2 * (L * c + p) + q < 2 * (L * R)
    BY <2>1, <2>2, <2>3
  <2>5. c < R
    BY <1>3, <2>4, PlaceBounds
  <2> QED BY <2>3, <2>5
<1> QED BY <1>1, <1>2, <1>3, <1>4, <1>5

\* What every end of a call comes to.
LEMMA RecordStep ==
  ASSUME CompareInv, cstage \in {"calling", "fallback"}, NEW o, Sound(o), Record(o),
         items' = items, repeats' = repeats
  PROVE  /\ Suite(items)' /\ Collected(items, obs)' /\ Progress'
         /\ retries' = 0 /\ cstage' \in {"calling", "report"}
         /\ \A s \in {"A", "B"} :
              /\ AskedOf(obs[s]) \in Int
              /\ AskedOf(obs'[s]) = AskedOf(obs[s]) + Bit(s = SideAt)
<1>1. /\ Suite(items) /\ Len(items) >= 1 /\ repeats \in 2 .. 5 /\ Collected(items, obs)
      /\ turn \in Nat /\ turn < Planned
      /\ SideAt \in {"A", "B"} /\ ItemAt.id \in IdsOf(items)
  BY Calling
<1>2. PICK c \in Nat, p \in 0 .. Len(items) - 1, q \in 0 .. 1 :
              /\ AtPlace(items, obs, turn, c, p, q) /\ c < repeats
              /\ SideAt = Sides[q + 1] /\ ItemAt = items[p + 1]
  BY Calling
<1>3. PICK P : P = [obs EXCEPT ![SideAt][ItemAt.id] = Append(@, o)]
  OBVIOUS
<1>4. DOMAIN obs = {"A", "B"} /\ \A s \in {"A", "B"} : DOMAIN obs[s] = IdsOf(items)
  BY <1>1 DEF Collected
<1>5. Appended(obs, P, SideAt, ItemAt.id, o)
  <2>1. SideAt \in DOMAIN obs /\ ItemAt.id \in DOMAIN obs[SideAt]
    BY <1>1, <1>4
  <2> QED BY <1>3, <2>1, AppendedAt
<1>6. obs' = P /\ turn' = turn + 1 /\ retries' = 0
      /\ cstage' = IF turn' = Planned THEN "report" ELSE "calling"
  BY <1>3 DEF Record
<1>7. /\ Collected(items, P)
      /\ \E d \in 0 .. c + 1, u \in 0 .. Len(items) - 1, w \in 0 .. 1 :
           AtPlace(items, P, turn + 1, d, u, w)
  <2>1. Appended(obs, P, SideAt, items[p + 1].id, o)
    BY <1>2, <1>5
  <2> QED BY <1>1, <1>2, <2>1, NextPlace
<1>8. Suite(items)' /\ Collected(items, obs)'
  BY <1>1, <1>6, <1>7
<1>9. Progress'
  <2>1. Planned' = Planned /\ Planned \in Nat
    <3>1. Planned' = Planned
      BY DEF Planned
    <3> QED BY <1>1, <3>1, PlannedIs
  <2>2. IF cstage' \in {"calling", "fallback"} THEN turn' < Planned'
        ELSE cstage' \in {"report", "ended"} /\ turn' = Planned'
    BY <1>1, <1>6, <2>1
  <2>3. \E d \in 0 .. repeats, u \in 0 .. Len(items) - 1, w \in 0 .. 1 :
           AtPlace(items, obs', turn', d, u, w)
    <3>1. PICK d \in 0 .. c + 1, u \in 0 .. Len(items) - 1, w \in 0 .. 1 :
            AtPlace(items, P, turn + 1, d, u, w)
      BY <1>7
    <3>2. d \in 0 .. repeats
      BY <1>1, <1>2
    <3> QED BY <1>6, <3>1, <3>2
  <2> QED BY <1>1, <2>2, <2>3 DEF Progress
<1>10. ASSUME NEW s \in {"A", "B"}
       PROVE  /\ AskedOf(obs[s]) \in Int
              /\ AskedOf(P[s]) = AskedOf(obs[s]) + Bit(s = SideAt)
  <2>1. PICK f, g : f = obs[s] /\ g = P[s]
    OBVIOUS
  <2>2. DOMAIN f = IdsOf(items) /\ DOMAIN g = DOMAIN f /\ IsFiniteSet(DOMAIN f)
    <3>1. IsFiniteSet(IdsOf(items))
      BY <1>1, IdsFinite DEF Suite
    <3> QED BY <1>4, <1>5, <2>1, <3>1 DEF Appended
  <2>3. \A id \in DOMAIN f : IsSeq(f[id])
    BY <1>1, <2>1, <2>2 DEF Collected
  <2>4. \A id \in DOMAIN f : Len(f[id]) \in Nat
    BY <2>3, AppendSeq
  <2>5. AskedOf(f) \in Int
    BY <2>2, <2>4, AskedIs
  <2>6. \A id \in DOMAIN f :
          g[id] = IF s = SideAt /\ id = ItemAt.id THEN Append(f[id], o) ELSE f[id]
    BY <1>4, <1>5, <2>1, <2>2 DEF Appended
  <2>7. CASE s = SideAt
    <3>1. PICK k : k = ItemAt.id
      OBVIOUS
    <3>2. OneMore(f, g, k, o)
      BY <1>1, <2>2, <2>6, <2>7, <3>1 DEF OneMore
    <3>3. AskedOf(g) = AskedOf(f) + 1
      BY <2>2, <2>3, <3>2, OneAskedMore
    <3> QED BY <2>1, <2>5, <2>7, <3>3 DEF Bit
  <2>8. CASE s # SideAt
    <3>1. g = f
      <4>1. P[s] = obs[s]
        BY <1>3, <1>4, <2>8
      <4> QED BY <2>1, <4>1
    <3> QED BY <2>1, <2>5, <2>8, <3>1 DEF Bit
  <2> QED BY <2>7, <2>8
<1> QED BY <1>6, <1>8, <1>9, <1>10

LEMMA OneCallMore ==
  ASSUME NEW M \in Nat, NEW asked \in Int, NEW calls \in Int, NEW tried \in Int, NEW tr \in 0 .. M,
         calls <= asked * (1 + M) + tr + tried
  PROVE  calls + 1 <= (asked + 1) * (1 + M) + tried
<1> DEFINE x == asked * (1 + M)
<1>1. x \in Int /\ (asked + 1) * (1 + M) = x + 1 + M
  OBVIOUS
<1> HIDE DEF x
<1>2. calls <= x + tr + tried
  BY DEF x
<1> QED BY <1>1, <1>2

LEMMA PaidStep ==
  ASSUME CompareInv, cstage \in {"calling", "fallback"}, retries' = 0, NEW s \in {"A", "B"},
         AskedOf(obs[s]) \in Int, AskedOf(obs'[s]) = AskedOf(obs[s]) + Bit(s = SideAt),
         side'[s].calls_made \in Nat,
         side'[s].calls_made <= side[s].calls_made + Bit(s = SideAt),
         side'[s].fallback_tried = side[s].fallback_tried
  PROVE  Paid(s)'
<1>1. PICK M, asked, calls, tried, tr :
        /\ M = MaxCallRetries /\ asked = AskedOf(obs[s]) /\ calls = side[s].calls_made
        /\ tried = Bit(side[s].fallback_tried) /\ tr = Trying(s)
  OBVIOUS
<1>2. PICK new : new = side'[s].calls_made
  OBVIOUS
<1>3. M \in Nat /\ asked \in Int /\ tried \in Int /\ tr \in 0 .. M /\ new \in Nat
  <2>1. retries \in 0 .. MaxCallRetries /\ MaxCallRetries \in Nat
    BY CompareAssumption DEF CompareInv
  <2> QED BY <1>1, <1>2, <2>1 DEF Bit, Trying
<1>4. calls \in Int /\ calls <= asked * (1 + M) + tr + tried
  <2>1. Paid(s) /\ side[s] \in SideRecords
    BY DEF CompareInv
  <2>2. side[s].calls_made \in Nat
    BY <2>1 DEF SideRecords
  <2> QED BY <1>1, <2>1, <2>2 DEF Paid
<1>5. Trying(s)' = 0
  BY DEF Trying
<1>6. CASE s = SideAt
  <2>1. Bit(s = SideAt) = 1
    BY <1>6 DEF Bit
  <2>2. new <= calls + 1 /\ AskedOf(obs'[s]) = asked + 1
    BY <1>1, <1>2, <2>1
  <2>3. calls + 1 <= (asked + 1) * (1 + M) + tried
    BY <1>3, <1>4, OneCallMore
  <2>4. PICK y : y = (asked + 1) * (1 + M)
    OBVIOUS
  <2>5. y \in Int
    BY <1>3, <2>4
  <2>6. new <= y + 0 + tried
    BY <1>3, <1>4, <2>2, <2>3, <2>4, <2>5
  <2> QED BY <1>1, <1>2, <1>5, <2>2, <2>4, <2>6 DEF Paid
<1>7. CASE s # SideAt
  <2>1. Bit(s = SideAt) = 0 /\ tr = 0
    BY <1>1, <1>7 DEF Bit, Trying
  <2>2. new <= calls /\ AskedOf(obs'[s]) = asked
    BY <1>1, <1>2, <1>3, <1>4, <2>1
  <2>4. PICK y : y = asked * (1 + M)
    OBVIOUS
  <2>5. y \in Int
    BY <1>3, <2>4
  <2>6. new <= y + 0 + tried
    BY <1>3, <1>4, <2>1, <2>2, <2>4, <2>5
  <2> QED BY <1>1, <1>2, <1>5, <2>2, <2>4, <2>6 DEF Paid
<1> QED BY <1>6, <1>7

LEMMA EndsCall ==
  ASSUME CompareInv, cstage \in {"calling", "fallback"}, NEW o, Sound(o), Record(o),
         UNCHANGED <<items, repeats, report, code>>,
         side' \in [{"A", "B"} -> SideRecords], DOMAIN ways' = {"A", "B"},
         \A s \in {"A", "B"} :
           /\ Tempered(s)' /\ side'[s].fallback_tried = side[s].fallback_tried
           /\ side'[s].calls_made <= side[s].calls_made + Bit(s = SideAt)
  PROVE  CompareInv'
<1>1. /\ Suite(items)' /\ Collected(items, obs)' /\ Progress'
      /\ retries' = 0 /\ cstage' \in {"calling", "report"}
      /\ \A s \in {"A", "B"} :
           /\ AskedOf(obs[s]) \in Int
           /\ AskedOf(obs'[s]) = AskedOf(obs[s]) + Bit(s = SideAt)
  BY RecordStep
<1>2. ASSUME NEW s \in {"A", "B"}
      PROVE  Paid(s)'
  <2>1. side'[s] \in SideRecords
    OBVIOUS
  <2>2. side'[s].calls_made \in Nat
    BY <2>1 DEF SideRecords
  <2> QED BY <1>1, <2>2, PaidStep
<1>3. retries' \in 0 .. MaxCallRetries
  BY <1>1, CompareAssumption
<1>4. code' \in {None, 0, 1, 2, 3} /\ (report' # None => cstage' = "ended")
  BY DEF CompareInv
<1> QED BY <1>1, <1>2, <1>3, <1>4 DEF CompareInv

LEMMA InitStep ==
  ASSUME CompareInit
  PROVE  CompareInv
<1>1. items = <<>> /\ repeats = 0 /\ turn = 0 /\ retries = 0 /\ cstage = "args"
      /\ report = None /\ code = None
      /\ side = [s \in {"A", "B"} |-> NewSide] /\ obs = [s \in {"A", "B"} |-> <<>>]
      /\ ways = [s \in {"A", "B"} |-> {}]
  BY SidesAre DEF CompareInit
<1>2. DOMAIN items = {} /\ Suite(items)
  BY <1>1 DEF Suite, IsSeq
<1>3. IdsOf(items) = {}
  BY <1>2 DEF IdsOf
<1>4. Collected(items, obs)
  BY <1>1, <1>3 DEF Collected
<1>5. Progress /\ retries \in 0 .. MaxCallRetries
  BY <1>1, CompareAssumption DEF Progress
<1>6. NewSide \in SideRecords
  BY DEF NewSide, SideRecords
<1>7. side \in [{"A", "B"} -> SideRecords] /\ DOMAIN ways = {"A", "B"}
  BY <1>1, <1>6
<1>8. ASSUME NEW s \in {"A", "B"}
      PROVE  Tempered(s) /\ Paid(s)
  <2>1. side[s] = NewSide /\ ways[s] = {} /\ obs[s] = <<>>
    BY <1>1
  <2>2. Tempered(s)
    BY <2>1 DEF Tempered, NewSide
  <2>3. AskedOf(obs[s]) = 0
    <3>1. PICK f : f = obs[s]
      OBVIOUS
    <3>2. DOMAIN f = {}
      BY <2>1, <3>1
    <3>3. IsFiniteSet({})
      BY FS_EmptySet
    <3>4. AskedOf(f) = SumOf(Lens(f), DOMAIN f)
      BY <3>2, <3>3, AskedIs
    <3>5. SumOf(Lens(f), {}) = 0
      BY SumEmpty
    <3> QED BY <3>1, <3>2, <3>4, <3>5
  <2>4. Trying(s) = 0 /\ side[s].calls_made = 0 /\ Bit(side[s].fallback_tried) = 0
    BY <1>1, <2>1 DEF Trying, NewSide, Bit
  <2>5. MaxCallRetries \in Nat
    BY CompareAssumption
  <2> QED BY <2>2, <2>3, <2>4, <2>5 DEF Paid
<1> QED BY <1>1, <1>2, <1>4, <1>5, <1>7, <1>8 DEF CompareInv

LEMMA SkipStep ==
  ASSUME CompareInv, SkipAfterFatal
  PROVE  CompareInv'
<1>1. cstage = "calling" /\ Record(Failure("not_attempted"))
      /\ UNCHANGED <<items, repeats, side, report, code, ways>>
  BY DEF SkipAfterFatal
<1>2. Sound(Failure("not_attempted"))
  BY FailureSound DEF FailureNames
<1>3. side' \in [{"A", "B"} -> SideRecords] /\ DOMAIN ways' = {"A", "B"}
  BY <1>1 DEF CompareInv
<1>4. \A s \in {"A", "B"} :
           /\ Tempered(s)' /\ side'[s].fallback_tried = side[s].fallback_tried
           /\ side'[s].calls_made <= side[s].calls_made + Bit(s = SideAt)
  <2>1. SUFFICES ASSUME NEW s \in {"A", "B"}
                 PROVE  /\ Tempered(s)' /\ side'[s].fallback_tried = side[s].fallback_tried
                        /\ side'[s].calls_made <= side[s].calls_made + Bit(s = SideAt)
    OBVIOUS
  <2>2. Tempered(s) /\ side[s] \in SideRecords
    BY DEF CompareInv
  <2>3. side[s].calls_made \in Nat
    BY <2>2 DEF SideRecords
  <2>4. Bit(s = SideAt) \in {0, 1}
    BY DEF Bit
  <2>5. side' = side /\ ways' = ways
    BY <1>1
  <2>6. Tempered(s)'
    BY <2>2, <2>5 DEF Tempered
  <2>7. PICK n, b : n = side[s].calls_made /\ b = Bit(s = SideAt)
    OBVIOUS
  <2>8. n <= n + b
    BY <2>3, <2>4, <2>7
  <2> QED BY <2>5, <2>6, <2>7, <2>8
<1> QED BY <1>1, <1>2, <1>3, <1>4, EndsCall

LEMMA ChargedAmounts ==
  ASSUME CompareInv, SideAt \in {"A", "B"}, NEW send, NEW temperature, NEW tried, NEW fatal,
         Charged(side, side', SideAt, send, temperature, tried, fatal)
  PROVE  /\ side' \in [{"A", "B"} -> SideRecords]
         /\ \A s \in {"A", "B"} :
              /\ side[s].calls_made \in Nat
              /\ side'[s].calls_made = side[s].calls_made + Bit(s = SideAt)
              /\ s # SideAt => side'[s] = side[s]
<1>1. \A s \in {"A", "B"} : side[s].calls_made \in Nat
  <2>1. \A s \in {"A", "B"} : side[s] \in SideRecords
    BY DEF CompareInv
  <2> QED BY <2>1 DEF SideRecords
<1>2. side' \in [{"A", "B"} -> SideRecords]
  BY DEF Charged
<1>3. ASSUME NEW s \in {"A", "B"}
      PROVE  /\ side'[s].calls_made = side[s].calls_made + Bit(s = SideAt)
             /\ s # SideAt => side'[s] = side[s]
  <2>1. CASE s = SideAt
    BY <2>1 DEF Charged, Bit
  <2>2. CASE s # SideAt
    <3>1. side'[s] = side[s] /\ Bit(s = SideAt) = 0
      BY <2>2 DEF Charged, Bit
    <3>2. PICK n : n = side[s].calls_made
      OBVIOUS
    <3>3. n = n + 0
      BY <1>1, <3>2
    <3> QED BY <3>1, <3>2, <3>3
  <2> QED BY <2>1, <2>2
<1> QED BY <1>1, <1>2, <1>3

\* A call that ends: what is left is that its side's temperature is stated.
LEMMA ChargedEnds ==
  ASSUME CompareInv, cstage \in {"calling", "fallback"}, NEW o, Sound(o), Record(o),
         UNCHANGED <<items, repeats, report, code>>,
         NEW a, a = SideAt,
         NEW send, NEW temperature, NEW fatal,
         Charged(side, side', a, send, temperature, side[a].fallback_tried, fatal),
         DOMAIN ways' = {"A", "B"}, Tempered(a)',
         \A s \in {"A", "B"} : s # a => ways'[s] = ways[s]
  PROVE  CompareInv'
<1>1. SideAt \in {"A", "B"}
  BY Calling
<1>2. /\ side' \in [{"A", "B"} -> SideRecords]
      /\ \A s \in {"A", "B"} :
           /\ side[s].calls_made \in Nat
           /\ side'[s].calls_made = side[s].calls_made + Bit(s = SideAt)
           /\ s # SideAt => side'[s] = side[s]
  BY <1>1, ChargedAmounts
<1>3. ASSUME NEW s \in {"A", "B"}
      PROVE  /\ Tempered(s)' /\ side'[s].fallback_tried = side[s].fallback_tried
             /\ side'[s].calls_made <= side[s].calls_made + Bit(s = SideAt)
  <2>1. side'[s].calls_made <= side[s].calls_made + Bit(s = SideAt)
    <3>1. PICK n, b : n = side[s].calls_made /\ b = Bit(s = SideAt)
      OBVIOUS
    <3>2. n \in Nat /\ b \in Nat /\ side'[s].calls_made = n + b
      BY <1>2, <3>1 DEF Bit
    <3> QED BY <3>1, <3>2
  <2>2. side'[s].fallback_tried = side[s].fallback_tried
    BY <1>2 DEF Charged
  <2>3. Tempered(s)'
    <3>1. CASE s = a
      BY <3>1
    <3>2. CASE s # a
      <4>1. Tempered(s)
        BY DEF CompareInv
      <4> QED BY <1>2, <3>2, <4>1 DEF Tempered
    <3> QED BY <3>1, <3>2
  <2> QED BY <2>1, <2>2, <2>3
<1> QED BY <1>2, <1>3, EndsCall

\* What a call's failure comes to.
LEMMA FailsStep ==
  ASSUME CompareInv, cstage \in {"calling", "fallback"}, NEW e, Fails(Classify(e)),
         UNCHANGED <<items, repeats, report, code>>
  PROVE  CompareInv'
<1>1. PICK class, a : class = Classify(e) /\ a = SideAt
  OBVIOUS
<1>2. /\ side' = [side EXCEPT ![a].calls_made = @ + 1,
                              ![a].fatal = IF class \in Fatal THEN class ELSE @]
      /\ Record(Failure(class)) /\ ways' = ways
  BY <1>1 DEF Fails
<1>3. Sound(Failure(class))
  BY <1>1, ClassifyNames, FailureSound
<1>4. a \in {"A", "B"} /\ side \in [{"A", "B"} -> SideRecords] /\ DOMAIN ways = {"A", "B"}
  BY <1>1, Calling DEF CompareInv
<1>5. PICK fatal : fatal = IF class \in Fatal THEN class ELSE side[a].fatal
  OBVIOUS
<1>6. Charged(side, side', a, side[a].send_temperature, side[a].temperature,
              side[a].fallback_tried, fatal)
  <2>1. \A c : Charged(side, [side EXCEPT ![a].calls_made = @ + 1,
                                ![a].fatal = IF c \in Fatal THEN c ELSE @], a,
                      side[a].send_temperature, side[a].temperature,
                      side[a].fallback_tried, IF c \in Fatal THEN c ELSE side[a].fatal)
    BY <1>4, ChargedSides
  <2>2. Charged(side, [side EXCEPT ![a].calls_made = @ + 1,
                             ![a].fatal = IF class \in Fatal THEN class ELSE @], a,
                side[a].send_temperature, side[a].temperature,
                side[a].fallback_tried, IF class \in Fatal THEN class ELSE side[a].fatal)
    BY <2>1
  <2> QED BY <1>2, <1>5, <2>2
<1>7. Tempered(a)'
  <2>1. Tempered(a)
    BY <1>4 DEF CompareInv
  <2>2. /\ side'[a].send_temperature = side[a].send_temperature
        /\ side'[a].temperature = side[a].temperature
    BY <1>6 DEF Charged
  <2> QED BY <1>2, <2>1, <2>2 DEF Tempered
<1> QED BY <1>1, <1>2, <1>3, <1>4, <1>6, <1>7, ChargedEnds

\* A request that leaves its call open.
LEMMA SameCall ==
  ASSUME CompareInv, cstage \in {"calling", "fallback"}, cstage' \in {"calling", "fallback"},
         UNCHANGED <<items, repeats, obs, turn, report, code, ways>>,
         retries' \in 0 .. MaxCallRetries, NEW a, a = SideAt, NEW tried,
         Charged(side, side', a, side[a].send_temperature, side[a].temperature, tried,
                 side[a].fatal),
         retries' + Bit(tried) = retries + Bit(side[a].fallback_tried) + 1
  PROVE  CompareInv'
<1>1. a \in {"A", "B"} /\ side \in [{"A", "B"} -> SideRecords] /\ DOMAIN ways = {"A", "B"}
  BY Calling DEF CompareInv
<1>2. /\ side' \in [{"A", "B"} -> SideRecords]
      /\ \A s \in {"A", "B"} :
           /\ side[s].calls_made \in Nat
           /\ side'[s].calls_made = side[s].calls_made + Bit(s = a)
           /\ s # a => side'[s] = side[s]
  BY <1>1, ChargedAmounts
<1>3. Suite(items)' /\ Collected(items, obs)'
  BY DEF CompareInv
<1>4. Planned' = Planned /\ SideAt' = SideAt
  BY DEF Planned, SideAt
<1>5. Progress'
  <2>1. /\ Len(items) >= 1 /\ repeats \in 2 .. 5 /\ turn < Planned
        /\ \E c \in 0 .. repeats, p \in 0 .. Len(items) - 1, q \in 0 .. 1 :
             AtPlace(items, obs, turn, c, p, q)
    BY DEF CompareInv, Progress
  <2> QED BY <1>4, <2>1 DEF Progress
<1>6. ASSUME NEW s \in {"A", "B"}
      PROVE  Tempered(s)'
  <2>1. Tempered(s)
    BY DEF CompareInv
  <2>2. side'[s].send_temperature = side[s].send_temperature /\ side'[s].temperature = side[s].temperature
    BY <1>2 DEF Charged
  <2> QED BY <2>1, <2>2 DEF Tempered
<1>7. ASSUME NEW s \in {"A", "B"}
      PROVE  Paid(s)'
  <2>1. PICK y, n, b : y = AskedOf(obs[s]) * (1 + MaxCallRetries) /\ n = side[s].calls_made
                       /\ b = Bit(side[s].fallback_tried)
    OBVIOUS
  <2>2. n <= y + Trying(s) + b
    BY <2>1 DEF CompareInv, Paid
  <2>3. y \in Int
    <3>1. AskedOf(obs[s]) \in Int
      <4>1. PICK f : f = obs[s]
        OBVIOUS
      <4>2. Collected(items, obs) /\ IsSeq(items)
        BY DEF CompareInv, Suite
      <4>3. DOMAIN f = IdsOf(items) /\ IsFiniteSet(DOMAIN f)
        BY <4>1, <4>2, IdsFinite DEF Collected
      <4>4. \A id \in DOMAIN f : IsSeq(f[id])
        BY <4>1, <4>2, <4>3 DEF Collected
      <4>5. \A id \in DOMAIN f : Len(f[id]) \in Nat
        BY <4>4, AppendSeq
      <4>6. AskedOf(f) \in Int
        BY <4>3, <4>5, AskedIs
      <4> QED BY <4>1, <4>6
    <3>2. PICK k, M : k = AskedOf(obs[s]) /\ M = MaxCallRetries
      OBVIOUS
    <3>3. k \in Int /\ M \in Int
      BY <3>1, <3>2, CompareAssumption
    <3>4. k * (1 + M) \in Int
      BY <3>3
    <3> QED BY <2>1, <3>2, <3>4
  <2>4. n \in Nat /\ b \in Nat /\ retries \in Nat
    BY <1>2, <2>1 DEF Bit, CompareInv
  <2>5. CASE s = a
    <3>1. Trying(s) = retries /\ Trying(s)' = retries'
      BY <1>4, <2>5 DEF Trying
    <3>2. side'[s].calls_made = n + 1 /\ side'[s].fallback_tried = tried
      BY <1>2, <2>1, <2>5 DEF Bit, Charged
    <3>3. PICK new, r, t : new = Bit(tried) /\ r = retries' /\ t = retries
      OBVIOUS
    <3>4. new \in Nat /\ r \in Nat /\ t \in Nat /\ r + new = t + b + 1
      <4>1. r + new = t + b + 1
        BY <2>1, <2>5, <3>3
      <4>2. new \in Nat
        BY <3>3 DEF Bit
      <4>3. r \in Nat
        BY <3>3, CompareAssumption
      <4> QED BY <2>4, <3>3, <4>1, <4>2, <4>3
    <3>5. n + 1 <= y + r + new
      BY <2>2, <2>3, <2>4, <3>1, <3>3, <3>4
    <3> QED BY <2>1, <3>1, <3>2, <3>3, <3>5 DEF Paid
  <2>6. CASE s # a
    <3>1. Trying(s) = 0 /\ Trying(s)' = 0
      BY <1>4, <2>6 DEF Trying
    <3>2. side'[s] = side[s]
      BY <1>2, <2>6
    <3> QED BY <2>1, <2>2, <3>1, <3>2 DEF Paid
  <2> QED BY <2>5, <2>6
<1>8. code' \in {None, 0, 1, 2, 3} /\ (report' # None => cstage' = "ended")
  BY DEF CompareInv
<1> QED BY <1>1, <1>2, <1>3, <1>5, <1>6, <1>7, <1>8 DEF CompareInv

LEMMA AskStep ==
  ASSUME CompareInv, NEW x \in CompareExchanges, Ask(x)
  PROVE  CompareInv'
<1>1. PICK r, a : r = CompleteEx(x, FALSE, TRUE) /\ a = SideAt
  OBVIOUS
<1>2. /\ cstage = "calling" /\ UNCHANGED <<items, repeats, report, code>>
      /\ IF r.ok
         THEN /\ side' = [side EXCEPT ![a].calls_made = @ + 1]
              /\ ways' = [ways EXCEPT ![a] = @ \cup {"temperature" \in Sent}]
              /\ Record(Observe(ItemAt, r))
         ELSE IF TemperatureSuspected(r)
         THEN /\ side' = [side EXCEPT ![a].calls_made = @ + 1, ![a].fallback_tried = TRUE]
              /\ cstage' = "fallback"
              /\ UNCHANGED <<obs, turn, retries, ways>>
         ELSE IF Classify(r) \in Retryable /\ retries < MaxCallRetries
         THEN /\ side' = [side EXCEPT ![a].calls_made = @ + 1]
              /\ retries' = retries + 1
              /\ UNCHANGED <<cstage, obs, turn, ways>>
         ELSE Fails(Classify(r))
  BY <1>1 DEF Ask
<1>3. a \in {"A", "B"} /\ side \in [{"A", "B"} -> SideRecords] /\ DOMAIN ways = {"A", "B"}
  BY <1>1, <1>2, Calling DEF CompareInv
<1>4. PICK u : u = side[a]
  OBVIOUS
<1>5. u \in SideRecords /\ Tempered(a)
  BY <1>3, <1>4 DEF CompareInv
<1>6. CASE r.ok
  <2>1. Sound(Observe(ItemAt, r))
    BY <1>1, <1>6, ObserveSound
  <2>2. Charged(side, side', a, side[a].send_temperature, side[a].temperature,
                side[a].fallback_tried, side[a].fatal)
    <3>1. Charged(side, [side EXCEPT ![a].calls_made = @ + 1], a, side[a].send_temperature,
                  side[a].temperature, side[a].fallback_tried, side[a].fatal)
      BY <1>3, ChargedSides
    <3> QED BY <1>2, <1>6, <3>1
  <2>3. ("temperature" \in Sent) = u.send_temperature
    <3>1. "temperature" \in Sent <=> u.send_temperature
      BY <1>1, <1>4 DEF Sent, PayloadKeys
    <3>2. u.send_temperature \in BOOLEAN
      BY <1>5 DEF SideRecords
    <3> QED BY <3>1, <3>2
  <2>4. /\ DOMAIN ways' = {"A", "B"} /\ ways'[a] = ways[a] \cup {u.send_temperature}
        /\ \A s \in {"A", "B"} : s # a => ways'[s] = ways[s]
    BY <1>2, <1>3, <1>6, <2>3
  <2>5. Tempered(a)'
    <3>1. side'[a].send_temperature = u.send_temperature /\ side'[a].temperature = u.temperature
      BY <1>4, <2>2 DEF Charged
    <3>2. u.send_temperature \in BOOLEAN
      BY <1>5 DEF SideRecords
    <3> QED BY <1>4, <1>5, <2>4, <3>1, <3>2 DEF Tempered
  <2> QED BY <1>1, <1>2, <1>6, <2>1, <2>2, <2>4, <2>5, ChargedEnds
<1>7. CASE ~r.ok /\ TemperatureSuspected(r)
  <2>1. Charged(side, side', a, side[a].send_temperature, side[a].temperature, TRUE, side[a].fatal)
    <3>1. Charged(side, [side EXCEPT ![a].calls_made = @ + 1, ![a].fallback_tried = TRUE], a,
                  side[a].send_temperature, side[a].temperature, TRUE, side[a].fatal)
      BY <1>3, ChargedSides
    <3> QED BY <1>2, <1>7, <3>1
  <2>2. retries' = retries /\ retries \in 0 .. MaxCallRetries
    BY <1>2, <1>7 DEF CompareInv
  <2>3. retries' + Bit(TRUE) = retries + Bit(side[a].fallback_tried) + 1
    <3>1. ~side[a].fallback_tried
      BY <1>1, <1>7 DEF TemperatureSuspected
    <3>2. Bit(TRUE) = 1 /\ Bit(side[a].fallback_tried) = 0
      BY <3>1 DEF Bit
    <3>3. PICK n, b, d : n = retries /\ b = Bit(TRUE) /\ d = Bit(side[a].fallback_tried)
      OBVIOUS
    <3>6. n \in Int
      BY <2>2, <3>3, CompareAssumption
    <3>4. n \in Int /\ b = 1 /\ d = 0
      BY <3>2, <3>3, <3>6
    <3>5. n + b = n + d + 1
      BY <3>4
    <3> QED BY <2>2, <3>3, <3>5
  <2> QED BY <1>1, <1>2, <1>7, <2>1, <2>2, <2>3, SameCall
<1>8. CASE ~r.ok /\ ~TemperatureSuspected(r) /\ Classify(r) \in Retryable /\ retries < MaxCallRetries
  <2>1. Charged(side, side', a, side[a].send_temperature, side[a].temperature,
                side[a].fallback_tried, side[a].fatal)
    <3>1. Charged(side, [side EXCEPT ![a].calls_made = @ + 1], a, side[a].send_temperature,
                  side[a].temperature, side[a].fallback_tried, side[a].fatal)
      BY <1>3, ChargedSides
    <3> QED BY <1>2, <1>8, <3>1
  <2>2. retries' = retries + 1 /\ retries \in 0 .. MaxCallRetries
    BY <1>2, <1>8 DEF CompareInv
  <2>3. retries' \in 0 .. MaxCallRetries
    BY <1>8, <2>2, CompareAssumption
  <2>4. retries' + Bit(side[a].fallback_tried) = retries + Bit(side[a].fallback_tried) + 1
    <3>1. PICK n, b : n = retries /\ b = Bit(side[a].fallback_tried)
      OBVIOUS
    <3>2. n \in Int /\ b \in Int
      BY <2>2, <3>1, CompareAssumption DEF Bit
    <3>3. n + 1 + b = n + b + 1
      BY <3>2
    <3> QED BY <2>2, <3>1, <3>3
  <2> QED BY <1>1, <1>2, <1>8, <2>1, <2>3, <2>4, SameCall
<1>9. CASE ~r.ok /\ Fails(Classify(r))
  BY <1>2, <1>9, FailsStep
<1> QED BY <1>2, <1>6, <1>7, <1>8, <1>9

LEMMA FallbackStep ==
  ASSUME CompareInv, NEW x \in CompareExchanges, TemperatureFallback(x)
  PROVE  CompareInv'
<1>1. PICK r, a : r = CompleteEx(x, FALSE, TRUE) /\ a = SideAt
  OBVIOUS
<1>2. /\ cstage = "fallback" /\ UNCHANGED <<items, repeats, report, code>>
      /\ IF r.ok
         THEN /\ side' = [side EXCEPT ![a].calls_made = @ + 1, ![a].send_temperature = FALSE,
                                      ![a].temperature = "provider default"]
              /\ ways' = [ways EXCEPT ![a] = @ \cup {FALSE}]
              /\ Record(Observe(ItemAt, r))
         ELSE Fails(Classify(r))
  BY <1>1 DEF TemperatureFallback
<1>3. a \in {"A", "B"} /\ side \in [{"A", "B"} -> SideRecords] /\ DOMAIN ways = {"A", "B"}
  BY <1>1, <1>2, Calling DEF CompareInv
<1>4. CASE r.ok
  <2>1. Sound(Observe(ItemAt, r))
    BY <1>1, <1>4, ObserveSound
  <2>2. Charged(side, side', a, FALSE, "provider default", side[a].fallback_tried, side[a].fatal)
    <3>1. Charged(side, [side EXCEPT ![a].calls_made = @ + 1, ![a].send_temperature = FALSE,
                                     ![a].temperature = "provider default"], a,
                  FALSE, "provider default", side[a].fallback_tried, side[a].fatal)
      BY <1>3, ChargedSides
    <3> QED BY <1>2, <1>4, <3>1
  <2>3. /\ DOMAIN ways' = {"A", "B"} /\ FALSE \in ways'[a]
        /\ \A s \in {"A", "B"} : s # a => ways'[s] = ways[s]
    BY <1>2, <1>3, <1>4
  <2>4. Tempered(a)'
    BY <2>2, <2>3 DEF Tempered, Charged
  <2> QED BY <1>1, <1>2, <1>4, <2>1, <2>2, <2>3, <2>4, ChargedEnds
<1>5. CASE ~r.ok
  BY <1>2, <1>5, FailsStep
<1> QED BY <1>4, <1>5

\* The suite a comparison starts with is that of a file it loads.
LEMMA MainStep ==
  ASSUME CompareInv, NEW lines \in SuiteFiles, NEW n \in Repeats, NEW sound \in BOOLEAN,
         NEW yes \in BOOLEAN, NEW key \in CompareKeys, CompareMain(lines, n, sound, yes, key)
  PROVE  CompareInv'
<1>1. /\ cstage = "args" /\ UNCHANGED <<turn, retries, side, report, ways>>
      /\ \/ /\ LoadSuite(lines) /\ n \in 2 .. 5
            /\ cstage' = "calling"
            /\ items' = [i \in DOMAIN lines |->
                           [id |-> lines[i].id, expect_json |-> lines[i].expect_json]]
            /\ repeats' = n
            /\ obs' = [s \in {"A", "B"} |-> [i \in {l.id : l \in ToSet(lines)} |-> <<>>]]
            /\ UNCHANGED code
         \/ /\ cstage' = "ended" /\ code' \in {1, 3} /\ UNCHANGED <<items, repeats, obs>>
  BY SidesAre DEF CompareMain
<1>2. /\ turn = 0 /\ retries = 0 /\ items = <<>> /\ repeats = 0 /\ report = None
  BY <1>1 DEF CompareInv, Progress
<1>3. /\ side' \in [{"A", "B"} -> SideRecords] /\ DOMAIN ways' = {"A", "B"}
      /\ retries' \in 0 .. MaxCallRetries /\ (report' # None => cstage' = "ended")
      /\ side' = side /\ ways' = ways
  BY <1>1, <1>2 DEF CompareInv
<1>4. \A s \in {"A", "B"} : Tempered(s)'
  BY <1>3 DEF CompareInv, Tempered
<1>5. CASE cstage' = "ended" /\ code' \in {1, 3} /\ UNCHANGED <<items, repeats, obs>>
  <2>1. Suite(items)' /\ Collected(items, obs)'
    BY <1>5 DEF CompareInv
  <2>2. Progress'
    BY <1>1, <1>2, <1>5 DEF Progress
  <2>3. ASSUME NEW s \in {"A", "B"}
        PROVE  Paid(s)'
    <3>1. Paid(s)
      BY DEF CompareInv
    <3>2. Trying(s) = 0 /\ Trying(s)' = 0
      BY <1>1, <1>5 DEF Trying
    <3> QED BY <1>3, <1>5, <3>1, <3>2 DEF Paid
  <2> QED BY <1>3, <1>4, <1>5, <2>1, <2>2, <2>3 DEF CompareInv
<1>6. CASE /\ LoadSuite(lines) /\ n \in 2 .. 5
           /\ cstage' = "calling"
           /\ items' = [i \in DOMAIN lines |->
                          [id |-> lines[i].id, expect_json |-> lines[i].expect_json]]
           /\ repeats' = n
           /\ obs' = [s \in {"A", "B"} |-> [i \in {l.id : l \in ToSet(lines)} |-> <<>>]]
           /\ UNCHANGED code
  <2>1. PICK L, its, O : L = Len(lines) /\ its = items' /\ O = obs'
    OBVIOUS
  <2>2. L \in Nat \ {0} /\ DOMAIN lines = 1 .. L /\ IsSeq(lines)
    BY <1>6, <2>1, CompareAssumption DEF LoadSuite, IsSeq
  <2>3. \A i \in 1 .. L : its[i].id = lines[i].id
    BY <1>6, <2>1, <2>2
  <2>4. IsSeq(its) /\ Len(its) = L /\ DOMAIN its = 1 .. L
    <3>1. its = [i \in 1 .. L |-> its[i]]
      BY <1>6, <2>1, <2>2
    <3> QED BY <2>2, <3>1, ListSeq
  <2>5. Suite(its)
    BY <1>6, <2>2, <2>3, <2>4 DEF Suite, LoadSuite
  <2>6. {l.id : l \in ToSet(lines)} = IdsOf(its)
    <3>1. {l.id : l \in ToSet(lines)} = {lines[i].id : i \in 1 .. L}
      BY <2>2 DEF ToSet
    <3> QED BY <2>3, <2>4, <3>1 DEF IdsOf
  <2>7. /\ DOMAIN O = {"A", "B"}
        /\ \A s \in {"A", "B"} : DOMAIN O[s] = IdsOf(its)
        /\ \A s \in {"A", "B"} : \A id \in IdsOf(its) : O[s][id] = <<>>
    BY <1>6, <2>1, <2>6
  <2>8. IsSeq(<<>>) /\ Len(<<>>) = 0 /\ ToSet(<<>>) = {}
    <3>1. DOMAIN <<>> = {} /\ Len(<<>>) = 0 /\ \A T : <<>> \in Seq(T)
      OBVIOUS
    <3> QED BY <3>1 DEF IsSeq, ToSet
  <2>9. Collected(its, O)
    BY <2>7, <2>8 DEF Collected
  <2>10. AtPlace(its, O, 0, 0, 0, 0)
    <3>1. \A i \in 1 .. L : Bit(i <= 0 + 0) = 0 /\ Bit(i <= 0) = 0 /\ its[i].id \in IdsOf(its)
      BY <2>4 DEF Bit, IdsOf
    <3>2. \A i \in 1 .. L : Len(O["A"][its[i].id]) = 0 /\ Len(O["B"][its[i].id]) = 0
      BY <2>7, <2>8, <3>1
    <3>3. 0 = 2 * (L * 0 + 0) + 0
      BY <2>2
    <3>4. 0 \in Nat /\ 0 \in 0 .. Len(its) - 1 /\ 0 \in 0 .. 1 /\ 0 = 2 * (Len(its) * 0 + 0) + 0
      BY <2>2, <2>4, <3>3
    <3>5. \A i \in DOMAIN its : /\ Len(O["A"][its[i].id]) = 0 + Bit(i <= 0 + 0)
                                /\ Len(O["B"][its[i].id]) = 0 + Bit(i <= 0)
      <4>1. SUFFICES ASSUME NEW i \in 1 .. L
                     PROVE  /\ Len(O["A"][its[i].id]) = 0 + Bit(i <= 0 + 0)
                            /\ Len(O["B"][its[i].id]) = 0 + Bit(i <= 0)
        BY <2>4
      <4>2. PICK b, d : b = Bit(i <= 0 + 0) /\ d = Bit(i <= 0)
        OBVIOUS
      <4>3. b = 0 /\ d = 0
        BY <3>1, <4>2
      <4>4. Len(O["A"][its[i].id]) = 0 + b /\ Len(O["B"][its[i].id]) = 0 + d
        BY <3>2, <4>3
      <4> QED BY <4>2, <4>4
    <3> QED BY <3>4, <3>5 DEF AtPlace
  <2>11. Progress'
    <3>1. Planned' = 2 * (L * n) /\ n \in Nat \ {0}
      <4>1. Planned' = (n * L) * 2
        BY <1>6, <2>1, <2>4, SidesAre DEF Planned
      <4>2. n \in Nat \ {0}
        BY <1>6
      <4>3. (n * L) * 2 = 2 * (L * n)
        BY <2>2, <4>2
      <4> QED BY <4>1, <4>2, <4>3
    <3>2. L * n > 0
      <4>1. L * (n - 1) >= 0
        BY <2>2, <3>1
      <4>2. L * n = L * (n - 1) + L
        BY <2>2, <3>1
      <4>3. PICK y, z : y = L * (n - 1) /\ z = L * n
        OBVIOUS
      <4>4. y \in Int /\ z = y + L /\ y >= 0
        BY <2>2, <3>1, <4>1, <4>2, <4>3
      <4> QED BY <2>2, <4>3, <4>4
    <3>3. 0 < Planned'
      BY <2>2, <3>1, <3>2
    <3>4. turn' = 0 /\ cstage' = "calling" /\ repeats' = n /\ items' = its /\ obs' = O
      BY <1>1, <1>2, <1>6, <2>1
    <3>5. 0 \in 0 .. n /\ 0 \in 0 .. Len(its) - 1 /\ 0 \in 0 .. 1 /\ Len(its) >= 1
      BY <2>2, <2>4, <3>1
    <3>6. IF cstage' \in {"calling", "fallback"} THEN turn' < Planned'
          ELSE cstage' \in {"report", "ended"} /\ turn' = Planned'
      BY <3>3, <3>4
    <3>7. \E c \in 0 .. repeats', p \in 0 .. Len(items') - 1, q \in 0 .. 1 :
            AtPlace(items', obs', turn', c, p, q)
      BY <2>10, <3>4, <3>5
    <3>8. Len(items') >= 1 /\ repeats' \in 2 .. 5
      BY <1>6, <3>4, <3>5
    <3> QED BY <3>6, <3>7, <3>8 DEF Progress
  <2>12. ASSUME NEW s \in {"A", "B"}
         PROVE  Paid(s)'
    <3>1. PICK f, M : f = O[s] /\ M = MaxCallRetries
      OBVIOUS
    <3>2. DOMAIN f = IdsOf(its) /\ IsFiniteSet(DOMAIN f)
      BY <2>4, <2>7, <3>1, IdsFinite
    <3>3. \A id \in DOMAIN f : Len(f[id]) = 0
      BY <2>7, <2>8, <3>1, <3>2
    <3>4. AskedOf(f) = 0
      <4>1. AskedOf(f) = 0 * Cardinality(DOMAIN f) /\ Cardinality(DOMAIN f) \in Nat
        BY <3>2, <3>3, AskedEach, FS_CardinalityType
      <4> QED BY <4>1
    <3>5. AskedOf(obs[s]) = 0
      <4>1. PICK g : g = obs[s]
        OBVIOUS
      <4>2. DOMAIN g = {}
        <5>1. Collected(items, obs) /\ IdsOf(items) = {}
          BY <1>2 DEF CompareInv, IdsOf
        <5> QED BY <4>1, <5>1 DEF Collected
      <4>3. IsFiniteSet(DOMAIN g) /\ Cardinality(DOMAIN g) = 0
        BY <4>2, FS_EmptySet
      <4>4. AskedOf(g) = 0 * Cardinality(DOMAIN g)
        BY <4>2, <4>3, AskedEach
      <4> QED BY <4>1, <4>3, <4>4
    <3>6. M \in Nat
      BY <3>1, CompareAssumption
    <3>7. Paid(s) /\ Trying(s) = 0 /\ Trying(s)' = 0
      BY <1>1, <1>2 DEF CompareInv, Trying
    <3>8. side[s].calls_made <= 0 * (1 + M) + 0 + Bit(side[s].fallback_tried)
      BY <3>1, <3>5, <3>7 DEF Paid
    <3> QED BY <1>3, <2>1, <3>1, <3>4, <3>7, <3>8 DEF Paid
  <2> QED BY <1>3, <1>4, <1>6, <2>1, <2>5, <2>9, <2>11, <2>12 DEF CompareInv
<1> QED BY <1>1, <1>5, <1>6

LEMMA ReportFields ==
  ASSUME NEW verdict, NEW levels, NEW returned, NEW page, NEW modal, NEW top, NEW r,
         r = [verdict |-> verdict, levels |-> levels, returned |-> returned, page |-> page,
              modal_match |-> modal, top |-> top]
  PROVE  r.verdict = verdict /\ r.page = page
OBVIOUS

LEMMA PageFields ==
  ASSUME NEW notes, NEW failures, NEW texts, NEW r,
         r = [notes |-> notes, failures |-> failures, texts |-> texts]
  PROVE  r.notes = notes
OBVIOUS

LEMMA ReportIs ==
  ASSUME WriteReport
  PROVE  \E significant \in SUBSET {m \in CompareMetrics : MayBeSignificant(m, Eligible(m))} :
           /\ report'.verdict = [m \in CompareMetrics |-> EvaluateMetric(m, m \in significant)]
           /\ report'.page.notes = [s \in ToSet(Sides) |-> Notes(s)]
<1>1. PICK significant \in SUBSET {m \in CompareMetrics : MayBeSignificant(m, Eligible(m))},
           no_text \in BOOLEAN :
        report' =
         [verdict |-> [m \in CompareMetrics |-> EvaluateMetric(m, m \in significant)],
          levels |-> [s \in ToSet(Sides) |-> SideLevels(s)],
          returned |-> [s \in ToSet(Sides) |->
            {o.returned_model : o \in UNION {ToSet(Answers(s, it.id)) : it \in ToSet(items)}} \ {None}],
          page |-> RenderReport(no_text),
          modal_match |-> ModalMatch,
          top |-> [i \in DOMAIN TopChanges |-> TopChanges[i].id]]
  BY DEF WriteReport
<1> DEFINE verdict == [m \in CompareMetrics |-> EvaluateMetric(m, m \in significant)]
           levels == [s \in ToSet(Sides) |-> SideLevels(s)]
           returned == [s \in ToSet(Sides) |->
            {o.returned_model : o \in UNION {ToSet(Answers(s, it.id)) : it \in ToSet(items)}} \ {None}]
           page == RenderReport(no_text)
           modal == ModalMatch
           top == [i \in DOMAIN TopChanges |-> TopChanges[i].id]
           notes == [s \in ToSet(Sides) |-> Notes(s)]
           failures == [s \in ToSet(Sides) |-> FailureClasses(s)]
           texts == IF no_text THEN {}
                    ELSE {Modal(s, it.id) : s \in ToSet(Sides), it \in ToSet(TopChanges)}
<1>2. page = [notes |-> notes, failures |-> failures, texts |-> texts]
  BY DEF RenderReport
<1>3. report' = [verdict |-> verdict, levels |-> levels, returned |-> returned, page |-> page,
                 modal_match |-> modal, top |-> top]
  BY <1>1
<1>4. page.notes = notes
  <2> HIDE DEF page, notes, failures, texts
  <2> QED BY <1>2, PageFields
<1>5. report'.verdict = verdict /\ report'.page = page
  <2> HIDE DEF verdict, levels, returned, page, modal, top
  <2>1. PICK r : r = report'
    OBVIOUS
  <2>2. r.verdict = verdict /\ r.page = page
    BY <1>3, <2>1, ReportFields
  <2> QED BY <2>1, <2>2
<1> HIDE DEF page
<1> QED BY <1>4, <1>5

LEMMA ReportStep ==
  ASSUME CompareInv, WriteReport
  PROVE  CompareInv'
<1>1. /\ cstage = "report" /\ cstage' = "ended" /\ code' \in {0, 2}
      /\ items' = items /\ repeats' = repeats /\ turn' = turn /\ retries' = retries
      /\ side' = side /\ obs' = obs /\ ways' = ways
  BY DEF WriteReport
<1>2. Suite(items)' /\ Collected(items, obs)'
  BY <1>1 DEF CompareInv
<1>3. Progress'
  <2>1. Planned' = Planned
    BY <1>1 DEF Planned
  <2> QED BY <1>1, <2>1 DEF CompareInv, Progress
<1>4. ASSUME NEW s \in {"A", "B"}
      PROVE  Tempered(s)' /\ Paid(s)'
  <2>1. Tempered(s) /\ Paid(s)
    BY DEF CompareInv
  <2>2. Trying(s) = 0 /\ Trying(s)' = 0
    BY <1>1 DEF Trying
  <2> QED BY <1>1, <2>1, <2>2 DEF Tempered, Paid
<1> QED BY <1>1, <1>2, <1>3, <1>4 DEF CompareInv

\* The steps of a comparison.
LEMMA CompareStep ==
  ASSUME CompareInv, [CompareNext]_compareVars
  PROVE  CompareInv'
<1>1. CASE UNCHANGED compareVars
  <2>1. /\ cstage' = cstage /\ code' = code /\ report' = report
        /\ items' = items /\ repeats' = repeats /\ turn' = turn /\ retries' = retries
        /\ side' = side /\ obs' = obs /\ ways' = ways
    BY <1>1 DEF compareVars
  <2>2. Suite(items)' /\ Collected(items, obs)'
    BY <2>1 DEF CompareInv
  <2>3. Planned' = Planned /\ SideAt' = SideAt
    BY <2>1 DEF Planned, SideAt
  <2>4. Progress'
    BY <2>1, <2>3 DEF CompareInv, Progress
  <2>5. ASSUME NEW s \in {"A", "B"}
        PROVE  Tempered(s)' /\ Paid(s)'
    <3>1. Tempered(s) /\ Paid(s)
      BY DEF CompareInv
    <3>2. Trying(s)' = Trying(s)
      BY <2>1, <2>3 DEF Trying
    <3> QED BY <2>1, <3>1, <3>2 DEF Tempered, Paid
  <2> QED BY <2>1, <2>2, <2>4, <2>5 DEF CompareInv
<1>2. CASE CompareNext
  <2>1. ASSUME NEW lines \in SuiteFiles, NEW n \in Repeats, NEW sound \in BOOLEAN,
               NEW yes \in BOOLEAN, NEW key \in CompareKeys,
               CompareMain(lines, n, sound, yes, key)
        PROVE  CompareInv'
    BY <2>1, MainStep
  <2>2. CASE SkipAfterFatal
    BY <2>2, SkipStep
  <2>3. ASSUME NEW x \in CompareExchanges, Ask(x)
        PROVE  CompareInv'
    BY <2>3, AskStep
  <2>4. ASSUME NEW x \in CompareExchanges, TemperatureFallback(x)
        PROVE  CompareInv'
    BY <2>4, FallbackStep
  <2>5. CASE WriteReport
    BY <2>5, ReportStep
  <2> QED BY <1>2, <2>1, <2>2, <2>3, <2>4, <2>5 DEF CompareNext
<1> QED BY <1>1, <1>2

LEMMA PlaceOfComparison ==
  ASSUME CompareInv
  PROVE  \/ items = <<>> /\ turn = 0 /\ repeats = 0 /\ Planned = 0
         \/ /\ Len(items) >= 1 /\ repeats \in 2 .. 5 /\ turn \in Nat /\ turn <= Planned
            /\ Planned \in Nat
            /\ \A s \in {"A", "B"} : \A id \in IdsOf(items) : Len(obs[s][id]) <= repeats
            /\ cstage \in {"report", "ended"}
                 => \A s \in {"A", "B"} : \A id \in IdsOf(items) : Len(obs[s][id]) = repeats
<1>1. CASE items = <<>> /\ turn = 0 /\ repeats = 0
  <2>1. Len(items) = 0
    BY <1>1
  <2>2. Planned = 0
    BY <1>1, <2>1, SidesAre DEF Planned
  <2> QED BY <1>1, <2>2
<1>2. CASE /\ Len(items) >= 1 /\ repeats \in 2 .. 5
           /\ IF cstage \in {"calling", "fallback"} THEN turn < Planned
              ELSE cstage \in {"report", "ended"} /\ turn = Planned
           /\ \E c \in 0 .. repeats, p \in 0 .. Len(items) - 1, q \in 0 .. 1 :
                AtPlace(items, obs, turn, c, p, q)
  <2>1. PICK c \in 0 .. repeats, p \in 0 .. Len(items) - 1, q \in 0 .. 1 :
          AtPlace(items, obs, turn, c, p, q)
    BY <1>2
  <2>2. Suite(items)
    BY DEF CompareInv
  <2>3. PICK L, R, t : L = Len(items) /\ R = repeats /\ t = turn
    OBVIOUS
  <2>4. /\ L \in Nat \ {0} /\ R \in 2 .. 5 /\ p \in 0 .. L - 1 /\ c \in Nat
        /\ t = 2 * (L * c + p) + q
    BY <1>2, <2>1, <2>2, <2>3 DEF Suite, IsSeq, AtPlace
  <2>5. Planned = 2 * (L * R) /\ Planned \in Nat
    BY <1>2, <2>2, <2>3, PlannedIs
  <2>6. t \in Nat /\ turn <= Planned
    <3>1. t \in Nat
      BY <1>2, <2>1, <2>2, <2>3, <2>4, AtCall
    <3> QED BY <1>2, <2>3, <2>5, <3>1
  <2>7. /\ turn < Planned => c < R
        /\ turn = Planned => c = R /\ p = 0 /\ q = 0
    <3>1. R \in Nat
      BY <2>4
    <3>2. /\ 2 * (L * c + p) + q < 2 * (L * R) => c < R
          /\ 2 * (L * c + p) + q = 2 * (L * R) => c = R /\ p = 0 /\ q = 0
      BY <2>4, <3>1, PlaceBounds
    <3> QED BY <2>3, <2>4, <2>5, <3>2
  <2>8. ASSUME NEW s \in {"A", "B"}, NEW id \in IdsOf(items)
        PROVE  /\ Len(obs[s][id]) <= repeats
               /\ cstage \in {"report", "ended"} => Len(obs[s][id]) = repeats
    <3>1. PICK i \in DOMAIN items : id = items[i].id
      BY DEF IdsOf
    <3>2. i \in 1 .. L
      BY <2>2, <2>3, <3>1 DEF Suite, IsSeq
    <3>3. PICK k, b, d : k = Len(obs[s][id]) /\ b = Bit(i <= p + q) /\ d = Bit(i <= p)
      OBVIOUS
    <3>4. k = c + b \/ k = c + d
      BY <2>1, <3>1, <3>3 DEF AtPlace
    <3>5. b \in {0, 1} /\ d \in {0, 1}
      BY <3>3 DEF Bit
    <3>6. p = 0 /\ q = 0 => b = 0 /\ d = 0
      BY <3>2, <3>3 DEF Bit
    <3>7. k <= R /\ (turn = Planned => k = R)
      BY <1>2, <2>4, <2>6, <2>5, <2>3, <2>7, <3>4, <3>5, <3>6
    <3>8. cstage \in {"report", "ended"} => turn = Planned
      BY <1>2
    <3> QED BY <2>3, <3>3, <3>7, <3>8
  <2> QED BY <1>2, <2>3, <2>5, <2>6, <2>8
<1> QED BY <1>1, <1>2 DEF CompareInv, Progress

LEMMA InvTypeOK ==
  ASSUME CompareInv
  PROVE  CompareTypeOK
<1>1. /\ cstage \in {"args", "calling", "fallback", "report", "ended"}
      /\ retries \in 0 .. MaxCallRetries /\ code \in {None, 0, 1, 2, 3}
  BY DEF CompareInv, Progress
<1>2. turn \in 0 .. Planned
  BY PlaceOfComparison
<1>3. ASSUME NEW s \in {"A", "B"}
      PROVE  /\ side[s].fatal \in Fatal \cup {None}
             /\ side[s].send_temperature <=> side[s].temperature = "0"
             /\ \A id \in DOMAIN obs[s] : Len(obs[s][id]) <= repeats
  <2>1. side[s] \in SideRecords /\ Tempered(s) /\ Collected(items, obs)
    BY DEF CompareInv
  <2>2. side[s].fatal \in Fatal \cup {None}
    BY <2>1 DEF SideRecords
  <2>3. DOMAIN obs[s] = IdsOf(items)
    BY <2>1 DEF Collected
  <2>4. items = <<>> => IdsOf(items) = {}
    BY DEF IdsOf
  <2>5. \A id \in DOMAIN obs[s] : Len(obs[s][id]) <= repeats
    BY <2>3, <2>4, PlaceOfComparison
  <2> QED BY <2>1, <2>2, <2>5 DEF Tempered
<1> QED BY <1>1, <1>2, <1>3, SidesAre DEF CompareTypeOK

LEMMA AskedTyped ==
  ASSUME CompareInv, NEW s \in {"A", "B"}
  PROVE  AskedOf(obs[s]) \in Int
<1>1. PICK f : f = obs[s]
  OBVIOUS
<1>2. Collected(items, obs) /\ IsSeq(items)
  BY DEF CompareInv, Suite
<1>3. DOMAIN f = IdsOf(items) /\ IsFiniteSet(DOMAIN f)
  BY <1>1, <1>2, IdsFinite DEF Collected
<1>4. \A id \in DOMAIN f : IsSeq(f[id])
  BY <1>1, <1>2, <1>3 DEF Collected
<1>5. \A id \in DOMAIN f : Len(f[id]) \in Nat
  BY <1>4, AppendSeq
<1>6. AskedOf(f) \in Int
  BY <1>3, <1>5, AskedIs
<1> QED BY <1>1, <1>6

LEMMA InvCallsBounded ==
  ASSUME CompareInv
  PROVE  CallsBounded
<1>1. ASSUME NEW s \in {"A", "B"}
      PROVE  side[s].calls_made
               <= (AskedOf(obs[s]) + Bit(cstage \in {"calling", "fallback"} /\ SideAt = s))
                    * (1 + MaxCallRetries) + Bit(side[s].fallback_tried)
  <2>1. PICK k, M, tr, open, tried, n :
          /\ k = AskedOf(obs[s]) /\ M = MaxCallRetries /\ tr = Trying(s)
          /\ open = Bit(cstage \in {"calling", "fallback"} /\ SideAt = s)
          /\ tried = Bit(side[s].fallback_tried) /\ n = side[s].calls_made
    OBVIOUS
  <2>2. k \in Int /\ M \in Nat /\ tried \in Int /\ n \in Nat
    <3>1. side[s] \in SideRecords
      BY DEF CompareInv
    <3>2. n \in Nat
      BY <2>1, <3>1 DEF SideRecords
    <3> QED BY <2>1, <3>2, AskedTyped, CompareAssumption DEF Bit
  <2>3. tr \in Int /\ ((tr = 0 /\ open = 0) \/ (tr <= M /\ open = 1))
    <3>1. retries \in 0 .. M
      BY <2>1 DEF CompareInv
    <3> QED BY <2>1, <2>2, <3>1 DEF Trying, Bit
  <2>4. n <= k * (1 + M) + tr + tried
    BY <2>1 DEF CompareInv, Paid
  <2>5. PICK y, z : y = k * (1 + M) /\ z = (k + open) * (1 + M)
    OBVIOUS
  <2>6. y \in Int /\ z \in Int /\ y + tr <= z
    <3>1. CASE tr = 0 /\ open = 0
      BY <2>2, <2>5, <3>1
    <3>2. CASE tr <= M /\ open = 1
      <4>1. z = y + 1 + M /\ y \in Int
        BY <2>2, <2>5, <3>2
      <4> QED BY <2>2, <2>3, <3>2, <4>1
    <3> QED BY <2>3, <3>1, <3>2
  <2>7. n <= y + tr + tried
    BY <2>4, <2>5
  <2>8. n <= z + tried
    BY <2>2, <2>3, <2>6, <2>7
  <2> QED BY <2>1, <2>5, <2>8
<1> QED BY <1>1, SidesAre DEF CallsBounded, AskedOf

LEMMA Reporting ==
  ASSUME CompareInv, [CompareNext]_compareVars, ~WriteReport
  PROVE  \/ report' = None
         \/ UNCHANGED compareVars
<1>1. CASE CompareNext
  <2>1. cstage # "ended" /\ report' = report
    BY <1>1 DEF CompareNext, CompareMain, SkipAfterFatal, Ask, TemperatureFallback
  <2>2. report = None
    BY <2>1 DEF CompareInv
  <2> QED BY <2>1, <2>2
<1>2. CASE UNCHANGED compareVars
  BY <1>2
<1> QED BY <1>1, <1>2

LEMMA TemperatureStep ==
  ASSUME CompareInv, TemperatureStated, [CompareNext]_compareVars
  PROVE  TemperatureStated'
<1>1. CASE WriteReport
  <2>1. side' = side /\ ways' = ways /\ report'.page.notes = [s \in ToSet(Sides) |-> Notes(s)]
    <3>1. report'.page.notes = [s \in ToSet(Sides) |-> Notes(s)]
      BY <1>1, ReportIs
    <3> QED BY <1>1, <3>1 DEF WriteReport
  <2>2. ASSUME NEW s \in {"A", "B"}
        PROVE  IF "ran at provider default" \in report'.page.notes[s]
               THEN FALSE \in ways'[s] ELSE ways'[s] \subseteq {TRUE}
    <3>1. report'.page.notes[s] = Notes(s)
      BY <2>1, SidesAre
    <3>2. "ran at provider default" \in Notes(s) <=> side[s].temperature = "provider default"
      BY DEF Notes
    <3>3. side[s] \in SideRecords /\ Tempered(s)
      BY DEF CompareInv
    <3>4. side[s].temperature \in {"0", "provider default"}
      BY <3>3 DEF SideRecords
    <3>5. PICK T : T = Notes(s)
      OBVIOUS
    <3>6. "ran at provider default" \in T <=> ~side[s].send_temperature
      BY <3>2, <3>3, <3>4, <3>5 DEF Tempered
    <3> QED BY <2>1, <3>1, <3>3, <3>5, <3>6 DEF Tempered
  <2> QED BY <2>2, SidesAre DEF TemperatureStated
<1>2. CASE ~WriteReport /\ report' = None
  BY <1>2 DEF TemperatureStated
<1>3. CASE ~WriteReport /\ UNCHANGED compareVars
  BY <1>3 DEF TemperatureStated, compareVars
<1> QED BY <1>1, <1>2, <1>3, Reporting

-----------------------------------------------------------------------------
(* A verdict of CHANGED.                                                   *)

\* VerdictEarned of one metric, as a function of what the state holds.
AnswersIn(O, s, id) == Select(O[s][id], Valid)

ValuesIn(O, metric, s, id) ==
  LET answers == AnswersIn(O, s, id)
  IN  Select([i \in DOMAIN answers |-> ValueOf(metric, answers[i])], LAMBDA v : v # None)

ShareIn(O, metric, s, id, v) ==
  LET values == ValuesIn(O, metric, s, id)
  IN  <<Quantify(DOMAIN values, LAMBDA i : values[i] = v), Len(values)>>

AnsweredEnough(its, R, O) ==
  \A s \in ToSet(Sides) :
    100 * MapThenSumSet(LAMBDA it : Len(AnswersIn(O, s, it.id)), ToSet(its))
      >= (100 - FailureLimit) * R * Len(its)

Comparable(its, O, m) ==
  {it \in ToSet(its) : \A s \in ToSet(Sides) : Len(ValuesIn(O, m, s, it.id)) >= 2}

ToldApart(its, O, m) ==
  \E it \in ToSet(its) :
    /\ \A s \in ToSet(Sides) : Len(ValuesIn(O, m, s, it.id)) >= 2
    /\ \E v \in ToSet(ValuesIn(O, m, "A", it.id) \o ValuesIn(O, m, "B", it.id)) :
         LET a == ShareIn(O, m, "A", it.id, v)
             b == ShareIn(O, m, "B", it.id, v)
         IN  a[1] * b[2] # b[1] * a[2]

EarnedIn(its, R, O, m) ==
  AnsweredEnough(its, R, O) /\ MinItems <= Cardinality(Comparable(its, O, m)) /\ ToldApart(its, O, m)

LEMMA VerdictIs ==
  VerdictEarned <=> (report # None => \A m \in CompareMetrics :
    report.verdict[m] = "CHANGED" => EarnedIn(items, repeats, obs, m))
BY DEF VerdictEarned, EarnedIn, AnsweredEnough, Comparable, ToldApart, ShareIn, Share,
       ValuesIn, Values, AnswersIn, Answers

LEMMA VerdictIsNext ==
  (VerdictEarned <=> (report # None => \A m \in CompareMetrics :
    report.verdict[m] = "CHANGED" => EarnedIn(items, repeats, obs, m)))'
BY VerdictIs, PTL

-----------------------------------------------------------------------------
(* What the verdicts are computed from.                                    *)

LEMMA AnswersPick ==
  ASSUME NEW s, IsSeq(s)
  PROVE  Picks(Select(s, Valid), s, {n \in DOMAIN s : Valid(s[n])})
<1> DEFINE u == CHOOSE upto : upto = [n \in 0 .. Len(s) |->
                  IF n = 0 THEN <<>>
                  ELSE IF Valid(s[n]) THEN Append(upto[n - 1], s[n]) ELSE upto[n - 1]]
           G == {n \in DOMAIN s : Valid(s[n])}
<1>1. Select(s, Valid) = u[Len(s)]
  BY SMT DEF Select
<1>2. Len(s) \in Nat /\ DOMAIN s = 1 .. Len(s)
  BY DEF IsSeq
<1>3. \A n \in 0 .. Len(s) : n # 0 => (n \in G <=> Valid(s[n]))
  BY <1>2
<1> HIDE DEF G
<1>4. \A upto : upto = [n \in 0 .. Len(s) |->
                  IF n = 0 THEN <<>>
                  ELSE IF Valid(s[n]) THEN Append(upto[n - 1], s[n]) ELSE upto[n - 1]]
                <=> Selects(upto, s, G, Len(s))
  BY <1>3 DEF Selects
<1>5. \E upto : Selects(upto, s, G, Len(s))
  BY <1>2, SelectsExist
<1>6. Selects(u, s, G, Len(s))
  BY <1>4, <1>5
<1> HIDE DEF u
<1>7. Picks(u[Len(s)], s, G)
  BY <1>6, SelectsPick DEF IsSeq
<1> QED BY <1>1, <1>7 DEF G

LEMMA PresentPick ==
  ASSUME NEW s, IsSeq(s)
  PROVE  Picks(Select(s, LAMBDA v : v # None), s, {n \in DOMAIN s : s[n] # None})
<1> DEFINE u == CHOOSE upto : upto = [n \in 0 .. Len(s) |->
                  IF n = 0 THEN <<>>
                  ELSE IF s[n] # None THEN Append(upto[n - 1], s[n]) ELSE upto[n - 1]]
           G == {n \in DOMAIN s : s[n] # None}
<1>1. Select(s, LAMBDA v : v # None) = u[Len(s)]
  BY SMT DEF Select
<1>2. Len(s) \in Nat /\ DOMAIN s = 1 .. Len(s)
  BY DEF IsSeq
<1>3. \A n \in 0 .. Len(s) : n # 0 => (n \in G <=> s[n] # None)
  BY <1>2
<1> HIDE DEF G
<1>4. \A upto : upto = [n \in 0 .. Len(s) |->
                  IF n = 0 THEN <<>>
                  ELSE IF s[n] # None THEN Append(upto[n - 1], s[n]) ELSE upto[n - 1]]
                <=> Selects(upto, s, G, Len(s))
  BY <1>3 DEF Selects
<1>5. \E upto : Selects(upto, s, G, Len(s))
  BY <1>2, SelectsExist
<1>6. Selects(u, s, G, Len(s))
  BY <1>4, <1>5
<1> HIDE DEF u
<1>7. Picks(u[Len(s)], s, G)
  BY <1>6, SelectsPick DEF IsSeq
<1> QED BY <1>1, <1>7 DEF G

\* The items of which a metric is asked.
AskedItems(s, metric) == Select(s, LAMBDA it : metric # "json_valid" \/ it.expect_json)

LEMMA AskedPick ==
  ASSUME NEW s, IsSeq(s), NEW metric
  PROVE  \E G : Picks(AskedItems(s, metric), s, G)
<1> DEFINE u == CHOOSE upto : upto = [n \in 0 .. Len(s) |->
                  IF n = 0 THEN <<>>
                  ELSE IF metric # "json_valid" \/ s[n].expect_json
                       THEN Append(upto[n - 1], s[n]) ELSE upto[n - 1]]
           G == {n \in DOMAIN s : metric # "json_valid" \/ s[n].expect_json}
<1>1. AskedItems(s, metric) = u[Len(s)]
  BY SMT DEF AskedItems, Select
<1>2. Len(s) \in Nat /\ DOMAIN s = 1 .. Len(s)
  BY DEF IsSeq
<1>3. \A n \in 0 .. Len(s) : n # 0 => (n \in G <=> (metric # "json_valid" \/ s[n].expect_json))
  BY <1>2
<1> HIDE DEF G
<1>4. \A upto : upto = [n \in 0 .. Len(s) |->
                  IF n = 0 THEN <<>>
                  ELSE IF metric # "json_valid" \/ s[n].expect_json
                       THEN Append(upto[n - 1], s[n]) ELSE upto[n - 1]]
                <=> Selects(upto, s, G, Len(s))
  BY <1>3 DEF Selects
<1>5. \E upto : Selects(upto, s, G, Len(s))
  BY <1>2, SelectsExist
<1>6. Selects(u, s, G, Len(s))
  BY <1>4, <1>5
<1> HIDE DEF u
<1>7. Picks(u[Len(s)], s, G)
  BY <1>6, SelectsPick DEF IsSeq
<1> QED BY <1>1, <1>7

LEMMA PairsPick ==
  ASSUME NEW s, IsSeq(s)
  PROVE  Picks(Select(s, LAMBDA p : Len(p.a) >= 2 /\ Len(p.b) >= 2), s,
               {n \in DOMAIN s : Len(s[n].a) >= 2 /\ Len(s[n].b) >= 2})
<1> DEFINE u == CHOOSE upto : upto = [n \in 0 .. Len(s) |->
                  IF n = 0 THEN <<>>
                  ELSE IF Len(s[n].a) >= 2 /\ Len(s[n].b) >= 2
                       THEN Append(upto[n - 1], s[n]) ELSE upto[n - 1]]
           G == {n \in DOMAIN s : Len(s[n].a) >= 2 /\ Len(s[n].b) >= 2}
<1>1. Select(s, LAMBDA p : Len(p.a) >= 2 /\ Len(p.b) >= 2) = u[Len(s)]
  BY SMT DEF Select
<1>2. Len(s) \in Nat /\ DOMAIN s = 1 .. Len(s)
  BY DEF IsSeq
<1>3. \A n \in 0 .. Len(s) : n # 0 => (n \in G <=> (Len(s[n].a) >= 2 /\ Len(s[n].b) >= 2))
  BY <1>2
<1> HIDE DEF G
<1>4. \A upto : upto = [n \in 0 .. Len(s) |->
                  IF n = 0 THEN <<>>
                  ELSE IF Len(s[n].a) >= 2 /\ Len(s[n].b) >= 2
                       THEN Append(upto[n - 1], s[n]) ELSE upto[n - 1]]
                <=> Selects(upto, s, G, Len(s))
  BY <1>3 DEF Selects
<1>5. \E upto : Selects(upto, s, G, Len(s))
  BY <1>2, SelectsExist
<1>6. Selects(u, s, G, Len(s))
  BY <1>4, <1>5
<1> HIDE DEF u
<1>7. Picks(u[Len(s)], s, G)
  BY <1>6, SelectsPick DEF IsSeq
<1> QED BY <1>1, <1>7 DEF G

\* The values that a metric compares.
LEMMA ValuesTyped ==
  ASSUME NEW its, NEW O, Collected(its, O), NEW s \in {"A", "B"}, NEW id \in IdsOf(its),
         NEW metric \in METRICS
  PROVE  /\ IsSeq(AnswersIn(O, s, id)) /\ IsSeq(ValuesIn(O, metric, s, id))
         /\ metric # "agreement" => ToSet(ValuesIn(O, metric, s, id)) \subseteq Int
<1>1. PICK q : q = O[s][id]
  OBVIOUS
<1>2. IsSeq(q) /\ \A o \in ToSet(q) : Sound(o)
  BY <1>1 DEF Collected
<1>3. PICK r : r = AnswersIn(O, s, id)
  OBVIOUS
<1>4. Picks(r, q, {n \in DOMAIN q : Valid(q[n])})
  BY <1>1, <1>2, <1>3, AnswersPick DEF AnswersIn
<1>5. IsSeq(r)
  BY <1>4, SeqWithin DEF Picks
<1>6. \A j \in DOMAIN r : Valid(r[j]) /\ Sound(r[j])
  BY <1>2, <1>4 DEF Picks, ToSet
<1>7. PICK v : v = [i \in DOMAIN r |-> ValueOf(metric, r[i])]
  OBVIOUS
<1>8. IsSeq(v) /\ DOMAIN v = DOMAIN r
  <2>1. PICK L : L = Len(r)
    OBVIOUS
  <2>2. L \in Nat /\ DOMAIN r = 1 .. L
    BY <1>5, <2>1 DEF IsSeq
  <2>3. v = [i \in 1 .. L |-> v[i]]
    BY <1>7, <2>2
  <2> QED BY <2>2, <2>3, ListSeq
<1>9. PICK w : w = Select(v, LAMBDA x : x # None)
  OBVIOUS
<1>10. Picks(w, v, {n \in DOMAIN v : v[n] # None})
  BY <1>8, <1>9, PresentPick
<1>11. IsSeq(w)
  BY <1>10, SeqWithin DEF Picks
<1>12. ValuesIn(O, metric, s, id) = w
  BY <1>3, <1>7, <1>9 DEF ValuesIn
<1>13. ASSUME metric # "agreement"
       PROVE  ToSet(w) \subseteq Int
  <2>1. \A i \in DOMAIN v : v[i] \in Int \cup {None}
    BY <1>6, <1>7, <1>8, <1>13 DEF ValueOf, Sound
  <2>2. \A j \in DOMAIN w : w[j] \in Int
    BY <1>10, <2>1 DEF Picks
  <2> QED BY <2>2 DEF ToSet
<1> QED BY <1>3, <1>5, <1>11, <1>12, <1>13

\* e has pairs of values of the items its, of different items each.
PairsOf(e, its, O, m) ==
  /\ IsSeq(e)
  /\ \E k : /\ \A j \in DOMAIN e :
                 /\ k[j] \in DOMAIN its
                 /\ e[j].a = ValuesIn(O, m, "A", its[k[j]].id)
                 /\ e[j].b = ValuesIn(O, m, "B", its[k[j]].id)
                 /\ Len(e[j].a) >= 2 /\ Len(e[j].b) >= 2
            /\ \A i, j \in DOMAIN e : k[i] = k[j] => i = j

LEMMA EligiblePairs ==
  ASSUME NEW m, IsSeq(items)
  PROVE  PairsOf(Eligible(m), items, obs, m)
<1>1. PICK asked : asked = AskedItems(items, m)
  OBVIOUS
<1>2. PICK G : Picks(asked, items, G)
  BY <1>1, AskedPick
<1>3. PICK g : /\ \A j \in DOMAIN asked : g[j] \in DOMAIN items /\ asked[j] = items[g[j]]
               /\ \A j, k \in DOMAIN asked : g[j] = g[k] => j = k
  BY <1>2 DEF Picks
<1>4. IsSeq(asked)
  BY <1>2, SeqWithin DEF Picks
<1>5. PICK pairs : pairs = [i \in DOMAIN asked |-> [a |-> Values(m, "A", asked[i].id),
                                                    b |-> Values(m, "B", asked[i].id)]]
  OBVIOUS
<1>6. IsSeq(pairs) /\ DOMAIN pairs = DOMAIN asked
  <2>1. PICK L : L = Len(asked)
    OBVIOUS
  <2>2. L \in Nat /\ DOMAIN asked = 1 .. L
    BY <1>4, <2>1 DEF IsSeq
  <2>3. pairs = [i \in 1 .. L |-> pairs[i]]
    BY <1>5, <2>2
  <2> QED BY <2>2, <2>3, ListSeq
<1>7. PICK e : e = Select(pairs, LAMBDA p : Len(p.a) >= 2 /\ Len(p.b) >= 2)
  OBVIOUS
<1>8. Eligible(m) = e
  BY <1>1, <1>5, <1>7 DEF Eligible, AskedItems
<1>9. Picks(e, pairs, {n \in DOMAIN pairs : Len(pairs[n].a) >= 2 /\ Len(pairs[n].b) >= 2})
  BY <1>6, <1>7, PairsPick
<1>10. IsSeq(e)
  BY <1>9, SeqWithin DEF Picks
<1>11. PICK h : /\ \A j \in DOMAIN e : /\ h[j] \in DOMAIN pairs /\ e[j] = pairs[h[j]]
                                       /\ Len(e[j].a) >= 2 /\ Len(e[j].b) >= 2
                /\ \A j, k \in DOMAIN e : h[j] = h[k] => j = k
  BY <1>9 DEF Picks
<1>12. \A s, id : Values(m, s, id) = ValuesIn(obs, m, s, id)
  BY DEF Values, ValuesIn, Answers, AnswersIn
<1> DEFINE k == [j \in DOMAIN e |-> g[h[j]]]
<1>13. ASSUME NEW j \in DOMAIN e
       PROVE  /\ k[j] \in DOMAIN items
              /\ e[j].a = ValuesIn(obs, m, "A", items[k[j]].id)
              /\ e[j].b = ValuesIn(obs, m, "B", items[k[j]].id)
              /\ Len(e[j].a) >= 2 /\ Len(e[j].b) >= 2
  <2>1. PICK i : i = h[j]
    OBVIOUS
  <2>2. i \in DOMAIN asked /\ e[j] = pairs[i] /\ Len(e[j].a) >= 2 /\ Len(e[j].b) >= 2
    BY <1>6, <1>11, <2>1
  <2>3. k[j] = g[i] /\ g[i] \in DOMAIN items /\ asked[i] = items[g[i]]
    BY <1>3, <2>1, <2>2
  <2>4. /\ pairs[i].a = Values(m, "A", asked[i].id)
        /\ pairs[i].b = Values(m, "B", asked[i].id)
    BY <1>5, <2>2
  <2> HIDE DEF k
  <2> QED BY <1>12, <2>2, <2>3, <2>4
<1>14. \A i, j \in DOMAIN e : k[i] = k[j] => i = j
  BY <1>3, <1>6, <1>11
<1> HIDE DEF k
<1>15. PairsOf(e, items, obs, m)
  BY <1>10, <1>13, <1>14 DEF PairsOf
<1> QED BY <1>8, <1>15

\* As many items can be compared as there are pairs.
LEMMA PairsComparable ==
  ASSUME NEW its, Suite(its), NEW O, NEW m, NEW e, PairsOf(e, its, O, m)
  PROVE  /\ IsFiniteSet(Comparable(its, O, m))
         /\ Len(e) <= Cardinality(Comparable(its, O, m))
<1>1. PICK k : /\ \A j \in DOMAIN e :
                    /\ k[j] \in DOMAIN its
                    /\ e[j].a = ValuesIn(O, m, "A", its[k[j]].id)
                    /\ e[j].b = ValuesIn(O, m, "B", its[k[j]].id)
                    /\ Len(e[j].a) >= 2 /\ Len(e[j].b) >= 2
               /\ \A i, j \in DOMAIN e : k[i] = k[j] => i = j
  BY DEF PairsOf
<1>2. Len(e) \in Nat /\ DOMAIN e = 1 .. Len(e)
  BY DEF PairsOf, IsSeq
<1>3. PICK E : E = DOMAIN e
  OBVIOUS
<1>4. IsFiniteSet(E) /\ Cardinality(E) = Len(e)
  <2>1. PICK n \in Nat : n = Len(e)
    BY <1>2
  <2>2. 1 \in Int /\ n \in Int
    OBVIOUS
  <2>3. IsFiniteSet(1 .. n) /\ Cardinality(1 .. n) = IF 1 > n THEN 0 ELSE n - 1 + 1
    BY <2>2, FS_Interval
  <2>4. Cardinality(1 .. n) = n
    BY <2>3
  <2> QED BY <1>2, <1>3, <2>1, <2>3, <2>4
<1> DEFINE f == [j \in E |-> its[k[j]]]
           T == {f[j] : j \in E}
<1>5. f \in [E -> T] /\ \A z \in T : \E j \in E : f[j] = z
  OBVIOUS
<1>6. \A i, j \in E : f[i] = f[j] => i = j
  BY <1>1, <1>3 DEF Suite
<1>7. ASSUME NEW j \in E
      PROVE  f[j] \in Comparable(its, O, m)
  <2>1. k[j] \in DOMAIN its /\ f[j] = its[k[j]]
    BY <1>1, <1>3
  <2>2. f[j] \in ToSet(its)
    BY <2>1 DEF ToSet
  <2>3. Len(ValuesIn(O, m, "A", f[j].id)) >= 2 /\ Len(ValuesIn(O, m, "B", f[j].id)) >= 2
    BY <1>1, <1>3, <2>1
  <2> HIDE DEF f
  <2> QED BY <2>2, <2>3, SidesAre DEF Comparable
<1>8. T \in SUBSET Comparable(its, O, m)
  BY <1>7
<1> HIDE DEF f, T
<1>9. IsFiniteSet(T) /\ Cardinality(T) = Cardinality(E)
  BY <1>4, <1>5, <1>6, OneToOne
<1>10. IsFiniteSet(Comparable(its, O, m))
  <2>1. IsFiniteSet(ToSet(its))
    <3>1. PICK n, D : n = Len(its) /\ D = DOMAIN its
      OBVIOUS
    <3>2. n \in Int /\ 1 \in Int /\ D = 1 .. n
      BY <3>1 DEF Suite, IsSeq
    <3>3. IsFiniteSet(D)
      BY <3>2, FS_Interval
    <3>4. ToSet(its) = {its[i] : i \in D}
      BY <3>1 DEF ToSet
    <3> QED BY <3>3, <3>4, ValuesFinite
  <2>2. Comparable(its, O, m) \subseteq ToSet(its)
    BY DEF Comparable
  <2> QED BY <2>1, <2>2, FS_Subset
<1>11. Cardinality(T) <= Cardinality(Comparable(its, O, m))
  BY <1>8, <1>10, FS_Subset
<1> QED BY <1>4, <1>9, <1>10, <1>11

\* Items that both sides answer alike are never called different.
LEMMA AlikePairs ==
  ASSUME NEW its, NEW O, Collected(its, O), NEW m \in METRICS, NEW e, PairsOf(e, its, O, m),
         ~ToldApart(its, O, m)
  PROVE  ~MayBeSignificant(m, e)
<1>1. PICK k : \A j \in DOMAIN e :
                    /\ k[j] \in DOMAIN its
                    /\ e[j].a = ValuesIn(O, m, "A", its[k[j]].id)
                    /\ e[j].b = ValuesIn(O, m, "B", its[k[j]].id)
                    /\ Len(e[j].a) >= 2 /\ Len(e[j].b) >= 2
  BY DEF PairsOf
<1>2. IsFiniteSet(DOMAIN e)
  <2>1. PICK n : n = Len(e)
    OBVIOUS
  <2>2. n \in Int /\ 1 \in Int /\ DOMAIN e = 1 .. n
    BY <2>1 DEF PairsOf, IsSeq
  <2> QED BY <2>2, FS_Interval
<1>3. ASSUME NEW j \in DOMAIN e
      PROVE  NoSmaller(m, e[j].a, e[j].b)
  <2>1. PICK a, b, it : a = e[j].a /\ b = e[j].b /\ it = its[k[j]]
    OBVIOUS
  <2>2. /\ it \in ToSet(its) /\ it.id \in IdsOf(its)
        /\ a = ValuesIn(O, m, "A", it.id) /\ b = ValuesIn(O, m, "B", it.id)
        /\ Len(a) >= 2 /\ Len(b) >= 2
    BY <1>1, <2>1 DEF ToSet, IdsOf
  <2>3. /\ IsSeq(a) /\ IsSeq(b)
        /\ m # "agreement" => ToSet(a) \subseteq Int /\ ToSet(b) \subseteq Int
    BY <2>2, ValuesTyped
  <2>4. Sampled(m, a, b)
    BY <2>2, <2>3 DEF Sampled, IsSeq
  <2>5. ASSUME NEW x \in ToSet(a \o b)
        PROVE  Times(a, x) * Len(b) = Times(b, x) * Len(a)
    <3>1. PICK p, q : p = ShareIn(O, m, "A", it.id, x) /\ q = ShareIn(O, m, "B", it.id, x)
      OBVIOUS
    <3>2. p = <<Times(a, x), Len(a)>> /\ q = <<Times(b, x), Len(b)>>
      BY <2>2, <3>1 DEF ShareIn, Times, Quantify
    <3>3. p[1] * q[2] = q[1] * p[2]
      BY <2>2, <2>5, <3>1, SidesAre DEF ToldApart
    <3> QED BY <3>2, <3>3
  <2>6. SameShares(a, b)
    BY <2>5 DEF SameShares
  <2>7. NoSmaller(m, a, b)
    BY <2>4, <2>6, AlikeItem
  <2> QED BY <2>1, <2>7
<1> QED BY <1>2, <1>3, NeverSignificant

\* The answers of a side.
AnswersCount(O, s, S) == MapThenSumSet(LAMBDA it : Len(AnswersIn(O, s, it.id)), S)

LEMMA AnswersSum ==
  ASSUME NEW O, NEW s, NEW S, IsFiniteSet(S), NEW F,
         \A it \in S : F[it] = Len(AnswersIn(O, s, it.id)) /\ F[it] \in Int
  PROVE  AnswersCount(O, s, S) = SumOf(F, S)
<1> DEFINE IsSum(sum) == sum = [T \in SUBSET S |->
                  IF T = {} THEN 0
                  ELSE LET x == CHOOSE y \in T : TRUE
                       IN  Len(AnswersIn(O, s, x.id)) + sum[T \ {x}]]
           g == CHOOSE sum : IsSum(sum)
<1>1. AnswersCount(O, s, S) = g[S]
  BY SMT DEF AnswersCount, MapThenSumSet, MapThenFoldSet
<1>2. PICK h : Sums(h, F, S)
  BY SumsExist
<1>3. \A T \in SUBSET S : T # {} => Some(T) \in S
  BY DEF Some
<1>4. \A sum : IsSum(sum) <=> Sums(sum, F, S)
  BY <1>3 DEF Sums, Some
<1>5. Sums(g, F, S)
  <2> HIDE DEF IsSum
  <2>1. IsSum(h)
    BY <1>2, <1>4
  <2>2. IsSum(g)
    BY <2>1
  <2> HIDE DEF g
  <2> QED BY <1>4, <2>2
<1> HIDE DEF g
<1>6. g[S] = SumOf(F, S)
  BY <1>5, SumOfIs
<1> QED BY <1>1, <1>6

\* Failures, as a function of what the state holds.
FailuresIn(O, s, S) ==
  MapThenSumSet(LAMBDA it : Len(O[s][it.id]) - Len(AnswersIn(O, s, it.id)), S)

FailuresAt(O, s, it) == Len(O[s][it.id]) - Len(AnswersIn(O, s, it.id))

LEMMA FailuresSum ==
  ASSUME NEW O, NEW s, NEW S, IsFiniteSet(S), NEW F,
         \A it \in S : F[it] = FailuresAt(O, s, it) /\ F[it] \in Int
  PROVE  FailuresIn(O, s, S) = SumOf(F, S)
<1> DEFINE IsSum(sum) == sum = [T \in SUBSET S |->
                  IF T = {} THEN 0
                  ELSE LET x == CHOOSE y \in T : TRUE
                       IN  FailuresAt(O, s, x) + sum[T \ {x}]]
           g == CHOOSE sum : IsSum(sum)
<1>1. FailuresIn(O, s, S) = g[S]
  BY SMT DEF FailuresIn, FailuresAt, MapThenSumSet, MapThenFoldSet
<1>2. PICK h : Sums(h, F, S)
  BY SumsExist
<1>3. \A T \in SUBSET S : T # {} => Some(T) \in S
  BY DEF Some
<1>4. \A sum : IsSum(sum) <=> Sums(sum, F, S)
  BY <1>3 DEF Sums, Some
<1>5. Sums(g, F, S)
  <2> HIDE DEF IsSum
  <2>1. IsSum(h)
    BY <1>2, <1>4
  <2>2. IsSum(g)
    BY <2>1
  <2> HIDE DEF g
  <2> QED BY <1>4, <2>2
<1> HIDE DEF g
<1>6. g[S] = SumOf(F, S)
  BY <1>5, SumOfIs
<1> QED BY <1>1, <1>6

\* The answers of a side and its failures are what it was asked.
LEMMA AnswersAndFailures ==
  ASSUME NEW its, Suite(its), NEW O, Collected(its, O), NEW s \in {"A", "B"}, NEW R \in Nat,
         \A id \in IdsOf(its) : Len(O[s][id]) = R
  PROVE  \E A, B \in Int :
           /\ A = AnswersCount(O, s, ToSet(its))
           /\ B = FailuresIn(O, s, ToSet(its))
           /\ A + B = R * Len(its)
<1>1. PICK S, D, n : S = ToSet(its) /\ D = DOMAIN its /\ n = Len(its)
  OBVIOUS
<1>2. n \in Nat /\ D = 1 .. n /\ S = {its[i] : i \in D}
  BY <1>1 DEF Suite, IsSeq, ToSet
<1>3. IsFiniteSet(D) /\ Cardinality(D) = n
  <2>1. 1 \in Int /\ n \in Int
    BY <1>2
  <2>2. IsFiniteSet(1 .. n) /\ Cardinality(1 .. n) = IF 1 > n THEN 0 ELSE n - 1 + 1
    BY <2>1, FS_Interval
  <2>3. Cardinality(1 .. n) = n
    BY <1>2, <2>2
  <2> QED BY <1>2, <2>2, <2>3
<1>4. IsFiniteSet(S) /\ Cardinality(S) = n
  <2> DEFINE f == [i \in D |-> its[i]]
  <2>1. f \in [D -> S] /\ (\A z \in S : \E i \in D : f[i] = z)
    BY <1>2
  <2>2. \A i, j \in D : f[i] = f[j] => i = j
    BY <1>1 DEF Suite
  <2> HIDE DEF f
  <2> QED BY <1>3, <2>1, <2>2, OneToOne
<1>5. ASSUME NEW it \in S
      PROVE  Len(O[s][it.id]) = R /\ Len(AnswersIn(O, s, it.id)) \in Int
  <2>1. it.id \in IdsOf(its)
    BY <1>1, <1>2 DEF IdsOf
  <2>2. IsSeq(AnswersIn(O, s, it.id))
    <3>1. "agreement" \in METRICS
      BY DEF METRICS
    <3> QED BY <2>1, <3>1, ValuesTyped
  <2>3. Len(AnswersIn(O, s, it.id)) \in Nat
    BY <2>2 DEF IsSeq
  <2> QED BY <2>1, <2>3
<1> DEFINE F == [it \in S |-> Len(AnswersIn(O, s, it.id))]
           H == [it \in S |-> Len(O[s][it.id]) - Len(AnswersIn(O, s, it.id))]
           K == [it \in S |-> R]
<1>6. \A it \in S : F[it] = Len(AnswersIn(O, s, it.id)) /\ F[it] \in Int
  BY <1>5
<1>7. ASSUME NEW it \in S
      PROVE  /\ H[it] = Len(O[s][it.id]) - Len(AnswersIn(O, s, it.id)) /\ H[it] \in Int
             /\ K[it] = F[it] + H[it] /\ K[it] = R
  <2>1. PICK x, y : x = Len(O[s][it.id]) /\ y = Len(AnswersIn(O, s, it.id))
    OBVIOUS
  <2>2. x = R /\ y \in Int /\ F[it] = y /\ H[it] = x - y /\ K[it] = R
    BY <1>5, <2>1
  <2> HIDE DEF F, H, K
  <2> QED BY <2>1, <2>2
<1> HIDE DEF F, H, K
<1>8. AnswersCount(O, s, S) = SumOf(F, S)
  BY <1>4, <1>6, AnswersSum
<1>9. FailuresIn(O, s, S) = SumOf(H, S)
  <2>1. \A it \in S : H[it] = FailuresAt(O, s, it) /\ H[it] \in Int
    BY <1>7 DEF FailuresAt
  <2> QED BY <1>4, <2>1, FailuresSum
<1>10. SumOf(K, S) = SumOf(F, S) + SumOf(H, S)
  BY <1>4, <1>6, <1>7, SumAdds
<1>11. SumOf(K, S) = R * Cardinality(S)
  <2>1. R \in Int
    OBVIOUS
  <2> QED BY <1>4, <1>7, <2>1, SumConstant
<1>12. SumOf(F, S) \in Int /\ SumOf(H, S) \in Int
  <2>1. S \in SUBSET S
    OBVIOUS
  <2>2. SumOf(F, S) \in Int
    BY <1>4, <1>6, <2>1, SumParts
  <2>3. SumOf(H, S) \in Int
    BY <1>4, <1>7, <2>1, SumParts
  <2> QED BY <2>2, <2>3
<1> QED BY <1>1, <1>4, <1>8, <1>9, <1>10, <1>11, <1>12

LEMMA EnoughAnswers ==
  ASSUME NEW A \in Int, NEW B \in Int, NEW R \in Int, NEW n \in Int, NEW limit \in Int,
         A + B = R * n, 100 * B <= limit * R * n
  PROVE  100 * A >= (100 - limit) * R * n
<1> DEFINE y == R * n
           z == limit * R * n
<1>1. (100 - limit) * R * n = 100 * y - z /\ y \in Int /\ z \in Int
  OBVIOUS
<1>2. A + B = y /\ 100 * B <= z
  OBVIOUS
<1> HIDE DEF y, z
<1> QED BY <1>1, <1>2

LEMMA VerdictStep ==
  ASSUME CompareInv, VerdictEarned, [CompareNext]_compareVars
  PROVE  VerdictEarned'
<1>1. ASSUME WriteReport, NEW m \in CompareMetrics, report'.verdict[m] = "CHANGED"
      PROVE  EarnedIn(items, repeats, obs, m)
  <2>1. PICK significant \in SUBSET {x \in CompareMetrics : MayBeSignificant(x, Eligible(x))} :
          report'.verdict = [x \in CompareMetrics |-> EvaluateMetric(x, x \in significant)]
    BY <1>1, ReportIs
  <2>2. EvaluateMetric(m, m \in significant) = "CHANGED"
    BY <1>1, <2>1
  <2>3. /\ Measured("A") /\ Measured("B") /\ ~(Len(Eligible(m)) < MinItems)
        /\ m \in significant
    BY <2>2 DEF EvaluateMetric
  <2>4. MayBeSignificant(m, Eligible(m)) /\ m \in METRICS
    BY <2>1, <2>3, CompareAssumption
  <2>5. Suite(items) /\ Collected(items, obs) /\ IsSeq(items)
    BY DEF CompareInv, Suite
  <2>6. /\ repeats \in Nat
        /\ \A s \in {"A", "B"} : \A id \in IdsOf(items) : Len(obs[s][id]) = repeats
    <3>1. cstage = "report"
      BY <1>1 DEF WriteReport
    <3>2. Len(items) >= 1
      BY <3>1 DEF CompareInv, Progress
    <3> QED BY <3>1, <3>2, PlaceOfComparison
  <2>7. PICK e : e = Eligible(m)
    OBVIOUS
  <2>8. PairsOf(e, items, obs, m)
    BY <2>5, <2>7, EligiblePairs
  <2>9. MinItems <= Cardinality(Comparable(items, obs, m))
    <3>1. Len(e) <= Cardinality(Comparable(items, obs, m))
      BY <2>5, <2>8, PairsComparable
    <3>2. Len(e) \in Nat /\ MinItems <= Len(e)
      BY <2>3, <2>7, <2>8, CompareAssumption DEF PairsOf, IsSeq
    <3>3. Cardinality(Comparable(items, obs, m)) \in Nat
      BY <2>5, <2>8, PairsComparable, FS_CardinalityType
    <3> QED BY <3>1, <3>2, <3>3, CompareAssumption
  <2>10. ToldApart(items, obs, m)
    BY <2>4, <2>5, <2>7, <2>8, AlikePairs
  <2>11. ASSUME NEW s \in {"A", "B"}
         PROVE  100 * AnswersCount(obs, s, ToSet(items))
                  >= (100 - FailureLimit) * repeats * Len(items)
    <3>1. 100 * Failures(s) <= FailureLimit * repeats * Len(items)
      BY <2>3 DEF Measured
    <3>2. Failures(s) = FailuresIn(obs, s, ToSet(items))
      BY DEF Failures, FailuresIn, Answers, AnswersIn
    <3>3. PICK A, B \in Int :
           /\ A = AnswersCount(obs, s, ToSet(items))
           /\ B = FailuresIn(obs, s, ToSet(items))
           /\ A + B = repeats * Len(items)
      <4>1. repeats \in Nat /\ \A id \in IdsOf(items) : Len(obs[s][id]) = repeats
        BY <2>6
      <4>2. Suite(items) /\ Collected(items, obs)
        BY <2>5
      <4> HIDE DEF CompareInv
      <4> QED BY <4>1, <4>2, AnswersAndFailures
    <3>4. PICK R, n, limit : R = repeats /\ n = Len(items) /\ limit = FailureLimit
      OBVIOUS
    <3>5. R \in Int /\ n \in Int /\ limit \in Int
      BY <2>5, <2>6, <3>4, CompareAssumption DEF IsSeq
    <3>6. A + B = R * n /\ 100 * B <= limit * R * n
      <4>1. A + B = R * n
        BY <3>3, <3>4
      <4>2. 100 * B <= limit * R * n
        BY <3>1, <3>2, <3>3, <3>4
      <4> QED BY <4>1, <4>2
    <3>7. 100 * A >= (100 - limit) * R * n
      BY <3>5, <3>6, EnoughAnswers
    <3> QED BY <3>3, <3>4, <3>7
  <2>12. AnsweredEnough(items, repeats, obs)
    BY <2>11, SidesAre DEF AnsweredEnough, AnswersCount
  <2> QED BY <2>9, <2>10, <2>12 DEF EarnedIn
<1>2. CASE WriteReport
  <2>1. items' = items /\ repeats' = repeats /\ obs' = obs
    BY <1>2 DEF WriteReport
  <2> QED BY <1>1, <1>2, <2>1, VerdictIsNext
<1>3. CASE ~WriteReport /\ report' = None
  BY <1>3, VerdictIsNext
<1>4. CASE ~WriteReport /\ UNCHANGED compareVars
  <2>1. items' = items /\ repeats' = repeats /\ obs' = obs /\ report' = report
    BY <1>4 DEF compareVars
  <2> QED BY <2>1, VerdictIs, VerdictIsNext
<1> QED BY <1>2, <1>3, <1>4, Reporting

\* Every observation and every call of a comparison is accounted for by the
\* place it stands at, for every suite file, repeat count and endpoint.
THEOREM CompareInvariant == CompareSpec => []CompareInv
<1>1. CompareInit => CompareInv
  BY InitStep
<1>2. CompareInv /\ [CompareNext]_compareVars => CompareInv'
  BY CompareStep
<1> QED BY <1>1, <1>2, PTL DEF CompareSpec

\* A comparison never asks past its last question, and a side has one
\* observation for each of its turns.
THEOREM CompareTypeCorrect == CompareSpec => []CompareTypeOK
<1>1. CompareInv => CompareTypeOK
  BY InvTypeOK
<1> QED BY <1>1, CompareInvariant, PTL

\* compare.py reports CHANGED only over enough answers of sides that do not
\* answer alike, says of a side that it ran at the provider's temperature only
\* if it did, and never sends more requests than the retries allow.
THEOREM ReportIsHonest == CompareSpec => []HonestReport
<1>1. CompareInit => VerdictEarned /\ TemperatureStated
  BY DEF CompareInit, VerdictEarned, TemperatureStated
<1>2. CompareInv /\ VerdictEarned /\ TemperatureStated /\ [CompareNext]_compareVars
        => VerdictEarned' /\ TemperatureStated'
  BY VerdictStep, TemperatureStep
<1>3. CompareInv => CallsBounded
  BY InvCallsBounded
<1>4. HonestReport <=> VerdictEarned /\ TemperatureStated /\ CallsBounded
  BY DEF HonestReport
<1> QED BY <1>1, <1>2, <1>3, <1>4, CompareInvariant, PTL DEF CompareSpec

-----------------------------------------------------------------------------
(* The command-line tools.                                                 *)

ToolsInv ==
  /\ tool \in {"run", "leg", "compare"}
  /\ WholeLeg
  /\ CompareInv /\ VerdictEarned /\ TemperatureStated

LEMMA ToolsInvInit == ToolsInit => ToolsInv
<1> SUFFICES ASSUME ToolsInit PROVE ToolsInv
  OBVIOUS
<1>1. WholeLeg
  BY WholeLegInit DEF ToolsInit
<1>2. CompareInv
  BY InitStep DEF ToolsInit
<1>3. VerdictEarned /\ TemperatureStated
  BY DEF ToolsInit, CompareInit, VerdictEarned, TemperatureStated
<1> QED BY <1>1, <1>2, <1>3 DEF ToolsInit, ToolsInv

\* A run of its own leaves the legs alone.
LEMMA WholeLegRunner ==
  ASSUME WholeLeg, [RunnerNext]_runnerVars, UNCHANGED legVars
  PROVE  WholeLeg'
<1>1. RunnerInv'
  BY RunnerInvStep DEF WholeLeg
<1>2. LegInv /\ UNCHANGED <<leg, runs, entries, backlog, aside, made, held, exit, trouble>>
  BY DEF WholeLeg, legVars
<1>3. LegTypes'
  BY <1>2 DEF LegInv, LegTypes, LegTypeOK
<1>4. Batches'
  BY <1>2 DEF LegInv, Batches
<1>5. Answerable'
  BY <1>2 DEF LegInv, Answerable, ExitIsTruth
<1>6. InTurn'
  BY <1>2 DEF LegInv, InTurn
<1> QED BY <1>1, <1>3, <1>4, <1>5, <1>6 DEF WholeLeg, LegInv

LEMMA ToolsInvStep == ToolsInv /\ [ToolsNext]_toolsVars => ToolsInv'
<1> SUFFICES ASSUME ToolsInv, [ToolsNext]_toolsVars PROVE ToolsInv'
  OBVIOUS
<1>1. /\ tool \in {"run", "leg", "compare"}
      /\ WholeLeg /\ CompareInv /\ VerdictEarned /\ TemperatureStated
  BY DEF ToolsInv
<1>2. tool' = tool
  BY DEF ToolsNext, toolsVars
<1>3. [CompareNext]_compareVars
  BY DEF ToolsNext, toolsVars
<1>4. CompareInv' /\ VerdictEarned' /\ TemperatureStated'
  BY <1>1, <1>3, CompareStep, VerdictStep, TemperatureStep
<1>5. WholeLeg'
  <2>1. CASE [LegNext]_liveVars
    BY <1>1, <2>1, WholeLegStep
  <2>2. CASE [RunnerNext]_runnerVars /\ UNCHANGED legVars
    BY <1>1, <2>2, WholeLegRunner
  <2>3. [LegNext]_liveVars \/ ([RunnerNext]_runnerVars /\ UNCHANGED legVars)
    BY DEF ToolsNext, toolsVars, liveVars
  <2> QED BY <2>1, <2>2, <2>3
<1> QED BY <1>1, <1>2, <1>4, <1>5 DEF ToolsInv

LEMMA ToolsInvariant == ToolsSpec => []ToolsInv
  BY ToolsInvInit, ToolsInvStep, PTL DEF ToolsSpec

\* A run, a leg and a comparison keep the types of their variables: a turn of
\* a comparison never passes its last question, a leg never counts more
\* batches than it made.
THEOREM ToolsTypeCorrect == ToolsSpec => []ToolsTypeOK
<1>1. ToolsInv => ToolsTypeOK
  BY InvTypeOK DEF ToolsInv, WholeLeg, RunnerInv, LegInv, LegTypes, ToolsTypeOK
<1> QED BY <1>1, ToolsInvariant, PTL

\* Whichever tool a process is, only whole runs leave it, its added waits stay
\* inside the pacing budget, its exit code is true, its batches arrive in
\* turn and its report is honest.
THEOREM ToolsCorrect ==
  ToolsSpec => [](/\ WholeRunsOnly /\ AddedTimeBounded /\ ExitIsTruth
                  /\ OlderFirst /\ HonestReport)
<1>1. ToolsInv => WholeRunsOnly /\ ExitIsTruth /\ OlderFirst
  BY WholeLegRuns, WholeLegExit, WholeLegOrder DEF ToolsInv
<1>2. ToolsInv => AddedTimeBounded
  BY DEF ToolsInv, WholeLeg, RunnerInv, TimeAccounted
<1>3. ToolsInv => HonestReport
  BY InvCallsBounded DEF ToolsInv, HonestReport
<1> QED BY <1>1, <1>2, <1>3, ToolsInvariant, PTL
=============================================================================
