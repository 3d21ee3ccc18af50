---------------------------- MODULE ProbeDelivery ----------------------------
(***************************************************************************)
(* How canary results reach the gateway: Aggregator (probe/privacy.py),    *)
(* ProbeSDK.flush (probe/sdk.py), Spool (probe/spool.py), a network that   *)
(* loses and delays, and the gateway's duplicate check (gateway/main.py).  *)
(*                                                                         *)
(* A batch is the set of results it aggregates; its id is its place in     *)
(* built.  The spool is a set of files; their names sort by the time they  *)
(* were put and then by a random id.                                       *)
(***************************************************************************)
EXTENDS Integers, FiniteSets, SequencesExt

CONSTANTS
  Models, Suites,
  Canaries,     \* <<model, suite>>: the results callers stage
  Refused,      \* the models whose batches the gateway answers with a 4xx
  Modes,        \* how the probe may be set up: "plain", with a "spool", "dry"
  MaxFiles,     \* the spool's cap
  MaxAge,       \* the spool's age limit
  Gates,        \* what the pacing and budget gate may answer
  MaxResults,   \* bound: results ever staged
  MaxFaults,    \* bound: requests that go wrong and files that rot
  MaxStops,     \* bound: crashes
  MaxTime       \* bound: the clock

ASSUME DeliveryAssumption ==
  /\ Refused \subseteq Models
  /\ Canaries \subseteq Models \X Suites
  /\ Modes \subseteq {"plain", "spool", "dry"}
  /\ MaxFiles \in Nat \ {0} /\ MaxAge \in Nat \ {0}
  /\ Gates \subseteq {"open", "throttled", "exceeded"}
  /\ MaxResults \in Nat /\ MaxFaults \in Nat /\ MaxStops \in Nat
  /\ MaxTime \in Nat \ {0}

VARIABLES
  mode,        \* spool_dir and dry_run of this process
  resultsMade,        \* results staged so far
  staged,      \* Aggregator._pending
  pc,          \* where flush() is
  todo,        \* the models this flush has still to send
  hand,        \* the batch being sent, 0 if none
  queue,       \* the spooled entries this drain has still to try
  spool,       \* the files
  quarantine,  \* the quarantine directory
  built,       \* history: every batch ever signed
  stored,      \* the gateway's rows, in order of insertion
  late,        \* requests given up by the probe, still under way
  dropped,     \* batches given up with a line in the log
  faults, stops, clock

probeVars == <<staged, pc, todo, hand, queue>>
gatewayVars == <<stored, late, faults>>
vars == <<mode, resultsMade, probeVars, spool, quarantine, built, gatewayVars, dropped,
          stops, clock>>

NoBatch == 0

Result == [n : 1 .. MaxResults, suite : Suites]

File == [batch : DOMAIN built, at : 0 .. MaxTime, sound : BOOLEAN]

Init ==
  /\ mode \in Modes
  /\ resultsMade = 0
  /\ staged = [m \in Models |-> {}]
  /\ pc = "idle"
  /\ todo = {}
  /\ hand = NoBatch
  /\ queue = {}
  /\ spool = {}
  /\ quarantine = {}
  /\ built = <<>>
  /\ stored = <<>>
  /\ late = {}
  /\ dropped = {}
  /\ faults = 0
  /\ stops = 0
  /\ clock = 0

-----------------------------------------------------------------------------
(* The network and the gateway.                                            *)

Without(b) == {f \in spool : f.batch # b}

InSpool(b) == \E f \in spool : f.batch = b

StoredTwice(b) == Append(stored, b)

\* has_batch, then save_batch.
StoredOnce(b) == IF b \in ToSet(stored) THEN stored ELSE Append(stored, b)

\* What the gateway answers when nothing goes wrong.
Answer(b) ==
  IF built[b].model \in Refused THEN "refused"
  ELSE IF b \in ToSet(stored) THEN "duplicate" ELSE "accepted"

Kept(b) == IF built[b].model \in Refused THEN stored ELSE StoredOnce(b)

\* A POST that is answered.
AnsweredPost(b, status) ==
  /\ status = Answer(b)
  /\ stored' = Kept(b)
  /\ UNCHANGED <<late, faults>>

\* A 5xx, before or after the row was written, or a transport error: the
\* request is lost, its reply is lost, or it is still under way.
Faulty(b, status) ==
  /\ faults < MaxFaults
  /\ faults' = faults + 1
  /\ \/ /\ status \in {"error", "exception"}
        /\ stored' \in {stored, Kept(b)}
        /\ UNCHANGED late
     \/ /\ status = "exception"
        /\ late' = late \cup {b}
        /\ UNCHANGED stored

DeliveredOnError(status) == status # "refused" /\ status # "exception"

\* The probe may forget the batch.
Delivered(status) == status \in {"accepted", "duplicate"}

PermanentNever(status) == FALSE

\* Re-sending the same bytes cannot succeed.
Permanent(status) == status = "refused"

Post(b, status) == AnsweredPost(b, status) \/ Faulty(b, status)

\* A delayed request arrives after all; nobody waits for the answer.
Arrive(b) ==
  /\ b \in late
  /\ late' = late \ {b}
  /\ stored' = Kept(b)
  /\ UNCHANGED <<mode, resultsMade, probeVars, spool, quarantine, built, faults,
                 dropped, stops, clock>>

-----------------------------------------------------------------------------
(* The probe.                                                              *)

AddResult(m, su) ==
  /\ <<m, su>> \in Canaries
  /\ pc = "idle"
  /\ resultsMade < MaxResults
  /\ resultsMade' = resultsMade + 1
  /\ staged' = [staged EXCEPT ![m] = @ \cup {[n |-> resultsMade + 1, suite |-> su]}]
  /\ UNCHANGED <<mode, pc, todo, hand, queue, spool, quarantine, built,
                 gatewayVars, dropped, stops, clock>>

Expired(f) == clock - f.at > MaxAge

\* flush() begins with the backlog: _scan quarantines what it cannot read and
\* drops what has expired.  A dry run leaves the spool alone.
BeginFlush ==
  LET unsound == {f \in spool : ~ f.sound}
      expired == {f \in spool : f.sound /\ Expired(f)}
  IN  /\ pc = "idle"
      /\ pc' = "drain"
      /\ IF mode = "spool"
         THEN /\ spool' = spool \ (unsound \cup expired)
              /\ queue' = spool'
              /\ quarantine' = quarantine \cup {f.batch : f \in unsound}
              /\ dropped' = dropped \cup {f.batch : f \in expired}
         ELSE UNCHANGED <<spool, queue, quarantine, dropped>>
      /\ UNCHANGED <<mode, resultsMade, staged, todo, hand, built, gatewayVars,
                     stops, clock>>

\* The oldest entry of the drain; a 5xx or an exception ends it.
DrainEntry(f, status) ==
  /\ pc = "drain"
  /\ \A g \in queue : f.at <= g.at
  /\ Post(f.batch, status)
  /\ IF Delivered(status)
     THEN /\ spool' = Without(f.batch)
          /\ queue' = queue \ {f}
          /\ UNCHANGED quarantine
     ELSE IF Permanent(status)
     THEN /\ spool' = Without(f.batch)
          /\ quarantine' = quarantine \cup {f.batch}
          /\ queue' = queue \ {f}
     ELSE /\ queue' = {}
          /\ UNCHANGED <<spool, quarantine>>
  /\ UNCHANGED <<mode, resultsMade, staged, pc, todo, hand, built, dropped, stops,
                 clock>>

\* Pacing, then the privacy budget; an exhausted budget clears the queue.
Gate ==
  LET pending == {m \in Models : staged[m] # {}} IN
  /\ pc = "drain"
  /\ queue = {}
  /\ \/ /\ pending = {} \/ "throttled" \in Gates
        /\ pc' = "idle"
        /\ UNCHANGED <<staged, todo>>
     \/ /\ pending # {} /\ "exceeded" \in Gates
        /\ staged' = [m \in Models |-> {}]
        /\ pc' = "idle"
        /\ UNCHANGED todo
     \/ /\ pending # {} /\ "open" \in Gates
        /\ todo' = pending
        /\ pc' = "send"
        /\ UNCHANGED staged
  /\ UNCHANGED <<mode, resultsMade, hand, queue, spool, quarantine, built,
                 gatewayVars, dropped, stops, clock>>

Mixed(m) == \E r, q \in staged[m] : r.suite # q.suite

\* Aggregator.flush: the queue of m is cleared once its batch is valid; mixed
\* suites raise, and flush() ends there with the rest still staged.  A dry run
\* logs the batch and goes on.
Build(m) ==
  /\ pc = "send"
  /\ m \in todo
  /\ IF Mixed(m)
     THEN /\ pc' = "idle"
          /\ todo' = {}
          /\ UNCHANGED <<staged, hand, built, dropped>>
     ELSE /\ built' = Append(built, [model |-> m, results |-> staged[m]])
          /\ staged' = [staged EXCEPT ![m] = {}]
          /\ todo' = todo \ {m}
          /\ IF mode = "dry"
             THEN /\ dropped' = dropped \cup {Len(built')}
                  /\ UNCHANGED <<pc, hand>>
             ELSE /\ hand' = Len(built')
                  /\ pc' = "post"
                  /\ UNCHANGED dropped
  /\ UNCHANGED <<mode, resultsMade, queue, spool, quarantine, gatewayVars, stops,
                 clock>>

\* The POST: acknowledged, kept for later, or given up with an exception that
\* ends flush().
PostBatch(status) ==
  /\ pc = "post"
  /\ Post(hand, status)
  /\ IF Delivered(status)
     THEN /\ pc' = "send"
          /\ hand' = NoBatch
          /\ UNCHANGED <<todo, dropped>>
     ELSE IF mode = "spool" /\ ~ Permanent(status)
     THEN /\ pc' = "put"
          /\ UNCHANGED <<hand, todo, dropped>>
     ELSE /\ pc' = "idle"
          /\ hand' = NoBatch
          /\ todo' = {}
          /\ dropped' = dropped \cup {hand}
  /\ UNCHANGED <<mode, resultsMade, staged, queue, spool, quarantine, built, stops,
                 clock>>

PutInHand ==
  /\ pc = "put"
  /\ spool' = spool \cup {[batch |-> hand, at |-> clock, sound |-> TRUE]}
  /\ pc' = "cap"
  /\ UNCHANGED <<mode, resultsMade, staged, todo, hand, queue, quarantine, built,
                 gatewayVars, dropped, stops, clock>>

\* Spool.put: the file appears by an atomic rename.
Put ==
  /\ pc = "put"
  /\ spool' = spool \cup {[batch |-> hand, at |-> clock, sound |-> TRUE]}
  /\ hand' = NoBatch
  /\ pc' = "cap"
  /\ UNCHANGED <<mode, resultsMade, staged, todo, queue, quarantine, built,
                 gatewayVars, dropped, stops, clock>>

ExcessNone == 0

Excess ==
  IF Cardinality(spool) > MaxFiles THEN Cardinality(spool) - MaxFiles ELSE 0

\* _enforce_cap drops the oldest files.
EnforceCap ==
  /\ pc = "cap"
  /\ \E gone \in SUBSET spool :
       /\ Cardinality(gone) = Excess
       /\ \A f \in gone, g \in spool \ gone : f.at <= g.at
       /\ spool' = spool \ gone
       /\ dropped' = dropped \cup {f.batch : f \in gone}
  /\ pc' = "send"
  /\ UNCHANGED <<mode, resultsMade, staged, todo, hand, queue, quarantine, built,
                 gatewayVars, stops, clock>>

EndFlush ==
  /\ pc = "send"
  /\ todo = {}
  /\ pc' = "idle"
  /\ UNCHANGED <<mode, resultsMade, staged, todo, hand, queue, spool, quarantine,
                 built, gatewayVars, dropped, stops, clock>>

\* The process ends and another one starts, perhaps set up otherwise: only
\* files survive.
Crash ==
  /\ stops < MaxStops
  /\ stops' = stops + 1
  /\ mode' \in Modes
  /\ staged' = [m \in Models |-> {}]
  /\ pc' = "idle"
  /\ todo' = {}
  /\ queue' = {}
  /\ hand' = NoBatch
  /\ dropped' = IF hand = NoBatch THEN dropped ELSE dropped \cup {hand}
  /\ UNCHANGED <<resultsMade, spool, quarantine, built, gatewayVars, clock>>

\* A file is damaged on disk.  A flush is short, so this is between two.
Rot(f) ==
  /\ pc = "idle"
  /\ faults < MaxFaults
  /\ faults' = faults + 1
  /\ f.sound
  /\ spool' = (spool \ {f}) \cup {[f EXCEPT !.sound = FALSE]}
  /\ UNCHANGED <<mode, resultsMade, probeVars, quarantine, built, stored, late,
                 dropped, stops, clock>>

\* The wall clock goes on or is set back.
Tick ==
  /\ pc = "idle"
  /\ clock' \in 0 .. MaxTime
  /\ UNCHANGED <<mode, resultsMade, probeVars, spool, quarantine, built, gatewayVars,
                 dropped, stops>>

Statuses == {"accepted", "duplicate", "refused", "error", "exception"}

\* The steps of flush() itself.
Flush ==
  \/ Gate \/ Put \/ EnforceCap \/ EndFlush
  \/ \E status \in Statuses :
       PostBatch(status) \/ \E f \in queue : DrainEntry(f, status)
  \/ \E m \in Models : Build(m)

Next ==
  \/ BeginFlush \/ Flush \/ Crash \/ Tick
  \/ \E m \in Models, su \in Suites : AddResult(m, su)
  \/ \E b \in late : Arrive(b)
  \/ \E f \in spool : Rot(f)

Spec == Init /\ [][Next]_vars

\* The probe's loop calls flush() again and again and flush() runs to its end.
FairSpec == Spec /\ WF_vars(BeginFlush) /\ WF_vars(Flush)

-----------------------------------------------------------------------------

\* The shape of the probe, the files, the gateway's rows and the histories.
TypeOK ==
  /\ mode \in Modes
  /\ resultsMade \in 0 .. MaxResults
  /\ staged \in [Models -> SUBSET Result]
  /\ pc \in {"idle", "drain", "send", "post", "put", "cap"}
  /\ todo \subseteq Models
  /\ hand \in {NoBatch} \cup DOMAIN built
  /\ hand # NoBatch <=> pc \in {"post", "put"}
  /\ queue \subseteq File /\ spool \subseteq File
  /\ quarantine \subseteq DOMAIN built
  /\ built \in Seq([model : Models, results : SUBSET Result])
  /\ stored \in Seq(DOMAIN built)
  /\ late \subseteq DOMAIN built /\ dropped \subseteq DOMAIN built
  /\ faults \in 0 .. MaxFaults /\ stops \in 0 .. MaxStops
  /\ clock \in 0 .. MaxTime

\* A result is counted once: no two rows of the gateway hold the same result,
\* however often its batch is re-sent, spooled after a lost reply, or overtaken
\* by its own delayed request.
CountedOnce ==
  \A j, k \in DOMAIN stored :
    built[stored[j]].results \cap built[stored[k]].results # {} => j = k

\* No batch disappears in silence: whatever was signed is at the gateway, on
\* disk, in hand, or was given up with an error, an eviction or an expiry.
NoSilentLoss ==
  \A b \in DOMAIN built :
    \/ b \in ToSet(stored) \/ InSpool(b) \/ b = hand
    \/ b \in quarantine \/ b \in dropped

\* The spool stays at its cap: crashes between a put and its eviction add at
\* most one file each, and the next put takes them all back.
SpoolBounded ==
  Cardinality(spool) <= MaxFiles + stops + (IF pc = "cap" THEN 1 ELSE 0)

\* A spooled batch leaves the spool: delivered, quarantined, evicted or
\* expired, unless the probe is restarted without its spool.  One batch that
\* the gateway refuses for good does not hold up the ones behind it.
BacklogDrains ==
  \A b \in 1 .. MaxResults :
    (b \in DOMAIN built /\ InSpool(b)) ~>
      \/ b \in ToSet(stored) \/ b \in quarantine \/ b \in dropped
      \/ mode # "spool"
=============================================================================
