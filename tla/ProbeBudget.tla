----------------------------- MODULE ProbeBudget -----------------------------
(***************************************************************************)
(* The privacy gate of ProbeSDK.flush (probe/sdk.py): pacing, then the     *)
(* DPAccountant with its file, then the transmission.  The accountant's    *)
(* file survives the process; the pacing timestamp and the account in      *)
(* memory do not.                                                          *)
(***************************************************************************)
EXTENDS Budget, FiniteSets, Sequences

CONSTANTS
  MinIntervals,  \* values of min_flush_interval_seconds; 0 disables pacing
  MaxTime,       \* bound on the clock
  MaxStops       \* bound on crashes

ASSUME ProbeBudgetAssumption ==
  /\ MinIntervals \subseteq Nat
  /\ MaxTime \in Nat /\ MaxStops \in Nat

VARIABLES
  interval,  \* min_flush_interval_seconds of this probe
  reliable,  \* can the file always be written?
  up,        \* is the probe process running?
  pc,        \* where flush() is
  acct,      \* the accountant in memory
  disk,      \* what storage_path holds
  last,      \* _last_flush_monotonic
  clock, stops,
  sent,      \* history: the transmissions, each as the time of its charge
  slept      \* history: did a flush ever hit budget_exceeded?

settings == <<interval, reliable>>

vars == <<settings, up, pc, acct, disk, last, clock, stops, sent, slept>>

NoFile == [spent |-> 0, start |-> -1]

Never == -1

Init ==
  /\ interval \in MinIntervals
  /\ reliable \in BOOLEAN
  /\ up = TRUE
  /\ pc = "idle"
  /\ acct = Fresh(0)
  /\ disk = NoFile
  /\ last = Never
  /\ clock = 0
  /\ stops = 0
  /\ sent = <<>>
  /\ slept = FALSE

PersistedNever(a) == {disk}

\* _persist writes a temporary file and renames it; errors are swallowed.
Persisted(a) == IF reliable THEN {a} ELSE {a, disk}

LoadedFresh == Fresh(clock)

\* A missing file leaves the defaults of __init__.
Loaded == IF disk = NoFile THEN Fresh(clock) ELSE disk

Throttled == interval > 0 /\ last # Never /\ clock - last < interval

\* A flush with results staged: reset_if_needed, then spend.
Gate ==
  LET a == ResetIfNeeded(acct, clock) IN
  /\ up /\ pc = "idle"
  /\ ~ Throttled
  /\ disk' \in IF a = acct THEN {disk} ELSE Persisted(a)
  /\ IF Affordable(a)
     THEN acct' = Charged(a) /\ pc' = "persist" /\ UNCHANGED slept
     ELSE acct' = a /\ slept' = TRUE /\ UNCHANGED pc
  /\ UNCHANGED <<settings, up, last, clock, stops, sent>>

\* Too early ("accumulating"): results stay staged, nothing is spent or sent.
Refrain == up /\ pc = "idle" /\ Throttled /\ UNCHANGED vars

\* spend() saves the account before it returns.
Persist ==
  /\ up /\ pc = "persist"
  /\ disk' \in Persisted(acct)
  /\ last' = clock
  /\ pc' = "send"
  /\ UNCHANGED <<settings, up, acct, clock, stops, sent, slept>>

Send ==
  /\ up /\ pc = "send"
  /\ sent' = Append(sent, last)
  /\ pc' = "idle"
  /\ UNCHANGED <<settings, up, acct, disk, last, clock, stops, slept>>

Stop ==
  /\ up
  /\ stops < MaxStops
  /\ up' = FALSE
  /\ stops' = stops + 1
  /\ pc' = "idle"
  /\ UNCHANGED <<settings, acct, disk, last, clock, sent, slept>>

\* A new accountant loads the file, or starts a window of its own.
Start ==
  /\ ~ up
  /\ up' = TRUE
  /\ acct' = Loaded
  /\ last' = Never
  /\ UNCHANGED <<settings, pc, disk, clock, stops, sent, slept>>

\* Time passes between flushes, while one transmits, and while the probe is down.
Tick ==
  /\ clock < MaxTime
  /\ pc \in {"idle", "send"}
  /\ clock' = clock + 1
  /\ UNCHANGED <<settings, up, pc, acct, disk, last, stops, sent, slept>>

Next == Refrain \/ Gate \/ Persist \/ Send \/ Stop \/ Start \/ Tick

Spec == Init /\ [][Next]_vars

-----------------------------------------------------------------------------

\* The account never exceeds its budget, in memory or in the file, and every
\* other variable keeps its type (DPAccountant, ProbeSDK.flush).
TypeOK ==
  /\ interval \in MinIntervals /\ reliable \in BOOLEAN
  /\ up \in BOOLEAN
  /\ pc \in {"idle", "persist", "send"}
  /\ acct \in Account
  /\ disk \in Account \cup {NoFile}
  /\ last \in Nat \cup {Never}
  /\ clock \in 0 .. MaxTime /\ stops \in 0 .. MaxStops
  /\ sent \in Seq(Nat)
  /\ slept \in BOOLEAN

SentSince(t) == Cardinality({k \in DOMAIN sent : sent[k] >= t})

\* Nothing leaves the probe unpaid: the account of a running probe covers
\* every transmission charged since its window began, also when the process
\* that made them crashed and another one loaded the file (spend() persists
\* before the first POST).  Without a crash it holds even if the file is lost.
ChargedBeforeSent ==
  up /\ (reliable \/ stops = 0) => SentSince(acct.start) * Epsilon <= acct.spent

\* What a window that tumbles can promise of any 24 hours: at most two
\* windows' worth of charges.
TwoWindowsBudget ==
  reliable \/ stops = 0 => \A k \in DOMAIN sent :
    Cardinality({j \in DOMAIN sent : sent[j] \in sent[k] .. sent[k] + Day - 1})
      <= 2 * FlushesPerWindow

\* Paced by the recommended interval, a probe that keeps running never meets
\* an exhausted budget (recommended_flush_interval_seconds: "keeps the probe
\* transmitting continuously, within budget").
PacedNeverSleeps ==
  interval >= RecommendedInterval /\ stops = 0 => ~ slept
=============================================================================
