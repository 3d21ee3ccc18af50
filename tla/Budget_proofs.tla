---------------------------- MODULE Budget_proofs ----------------------------
(***************************************************************************)
(* Theorems about the users of the account, for every budget, epsilon and  *)
(* day length: ProbeBudget with any pacing intervals, clock and number of  *)
(* crashes, and FirstPartyFleet with any models, paces and sleeps.         *)
(***************************************************************************)
EXTENDS ProbeBudget, FirstPartyFleet, TLAPS, FiniteSetTheorems

-----------------------------------------------------------------------------
(* Counting charges.                                                       *)

Since(s, t) == {k \in DOMAIN s : s[k] >= t}

Count(s, t) == Cardinality(Since(s, t))

LEMMA SinceFinite ==
  ASSUME NEW s \in Seq(Nat), NEW t \in Int
  PROVE  IsFiniteSet(Since(s, t)) /\ Count(s, t) \in Nat
<1>1. DOMAIN s = 1 .. Len(s) /\ Len(s) \in Nat
  OBVIOUS
<1>2. IsFiniteSet(1 .. Len(s))
  BY <1>1, FS_Interval
<1>3. Since(s, t) \subseteq 1 .. Len(s)
  BY <1>1 DEF Since
<1>4. IsFiniteSet(Since(s, t))
  BY <1>2, <1>3, FS_Subset
<1>5. QED
  BY <1>4, FS_CardinalityType DEF Count

\* One more transmission adds at most one to any count.
LEMMA AppendCounts ==
  ASSUME NEW s \in Seq(Nat), NEW c \in Nat, NEW t \in Int
  PROVE  Count(Append(s, c), t) <= Count(s, t) + 1
<1> DEFINE n == Len(s) + 1
<1>1. /\ Append(s, c) \in Seq(Nat)
      /\ DOMAIN Append(s, c) = 1 .. n /\ DOMAIN s = 1 .. Len(s)
      /\ \A k \in 1 .. Len(s) : Append(s, c)[k] = s[k]
  OBVIOUS
<1>2. Since(Append(s, c), t) \subseteq Since(s, t) \cup {n}
  BY <1>1 DEF Since
<1>3. IsFiniteSet(Since(s, t)) /\ Count(s, t) \in Nat
  BY SinceFinite
<1>4. /\ IsFiniteSet(Since(s, t) \cup {n})
      /\ Cardinality(Since(s, t) \cup {n}) <= Count(s, t) + 1
  <2>1. /\ IsFiniteSet(Since(s, t) \cup {n})
        /\ \/ Cardinality(Since(s, t) \cup {n}) = Cardinality(Since(s, t))
           \/ Cardinality(Since(s, t) \cup {n}) = Cardinality(Since(s, t)) + 1
    BY <1>3, FS_AddElement, Zenon
  <2>2. QED
    BY <1>3, <2>1 DEF Count
<1>5. Cardinality(Since(Append(s, c), t)) <= Cardinality(Since(s, t) \cup {n})
  BY <1>2, <1>4, FS_Subset
<1>6. Count(Append(s, c), t) \in Nat /\ Cardinality(Since(s, t) \cup {n}) \in Nat
  BY <1>1, <1>4, SinceFinite, FS_CardinalityType
<1>7. QED
  BY <1>3, <1>4, <1>5, <1>6 DEF Count

LEMMA NothingSince ==
  ASSUME NEW s \in Seq(Nat), NEW t \in Int, \A k \in DOMAIN s : s[k] < t
  PROVE  Count(s, t) = 0
<1>1. \A k \in DOMAIN s : s[k] \in Nat
  OBVIOUS
<1>2. Since(s, t) = {}
  BY <1>1 DEF Since
<1>3. QED
  BY <1>2, FS_EmptySet DEF Count

-----------------------------------------------------------------------------
(* The inductive invariant.                                                *)

\* An epsilon is charged but its batch is still to leave.
Owed == IF pc = "idle" THEN 0 ELSE Epsilon

\* Nothing was charged after the window of account a ended.
Current(a) == \A k \in DOMAIN sent : sent[k] < a.start + Day

\* Account a pays for what was sent in its window, and for extra.
Pays(a, extra) == Count(sent, a.start) * Epsilon + extra <= a.spent

Trusted == reliable \/ stops = 0

MemoryPays ==
  up /\ Trusted =>
    /\ Current(acct) /\ Pays(acct, Owed)
    /\ pc = "persist" => clock < acct.start + Day
    /\ pc = "send" => last < acct.start + Day

FilePays ==
  reliable =>
    /\ disk = NoFile => sent = <<>>
    /\ disk # NoFile => Current(disk) /\ Pays(disk, 0)
    /\ pc = "send" => disk = acct

IInv ==
  /\ TypeOK
  /\ pc # "idle" => up
  /\ pc = "send" => last \in Nat
  /\ ~ up => stops > 0
  /\ MemoryPays
  /\ FilePays

LEMMA InitInv == Init => IInv
<1> SUFFICES ASSUME Init PROVE IInv
  OBVIOUS
<1> USE BudgetAssumption, ProbeBudgetAssumption
<1>1. TypeOK
  <2>1. sent \in Seq(Nat)
    BY DEF Init
  <2>2. acct \in Account
    BY DEF Init, Fresh, Account
  <2>3. up \in BOOLEAN /\ slept \in BOOLEAN /\ reliable \in BOOLEAN
    BY DEF Init
  <2>4. disk \in Account \cup {NoFile} /\ last \in Nat \cup {Never}
    BY DEF Init
  <2>5. /\ interval \in MinIntervals /\ pc \in {"idle", "persist", "send"}
        /\ clock \in 0 .. MaxTime /\ stops \in 0 .. MaxStops
    BY DEF Init
  <2>6. QED
    BY <2>1, <2>2, <2>3, <2>4, <2>5 DEF TypeOK
<1>2. MemoryPays
  <2>1. sent \in Seq(Nat) /\ \A k \in DOMAIN sent : sent[k] < 0
    BY DEF Init
  <2>2. Count(sent, 0) = 0
    BY <2>1, NothingSince
  <2>3. QED
    BY <2>1, <2>2 DEF Init, MemoryPays, Current, Pays, Owed, Fresh
<1>3. FilePays
  BY DEF Init, FilePays
<1>4. QED
  BY <1>1, <1>2, <1>3 DEF IInv, Init

-----------------------------------------------------------------------------
(* Each step preserves the invariant.                                      *)

\* What the gate decides from: a window that is not over.
LEMMA ResetType ==
  ASSUME NEW a \in Account, NEW now \in Nat
  PROVE  /\ ResetIfNeeded(a, now) \in Account
         /\ now < ResetIfNeeded(a, now).start + Day
         /\ Affordable(a) => Charged(a) \in Account
BY BudgetAssumption
   DEF ResetIfNeeded, Due, Fresh, Account, Affordable, Charged

LEMMA ChargedFields ==
  ASSUME NEW a \in Account
  PROVE  Charged(a).start = a.start /\ Charged(a).spent = a.spent + Epsilon
BY DEF Charged, Account

\* A reset account pays for the transmissions of its window: there are none.
LEMMA ResetPays ==
  ASSUME NEW a \in Account, clock \in Nat, sent \in Seq(Nat),
         Current(a), Pays(a, 0)
  PROVE  Current(ResetIfNeeded(a, clock)) /\ Pays(ResetIfNeeded(a, clock), 0)
<1>1. CASE ~ Due(a, clock)
  BY <1>1 DEF ResetIfNeeded
<1>2. CASE Due(a, clock)
  <2>1. \A k \in DOMAIN sent : sent[k] \in Nat /\ sent[k] < clock
    <3>1. \A k \in DOMAIN sent : sent[k] \in Nat
      OBVIOUS
    <3>2. a.start \in Nat /\ a.start + Day <= clock
      BY <1>2, BudgetAssumption DEF Due, Account
    <3>3. QED
      BY <3>1, <3>2, BudgetAssumption DEF Current
  <2>2. Count(sent, clock) = 0
    BY <2>1, NothingSince
  <2>3. ResetIfNeeded(a, clock) = [spent |-> 0, start |-> clock]
    BY <1>2 DEF ResetIfNeeded, Fresh
  <2>4. Current(ResetIfNeeded(a, clock))
    BY <2>1, <2>3, BudgetAssumption DEF Current
  <2>5. QED
    BY <2>2, <2>3, <2>4, BudgetAssumption DEF Pays
<1>3. QED
  BY <1>1, <1>2

LEMMA GateStep == ASSUME IInv, Gate PROVE IInv'
<1> USE BudgetAssumption
<1> DEFINE a == ResetIfNeeded(acct, clock)
<1>1. /\ acct \in Account /\ clock \in Nat /\ sent \in Seq(Nat)
      /\ up /\ pc = "idle"
      /\ UNCHANGED <<settings, up, last, clock, stops, sent>>
  BY DEF IInv, TypeOK, Gate
<1>2. /\ a \in Account /\ clock < a.start + Day
      /\ Affordable(a) => Charged(a) \in Account
  BY <1>1, ResetType
<1>3. disk' \in {disk, a} /\ (reliable /\ a # acct => disk' = a)
      /\ (a = acct => disk' = disk)
  BY DEF Gate, Persisted
<1>4. TypeOK'
  BY <1>1, <1>2, <1>3 DEF IInv, TypeOK, Gate, settings
<1>5. Trusted => Current(a) /\ Pays(a, 0)
  BY <1>1, ResetPays DEF IInv, MemoryPays, Owed
<1>6. MemoryPays'
  <2>1. CASE Affordable(a)
    <3>1. acct' = Charged(a) /\ pc' = "persist"
      BY <2>1 DEF Gate
    <3>2. acct'.start = a.start /\ acct'.spent = a.spent + Epsilon
      BY <1>2, <3>1, ChargedFields
    <3>3. a.start \in Nat /\ a.spent \in Nat /\ Count(sent, a.start) \in Nat
      BY <1>1, <1>2, SinceFinite DEF Account
    <3>4. QED
      BY <1>1, <1>2, <1>5, <3>1, <3>2, <3>3
         DEF MemoryPays, Trusted, Current, Pays, Owed, settings
  <2>2. CASE ~ Affordable(a)
    <3>1. acct' = a /\ pc' = "idle"
      BY <1>1, <2>2 DEF Gate
    <3>2. QED
      BY <1>1, <1>5, <3>1 DEF MemoryPays, Trusted, Current, Pays, Owed, settings
  <2>3. QED
    BY <2>1, <2>2
<1>7. FilePays'
  <2>1. SUFFICES ASSUME reliable PROVE FilePays'
    BY <1>1 DEF FilePays, settings
  <2>2. pc' # "send"
    BY <1>1 DEF Gate
  <2>3. CASE a = acct
    <3>1. disk' = disk
      BY <1>3, <2>3
    <3>2. QED
      BY <1>1, <2>1, <2>2, <3>1
         DEF IInv, FilePays, Current, Pays
  <2>4. CASE a # acct
    <3>1. disk' = a
      BY <1>3, <2>1, <2>4
    <3>2. a # NoFile
      BY <1>2 DEF NoFile, Account
    <3>3. QED
      BY <1>1, <1>5, <2>1, <2>2, <3>1, <3>2
         DEF FilePays, Current, Pays, Trusted
  <2>5. QED
    BY <2>3, <2>4
<1>8. QED
  BY <1>1, <1>4, <1>6, <1>7 DEF IInv, Gate

LEMMA PersistStep == ASSUME IInv, Persist PROVE IInv'
<1>1. /\ up /\ pc = "persist" /\ pc' = "send" /\ last' = clock
      /\ UNCHANGED <<settings, up, acct, clock, stops, sent, slept>>
      /\ acct \in Account /\ clock \in Nat
  BY DEF IInv, TypeOK, Persist
<1>2. disk' \in {disk, acct} /\ (reliable => disk' = acct)
  BY DEF Persist, Persisted
<1>3. TypeOK'
  BY <1>1, <1>2 DEF IInv, TypeOK, settings
<1>4. MemoryPays'
  BY <1>1 DEF IInv, MemoryPays, Trusted, Current, Pays, Owed, settings
<1>5. FilePays'
  <2>1. acct # NoFile
    BY <1>1 DEF Account, NoFile
  <2>2. reliable => Current(acct) /\ Pays(acct, 0)
    <3>1. reliable => Current(acct) /\ Pays(acct, Epsilon)
      BY <1>1 DEF IInv, MemoryPays, Trusted, Owed
    <3>2. Count(sent, acct.start) \in Nat /\ acct.spent \in Nat
      BY <1>1, SinceFinite DEF IInv, TypeOK, Account
    <3>3. QED
      BY <3>1, <3>2, BudgetAssumption DEF Pays
  <2>3. QED
    BY <1>1, <1>2, <2>1, <2>2 DEF FilePays, Current, Pays, settings
<1>6. QED
  BY <1>1, <1>3, <1>4, <1>5 DEF IInv

LEMMA SendStep == ASSUME IInv, Send PROVE IInv'
<1>1. /\ up /\ pc = "send" /\ pc' = "idle" /\ sent' = Append(sent, last)
      /\ UNCHANGED <<settings, up, acct, disk, last, clock, stops, slept>>
      /\ acct \in Account /\ sent \in Seq(Nat) /\ last \in Nat
  BY DEF IInv, TypeOK, Send
<1>2. sent' \in Seq(Nat)
  BY <1>1
<1>3. TypeOK'
  BY <1>1, <1>2 DEF IInv, TypeOK, settings
<1>4. Trusted => (Current(acct) /\ Pays(acct, 0))'
  <2>1. SUFFICES ASSUME Trusted PROVE (Current(acct) /\ Pays(acct, 0))'
    OBVIOUS
  <2>2. Current(acct) /\ Pays(acct, Epsilon) /\ last < acct.start + Day
    BY <1>1, <2>1 DEF IInv, MemoryPays, Owed
  <2>3. Current(acct)'
    <3>1. \A k \in DOMAIN sent' : sent'[k] = last \/ (k \in DOMAIN sent /\ sent'[k] = sent[k])
      BY <1>1
    <3>2. QED
      BY <1>1, <2>2, <3>1 DEF Current
  <2>4. acct.start \in Int /\ acct.spent \in Nat
    BY <1>1 DEF Account
  <2>5. /\ Count(sent', acct.start) <= Count(sent, acct.start) + 1
        /\ Count(sent', acct.start) \in Nat /\ Count(sent, acct.start) \in Nat
    BY <1>1, <1>2, <2>4, AppendCounts, SinceFinite
  <2>6. Count(sent', acct.start) * Epsilon <= (Count(sent, acct.start) + 1) * Epsilon
    <3>1. \A i, j, e \in Nat : i <= j => i * e <= j * e
      OBVIOUS
    <3>2. QED
      BY <2>5, <3>1, BudgetAssumption
  <2>7. (Count(sent, acct.start) + 1) * Epsilon = Count(sent, acct.start) * Epsilon + Epsilon
    BY <2>5, BudgetAssumption
  <2>8. Pays(acct, 0)'
    <3>1. /\ Count(sent', acct.start) * Epsilon \in Nat
          /\ Count(sent, acct.start) * Epsilon \in Nat
      BY <2>5, BudgetAssumption
    <3>2. QED
      BY <1>1, <2>2, <2>4, <2>6, <2>7, <3>1, BudgetAssumption DEF Pays
  <2>9. QED
    BY <2>3, <2>8
<1>5. MemoryPays'
  BY <1>1, <1>4 DEF MemoryPays, Trusted, Owed, settings
<1>6. FilePays'
  <2>1. reliable => disk = acct /\ Trusted
    BY <1>1 DEF IInv, FilePays, Trusted
  <2>2. acct # NoFile
    BY <1>1 DEF Account, NoFile
  <2>3. QED
    BY <1>1, <1>4, <2>1, <2>2 DEF FilePays, Current, Pays, settings
<1>7. QED
  BY <1>1, <1>3, <1>5, <1>6 DEF IInv

LEMMA StopStep == ASSUME IInv, Stop PROVE IInv'
<1>1. /\ up' = FALSE /\ pc' = "idle" /\ stops' = stops + 1 /\ stops < MaxStops
      /\ UNCHANGED <<settings, acct, disk, last, clock, sent, slept>>
      /\ stops \in Nat
  BY ProbeBudgetAssumption DEF IInv, TypeOK, Stop
<1>2. TypeOK'
  <2>1. up' \in BOOLEAN /\ pc' \in {"idle", "persist", "send"}
    BY <1>1
  <2>2. stops' \in 0 .. MaxStops
    BY <1>1, ProbeBudgetAssumption
  <2>3. /\ interval' \in MinIntervals /\ reliable' \in BOOLEAN
        /\ acct' \in Account /\ disk' \in Account \cup {NoFile}
        /\ last' \in Nat \cup {Never} /\ clock' \in 0 .. MaxTime
        /\ sent' \in Seq(Nat) /\ slept' \in BOOLEAN
    BY <1>1 DEF IInv, TypeOK, settings
  <2>4. QED
    BY <2>1, <2>2, <2>3 DEF TypeOK
<1>3. MemoryPays'
  BY <1>1 DEF MemoryPays
<1>4. FilePays'
  BY <1>1 DEF IInv, FilePays, Current, Pays, settings
<1>5. QED
  BY <1>1, <1>2, <1>3, <1>4 DEF IInv

LEMMA StartStep == ASSUME IInv, Start PROVE IInv'
<1>1. /\ ~ up /\ up' = TRUE /\ acct' = Loaded /\ last' = Never
      /\ pc = "idle" /\ pc' = "idle" /\ stops > 0 /\ clock \in Nat
      /\ UNCHANGED <<settings, pc, disk, clock, stops, sent, slept>>
      /\ sent \in Seq(Nat)
  BY DEF IInv, TypeOK, Start
<1>2. Fresh(clock) \in Account
  BY <1>1, BudgetAssumption DEF Fresh, Account
<1>3. TypeOK'
  <2>1. acct' \in Account
    BY <1>1, <1>2 DEF IInv, TypeOK, Loaded
  <2>2. up' \in BOOLEAN /\ last' \in Nat \cup {Never}
    BY <1>1
  <2>3. /\ interval' \in MinIntervals /\ reliable' \in BOOLEAN
        /\ pc' \in {"idle", "persist", "send"}
        /\ disk' \in Account \cup {NoFile}
        /\ clock' \in 0 .. MaxTime /\ stops' \in 0 .. MaxStops
        /\ sent' \in Seq(Nat) /\ slept' \in BOOLEAN
    BY <1>1 DEF IInv, TypeOK, settings
  <2>4. QED
    BY <2>1, <2>2, <2>3 DEF TypeOK
<1>4. reliable => (Current(acct) /\ Pays(acct, 0))'
  <2>1. SUFFICES ASSUME reliable PROVE (Current(acct) /\ Pays(acct, 0))'
    OBVIOUS
  <2>2. CASE disk # NoFile
    BY <1>1, <2>1, <2>2 DEF IInv, FilePays, Current, Pays, Loaded
  <2>3. CASE disk = NoFile
    <3>1. sent = <<>> /\ DOMAIN sent = {} /\ acct' = Fresh(clock)
      BY <1>1, <2>1, <2>3 DEF IInv, FilePays, Loaded
    <3>2. \A k \in DOMAIN sent : sent[k] < clock
      BY <3>1
    <3>3. Count(sent, clock) = 0
      BY <1>1, <3>2, NothingSince
    <3>4. QED
      BY <1>1, <3>1, <3>3, BudgetAssumption DEF Current, Pays, Fresh
  <2>4. QED
    BY <2>2, <2>3
<1>5. MemoryPays'
  <2>1. Trusted' => reliable
    BY <1>1, ProbeBudgetAssumption DEF Trusted, settings
  <2>2. QED
    BY <1>1, <1>4, <2>1 DEF MemoryPays, Owed
<1>6. FilePays'
  BY <1>1 DEF IInv, FilePays, Current, Pays, settings
<1>7. QED
  BY <1>1, <1>3, <1>5, <1>6 DEF IInv

LEMMA TickStep == ASSUME IInv, Tick PROVE IInv'
<1>1. /\ clock < MaxTime /\ clock' = clock + 1 /\ pc # "persist"
      /\ UNCHANGED <<settings, up, pc, acct, disk, last, stops, sent, slept>>
      /\ clock \in Nat
  BY DEF IInv, TypeOK, Tick
<1>2. TypeOK'
  BY <1>1, ProbeBudgetAssumption DEF IInv, TypeOK, settings
<1>3. MemoryPays'
  BY <1>1 DEF IInv, MemoryPays, Trusted, Current, Pays, Owed, settings
<1>4. FilePays'
  BY <1>1 DEF IInv, FilePays, Current, Pays, settings
<1>5. QED
  BY <1>1, <1>2, <1>3, <1>4 DEF IInv

LEMMA StutterStep == ASSUME IInv, UNCHANGED vars PROVE IInv'
<1>1. TypeOK'
  BY DEF IInv, TypeOK, vars, settings
<1>2. MemoryPays'
  BY DEF IInv, MemoryPays, Trusted, Current, Pays, Owed, vars, settings
<1>3. FilePays'
  BY DEF IInv, FilePays, Current, Pays, vars, settings
<1>4. QED
  BY <1>1, <1>2, <1>3 DEF IInv, vars, settings

-----------------------------------------------------------------------------
(* The theorems.                                                           *)

\* The accounts in memory and on file pay for what was sent: the strengthening
\* that follows an epsilon through charge, save, transmission and reload.
THEOREM Invariance == Spec => []IInv
<1>1. Init => IInv
  BY InitInv
<1>2. IInv /\ [Next]_vars => IInv'
  <2>1. SUFFICES ASSUME IInv, [Next]_vars PROVE IInv'
    OBVIOUS
  <2>2. CASE Next
    BY <2>1, <2>2, GateStep, PersistStep, SendStep, StopStep, StartStep, TickStep,
       StutterStep DEF Next, Refrain
  <2>3. CASE UNCHANGED vars
    BY <2>1, <2>3, StutterStep
  <2>4. QED
    BY <2>1, <2>2, <2>3
<1>3. QED
  BY <1>1, <1>2, PTL DEF Spec

\* The probe's budget state keeps its type: in particular no account, in memory
\* or on file, ever exceeds DailyBudget.
THEOREM TypeCorrect == Spec => []TypeOK
<1>1. IInv => TypeOK
  BY DEF IInv
<1>2. QED
  BY <1>1, Invariance, PTL

\* ProbeSDK.flush never transmits what DPAccountant.spend has not charged, and a
\* crash gives nothing back.
THEOREM ChargedCorrect == Spec => []ChargedBeforeSent
<1>1. IInv => ChargedBeforeSent
  <2>1. SUFFICES ASSUME IInv, up, Trusted
                 PROVE  SentSince(acct.start) * Epsilon <= acct.spent
    BY DEF ChargedBeforeSent, Trusted
  <2>2. SentSince(acct.start) = Count(sent, acct.start)
    BY DEF SentSince, Count, Since
  <2>3. Count(sent, acct.start) \in Nat /\ acct.spent \in Nat
    BY <2>1, SinceFinite DEF IInv, TypeOK, Account
  <2>4. Count(sent, acct.start) * Epsilon + Owed <= acct.spent
    BY <2>1 DEF IInv, MemoryPays, Pays
  <2>5. Count(sent, acct.start) * Epsilon \in Nat /\ Owed \in Nat
    BY <2>3, BudgetAssumption DEF Owed
  <2>6. QED
    BY <2>2, <2>3, <2>4, <2>5
<1>2. QED
  BY <1>1, Invariance, PTL

-----------------------------------------------------------------------------
(* The arithmetic of a window.                                             *)

LEMMA TimesMonotone ==
  ASSUME NEW a \in Nat, NEW b \in Nat, NEW c \in Nat, NEW d \in Nat, a >= b, c >= d
  PROVE  a * c >= b * d
<1>1. a * c >= b * c /\ b * c >= b * d
  OBVIOUS
<1>2. a * c \in Nat /\ b * c \in Nat /\ b * d \in Nat
  OBVIOUS
<1> QED BY <1>1, <1>2

\* A window holds FlushesPerWindow charges, and that many recommended
\* intervals fill it.
LEMMA WindowBounds ==
  /\ FlushesPerWindow \in Nat \ {0}
  /\ RecommendedInterval \in Nat \ {0}
  /\ FlushesPerWindow * RecommendedInterval >= Day
  /\ \A k \in Nat : k * Epsilon <= DailyBudget => k <= FlushesPerWindow
  /\ \A k \in Nat : k * Epsilon + Epsilon > DailyBudget => k >= FlushesPerWindow
<1> USE BudgetAssumption
<1> DEFINE f == DailyBudget \div Epsilon
<1>1. /\ f \in Nat /\ Epsilon * f <= DailyBudget
      /\ DailyBudget < Epsilon * (f + 1)
  OBVIOUS
<1> HIDE DEF f
<1>2. f # 0
  <2> SUFFICES ASSUME f = 0 PROVE FALSE
    OBVIOUS
  <2>1. Epsilon * (f + 1) = Epsilon
    BY <1>1
  <2> QED BY <1>1, <2>1
<1> DEFINE g == Day + f - 1
           r == g \div f
<1>3. g \in Nat /\ g >= f /\ f \in Nat \ {0}
  BY <1>1, <1>2
<1> HIDE DEF g
<1>4. r \in Nat /\ f * r <= g /\ g < f * (r + 1)
  BY <1>3
<1> HIDE DEF r
<1>5. f * (r + 1) = f * r + f /\ f * r \in Nat
  BY <1>3, <1>4
<1>6. f * r >= Day
  BY <1>3, <1>4, <1>5 DEF g
<1>7. r # 0
  <2> SUFFICES ASSUME r = 0 PROVE FALSE
    OBVIOUS
  <2>1. f * r = 0
    BY <1>3
  <2> QED BY <1>6, <2>1
<1>8. ASSUME NEW k \in Nat, NEW j \in Nat, k * Epsilon < Epsilon * (j + 1)
      PROVE  k <= j
  <2> SUFFICES ASSUME j + 1 <= k PROVE FALSE
    OBVIOUS
  <2>1. \A a, b, e \in Nat : a <= b => e * a <= b * e
    OBVIOUS
  <2>2. Epsilon * (j + 1) <= k * Epsilon
    BY <2>1
  <2>3. Epsilon * (j + 1) \in Nat /\ k * Epsilon \in Nat
    OBVIOUS
  <2> QED BY <1>8, <2>2, <2>3
<1>9. \A k \in Nat : k * Epsilon <= DailyBudget => k <= f
  <2> TAKE k \in Nat
  <2> HAVE k * Epsilon <= DailyBudget
  <2>1. k * Epsilon \in Nat /\ Epsilon * (f + 1) \in Nat
    BY <1>1
  <2> QED BY <1>1, <1>8, <2>1
<1>10. \A k \in Nat : k * Epsilon + Epsilon > DailyBudget => k >= f
  <2> TAKE k \in Nat
  <2> HAVE k * Epsilon + Epsilon > DailyBudget
  <2>1. Epsilon * (k + 1) = k * Epsilon + Epsilon /\ k * Epsilon \in Nat
    OBVIOUS
  <2>2. f * Epsilon = Epsilon * f /\ f * Epsilon \in Nat
    BY <1>1
  <2>3. f * Epsilon < Epsilon * (k + 1)
    BY <1>1, <2>1, <2>2
  <2> QED BY <1>1, <1>8, <2>3
<1> QED
  BY <1>1, <1>2, <1>4, <1>6, <1>7, <1>9, <1>10
     DEF FlushesPerWindow, RecommendedInterval, f, r, g

-----------------------------------------------------------------------------
(* A paced probe does not run out of budget.                               *)

\* The k-th charge of a window comes no earlier than k - 1 intervals into it.
PacedBy(k) ==
  /\ acct.spent = k * Epsilon
  /\ acct.start <= clock
  /\ k > 0 => LET t == IF pc = "persist" THEN clock ELSE last IN
                t # Never /\ t >= acct.start + (k - 1) * interval
  /\ pc = "persist" => k > 0

Paced ==
  interval >= RecommendedInterval /\ stops = 0 => ~ slept /\ \E k \in Nat : PacedBy(k)

LEMMA PacedGate == ASSUME IInv, Paced, Gate PROVE Paced'
<1> SUFFICES ASSUME interval >= RecommendedInterval, stops = 0
             PROVE  ~ slept' /\ \E k \in Nat : PacedBy(k)'
  BY DEF Gate, settings, Paced
<1> USE BudgetAssumption
<1>1. /\ acct \in Account /\ clock \in Nat /\ interval \in Nat
      /\ last \in Nat \cup {Never}
      /\ pc = "idle" /\ ~ Throttled
      /\ UNCHANGED <<interval, reliable, up, last, clock, stops, sent>>
  BY ProbeBudgetAssumption DEF IInv, TypeOK, Gate, settings
<1>2. PICK k \in Nat : PacedBy(k)
  BY DEF Paced
<1>3. ~ slept
  BY DEF Paced
<1>4. CASE Due(acct, clock)
  <2>1. ResetIfNeeded(acct, clock) = [spent |-> 0, start |-> clock]
    BY <1>4 DEF ResetIfNeeded, Fresh
  <2>2. Affordable(ResetIfNeeded(acct, clock))
    BY <2>1 DEF Affordable
  <2>3. acct' = [spent |-> Epsilon, start |-> clock] /\ pc' = "persist" /\ slept' = slept
    BY <2>1, <2>2 DEF Gate, Charged
  <2>4. PacedBy(1)'
    BY <1>1, <2>3 DEF PacedBy, Never
  <2> QED BY <1>3, <2>3, <2>4
<1>5. CASE ~ Due(acct, clock)
  <2>1. ResetIfNeeded(acct, clock) = acct
    BY <1>5 DEF ResetIfNeeded
  <2>2. clock < acct.start + Day /\ acct.start \in Nat /\ acct.start <= clock
    BY <1>1, <1>2, <1>5 DEF Due, Account, PacedBy
  <2>3. k * interval \in Nat /\ (k > 0 => (k - 1) * interval + interval = k * interval)
    BY <1>1
  <2>4. clock >= acct.start + k * interval
    <3>1. CASE k = 0
      BY <1>1, <2>2, <3>1
    <3>2. CASE k > 0
      <4>1. last # Never /\ last >= acct.start + (k - 1) * interval
        BY <1>1, <1>2, <3>2 DEF PacedBy
      <4>2. clock - last >= interval
        BY <1>1, <4>1, WindowBounds DEF Throttled
      <4>3. (k - 1) * interval \in Int /\ last \in Nat
        BY <1>1, <4>1
      <4> QED BY <1>1, <2>2, <2>3, <3>2, <4>1, <4>2, <4>3
    <3> QED BY <3>1, <3>2
  <2>5. Affordable(acct)
    <3> SUFFICES ASSUME ~ Affordable(acct) PROVE FALSE
      OBVIOUS
    <3>1. k >= FlushesPerWindow
      BY <1>1, <1>2, WindowBounds DEF Affordable, PacedBy
    <3>2. k * interval >= FlushesPerWindow * RecommendedInterval
      BY <1>1, <3>1, TimesMonotone, WindowBounds
    <3>3. FlushesPerWindow * RecommendedInterval \in Nat
      BY WindowBounds
    <3> QED BY <1>1, <2>2, <2>3, <2>4, <3>2, <3>3, WindowBounds
  <2>6. acct' = Charged(acct) /\ pc' = "persist" /\ slept' = slept
    BY <2>1, <2>5 DEF Gate
  <2>7. acct'.spent = (k + 1) * Epsilon /\ acct'.start = acct.start
    BY <1>1, <1>2, <2>6, ChargedFields DEF PacedBy
  <2>8. PacedBy(k + 1)'
    BY <1>1, <2>2, <2>4, <2>6, <2>7 DEF PacedBy, Never
  <2> QED BY <1>3, <2>6, <2>8
<1> QED BY <1>4, <1>5

\* Paced as recommended, a probe that keeps running always finds its budget
\* sufficient, for every budget, epsilon and day (recommended_flush_interval_seconds).
THEOREM PacedCorrect == Spec => []PacedNeverSleeps
<1> USE BudgetAssumption
<1>1. Init => Paced
  <2> SUFFICES ASSUME Init PROVE Paced
    OBVIOUS
  <2>1. PacedBy(0)
    BY DEF Init, PacedBy, Fresh
  <2> QED BY <2>1 DEF Paced, Init
<1>2. IInv /\ Paced /\ [Next]_vars => Paced'
  <2> SUFFICES ASSUME IInv, Paced, [Next]_vars,
                      interval' >= RecommendedInterval, stops' = 0
               PROVE  ~ slept' /\ \E k \in Nat : PacedBy(k)'
    BY DEF Paced
  <2>0. /\ interval' = interval /\ stops \in Nat /\ stops' \in {stops, stops + 1}
        /\ up /\ clock \in Nat /\ last \in Nat \cup {Never}
    <3>1. interval' = interval /\ stops' \in {stops, stops + 1}
      BY DEF Next, Refrain, Gate, Persist, Send, Stop, Start, Tick, vars, settings
    <3>2. stops \in Nat
      BY ProbeBudgetAssumption DEF IInv, TypeOK
    <3> QED BY <3>1, <3>2 DEF IInv, TypeOK
  <2>1. ~ slept /\ stops = 0 /\ \E k \in Nat : PacedBy(k)
    BY <2>0 DEF Paced
  <2>2. CASE Gate
    BY <2>0, <2>2, PacedGate DEF Paced
  <2>3. CASE UNCHANGED <<acct, clock, slept, last>> /\ pc # "persist" /\ pc' # "persist"
    BY <2>0, <2>1, <2>3 DEF PacedBy
  <2>4. CASE Persist
    BY <2>0, <2>1, <2>4 DEF Persist, PacedBy, Never
  <2>5. CASE Tick
    BY <2>0, <2>1, <2>5 DEF Tick, PacedBy, IInv, TypeOK, Account
  <2>6. CASE Refrain \/ UNCHANGED vars
    <3>1. UNCHANGED <<acct, clock, slept, last, pc, interval>>
      BY <2>6 DEF Refrain, vars, settings
    <3> QED BY <2>1, <3>1 DEF PacedBy
  <2>7. ~ Stop /\ ~ Start
    BY <2>0, <2>1 DEF Stop, Start
  <2> QED BY <2>2, <2>3, <2>4, <2>5, <2>6, <2>7 DEF Next, Send
<1>3. Paced => PacedNeverSleeps
  BY DEF Paced, PacedNeverSleeps
<1> QED BY <1>1, <1>2, <1>3, Invariance, PTL DEF Spec

-----------------------------------------------------------------------------
(* Any day meets two windows at most.                                      *)

\* The transmissions of the day that begins at t.
OfDay(s, t) == {j \in DOMAIN s : t <= s[j] /\ s[j] < t + Day}

\* What was charged within a day before account a began is one window's worth.
Spaced(a) ==
  /\ a.start <= clock
  /\ Count(sent, a.start - Day) <= FlushesPerWindow + Count(sent, a.start)

DaysBounded ==
  Trusted => \A t \in Nat : Cardinality(OfDay(sent, t)) <= 2 * FlushesPerWindow

Windows ==
  /\ DaysBounded
  /\ up /\ Trusted => Spaced(acct) /\ (pc = "send" => acct.start <= last)
  /\ reliable /\ disk # NoFile => Spaced(disk)

LEMMA CountMonotone ==
  ASSUME NEW s \in Seq(Nat), NEW t \in Int, NEW u \in Int, t <= u
  PROVE  Count(s, u) <= Count(s, t)
<1>1. Since(s, u) \subseteq Since(s, t)
  <2>1. \A k \in DOMAIN s : s[k] \in Nat
    OBVIOUS
  <2> QED BY <2>1 DEF Since
<1>2. IsFiniteSet(Since(s, t))
  BY SinceFinite
<1> QED BY <1>1, <1>2, FS_Subset DEF Count

LEMMA AppendCounted ==
  ASSUME NEW s \in Seq(Nat), NEW c \in Nat, NEW t \in Int, c >= t
  PROVE  Count(Append(s, c), t) = Count(s, t) + 1
<1> DEFINE n == Len(s) + 1
<1>1. /\ DOMAIN Append(s, c) = 1 .. n /\ DOMAIN s = 1 .. Len(s)
      /\ \A k \in 1 .. Len(s) : Append(s, c)[k] = s[k]
      /\ Append(s, c)[n] = c /\ n \in 1 .. n /\ n \notin 1 .. Len(s)
      /\ 1 .. n = 1 .. Len(s) \cup {n}
  OBVIOUS
<1> HIDE DEF n
<1>2. Since(Append(s, c), t) = Since(s, t) \cup {n} /\ n \notin Since(s, t)
  BY <1>1 DEF Since
<1>3. IsFiniteSet(Since(s, t))
  BY SinceFinite
<1> QED BY <1>2, <1>3, FS_AddElement, Zenon DEF Count

\* An account that pays holds no more than its window.
LEMMA PaidFits ==
  ASSUME NEW a \in Account, sent \in Seq(Nat), Pays(a, 0)
  PROVE  /\ Count(sent, a.start) <= FlushesPerWindow
         /\ Pays(a, Epsilon) => Count(sent, a.start) + 1 <= FlushesPerWindow
<1> USE BudgetAssumption
<1> DEFINE k == Count(sent, a.start)
<1>1. k \in Nat /\ a.spent \in Nat /\ a.spent <= DailyBudget
  BY SinceFinite DEF Account
<1>2. k * Epsilon + 0 <= a.spent /\ (Pays(a, Epsilon) => k * Epsilon + Epsilon <= a.spent)
  BY DEF Pays
<1> HIDE DEF k
<1>3. k * Epsilon \in Nat /\ (k + 1) * Epsilon = k * Epsilon + Epsilon
  BY <1>1
<1>4. k <= FlushesPerWindow
  <2>1. k * Epsilon <= DailyBudget
    BY <1>1, <1>2, <1>3
  <2> QED BY <1>1, <2>1, WindowBounds
<1>5. Pays(a, Epsilon) => k + 1 <= FlushesPerWindow
  <2> HAVE Pays(a, Epsilon)
  <2>1. (k + 1) * Epsilon <= DailyBudget /\ k + 1 \in Nat
    BY <1>1, <1>2, <1>3
  <2> QED BY <2>1, WindowBounds
<1> QED BY <1>4, <1>5 DEF k

\* A window that begins on time leaves the one before it to the day before.
LEMMA ResetSpaced ==
  ASSUME NEW a \in Account, clock \in Nat, sent \in Seq(Nat),
         Current(a), Pays(a, 0), Spaced(a)
  PROVE  Spaced(ResetIfNeeded(a, clock))
<1> USE BudgetAssumption
<1>1. CASE ~ Due(a, clock)
  BY <1>1 DEF ResetIfNeeded
<1>2. CASE Due(a, clock)
  <2>1. ResetIfNeeded(a, clock) = [spent |-> 0, start |-> clock]
    BY <1>2 DEF ResetIfNeeded, Fresh
  <2>2. a.start \in Nat /\ a.start <= clock - Day
    BY <1>2 DEF Due, Account
  <2>3. Count(sent, clock - Day) <= Count(sent, a.start)
    BY <2>2, CountMonotone
  <2>4. Count(sent, a.start) <= FlushesPerWindow
    BY PaidFits
  <2>5. /\ Count(sent, clock - Day) \in Nat /\ Count(sent, a.start) \in Nat
        /\ Count(sent, clock) \in Nat /\ FlushesPerWindow \in Nat
    <3>1. clock - Day \in Int /\ a.start \in Int /\ clock \in Int
      BY <2>2
    <3> QED BY <3>1, SinceFinite, WindowBounds
  <2>6. Count(sent, clock - Day) <= FlushesPerWindow + Count(sent, clock)
    BY <2>3, <2>4, <2>5
  <2> QED BY <2>1, <2>6 DEF Spaced
<1> QED BY <1>1, <1>2

LEMMA WindowsGate == ASSUME IInv, Windows, Gate PROVE Windows'
<1> USE BudgetAssumption
<1> DEFINE a == ResetIfNeeded(acct, clock)
<1>1. /\ acct \in Account /\ clock \in Nat /\ sent \in Seq(Nat)
      /\ up /\ pc = "idle" /\ pc' # "send"
      /\ UNCHANGED <<interval, reliable, up, last, clock, stops, sent>>
      /\ acct' \in {a, Charged(a)} /\ disk' \in {disk, a}
  BY DEF IInv, TypeOK, Gate, settings, Persisted
<1>2. a \in Account
  BY <1>1, ResetType
<1>3. Trusted => Spaced(a)
  BY <1>1, ResetSpaced DEF IInv, MemoryPays, Owed, Windows
<1>4. acct'.start = a.start
  BY <1>1, <1>2, ChargedFields
<1>5. Trusted => Spaced(acct)'
  BY <1>1, <1>3, <1>4 DEF Spaced
<1>6. reliable /\ disk' # NoFile => Spaced(disk)'
  BY <1>1, <1>3 DEF Spaced, Trusted, Windows
<1> QED BY <1>1, <1>5, <1>6 DEF Windows, DaysBounded, Trusted

LEMMA WindowsSend == ASSUME IInv, Windows, Send PROVE Windows'
<1> USE BudgetAssumption
<1>1. /\ up /\ pc = "send" /\ pc' = "idle" /\ sent' = Append(sent, last)
      /\ UNCHANGED <<interval, reliable, up, acct, disk, last, clock, stops>>
      /\ acct \in Account /\ sent \in Seq(Nat) /\ last \in Nat /\ clock \in Nat
  BY DEF IInv, TypeOK, Send, settings
<1> SUFFICES ASSUME Trusted
             PROVE  /\ \A t \in Nat : Cardinality(OfDay(sent', t)) <= 2 * FlushesPerWindow
                    /\ Spaced(acct)'
  <2>1. reliable => disk = acct /\ Trusted
    BY <1>1 DEF IInv, FilePays, Trusted
  <2> QED BY <1>1, <2>1 DEF Windows, DaysBounded, Trusted, Spaced
<1> DEFINE w == acct.start
           n == Len(sent) + 1
<1>2. /\ Spaced(acct) /\ w <= last /\ last < w + Day
      /\ Pays(acct, Epsilon) /\ w \in Nat
  BY <1>1 DEF Windows, IInv, MemoryPays, Owed, Account
<1>3. /\ Count(sent', w) = Count(sent, w) + 1
      /\ Count(sent', w - Day) = Count(sent, w - Day) + 1
      /\ Count(sent, w) \in Nat /\ Count(sent, w - Day) \in Nat
  <2>1. w - Day \in Int /\ w - Day <= last
    BY <1>1, <1>2
  <2>2. /\ Count(sent', w) = Count(sent, w) + 1
        /\ Count(sent', w - Day) = Count(sent, w - Day) + 1
    <3> HIDE DEF w
    <3>1. \A t \in Int : t <= last => Count(Append(sent, last), t) = Count(sent, t) + 1
      BY <1>1, AppendCounted
    <3> QED BY <1>1, <1>2, <2>1, <3>1
  <2>3. Count(sent, w) \in Nat /\ Count(sent, w - Day) \in Nat
    <3> HIDE DEF w
    <3>1. \A t \in Int : Count(sent, t) \in Nat
      BY <1>1, SinceFinite
    <3> QED BY <1>2, <2>1, <3>1
  <2> QED BY <2>2, <2>3
<1>4. Pays(acct, 0)
  <2>1. Count(sent, w) * Epsilon \in Nat /\ acct.spent \in Nat
    BY <1>1, <1>3 DEF Account
  <2> QED BY <1>2, <2>1 DEF Pays
<1>5. Count(sent', w) <= FlushesPerWindow
  BY <1>1, <1>2, <1>3, <1>4, PaidFits
<1>6. FlushesPerWindow \in Nat
  BY WindowBounds
<1>7. Count(sent', w - Day) <= FlushesPerWindow + Count(sent', w)
  BY <1>2, <1>3, <1>6 DEF Spaced
<1>8. Spaced(acct)'
  BY <1>1, <1>2, <1>7 DEF Spaced
<1>9. sent' \in Seq(Nat)
  BY <1>1
<1>10. ASSUME NEW t \in Nat
       PROVE  Cardinality(OfDay(sent', t)) <= 2 * FlushesPerWindow
  <2>1. CASE t <= last /\ last < t + Day
    <3>1. OfDay(sent', t) \subseteq Since(sent', w - Day)
      <4>1. \A k \in DOMAIN sent' : sent'[k] \in Nat
        BY <1>9
      <4>2. w - Day <= t
        BY <1>1, <1>2, <2>1
      <4> QED BY <1>2, <4>1, <4>2 DEF OfDay, Since
    <3>2. IsFiniteSet(Since(sent', w - Day)) /\ Count(sent', w - Day) \in Nat
      <4>1. w - Day \in Int
        BY <1>2
      <4> QED BY <1>9, <4>1, SinceFinite
    <3>3. /\ Cardinality(OfDay(sent', t)) \in Nat
          /\ Cardinality(OfDay(sent', t)) <= Count(sent', w - Day)
      BY <3>1, <3>2, FS_Subset, FS_CardinalityType DEF Count
    <3> QED BY <1>3, <1>5, <1>6, <1>7, <3>2, <3>3
  <2>2. CASE ~ (t <= last /\ last < t + Day)
    <3>1. /\ DOMAIN sent' = DOMAIN sent \cup {n}
          /\ \A k \in DOMAIN sent : sent'[k] = sent[k]
          /\ sent'[n] = last
      BY <1>1
    <3>2. OfDay(sent', t) = OfDay(sent, t)
      <4> HIDE DEF n
      <4> QED BY <2>2, <3>1 DEF OfDay
    <3> QED BY <3>2 DEF Windows, DaysBounded
  <2> QED BY <2>1, <2>2
<1> QED BY <1>8, <1>10

LEMMA WindowsStart == ASSUME IInv, Windows, Start PROVE Windows'
<1> USE BudgetAssumption
<1>1. /\ ~ up /\ acct' = Loaded /\ pc' = "idle" /\ stops > 0 /\ stops' = stops
      /\ UNCHANGED <<reliable, disk, clock, sent>>
      /\ clock \in Nat /\ sent \in Seq(Nat)
  BY DEF IInv, TypeOK, Start, settings
<1>2. reliable => Spaced(Loaded)
  <2>1. CASE disk # NoFile
    BY <2>1 DEF Windows, Loaded
  <2>2. CASE disk = NoFile
    <3> SUFFICES ASSUME reliable PROVE Spaced(Fresh(clock))
      BY <2>2 DEF Loaded
    <3>1. \A k \in DOMAIN sent : sent[k] < clock - Day
      BY <2>2 DEF IInv, FilePays
    <3>2. clock - Day \in Int /\ Count(sent, clock - Day) = 0
      BY <1>1, <3>1, NothingSince
    <3>3. Count(sent, clock) \in Nat /\ FlushesPerWindow \in Nat
      BY <1>1, SinceFinite, WindowBounds
    <3> QED BY <1>1, <3>2, <3>3 DEF Spaced, Fresh
  <2> QED BY <2>1, <2>2
<1>3. Trusted' <=> Trusted /\ reliable
  BY <1>1 DEF Trusted
<1>4. Trusted' => Spaced(acct)'
  BY <1>1, <1>2, <1>3 DEF Spaced
<1> QED BY <1>1, <1>3, <1>4 DEF Windows, DaysBounded, Spaced

\* A budget that tumbles lets no more than two windows' worth leave within any
\* 24 hours, whatever crashes in between as long as the file can be written.
THEOREM WindowsCorrect == Spec => []TwoWindowsBudget
<1> USE BudgetAssumption
<1>1. Init => Windows
  <2> SUFFICES ASSUME Init PROVE Windows
    OBVIOUS
  <2>1. sent = <<>> /\ sent \in Seq(Nat) /\ clock = 0 /\ acct.start = 0 /\ DOMAIN sent = {}
        /\ disk = NoFile /\ pc = "idle"
    BY DEF Init, Fresh
  <2>2. Count(sent, 0 - Day) = 0 /\ Count(sent, 0) = 0
    <3>1. 0 - Day \in Int /\ 0 \in Int
      OBVIOUS
    <3> QED BY <2>1, <3>1, NothingSince
  <2>3. \A t : Cardinality(OfDay(sent, t)) = 0
    BY <2>1, FS_EmptySet DEF OfDay
  <2> QED BY <2>1, <2>2, <2>3, WindowBounds DEF Windows, DaysBounded, Spaced
<1>2. IInv /\ Windows /\ [Next]_vars => Windows'
  <2> SUFFICES ASSUME IInv, Windows, [Next]_vars PROVE Windows'
    OBVIOUS
  <2>0. clock \in Nat /\ stops \in Nat /\ acct \in Account
    BY ProbeBudgetAssumption DEF IInv, TypeOK
  <2>1. CASE Persist
    <3>1. /\ disk' \in {disk, acct} /\ last' = clock /\ up /\ up'
          /\ UNCHANGED <<reliable, acct, clock, stops, sent>>
      BY <2>1 DEF Persist, Persisted, settings
    <3>2. Trusted => Spaced(acct) /\ acct.start <= clock
      BY <3>1 DEF Windows, Spaced
    <3>3. reliable /\ disk' # NoFile => Spaced(disk)'
      BY <3>1, <3>2 DEF Windows, Spaced, Trusted
    <3> QED BY <3>1, <3>2, <3>3 DEF Windows, DaysBounded, Spaced, Trusted
  <2>2. CASE Stop
    <3>1. /\ ~ up' /\ stops' = stops + 1
          /\ UNCHANGED <<reliable, disk, clock, sent>>
      BY <2>2 DEF Stop, settings
    <3>2. Trusted' => Trusted
      BY <2>0, <3>1 DEF Trusted
    <3>3. DaysBounded'
      BY <3>1, <3>2 DEF Windows, DaysBounded
    <3>4. reliable /\ disk # NoFile => Spaced(disk)'
      BY <3>1 DEF Windows, Spaced
    <3> QED BY <3>1, <3>3, <3>4 DEF Windows
  <2>3. CASE Tick
    <3>1. /\ clock' = clock + 1
          /\ UNCHANGED <<reliable, up, pc, acct, disk, last, stops, sent>>
      BY <2>3 DEF Tick, settings
    <3>2. reliable /\ disk # NoFile => Spaced(disk)'
      <4> HAVE reliable /\ disk # NoFile
      <4>1. disk.start \in Nat
        BY DEF IInv, TypeOK, Account
      <4>2. disk.start <= clock /\ Spaced(disk)
        BY DEF Windows, Spaced
      <4>3. disk.start <= clock'
        BY <2>0, <3>1, <4>1, <4>2
      <4> QED BY <3>1, <4>2, <4>3 DEF Spaced
    <3>3. up /\ Trusted => Spaced(acct)'
      <4> HAVE up /\ Trusted
      <4>1. acct.start <= clock /\ Spaced(acct)
        BY DEF Windows, Spaced
      <4>2. acct.start <= clock'
        BY <2>0, <3>1, <4>1 DEF Account
      <4> QED BY <3>1, <4>1, <4>2 DEF Spaced
    <3> QED BY <3>1, <3>2, <3>3 DEF Windows, DaysBounded, Trusted
  <2>4. CASE Refrain \/ UNCHANGED vars
    <3>1. UNCHANGED <<reliable, up, pc, acct, disk, last, clock, stops, sent>>
      BY <2>4 DEF Refrain, vars, settings
    <3> QED BY <3>1 DEF Windows, DaysBounded, Spaced, Trusted
  <2> QED BY <2>1, <2>2, <2>3, <2>4, WindowsGate, WindowsSend, WindowsStart DEF Next
<1>3. IInv /\ Windows => TwoWindowsBudget
  <2> SUFFICES ASSUME IInv, Windows, Trusted, NEW k \in DOMAIN sent
               PROVE  Cardinality({j \in DOMAIN sent : sent[j] \in sent[k] .. sent[k] + Day - 1})
                        <= 2 * FlushesPerWindow
    BY DEF TwoWindowsBudget, Trusted
  <2>1. \A j \in DOMAIN sent : sent[j] \in Nat
    BY DEF IInv, TypeOK
  <2>2. {j \in DOMAIN sent : sent[j] \in sent[k] .. sent[k] + Day - 1} = OfDay(sent, sent[k])
    BY <2>1 DEF OfDay
  <2> QED BY <2>1, <2>2 DEF Windows, DaysBounded
<1> QED BY <1>1, <1>2, <1>3, Invariance, PTL DEF Spec

-----------------------------------------------------------------------------
(* The fleet.                                                              *)

\* Where probe_model is says what it has raised and what its span is.
Explained ==
  /\ at = "call" => cause = "none" /\ span[m] = "unset" /\ ~ finished
  /\ at = "close" => cause = "none" /\ span[m] # "none" /\ ~ finished
  /\ at \in {"flush", "post"} => cause = "none" /\ finished
  /\ at = "handle" =>
       cause # "none" /\ (finished \/ FinishError(m) \in {"none", cause})
  /\ RealErrorLogged

FleetInv == FleetTypeOK /\ Explained

LEMMA ModelType ==
  ASSUME turn \in DOMAIN Fleet
  PROVE  m \in Models
BY DEF m, Models, ToSet

LEMMA BackType ==
  ASSUME NEW limit \in Nat, NEW t \in -limit .. 0, NEW d \in Nat
  PROVE  /\ Back(t, d, limit) \in -limit .. 0
         /\ Back(t, d, limit) >= t - d
         /\ Back(t, d, limit) # -limit => Back(t, d, limit) = t - d
         /\ t = -limit => Back(t, d, limit) = -limit
BY DEF Back

LEMMA FleetAccountType ==
  ASSUME NEW a \in [spent : 0 .. DailyBudget, start : -Day .. 0]
  PROVE  /\ ResetIfNeeded(a, 0) \in [spent : 0 .. DailyBudget, start : -Day .. 0]
         /\ Affordable(a) => Charged(a) \in [spent : 0 .. DailyBudget, start : -Day .. 0]
BY BudgetAssumption DEF ResetIfNeeded, Due, Fresh, Affordable, Charged

LEMMA FinishType ==
  ASSUME FleetTypeOK, NEW x \in Models, Finish(x)
  PROVE  /\ queue' \in [Models -> 0 .. MaxStaged]
         /\ span' \in [Models -> {"none", "unset", "count", "null"}]
<1>1. queue \in [Models -> 0 .. MaxStaged] /\ MaxStaged \in Nat
  BY FleetAssumption DEF FleetTypeOK
<1>2. (IF queue[x] < MaxStaged THEN queue[x] + 1 ELSE queue[x]) \in 0 .. MaxStaged
  BY <1>1
<1>3. queue' \in [Models -> 0 .. MaxStaged]
  BY <1>1, <1>2 DEF Finish
<1> QED BY <1>3 DEF Finish, FleetTypeOK

LEMMA FleetInitInv == FleetInit => FleetInv
<1> SUFFICES ASSUME FleetInit PROVE FleetInv
  OBVIOUS
<1> USE BudgetAssumption, FleetAssumption
<1>1. turn \in DOMAIN Fleet
  BY DEF FleetInit
<1>2. accounts \in [Models -> [spent : 0 .. DailyBudget, start : -Day .. 0]]
  BY DEF FleetInit, Fresh
<1>3. /\ pace \in Nat /\ pace \in Paces
      /\ flushed \in [Models -> -pace .. 0 \cup {NotYet}]
      /\ queue \in [Models -> 0 .. MaxStaged]
  BY DEF FleetInit
<1> QED
  BY <1>1, <1>2, <1>3 DEF FleetInit, FleetInv, FleetTypeOK, Explained, RealErrorLogged, Causes

LEMMA FleetNextInv == FleetInv /\ [FleetNext]_fleetVars => FleetInv'
<1> SUFFICES ASSUME FleetInv, [FleetNext]_fleetVars PROVE FleetInv'
  OBVIOUS
<1> USE FleetAssumption
<1>0. FleetTypeOK /\ Explained /\ m \in Models /\ pace \in Nat
  BY ModelType DEF FleetInv, FleetTypeOK
<1>1. CASE StartSpan
  <2>1. FleetTypeOK'
    BY <1>0, <1>1 DEF StartSpan, Logged, FleetTypeOK, Causes
  <2>2. Explained'
    BY <1>0, <1>1 DEF StartSpan, Logged, FleetTypeOK, Explained, RealErrorLogged, m
  <2> QED BY <2>1, <2>2 DEF FleetInv
<1>2. CASE Call
  <2>1. PICK u \in {"unset", "count", "null"} : span' = [span EXCEPT ![m] = u]
    <3>1. CASE UNCHANGED span
      BY <1>0, <1>2, <3>1 DEF Call, Explained, FleetTypeOK
    <3> QED BY <1>2, <3>1 DEF Call
  <2>2. FleetTypeOK'
    BY <1>0, <1>2, <2>1 DEF Call, Raised, FleetTypeOK, Causes
  <2>3. CASE at' = "close"
    <3>1. cause' = "none" /\ span'[m] # "none" /\ ~ finished'
      BY <1>0, <1>2, <2>1, <2>3 DEF Call, Raised, Explained, FleetTypeOK
    <3> QED BY <1>2, <2>2, <2>3, <3>1 DEF Call, FleetInv, Explained, RealErrorLogged, m
  <2>4. CASE at' = "handle"
    <3>1. cause' # "none" /\ span'[m] = "unset"
      BY <1>0, <1>2, <2>4 DEF Call, Raised, Explained, FleetTypeOK
    <3>2. FinishError(m)' = "none"
      BY <1>2, <3>1 DEF Call, FinishError, m
    <3> QED BY <1>2, <2>2, <2>4, <3>1, <3>2 DEF Call, FleetInv, Explained, RealErrorLogged
  <2> QED BY <1>2, <2>3, <2>4 DEF Call, Raised
<1>3. CASE CloseSpan
  <2>1. CASE FinishError(m) = "none"
    <3>1. FleetTypeOK'
      BY <1>0, <1>3, <2>1, FinishType DEF CloseSpan, FleetTypeOK
    <3> QED BY <1>0, <1>3, <2>1, <3>1 DEF CloseSpan, FleetInv, Explained, RealErrorLogged
  <2>2. CASE FinishError(m) # "none"
    <3>1. /\ at' = "handle" /\ cause' = FinishError(m) /\ FinishError(m) = "type"
          /\ UNCHANGED <<turn, span>>
      BY <1>0, <1>3, <2>2 DEF CloseSpan, Raised, FinishError, Explained
    <3>2. FinishError(m)' = FinishError(m)
      BY <3>1 DEF FinishError, m
    <3>3. FleetTypeOK'
      BY <1>0, <1>3, <2>2, <3>1 DEF CloseSpan, Raised, FleetTypeOK, Causes
    <3> QED BY <2>2, <3>1, <3>2, <3>3 DEF FleetInv, Explained, RealErrorLogged
  <2> QED BY <2>1, <2>2
<1>4. CASE Handle
  <2>1. /\ at' = "next" /\ line' = cause /\ cause' = cause /\ cause \in Causes
    BY <1>0, <1>4 DEF Handle, Logged, MustClose, Explained, FleetTypeOK
  <2>2. FleetTypeOK'
    <3>1. /\ queue' \in [Models -> 0 .. MaxStaged]
          /\ span' \in [Models -> {"none", "unset", "count", "null"}]
          /\ finished' \in BOOLEAN
      <4>1. CASE Finish(m) /\ finished' = TRUE
        BY <1>0, <4>1, FinishType
      <4>2. CASE UNCHANGED <<span, queue, finished>>
        BY <1>0, <4>2 DEF FleetTypeOK
      <4> QED BY <1>4, <4>1, <4>2 DEF Handle
    <3> QED BY <1>0, <1>4, <2>1, <3>1 DEF Handle, FleetTypeOK
  <2> QED BY <2>1, <2>2 DEF FleetInv, Explained, RealErrorLogged
<1>5. CASE Flush
  <2>1. /\ at' \in {"next", "post"} /\ cause' = cause /\ finished' = finished
        /\ cause = "none" /\ finished
    BY <1>0, <1>5 DEF Flush, Logged, Explained
  <2>2. PICK a \in [spent : 0 .. DailyBudget, start : -Day .. 0] :
          a = ResetIfNeeded(accounts[m], 0)
    BY <1>0, FleetAccountType DEF FleetTypeOK
  <2>3. \/ UNCHANGED <<queue, accounts, flushed>> /\ line' = "accumulating"
        \/ /\ Affordable(a) /\ accounts' = [accounts EXCEPT ![m] = Charged(a)]
           /\ flushed' = [flushed EXCEPT ![m] = 0]
           /\ queue' = [queue EXCEPT ![m] = 0] /\ UNCHANGED line
        \/ /\ accounts' = [accounts EXCEPT ![m] = a]
           /\ queue' = [queue EXCEPT ![m] = 0]
           /\ line' = "budget_exceeded" /\ UNCHANGED flushed
    BY <1>5, <2>2 DEF Flush, Logged, Taken
  <2>4. accounts' \in [Models -> [spent : 0 .. DailyBudget, start : -Day .. 0]]
    <3>1. Affordable(a) => Charged(a) \in [spent : 0 .. DailyBudget, start : -Day .. 0]
      BY FleetAccountType
    <3> QED BY <1>0, <2>2, <2>3, <3>1 DEF FleetTypeOK
  <2>5. /\ queue' \in [Models -> 0 .. MaxStaged]
        /\ flushed' \in [Models -> -pace .. 0 \cup {NotYet}]
        /\ line' \in Causes \cup {"ok", "accumulating", "budget_exceeded"}
    <3>1. 0 \in -pace .. 0 /\ 0 \in 0 .. MaxStaged
      BY <1>0
    <3>2. queue' \in [Models -> 0 .. MaxStaged]
      <4>1. queue \in [Models -> 0 .. MaxStaged]
        BY <1>0 DEF FleetTypeOK
      <4>2. queue' = queue \/ queue' = [queue EXCEPT ![m] = 0]
        BY <2>3
      <4> QED BY <3>1, <4>1, <4>2
    <3>3. flushed' \in [Models -> -pace .. 0 \cup {NotYet}]
      <4>1. flushed \in [Models -> -pace .. 0 \cup {NotYet}]
        BY <1>0 DEF FleetTypeOK
      <4>2. flushed' = flushed \/ flushed' = [flushed EXCEPT ![m] = 0]
        BY <2>3
      <4> QED BY <3>1, <4>1, <4>2
    <3>4. line' \in Causes \cup {"ok", "accumulating", "budget_exceeded"}
      <4>1. line \in Causes \cup {"ok", "accumulating", "budget_exceeded"}
        BY <1>0 DEF FleetTypeOK
      <4> QED BY <2>3, <4>1
    <3> QED BY <3>2, <3>3, <3>4
  <2>6. FleetTypeOK'
    BY <1>0, <1>5, <2>1, <2>4, <2>5 DEF Flush, FleetTypeOK
  <2>7. cause' = "none" /\ finished'
    BY <2>1
  <2>8. Explained'
    <3>1. at' # "call" /\ at' # "close" /\ at' # "handle"
      BY <2>1
    <3> QED BY <2>7, <3>1 DEF Explained, RealErrorLogged
  <2> QED BY <2>6, <2>8 DEF FleetInv
<1>6. CASE Post
  <2>1. FleetTypeOK'
    BY <1>0, <1>6 DEF Post, Logged, Raised, FleetTypeOK, Causes
  <2>2. \/ at' = "next" /\ cause' = "none"
        \/ at' = "handle" /\ cause' # "none" /\ finished'
    BY <1>0, <1>6 DEF Post, Logged, Raised, Explained
  <2> QED BY <2>1, <2>2 DEF FleetInv, Explained, RealErrorLogged
<1>7. CASE NextModel
  <2>1. DOMAIN Fleet = 1 .. Len(Fleet) /\ Len(Fleet) \in Nat
    BY DEF FleetAssumption
  <2>2. turn' \in DOMAIN Fleet
    <3>1. PICK n \in Nat : n = Len(Fleet) /\ turn \in 1 .. n
      BY <1>0, <2>1 DEF FleetTypeOK
    <3>2. turn' = turn \/ (turn # n /\ turn' = turn + 1)
      BY <1>7, <3>1 DEF NextModel
    <3>3. turn' \in 1 .. n
      BY <3>1, <3>2
    <3> QED BY <2>1, <3>1, <3>3
  <2>3. FleetTypeOK'
    BY <1>0, <1>7, <2>2 DEF NextModel, FleetTypeOK
  <2>4. Explained'
    <3>1. at' \in {"sleep", "start"} /\ cause' = cause /\ line' = line
      BY <1>7 DEF NextModel
    <3>2. cause # "none" => line = cause
      BY <1>0, <1>7 DEF NextModel, Explained, RealErrorLogged
    <3> QED BY <3>1, <3>2 DEF Explained, RealErrorLogged
  <2> QED BY <2>3, <2>4 DEF FleetInv
<1>8. CASE Sleep
  <2>1. PICK d \in MinSleep .. MaxSleep :
          /\ accounts' = [x \in Models |-> [accounts[x] EXCEPT !.start = Back(@, d, Day)]]
          /\ flushed' = [x \in Models |-> IF flushed[x] = NotYet THEN NotYet
                                          ELSE Back(flushed[x], d, pace)]
    BY <1>8 DEF Sleep
  <2>2. d \in Nat /\ Day \in Nat
    BY BudgetAssumption
  <2>3. accounts' \in [Models -> [spent : 0 .. DailyBudget, start : -Day .. 0]]
    BY <1>0, <2>1, <2>2, BackType DEF FleetTypeOK
  <2>4. flushed' \in [Models -> -pace .. 0 \cup {NotYet}]
    BY <1>0, <2>1, <2>2, BackType DEF FleetTypeOK, NotYet
  <2>5. turn' \in DOMAIN Fleet
    BY <1>8 DEF Sleep
  <2> QED
    BY <1>0, <1>8, <2>3, <2>4, <2>5
       DEF Sleep, FleetInv, FleetTypeOK, Explained, RealErrorLogged
<1>9. CASE UNCHANGED fleetVars
  <2>1. FleetTypeOK'
    BY <1>0, <1>9 DEF fleetVars, FleetTypeOK
  <2>2. Explained'
    BY <1>0, <1>9 DEF fleetVars, Explained, RealErrorLogged, m, FinishError
  <2> QED BY <2>1, <2>2 DEF FleetInv
<1> HIDE FleetAssumption
<1> QED BY <1>1, <1>2, <1>3, <1>4, <1>5, <1>6, <1>7, <1>8, <1>9 DEF FleetNext

\* The loop of main keeps its shape for any models, paces and sleeps, and no
\* account of a model ever holds more than the daily budget.
THEOREM FleetTypeCorrect == FleetSpec => []FleetTypeOK
<1>1. FleetInv => FleetTypeOK
  BY DEF FleetInv
<1> QED BY <1>1, FleetInitInv, FleetNextInv, PTL DEF FleetSpec

\* What probe_model raised is what its log line says: no handler and no guard
\* hides a failure behind the complaint about a span that is closed already.
THEOREM RealErrorCorrect == FleetSpec => []RealErrorLogged
<1>1. FleetInv => RealErrorLogged
  BY DEF FleetInv, Explained
<1> QED BY <1>1, FleetInitInv, FleetNextInv, PTL DEF FleetSpec

\* The k-th charge of a model's window comes no earlier than k - 1 paces into
\* it; a window that is a day old is due, and what is further back is forgotten.
ModelPaced(x) ==
  \E k \in Nat :
    /\ accounts[x].spent = k * Epsilon
    /\ k > 0 /\ accounts[x].start # -Day =>
         /\ flushed[x] # NotYet
         /\ flushed[x] >= accounts[x].start + (k - 1) * pace

NeverExhausted == pace >= RecommendedInterval => line # "budget_exceeded"

AllPaced ==
  pace >= RecommendedInterval =>
    line # "budget_exceeded" /\ \A x \in Models : ModelPaced(x)

LEMMA PacedFlush == ASSUME FleetInv, AllPaced, Flush PROVE AllPaced'
<1> USE BudgetAssumption
<1>0. /\ m \in Models /\ pace \in Nat /\ pace' = pace
      /\ accounts \in [Models -> [spent : 0 .. DailyBudget, start : -Day .. 0]]
      /\ flushed \in [Models -> -pace .. 0 \cup {NotYet}]
  BY ModelType, FleetAssumption DEF FleetInv, FleetTypeOK, Flush
<1> SUFFICES ASSUME pace >= RecommendedInterval
             PROVE  line' # "budget_exceeded" /\ \A x \in Models : ModelPaced(x)'
  BY <1>0 DEF AllPaced
<1>1. PICK y \in Models : y = m
  BY <1>0
<1>2. PICK b \in [spent : 0 .. DailyBudget, start : -Day .. 0] : b = accounts[y]
  BY <1>0
<1>3. PICK a \in [spent : 0 .. DailyBudget, start : -Day .. 0] : a = ResetIfNeeded(b, 0)
  BY FleetAccountType
<1>4. CASE Accumulating(m)
  <2>1. UNCHANGED <<accounts, flushed>> /\ line' = "accumulating"
    BY <1>4 DEF Flush, Logged
  <2> QED BY <1>0, <2>1 DEF AllPaced, ModelPaced
<1>5. CASE ~ Accumulating(m)
  <2>1. PICK k \in Nat :
          /\ b.spent = k * Epsilon
          /\ k > 0 /\ b.start # -Day =>
               flushed[y] # NotYet /\ flushed[y] >= b.start + (k - 1) * pace
    BY <1>2 DEF AllPaced, ModelPaced
  <2>2. PICK j \in Nat : a.spent = j * Epsilon /\ a.start + j * pace <= 0 /\ Affordable(a)
    <3>1. CASE b.start = -Day
      <4>1. a = [spent |-> 0, start |-> 0]
        BY <1>3, <3>1 DEF ResetIfNeeded, Due, Fresh
      <4>2. a.spent = 0 * Epsilon /\ a.start + 0 * pace <= 0 /\ Affordable(a)
        BY <1>0, <4>1 DEF Affordable
      <4> QED BY <4>2
    <3>2. CASE b.start # -Day
      <4>1. a = b /\ b.start > -Day /\ b.start <= 0
        BY <1>3, <3>2 DEF ResetIfNeeded, Due
      <4>2. k * pace \in Nat /\ (k > 0 => (k - 1) * pace \in Nat /\ (k - 1) * pace + pace = k * pace)
        BY <1>0
      <4>3. b.start + k * pace <= 0
        <5>1. CASE k = 0
          BY <1>0, <4>1, <5>1
        <5>2. CASE k > 0
          <6>1. flushed[y] # NotYet /\ flushed[y] >= b.start + (k - 1) * pace
            BY <2>1, <3>2, <5>2
          <6>2. flushed[y] \in Int /\ - flushed[y] >= pace
            BY <1>0, <1>1, <1>5, <6>1, WindowBounds DEF Accumulating, NotYet
          <6> QED BY <1>0, <4>2, <5>2, <6>1, <6>2
        <5> QED BY <5>1, <5>2
      <4>4. Affordable(b)
        <5> SUFFICES ASSUME ~ Affordable(b) PROVE FALSE
          OBVIOUS
        <5>1. k >= FlushesPerWindow
          BY <2>1, WindowBounds DEF Affordable
        <5>2. k * pace >= FlushesPerWindow * RecommendedInterval
          BY <1>0, <5>1, WindowBounds, TimesMonotone
        <5>3. FlushesPerWindow * RecommendedInterval \in Nat
          BY WindowBounds
        <5> QED BY <4>1, <4>2, <4>3, <5>2, <5>3, WindowBounds
      <4> QED BY <2>1, <4>1, <4>3, <4>4
    <3> QED BY <3>1, <3>2
  <2>3. /\ accounts' = [accounts EXCEPT ![y] = Charged(a)]
        /\ flushed' = [flushed EXCEPT ![y] = 0] /\ line' = line
    BY <1>1, <1>2, <1>3, <1>5, <2>2 DEF Flush
  <2>4. Charged(a) = [spent |-> (j + 1) * Epsilon, start |-> a.start]
    BY <2>2 DEF Charged
  <2>5. ModelPaced(y)'
    <3>1. accounts'[y].spent = (j + 1) * Epsilon /\ accounts'[y].start = a.start
      BY <1>0, <2>3, <2>4
    <3>2. PICK e \in Nat : e = j + 1
      OBVIOUS
    <3>3. (e - 1) * pace = j * pace
      BY <3>2
    <3>4. flushed'[y] = 0 /\ 0 # NotYet /\ 0 >= a.start + (e - 1) * pace
      <4>1. flushed'[y] = 0 /\ 0 # NotYet
        BY <1>0, <2>3 DEF NotYet
      <4>2. 0 >= a.start + j * pace
        BY <1>0, <2>2
      <4> QED BY <3>3, <4>1, <4>2
    <3>5. accounts'[y].spent = e * Epsilon
      BY <3>1, <3>2
    <3>6. /\ flushed'[y] # NotYet
          /\ flushed'[y] >= accounts'[y].start + (e - 1) * pace'
      BY <1>0, <3>1, <3>4
    <3> QED BY <3>5, <3>6 DEF ModelPaced, NotYet
  <2>6. ASSUME NEW x \in Models, x # y PROVE ModelPaced(x)'
    <3>1. accounts'[x] = accounts[x] /\ flushed'[x] = flushed[x]
      BY <1>0, <2>3, <2>6
    <3> QED BY <1>0, <3>1 DEF AllPaced, ModelPaced
  <2> QED BY <2>3, <2>5, <2>6 DEF AllPaced
<1> QED BY <1>4, <1>5

\* Going back in time by a sleep keeps the distances that matter.
LEMMA PacedSleep == ASSUME FleetInv, AllPaced, Sleep PROVE AllPaced'
<1> USE BudgetAssumption
<1>0. /\ pace \in Nat /\ pace' = pace /\ line' = line
      /\ accounts \in [Models -> [spent : 0 .. DailyBudget, start : -Day .. 0]]
      /\ flushed \in [Models -> -pace .. 0 \cup {NotYet}]
  BY FleetAssumption DEF FleetInv, FleetTypeOK, Sleep
<1> SUFFICES ASSUME pace >= RecommendedInterval, NEW x \in Models
             PROVE  ModelPaced(x)'
  BY <1>0 DEF AllPaced
<1>1. PICK d \in MinSleep .. MaxSleep :
        /\ accounts' = [y \in Models |-> [accounts[y] EXCEPT !.start = Back(@, d, Day)]]
        /\ flushed' = [y \in Models |-> IF flushed[y] = NotYet THEN NotYet
                                        ELSE Back(flushed[y], d, pace)]
  BY DEF Sleep
<1>2. d \in Nat
  BY FleetAssumption
<1>3. PICK s \in -Day .. 0, f \in -pace .. 0 \cup {NotYet}, k \in Nat :
        /\ s = accounts[x].start /\ f = flushed[x] /\ accounts[x].spent = k * Epsilon
        /\ k > 0 /\ s # -Day => f # NotYet /\ f >= s + (k - 1) * pace
  BY <1>0 DEF AllPaced, ModelPaced
<1>4. /\ accounts'[x].spent = k * Epsilon /\ accounts'[x].start = Back(s, d, Day)
      /\ flushed'[x] = IF f = NotYet THEN NotYet ELSE Back(f, d, pace)
  BY <1>0, <1>1, <1>3
<1>5. ASSUME k > 0, Back(s, d, Day) # -Day
      PROVE  /\ flushed'[x] # NotYet
             /\ flushed'[x] >= Back(s, d, Day) + (k - 1) * pace
  <2>1. Back(s, d, Day) = s - d /\ s # -Day
    BY <1>2, <1>5, BackType
  <2>2. f \in -pace .. 0 /\ f >= s + (k - 1) * pace
    BY <1>3, <1>5, <2>1
  <2>3. flushed'[x] = Back(f, d, pace) /\ f # NotYet
    BY <1>0, <1>4, <2>2 DEF NotYet
  <2>4. Back(f, d, pace) \in -pace .. 0 /\ Back(f, d, pace) >= f - d
    BY <1>0, <1>2, <2>2, BackType
  <2>5. (k - 1) * pace \in Int
    BY <1>0
  <2> QED BY <1>0, <1>2, <2>1, <2>2, <2>3, <2>4, <2>5 DEF NotYet
<1> QED BY <1>0, <1>4, <1>5 DEF ModelPaced

\* With the recommended pace no model of the fleet ever finds its budget
\* exhausted, however long the rounds are ("the probe transmits continuously
\* within budget", main).
THEOREM PaceCorrect == FleetSpec => []NeverExhausted
<1>1. FleetInit => AllPaced
  <2> SUFFICES ASSUME FleetInit, NEW x \in Models PROVE ModelPaced(x)
    BY DEF FleetInit, AllPaced
  <2>1. accounts[x].spent = 0 * Epsilon
    BY BudgetAssumption DEF FleetInit, Fresh
  <2> QED BY <2>1 DEF ModelPaced
<1>2. FleetInv /\ AllPaced /\ [FleetNext]_fleetVars => AllPaced'
  <2> SUFFICES ASSUME FleetInv, AllPaced, [FleetNext]_fleetVars PROVE AllPaced'
    OBVIOUS
  <2>1. CASE Flush \/ Sleep
    BY <2>1, PacedFlush, PacedSleep
  <2>2. CASE StartSpan \/ Call \/ CloseSpan \/ Handle \/ Post \/ NextModel \/ UNCHANGED fleetVars
    <3>1. UNCHANGED <<pace, accounts, flushed>>
      BY <2>2 DEF StartSpan, Call, CloseSpan, Handle, Post, NextModel, fleetVars
    <3>2. line' = line \/ line' \in Causes \cup {"ok"}
      BY <2>2 DEF StartSpan, Call, CloseSpan, Handle, Post, NextModel, fleetVars, Logged,
                  Raised, FinishError, Causes, FleetInv, FleetTypeOK
    <3> QED BY <3>1, <3>2 DEF AllPaced, ModelPaced, Causes
  <2> QED BY <2>1, <2>2 DEF FleetNext
<1>3. AllPaced => NeverExhausted
  BY DEF AllPaced, NeverExhausted
<1>4. FleetSpec => []FleetInv
  BY FleetInitInv, FleetNextInv, PTL DEF FleetSpec
<1> QED BY <1>1, <1>2, <1>3, <1>4, PTL DEF FleetSpec
=============================================================================
