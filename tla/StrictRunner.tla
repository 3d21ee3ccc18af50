----------------------------- MODULE StrictRunner -----------------------------
(***************************************************************************)
(* execute_canary_strict of probe/canary.py: a suite is run prompt by      *)
(* prompt, paced, with retries of transient failures under one backoff     *)
(* budget for the whole run, and is returned complete or not at all.       *)
(*                                                                         *)
(* Times are in the unit of the constants (the code's milliseconds); the   *)
(* environment sets them and may set them below zero.                      *)
(***************************************************************************)
EXTENDS CanarySuite

CONSTANTS
  RunnerSuite,      \* the suite of a run
  SuiteVersion,     \* the version stamped on its results
  DelayMs,          \* delay_ms
  MaxRetries,       \* max_retries
  BackoffBaseMs,    \* backoff_base_ms
  MaxBackoffMs,     \* max_total_backoff_ms
  Exchanges         \* what the endpoint may answer

ASSUME RunnerAssumption ==
  /\ RunnerSuite \in Seq(ToSet(RunnerSuite))
  /\ DelayMs \in Int /\ MaxRetries \in Int
  /\ BackoffBaseMs \in Int /\ MaxBackoffMs \in Int

VARIABLES
  stage,     \* "idle", "pace", "call", "returned", "partial", "misconfigured"
  mock,      \* offline?
  provider,  \* what the provider object offers
  index,     \* the prompt being served
  attempt,   \* failures of this prompt so far
  spent,     \* backoff_spent_ms
  slept,     \* history: the time given to the sleeper
  results,   \* what the run has gathered
  failed     \* the ids of the prompts given up

runnerVars ==
  <<stage, mock, provider, index, attempt, spent, slept, results, failed>>

RunnerInit ==
  /\ stage = "idle"
  /\ mock = FALSE
  /\ provider = "none"
  /\ index = 1
  /\ attempt = 0
  /\ spent = 0
  /\ slept = 0
  /\ results = <<>>
  /\ failed = <<>>

-----------------------------------------------------------------------------
(* Retries and pacing.                                                     *)

TransientStatusCodes == {429, 503}

IsTransient(error) == error.status \in TransientStatusCodes

Backoff(n) == BackoffBaseMs * 2 ^ (n - 1)

Least(a, b) == IF a <= b THEN a ELSE b

WaitUncapped(n) == Backoff(n)

Wait(n) == Least(Backoff(n), MaxBackoffMs - spent)

NotNegative(t) == IF t > 0 THEN t ELSE 0

\* What an operator sizes a leg with.
PacingBudget ==
  (IF Len(RunnerSuite) <= 1 THEN 0 ELSE (Len(RunnerSuite) - 1) * NotNegative(DelayMs))
    + NotNegative(MaxBackoffMs)

Pauses(i) == IF i > 1 /\ DelayMs > 0 THEN DelayMs ELSE 0

GivesUp(error, n) ==
  \/ n > MaxRetries
  \/ Wait(n) <= 0
  \/ ~IsTransient(error)

-----------------------------------------------------------------------------
(* A run.                                                                  *)

\* What the object passed in offers.
Providers == {"none", "complete", "complete_ex"}

\* A run starts, with a new provider; configuration errors are raised first.
StartRun ==
  /\ stage = "idle"
  /\ mock' \in BOOLEAN
  /\ provider' \in Providers
  /\ stage' = IF Misconfigured(RunnerSuite, mock', provider')
              THEN "misconfigured" ELSE "pace"
  /\ index' = 1
  /\ attempt' = 0
  /\ spent' = 0
  /\ slept' = 0
  /\ results' = <<>>
  /\ failed' = <<>>

Current == RunnerSuite[index]

\* Between two prompts, never before the first.
Pace ==
  /\ stage = "pace"
  /\ index <= Len(RunnerSuite)
  /\ slept' = slept + Pauses(index)
  /\ stage' = "call"
  /\ attempt' = 0
  /\ UNCHANGED <<mock, provider, index, spent, results, failed>>

Answered(x) ==
  LET one == ExecuteOne(Current, SuiteVersion, mock, provider, x)
  IN  /\ stage = "call"
      /\ one.ok
      /\ results' = Append(results, one.result)
      /\ index' = index + 1
      /\ stage' = "pace"
      /\ UNCHANGED <<mock, provider, attempt, spent, slept, failed>>

Failed(x) ==
  LET one == ExecuteOne(Current, SuiteVersion, mock, provider, x)
  IN  /\ stage = "call"
      /\ ~one.ok
      /\ attempt' = attempt + 1
      /\ IF GivesUp(one.error, attempt')
         THEN /\ failed' = Append(failed, Current.id)
              /\ index' = index + 1
              /\ stage' = "pace"
              /\ UNCHANGED <<spent, slept>>
         ELSE /\ spent' = spent + Wait(attempt')
              /\ slept' = slept + Wait(attempt')
              /\ UNCHANGED <<failed, index, stage>>
      /\ UNCHANGED <<mock, provider, results>>

IsPartialEmpty == results = <<>>

IsPartial == failed # <<>> \/ Len(results) # Len(RunnerSuite)

Finish ==
  /\ stage = "pace"
  /\ index > Len(RunnerSuite)
  /\ stage' = IF IsPartial THEN "partial" ELSE "returned"
  /\ UNCHANGED <<mock, provider, index, attempt, spent, slept, results, failed>>

\* The caller is done with the run, or is killed: its locals are gone.
EndRun ==
  /\ stage' = "idle"
  /\ mock' = FALSE
  /\ provider' = "none"
  /\ index' = 1
  /\ attempt' = 0
  /\ spent' = 0
  /\ slept' = 0
  /\ results' = <<>>
  /\ failed' = <<>>

Serve == Pace \/ (\E x \in Exchanges : Answered(x) \/ Failed(x)) \/ Finish

RunnerNext == StartRun \/ Serve \/ EndRun

RunnerSpec == RunnerInit /\ [][RunnerNext]_runnerVars

-----------------------------------------------------------------------------
(* What a run promises.                                                    *)

\* Every result a prompt of the suite can come to.
Gathered ==
  {o.result : o \in {q \in {ExecuteOne(p, SuiteVersion, m, v, x) :
                              p \in ToSet(RunnerSuite), m \in BOOLEAN,
                              v \in Providers, x \in Exchanges} :
                    q.ok}}

RunnerTypeOK ==
  /\ stage \in {"idle", "pace", "call", "returned", "partial", "misconfigured"}
  /\ mock \in BOOLEAN
  /\ provider \in Providers
  /\ index \in 1 .. Len(RunnerSuite) + 1
  /\ stage = "call" => index <= Len(RunnerSuite)
  /\ attempt \in Nat
  /\ spent \in Nat /\ slept \in Nat
  /\ results \in Seq(Gathered)
  /\ failed \in Seq({p.id : p \in ToSet(RunnerSuite)})

\* Retries are bounded for the whole run and pauses lie between prompts:
\* pacing_budget_ms is a bound on the time any run adds, whatever the
\* endpoint answers.
AddedTimeBounded == slept <= PacingBudget

\* The results are those of the suite, each of its own prompt, in order.
IsWholeRun(rs) ==
  /\ Len(rs) = Len(RunnerSuite)
  /\ \A i \in DOMAIN rs : rs[i].prompt_id = RunnerSuite[i].id

\* A run that returns returns the whole suite, and one that does not has an
\* id to show for it: PartialSuiteError never names nothing.
AllOrNothing ==
  /\ stage = "returned" => IsWholeRun(results)
  /\ stage = "partial" => failed # <<>>
=============================================================================
