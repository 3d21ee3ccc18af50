------------------------------- MODULE LiveEmit -------------------------------
(***************************************************************************)
(* scripts/live_emit.py: one leg of the scheduled live emission.  A run    *)
(* drains the spool, runs the suite, builds one signed batch and posts it; *)
(* its exit code is all the scheduler sees.                                *)
(*                                                                         *)
(* A batch is the results it aggregates; its id is its place in made.      *)
(* Runs are hours apart, so a request of one run has reached the gateway   *)
(* or is lost when the next one starts.                                    *)
(***************************************************************************)
EXTENDS StrictRunner

CONSTANTS
  KeepSpool,      \* SEISMOGRAPH_SPOOL_DIR is not "off"
  Keys,           \* the API keys a leg may be given
  MayRefuse,      \* may the gateway answer a 4xx other than 409?
  MaxRuns,        \* bound: runs of the leg
  MaxLegFaults    \* bound: failing requests and kills

ASSUME LegAssumption ==
  /\ KeepSpool \in BOOLEAN /\ MayRefuse \in BOOLEAN
  /\ MaxRuns \in Nat /\ MaxLegFaults \in Nat

VARIABLES
  leg,       \* "off", "drain", "construct", "probe", "post", "weather"
  runs,      \* runs started
  entries,   \* the spooled batches this drain has still to try
  backlog,   \* the spool, oldest first
  aside,     \* the spool's quarantine
  made,      \* history: the batches built
  held,      \* the gateway's rows, in order of insertion
  exit,      \* exit code of the last run; None before, and for a kill
  trouble    \* failing requests and kills so far

legVars == <<leg, runs, entries, backlog, aside, made, held, exit, trouble>>
liveVars == <<runnerVars, legVars>>

LegInit ==
  /\ leg = "off"
  /\ runs = 0
  /\ entries = <<>>
  /\ backlog = <<>>
  /\ aside = {}
  /\ made = <<>>
  /\ held = <<>>
  /\ exit = None
  /\ trouble = 0

-----------------------------------------------------------------------------
(* _post_status: what posting batch b may come to.                         *)

Ingested(b) == IF b \in ToSet(held) THEN held ELSE Append(held, b)

\* A status that says what happened to the batch.
Replied(b, status) ==
  /\ \/ /\ status = IF b \in ToSet(held) THEN "duplicate" ELSE "accepted"
        /\ held' = Ingested(b)
     \/ /\ status = "refused"
        /\ MayRefuse
        /\ UNCHANGED held
  /\ UNCHANGED trouble

\* A 5xx, or no status at all, before or after the row was written.
Unclear(b) ==
  /\ trouble < MaxLegFaults
  /\ trouble' = trouble + 1
  /\ held' \in {held, Ingested(b)}

Exit(status) == leg' = "off" /\ exit' = status

-----------------------------------------------------------------------------
(* main                                                                    *)

StartLeg ==
  /\ leg = "off"
  /\ runs < MaxRuns
  /\ runs' = runs + 1
  /\ leg' = IF KeepSpool THEN "drain" ELSE "construct"
  /\ entries' = IF KeepSpool THEN backlog ELSE <<>>
  /\ exit' = None
  /\ UNCHANGED <<runnerVars, backlog, aside, made, held, trouble>>

Entry == Head(entries)

Forgotten == RemoveFirst(backlog, Entry)

\* Spool.drain: the oldest entry first; what is delivered or refused leaves
\* the spool, anything else ends the drain but not the run.
DrainOne ==
  /\ leg = "drain"
  /\ entries # <<>>
  /\ \/ \E status \in {"accepted", "duplicate"} :
          /\ Replied(Entry, status)
          /\ backlog' = Forgotten
          /\ entries' = Tail(entries)
          /\ UNCHANGED aside
     \/ /\ Replied(Entry, "refused")
        /\ backlog' = Forgotten
        /\ aside' = aside \cup {Entry}
        /\ entries' = Tail(entries)
     \/ /\ Unclear(Entry)
        /\ entries' = <<>>
        /\ UNCHANGED <<backlog, aside>>
  /\ UNCHANGED <<runnerVars, leg, runs, made, exit>>

DrainedAtOnce ==
  /\ leg = "drain"
  /\ leg' = "construct"
  /\ UNCHANGED <<runnerVars, runs, entries, backlog, aside, made, held, exit, trouble>>

Drained ==
  /\ leg = "drain"
  /\ entries = <<>>
  /\ leg' = "construct"
  /\ UNCHANGED <<runnerVars, runs, entries, backlog, aside, made, held, exit, trouble>>

\* The provider is made and the strict run begins.
BeginProbe(key) ==
  /\ leg = "construct"
  /\ IF KeyRefused(key)
     THEN Exit(1) /\ UNCHANGED runnerVars
     ELSE /\ StartRun /\ ~mock' /\ provider' = "complete_ex"
          /\ leg' = "probe"
          /\ UNCHANGED exit
  /\ UNCHANGED <<runs, entries, backlog, aside, made, held, trouble>>

Probe == leg = "probe" /\ Serve /\ UNCHANGED legVars

\* A partial run is discarded.
Discard ==
  /\ leg = "probe"
  /\ stage = "partial"
  /\ Exit(1)
  /\ EndRun
  /\ UNCHANGED <<runs, entries, backlog, aside, made, held, trouble>>

\* build_signed_request: a fresh Aggregator over the results of the run.
BuildSignedRequest ==
  /\ leg = "probe"
  /\ stage = "returned"
  /\ made' = Append(made, results)
  /\ leg' = "post"
  /\ EndRun
  /\ UNCHANGED <<runs, entries, backlog, aside, held, exit, trouble>>

\* deliver keeps the batch for the next run, if there is a spool.
Spooled(b) == KeepSpool /\ backlog' = Append(backlog, b)

\* It is not kept: there is no spool, or _post_status raised what deliver does not
\* catch, when the body of an answer ends early or that of an error times out.
Escaped == UNCHANGED backlog

DeliverSpooledIsFine ==
  LET b == Len(made)
  IN  /\ leg = "post"
      /\ \/ /\ \E status \in {"accepted", "duplicate"} : Replied(b, status)
            /\ leg' = "weather"
            /\ UNCHANGED <<backlog, exit>>
         \/ /\ Unclear(b)
            /\ Spooled(b) \/ Escaped
            /\ Exit(0)
      /\ UNCHANGED <<runnerVars, runs, entries, aside, made>>

Deliver ==
  LET b == Len(made)
  IN  /\ leg = "post"
      /\ \/ /\ \E status \in {"accepted", "duplicate"} : Replied(b, status)
            /\ leg' = "weather"
            /\ UNCHANGED <<backlog, exit>>
         \/ /\ Replied(b, "refused")
            /\ Exit(1)
            /\ UNCHANGED backlog
         \/ /\ Unclear(b)
            /\ Spooled(b) \/ Escaped
            /\ Exit(1)
      /\ UNCHANGED <<runnerVars, runs, entries, aside, made>>

\* _weather_for: a read that times out half way is not caught.
ShowWeather ==
  /\ leg = "weather"
  /\ \/ Exit(0) /\ UNCHANGED trouble
     \/ /\ trouble < MaxLegFaults
        /\ trouble' = trouble + 1
        /\ Exit(1)
  /\ UNCHANGED <<runnerVars, runs, entries, backlog, aside, made, held>>

\* The job is cancelled or its host ends; a request being sent may arrive.
Kill ==
  /\ leg # "off"
  /\ trouble < MaxLegFaults
  /\ trouble' = trouble + 1
  /\ Exit(None)
  /\ EndRun
  /\ held' \in CASE leg = "post" -> {held, Ingested(Len(made))}
                 [] leg = "drain" /\ entries # <<>> -> {held, Ingested(Entry)}
                 [] OTHER -> {held}
  /\ UNCHANGED <<runs, entries, backlog, aside, made>>

LegNext ==
  \/ StartLeg \/ DrainOne \/ Drained
  \/ \E key \in Keys : BeginProbe(key)
  \/ Probe \/ Discard \/ BuildSignedRequest
  \/ Deliver \/ ShowWeather \/ Kill

-----------------------------------------------------------------------------
(* What a leg promises.                                                    *)

LegTypeOK ==
  /\ leg \in {"off", "drain", "construct", "probe", "post", "weather"}
  /\ runs \in 0 .. MaxRuns
  /\ trouble \in 0 .. MaxLegFaults
  /\ exit \in {None, 0, 1}
  /\ ToSet(held) \cup ToSet(backlog) \cup aside \subseteq DOMAIN made
  /\ leg = "post" => made # <<>>

\* Only whole runs leave the probe: a batch holds one result for every prompt
\* of the suite, in order, whatever failed, was retried or was killed before;
\* a format prompt alone scores JSON and a tool prompt alone a tool call.
WholeRunsOnly ==
  /\ AllOrNothing
  /\ \A b \in DOMAIN made :
       /\ IsWholeRun(made[b])
       /\ \A i \in DOMAIN made[b] :
            /\ made[b][i].tool_call_valid # None <=> IsTool(RunnerSuite[i])
            /\ made[b][i].json_valid => RunnerSuite[i].category = "structured_output"

\* Exit code 0 means that the gateway holds the batch of this run; the
\* scheduler sees nothing else.
ExitIsTruth == exit = 0 => Len(made) \in ToSet(held)

\* "An older batch reaches the gateway before a newer one": with a spool it
\* takes two failures to turn them round, one that spools a batch and one
\* that ends the next drain.
OlderFirst ==
  KeepSpool /\ (\E i, j \in DOMAIN held : i < j /\ held[i] > held[j])
    => trouble >= 2

LegSpec == RunnerInit /\ LegInit /\ [][LegNext]_liveVars
=============================================================================
