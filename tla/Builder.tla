------------------------------ MODULE Builder -------------------------------
(***************************************************************************)
(* PipelineBuilder (src/pipeline.rs): its methods are called one after the *)
(* other, in any order, until `sink` or `try_sink` ends the building.  A   *)
(* setting applies to what is added after it, a name to the next addition  *)
(* only, and a bad setting is remembered - the first one - and makes the   *)
(* run refuse.                                                             *)
(*                                                                         *)
(* Left out: source_id and observe, which only replace a field; the types  *)
(* of the items; what a policy of batches or windows is beyond whether its *)
(* check accepts it (Batch and KeyedWindow model that).                    *)
(***************************************************************************)
EXTENDS Naturals, Sequences, FiniteSets

CONSTANTS
    MaxCalls,       \* bound: builder calls before the sink
    MaxLinks,       \* bound: stages in a chain
    Names,          \* the names given with stage_id
    Retries,        \* the retry policies given to try_map_retry, by name
    RetryPolicy     \* what each of them is: see RetryPolicies

None == "none"

ErrorPolicies == {"FailFast", "Continue", "DeadLetter"}

\* RetryPolicy and Backoff (src/retry.rs); durations are numbers.
RetryPolicies ==
    [max_attempts : Nat, backoff : {"None", "Fixed", "Exponential"},
     initial : Nat, max : Nat, jitter : BOOLEAN]

ASSUME BuilderAssumption ==
    /\ MaxCalls \in Nat /\ MaxLinks \in Nat
    /\ None \notin Names
    /\ RetryPolicy \in [Retries -> RetryPolicies]

\* How a stage is made: `map` stands for the five infallible transforms, and
\* `group` for batches and windows, which are infallible stages.
Transforms == {"map", "try_map", "try_map_ref", "try_map_retry", "stage", "group"}
Fallible == {"try_map", "try_map_ref", "try_map_retry", "stage"}

VARIABLES
    chain,              \* `finalize`: the stages added so far, in order
    error_policy,
    pending_stage_id,
    dead_letter,        \* whether a dead-letter sink is installed
    dead_letter_user,   \* the first stage that needs one
    config_error,       \* the first error recorded
    idle_tick,          \* whether the idle tick is enabled
    made,               \* "building", "pipeline", or "refused" by try_sink;
                        \* "started" once a driver has taken the pipeline
    methods             \* history: the calls made

builderVars == <<chain, error_policy, pending_stage_id, dead_letter,
                 dead_letter_user, config_error, idle_tick, made, methods>>

ConfigError(id, kind) == [stage |-> id, kind |-> kind]
NoError == ConfigError(None, None)

BuilderInit ==
    /\ chain = <<>>
    /\ error_policy = "FailFast"
    /\ pending_stage_id = None
    /\ dead_letter = FALSE
    /\ dead_letter_user = None
    /\ config_error = NoError
    /\ idle_tick = FALSE
    /\ made = "building"
    /\ methods = <<>>

-----------------------------------------------------------------------------
(* The internal helpers. *)

TakeStageId(default) ==
    IF pending_stage_id = None THEN default ELSE pending_stage_id

\* A slip: the latest error is reported.
RecordLast(bad, error) == IF bad THEN error ELSE config_error

\* What config_error becomes if the setting is `bad`.
Record(bad, error) ==
    IF bad /\ config_error = NoError THEN error ELSE config_error

NoteFallible(id) ==
    IF error_policy = "DeadLetter" /\ dead_letter_user = None
    THEN id ELSE dead_letter_user

\* A method is called; `what` and `arg` are for the history.
Method(what, arg) ==
    /\ made = "building"
    /\ Len(methods) < MaxCalls
    /\ methods' = Append(methods, [name |-> what, arg |-> arg])

-----------------------------------------------------------------------------
(* Settings. *)

StageId(n) ==
    /\ Method("stage_id", n)
    /\ pending_stage_id' = n
    /\ UNCHANGED <<chain, error_policy, dead_letter, dead_letter_user,
                   config_error, idle_tick, made>>

OnError(policy) ==
    /\ Method("on_error", policy)
    /\ error_policy' = policy
    /\ UNCHANGED <<chain, pending_stage_id, dead_letter, dead_letter_user,
                   config_error, idle_tick, made>>

DeadLetter ==
    /\ Method("dead_letter", None)
    /\ dead_letter' = TRUE
    /\ UNCHANGED <<chain, error_policy, pending_stage_id, dead_letter_user,
                   config_error, idle_tick, made>>

IdleTick(interval) ==
    /\ Method("idle_tick", interval)
    /\ config_error' = Record(interval = "zero", ConfigError("idle_tick", "ZeroDuration"))
    /\ idle_tick' = TRUE
    /\ UNCHANGED <<chain, error_policy, pending_stage_id, dead_letter,
                   dead_letter_user, made>>

-----------------------------------------------------------------------------
(* Stages. *)

\* link: the stage is appended, and a name that was not taken is forgotten.
Link(kind, id, retry) ==
    /\ Len(chain) < MaxLinks
    /\ chain' = Append(chain, [kind |-> kind, id |-> id, policy |-> error_policy,
                               retry |-> retry])
    /\ pending_stage_id' = None
    /\ UNCHANGED <<error_policy, dead_letter, idle_tick, made>>

\* map, filter, filter_map, flat_map, inspect: they take no name.
Map ==
    /\ Method("map", None)
    /\ Link("map", None, None)
    /\ UNCHANGED <<dead_letter_user, config_error>>

TryMap(kind) ==
    /\ Method(kind, None)
    /\ Link(kind, TakeStageId(kind), None)
    /\ dead_letter_user' = NoteFallible(TakeStageId(kind))
    /\ UNCHANGED config_error

TryMapRetry(retry) ==
    LET id == TakeStageId("try_map_retry")
        refused == RetryPolicy[retry].max_attempts = 0
    IN  /\ Method("try_map_retry", retry)
        /\ Link("try_map_retry", id, retry)
        /\ config_error' = Record(refused, ConfigError(id, "ZeroLimit"))
        /\ dead_letter_user' = NoteFallible(id)

\* batch, window and their variants, whose policy is checked at once.
Group(policy) ==
    /\ Method("group", policy)
    /\ Link("group", TakeStageId("group"), None)
    /\ config_error' = Record(policy = "bad", ConfigError(TakeStageId("group"), "BadPolicy"))
    /\ UNCHANGED dead_letter_user

\* buffer: on one thread the edge is a direct call and adds no stage.
Buffer(capacity) ==
    /\ Method("buffer", capacity)
    /\ config_error' = Record(capacity = "large",
                              ConfigError(TakeStageId("buffer"), "LimitTooLarge"))
    /\ pending_stage_id' = None
    /\ UNCHANGED <<chain, error_policy, dead_letter, dead_letter_user, idle_tick, made>>

-----------------------------------------------------------------------------
(* The end of the building. *)

Sink(ends) ==
    /\ made = "building"
    /\ config_error' = Record(dead_letter_user # None /\ ~dead_letter,
                              ConfigError(dead_letter_user, "DeadLetterSinkMissing"))
    /\ pending_stage_id' = None
    /\ made' = IF ends = "try_sink" /\ config_error' # NoError
               THEN "refused" ELSE "pipeline"
    /\ UNCHANGED <<chain, error_policy, dead_letter, dead_letter_user, idle_tick,
                   methods>>

BuilderNext ==
    \/ \E n \in Names : StageId(n)
    \/ \E policy \in ErrorPolicies : OnError(policy)
    \/ DeadLetter
    \/ \E interval \in {"zero", "some"} : IdleTick(interval)
    \/ Map
    \/ \E kind \in Fallible \ {"try_map_retry"} : TryMap(kind)
    \/ \E retry \in Retries : TryMapRetry(retry)
    \/ \E policy \in {"good", "bad"} : Group(policy)
    \/ \E capacity \in {"small", "large"} : Buffer(capacity)
    \/ \E ends \in {"sink", "try_sink"} : Sink(ends)

BuilderSpec == BuilderInit /\ [][BuilderNext]_builderVars

-----------------------------------------------------------------------------
(* The pipeline that a list of calls describes, read off the whole list. *)

AddsStage(k) == methods[k].name \in Transforms
TakesName(k) == AddsStage(k) \/ methods[k].name = "buffer"

\* The latest of some calls, or 0.
Latest(calls) == IF calls = {} THEN 0 ELSE CHOOSE j \in calls : \A i \in calls : i <= j

PolicyAt(k) ==
    LET j == Latest({i \in 1..(k - 1) : methods[i].name = "on_error"})
    IN  IF j = 0 THEN "FailFast" ELSE methods[j].arg

\* A name is for the next addition, whether that has use for it or not.
NameAt(k) ==
    LET j == Latest({i \in 1..(k - 1) : methods[i].name = "stage_id"})
        taken == Latest({i \in 1..(k - 1) : TakesName(i)})
    IN  IF j > taken THEN methods[j].arg ELSE methods[k].name

StageAt(k) ==
    LET name == methods[k].name IN
    [kind |-> name,
     id |-> IF name = "map" THEN None ELSE NameAt(k),
     policy |-> PolicyAt(k),
     retry |-> IF name = "try_map_retry" THEN methods[k].arg ELSE None]

ErrorAt(k) ==
    LET name == methods[k].name
        arg == methods[k].arg
    IN  CASE name = "idle_tick" /\ arg = "zero" -> ConfigError("idle_tick", "ZeroDuration")
          [] name = "try_map_retry" /\ RetryPolicy[arg].max_attempts = 0 ->
                ConfigError(NameAt(k), "ZeroLimit")
          [] name = "group" /\ arg = "bad" -> ConfigError(NameAt(k), "BadPolicy")
          [] name = "buffer" /\ arg = "large" -> ConfigError(NameAt(k), "LimitTooLarge")
          [] OTHER -> NoError

\* How many stages the first k calls add, and so the place of the k-th if it adds one.
Place(k) == Cardinality({j \in 1..k : AddsStage(j)})

Least(S) == CHOOSE k \in S : \A j \in S : k <= j

\* Each stage has the policy set before it and the name given just for it;
\* the pipeline refuses to run exactly if a setting was bad or a stage needs
\* a dead-letter sink that no call installed, before or after it, and the
\* error names the first culprit.
AsCalled ==
    made \in {"pipeline", "refused"} =>
        LET calls == DOMAIN methods
            bad == {k \in calls : ErrorAt(k) # NoError}
            needy == {k \in calls : methods[k].name \in Fallible
                                        /\ PolicyAt(k) = "DeadLetter"}
            installed == \E k \in calls : methods[k].name = "dead_letter"
        IN  /\ Len(chain) = Place(Len(methods))
            /\ \A k \in calls : AddsStage(k) => chain[Place(k)] = StageAt(k)
            /\ config_error =
                 CASE bad # {} -> ErrorAt(Least(bad))
                   [] bad = {} /\ needy # {} /\ ~installed ->
                        ConfigError(NameAt(Least(needy)), "DeadLetterSinkMissing")
                   [] OTHER -> NoError
            /\ made = "refused" => config_error # NoError
=============================================================================
