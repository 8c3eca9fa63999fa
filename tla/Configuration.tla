------------------------------ MODULE Configuration ------------------------------
(***************************************************************************)
(* From settings to a running router: the command line (main.rs) and the   *)
(* Python class (lib.rs) build a RouterConfig, config/validation.rs        *)
(* accepts or refuses it, and server::startup creates from it the routers, *)
(* the policies of their pools and the periodic tasks.  A floating-point   *)
(* setting is counted in halves (One stands for 1.0) and may be NaN,       *)
(* infinite, or Huge: finite, but more seconds than a Duration can hold.   *)
(* An URL list is its length and the schemes it mixes; texts (hosts,       *)
(* paths, keys) are left out.                                              *)
(***************************************************************************)
EXTENDS Parts

NaN == -100
Inf == 100
Huge == 90
One == 2
Finite(x) == x \notin {NaN, Inf}

\* IEEE comparisons: every one of them is false of NaN.
Less(x, y) == NaN \notin {x, y} /\ x < y
AtMost(x, y) == NaN \notin {x, y} /\ x <= y

PolicyNames == {"random", "round_robin", "cache_aware", "power_of_two",
                "consistent_hash", "rendezvous_hash", "smetric"}

(***************************************************************************)
(* Settings: CliArgs, or the Python Router, with their defaults, and the   *)
(* values every setting is tried with.                                     *)
(***************************************************************************)
WorkerDefaults ==
    [front |-> "cli", port |-> 1, workers |-> 2, schemes |-> {"http"},
     policy |-> "cache_aware", smetric_yaml |-> "none", kv_events |-> FALSE,
     kv_block_size |-> 16, tokenizer |-> FALSE, kv_endpoints |-> "none",
     scheduling |-> FALSE, scheduling_json |-> "none", pd |-> FALSE,
     prefill |-> 0, decode |-> 0, bootstrap |-> "none", vllm_discovery |-> FALSE,
     prefill_policy |-> "main", decode_policy |-> "main", startup_timeout |-> 1,
     startup_interval |-> 1, cache_threshold |-> 0, balance_rel |-> 3,
     eviction |-> 1, tree_size |-> 1, payload |-> 1, wasm |-> FALSE,
     wasm_digest |-> FALSE, backend |-> "vllm"]

ServiceDefaults ==
    [service_discovery |-> FALSE, discovery_port |-> 80, selector |-> FALSE,
     prefill_selector |-> FALSE, decode_selector |-> FALSE,
     prometheus_port |-> 1, request_timeout |-> 1, max_retries |-> 5,
     initial_backoff |-> 1, max_backoff |-> 3, multiplier |-> 3, jitter |-> 0,
     disable_retries |-> FALSE, cb_failures |-> 10, cb_successes |-> 3,
     cb_timeout |-> 1, cb_window |-> 1, disable_breaker |-> FALSE,
     igw |-> FALSE, kv_connector |-> "nixl"]

\* SMetricConfig, from the YAML file.
SMetricDefaults ==
    [c_lin |-> One, c_att |-> One, prefill_rate |-> One, slack |-> One,
     hit_ratio |-> One, slo_base |-> One, slo_per_char |-> One]

DefaultScheduling ==
    [strategy |-> "consistent_hash", token_capacity |-> "none",
     metrics_interval |-> One, queue_timeout |-> 6, force_resume |-> 4,
     retention |-> 8, turnovers |-> 4, acting_ttl |-> 4, warmup |-> 4,
     intercept |-> 0, alpha |-> 1, fixed_step |-> 1, virtual_nodes |-> 160,
     max_active |-> 64, window |-> 100, max_rounds |-> 14, cross_rank |-> 3,
     low |-> One, high |-> One]

Floats == {NaN, -1, 0, 1, 3, Huge, Inf}

(***************************************************************************)
(* The calibration of the cost models in the scheduling JSON: a field that *)
(* is given replaces its default, and a byte remembers which were given,   *)
(* so that the router can name the ones it runs with uncalibrated.         *)
(***************************************************************************)
\* The optional fields of PrefillCostModelInput and DecodeThroughputModelInput.
Calibrated == {"intercept", "linear", "quadratic", "alpha", "fixed", "batch", "context"}

Mask ==
    [intercept |-> 1, linear |-> 2, quadratic |-> 4, alpha |-> 8, fixed |-> 16,
     batch |-> 32, context |-> 64]

IsSet(byte, mask) == (byte \div mask) % 2 = 1

SetBit(byte, mask) == IF IsSet(byte, mask) THEN byte ELSE byte + mask

\* Deserialize for ProgramSchedulingConfig: given maps the fields of the JSON to
\* their values, which may well be those of the defaults.
ReadCalibration(given, default) ==
    [values |-> [f \in Calibrated |-> IF f \in DOMAIN given THEN given[f] ELSE default],
     explicit |-> FoldSet(LAMBDA f, byte : SetBit(byte, Mask[f]), 0, DOMAIN given)]

\* The configuration of a router that is given no JSON: Default.
UncalibratedDefaults(default) == ReadCalibration(<<>>, default)

DefaultedCalibrationFields(read) == {f \in Calibrated : ~IsSet(read.explicit, Mask[f])}

CalibrationInputs ==
    {[of |-> "calibration", given |-> g] :
        g \in UNION {[fields -> {0, 1}] : fields \in SUBSET Calibrated}}

(***************************************************************************)
(* CliArgs::to_router_config and Router::to_router_config.                 *)
(***************************************************************************)
Refused == [ok |-> FALSE]

\* parse_policy / convert_policy: the parameters a policy is given; SMetric's
\* come from its YAML file, which must have been loaded.
ParsePolicy(a, name) ==
    CASE name = "cache_aware" ->
           [type |-> name, threshold |-> a.cache_threshold,
            rel |-> a.balance_rel, eviction |-> a.eviction, tree |-> a.tree_size]
      [] name = "power_of_two" -> [type |-> name, interval |-> 5]
      [] name = "consistent_hash" -> [type |-> name, virtual_nodes |-> 160]
      [] name = "smetric" ->
           [type |-> name, loaded |-> a.smetric_yaml = "valid",
            weights |-> <<a.c_lin, a.c_att>>, rate |-> a.prefill_rate,
            slack |-> a.slack, hit_ratio |-> a.hit_ratio,
            slo |-> <<a.slo_base, a.slo_per_char>>, tree |-> a.tree_size]
      [] OTHER -> [type |-> name]

ParseOwnPolicy(a, name) ==
    IF name = "main" THEN [type |-> "main"] ELSE ParsePolicy(a, name)

\* The YAML file is given exactly when SMetric is selected, and is readable.
YamlIsConsistent(a) ==
    IF "smetric" \in {a.policy, a.prefill_policy} THEN a.smetric_yaml = "valid"
                                                   ELSE a.smetric_yaml = "none"

\* Where the workers come from must be said.
WorkersAreNamed(a) ==
    \/ a.igw
    \/ a.backend = "openai"
    \/ a.pd /\ \/ a.prefill > 0 \/ a.decode > 0 \/ a.vllm_discovery
               \/ a.service_discovery /\ (a.prefill_selector \/ a.decode_selector)
    \/ ~a.pd /\ (a.service_discovery \/ a.workers > 0)

CliMode(a) ==
    IF a.igw THEN [type |-> "regular", workers |-> 0, schemes |-> {}]
    ELSE IF a.front = "cli" /\ a.backend = "openai"
         THEN [type |-> "openai", workers |-> a.workers, schemes |-> a.schemes]
    ELSE IF a.pd
         THEN [type |-> "pd", prefill |-> a.prefill, decode |-> a.decode,
               bootstrap |-> a.bootstrap, discovery |-> a.vllm_discovery,
               schemes |-> a.schemes,
               prefill_policy |-> ParseOwnPolicy(a, a.prefill_policy),
               decode_policy |-> ParseOwnPolicy(a, a.decode_policy)]
    ELSE [type |-> "regular", workers |-> a.workers, schemes |-> a.schemes]

\* ProgramSchedulingConfig::resolve: <<is it accepted, is it enabled>>.
ResolveScheduling(a) ==
    IF a.scheduling THEN <<a.scheduling_json # "malformed", TRUE>>
                    ELSE <<a.scheduling_json = "none", FALSE>>

\* The KV-event options: only with their switch, and with a tokenizer.
ResolveKvEvents(a) ==
    IF a.kv_events
    THEN <<a.tokenizer /\ a.kv_endpoints \in {"none", "distinct"}, TRUE>>
    ELSE <<~a.tokenizer /\ a.kv_endpoints = "none", FALSE>>

Built(a, scheduling, kv_events) ==
    [ok |-> TRUE, mode |-> CliMode(a), policy |-> ParsePolicy(a, a.policy),
     igw |-> a.igw, kv_connector |-> a.kv_connector, set |-> a,
     discovery |-> a.service_discovery, scheduling |-> scheduling,
     kv_events |-> kv_events]

CliConfig(a) ==
    IF /\ YamlIsConsistent(a) /\ WorkersAreNamed(a)
       /\ ResolveScheduling(a)[1] /\ ResolveKvEvents(a)[1]
    THEN Built(a, ResolveScheduling(a)[2], ResolveKvEvents(a)[2])
    ELSE Refused

\* The Python class has no SMetric, no OpenAI backend and no KV events.
PythonConfig(a) ==
    IF ResolveScheduling(a)[1] /\ (a.wasm_digest => a.wasm)
    THEN Built(a, ResolveScheduling(a)[2], FALSE)
    ELSE Refused

ToRouterConfig(a) ==
    IF a.front = "cli" THEN CliConfig(a) ELSE PythonConfig(a)

(***************************************************************************)
(* ConfigValidator.                                                        *)
(***************************************************************************)
\* validate_urls and reject_mixed_worker_urls.
ValidateUrls(schemes) ==
    /\ schemes \subseteq {"http", "grpc"}
    /\ schemes # {"http", "grpc"}

ValidateMode(mode, has_discovery) ==
    CASE mode.type = "regular" -> mode.workers > 0 => ValidateUrls(mode.schemes)
      [] mode.type = "openai" -> mode.workers = 1
      [] mode.type = "pd" ->
           /\ ~has_discovery => mode.prefill > 0 /\ mode.decode > 0
           /\ mode.prefill + mode.decode > 0 => ValidateUrls(mode.schemes)
           /\ mode.prefill > 0 => mode.bootstrap # "zero"

ValidatePolicy(p) ==
    CASE p.type = "cache_aware" ->
           /\ AtMost(0, p.threshold) /\ AtMost(p.threshold, One)
           /\ ~Less(p.rel, One) /\ p.eviction > 0 /\ p.tree > 0
      [] p.type = "power_of_two" -> p.interval > 0
      [] p.type = "consistent_hash" -> p.virtual_nodes > 0
      [] p.type = "smetric" ->
           /\ Finite(p.rate) /\ p.rate > 0
           /\ \A v \in {p.weights[1], p.weights[2], p.slack, p.hit_ratio,
                        p.slo[1], p.slo[2]} : Finite(v) /\ v >= 0
           /\ p.slack > 0 /\ p.hit_ratio <= One /\ p.tree > 0
           /\ p.weights # <<0, 0>> /\ p.slo # <<0, 0>>
      [] OTHER -> TRUE

\* get_prefill_policy, get_decode_policy: a pool without a policy of its own
\* uses the main one.
Effective(own, main) == IF own.type = "main" THEN main ELSE own

\* validate: what the pools of PD mode may not be given.
SMetricOnDecode(c) == Effective(c.mode.decode_policy, c.policy).type = "smetric"

ValidatePools(c) ==
    c.mode.type = "pd" =>
        /\ ValidatePolicy(c.mode.prefill_policy)
        /\ ValidatePolicy(c.mode.decode_policy)
        /\ ~SMetricOnDecode(c)
        /\ c.mode.discovery =>
             Effective(c.mode.prefill_policy, c.policy).type # "smetric"

ValidateKvEvents(c) ==
    c.kv_events => c.mode.type = "regular" /\ c.set.kv_block_size > 0

ValidateServerSettings(s) ==
    /\ s.port > 0 /\ s.payload > 0 /\ s.request_timeout > 0
    /\ s.startup_timeout > 0 /\ s.startup_interval > 0

PositiveOnly(s) == {s.metrics_interval, s.queue_timeout, s.force_resume,
                    s.retention, s.turnovers, s.fixed_step}

NonNegative(s) == {s.acting_ttl, s.warmup, s.intercept}

\* Mutant: infinities pass, as the signs are right.
ValidateSigns(s) ==
    \A v \in PositiveOnly(s) \union NonNegative(s) : v > 0 \/ v = 0

ValidateTimes(s) ==
    /\ \A v \in PositiveOnly(s) : Finite(v) /\ v > 0
    /\ \A v \in NonNegative(s) : Finite(v) /\ v >= 0

ValidateProgramScheduling(s) ==
    /\ s.strategy = "reasoning_token_balance" => s.token_capacity # "none"
    /\ ValidateTimes(s)
    /\ Finite(s.alpha) /\ s.alpha \in 0 .. One
    /\ s.virtual_nodes > 0 /\ s.max_active > 0 /\ s.window > 0
    /\ s.max_rounds > 0 /\ s.token_capacity # "zero"
    /\ Finite(s.cross_rank) /\ s.cross_rank >= One
    /\ Less(0, s.low) /\ AtMost(s.low, s.high) /\ AtMost(s.high, One)
    /\ s.force_resume <= s.queue_timeout

ValidateDiscovery(c) ==
    c.discovery =>
        /\ c.set.discovery_port > 0
        /\ CASE c.mode.type = "regular" -> c.set.selector
             [] c.mode.type = "pd" -> c.set.prefill_selector \/ c.set.decode_selector
             [] OTHER -> FALSE

ValidateMetrics(s) == s.prometheus_port > 0

EffectiveRetries(s) == IF s.disable_retries THEN 1 ELSE s.max_retries

ValidateRetry(s) ==
    /\ EffectiveRetries(s) >= 1 /\ s.initial_backoff > 0
    /\ s.max_backoff >= s.initial_backoff /\ ~Less(s.multiplier, One)
    /\ AtMost(0, s.jitter) /\ AtMost(s.jitter, One)

EffectiveFailures(s) == IF s.disable_breaker THEN Inf ELSE s.cb_failures

ValidateCircuitBreaker(s) ==
    /\ EffectiveFailures(s) >= 1 /\ s.cb_successes >= 1
    /\ s.cb_timeout > 0 /\ s.cb_window > 0

WorkerCount(mode) ==
    CASE mode.type = "regular" -> mode.workers
      [] mode.type = "pd" -> mode.prefill + mode.decode
      [] OTHER -> 1

\* validate_compatibility: Program scheduling needs the regular router.
SchedulingIsRouted(c) == c.scheduling => c.mode.type = "regular"

EnoughForTwoChoices(c) ==
    /\ c.policy.type = "power_of_two" => WorkerCount(c.mode) >= 2
    /\ c.mode.type = "pd" =>
         /\ c.mode.prefill_policy.type = "power_of_two" => c.mode.prefill >= 2
         /\ c.mode.decode_policy.type = "power_of_two" => c.mode.decode >= 2

ValidateCompatibility(c) ==
    LET zmq == c.mode.type = "pd" /\ c.mode.discovery
    IN  /\ SchedulingIsRouted(c)
        /\ c.policy.type = "smetric" => ~c.igw /\ c.mode.type # "openai"
        /\ c.igw \/ /\ c.discovery \/ zmq \/ EnoughForTwoChoices(c)
                    /\ c.kv_connector = "moriio" => zmq

Validate(c) ==
    LET zmq == c.mode.type = "pd" /\ c.mode.discovery
    IN  /\ ValidateMode(c.mode, c.discovery \/ zmq) /\ ValidatePolicy(c.policy)
        /\ ValidateKvEvents(c) /\ ValidatePools(c)
        /\ ValidateServerSettings(c.set)
        /\ c.scheduling => ValidateProgramScheduling(c.set)
        /\ ValidateDiscovery(c) /\ ValidateMetrics(c.set)
        /\ ValidateCompatibility(c)
        /\ ValidateRetry(c.set) /\ ValidateCircuitBreaker(c.set)

(***************************************************************************)
(* server::startup, RouterFactory and the constructors they call.          *)
(***************************************************************************)
\* The routers created: both kinds behind a RouterManager in IGW mode, else
\* the one of the mode.
Routers(c) ==
    IF c.igw THEN {"regular", "pd"} ELSE {c.mode.type}

\* The policies of the pools every router selects from.
PoolPolicies(c) ==
    IF c.mode.type = "pd"
    THEN [prefill |-> Effective(c.mode.prefill_policy, c.policy),
          decode |-> Effective(c.mode.decode_policy, c.policy)]
    ELSE [prefill |-> c.policy, decode |-> c.policy]

Created(c) ==
    (IF "pd" \in Routers(c)
     THEN {<<"prefill", PoolPolicies(c).prefill>>, <<"decode", PoolPolicies(c).decode>>}
     ELSE {})
      \union (IF "regular" \in Routers(c) THEN {<<"regular", c.policy>>} ELSE {})

\* The Program scheduler belongs to the regular router.
SchedulerRuns(c) == c.scheduling /\ "regular" \in Routers(c)

\* So does the event-fed cache.  Two policies read it, the others leave it alone;
\* and it hears of the workers the router is created with, which behind a
\* RouterManager are none.
CacheIsRead(c) == c.policy.type \in {"smetric", "cache_aware"}
Subscribed(c) == IF c.igw THEN 0 ELSE c.mode.workers
ExactCache(c) ==
    /\ c.kv_events /\ "regular" \in Routers(c)
    /\ CacheIsRead(c) /\ Subscribed(c) > 0

\* Duration::from_secs_f64 panics on a value that is negative, not finite or too
\* large.
Duration(x) == Finite(x) /\ x >= 0 /\ x < Huge

\* ProgramSchedulerConfig::from
Times(s) == {s.metrics_interval, s.queue_timeout, s.force_resume, s.retention, s.warmup, s.acting_ttl}
SchedulerStarts(s) == \A v \in Times(s) : Duration(v)

\* What the scheduler's own arithmetic needs: a metrics period, a non-empty hash
\* ring, windows and segments that hold something, ordered bounds of the
\* force-resume clamp, a capacity to balance by.
SchedulerCanRun(s) ==
    /\ s.metrics_interval > 0 /\ s.virtual_nodes > 0
    /\ s.window > 0 /\ s.max_rounds >= 1 /\ s.low <= s.high /\ s.force_resume <= s.queue_timeout
    /\ s.strategy = "reasoning_token_balance" => s.token_capacity = "some"

\* What the policies divide and compare by.
PolicyCanRun(p) ==
    /\ p.type = "smetric" => /\ p.loaded /\ p.rate > 0 /\ p.slack > 0
                             /\ p.slo # <<0, 0>> /\ p.hit_ratio \in 0 .. One
    /\ p.type = "cache_aware" => p.eviction > 0 /\ p.tree > 0

(***************************************************************************)
(* The settings tried: each way of running the router with up to two of    *)
(* its settings changed.                                                   *)
(***************************************************************************)
Base == WorkerDefaults @@ ServiceDefaults @@ SMetricDefaults @@ DefaultScheduling

\* The settings that only take a number.
Numbers ==
    (DOMAIN SMetricDefaults) \union (DOMAIN DefaultScheduling)
      \union {"port", "payload", "eviction", "tree_size", "startup_timeout",
              "startup_interval", "cache_threshold", "balance_rel", "prometheus_port",
              "request_timeout", "max_retries", "initial_backoff", "max_backoff",
              "multiplier", "jitter", "cb_failures", "cb_successes", "cb_timeout",
              "cb_window"}

Bases ==
    {Base,
     [Base EXCEPT !.scheduling = TRUE, !.front = "python"],
     [Base EXCEPT !.scheduling = TRUE, !.policy = "smetric", !.smetric_yaml = "valid"],
     [Base EXCEPT !.pd = TRUE, !.prefill = 2, !.decode = 2],
     [Base EXCEPT !.pd = TRUE, !.vllm_discovery = TRUE, !.policy = "random"],
     [Base EXCEPT !.pd = TRUE, !.prefill = 1, !.decode = 1, !.policy = "smetric",
                  !.smetric_yaml = "valid", !.decode_policy = "round_robin"],
     [Base EXCEPT !.kv_events = TRUE, !.tokenizer = TRUE],
     [Base EXCEPT !.backend = "openai", !.workers = 1],
     [Base EXCEPT !.igw = TRUE, !.service_discovery = TRUE, !.selector = TRUE]}

SettingChoices ==
    [f \in DOMAIN Base |->
        CASE f = "front" -> {"cli", "python"}
          [] f = "backend" -> {"vllm", "openai"}
          [] f = "schemes" -> {{"http"}, {"grpc"}, {"http", "grpc"}, {"grpcs"}}
          [] f = "bootstrap" -> {"none", "zero", "some"}
          [] f \in {"policy", "prefill_policy"} -> PolicyNames
          [] f = "decode_policy" -> PolicyNames \ {"smetric"}
          [] f = "smetric_yaml" -> {"none", "malformed", "valid"}
          [] f = "kv_connector" -> {"nixl", "mooncake", "moriio"}
          [] f = "kv_endpoints" -> {"none", "distinct", "repeated"}
          [] f = "scheduling_json" -> {"none", "malformed", "overrides"}
          [] f = "strategy" -> {"consistent_hash", "reasoning_token_balance"}
          [] f = "token_capacity" -> {"none", "zero", "some"}
          [] f \in {"workers", "prefill", "decode"} -> 0 .. 2
          [] f \in {"multiplier", "jitter", "cache_threshold", "balance_rel", "c_lin",
                    "c_att", "prefill_rate", "slack", "hit_ratio", "slo_base",
                    "slo_per_char", "metrics_interval", "queue_timeout",
                    "force_resume", "retention", "turnovers", "acting_ttl", "warmup",
                    "intercept", "alpha", "fixed_step", "cross_rank", "low", "high"} ->
               Floats
          [] f \in Numbers \union {"discovery_port", "kv_block_size"} -> {0, 2}
          [] OTHER -> BOOLEAN]

\* Two settings are changed together when one of them chooses what is built, or
\* when a check compares them.
Switches == {"pd", "policy", "prefill_policy", "vllm_discovery", "service_discovery",
             "scheduling", "kv_events", "workers"}

Together ==
    (Switches \X ((DOMAIN Base) \ Numbers))
      \union {<<f, f>> : f \in Numbers}
      \union {<<"initial_backoff", "max_backoff">>, <<"max_retries", "disable_retries">>,
              <<"cb_failures", "disable_breaker">>, <<"low", "high">>,
              <<"force_resume", "queue_timeout">>, <<"c_lin", "c_att">>,
              <<"slo_base", "slo_per_char">>, <<"strategy", "token_capacity">>}

\* Settings the Python class offers.
Offered(a) ==
    a.front = "python" =>
        /\ ~a.kv_events /\ ~a.tokenizer /\ a.kv_endpoints = "none" /\ a.backend = "vllm"
        /\ {a.policy, a.prefill_policy, a.decode_policy}
             \subseteq (PolicyNames \ {"smetric", "rendezvous_hash"}) \union {"main"}

ConfigurationInput ==
    \E b \in Bases, p \in Together : \E v \in SettingChoices[p[1]], w \in SettingChoices[p[2]] :
        LET args == [[b EXCEPT ![p[1]] = v] EXCEPT ![p[2]] = w]
        IN  Offered(args) /\ input = [of |-> "configuration", args |-> args]

Accepted(a) == ToRouterConfig(a).ok /\ Validate(ToRouterConfig(a))

(***************************************************************************)
(* Properties.                                                             *)
(***************************************************************************)
\* Settings that validate() accepts give every part built from them what its
\* arithmetic needs: the one time ProgramSchedulerConfig::from can still panic on
\* is one too large for a Duration, the segment clamp and the hash ring are not
\* empty, SMetric never divides by a zero rate or slack, and a retry loop makes at
\* least one attempt and waits no less than its first backoff at most.
AcceptedSettingsCanRun ==
    (input.of = "configuration" /\ Accepted(input.args)) =>
        LET c == ToRouterConfig(input.args)
        IN  /\ SchedulerRuns(c) => /\ SchedulerCanRun(c.set)
                                   /\ SchedulerStarts(c.set) <=> Huge \notin Times(c.set)
            /\ \A p \in Created(c) : PolicyCanRun(p[2])
            /\ EffectiveRetries(c.set) >= 1 /\ EffectiveFailures(c.set) >= 1
            /\ c.set.max_backoff >= c.set.initial_backoff

\* SMetric is a prefill policy of persistent workers: whatever the mode and however
\* the pools inherit their policies, no accepted configuration lets it choose a
\* decode worker, a worker of an IGW pool or a worker that ZMQ discovery recreates
\* for every request, and it never runs without the parameters of its YAML file.
SMetricServesPrefillOnly ==
    (input.of = "configuration" /\ Accepted(input.args)) =>
        LET c == ToRouterConfig(input.args)
        IN  \A p \in Created(c) : p[2].type = "smetric" =>
                /\ p[1] # "decode" /\ p[2].loaded /\ ~c.igw
                /\ c.mode.type = "pd" => ~c.mode.discovery

\* A feature that is not switched on never runs, whatever else is configured for
\* it, and the options of Program scheduling and of the event-fed cache are no
\* second switch.  Program scheduling that is switched on runs or is refused.  The
\* event-fed cache that is switched on is refused without the regular router and
\* without a tokenizer; it is accepted without effect for a policy that does not
\* read it and for workers that come after the start (create_regular_router).
SwitchesTakeEffect ==
    (input.of = "configuration" /\ Accepted(input.args)) =>
        LET c == ToRouterConfig(input.args)
            a == input.args
        IN  /\ SchedulerRuns(c) <=> a.scheduling
            /\ a.scheduling_json # "none" => a.scheduling
            /\ c.kv_events <=> a.kv_events
            /\ a.kv_events => a.tokenizer /\ "regular" \in Routers(c)
            /\ ExactCache(c) <=> a.kv_events /\ CacheIsRead(c) /\ a.workers > 0 /\ ~a.igw

\* The calibration the router reports as missing is the calibration it is not
\* given: every field that is not reported has the value of the JSON, every
\* reported one that of the defaults, and a field given with the value its default
\* has is not reported.
MissingCalibrationIsReported ==
    input.of = "calibration" =>
        LET read == ReadCalibration(input.given, 1)
        IN  /\ DefaultedCalibrationFields(read) = Calibrated \ DOMAIN input.given
            /\ \A f \in Calibrated \ DefaultedCalibrationFields(read) :
                   read.values[f] = input.given[f]
            /\ \A f \in DefaultedCalibrationFields(read) :
                   read.values[f] = UncalibratedDefaults(1).values[f]

(***************************************************************************)
(* What validation accepts gives every component that is switched on the   *)
(* settings it needs, but for times that are too large.                    *)
(***************************************************************************)
SettingsAreSound ==
    /\ AcceptedSettingsCanRun /\ SMetricServesPrefillOnly
    /\ SwitchesTakeEffect /\ MissingCalibrationIsReported
=============================================================================
