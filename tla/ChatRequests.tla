--------------------------- MODULE ChatRequests -----------------------------
(***************************************************************************)
(* What a gRPC worker is sent for a chat request.  The frontend reads the  *)
(* request to render and tokenize it (backend/preprocess.rs,               *)
(* vllm_frontend.rs), once; convert.rs reads it again to build the         *)
(* GenerateRequest, for each dispatch.  Either may refuse it.  The rules   *)
(* of protocols/validation.rs, at the end, are no step of that way: no     *)
(* handler applies them, so every request gets as far as the frontend.     *)
(*                                                                         *)
(* A field that is left out is Unset.  The fields without a place of their *)
(* own are in `other`, where a value has the type the client gave it.      *)
(***************************************************************************)
EXTENDS Parts, FiniteSets, FiniteSetsExt, Functions

CONSTANTS Unset

NotSent == [ok |-> FALSE]

\* A value of `other`: its JSON type; a number is small, or beyond 32 bits.
JsonValues == {[type |-> "string", value |-> "s"], [type |-> "bool", value |-> "true"],
               [type |-> "int", value |-> "small"], [type |-> "int", value |-> "huge"],
               [type |-> "int", value |-> "negative"], [type |-> "list", value |-> "l"]}
OtherKeys == {"add_special_tokens", "cache_salt", "documents", "lora_name", "priority",
              "truncate_prompt_tokens", "watermarking", "data_parallel_rank", "chat_template"}

\* ChatCompletionRequest, with nothing but a user's text.
PlainRequest ==
    [messages |-> <<[role |-> "user", content |-> "text", calls |-> "none", reasoning |-> FALSE]>>,
     add_generation_prompt |-> "none", continue_final_message |-> FALSE,
     tools |-> "none", tool_choice |-> "none", reasoning_effort |-> FALSE,
     n |-> 1, logprobs |-> FALSE, functions |-> FALSE, lora_path |-> FALSE, echo |-> FALSE,
     top_k |-> 0, max_completion_tokens |-> Unset, max_tokens |-> Unset, logit_bias |-> "none",
     stop |-> [form |-> "none", items |-> << >>], stop_token_ids |-> << >>, no_stop_trim |-> FALSE,
     regex |-> FALSE, ebnf |-> FALSE, response_format |-> "none", structured_outputs |-> {},
     temperature |-> Unset, other |-> [k \in {} |-> Unset]]
-----------------------------------------------------------------------------
(* The frontend.                                                           *)

\* user_content_text
ContentIsText(content) == content \in {"text", "parts"}

\* spec_messages_to_upstream
MessageIsSupported(m) ==
    CASE m.role \in {"system", "user"} -> ContentIsText(m.content)
      [] m.role = "assistant" ->
            /\ m.content # "none" => ContentIsText(m.content)
            /\ m.calls \in {"none", "function"}
            /\ m.content # "none" \/ m.calls # "none" \/ m.reasoning
      [] m.role = "tool" -> m.content = "text"
      [] m.role = "function" -> FALSE

\* The generation prompt of chat_request_from_openai, or "refused".
GenerationPrompt(r) ==
    CASE r.continue_final_message /\ r.add_generation_prompt = "true" -> "refused"
      [] r.continue_final_message /\ r.add_generation_prompt # "true" ->
            IF Last(r.messages).role = "assistant" THEN "continue" ELSE "refused"
      [] ~r.continue_final_message ->
            IF r.add_generation_prompt = "false" THEN "no_prompt" ELSE "new_assistant"

\* spec_tools_to_upstream and spec_tool_choice_to_upstream
ToolsAreFunctions(r) == r.tools # "other" /\ r.tool_choice # "other"

\* Tools that the model may call need an output parser.
ActiveTools(r) == r.tools # "none" /\ r.tool_choice # "no"

InOther(r, key) == key \in DOMAIN r.other

\* A value that is of another type is as if it were not given; an integer that is
\* of the type and does not fit is refused.
LenientValue(r, key, type, default) ==
    IF InOther(r, key) /\ r.other[key].type = type THEN r.other[key].value ELSE default
FitsIn(r, key, values) ==
    InOther(r, key) /\ r.other[key].type = "int" => r.other[key].value \in values

\* data_parallel_rank: as_u64 takes no negative number.
RankFits(r) == FitsIn(r, "data_parallel_rank", {"small", "negative"})

\* tokenize_vllm, up to the renderer.
Tokenize(r) ==
    IF \/ ActiveTools(r) \/ r.reasoning_effort
       \/ InOther(r, "chat_template")
       \/ InOther(r, "documents") /\ r.other["documents"].type # "list"
       \/ ~FitsIn(r, "priority", {"small", "negative"}) \/ ~RankFits(r)
       \/ \E i \in DOMAIN r.messages : ~MessageIsSupported(r.messages[i])
       \/ ~ToolsAreFunctions(r) \/ GenerationPrompt(r) = "refused"
    THEN NotSent
    ELSE [ok |-> TRUE,
          prompt     |-> GenerationPrompt(r),
          documents  |-> InOther(r, "documents"),
          priority   |-> LenientValue(r, "priority", "int", "none"),
          cache_salt |-> LenientValue(r, "cache_salt", "string", "none"),
          add_special_tokens |-> LenientValue(r, "add_special_tokens", "bool", "none")]

\* prepare: the temperature is settled once, for every dispatch: the client's, the
\* model's, or 1.0.
Prepare(r, model_temperature) ==
    [r EXCEPT !.temperature = IF @ # Unset THEN @
                              ELSE IF model_temperature # Unset THEN model_temperature ELSE 10]
-----------------------------------------------------------------------------
(* The conversion.                                                         *)

\* requires_worker_output_text
RequiresWorkerOutputText(r) ==
    /\ ~r.no_stop_trim
    /\ \/ r.stop.form = "string" /\ r.stop.items # <<"">>
       \/ r.stop.form = "array" /\ r.stop.items # << >>
       \/ r.stop_token_ids # << >>

\* Mutant: values of another type are left out.
LenientOther(r, key, type, values) == TRUE

\* other_string, other_bool, other_u32, other_i32: a value of another type, or an
\* integer that does not fit, is refused.
OtherIs(r, key, type, values) ==
    InOther(r, key) => r.other[key].type = type /\ r.other[key].value \in values
OtherValue(r, key) == IF InOther(r, key) THEN r.other[key].value ELSE "none"

Supported == OtherKeys \ {"data_parallel_rank", "chat_template"}

\* Every constraint of the request, from its four places.
Constraints(r) ==
    (IF r.regex THEN {<<"field", "regex">>} ELSE {})
    \cup (IF r.ebnf THEN {<<"field", "grammar">>} ELSE {})
    \cup (IF r.response_format \in {"json_object", "json"} THEN {<<"format", r.response_format>>} ELSE {})
    \cup {<<"structured", c>> : c \in r.structured_outputs \ {"not_json_object"}}

\* structured_output
StructuredOutput(r) ==
    IF Cardinality(Constraints(r)) > 1 THEN NotSent
    ELSE IF Constraints(r) = {} THEN [ok |-> TRUE, value |-> "none"]
    ELSE [ok |-> TRUE, value |-> (CHOOSE c \in Constraints(r) : TRUE)[2]]

\* split_stops: one empty string is no stop.  Token ids are u32.
StopStrings(r) ==
    IF r.stop.form = "string" /\ r.stop.items = <<"">> THEN << >> ELSE r.stop.items
StopsFit(r) == \A i \in DOMAIN r.stop_token_ids : r.stop_token_ids[i] >= 0

MaxNewTokens(r) ==
    IF r.max_completion_tokens # Unset THEN r.max_completion_tokens
    ELSE IF r.max_tokens # Unset THEN r.max_tokens ELSE 0

\* What vLLM 0.29 or the response adapter cannot do.
Unsupported(r) ==
    \/ r.n > 1 \/ r.logprobs \/ r.functions \/ r.lora_path \/ r.echo
    \/ ~(DOMAIN r.other \subseteq Supported)

\* chat_to_generate_request
Convert(r) ==
    IF \/ Unsupported(r) \/ ~StopsFit(r) \/ r.logit_bias = "words"
       \/ ~StructuredOutput(r).ok \/ r.top_k < 0
       \/ ~OtherIs(r, "add_special_tokens", "bool", {"true"})
       \/ ~OtherIs(r, "cache_salt", "string", {"s"}) \/ ~OtherIs(r, "lora_name", "string", {"s"})
       \/ ~OtherIs(r, "truncate_prompt_tokens", "int", {"small"})
       \/ ~OtherIs(r, "priority", "int", {"small", "negative"})
       \/ ~OtherIs(r, "watermarking", "bool", {"true"})
    THEN NotSent
    ELSE [ok |-> TRUE,
          temperature       |-> IF r.temperature = Unset THEN 10 ELSE r.temperature,
          max_new_tokens    |-> MaxNewTokens(r),
          structured_output |-> StructuredOutput(r).value,
          logit_bias        |-> r.logit_bias,
          stop_strings      |-> StopStrings(r),
          stop_token_ids    |-> r.stop_token_ids,
          include_stop_strings |-> r.no_stop_trim,
          output_text       |-> RequiresWorkerOutputText(r),
          cache_salt        |-> OtherValue(r, "cache_salt"),
          lora_name         |-> OtherValue(r, "lora_name"),
          priority          |-> OtherValue(r, "priority"),
          truncate_prompt_tokens |-> OtherValue(r, "truncate_prompt_tokens"),
          watermarking      |-> OtherValue(r, "watermarking")]
-----------------------------------------------------------------------------
(* Worker URLs (backend/detect.rs): a scheme and a host; the rank is Unset *)
(* or a number behind an @.                                                *)

WorkerUrls == [scheme : {"http", "https", "grpc", "grpcs"}, host : {"h1", "h2"}, rank : {Unset, 0, 1}]

IsGrpcUrl(url) == url.scheme = "grpc"

\* classify_worker_urls
ClassifyWorkerUrls(urls) ==
    LET kinds == {IsGrpcUrl(urls[i]) : i \in DOMAIN urls}
    IN  IF (\E i \in DOMAIN urls : urls[i].scheme = "grpcs") \/ Cardinality(kinds) > 1 THEN "refused"
        ELSE IF urls = << >> THEN "empty" ELSE IF kinds = {TRUE} THEN "grpc" ELSE "http"

\* strip_dp_suffix, grpc_connect_uri
GrpcConnectUri(url) == IF IsGrpcUrl(url) THEN <<"http", url.host>> ELSE <<"refused">>
-----------------------------------------------------------------------------
(* Inputs: a request that differs from a plain one in up to two ways.      *)

ChatMessage(role, content, calls, reasoning) ==
    [role |-> role, content |-> content, calls |-> calls, reasoning |-> reasoning]

Deviations ==
    [f : {"messages"}, v : {<<ChatMessage("system", "parts", "none", FALSE), ChatMessage("user", "image", "none", FALSE)>>,
                            <<ChatMessage("assistant", "none", "none", FALSE)>>,
                            <<ChatMessage("assistant", "none", "function", FALSE), ChatMessage("tool", "text", "none", FALSE)>>,
                            <<ChatMessage("user", "text", "none", FALSE), ChatMessage("assistant", "text", "none", TRUE)>>,
                            <<ChatMessage("function", "text", "none", FALSE)>>}]
    \cup [f : {"add_generation_prompt"}, v : {"true", "false"}]
    \cup [f : {"continue_final_message", "reasoning_effort", "logprobs", "functions", "lora_path",
               "echo", "no_stop_trim", "regex", "ebnf"}, v : {TRUE}]
    \cup [f : {"tools"}, v : {"function", "other"}] \cup [f : {"tool_choice"}, v : {"no", "auto", "other"}]
    \cup [f : {"n"}, v : {0, 2}] \cup [f : {"top_k"}, v : {-1, 5}]
    \cup [f : {"max_completion_tokens", "max_tokens"}, v : {0, 3, 7}]
    \cup [f : {"logit_bias"}, v : {"ids", "words"}]
    \cup [f : {"stop"}, v : [form : {"string"}, items : {<<"x">>, <<"">>}]
                              \cup [form : {"array"}, items : {<< >>, <<"">>, <<"x", "y">>}]]
    \cup [f : {"stop_token_ids"}, v : {<<7>>, <<-1>>}]
    \cup [f : {"response_format"}, v : {"text", "json_object", "json"}]
    \cup [f : {"structured_outputs"}, v : {{"json"}, {"regex", "choice"}, {"not_json_object"}, {"structural_tag"}}]
    \cup [f : {"temperature"}, v : {0, 7}]

SomeOthers == UNION {[K -> JsonValues] : K \in {S \in SUBSET OtherKeys : Cardinality(S) \in 1 .. 2}}

ConvertInputs ==
    {[of |-> "convert", request |-> [[PlainRequest EXCEPT ![a.f] = a.v] EXCEPT ![b.f] = b.v]] :
        a, b \in Deviations}
    \cup {[of |-> "convert", request |-> [PlainRequest EXCEPT !.other = o]] : o \in SomeOthers}

UrlInputs ==
    [of : {"urls"}, urls : UNION {[1 .. n -> WorkerUrls] : n \in 0 .. 2}]

ChatRequestInput == \/ input \in ConvertInputs \/ input \in UrlInputs
-----------------------------------------------------------------------------
(***************************************************************************)
(* The two readings of a request agree: whenever neither refuses it, the   *)
(* priority, salt and special tokens that the prompt was made with are     *)
(* those the worker is told, and every field of `other` reaches the        *)
(* renderer or the worker, with the client's value.  The frontend reads a  *)
(* value of a wrong type as absent; only the conversion refuses it.  The   *)
(* temperature, which vLLM would take for 0 when it is left out, is always *)
(* the client's, the model's or the default.                               *)
(***************************************************************************)
ReadingsAgree ==
    input.of = "convert" =>
        LET r == input.request
            t == Tokenize(r)
            g == Convert(r)
            Warm(m) == Convert(Prepare(r, m)).temperature
        IN  t.ok /\ g.ok =>
              /\ \A m \in {Unset, 7} :
                    /\ Warm(m) \in 0 .. 10 /\ (r.temperature # Unset => Warm(m) = r.temperature)
                    /\ (r.temperature = Unset /\ m # Unset) => Warm(m) = m
              /\ t.priority = g.priority /\ t.cache_salt = g.cache_salt
              /\ \A k \in DOMAIN r.other :
                    LET carried == [priority |-> g.priority, cache_salt |-> g.cache_salt,
                                    lora_name |-> g.lora_name, watermarking |-> g.watermarking,
                                    truncate_prompt_tokens |-> g.truncate_prompt_tokens,
                                    add_special_tokens |-> t.add_special_tokens,
                                    documents |-> IF t.documents THEN "l" ELSE "none"]
                    IN  k \in DOMAIN carried /\ carried[k] = r.other[k].value

(***************************************************************************)
(* "Worker text carries the exact character-level trim boundary for hidden *)
(* stop strings/tokens; token IDs alone cannot represent it": the worker   *)
(* is asked for its text exactly when it may stop at something it has to   *)
(* hide, however the stops were given.                                     *)
(***************************************************************************)
HiddenStopsNeedWorkerText ==
    input.of = "convert" /\ Convert(input.request).ok =>
        LET g == Convert(input.request)
        IN  g.output_text <=>
               ~g.include_stop_strings /\ (g.stop_strings # << >> \/ g.stop_token_ids # << >>)

(***************************************************************************)
(* No output constraint is dropped for another: of the constraints of a    *)
(* request, wherever they are given, the worker gets the only one, and a   *)
(* request with several is refused (structured_output).                    *)
(***************************************************************************)
ConstraintsAreKept ==
    input.of = "convert" =>
        LET r == input.request
            asked == Cardinality({f \in {"regex", "ebnf"} : r[f]})
                     + (IF r.response_format \in {"json_object", "json"} THEN 1 ELSE 0)
                     + Cardinality(r.structured_outputs \ {"not_json_object"})
        IN  Convert(r).ok => asked <= 1 /\ (Convert(r).structured_output # "none" <=> asked = 1)

(***************************************************************************)
(* A pool that was accepted is of one kind, and in a gRPC pool every       *)
(* worker can be connected to, the ranks of a host over one channel        *)
(* (classify_worker_urls, grpc_connect_uri).                               *)
(***************************************************************************)
PoolsAreOfOneKind ==
    input.of = "urls" =>
        LET kind == ClassifyWorkerUrls(input.urls)
        IN  \A i \in DOMAIN input.urls :
               /\ kind = "grpc" => GrpcConnectUri(input.urls[i]) # <<"refused">>
               /\ kind = "http" => GrpcConnectUri(input.urls[i]) = <<"refused">>
               /\ kind = "grpc" => \A j \in DOMAIN input.urls :
                     input.urls[i].host = input.urls[j].host <=>
                        GrpcConnectUri(input.urls[i]) = GrpcConnectUri(input.urls[j])

-----------------------------------------------------------------------------
(***************************************************************************)
(* The rules for the same request (ChatCompletionRequest::validate), which *)
(* only tests call.  They are tried in order and the first one that is     *)
(* broken is reported.  Numbers are in tenths where the code has floats.   *)
(***************************************************************************)

RuleRequest ==
    PlainRequest @@
    [top_p |-> Unset, frequency_penalty |-> Unset, presence_penalty |-> Unset, min_tokens |-> Unset,
     top_logprobs |-> Unset, min_p |-> Unset, repetition_penalty |-> Unset, schema_name |-> "name"]

\* A rule: the parameter it is about, and whether the request keeps it.
Rule(parameter, kept) == <<[parameter |-> parameter, kept |-> kept]>>

\* validate_range, of a parameter that may be left out; both ends are in.
RangeRule(r, parameter, low, high) ==
    Rule(parameter, r[parameter] # Unset => r[parameter] >= low /\ r[parameter] <= high)

\* validate_positive
PositiveRule(parameter, value) == Rule(parameter, value # Unset => value > 0)

\* validate_sampling_options
SamplingRules(r) ==
    RangeRule(r, "temperature", 0, 20) \o RangeRule(r, "top_p", 0, 10)
    \o RangeRule(r, "frequency_penalty", -20, 20) \o RangeRule(r, "presence_penalty", -20, 20)

\* validate_stop_conditions: MAX_STOP_SEQUENCES, none of them empty.
StopRules(r) ==
    Rule("stop", r.stop.form = "array" => Len(r.stop.items) <= 4)
    \o Rule("stop", \A i \in DOMAIN r.stop.items : r.stop.items[i] # "")

\* get_max_tokens
GetMaxTokens(r) == IF r.max_completion_tokens # Unset THEN r.max_completion_tokens ELSE r.max_tokens

\* validate_token_limits
LimitRules(r) ==
    PositiveRule("max_tokens", GetMaxTokens(r)) \o PositiveRule("min_tokens", r.min_tokens)

\* validate_logprobs: a chat request's logprobs is a flag, which counts as 1.
LogprobRules(r) == Rule("logprobs", r.logprobs => 1 <= 5) \o RangeRule(r, "top_logprobs", 0, 20)

\* validate_vllm_extensions and validate_top_k
ExtensionRules(r) ==
    Rule("top_k", r.top_k # Unset => r.top_k = -1 \/ r.top_k > 0)
    \o RangeRule(r, "min_p", 0, 10) \o RangeRule(r, "repetition_penalty", 0, 20)

\* validate_completion_count
CountRules(r) == RangeRule(r, "n", 1, 10)

\* validate_cross_parameters
CrossRules(r) ==
    Rule("min_tokens", r.min_tokens # Unset /\ GetMaxTokens(r) # Unset => r.min_tokens <= GetMaxTokens(r))

\* validate_common_request_params
CommonRules(r) ==
    SamplingRules(r) \o StopRules(r) \o LimitRules(r) \o LogprobRules(r)
    \o ExtensionRules(r) \o CountRules(r) \o CrossRules(r)

\* validate_messages: some message, and no user message without content.
MessageRules(r) ==
    Rule("messages", r.messages # << >>)
    \o Rule("messages", \A i \in DOMAIN r.messages :
                r.messages[i].role = "user" => r.messages[i].content \notin {"empty", "no parts"})

\* validate_response_format
FormatRules(r) == Rule("response_format", r.response_format = "json" => r.schema_name # "")

\* validate_chat_logprobs
ChatLogprobRules(r) ==
    Rule("top_logprobs", r.logprobs => r.top_logprobs # Unset)
    \o Rule("logprobs", r.top_logprobs # Unset => r.logprobs)

\* validate_conflicting_parameters
Conflict(parameter, a, b) == Rule(parameter, ~(a /\ b))

\* validate_mutually_exclusive_options
Exclusive(parameter, options) == Rule(parameter, Cardinality({o \in DOMAIN options : options[o]}) <= 1)

\* validate_chat_cross_parameters
ChatCrossRules(r) ==
    LET json == r.response_format \in {"json_object", "json"}
    IN  Conflict("max_tokens", r.max_tokens # Unset, r.max_completion_tokens # Unset)
        \o Conflict("tools", r.tools # "none", r.functions)
        \o Conflict("response_format", json, r.regex) \o Conflict("response_format", json, r.ebnf)
        \o Exclusive("structured", <<r.regex, r.ebnf, r.response_format = "json">>)

\* ValidatableRequest::validate: "ok", or the parameter that is reported.
ValidateChat(r) ==
    LET rules == CommonRules(r) \o MessageRules(r) \o FormatRules(r) \o ChatLogprobRules(r) \o ChatCrossRules(r)
        broken == {i \in DOMAIN rules : ~rules[i].kept}
    IN  IF broken = {} THEN "ok" ELSE rules[Min(broken)].parameter
-----------------------------------------------------------------------------
(* Inputs: a plain request that differs in up to two ways, at the bounds.  *)

UserMessage(content) == ChatMessage("user", content, "none", FALSE)

RuleDeviations ==
    [f : {"temperature", "repetition_penalty"}, v : {-1, 0, 20, 21}] \cup [f : {"top_p", "min_p"}, v : {0, 10, 11}]
    \cup [f : {"frequency_penalty", "presence_penalty"}, v : {-21, -20, 20}]
    \cup [f : {"min_tokens", "max_tokens", "max_completion_tokens"}, v : {0, 1, 4, 7}]
    \cup [f : {"stop"}, v : [form : {"string"}, items : {<<"x">>, <<"">>}]
             \cup [form : {"array"}, items : {<< >>, <<"x", "">>, <<"a", "b", "c", "d">>, <<"a", "b", "c", "d", "e">>}]]
    \cup [f : {"top_logprobs"}, v : {0, 20, 21}] \cup [f : {"top_k"}, v : {-2, -1, 0, 1}]
    \cup [f : {"n"}, v : {0, 10, 11}]
    \cup [f : {"messages"}, v : {<< >>, <<UserMessage("empty")>>, <<UserMessage("text"), UserMessage("no parts")>>}]
    \cup [f : {"response_format"}, v : {"json_object", "json"}] \cup [f : {"schema_name"}, v : {""}]
    \cup [f : {"structured_outputs"}, v : {{"json"}, {"regex", "choice"}, {"json_object"}, {"not_json_object"}}]
    \cup [f : {"tools"}, v : {"function"}]
    \cup [f : {"functions", "regex", "ebnf", "logprobs", "no_stop_trim"}, v : {TRUE}]

RuleInputs ==
    {[of |-> "rules", request |-> [[[RuleRequest EXCEPT !.top_k = Unset] EXCEPT ![a.f] = a.v] EXCEPT ![b.f] = b.v]] :
        a, b \in RuleDeviations}

KeepsTheRules == input.of = "rules" /\ ValidateChat(input.request) = "ok"
-----------------------------------------------------------------------------
(***************************************************************************)
(* "Only one structured output constraint ... can be active at a time": a  *)
(* request that keeps the rules has one constraint among its own fields,   *)
(* a JSON object counted as one, too; it is refused for its constraints    *)
(* only where structured_outputs, which no rule looks at, has another.     *)
(***************************************************************************)
RulesLeaveOneConstraint ==
    KeepsTheRules =>
        LET r == input.request
        IN  /\ StructuredOutput([r EXCEPT !.structured_outputs = {}]).ok
            /\ r.structured_outputs \subseteq {"not_json_object"} => StructuredOutput(r).ok

(***************************************************************************)
(* The limits of a request that keeps the rules can be met and mean what   *)
(* they say: max_new_tokens = 0 is what a request without a limit is sent  *)
(* with, so no limit that was given is 0, both readings of the two limits  *)
(* agree, and the least number of tokens is not above it.                  *)
(***************************************************************************)
RulesLeaveLimitsThatCanBeMet ==
    KeepsTheRules =>
        LET r == input.request
            given == {r.max_tokens, r.max_completion_tokens} \ {Unset}
        IN  /\ given = {} <=> MaxNewTokens(r) = 0
            /\ given # {} => given = {MaxNewTokens(r)}
            /\ r.min_tokens # Unset /\ given # {} => r.min_tokens <= MaxNewTokens(r)

(***************************************************************************)
(* Every stop sequence of a request that keeps the rules is sent, and none *)
(* of them is the empty text.  Of any request the stops are sent as they   *)
(* are given, but for one empty string (split_stops).                      *)
(***************************************************************************)
StopsAreSent ==
    /\ KeepsTheRules => /\ StopStrings(input.request) = input.request.stop.items
                        /\ "" \notin Range(StopStrings(input.request))
    /\ input.of = "convert" /\ Convert(input.request).ok =>
           LET stop == input.request.stop
           IN  Convert(input.request).stop_strings # stop.items => stop = [form |-> "string", items |-> <<"">>]

(***************************************************************************)
(* A chat request means the same to everyone who reads it on its way to a  *)
(* gRPC worker; and one that keeps the rules of the validation asks for    *)
(* nothing that this way would change.                                     *)
(***************************************************************************)
RequestsAreKept ==
    /\ ReadingsAgree /\ HiddenStopsNeedWorkerText /\ ConstraintsAreKept /\ PoolsAreOfOneKind
    /\ RulesLeaveOneConstraint /\ RulesLeaveLimitsThatCanBeMet /\ StopsAreSent
=============================================================================
