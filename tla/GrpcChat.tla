------------------------------ MODULE GrpcChat ------------------------------
(***************************************************************************)
(* A chat completion over gRPC (backend/grpc.rs, openai.rs): the answer of *)
(* a worker is a stream of messages, which becomes server-sent events for  *)
(* a client that streams and one response for a client that does not.      *)
(*                                                                         *)
(* A token is a character, "a" or "b", or "h", the first half of one that  *)
(* the next token completes; "x" cannot be decoded.  A text is a sequence  *)
(* of tokens.                                                              *)
(***************************************************************************)
EXTENDS Parts, FiniteSets

(***************************************************************************)
(* The incremental decoder of vllm-tokenizer: what waits for the rest of   *)
(* its character comes out with the token that completes it, or at a flush.*)
(***************************************************************************)
FreshDecoder == << >>
PushToken(waiting, t) == IF t = "h" THEN Append(waiting, t) ELSE << >>
NextChunk(waiting, t) == IF t = "h" THEN << >> ELSE Append(waiting, t)

\* decode_stream and emit_detok
EmitDetok(waiting, ids) ==
    FoldLeft(LAMBDA d, t : [ok      |-> d.ok /\ t # "x",
                            waiting |-> PushToken(d.waiting, t),
                            text    |-> d.text \o NextChunk(d.waiting, t)],
             [ok |-> TRUE, waiting |-> waiting, text |-> << >>], ids)

(***************************************************************************)
(* A GenerateResponse, as vLLM sends it.  A message may have no outputs; a *)
(* terminal one may have no tokens; the text is filled in when the request *)
(* asked for it.                                                           *)
(***************************************************************************)

\* finish_reason_name, of a message that may have no finish_info.
FinishReasonName(reason) ==
    CASE reason = "length" -> "length" [] reason = "stop" -> "stop"
      [] reason = "aborted" -> "abort" [] OTHER -> "none"

\* ChatReply: whether the worker's own text is taken, whether there is a tokenizer,
\* and the number of prompt tokens the router counted.
Replies == [prefer_worker_text : BOOLEAN, tok : BOOLEAN, include_usage : BOOLEAN, prompt : {2}]

\* output_text_and_finish.  A message without tokens yields its own text, whatever
\* was flushed.
DecodedOutput(msg, reply, finish, decoded) ==
    [ok      |-> decoded.ok,
     text    |-> IF msg.ids = << >> \/ ~reply.tok THEN msg.text
                 ELSE decoded.text \o (IF finish = "none" THEN << >> ELSE decoded.waiting),
     finish  |-> finish,
     waiting |-> IF finish = "none" THEN decoded.waiting ELSE << >>]
OutputTextAndFinish(msg, waiting, reply) ==
    LET finish == FinishReasonName(msg.finish)
    IN  IF ~msg.outputs THEN [ok |-> TRUE, text |-> << >>, finish |-> "none", waiting |-> waiting]
        ELSE IF reply.prefer_worker_text
        THEN [ok |-> TRUE, text |-> msg.text, finish |-> finish, waiting |-> waiting]
        ELSE DecodedOutput(msg, reply, finish, EmitDetok(waiting, IF reply.tok THEN msg.ids ELSE << >>))

PromptTokens(before, msg) == IF msg.prompt = 0 THEN before ELSE msg.prompt
CompletionTokens(before, msg) == IF msg.outputs THEN before + msg.num_tokens ELSE before
-----------------------------------------------------------------------------
(* stream_openai.                                                          *)

Chunk(text, role, finish) == [event |-> "chunk", role |-> role, text |-> text, finish |-> finish]
UsageChunk(prompt, completion) ==
    [event |-> "usage", usage |-> <<prompt, completion, prompt + completion>>]
ErrorEvent == [event |-> "error"]
Done == [event |-> "done"]

StreamStart(reply) ==
    [events |-> << >>, waiting |-> FreshDecoder, first |-> TRUE, over |-> FALSE,
     prompt |-> reply.prompt, completion |-> 0]

\* Mutant: the usage counts leave the terminal message out.
FinishWithEarlierUsage(s, t, reply) ==
    (IF reply.include_usage THEN <<UsageChunk(s.prompt, s.completion)>> ELSE << >>) \o <<Done>>

\* What follows the chunk that has a finish reason; s is before and t after the message.
FinishStream(s, t, reply) ==
    (IF reply.include_usage THEN <<UsageChunk(t.prompt, t.completion)>> ELSE << >>) \o <<Done>>

\* One round of the producer's loop.
StreamOutput(s, item, reply, output) ==
    LET ends   == output.finish # "none"
        counts == [s EXCEPT !.prompt = PromptTokens(@, item),
                            !.completion = CompletionTokens(@, item)]
        chunk  == IF output.text # << >> \/ ends \/ s.first
                  THEN <<Chunk(output.text, s.first, output.finish)>> ELSE << >>
    IN  IF s.over THEN s
        ELSE IF item.status \/ ~output.ok
        THEN [s EXCEPT !.events = Append(@, ErrorEvent), !.over = TRUE]
        ELSE [counts EXCEPT
                !.events = @ \o chunk \o IF ends THEN FinishStream(s, counts, reply) ELSE << >>,
                !.waiting = output.waiting,
                !.first = @ /\ chunk = << >>,
                !.over = ends]
StreamMessage(s, item, reply) == StreamOutput(s, item, reply, OutputTextAndFinish(item, s.waiting, reply))

\* A stream that ends, or takes too long, before a finish reason ends with an error.
EndStream(s) == IF s.over THEN s.events ELSE Append(s.events, ErrorEvent)
StreamOpenai(items, reply) ==
    EndStream(FoldLeft(LAMBDA t, i : StreamMessage(t, i, reply), StreamStart(reply), items))
-----------------------------------------------------------------------------
(* collect_openai.                                                         *)

CollectStart(reply) ==
    [status |-> 200, text |-> << >>, finish |-> "none", waiting |-> FreshDecoder,
     prompt |-> reply.prompt, completion |-> 0]

CollectOutput(c, item, output) ==
    IF c.status # 200 THEN c
    ELSE IF item.status \/ ~output.ok THEN [c EXCEPT !.status = 502]
    ELSE [c EXCEPT !.text = @ \o output.text,
                   !.finish = IF output.finish = "none" THEN @ ELSE output.finish,
                   !.waiting = output.waiting,
                   !.prompt = PromptTokens(@, item),
                   !.completion = CompletionTokens(@, item)]
CollectMessage(c, item, reply) == CollectOutput(c, item, OutputTextAndFinish(item, c.waiting, reply))

\* final_response, or the error: `late` when the next message took too long.
FinalResponse(c, late) ==
    IF c.status # 200 THEN [status |-> c.status]
    ELSE IF late THEN [status |-> 504]
    ELSE IF c.finish = "none" THEN [status |-> 502]
    ELSE [status |-> 200, text |-> c.text, finish |-> c.finish,
          usage |-> <<c.prompt, c.completion, c.prompt + c.completion>>]
CollectOpenai(items, late, reply) ==
    FinalResponse(FoldLeft(LAMBDA d, i : CollectMessage(d, i, reply), CollectStart(reply), items), late)
-----------------------------------------------------------------------------
(* dispatch_prepared.                                                      *)

\* grpc_status_code
GrpcStatusCode(code) ==
    CASE code \in {"InvalidArgument", "FailedPrecondition", "OutOfRange"} -> 400
      [] code = "NotFound" -> 404
      [] code \in {"AlreadyExists", "Aborted"} -> 409
      [] code = "ResourceExhausted" -> 429
      [] code = "DeadlineExceeded" -> 504
      [] code = "Unavailable" -> 503
      [] OTHER -> 502

\* What may come of the call of a worker, apart from a stream.
GrpcCodes == {"InvalidArgument", "FailedPrecondition", "OutOfRange", "NotFound", "AlreadyExists", "Aborted",
              "ResourceExhausted", "DeadlineExceeded", "Unavailable", "Internal", "Unknown", "Cancelled"}

\* The status of the response; the body of a stream follows after 200.
DispatchStatus(call) ==
    CASE call.at = "convert" -> 400
      [] call.at = "connect" -> 502
      [] call.at = "invoke" -> GrpcStatusCode(call.code)
      [] call.at = "timeout" -> 504
      [] call.at = "stream" -> 200
      [] call.at = "collect" -> CollectOpenai(call.items, call.late, call.reply).status

\* is_retryable_status, and what record_outcome counts against a worker
\* (routers/http/router.rs).
IsRetryableStatus(status) == status \in {408, 429, 500, 502, 503, 504}
CountsAgainstWorker(status) == ~(status \in 200 .. 299 \/ status \in 400 .. 499)
-----------------------------------------------------------------------------
(* Inputs.                                                                 *)

Silent == [status |-> FALSE, outputs |-> FALSE, ids |-> << >>, text |-> << >>,
           num_tokens |-> 0, finish |-> "none", prompt |-> 3]
Status == [Silent EXCEPT !.status = TRUE]

\* The worker's text is there when it was asked for.
WorkerMessage(ids, finish, reply) ==
    [Silent EXCEPT !.outputs = TRUE, !.ids = ids, !.num_tokens = Len(ids), !.finish = finish, !.prompt = 0,
                   !.text = IF reply.prefer_worker_text THEN ids ELSE << >>]

ChatItems(reply) ==
    {Silent, Status, WorkerMessage(<<"x">>, "none", reply), WorkerMessage(<<"a">>, "unspecified", reply)}
    \cup {WorkerMessage(ids, f, reply) : ids \in {<< >>, <<"a">>, <<"h">>, <<"b", "h">>},
                                   f \in {"none", "stop", "aborted"}}

ChatInputs ==
    UNION {[of : {"answer"}, reply : {r}, late : BOOLEAN,
            items : UNION {[1 .. n -> ChatItems(r)] : n \in 0 .. 2}
                    \cup {<<first>> \o rest : first \in {Silent, WorkerMessage(<<"a">>, "none", r)},
                                             rest \in [1 .. 2 -> ChatItems(r)]}] : r \in Replies}

CallInputs ==
    [of : {"call"}, call : [at : {"convert", "connect", "timeout", "stream"}] \cup [at : {"invoke"}, code : GrpcCodes]]

GrpcInput == \/ input \in ChatInputs \/ input \in CallInputs

Finished(items) == \E i \in DOMAIN items : FinishReasonName(items[i].finish) # "none"

\* Terminal messages are the last ones of their streams.
EndsOnce(items) == \A i \in 1 .. Len(items) - 1 : FinishReasonName(items[i].finish) = "none"
-----------------------------------------------------------------------------
(***************************************************************************)
(* Whatever a worker sends, fails at or leaves out, a client's stream has  *)
(* exactly one end, [DONE] or an error, as its last event.  [DONE] comes   *)
(* after exactly one chunk with a finish reason, the first chunk and no    *)
(* other has the role, and the usage comes last (stream_openai).           *)
(***************************************************************************)
StreamsEndOnce ==
    input.of = "answer" =>
        \E events \in {StreamOpenai(input.items, input.reply)} :
        LET Where(p(_)) == {i \in DOMAIN events : p(events[i])}
            chunks   == Where(LAMBDA e : e.event = "chunk")
            finishes == {i \in chunks : events[i].finish # "none"}
        IN  /\ Where(LAMBDA e : e.event \in {"done", "error"}) = {Len(events)}
            /\ {i \in chunks : events[i].role} = {i \in chunks : i = 1}
            /\ IF Last(events) = Done THEN Cardinality(finishes) = 1 ELSE finishes = {}
            /\ \A i \in Where(LAMBDA e : e.event = "usage") : finishes = {i - 1} /\ i = Len(events) - 1

(***************************************************************************)
(* A client that streams is told the same as one that does not: for every  *)
(* stream of a worker that ends with its terminal message, or breaks off   *)
(* or stalls before it, both succeed or both fail, and the text, the       *)
(* finish reason and the usage are the same (stream_openai and             *)
(* collect_openai).                                                        *)
(***************************************************************************)
StreamsAgreeWithResponses ==
    input.of = "answer" /\ EndsOnce(input.items) /\ (input.late => ~Finished(input.items)) =>
        \E events \in {StreamOpenai(input.items, input.reply)},
           response \in {CollectOpenai(input.items, input.late, input.reply)} :
        LET chunks   == SelectSeq(events, LAMBDA e : e.event = "chunk")
            usages   == SelectSeq(events, LAMBDA e : e.event = "usage")
        IN  /\ response.status = 200 <=> Last(events) = Done
            /\ response.status = 200 =>
                 /\ FoldLeft(LAMBDA text, e : text \o e.text, << >>, chunks) = response.text
                 /\ Last(chunks).finish = response.finish
                 /\ usages = IF input.reply.include_usage
                             THEN <<[event |-> "usage", usage |-> response.usage]>> ELSE << >>

\* Every token of a stream, in its order.
AllTokens(items) == FoldLeft(LAMBDA ids, i : ids \o i.ids, << >>, items)

(***************************************************************************)
(* However the tokens of an answer are split into messages, and characters *)
(* over tokens, the text is all of them in their order, when the terminal  *)
(* message has a token (output_text_and_finish).                           *)
(***************************************************************************)
TextIsComplete ==
    input.of = "answer" /\ EndsOnce(input.items) /\ input.reply.tok =>
        \E response \in {CollectOpenai(input.items, FALSE, input.reply)} :
            response.status = 200 /\ Last(input.items).ids # << >> =>
               response.text = AllTokens(input.items)

(***************************************************************************)
(* "vLLM may send finish_info in a separate response with no token_ids.    *)
(* Always flush on terminal output so buffered UTF-8/special-token state   *)
(* cannot be silently dropped": the text is complete as well when the      *)
(* terminal message has no token.                                          *)
(***************************************************************************)
FlushedTextIsDelivered ==
    input.of = "answer" /\ EndsOnce(input.items) /\ input.reply.tok =>
        \E response \in {CollectOpenai(input.items, FALSE, input.reply)} :
            response.status = 200 => response.text = AllTokens(input.items)

(***************************************************************************)
(* An error of the request alone is neither retried on another worker nor  *)
(* counted against the one it was sent to, so that healthy workers are not *)
(* penalized; a worker that cannot be reached, is unavailable or too slow  *)
(* is, so that the request gets another one (grpc_status_code with         *)
(* is_retryable_status and record_outcome).                                *)
(***************************************************************************)
RequestErrorsSpareWorkers ==
    input.of = "call" =>
        \E status \in {DispatchStatus(input.call)} :
        LET ofRequest == \/ input.call.at = "convert"
                         \/ input.call.at = "invoke" /\ input.call.code \in
                               {"InvalidArgument", "FailedPrecondition", "OutOfRange", "NotFound", "AlreadyExists"}
            ofWorker == \/ input.call.at \in {"connect", "timeout"}
                        \/ input.call.at = "invoke" /\ input.call.code \in
                               {"Unavailable", "DeadlineExceeded", "Internal", "Unknown"}
        IN  /\ ofRequest => ~IsRetryableStatus(status) /\ ~CountsAgainstWorker(status)
            /\ ofWorker => IsRetryableStatus(status) /\ CountsAgainstWorker(status)
            /\ CountsAgainstWorker(status) => IsRetryableStatus(status)

\* The replies alone.
ChatSpec == part = "algorithm" /\ input \in ChatInputs /\ [][FALSE]_<<part, input>>

(***************************************************************************)
(* A chat answer over gRPC ends once, is the same streamed and unstreamed, *)
(* has all of the worker's text, and a request's own error is not held     *)
(* against its worker.                                                     *)
(***************************************************************************)
AnswersAreWhole ==
    StreamsEndOnce /\ StreamsAgreeWithResponses /\ TextIsComplete /\ RequestErrorsSpareWorkers
=============================================================================
