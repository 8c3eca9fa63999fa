--------------------------- MODULE WorkerAnswers ----------------------------
(***************************************************************************)
(* What the HTTP routers read from the answers of workers and change in    *)
(* them.                                                                   *)
(*                                                                         *)
(* The answer of a prefill worker is merged into the answer of the decode  *)
(* worker (routers/http/logprobs_merge.rs).  A prefill answer is about the *)
(* prompt and the one token it generates; a decode answer about the tokens *)
(* it generates.  A token stands for its length, in characters as the      *)
(* engines count them and in bytes as the router does.  A field is NoField *)
(* when the answer does not have it.                                       *)
(***************************************************************************)
EXTENDS Parts, Naturals, Sequences, SequencesExt, FiniteSets, FiniteSetsExt

CONSTANTS NoField, MaxMergeTokens

Has(field) == field # NoField

\* token_logprobs and top_logprobs: those of the prompt, then those of the decode.
MergeList(prefill, decode, num_prompt_tokens) ==
    IF Has(prefill) /\ Has(decode)
    THEN SubSeq(prefill, 1, Min({num_prompt_tokens, Len(prefill)})) \o decode
    ELSE decode

\* tokens
MergeTokens(prefill, decode, num_prompt_tokens) ==
    MergeList(prefill, decode, num_prompt_tokens)

\* Where the decode's text starts: after the bytes of the last token of the prompt, when
\* that token is known.
BaseOffset(prefill, kept, num_prompt_tokens) ==
    IF Has(prefill.tokens) /\ num_prompt_tokens > 0 /\ Len(prefill.tokens) >= num_prompt_tokens
    THEN Last(kept) + prefill.tokens[num_prompt_tokens].bytes
    ELSE Last(kept)

MergeOffsets(prefill, decode, num_prompt_tokens) ==
    IF ~Has(prefill.text_offset) \/ ~Has(decode.text_offset) THEN decode.text_offset
    ELSE LET kept == SubSeq(prefill.text_offset, 1,
                            Min({num_prompt_tokens, Len(prefill.text_offset)}))
             base == BaseOffset(prefill, kept, num_prompt_tokens)
         IN  IF kept = << >> THEN decode.text_offset
             ELSE kept \o [i \in DOMAIN decode.text_offset |-> decode.text_offset[i] + base]

\* The logprobs objects of two choices.
MergeObject(prefill, decode, num_prompt_tokens) ==
    [token_logprobs |-> MergeList(prefill.token_logprobs, decode.token_logprobs, num_prompt_tokens),
     tokens         |-> MergeTokens(prefill.tokens, decode.tokens, num_prompt_tokens),
     text_offset    |-> MergeOffsets(prefill, decode, num_prompt_tokens),
     top_logprobs   |-> MergeList(prefill.top_logprobs, decode.top_logprobs, num_prompt_tokens)]

\* One choice: the prompt_logprobs of the prefill replace the decode's, and say how many
\* tokens the prompt has.
MergeChoice(prefill, decode) ==
    [prompt_logprobs |-> IF Has(prefill.prompt_logprobs) THEN prefill.prompt_logprobs
                         ELSE decode.prompt_logprobs,
     logprobs |-> IF Has(prefill.logprobs) /\ Has(decode.logprobs)
                  THEN MergeObject(prefill.logprobs, decode.logprobs,
                                   IF Has(prefill.prompt_logprobs)
                                   THEN Len(prefill.prompt_logprobs) ELSE 0)
                  ELSE decode.logprobs]

\* input_token_logprobs of meta_info (Generate API)
MergeMeta(prefill, decode) ==
    IF Has(prefill) /\ Has(decode) THEN prefill \o decode ELSE decode

\* merge_logprobs_in_json.  Choices are merged pair by pair; a choice without a
\* counterpart stays.
MergeLogprobs(prefill, decode) ==
    [meta            |-> MergeMeta(prefill.meta, decode.meta),
     prompt_logprobs |-> IF Has(prefill.prompt_logprobs) THEN prefill.prompt_logprobs
                         ELSE decode.prompt_logprobs,
     choices         |-> [i \in DOMAIN decode.choices |->
                             IF i \in DOMAIN prefill.choices
                             THEN MergeChoice(prefill.choices[i], decode.choices[i])
                             ELSE decode.choices[i]]]

-----------------------------------------------------------------------------
(***************************************************************************)
(* Answers as the workers give them.  The lists of a choice have an entry  *)
(* for every token, with those of the prompt at the front of a prefill's   *)
(* when the request asked for an echo; an answer may lack any of them.     *)
(***************************************************************************)
OffsetsOf(tokens) == [i \in DOMAIN tokens |-> Total([k \in 1 .. i - 1 |-> tokens[k].chars])]

\* A logprob says which answer it is from, and which token it is for.
Logprobs(who, tokens) == [i \in DOMAIN tokens |-> <<who, i>>]

Object(who, tokens, lacking) ==
    LET given(field, value) == IF field \in lacking THEN NoField ELSE value
    IN  [token_logprobs |-> given("token_logprobs", Logprobs(who, tokens)),
         tokens         |-> given("tokens", tokens),
         text_offset    |-> given("text_offset", OffsetsOf(tokens)),
         top_logprobs   |-> given("top_logprobs", Logprobs(who, tokens))]

Letter == [chars |-> 1, bytes |-> 1]
Word == [chars |-> 2, bytes |-> 2]
Ideograph == [chars |-> 1, bytes |-> 3]

Lacking == {{}, {"token_logprobs"}, {"tokens"}, {"text_offset"}, {"top_logprobs"}}

MergeInputs ==
    [of : {"merge"}, prompt : SeqOf({Letter, Word, Ideograph}, MaxMergeTokens), first : {Word},
     text : SeqOf({Letter, Ideograph}, MaxMergeTokens) \ {<< >>},
     echo : BOOLEAN, prompt_logprobs : BOOLEAN,
     prefill_lacks : Lacking, decode_lacks : Lacking, others : {0, 1}]

PrefillAnswer(i) ==
    LET asked == IF i.prompt_logprobs THEN Logprobs("prefill", i.prompt) ELSE NoField
    IN  [meta |-> Logprobs("prefill", i.prompt), prompt_logprobs |-> asked,
         choices |-> <<[prompt_logprobs |-> asked,
                        logprobs |-> Object("prefill",
                                            (IF i.echo THEN i.prompt ELSE << >>) \o <<i.first>>,
                                            i.prefill_lacks)]>>]

DecodeAnswer(i) ==
    LET choice == [prompt_logprobs |-> NoField, logprobs |-> Object("decode", i.text, i.decode_lacks)]
    IN  [meta |-> Logprobs("decode", i.text), prompt_logprobs |-> NoField,
         choices |-> <<choice>> \o [k \in 1..i.others |-> choice]]

\* With an echo, the lists of a merged answer are those of the prompt and then those of the
\* decode, and stay one entry per token: the token that the prefill generated is in none of
\* them (choices[].logprobs, meta_info.input_token_logprobs).
MergedListsAlign ==
    input.of = "merge" /\ input.echo /\ input.prompt_logprobs =>
        LET answer == MergeLogprobs(PrefillAnswer(input), DecodeAnswer(input))
            merged == answer.choices[1].logprobs
            both(field) == field \notin input.prefill_lacks \cup input.decode_lacks
            expected == Logprobs("prefill", input.prompt) \o Logprobs("decode", input.text)
        IN  /\ both("tokens") => merged.tokens = input.prompt \o input.text
            /\ both("token_logprobs") => merged.token_logprobs = expected
            /\ both("top_logprobs") => merged.top_logprobs = expected
            /\ answer.meta = expected

\* The offsets of a merged choice are those of its tokens in the merged text, as long as the
\* last token of the prompt has one byte for each character.  Its further bytes move the
\* offsets of the whole decode, and of nothing else (choices[].logprobs.text_offset).
MergedOffsetsAreCumulative ==
    input.of = "merge" /\ input.echo /\ input.prompt_logprobs =>
        LET merged == MergeLogprobs(PrefillAnswer(input), DecodeAnswer(input)).choices[1].logprobs
            both(field) == field \notin input.prefill_lacks \cup input.decode_lacks
            surplus == IF input.prompt = << >> THEN 0 ELSE Last(input.prompt).bytes - Last(input.prompt).chars
            offsets == OffsetsOf(input.prompt \o input.text)
        IN  both("tokens") /\ both("text_offset") =>
                merged.text_offset =
                    [i \in DOMAIN offsets |-> offsets[i] + IF i > Len(input.prompt) THEN surplus ELSE 0]

\* An answer to a request that did not ask for the logprobs of its prompt, and a choice
\* that the prefill has no counterpart of, are the decode's (the zip of choices).
OtherwiseDecodeStays ==
    input.of = "merge" =>
        LET merged == MergeLogprobs(PrefillAnswer(input), DecodeAnswer(input))
        IN  /\ ~input.prompt_logprobs => merged.choices = DecodeAnswer(input).choices
            /\ \A k \in 2..(1 + input.others) : merged.choices[k] = DecodeAnswer(input).choices[k]

-----------------------------------------------------------------------------
(***************************************************************************)
(* How the token counts of a response are read from it                     *)
(* (routers/http/program_adapter.rs, program_scheduling/domain.rs): the    *)
(* lines of a stream are put together from chunks that are cut anywhere,   *)
(* and every engine reports its counts under names of its own.             *)
(*                                                                         *)
(* A stream is a sequence of characters.  A line <<"a", "b">> stands for   *)
(* one report of token counts and <<"a", "c">> for another; "n" ends a     *)
(* line, and "r" is the carriage return that may come before it.           *)
(***************************************************************************)

CONSTANTS
    MaxStream,    \* bound: characters of a stream
    MaxPartial    \* MAX_PARTIAL_SSE_BYTES, in characters

Characters == {"a", "b", "c", "n", "r"}

\* observe_sse_line: what a line reports, once the space around it is gone.
Trim(line) ==
    LET solid == {i \in DOMAIN line : line[i] # "r"}
    IN  IF solid = {} THEN <<>> ELSE SubSeq(line, Min(solid), Max(solid))
Reports(line) ==
    {x \in {"first", "second"} : Trim(line) = IF x = "first" THEN <<"a", "b">> ELSE <<"a", "c">>}

NewAccumulator == [buffer |-> <<>>, seen |-> {}]

\* The lines of a text, each without its end, and what follows the last one.
Pieces(text) ==
    FoldLeft(LAMBDA p, c : IF c = "n" THEN [lines |-> Append(p.lines, p.rest), rest |-> <<>>]
                           ELSE [p EXCEPT !.rest = Append(@, c)],
             [lines |-> <<>>, rest |-> <<>>], text)

\* Mutant: what follows the last line of a chunk is forgotten.
ObserveChunkAlone(acc, chunk) ==
    LET pieces == Pieces(acc.buffer \o chunk)
    IN  [buffer |-> <<>>, seen |-> acc.seen \cup UNION {Reports(l) : l \in ToSet(pieces.lines)}]

\* observe_sse_chunk: whole lines are read, the rest waits for the next
\* chunk unless it has grown too long.
ObserveChunk(acc, chunk) ==
    LET pieces == Pieces(acc.buffer \o chunk)
    IN  [buffer |-> IF Len(pieces.rest) > MaxPartial THEN <<>> ELSE pieces.rest,
         seen   |-> acc.seen \cup UNION {Reports(l) : l \in ToSet(pieces.lines)}]

\* finish_sse: a last line without an end counts as well.
FinishSse(acc) == acc.seen \cup Reports(acc.buffer)

\* The text in two or three chunks.
Chunks(text, i, j) == <<SubSeq(text, 1, i), SubSeq(text, i + 1, j), SubSeq(text, j + 1, Len(text))>>
ReadChunks(chunks) == FinishSse(FoldLeft(ObserveChunk, NewAccumulator, chunks))
-----------------------------------------------------------------------------
(* observe_value.  A count that may be missing is a set of one or none.    *)

Field(usage, name) == IF name \in DOMAIN usage THEN {usage[name]} ELSE {}
Else(a, b) == IF a # {} THEN a ELSE b
OrZero(a) == IF a = {} THEN 0 ELSE Max(a)

FirstOf(usage, names) == FoldLeft(LAMBDA found, name : Else(found, Field(usage, name)), {}, names)

CacheRead(usage) ==
    FirstOf(usage, <<"cache_read_input_tokens", "cached_input_tokens", "cached_tokens">>)

\* prompt_tokens has the whole prompt; input_tokens goes without what the
\* cache counts separately.
ReportedPrompt(usage) ==
    Else(Field(usage, "prompt_tokens"),
         {n + OrZero(CacheRead(usage)) + OrZero(Field(usage, "cache_creation_input_tokens")) :
             n \in Field(usage, "input_tokens")})

ObserveValue(usage) ==
    [prompt     |-> ReportedPrompt(usage),
     completion |-> FirstOf(usage, <<"completion_tokens", "output_tokens">>),
     cached     |-> Else(FirstOf(usage, <<"prompt_details", "input_details">>), CacheRead(usage))]

\* ProgramUsageObservation::merge: the larger count, and any is larger than none.
MergeUsage(u, v) ==
    [f \in DOMAIN u |-> IF u[f] \cup v[f] = {} THEN {} ELSE {Max(u[f] \cup v[f])}]

\* What the engines say of a request with these tokens when they say it all.
Truths == [fresh : {1, 2}, read : {0, 2}, created : {0, 1}, out : {1, 2}]
TruePrompt(truth) == truth.fresh + truth.read + truth.created
SaysAll(style, truth) ==
    CASE style = "chat" ->
           [prompt_tokens |-> TruePrompt(truth), prompt_details |-> truth.read,
            completion_tokens |-> truth.out]
      [] style = "messages" ->
           [input_tokens |-> truth.fresh, cache_read_input_tokens |-> truth.read,
            cache_creation_input_tokens |-> truth.created, output_tokens |-> truth.out]
      [] style = "responses" ->
           [input_tokens |-> TruePrompt(truth), input_details |-> truth.read,
            output_tokens |-> truth.out]
Styles == {"chat", "messages", "responses"}

\* An event says part of it, an early one with fewer tokens generated.
Event(style, truth, shown, out) ==
    LET all == SaysAll(style, [truth EXCEPT !.out = out])
    IN  [f \in shown |-> all[f]]

UsageReportInput ==
    \/ \E n \in 0 .. MaxStream : \E text \in [1 .. n -> Characters] : \E j \in 0 .. n : \E i \in 0 .. j :
          input = [of |-> "chunks", text |-> text, i |-> i, j |-> j]
    \/ \E style \in Styles : \E truth \in Truths : \E out \in 0 .. truth.out :
          \E first, second \in SUBSET DOMAIN SaysAll(style, truth) :
             input = [of |-> "counts", style |-> style, truth |-> truth, out |-> out,
                      first |-> first, second |-> second]
-----------------------------------------------------------------------------
(***************************************************************************)
(* program_adapter.rs, sse_prefilter_preserves_usage_across_chunk_         *)
(* boundaries: wherever a stream is cut, exactly the reports on its lines  *)
(* are seen, the one on a last line without an end included, as long as no *)
(* line is longer than the buffer may be.                                  *)
(***************************************************************************)
ChunksDoNotMatter ==
    input.of = "chunks" =>
        LET text == input.text
            line(i, j) == /\ i = 1 \/ text[i - 1] = "n"
                          /\ j = Len(text) \/ text[j + 1] = "n"
                          /\ \A k \in i .. j : text[k] # "n"
            lines == {SubSeq(text, i, j) : <<i, j>> \in {p \in (1 .. Len(text)) \X (1 .. Len(text)) :
                                                            p[1] <= p[2] /\ line(p[1], p[2])}}
        IN  (\A l \in lines : Len(l) <= MaxPartial)
              => ReadChunks(Chunks(text, input.i, input.j)) = UNION {Reports(l) : l \in lines}

(***************************************************************************)
(* parses_openai_and_anthropic_usage_without_double_counting: whichever    *)
(* parts of its counts an engine repeats in which event, a request is      *)
(* never charged with more tokens than it has, and with exactly these when *)
(* the last event says it all.                                             *)
(***************************************************************************)
UsageIsExact ==
    input.of = "counts" =>
        LET truth == input.truth
            seen == MergeUsage(ObserveValue(Event(input.style, truth, input.first, input.out)),
                               ObserveValue(Event(input.style, truth, input.second, truth.out)))
            most == [prompt |-> TruePrompt(truth), completion |-> truth.out, cached |-> truth.read]
        IN  /\ \A f \in DOMAIN most : OrZero(seen[f]) <= most[f]
            /\ input.second = DOMAIN SaysAll(input.style, truth)
                 => \A f \in DOMAIN most : seen[f] = {most[f]}

(***************************************************************************)
(* A merged answer is about the whole text, its offsets as far as the last *)
(* token of the prompt has one byte for each character, and the token      *)
(* counts are those the engine reported, wherever the stream was cut.      *)
(***************************************************************************)
AnswersAreExact ==
    /\ MergedListsAlign /\ MergedOffsetsAreCumulative /\ OtherwiseDecodeStays
    /\ ChunksDoNotMatter /\ UsageIsExact
=============================================================================
