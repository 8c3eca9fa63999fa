----------------------------- MODULE RoutingText -----------------------------
(***************************************************************************)
(* What the policies read of a request (protocols/spec.rs): the chat       *)
(* messages as they are parsed, the text or the key that prefix-aware      *)
(* policies compare, and the prompt of SMetric with the length of its      *)
(* history.  A string is a sequence of characters; the parts of a chat     *)
(* prompt stay apart, so what the separators do is left out.               *)
(***************************************************************************)
EXTENDS Parts, Integers, Sequences, SequencesExt, FiniteSetsExt, Functions

CONSTANTS
    TokenIds,        \* token ids of completion prompts, the edges of the key's encoding among them
    MaxMessages      \* messages of a conversation

Blank(text) == \A i \in DOMAIN text : text[i] = " "

\* Mutant: the texts are joined last first.
JoinFromLast(strings) ==
    FlattenSeq([i \in DOMAIN strings |-> IF i = 1 THEN strings[Len(strings)] ELSE <<" ">> \o strings[Len(strings) + 1 - i]])

Join(strings) ==
    FlattenSeq([i \in DOMAIN strings |-> IF i = 1 THEN strings[i] ELSE <<" ">> \o strings[i]])

\* An optional value, and a field as JSON has it.
None == <<"none">>
Some(v) == <<"some", v>>
NoValue == {<<"absent">>, <<"null">>, <<"other">>}
-----------------------------------------------------------------------------
(* Chat messages.                                                          *)

\* A content is a string or has parts, of which some are texts.
Str(t) == <<"string", t>>
InParts(ps) == <<"parts", ps>>
Text(t) == <<"text", t>>
Image == <<"image_url", <<"u">>>>
HasContent(field) == field[1] \in {"string", "parts"}
Given(field) == field[1] = "some"

\* A field that cannot be read is as good as absent.
ReadableOr(field, default) == IF Given(field) \/ HasContent(field) THEN field ELSE default
EmptyText == Str(<<>>)

\* ChatMessage::deserialize: an assistant's reasoning under its canonical name,
\* or else under the deprecated one.  A tool's content is kept whatever it is,
\* that of a function only if it is a string.
ParseMessage(raw) ==
    LET role == IF raw.role \in {"assistant", "system", "user", "tool", "function"} THEN raw.role ELSE "unknown"
        assistant(field) == IF role = "assistant" THEN ReadableOr(field, None) ELSE None
    IN  [role |-> role,
         content |-> CASE role = "assistant" -> ReadableOr(raw.content, None)
                       [] role \in {"system", "user"} -> ReadableOr(raw.content, EmptyText)
                       [] role = "function" -> IF raw.content[1] = "string" THEN raw.content ELSE EmptyText
                       [] role = "tool" -> IF raw.content = <<"absent">> THEN EmptyText ELSE raw.content
                       [] OTHER -> None,
         reasoning |-> assistant(ReadableOr(raw.reasoning, raw.reasoning_content)),
         tool_calls |-> assistant(raw.tool_calls), function_call |-> assistant(raw.function_call)]

\* What is forwarded: fields without a value are left out.
WriteMessage(m) ==
    LET written(field) == IF field = None THEN <<"absent">> ELSE field
    IN  [role |-> m.role, content |-> written(m.content),
         reasoning |-> written(m.reasoning), reasoning_content |-> <<"absent">>,
         tool_calls |-> written(m.tool_calls), function_call |-> written(m.function_call)]

\* routing_texts: the texts among the parts that are not blank.
RoutingTexts(content) ==
    LET parts == IF content[1] = "parts" THEN SelectSeq(content[2], LAMBDA c : c[1] = "text") ELSE <<>>
        texts == IF content[1] = "string" THEN <<content[2]>> ELSE [i \in DOMAIN parts |-> parts[i][2]]
    IN  SelectSeq(texts, LAMBDA t : ~Blank(t))
-----------------------------------------------------------------------------
(* The prompt of Program scheduling and of SMetric.                        *)

TrimText(text) ==
    LET inked == {i \in DOMAIN text : text[i] # " "}
    IN  IF inked = {} THEN <<>> ELSE SubSeq(text, Min(inked), Max(inked))

\* The calls of an assistant that have arguments.
CallParts(kind, calls) ==
    LET told == SelectSeq(calls, LAMBDA c : Given(c.arguments) /\ ~Blank(c.arguments[2]))
    IN  [i \in DOMAIN told |-> <<kind, told[i].name, TrimText(told[i].arguments[2])>>]

MessageParts(m) ==
    LET texts == RoutingTexts(m.content)
    IN  [i \in DOMAIN texts |-> <<m.role, TrimText(texts[i])>>]
            \o (IF Given(m.tool_calls) THEN CallParts("assistant_tool_call", m.tool_calls[2]) ELSE <<>>)
            \o (IF Given(m.function_call) THEN CallParts("assistant_function_call", <<m.function_call[2]>>) ELSE <<>>)

ByName(kind, schemas) ==
    IF ~Given(schemas) THEN <<>>
    ELSE LET sorted == SortSeq(schemas[2], <) IN [i \in DOMAIN sorted |-> <<kind, sorted[i]>>]

\* extract_text_for_program_scheduling: the messages in wire order, then the
\* tools and the functions by name; without any, the session.
ProgramText(request) ==
    LET parts == FlattenSeq([i \in DOMAIN request.messages |-> MessageParts(request.messages[i])])
                     \o ByName("tool_schema", request.tools) \o ByName("function_schema", request.functions)
    IN  IF parts = <<>> THEN request.session ELSE parts

Multimodal(m) ==
    m.role \in {"system", "user", "assistant"} /\ m.content[1] = "parts" /\ Contains(m.content[2], Image)

\* Characters of a message's line: its texts and calls, and the syntax around each.
LineWidth(m) ==
    LET calls == CallParts("", (IF Given(m.tool_calls) THEN m.tool_calls[2] ELSE <<>>)
                                   \o (IF Given(m.function_call) THEN <<m.function_call[2]>> ELSE <<>>))
    IN  1 + (CASE m.content[1] = "string" -> Len(m.content[2])
               [] m.content[1] = "parts" -> Total([i \in DOMAIN m.content[2] |-> Len(m.content[2][i][2]) + 1])
               [] OTHER -> 0)
          + Total([i \in DOMAIN calls |-> Len(calls[i][3]) + 1])
Chars(lines) == Total([i \in DOMAIN lines |-> IF lines[i][1] = "message" THEN LineWidth(lines[i][2]) ELSE Len(lines[i][2]) + 1])

\* What is declared is written also where it is empty.
ChatLines(request) ==
    (IF Given(request.tools) THEN <<<<"tools", request.tools[2]>>>> ELSE <<>>)
        \o (IF Given(request.functions) THEN <<<<"functions", request.functions[2]>>>> ELSE <<>>)
        \o [i \in DOMAIN request.messages |-> <<"message", request.messages[i]>>]

NoPrompt == [single |-> FALSE]

\* extract_text_for_smetric: the tools come first, so that a turn is appended;
\* what ends with the last answer is expected in a cache.
SMetricPrompt(request) ==
    LET lines == ChatLines(request)
        answers == {i \in DOMAIN lines : lines[i][1] = "message" /\ lines[i][2].role = "assistant"}
    IN  IF \E i \in DOMAIN request.messages : Multimodal(request.messages[i]) THEN NoPrompt
        ELSE [single |-> TRUE, text |-> lines,
              est_hit_chars |-> IF answers = {} THEN 0 ELSE Chars(SubSeq(lines, 1, Max(answers)))]
-----------------------------------------------------------------------------
(* Token ids, and the other requests.                                      *)

Escape == 1114109                           \* U+10FFFD
KeyMark == <<1114111, 1114110>>             \* U+10FFFF U+10FFFE
SurrogatesStart == 55296                    \* 0xd800
SurrogatesSize == 2048                      \* 0x800
LastPlain == 1112061                        \* 0x10f7fd

\* One of the eight hexadecimal digits of a 32-bit two's complement.
HexDigit(id, k) ==
    IF id >= 0 THEN (id \div 16 ^ (8 - k)) % 16 ELSE 15 - (((-1 - id) \div 16 ^ (8 - k)) % 16)
HexChar(d) == IF d < 10 THEN 48 + d ELSE 87 + d

\* The character that stands for a token: past the surrogates, which are not
\* characters; the number itself when it is too large or negative.
EncodeToken(id) ==
    IF id \in 0 .. LastPlain THEN <<id + (IF id >= SurrogatesStart THEN SurrogatesSize ELSE 0)>>
    ELSE <<Escape>> \o [k \in 1 .. 8 |-> HexChar(HexDigit(id, k))] \o <<59>>
TokenKey(ids) == KeyMark \o FlattenSeq([i \in DOMAIN ids |-> EncodeToken(ids[i])])

\* EventCache::score_text: the tokens of a key, or None where one was escaped.
DecodeKey(key) ==
    LET body == SubSeq(key, 3, Len(key))
    IN  IF Contains(body, Escape) THEN None
        ELSE Some([i \in DOMAIN body |-> IF body[i] >= SurrogatesStart + SurrogatesSize THEN body[i] - SurrogatesSize ELSE body[i]])

Digits[n \in Nat] == IF n < 10 THEN <<48 + n>> ELSE Digits[n \div 10] \o <<48 + (n % 10)>>
Decimal(id) == IF id < 0 THEN <<45>> \o Digits[-id] ELSE Digits[id]
DecimalIds(ids) == FlattenSeq([i \in DOMAIN ids |-> IF i = 1 THEN Decimal(ids[i]) ELSE <<32>> \o Decimal(ids[i])])

\* PromptInput: a string, strings, tokens, or a batch, of which only the sizes
\* are used.
CompletionText(prompt) ==
    CASE prompt[1] = "string" -> prompt[2]
      [] prompt[1] = "strings" -> Join(prompt[2])
      [] prompt[1] = "ids" -> TokenKey(prompt[2])
      [] prompt[1] = "batch" -> <<"token_ids_batch", Len(prompt[2]), Total([i \in DOMAIN prompt[2] |-> Len(prompt[2][i])])>>

\* GenerateRequest: the first of text, prompt and input_ids that is given.
GenerateText(request) ==
    CASE request[1] = "string" -> request[2]
      [] request[1] = "strings" -> Join(request[2])
      [] request[1] = "ids" -> DecimalIds(request[2])
      [] request[1] = "batch" -> DecimalIds(FlattenSeq(request[2]))

\* InferenceGenerateRequest
InferenceText(ids) == DecimalIds(ids)

\* ResponsesRequest: the texts of the items that have some.
ResponsesText(items) == Join(SelectSeq(items, LAMBDA t : t # <<>>))

\* EmbeddingRequest: a string, or the strings of an array; tokens are left out.
EmbeddingText(value) ==
    CASE value[1] = "string" -> value[2]
      [] value[1] = "strings" -> Join(value[2])
      [] OTHER -> <<>>
-----------------------------------------------------------------------------
(* Inputs.                                                                 *)

Call(arguments) == [name |-> "f", arguments |-> arguments]

RawMessages ==
    [of : {"raw"}, role : {"assistant", "system", "user", "tool", "function", "critic"},
     content : NoValue \cup {Str(<<"a">>), InParts(<<Text(<<" ">>), Image>>)},
     reasoning : NoValue \cup {Some("r")}, reasoning_content : {<<"absent">>, <<"other">>, Some("s")},
     tool_calls : {<<"absent">>, <<"other">>, Some(<<Call(None)>>)},
     function_call : {<<"null">>, Some(Call(Some(<<"x">>)))}]

Said(role, content) ==
    [role |-> role, content |-> content, reasoning |-> None, tool_calls |-> None, function_call |-> None]
ChatMessages ==
    {Said("system", Str(<<"a">>)), Said("user", Str(<<"a", " ">>)), Said("user", Str(<<" ">>)),
     Said("user", InParts(<<Text(<<"a", "b">>), Text(<<"b">>)>>)), Said("user", InParts(<<Image>>)),
     Said("assistant", Str(<<"a">>)), Said("assistant", None),
     [Said("assistant", None) EXCEPT !.tool_calls = Some(<<Call(Some(<<"x">>)), Call(Some(<<" ">>)), Call(Some(<<"y">>))>>)],
     [Said("assistant", Str(<<" ">>)) EXCEPT !.function_call = Some(Call(Some(<<"x">>)))],
     Said("tool", InParts(<<Image, Text(<<"a">>)>>)), Said("function", Str(<<"a">>))}
Schemas == {[tools |-> None, functions |-> None], [tools |-> Some(<<2, 1>>), functions |-> None],
            [tools |-> Some(<<>>), functions |-> Some(<<1>>)]}
Conversations ==
    {[of |-> "chat", messages |-> ms, tools |-> d.tools, functions |-> d.functions, session |-> s] :
        ms \in BoundedSeq(ChatMessages, MaxMessages), d \in Schemas, s \in {<<>>, <<"s">>}}

Strings == BoundedSeq({"a", "b"}, 2)
PromptInputs ==
    [of : {"prompt"}, prompt : ({"string"} \X Strings) \cup ({"strings"} \X BoundedSeq(Strings, 2))
                                   \cup ({"ids"} \X BoundedSeq(TokenIds, 2)) \cup ({"batch"} \X BoundedSeq(BoundedSeq({1, 12}, 1), 2))]
RoutingTextInput == \/ input \in RawMessages \/ input \in Conversations \/ input \in PromptInputs

\* A prompt that goes on where p ends.
Extensions(p) ==
    CASE p[1] = "string" -> {<<"string", p[2] \o <<"b">>>>}
      [] p[1] = "strings" -> {<<"strings", Append(p[2], s)>> : s \in Strings}
      [] p[1] = "ids" -> {<<"ids", Append(p[2], t)>> : t \in TokenIds}
      [] OTHER -> {}
-----------------------------------------------------------------------------
\* "Prefer a usable canonical string when both keys are present; otherwise
\* fall back": a message that was parsed and written again is the message that
\* the next server parses, its content and an assistant's reasoning under
\* either name and its calls included.
MessagesSurvive ==
    input.of = "raw" /\ ParseMessage(input).role # "unknown" =>
        LET m == ParseMessage(input)
        IN  /\ ParseMessage(WriteMessage(m)) = m
            /\ HasContent(input.content) /\ (m.role = "function" => input.content[1] = "string") => m.content = input.content
            /\ m.role = "assistant" /\ (Given(input.reasoning) \/ Given(input.reasoning_content)) => Given(m.reasoning)
            /\ m.role = "assistant" /\ Given(input.tool_calls) => m.tool_calls = input.tool_calls

\* "Stable static metadata precedes messages, so appending a turn preserves
\* prefixes": the SMetric prompt of a conversation starts with the prompt it had
\* when any of its answers was given, the last of which is the history it
\* expects in a cache; and Program scheduling sees the messages grow likewise,
\* by every message that has a text or a call with arguments.
TurnsExtendPrompts ==
    input.of = "chat" =>
        LET prompt == SMetricPrompt(input)
            until(i) == [input EXCEPT !.messages = SubSeq(input.messages, 1, i)]
            answers == {i \in DOMAIN input.messages : input.messages[i].role = "assistant"}
            bare == [input EXCEPT !.tools = None, !.functions = None, !.session = <<>>]
            bareUntil(i) == ProgramText([bare EXCEPT !.messages = SubSeq(input.messages, 1, i)])
            says(m) == \/ RoutingTexts(m.content) # <<>>
                       \/ Given(m.tool_calls) \/ Given(m.function_call)
        IN  /\ prompt.single =>
                   /\ prompt.est_hit_chars <= Chars(prompt.text)
                   /\ \A i \in answers : IsPrefix(SMetricPrompt(until(i)).text, prompt.text)
                   /\ answers # {} => prompt.est_hit_chars = Chars(SMetricPrompt(until(Max(answers))).text)
                   /\ answers = {} => prompt.est_hit_chars = 0
            /\ \A i \in DOMAIN input.messages :
                   /\ IsPrefix(bareUntil(i), ProgramText(bare))
                   /\ says(input.messages[i]) <=> Len(bareUntil(i - 1)) < Len(bareUntil(i))

\* The text or key of a prompt that goes on where another ended starts with
\* the other's: what the prefix trees and the cache compare is preserved for
\* every kind of prompt but a batch.
ExtendedPromptsExtendKeys ==
    input.of = "prompt" => \A q \in Extensions(input.prompt) :
        /\ IsPrefix(CompletionText(input.prompt), CompletionText(q))
        /\ IsPrefix(GenerateText(input.prompt), GenerateText(q))
        /\ IsPrefix(EmbeddingText(input.prompt), EmbeddingText(q))
        /\ input.prompt[1] = "ids" => IsPrefix(InferenceText(input.prompt[2]), InferenceText(q[2]))
        /\ input.prompt[1] = "strings" => IsPrefix(ResponsesText(input.prompt[2]), ResponsesText(q[2]))

\* "the existing reversible routing key": the tokens the event cache reads from
\* a key are the tokens the key was made of, or it reads none (score_text): that
\* is where an id was escaped, and where one is the last plain id, whose
\* character is the escape itself.
TokenKeysAreReversible ==
    input.of = "prompt" /\ input.prompt[1] = "ids" =>
        LET ids == input.prompt[2]
        IN  DecodeKey(CompletionText(input.prompt)) =
                IF \E i \in DOMAIN ids : ids[i] \notin 0 .. LastPlain - 1 THEN None ELSE Some(ids)

(***************************************************************************)
(* The text a request is routed by has all of its messages and grows with  *)
(* the conversation, and what is read from the key of token ids is those   *)
(* token ids or nothing.                                                   *)
(***************************************************************************)
RoutingTextsAgree ==
    MessagesSurvive /\ TurnsExtendPrompts /\ ExtendedPromptsExtendKeys /\ TokenKeysAreReversible
=============================================================================
