------------------------------ MODULE Detokenize ------------------------------
(***************************************************************************)
(* Incremental detokenization (tokenizer/stop.rs, stream.rs, sequence.rs): *)
(* tokens come one at a time, a character may be split over tokens, and a  *)
(* stop sequence may be split in any way.                                  *)
(*                                                                         *)
(* A text is a sequence of characters: "a" and "b" of one byte, "e" of two *)
(* bytes, and "?" for the replacement character U+FFFD, of three.  Tokens  *)
(* "e1" and "e2" are the bytes of "e"; "sp" is a special token.            *)
(***************************************************************************)
EXTENDS Parts, Naturals, Sequences, SequencesExt, FiniteSets, FiniteSetsExt

CONSTANTS
    MaxTokens,       \* bound: tokens of a sequence
    StopChoices      \* [hidden |-> stop sequences, visible |-> stop sequences,
                     \*  tokens |-> stop tokens, shown |-> visible stop tokens]

TokenBytes ==
    [a |-> <<"a">>, b |-> <<"b">>, ab |-> <<"a", "b">>, e1 |-> <<"1">>, e2 |-> <<"2">>, sp |-> <<>>]
Tokens == DOMAIN TokenBytes
Width == [a |-> 1, b |-> 1, e |-> 2] @@ ("?" :> 3)

\* The tokenizer: bytes that make no character become replacements.
CharactersOf(bytes) ==
    LET whole(i) == i < Len(bytes) /\ bytes[i] = "1" /\ bytes[i + 1] = "2"
        char(i) == IF bytes[i] \in {"a", "b"} THEN <<bytes[i]>>
                   ELSE IF whole(i) THEN <<"e">> ELSE IF i > 1 /\ whole(i - 1) THEN <<>> ELSE <<"?">>
    IN  FlattenSeq([i \in DOMAIN bytes |-> char(i)])
Decode(tokens) == CharactersOf(FlattenSeq([i \in DOMAIN tokens |-> TokenBytes[tokens[i]]]))

Size(text) == FoldLeft(LAMBDA n, c : n + Width[c], 0, text)
Incomplete(text) == text # <<>> /\ Last(text) = "?"

\* text[n..]: a slice that does not start at a character is a panic.
Panic == <<"panic">>
From(text, n) ==
    LET cuts == {k \in 0 .. Len(text) : Size(SubSeq(text, 1, k)) = n}
    IN  IF cuts = {} THEN Panic ELSE SubSeq(text, Min(cuts) + 1, Len(text))
\* Where the next character at or before byte n starts, as a slice.
FromBoundary(text, n) ==
    From(text, Max({Size(SubSeq(text, 1, k)) : k \in 0 .. Len(text)} \cap 0 .. n))

After(tokens, from) == SubSeq(tokens, from + 1, Len(tokens))
-----------------------------------------------------------------------------
(* DecodeStream.                                                           *)

NewStream == [all |-> <<>>, prefix |-> 0, read |-> 0, out |-> <<>>]

\* The text of the tokens read before, and of those with the new one.
Before(s) == Decode(SubSeq(s.all, s.prefix + 1, s.read))
Full(s, t) == Decode(After(Append(s.all, t), s.prefix))

\* step: text comes out when a longer one can be decoded that is complete.
StreamText(s, all, before, text) ==
    IF Size(text) > Size(before) /\ ~Incomplete(text)
    THEN [all |-> all, prefix |-> s.read, read |-> Len(all), out |-> s.out \o From(text, Size(before))]
    ELSE [s EXCEPT !.all = all]
StreamStep(s, t) == StreamText(s, Append(s.all, t), Before(s), Full(s, t))

StreamFlush(s) == [s EXCEPT !.read = Len(s.all), !.out = @ \o Decode(After(s.all, s.read))]
-----------------------------------------------------------------------------
(* Sequence.                                                               *)

\* append_token; it keeps special tokens, so there is none without text.
AppendText(s, all, before, text) ==
    LET moved == [s EXCEPT !.all = all, !.read = Len(all)]
    IN  IF s.prefix = 0 /\ s.read = 0
        THEN IF Incomplete(text) THEN moved ELSE [moved EXCEPT !.out = @ \o text]
        ELSE IF Size(text) > Size(before) /\ ~Incomplete(text)
             THEN [moved EXCEPT !.prefix = s.read,
                                !.out = @ \o SelectSeq(FromBoundary(text, Size(before)), LAMBDA c : c # "?")]
             ELSE moved
AppendToken(s, t) == AppendText(s, Append(s.all, t), Before(s), Full(s, t))
-----------------------------------------------------------------------------
(* StopSequenceDecoder.                                                    *)

NewDecoder == [all |-> <<>>, prefix |-> 0, read |-> 0, jail |-> <<>>, out |-> <<>>, stopped |-> FALSE, cause |-> <<>>]

Found(text, stop) == {p \in 1 .. Len(text) - Len(stop) + 1 : SubSeq(text, p, p + Len(stop) - 1) = stop}
FirstIn(text, stops) == SelectSeq(stops, LAMBDA s : Found(text, s) # {})

\* Mutant: nothing is held back.
JailNothing(text, stops) == 0

\* The longest end of the text that a stop sequence may start with.
PartialMatch(text, stops) ==
    Max({0} \cup {n \in 1 .. Len(text) : \E i \in DOMAIN stops :
            n < Len(stops[i]) /\ IsPrefix(SubSeq(text, Len(text) - n + 1, Len(text)), stops[i])})

\* What is to be checked: what was held back, and the new text.
CheckText(s, full, before) == s.jail \o From(full, Size(before))

Stop(s, text, why) == [s EXCEPT !.stopped = TRUE, !.out = @ \o text, !.jail = <<>>, !.cause = why]

\* The text up to the first stop sequence in it, and what may be a beginning
\* of one held back when there is none.
EmitText(s, all, text, hidden, visible, held) ==
    IF hidden # <<>>
    THEN Stop([s EXCEPT !.all = all], SubSeq(text, 1, Min(Found(text, Head(hidden))) - 1), Head(hidden))
    ELSE IF visible # <<>>
    THEN Stop([s EXCEPT !.all = all],
              SubSeq(text, 1, Min(Found(text, Head(visible))) + Len(Head(visible)) - 1), Head(visible))
    ELSE [s EXCEPT !.all = all, !.prefix = s.read, !.read = Len(all),
                   !.out = @ \o SubSeq(text, 1, Len(text) - held),
                   !.jail = SubSeq(text, Len(text) - held + 1, Len(text))]

CheckStops(s, all, text, c) ==
    EmitText(s, all, text, FirstIn(text, c.hidden), FirstIn(text, c.visible),
             PartialMatch(text, c.hidden \o c.visible))

\* process_token: a stop token ends the text; a stop sequence in what was
\* held back and what is new ends it before or after itself.
ProcessText(s, t, c, before, full) ==
    IF s.stopped THEN s
    ELSE IF t \in c.tokens THEN Stop(s, s.jail, <<t>>)
    ELSE IF t \in c.shown THEN Stop(s, s.jail \o Decode(<<t>>), <<t>>)
    ELSE IF Incomplete(full) \/ Size(full) <= Size(before) THEN [s EXCEPT !.all = Append(@, t)]
    ELSE CheckStops(s, Append(s.all, t), CheckText(s, full, before), c)
ProcessToken(s, t, c) == ProcessText(s, t, c, Before(s), Full(s, t))

DecoderFlush(s) == [s EXCEPT !.out = @ \o s.jail, !.jail = <<>>]
-----------------------------------------------------------------------------
TokenInputs == [of : {"tokens"}, tokens : UNION {[1 .. n -> Tokens] : n \in 0 .. MaxTokens}, stops : StopChoices]

Streamed(tokens) == FoldLeft(StreamStep, NewStream, tokens)
Sequenced(tokens) == FoldLeft(AppendToken, NewStream, tokens)
DecodedBy(tokens, c) == FoldLeft(LAMBDA s, t : ProcessToken(s, t, c), NewDecoder, tokens)

\* The longest beginning of the tokens whose text is complete.
Complete(tokens) ==
    SubSeq(tokens, 1, Max({n \in 0 .. Len(tokens) : ~Incomplete(Decode(SubSeq(tokens, 1, n)))}))
SplitsNothing(tokens) == \A n \in 1 .. Len(tokens) : "?" \notin ToSet(Decode(SubSeq(tokens, 1, n)))

\* However characters are split over tokens, the chunks of a stream are the
\* text of all its tokens, once flushed, and before that all of the text
\* whose characters are complete.
StreamLosesNothing ==
    input.of = "tokens" =>
        \E s \in {Streamed(input.tokens)} :
            /\ s.out = Decode(Complete(input.tokens))
            /\ StreamFlush(s).out = Decode(input.tokens)

\* "return newly decoded text": what append_token returned is the text of
\* the sequence, as long as no character is split over tokens.
AppendsAddUp ==
    input.of = "tokens" /\ SplitsNothing(input.tokens) /\ "sp" \notin ToSet(input.tokens) =>
        Sequenced(input.tokens).out = Decode(input.tokens)

\* Until it stops, the decoder has given out or holds back all complete
\* text, no stop sequence is in it, and no stop token has come.
DecoderKeepsText ==
    input.of = "tokens" =>
        \E s \in {DecodedBy(input.tokens, input.stops)}, text \in {Decode(Complete(input.tokens))} :
            ~s.stopped =>
                /\ DecoderFlush(s).out = text
                /\ FirstIn(text, input.stops.hidden \o input.stops.visible) = <<>>
                /\ ToSet(input.tokens) \cap (input.stops.tokens \cup input.stops.shown) = {}

\* No part of a stop sequence that is to be hidden ever comes out, however
\* it was cut up, and what came out is the beginning of the text, up to a
\* stop that is to be seen.
HiddenStopsStayHidden ==
    input.of = "tokens" =>
        \E s \in {DecodedBy(input.tokens, input.stops)}, text \in {Decode(input.tokens)} :
            LET seen == IF s.cause \in ToSet(input.stops.visible) THEN s.cause
                        ELSE IF \E t \in input.stops.shown : s.cause = <<t>> THEN Decode(s.cause) ELSE <<>>
                upto == SubSeq(s.out, 1, Len(s.out) - Len(seen))
            IN  /\ s.out = upto \o seen
                /\ IsPrefix(upto, text)
                /\ FirstIn(upto, input.stops.hidden) = <<>>
                /\ s.cause \in ToSet(input.stops.hidden) => IsPrefix(s.out \o s.cause, text)

(***************************************************************************)
(* Streaming detokenisation loses, repeats and shows nothing it should not,*)
(* however the tokens are cut and whatever the stop sequences are.         *)
(***************************************************************************)
DecodingIsExact ==
    StreamLosesNothing /\ AppendsAddUp /\ DecoderKeepsText /\ HiddenStopsStayHidden
=============================================================================
