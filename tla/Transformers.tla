---------------------------- MODULE Transformers ----------------------------
(***************************************************************************)
(* What the three transformers do to a request, to a response and to one   *)
(* line of a provider's stream: OpenAI (and everything compatible with it), *)
(* Anthropic and Gemini.  A text is a value of the model; a content is text *)
(* or, for requests that show images, an array of parts.                   *)
(***************************************************************************)
EXTENDS Integers, Sequences, SequencesExt, Selection

Dialects == {"openai", "anthropic", "gemini"}
Empty == "" \* the empty text

-----------------------------------------------------------------------------
(* Requests.  A message is [role, content], a content [kind, text]: a string *)
(* or the parts of an array, and the text it has.                           *)

\* Of an array nothing is left.
ContentString(msg) == IF msg.content.kind = "text" THEN msg.content.text ELSE Empty

IsSystem(msg) == msg.role = "system"
SystemOf(messages) == {msg \in ToSet(messages) : IsSystem(msg)}

\* The only system prompt that is sent is the last.
SystemPrompt(messages) ==
    LET system == Kept(messages, SystemOf(messages))
    IN  IF system = <<>> THEN Empty ELSE ContentString(Last(system))

Turn(dialect, msg) ==
    [role |-> IF dialect = "gemini" /\ msg.role = "assistant" THEN "model" ELSE msg.role,
     content |-> [kind |-> "text", text |-> ContentString(msg)]]
TurnsOf(dialect, others) == [i \in DOMAIN others |-> Turn(dialect, others[i])]
\* Mutant: a turn per message, the system's included.
TurnsOfAll(dialect, messages) == TurnsOf(dialect, messages)
Turns(dialect, messages) ==
    TurnsOf(dialect, Kept(messages, ToSet(messages) \ SystemOf(messages)))

\* Anthropic refuses a conversation of no turns, so one is made up.
Placeholder == [role |-> "user", content |-> [kind |-> "text", text |-> Empty]]
NoPlaceholder(turns) == turns \* mutant
AtLeastOne(turns) == IF turns = <<>> THEN <<Placeholder>> ELSE turns

OpenAIRequest(messages) == [system |-> Empty, messages |-> messages]
AnthropicRequest(messages) ==
    [system |-> SystemPrompt(messages),
     messages |-> AtLeastOne(Turns("anthropic", messages))]
GeminiRequest(messages) ==
    [system |-> SystemPrompt(messages), messages |-> Turns("gemini", messages)]

TransformRequest(dialect, messages) ==
    CASE dialect = "openai" -> OpenAIRequest(messages)
      [] dialect = "anthropic" -> AnthropicRequest(messages)
      [] dialect = "gemini" -> GeminiRequest(messages)

-----------------------------------------------------------------------------
(* Responses.  Blocks are what a provider's answer is made of: Anthropic's   *)
(* are all joined, Gemini's first part alone is read.  Of the reasons there  *)
(* are "length" and "stop".                                                *)

FirstOf(blocks) == IF blocks = <<>> THEN <<>> ELSE <<blocks[1]>>

OpenAIResponse(blocks, reason) == [text |-> blocks, finish |-> reason]
AnthropicResponse(blocks, reason) == [text |-> blocks, finish |-> reason]
GeminiResponse(blocks, reason) == [text |-> FirstOf(blocks), finish |-> "stop"]

TransformResponse(dialect, blocks, reason) ==
    CASE dialect = "openai" -> OpenAIResponse(blocks, reason)
      [] dialect = "anthropic" -> AnthropicResponse(blocks, reason)
      [] dialect = "gemini" -> GeminiResponse(blocks, reason)

-----------------------------------------------------------------------------
(* Lines of a stream.  A line is [kind, parts, finish]: "data" is an event   *)
(* that may carry text, "noise" one without any (ping, starts and stops of    *)
(* Anthropic, no candidates, no choices), "garbled" is not JSON, "done" is    *)
(* [DONE]; "blank" is no data line and "long" one over a megabyte, which no   *)
(* transformer sees.  finish is the reason the message ended, on the line     *)
(* that ends it: a delta of OpenAI, message_stop of Anthropic, a candidate.   *)

Chunk(parts, finish) == [kind |-> "chunk", parts |-> parts, finish |-> finish]
Done == [kind |-> "done", parts |-> <<>>, finish |-> "none"]
Raw == [kind |-> "raw", parts |-> <<>>, finish |-> "none"]

\* The frames written for a line, and whether the loop ends after them.
Frames(frames, isDone) == [frames |-> frames, isDone |-> isDone]
Skip == Frames(<<>>, FALSE)

OpenAIChunk(line) ==
    CASE line.kind = "done" -> Frames(<<Done>>, TRUE)
      [] line.kind = "garbled" -> Frames(<<Raw>>, FALSE)
      [] line.kind \in {"data", "noise"} -> Frames(<<Chunk(line.parts, line.finish)>>, FALSE)

\* message_stop is told as "stop" whatever the reason; no [DONE] is written.
AnthropicChunk(line) ==
    CASE line.kind = "data" /\ line.finish # "none" -> Frames(<<Chunk(<<>>, "stop")>>, FALSE)
      [] line.kind = "data" /\ line.finish = "none" ->
           Frames(<<Chunk(line.parts, "none")>>, FALSE)
      [] OTHER -> Skip

FirstText(line) == IF line.parts = <<>> THEN Empty ELSE line.parts[1]

\* Mutant: a candidate with a finish reason ends the stream, text or not.
GeminiStops(line) ==
    CASE line.kind = "data" /\ line.finish = "stop" -> Frames(<<Chunk(<<>>, "stop"), Done>>, TRUE)
      [] line.kind = "data" /\ line.finish # "stop" ->
           Frames(<<Chunk(FirstOf(line.parts), "none")>>, FALSE)
      [] OTHER -> Skip
\* Only a last candidate without text is told as the end.
GeminiChunk(line) ==
    CASE line.kind = "data" /\ line.finish = "stop" /\ FirstText(line) = Empty ->
           Frames(<<Chunk(<<>>, "stop"), Done>>, TRUE)
      [] line.kind = "data" /\ ~(line.finish = "stop" /\ FirstText(line) = Empty) ->
           Frames(<<Chunk(FirstOf(line.parts), "none")>>, FALSE)
      [] OTHER -> Skip

TransformStreamChunk(dialect, line) ==
    CASE dialect = "openai" -> OpenAIChunk(line)
      [] dialect = "anthropic" -> AnthropicChunk(line)
      [] dialect = "gemini" -> GeminiChunk(line)
=============================================================================
