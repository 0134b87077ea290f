------------------------------ MODULE Executor ------------------------------
(***************************************************************************)
(* One call of a provider, by Execute or ExecuteStream: the conversation is *)
(* transformed and sent, and either one response is transformed, or the     *)
(* lines of a stream are scanned, transformed and written to the client     *)
(* until the provider ends, [DONE] is seen, or the connection to either     *)
(* side breaks.  What the handler does with errors is in ProxyHandler.      *)
(***************************************************************************)
EXTENDS Transformers, FiniteSets

CONSTANTS
    Contents,    \* what a message may contain: [kind, text], the text of an array's parts
    MaxMessages, \* the longest conversation
    Texts,       \* pieces of text
    MaxLines,    \* how many lines a provider sends
    MaxParts     \* how many parts one line carries

ASSUME ExecutorAssumption ==
    /\ MaxMessages \in Nat /\ MaxLines \in Nat /\ MaxParts \in Nat
    /\ \A c \in Contents : c.kind \in {"text", "parts"}
    /\ Empty \notin Texts

VARIABLES
    dialect,  \* the provider's format
    messages, \* the conversation, until the provider has it
    body,     \* what is sent of it
    sent,     \* history: the lines the provider sent
    closed,   \* the provider's side: "open", "eof", "broken"
    read,     \* how many of them the scanner returned or gave up on
    out,      \* the frames written to the client, or the response
    at        \* "ask", "sent", "scan", or why it ended: "done", "eof", "answered"

executorVars == <<dialect, messages, body, sent, closed, read, out, at>>

Nothing == [system |-> Empty, messages |-> <<>>]
Roles == {"system", "user", "assistant"}
Line(kind, parts, finish) == [kind |-> kind, parts |-> parts, finish |-> finish]
Pieces == UNION {[1..n -> Texts] : n \in 1..MaxParts}

ExecutorInit ==
    /\ dialect \in Dialects
    /\ messages = <<>> /\ body = Nothing
    /\ sent = <<>>
    /\ closed = "open"
    /\ read = 0
    /\ out = <<>>
    /\ at = "ask"

-----------------------------------------------------------------------------
(* The request. *)

\* What a client may send: any conversation.
Say ==
    /\ at = "ask" /\ Len(messages) < MaxMessages
    /\ \E role \in Roles, content \in Contents :
        messages' = Append(messages, [role |-> role, content |-> content])
    /\ UNCHANGED <<dialect, body, sent, closed, read, out, at>>

SendRequest ==
    /\ at = "ask"
    /\ body' = TransformRequest(dialect, messages)
    /\ at' = "sent"
    /\ UNCHANGED <<dialect, messages, sent, closed, read, out>>

Taken == messages' = <<>> /\ body' = Nothing

\* Execute: the whole response is read and transformed.
Respond ==
    /\ at = "sent"
    /\ \E blocks \in Pieces, reason \in {"stop", "length"} :
        LET response == TransformResponse(dialect, blocks, reason)
        IN  /\ sent' = <<Line("data", blocks, reason)>>
            /\ out' = <<Chunk(response.text, response.finish)>>
    /\ closed' = "eof" /\ read' = 1
    /\ at' = "answered"
    /\ Taken
    /\ UNCHANGED dialect

\* ExecuteStream: 200, and the header is written to the client.
StreamStarts ==
    /\ at = "sent"
    /\ at' = "scan"
    /\ Taken
    /\ UNCHANGED <<dialect, sent, closed, read, out>>

-----------------------------------------------------------------------------
(* The stream: the provider. *)

\* The provider may go on after the executor stopped reading.
Streaming == at \in {"scan", "done", "eof"}
Finished == \E i \in DOMAIN sent : sent[i].finish # "none"
Ended == sent # <<>> /\ Last(sent).kind = "done"

Send(line) ==
    /\ Streaming /\ closed = "open"
    /\ Len(sent) < MaxLines
    /\ sent' = Append(sent, line)
    /\ UNCHANGED <<messages, body, dialect, closed, read, out, at>>

SendText ==
    /\ ~Finished
    /\ \E parts \in Pieces :
        Send(Line("data", parts, "none"))
\* Only Gemini's last line carries text too.
SendFinish ==
    /\ ~Finished
    /\ \E finish \in {"stop", "length"},
          parts \in {<<>>} \cup IF dialect = "gemini" THEN {<<t>> : t \in Texts} ELSE {} :
        Send(Line("data", parts, finish))
SendDone ==
    /\ dialect = "openai" /\ Finished /\ ~Ended
    /\ Send(Line("done", <<>>, "none"))
SendOther ==
    /\ ~Finished
    /\ \E kind \in {"noise", "garbled", "blank", "long"} : Send(Line(kind, <<>>, "none"))

\* A provider closes after the end of its message.
Eof ==
    /\ closed = "open"
    /\ Finished /\ (dialect = "openai" => Ended)
    /\ closed' = "eof"
    /\ UNCHANGED <<messages, body, dialect, sent, read, out, at>>

\* The connection to the provider breaks, or the client leaves and the context
\* of its request is cancelled, or the two minutes of the call are over.  What came
\* of the next line is a line of its own to the scanner.
Break ==
    /\ Streaming /\ closed = "open"
    /\ closed' = "broken"
    /\ \/ UNCHANGED sent
       \/ /\ Len(sent) < MaxLines
          /\ ~Finished \/ (dialect = "openai" /\ ~Ended)
          /\ sent' = Append(sent, Line("garbled", <<>>, "none"))
    /\ UNCHANGED <<messages, body, dialect, read, out, at>>

-----------------------------------------------------------------------------
(* The executor's loop. *)

Unread == read < Len(sent)
NextLine == sent[read + 1]

\* [DONE] is seen by the loop itself, in every format.
Handle(line) ==
    CASE line.kind = "blank" -> Skip
      [] line.kind = "done" -> Frames(<<Done>>, TRUE)
      [] OTHER -> TransformStreamChunk(dialect, line)

Scan ==
    /\ at = "scan" /\ Unread /\ NextLine.kind # "long"
    /\ LET handled == Handle(NextLine)
       IN  /\ out' = out \o handled.frames
           /\ at' = IF handled.isDone THEN "done" ELSE "scan"
    /\ read' = read + 1
    /\ UNCHANGED <<messages, body, dialect, sent, closed>>

\* Mutant: the loop writes [DONE] whenever it ends.
EofWithDone(frames) == Append(frames, Done)
AtEof(frames) == frames

ScanEnds ==
    /\ at = "scan"
    /\ \/ closed = "eof" /\ ~Unread
       \/ closed = "broken"
       \/ Unread /\ NextLine.kind = "long"
    /\ at' = "eof"
    /\ out' = AtEof(out)
    /\ UNCHANGED <<messages, body, dialect, sent, closed, read>>

-----------------------------------------------------------------------------
Request == Say \/ SendRequest \/ Respond \/ StreamStarts
Provider == SendText \/ SendFinish \/ SendDone \/ SendOther \/ Eof \/ Break
ExecutorNext == Request \/ Provider \/ Scan \/ ScanEnds

ExecutorSpec == ExecutorInit /\ [][ExecutorNext]_executorVars
-----------------------------------------------------------------------------
(* Properties. *)

Over == at \in {"done", "eof", "answered"}

Others == {i \in DOMAIN messages : ~IsSystem(messages[i])}
\* The place of message i among those that are not the system's.
Place(i) == Cardinality({j \in Others : j <= i})

SystemPlaces == DOMAIN messages \ Others
LastSystem == {i \in SystemPlaces : \A j \in SystemPlaces : j <= i}

\* Every message but the system's is sent to Anthropic and Gemini, in its place, as its
\* own speaker's and with the text the client wrote, and nothing else is; only a
\* conversation of nothing but the system's gets a turn made up.  Of the system's the
\* last is sent, wherever it stands, as the prompt.  What is said of texts is said of
\* contents that are strings alone: the text of an array is not sent, since ContentString
\* drops it (types.go:152-157; anthropic.go:73-86, gemini.go:59-76).
ConversationIsKept == (at = "sent" /\ dialect # "openai") =>
    /\ \A i \in Others :
        /\ messages[i].content.kind = "text" =>
            body.messages[Place(i)].content.text = messages[i].content.text
        /\ (body.messages[Place(i)].role = "user") = (messages[i].role = "user")
    /\ IF Others = {} /\ dialect = "anthropic" THEN body.messages = <<Placeholder>>
       ELSE Len(body.messages) = Cardinality(Others)
    /\ \A i \in LastSystem :
        messages[i].content.kind = "text" => body.system = messages[i].content.text

Said(lines) == FlattenSeq([i \in DOMAIN lines |-> lines[i].parts])
OnePart(lines) == \A i \in DOMAIN lines : Len(lines[i].parts) <= 1
Whole(lines) == \A i \in DOMAIN lines : lines[i].kind # "long"

\* When the provider ended its message and no line of it was too long, the client
\* has all of its text, once and in order, where each line carries one part; of a
\* line of several parts Gemini's first alone is passed on (executor.go:177-229).
AllIsSaid ==
    (Over /\ closed = "eof" /\ Whole(sent)
        /\ (dialect = "gemini" => OnePart(sent))) => Said(out) = Said(sent)

\* A client that sees [DONE] has seen a message its provider finished, and nothing
\* comes after it: a stream that broke off never looks complete (executor.go:195-229).
DoneIsHonest ==
    \A i \in DOMAIN out : out[i].kind = "done" =>
        /\ i = Len(out)
        /\ Finished
        /\ Whole(sent) /\ read = Len(sent)
=============================================================================
