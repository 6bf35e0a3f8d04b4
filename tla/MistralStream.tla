--------------------------- MODULE MistralStream ---------------------------
(***************************************************************************)
(* One exchange with the LLM proxy (llm_mistral.cpp): /ask, /ask/stream    *)
(* and a message on /mistral/ws, against an upstream that sends its text   *)
(* in chunks cut anywhere, and ends or fails at any point.                 *)
(*                                                                         *)
(* A text is a sequence of tokens: the line ends CR and LF, "data:", and   *)
(* payloads.  What a payload is to json::parse is given by two sets.       *)
(***************************************************************************)
EXTENDS Integers, Sequences, FiniteSets, SequencesExt, FiniteSetsExt

CONSTANTS
    Requests,   \* records [route, binary, parses, prompt, stream]
    Texts,      \* what upstream may send on a stream
    Deltas,     \* payloads that are JSON with a delta that is not empty
    Unparsable  \* payloads at which parsing or reading throws

(* json::parse("") throws as well *)
ASSUME PayloadAssumption ==
    /\ Deltas \cap Unparsable = {} /\ "[DONE]" \notin Deltas \cup Unparsable
    /\ "" \in Unparsable

ASSUME TextAssumption == Texts \subseteq Seq(UNION {Range(t) : t \in Texts})

VARIABLES
    request,   \* the request, NoRequest before it
    at,        \* where its handler is
    text,      \* what upstream has to send
    got,       \* how many tokens of it have come
    buffer,    \* State::buffer, WSState::buffer
    response,  \* [body, sent, ended]: crow::response, or the messages of the connection
    performed  \* the result of curl_easy_perform

vars == <<request, at, text, got, buffer, response, performed>>

CR == "\r"
LF == "\n"
Done == "[DONE]"
NoRequest == [route |-> "none"]
-----------------------------------------------------------------------------
(* What the client sees *)

Part(type, data) == [type |-> type, data |-> data]
Error == Part("error", "")

(* Crow sends a body when it is ended; what is written later is lost *)
Write(r, p) == IF r.ended THEN r ELSE [r EXCEPT !.body = Append(@, p)]
End(r)      == IF r.ended THEN r ELSE [r EXCEPT !.sent = r.body, !.ended = TRUE]
Send(r, p)  == [r EXCEPT !.sent = Append(@, p)]

(* Mutant: the response is ended before [DONE] is written *)
FinishMutant(r) == Write(End(r), Part("done", ""))

Finish(r) == End(Write(r, Part("done", "")))

(* One data line of a frame *)
Emit(route, r, p) ==
    CASE p = Done         -> IF route = "ws" THEN Send(r, Part("done", "")) ELSE Finish(r)
      [] p \in Deltas     -> IF route = "ws" THEN Send(r, Part("delta", p))
                             ELSE Write(r, Part("delta", p))
      [] p \in Unparsable -> IF route = "ws" THEN Send(r, Part("delta", p))
                             ELSE Write(r, Part("raw", p))
      [] OTHER            -> r
-----------------------------------------------------------------------------
(* Server-sent events *)

Starts(s, pattern) ==
    {i \in 1..(Len(s) - Len(pattern) + 1) : SubSeq(s, i, i + Len(pattern) - 1) = pattern}

(* Places in a text, from the first *)
Listed(places) ==
    [n \in 1..Cardinality(places) |->
        CHOOSE i \in places : Cardinality({j \in places : j < i}) = n - 1]

(* The payloads of the lines of s that begin with "data:" *)
DataLines(s) ==
    LET lines == Listed({i \in Starts(s, <<"data:">>) : i = 1 \/ s[i - 1] \in {CR, LF}})
    IN  [n \in DOMAIN lines |->
            IF lines[n] < Len(s) /\ s[lines[n] + 1] \notin {CR, LF} THEN s[lines[n] + 1] ELSE ""]

(* The delimiters of frames in s: where each begins, and its length *)
Delimiters(s) == {<<i, 2>> : i \in Starts(s, <<LF, LF>>)}
                     \cup {<<i, 4>> : i \in Starts(s, <<CR, LF, CR, LF>>)}

FirstFrame(s) ==
    LET d == CHOOSE d \in Delimiters(s) : \A x \in Delimiters(s) : d[1] <= x[1]
    IN  [lines |-> DataLines(SubSeq(s, 1, d[1] - 1)), rest |-> SubSeq(s, d[1] + d[2], Len(s))]

(* The loop of write_cb over the frames that are complete *)
Frames[s \in Seq(UNION {Range(t) : t \in Texts})] ==
    IF Delimiters(s) = {} THEN [lines |-> <<>>, rest |-> s]
    ELSE LET frame == FirstFrame(s)
             more  == Frames[frame.rest]
         IN  [lines |-> frame.lines \o more.lines, rest |-> more.rest]

(* Mutant: each call takes at most one frame from the buffer *)
DrainMutant(s) == IF Delimiters(s) = {} THEN [lines |-> <<>>, rest |-> s] ELSE FirstFrame(s)

Drain(s) == Frames[s]
-----------------------------------------------------------------------------
Init ==
    /\ request = NoRequest
    /\ at = "idle"
    /\ text \in Texts
    /\ got = 0
    /\ buffer = <<>>
    /\ response = [body |-> <<>>, sent |-> <<>>, ended |-> FALSE]
    /\ performed = "not yet"

Upstream == <<text, got, buffer, performed>>

Goto(place) == at' = place /\ UNCHANGED <<request, Upstream>>

(* The handler's last step: a whole HTTP response, or one message *)
Answer(parts) ==
    /\ response' = IF request.route = "ws" THEN FoldLeft(Send, response, parts)
                   ELSE End(FoldLeft(Write, response, parts))
    /\ Goto("returned")

Arrive(r) ==
    /\ at = "idle"
    /\ request' = r
    /\ at' = "begun"
    /\ UNCHANGED <<Upstream, response>>

(* A body json::parse rejects, a message that is binary *)
Malformed ==
    /\ at = "begun"
    /\ request.binary \/ ~request.parses
    /\ Answer(IF request.route = "sse" THEN <<Error, Part("done", "")>> ELSE <<Error>>)

(* Call, which every message on /mistral/ws tries before all else *)
CallReplies ==
    /\ at = "begun" /\ request.route = "ws" /\ ~request.binary /\ request.parses
    /\ Answer(<<Part("reply", "")>>)

CallThrows ==
    /\ at = "begun" /\ request.route = "ws" /\ ~request.binary /\ request.parses
    /\ UNCHANGED response
    /\ Goto("called")

Ready == /\ at = IF request.route = "ws" THEN "called" ELSE "begun"
         /\ ~request.binary /\ request.parses

MissingPrompt ==
    /\ Ready
    /\ request.prompt = ""
    /\ Answer(<<Error>>)

(* post_json_blocking and the reading of its answer, or what they throw *)
Ask ==
    /\ Ready
    /\ request.prompt # ""
    /\ request.route = "ask" \/ (request.route = "ws" /\ ~request.stream)
    /\ \E type \in {"final", "error"} : Answer(<<Part(type, "")>>)

Streams == request.prompt # "" /\ (request.route = "sse" \/ (request.route = "ws" /\ request.stream))

CurlInitFails ==
    /\ Ready /\ Streams
    /\ Answer(IF request.route = "sse" THEN <<Error, Part("done", "")>> ELSE <<Error>>)

StartStream ==
    /\ Ready /\ Streams
    /\ UNCHANGED response
    /\ Goto("perform")

(* Mutant: a frame that is not complete is dropped *)
ReceiveMutant(bytes) ==
    /\ at = "perform"
    /\ got + bytes <= Len(text)
    /\ got' = got + bytes
    /\ LET drained == Drain(SubSeq(text, got + 1, got + bytes))
       IN  /\ buffer' = <<>>
           /\ response' = FoldLeft(LAMBDA r, p : Emit(request.route, r, p), response, drained.lines)
    /\ UNCHANGED <<request, at, text, performed>>

(* write_cb gets the next chunk *)
Receive(bytes) ==
    /\ at = "perform"
    /\ got + bytes <= Len(text)
    /\ got' = got + bytes
    /\ LET drained == Drain(buffer \o SubSeq(text, got + 1, got + bytes))
       IN  /\ buffer' = drained.rest
           /\ response' = FoldLeft(LAMBDA r, p : Emit(request.route, r, p), response, drained.lines)
    /\ UNCHANGED <<request, at, text, performed>>

(* Upstream has sent all; an HTTP error status is no error to curl *)
PerformOk ==
    /\ at = "perform"
    /\ got = Len(text)
    /\ performed' = "ok"
    /\ at' = "returned"
    /\ UNCHANGED <<request, text, got, buffer, response>>

(* Mutant: an error is only written, the response is not ended *)
PerformFailsMutant ==
    /\ at = "perform"
    /\ performed' = "failed"
    /\ at' = "returned"
    /\ response' = IF request.route = "ws" THEN Send(response, Error)
                   ELSE Write(Write(response, Error), Part("done", ""))
    /\ UNCHANGED <<request, text, got, buffer>>

PerformFails ==
    /\ at = "perform"
    /\ performed' = "failed"
    /\ at' = "returned"
    /\ response' = IF request.route = "ws" THEN Send(response, Error)
                   ELSE Finish(Write(response, Error))
    /\ UNCHANGED <<request, text, got, buffer>>

Handler ==
    \/ Malformed \/ CallReplies \/ CallThrows \/ MissingPrompt \/ Ask
    \/ CurlInitFails \/ StartStream \/ PerformOk \/ PerformFails
    \/ \E bytes \in 1..Len(text) : Receive(bytes)

Next == (\E r \in Requests : Arrive(r)) \/ Handler

Spec == Init /\ [][Next]_vars

(* The handler's thread runs, and upstream ends each of its calls *)
FairSpec == Spec /\ WF_vars(Handler)
-----------------------------------------------------------------------------
(* Properties *)

Received == SubSeq(text, 1, got)

(* What has come up to the last end of a frame *)
Complete ==
    LET ends == {d[1] + d[2] - 1 : d \in Delimiters(Received)}
    IN  IF ends = {} THEN <<>> ELSE SubSeq(Received, 1, Max(ends))

(* The types of the variables, and the buffer is what no frame has used *)
TypeOK ==
    /\ request \in Requests \cup {NoRequest}
    /\ at \in {"idle", "begun", "called", "perform", "returned"}
    /\ text \in Texts /\ got \in 0..Len(text)
    /\ IsSuffix(buffer, Received) /\ Delimiters(buffer) = {}
    /\ response.ended \in BOOLEAN /\ performed \in {"not yet", "ok", "failed"}

(* What is at these places of s, in its order *)
Picked(s, places) == [n \in 1..Cardinality(places) |-> s[Listed(places)[n]]]

(* The payloads the client is shown, and those of what it has got *)
Shown(lines) == Picked(lines, {n \in DOMAIN lines : lines[n] \in Deltas \cup Unparsable})

Data(parts) ==
    LET shown == Picked(parts, {n \in DOMAIN parts : parts[n].type \in {"delta", "raw"}})
    IN  [n \in DOMAIN shown |-> shown[n].data]

(* The lines that count on an event stream *)
UpToDone(lines) ==
    LET stop == {n \in DOMAIN lines : lines[n] = Done}
    IN  IF stop = {} THEN lines ELSE SubSeq(lines, 1, Min(stop))

(* What a stream relays does not depend on how the text is cut into chunks: *)
(* the deltas are those of the data lines of all frames that are complete,  *)
(* in their order, and over SSE those before the first [DONE].              *)
RelayIsThatOfTheText ==
    at = "perform" =>
        LET lines == DataLines(Complete)
        IN  IF request.route = "ws" THEN Data(response.sent) = Shown(lines)
            ELSE Data(response.body) = Shown(UpToDone(lines))

(* Whatever comes first, a [DONE] from upstream, a second one, an error     *)
(* after it or a failure before it: an event stream that was answered has   *)
(* exactly one end mark, and it is the last thing in it.                    *)
OneEndMark ==
    request.route = "sse" /\ request.prompt # "" /\ response.ended
        => \A n \in DOMAIN response.sent :
              (response.sent[n].type = "done") <=> n = Len(response.sent)

Answered == IF request.route = "ws" THEN response.sent # <<>> ELSE response.ended

(* No exchange is left without an answer, except after an upstream that     *)
(* ends its call properly and sent no [DONE] (on a WebSocket: nothing).     *)
AnsweredUnlessQuiet ==
    (at = "begun") ~>
        \/ Answered
        \/ /\ performed = "ok"
           /\ IF request.route = "ws" THEN Range(DataLines(Complete)) \cap
                                            (Deltas \cup Unparsable \cup {Done}) = {}
              ELSE Done \notin Range(DataLines(Complete))

(* "Proxies provider SSE to the browser as: data: {"delta":"..."}"          *)
(* (llm_mistral.cpp:129): once upstream has ended, what it sent has reached *)
(* the browser.                                                             *)
DeltasReachBrowser == (at = "perform" /\ response.body # <<>>) ~> (response.sent # <<>>)
=============================================================================
