-------------------------- MODULE MCMistralStream --------------------------
(* Instances of MistralStream for TLC. *)
EXTENDS MistralStream

MCDeltas     == {"p", "q"}
MCUnparsable == {"junk", ""}

DataLine(p) == <<"data:", p>>
Frame(s) == s \o <<LF, LF>>
FrameCRLF(s) == s \o <<CR, LF, CR, LF>>

MCTexts == {
    \* what a provider sends, with a first delta that is empty
    Frame(DataLine("role")) \o Frame(DataLine("p")) \o Frame(DataLine("q")) \o Frame(DataLine(Done)),
    \* a data line with nothing in it
    FrameCRLF(DataLine("p")) \o FrameCRLF(<<"data:">>) \o FrameCRLF(DataLine(Done)),
    \* two lines in a frame, both kinds of line end, and more after [DONE]
    FrameCRLF(DataLine("p") \o <<CR, LF>> \o DataLine("junk")) \o Frame(DataLine(Done)) \o Frame(DataLine("q")) \o Frame(DataLine(Done)),
    \* no [DONE]; an unfinished last frame; a body that is no event stream; nothing
    Frame(<<": comment">>) \o Frame(DataLine("p")) \o DataLine("q"),
    <<"{error}", LF>>,
    <<>> }

Request(route, parses, prompt, stream, binary) ==
    [route |-> route, parses |-> parses, prompt |-> prompt, stream |-> stream, binary |-> binary]

MCRequests ==
    {Request(route, parses, prompt, route = "sse", FALSE) :
        route \in {"ask", "sse"}, parses \in BOOLEAN, prompt \in {"", "hello"}}
    \cup {Request("ws", parses, prompt, stream, binary) :
        parses \in BOOLEAN, prompt \in {"", "hello"}, stream \in BOOLEAN, binary \in BOOLEAN}
=============================================================================
