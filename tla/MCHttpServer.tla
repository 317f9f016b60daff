---------------------------- MODULE MCHttpServer ----------------------------
(* Small requests for TLC: lines, contents and what may follow them. *)
EXTENDS HttpServer

MCWord(kind, resource) ==
    [method |-> kind = "method", path |-> kind = "path", version |-> kind = "version", url |-> resource]
MCText(words, field, value) ==
    [words |-> words, field |-> field, value |-> value, number |-> value # -7]

None == [code |-> 404, size |-> 0]
Other == MCWord("other", None)
GET == MCWord("method", None)
HTTP == MCWord("version", None)
Get(code, size) == MCText(<<GET, MCWord("path", [code |-> code, size |-> size]), HTTP>>, "no colon", 0)
Length(n) == MCText(<<Other, Other>>, "Content-length", n)
Host == MCText(<<Other, Other>>, "other", 0)
Colon == MCText(<<Other>>, "ends at colon", 0)
Byte == MCText(<<Other>>, "no colon", 0)
NoPath == MCText(<<GET, Other, HTTP>>, "no colon", 0)
NoVersion == MCText(<<GET, MCWord("path", None)>>, "no colon", 0)
Version == MCText(<<HTTP>>, "no colon", 0)

MCTexts == {Get(200, n) : n \in {0, 1, 5}} \cup {Get(404, 0), Get(403, 0)}
           \cup {Length(n) : n \in {-7, 0, 2}} \cup {Host, Colon, Byte, NoPath, NoVersion, Version}

CRLF == <<CR, LF>>
L(t) == <<t>> \o CRLF

\* Every resource; header lines of every kind; malformed and unfinished requests;
\* content, and a second request behind the first.
MCInputs ==
    {L(Get(200, n)) \o CRLF : n \in {0, 1, 5}}
    \cup {L(Get(c, 0)) \o CRLF \o L(Byte) : c \in {403, 404}}
    \cup {L(Get(200, 1)) \o h \o CRLF \o <<Byte, Byte>> : h \in {L(Length(2)), L(Length(0)) \o L(Length(2))}}
    \cup {L(Get(200, 1)) \o L(h) \o CRLF : h \in {Length(0), Length(-7), Host, Colon, Get(404, 0)}}
    \cup {L(t) \o L(Get(200, 1)) \o CRLF : t \in {NoPath, NoVersion, Byte}}
    \cup {L(NoPath) \o L(Byte)}
    \cup {L(Get(200, 0)) \o CRLF \o L(Get(200, 1)) \o CRLF,
          <<Get(200, 1), LF>> \o CRLF \o CRLF, CRLF \o L(Byte), <<LF>> \o L(Get(200, 1)),
          <<CR>> \o L(Get(200, 1)) \o CRLF,
          <<NoVersion, CR>> \o L(Version) \o CRLF,
          L(Get(200, 1)) \o <<CR>> \o L(Length(2)) \o CRLF}
=============================================================================
