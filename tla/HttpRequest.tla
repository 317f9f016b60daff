----------------------------- MODULE HttpRequest -----------------------------
(***************************************************************************)
(* miniduo::HttpRequest (http/httpmsg.h, http/httpmsg.cpp): the parser     *)
(* that takes one request out of a connection's input buffer, as far as    *)
(* the bytes that have arrived allow, and goes on when more arrive.        *)
(*                                                                         *)
(* The input is a sequence of symbols: CR, LF and texts, a text being      *)
(* what stands on a line.  A text is known by what the parser finds in it: *)
(* its words, as parts of a request line, and which header field it is.    *)
(* It ends in white space, so that the words of neighbouring texts stay    *)
(* apart, unless it ends in the ':' of a header field.  Content-length and *)
(* the sizes of the buffer count symbols.                                  *)
(***************************************************************************)
EXTENDS Integers, Sequences, FiniteSets, SequencesExt

CONSTANTS
    Texts,      \* the texts of lines
    Inputs      \* what clients send: sequences of symbols

VARIABLES
    buf,            \* readable bytes of input_
    taken,          \* the bytes of input_ between kCheapPrepend and readerIndex_
    checkstate,     \* checkstate_
    url,            \* URL_, by the resource it names
    contentLength,  \* contentLength_
    ret             \* what tryDecode has found so far

requestVars == <<buf, taken, checkstate, url, contentLength, ret>>

CheckState == {"EXPECT_REQUESTLINE", "EXPECT_HEADER", "EXPECT_CONTENT", "GET_ALL"}

\* A word as a part of a request line: a supported method, a URL with a '/' that
\* names a resource, a supported version.
Word == [method : BOOLEAN, path : BOOLEAN, version : BOOLEAN, url : [code : Nat, size : Nat]]

\* A text as a header line: what stands before and after the first ':'.
IsText(t) ==
    /\ t.words \in Seq(Word)
    /\ t.field \in {"no colon", "other", "ends at colon", "Content-length"}
    /\ t.value \in Int
    /\ t.number \in BOOLEAN

CR == [symbol |-> "CR"]
LF == [symbol |-> "LF"]
NUL == [symbol |-> "NUL"]   \* what fills the kCheapPrepend bytes of a Buffer
NoURL == [code |-> 0, size |-> 0]

ASSUME InputAssumption ==
    /\ \A t \in Texts : IsText(t)
    /\ \A s \in Inputs :
         /\ s \in Seq(Texts \cup {CR, LF})
         /\ \A i \in 1..Len(s) - 1 :
              s[i] \in Texts /\ s[i].field = "ends at colon" => s[i + 1] \notin Texts

Clear ==
    /\ checkstate' = "EXPECT_REQUESTLINE"
    /\ url' = NoURL
    /\ contentLength' = 0

(***************************************************************************)
(* Lines                                                                   *)
(***************************************************************************)
FindCRLF(s) == {i \in 1..Len(s) - 1 : s[i] = CR /\ s[i + 1] = LF}
FirstCRLF(s) == CHOOSE i \in FindCRLF(s) : \A j \in FindCRLF(s) : i <= j

ParseLine(s) ==
    CASE FindCRLF(s) # {} -> "LINE_OK"
      [] FindCRLF(s) = {} /\ LF \in ToSet(s) -> "LINE_BAD"
      [] OTHER -> "LINE_OPEN"

Line(s) == SubSeq(s, 1, FirstCRLF(s) - 1)

\* Buffer::retrieve: a buffer that becomes empty starts again at kCheapPrepend.
Retrieve(n) ==
    /\ buf' = SubSeq(buf, n + 1, Len(buf))
    /\ taken' = IF n = Len(buf) THEN <<>> ELSE taken \o SubSeq(buf, 1, n)

RetrieveLine == Retrieve(FirstCRLF(buf) + 1)

\* The stringstream of parseRequstline takes the words of a line one after the
\* other, wherever there is white space, CR and LF included.  A word is known by
\* the text it is in and its place there.
TextsOf(line) == {k \in DOMAIN line : line[k] \in Texts}
Words(line) == UNION {{k} \X DOMAIN line[k].words : k \in TextsOf(line)}
WordAt(line, w) == line[w[1]].words[w[2]]
Precedes(v, w) == v[1] < w[1] \/ (v[1] = w[1] /\ v[2] < w[2])
NthWord(line, n) == {w \in Words(line) : Cardinality({v \in Words(line) : Precedes(v, w)}) = n - 1}

\* A supported method and the URL behind it.  (NUL stands only in front of a line,
\* where it spoils the method.)
NamesResource(line, u) ==
    /\ NUL \notin ToSet(line)
    /\ \E m \in NthWord(line, 1) : WordAt(line, m).method
    /\ u \in NthWord(line, 2) /\ WordAt(line, u).path

StartsRequest(line) ==
    /\ \E u \in Words(line) : NamesResource(line, u)
    /\ \E v \in NthWord(line, 3) : WordAt(line, v).version

RequestURL(line) == WordAt(line, CHOOSE u \in Words(line) : NamesResource(line, u)).url

\* The texts of a line that have a ':' in them.  What stands before the first one is
\* the field.
Colons(line) == {k \in TextsOf(line) : line[k].field # "no colon"}

Field(line) == CASE Colons(line) = {} -> "no colon"
                 [] 1 \in Colons(line) -> line[1].field
                 [] Colons(line) # {} /\ 1 \notin Colons(line) -> "other"

\* substr() starts past the end of the line, or stoi() finds no number.
Throws(line) ==
    \/ Colons(line) = {Len(line)} /\ line[Len(line)].field = "ends at colon"
    \/ Field(line) = "Content-length" /\ ~line[1].number

(***************************************************************************)
(* tryDecode: one action per round of its loop.  ret is "decoding" until   *)
(* it returns.                                                             *)
(***************************************************************************)
Decoding(state) == ret = "decoding" /\ checkstate = state
LineOK == ParseLine(buf) = "LINE_OK"

ParseRequestline ==
    /\ Decoding("EXPECT_REQUESTLINE") /\ LineOK
    /\ RetrieveLine
    /\ url' = IF \E u \in Words(Line(buf)) : NamesResource(Line(buf), u) THEN RequestURL(Line(buf)) ELSE url
    /\ IF StartsRequest(Line(buf))
         THEN checkstate' = "EXPECT_HEADER" /\ UNCHANGED ret
         ELSE ret' = "BAD_REQUEST" /\ UNCHANGED checkstate
    /\ UNCHANGED contentLength

ParseHeader ==
    /\ Decoding("EXPECT_HEADER") /\ LineOK /\ Line(buf) # <<>>
    /\ RetrieveLine
    /\ ret' = IF Throws(Line(buf)) THEN "exception" ELSE ret
    /\ contentLength' = IF Field(Line(buf)) = "Content-length" THEN buf[1].value ELSE contentLength
    /\ UNCHANGED <<checkstate, url>>

\* The empty line.
EndHeaders ==
    /\ Decoding("EXPECT_HEADER") /\ LineOK /\ Line(buf) = <<>>
    /\ RetrieveLine
    /\ \/ /\ contentLength > 0
          /\ checkstate' = "EXPECT_CONTENT"
          /\ UNCHANGED ret
       \/ /\ contentLength <= 0
          /\ checkstate' = "GET_ALL"
          /\ ret' = "GET_REQUEST"
    /\ UNCHANGED <<url, contentLength>>

\* Bug variant: what has come of the content is taken for all of it.
ParseContentShort ==
    /\ Decoding("EXPECT_CONTENT")
    /\ Retrieve(Len(buf))
    /\ checkstate' = "GET_ALL"
    /\ ret' = "GET_REQUEST"
    /\ UNCHANGED <<url, contentLength>>

ParseContent ==
    /\ Decoding("EXPECT_CONTENT")
    /\ \/ /\ Len(buf) < contentLength
          /\ ret' = "NO_REQUEST"
          /\ UNCHANGED <<buf, taken, checkstate>>
       \/ /\ Len(buf) >= contentLength
          /\ Retrieve(contentLength)
          /\ checkstate' = "GET_ALL"
          /\ ret' = "GET_REQUEST"
    /\ UNCHANGED <<url, contentLength>>

\* The loop ends because there is no whole line.
NoLine ==
    /\ ret = "decoding" /\ checkstate # "EXPECT_CONTENT" /\ ~LineOK
    /\ ret' = IF ParseLine(buf) = "LINE_OPEN" THEN "NO_REQUEST" ELSE "BAD_REQUEST"
    /\ UNCHANGED <<buf, taken, checkstate, url, contentLength>>

TryDecode == ParseRequestline \/ ParseHeader \/ EndHeaders \/ ParseContent \/ NoLine

(***************************************************************************)
(* What a request is, said of the whole of the input: the lines up to an   *)
(* empty one, the first of them a request line, and the content that the   *)
(* last Content-length announces.                                          *)
(***************************************************************************)
LineFrom(ends, b, e) ==
    /\ b = 1 \/ b - 2 \in ends
    /\ e \in ends /\ b <= e
    /\ \A f \in ends : b <= f => e <= f

\* The lines after the first one, by where they begin and end.
Lines(s) == LET ends == FindCRLF(s) IN {l \in (2..Len(s)) \X ends : LineFrom(ends, l[1], l[2])}
LineText(s, l) == SubSeq(s, l[1], l[2] - 1)

EmptyLines(s) == {l \in Lines(s) : l[1] = l[2]}
Headers(s) == LET empty == EmptyLines(s) IN {l \in Lines(s) : \A m \in empty : l[1] < m[1]}
Lengths(s) == {l \in Headers(s) : Field(LineText(s, l)) = "Content-length"}
Announced(s) ==
    LET lengths == Lengths(s)
        last == CHOOSE l \in lengths : \A m \in lengths : m[1] <= l[1]
    IN  IF lengths = {} THEN 0 ELSE s[last[1]].value

\* The empty line that ends the headers has come, and the content after it.
IsWhole(s) ==
    LET empty == EmptyLines(s) IN
    \E l \in empty : /\ \A m \in empty : l[1] <= m[1]
                     /\ Len(s) > l[2] + Announced(s)

Reference(s) ==
    CASE FindCRLF(s) = {} -> "NO_REQUEST"
      [] FindCRLF(s) # {} /\ ~StartsRequest(Line(s)) -> "BAD_REQUEST"
      [] FindCRLF(s) # {} /\ StartsRequest(Line(s)) ->
           IF \E l \in Headers(s) : Throws(LineText(s, l)) THEN "exception"
           ELSE IF IsWhole(s) THEN "GET_REQUEST" ELSE "NO_REQUEST"

NoLoneLF(s) == \A i \in DOMAIN s : s[i] = LF => i > 1 /\ s[i - 1] = CR
=============================================================================
