--------------------------- MODULE MCApplications ---------------------------
(***************************************************************************)
(* The larger programs and the libraries under them, one behaviour each: a *)
(* download, a session of the browser, the lookups of a program, TLS       *)
(* sessions, the standard streams, the files of Lua and of minizip.        *)
(* The first state chooses which program runs; the variables of the others *)
(* stay Off, those of the TLS sessions and of the browser as they are      *)
(* before the first step.                                                  *)
(***************************************************************************)
EXTENDS TlsSession, Browsing, Integers, SequencesExt, TLC

CONSTANTS
    Off,
    \* Stdio and MemoryFile
    FreeStream, Closed, NoFile,
    \* Download
    a, earlier, Unknown, Semi, CR, LF,
    \* Browsing
    t

VARIABLES
    program,
    resp, got, chunk, file, saved, eof, step, how,
    host, id, net, lookup, address, heard, lookups,
    capture, buf, out, said, lost, running, budget, table, fds,
    files, opened, strays, luaCalls,
    memory, image, meant, answer, zipCalls

downloadVars == <<resp, got, chunk, file, saved, eof, step, how>>
lookupVars == <<host, id, net, lookup, address, heard, lookups>>
stdioVars == <<capture, buf, out, said, lost, running, budget, table, fds>>
luaVars == <<files, opened, strays, luaCalls>>
zipVars == <<memory, image, meant, answer, zipCalls>>
networkVars == <<downloadVars, browserVars, lookupVars>>
libraryVars == <<stdioVars, luaVars, zipVars>>
applicationVars == <<program, vars, networkVars, libraryVars>>

DownloadOff ==
    /\ resp = Off /\ got = Off /\ chunk = Off /\ file = Off /\ saved = Off /\ eof = Off
    /\ step = Off /\ how = Off
LookupOff ==
    /\ host = Off /\ id = Off /\ net = Off /\ lookup = Off /\ address = Off /\ heard = Off
    /\ lookups = Off

StdioOff ==
    /\ capture = Off /\ buf = Off /\ out = Off /\ said = Off /\ lost = Off
    /\ running = Off /\ budget = Off /\ table = Off /\ fds = Off
LuaOff == files = Off /\ opened = Off /\ strays = Off /\ luaCalls = Off
ZipOff == memory = Off /\ image = Off /\ meant = Off /\ answer = Off /\ zipCalls = Off

LibrariesOff == StdioOff /\ LuaOff /\ ZipOff

(***************************************************************************)
(* Stdio and LuaFiles: a buffer of three bytes, conversions with a sign,   *)
(* with zeros, with a precision, with a width, as long as the buffer of    *)
(* fprintf and longer.                                                     *)
(***************************************************************************)
Conversion(conv, width, value) ==
    [conv |-> conv, left |-> FALSE, zero |-> FALSE, plus |-> FALSE, space |-> FALSE, alt |-> FALSE,
     width |-> width, prec |-> -1, value |-> value]
To(fd, spec) == [fd |-> fd, spec |-> spec]
StdioSpecs ==
    {To(1, [Conversion("d", 4, -5) EXCEPT !.zero = TRUE]), To(1, [Conversion("d", 1, 0) EXCEPT !.prec = 0]),
     To(1, [Conversion("s", 3, <<"q", "r">>) EXCEPT !.prec = 1]), To(2, [Conversion("x", 3, 12) EXCEPT !.left = TRUE]),
     To(2, [Conversion("u", 2, 3) EXCEPT !.prec = 3]), To(3, Conversion("p", 5, 3))}
StdioTexts ==
    {[fd |-> 1, text |-> <<"a">>], [fd |-> 1, text |-> <<"a", "b", "a", "b">>],
     [fd |-> 2, text |-> <<"a">>], [fd |-> 3, text |-> <<"a">>]}
S == INSTANCE Stdio WITH
    Free <- FreeStream, phase <- running, left <- budget, BufSize <- 3, Slots <- 1,
    Texts <- StdioTexts, Specs <- StdioSpecs, SnprintfSize <- 3, Rooms <- {1, 9}, MaxCalls <- 3

LuaSpecs ==
    {[Conversion("d", 4, 5) EXCEPT !.zero = TRUE, !.plus = TRUE], [Conversion("x", 5, 12) EXCEPT !.zero = TRUE, !.alt = TRUE],
     [Conversion("o", 3, 9) EXCEPT !.prec = 3], [Conversion("f", 5, 7) EXCEPT !.zero = TRUE], Conversion("u", 1, 7),
     [Conversion("d", 4, -5) EXCEPT !.left = TRUE], Conversion("s", 6, <<"q", "r">>)}
L == INSTANCE LuaFiles WITH
    kernel <- opened, left <- luaCalls, Slots <- 2, Content <- [f |-> <<"a", "b", "n", "c">>], NewPath <- "g",
    Break <- "n", Modes <- {"r", "w", "a+"}, Specs <- LuaSpecs, FprintfMax <- 4, Nul <- "N", Stray <- "J", Rooms <- {1, 9},
    MaxCalls <- 4

(***************************************************************************)
(* MemoryFile: memory in chunks of two bytes.                              *)
(***************************************************************************)
Z == INSTANCE MemoryFile WITH
    file <- memory, disk <- image, left <- zipCalls, Chunk <- 2, Zero <- "0", Junk <- "J",
    Bytes <- {<<"a">>, <<"b", "c", "d">>}, Starts <- {NoFile, <<>>, <<"x", "y">>}, MaxCalls <- 4

(***************************************************************************)
(* Download: binary chunk sizes of up to 3, bodies written by the rules,   *)
(* the same with one token changed, dropped or added, and bodies of a      *)
(* given length.                                                           *)
(***************************************************************************)
Size(n) == <<<<0>>, <<1>>, <<1, 0>>, <<0, 1, 1>>>>[n + 1]
ChunkOf(data, extension) == Size(Len(data)) \o extension \o <<CR, LF>> \o data \o <<CR, LF>>

\* The wire format of a list of chunks, with an extension in every size line.
Wire(list, extension, trailer) ==
    FlattenSeq([i \in 1 .. Len(list) |-> ChunkOf(list[i], extension)])
      \o <<0>> \o extension \o <<CR, LF>> \o trailer \o <<CR, LF>>

Pieces == {<<a>>, <<CR, LF>>, <<1, LF, 0>>}
Lists == {<<>>} \cup {<<p>> : p \in Pieces} \cup {<<p, q>> : p \in Pieces, q \in Pieces}
Exts == {<<>>, <<Semi>>, <<Semi, a>>, <<Semi, 1>>}
Trailers == {<<>>, <<a, CR, LF>>, <<a, CR, LF, 0, CR, LF>>}

WellFormed ==
    {[wire |-> Wire(l, e, w), content |-> FlattenSeq(l)] : l \in Lists, e \in Exts, w \in Trailers}

Tampered ==
    {Wire(<<p>>, e, w) : p \in Pieces, e \in {<<>>, <<Semi, a>>}, w \in {<<>>, <<a, CR, LF>>}}
    \cup {Wire(<<<<a>>, <<CR, LF>>>>, <<>>, <<>>)}
BodyTokens == {0, 1, a, Semi, CR, LF}
Edits(s) ==
    {[s EXCEPT ![i] = b] : i \in 1 .. Len(s), b \in BodyTokens}
    \cup {SubSeq(s, 1, i - 1) \o SubSeq(s, i + 1, Len(s)) : i \in 1 .. Len(s)}
    \cup {SubSeq(s, 1, i) \o <<b>> \o SubSeq(s, i + 1, Len(s)) : i \in 0 .. Len(s), b \in BodyTokens}

Response(kind, n, h, tls, s) ==
    [kind |-> kind, length |-> n, head |-> h, tls |-> tls, body |-> s, content |-> Unknown]
Chunked(h, tls, w) == [Response("chunked", 0, h, tls, w.wire) EXCEPT !.content = w.content]

ServerResponses ==
    {Chunked(1, FALSE, w) : w \in WellFormed}
    \cup {Response("chunked", 0, 1, FALSE, s) : s \in UNION {Edits(w) : w \in Tampered}}
    \cup {Chunked(3, TRUE, [wire |-> Wire(<<p>>, <<>>, <<>>), content |-> p]) : p \in Pieces}
    \cup {Response(k, n, h, tls, SubSeq(<<a, CR, LF, 0, 1>>, 1, m)) :
            k \in {"length", "open", "error"}, n \in 0 .. 4, h \in 1 .. 3, tls \in BOOLEAN, m \in 0 .. 5}
D == INSTANCE Download WITH
    pc <- step, Radix <- 2, MaxSize <- 3, HeaderMax <- 4, MaxPiece <- 3, Text <- {a},
    Responses <- ServerResponses, OldFile <- earlier

(***************************************************************************)
(* Browsing: two hosts, pages with links of every kind, two forms, cookies *)
(* of the same and of other names, domains and paths.                      *)
(***************************************************************************)
HostA == <<"a", ".", "x">>
AtA(place) == HttpStart \o HostA \o place
UrlA(place) == [tls |-> FALSE, host |-> HostA, port |-> 80, path |-> place]
SetCookie(name, value, domain, place, secure) ==
    [name |-> <<name>>, value |-> value, domain |-> domain, path |-> place, secure |-> secure]
WebPage(cookies, links) ==
    [kind |-> "page", links |-> links, forms |-> <<>>, fields |-> <<>>, cookies |-> cookies]
Field(n, name, value) == [form |-> n, name |-> <<name>>, value |-> value, live |-> TRUE]
PagePQ == AtA(<<"/", "p", "/", "q">>)
WebSite ==
    (UrlA(<<"/", "p", "/", "q">>) :>
       [WebPage(<<SetCookie("c", <<"v">>, <<>>, <<>>, FALSE)>>,
                <<<<"..", "/", "r", "?", "k", "/", "l">>, HttpsStart \o <<"x", "/", "s">>>>)
          EXCEPT !.forms = <<[action |-> <<".", "/", "t">>, post |-> TRUE], [action |-> <<>>, post |-> FALSE]>>,
                 !.fields = <<Field(1, "n", <<"v">>), Field(2, "m", <<>>), Field(1, "&", <<"=">>)>>])
 @@ (UrlA(<<"/", "r", "?", "k">>) :>
       WebPage(<<SetCookie("c", <<"w">>, <<>>, <<"/">>, FALSE), SetCookie("C", <<"u">>, HostA, <<"/", "p">>, FALSE)>>,
               << <<"?", "j", "/">>, <<"u">> >>))
 @@ (UrlA(<<"/", "p", "/", "t">>) :>
       [kind |-> "moved", to |-> <<"q">>, cookies |-> <<SetCookie("c", <<>>, <<>>, <<>>, FALSE)>>])
 @@ ([tls |-> TRUE, host |-> <<"x">>, port |-> 443, path |-> <<"/", "s">>] :>
       WebPage(<<SetCookie("d", <<"v">>, <<"X">>, <<"/">>, TRUE), SetCookie("d", <<"v">>, <<".", "x">>, <<"/">>, FALSE)>>,
               <<PagePQ, <<"/", "/", "a", ".", "x", ":", "81", "/", "e">>, AtA(<<"/", "r", "?", "k">>)>>))
 @@ ([tls |-> TRUE, host |-> HostA, port |-> 81, path |-> <<"/", "e">>] :>
       [kind |-> "empty", cookies |-> <<SetCookie("c", <<"w">>, <<"x">>, <<"/">>, FALSE)>>])
FilePage == [links |-> <<PagePQ>>, fields |-> <<Field(1, "n", <<"v">>)>>,
             forms |-> <<[action |-> <<"g">>, post |-> TRUE]>>]
NoPage == WebPage(<<>>, << <<"..", "/", "u">> >>)
FilesOnDisk == <<"/", "f">> :> FilePage
FirstPages == {<<"/", "f">>, PagePQ}
TypedAddresses == {<<"/", "f">>, <<"u", "/", "..", "/", "v">>, PagePQ}
TypedValues == {<<"v", "&", " ">>, <<"v", "v", "v", "v", "v", "v", "v", "v", "v">>}
PageLetters == {"n", "m", "v", "&", "=", " "}
LowerCase == "C" :> "c" @@ "X" :> "x"
KnownPorts == <<"81">> :> 81
BearerTokens == {t}
BrowserAtRest == BrowserInit /\ cur = PagePQ /\ srcMode = FALSE

(***************************************************************************)
(* NameLookup: "a.b", "b." with a dot at its end, "1.2.3.40", and hosts    *)
(* that are neither names nor addresses; answers with and without          *)
(* pointers, cut anywhere, with an error, or of another query.             *)
(***************************************************************************)
HostAB == <<97, 46, 98>>
HostB == <<98, 46>>
Quad == <<49, 46, 50, 46, 51, 46, 52, 48>>
LookedUp == {HostAB, HostB, Quad, SubSeq(Quad, 1, 5), <<97, 46, 46, 98>>, <<50, 53, 54>> \o Tail(Quad), Append(Quad, 46)}
Question(text) ==
    (CASE text = HostAB -> <<1, 97, 1, 98, 0>>
       [] text = HostB -> <<1, 98, 0>>
       [] OTHER -> <<1, 49, 0>>) \o <<0, 1, 0, 1>>
Header(i, flags, q, n) == <<i \div 256, i % 256>> \o flags \o <<0, q, 0, n, 0, 0, 0, 0>>
Record(name, type, data) == name \o <<0, type, 0, 1, 0, 0, 0, 9, 0, Len(data)>> \o data
AddressOf(text) == IF text = HostAB THEN <<10, 0, 0, 1>> ELSE <<10, 0, 0, 2>>
Datagram(bytes, tells) == [bytes |-> bytes, tells |-> tells]
Whole(text, i) ==
    {Header(i, <<129, 128>>, 1, 1) \o Question(text) \o Record(n, 1, AddressOf(text)) :
        n \in {<<192, 12>>, <<1, 97, 0>>, <<1, 120, 192, 12>>}}
    \cup {Header(i, <<129, 128>>, 1, 2) \o Question(text) \o Record(n, 5, <<1, 99, 192, 12>>)
            \o Record(m, 1, AddressOf(text)) :
               n \in {<<192, 12>>, <<1, 120, 192, 12>>}, m \in {<<192, 12>>, <<192, 12 + Len(Question(text))>>}}
CutShort(b) == {SubSeq(b, 1, n) : n \in {0, 5, 13, 20, Len(b) - 9, Len(b) - 1}}
Refused(text, i) == Header(i, <<129, 131>>, 1, 0) \o Question(text)
NoDatagram(text, i) == Header(i, <<1, 128>>, 1, 1) \o Question(text) \o Record(<<192, 12>>, 1, <<9, 9, 9, 9>>)
OtherType(text, i) == Header(i, <<129, 128>>, 1, 1) \o Question(text) \o Record(<<192, 12>>, 28, <<1, 2, 3, 4>>)
Circular(text, i) ==
    Header(i, <<129, 128>>, 1, 2) \o Question(text) \o Record(<<192, 12>>, 5, <<1, 120, 0>>)
      \o Record(<<192, 27 + Len(Question(text))>>, 1, <<9, 9, 9, 9>>)
ServerAnswers(text, i) ==
    {Datagram(b, AddressOf(text)) : b \in Whole(text, i)}
    \cup {Datagram(b, Bad) : b \in UNION {CutShort(w) : w \in Whole(text, i)}}
    \cup {Datagram(b, Bad) : b \in {Refused(text, i), NoDatagram(text, i), OtherType(text, i), Circular(text, i)}}
Foreign == [ours |-> FALSE, id |-> 300, tells |-> Bad,
            bytes |-> Header(300, <<129, 128>>, 0, 1) \o Record(<<0>>, 1, <<6, 6, 6, 6>>)]
N == INSTANCE NameLookup WITH
    pc <- lookup, Hosts <- LookedUp, LiteralOf <- Quad :> <<1, 2, 3, 40>>, Replies <- ServerAnswers,
    Strangers <- {Foreign}, DepthMax <- 6, LabelMax <- 3, QueryMax <- 21, FirstId <- 300, MaxLookups <- 2

(***************************************************************************)
(* TlsSession: two sessions, a request of two bytes, two codes of errors.  *)
(***************************************************************************)
TlsErrors == {"reset", "alert"}
TlsRequest == <<"q", "r">>
ContextSizes == [seed |-> 1, setup |-> 3, hostname |-> 1]

ApplicationsInit ==
    /\ Init
    /\ \/ program = "download" /\ D!Init /\ BrowserAtRest /\ LookupOff /\ LibrariesOff
       \/ program = "browser" /\ BrowserInit /\ DownloadOff /\ LookupOff /\ LibrariesOff
       \/ program = "lookup" /\ N!Init /\ DownloadOff /\ BrowserAtRest /\ LibrariesOff
       \/ program = "tls" /\ DownloadOff /\ BrowserAtRest /\ LookupOff /\ LibrariesOff
       \/ /\ DownloadOff /\ BrowserAtRest /\ LookupOff
          /\ \/ program = "stdio" /\ S!Init /\ LuaOff /\ ZipOff
             \/ program = "lua" /\ L!Init /\ StdioOff /\ ZipOff
             \/ program = "zip" /\ Z!Init /\ StdioOff /\ LuaOff

Runs(name) == program = name /\ UNCHANGED program
Downloading == Runs("download") /\ D!Next /\ UNCHANGED <<vars, browserVars, lookupVars, libraryVars>>
BrowsingSession == Runs("browser") /\ BrowserNext /\ UNCHANGED <<vars, downloadVars, lookupVars, libraryVars>>
LookingUp == Runs("lookup") /\ N!Next /\ UNCHANGED <<vars, downloadVars, browserVars, libraryVars>>
Encrypting == Runs("tls") /\ Next /\ UNCHANGED <<networkVars, libraryVars>>
Printing == Runs("stdio") /\ S!Next /\ UNCHANGED <<vars, networkVars, luaVars, zipVars>>
RunningLua == Runs("lua") /\ L!Next /\ UNCHANGED <<vars, networkVars, stdioVars, zipVars>>
Zipping == Runs("zip") /\ Z!Next /\ UNCHANGED <<vars, networkVars, stdioVars, luaVars>>
ApplicationsNext ==
    \/ Downloading \/ BrowsingSession \/ LookingUp \/ Encrypting
    \/ Printing \/ RunningLua \/ Zipping

ApplicationsSpec == ApplicationsInit /\ [][ApplicationsNext]_applicationVars

(***************************************************************************)
(* The properties of the programs, under their own names; those of the     *)
(* browser and of the TLS sessions are in their modules.                   *)
(***************************************************************************)
SavedIsWhole == program = "download" => D!SavedIsWhole
BrowserAgrees == program = "download" => D!BrowserAgrees
AddressIsAnswered == program = "lookup" => N!AddressIsAnswered
\* What a program prints, reads or writes through a library arrives once, in
\* order and, unless a call was refused, complete: in the standard streams
\* (src/stdio.c), the files of Lua and the files of minizip.
BytesKept ==
    /\ program = "stdio" => S!BytesKept
    /\ program = "lua" => L!BytesKept
    /\ program = "zip" => Z!BytesKept
=============================================================================
