--------------------------------- MODULE Url ---------------------------------
(***************************************************************************)
(* Addresses of the browser (apps/browser): what a URL names and what a    *)
(* link on a page stands for.                                              *)
(*                                                                         *)
(* A text is a sequence of tokens: "http", "https", the punctuation of     *)
(* addresses, "..", and anything else as a token of its own; ".." is one   *)
(* token, as a segment of two dots.  The lengths of buffers are left out,  *)
(* but for the number of segments of a path.                               *)
(***************************************************************************)
EXTENDS Naturals, Sequences, SequencesExt

CONSTANTS
    SegMax,     \* USH_BROWSER_SEG_MAX
    Ports,      \* port numbers by their text
    Bad         \* what a function returns that fails

HttpStart == <<"http", ":", "/", "/">>
HttpsStart == <<"https", ":", "/", "/">>
IsHttp(text) == IsPrefix(HttpStart, text)
IsHttps(text) == IsPrefix(HttpsStart, text)
IsUrl(text) == IsHttp(text) \/ IsHttps(text)

\* The text in front of the first of the stops, and from there on.
Before(text, stops) ==
    LET at == {i \in DOMAIN text : text[i] \in stops}
    IN  IF at = {} THEN text ELSE SubSeq(text, 1, (CHOOSE i \in at : \A j \in at : i <= j) - 1)
From(text, stops) == SubSeq(text, Len(Before(text, stops)) + 1, Len(text))

DefaultPort(tls) == IF tls THEN 443 ELSE 80

ParseUrl(text) ==
    LET authority == Before(SubSeq(text, 5, Len(text)), {"/"})
        host      == Before(authority, {":"})
        port      == From(authority, {":"})
        path      == From(SubSeq(text, 5, Len(text)), {"/"})
    IN  IF ~IsUrl(text) \/ host = <<>> \/ (port # <<>> /\ Tail(port) \notin DOMAIN Ports) THEN Bad
        ELSE [tls  |-> IsHttps(text), host |-> host,
              port |-> IF port = <<>> THEN DefaultPort(IsHttps(text)) ELSE Ports[Tail(port)],
              path |-> IF path = <<>> THEN <<"/">> ELSE path]

StripFragment(text) == Before(text, {"#"})
UntilQuery(text) == Before(text, {"?", "#"})

\* Fault: two dots are a name like any other.
PushSegment_KeepsDots(segs, s) ==
    CASE segs = Bad \/ s \in {<<>>, <<".">>}    -> segs
      [] segs # Bad /\ s \notin {<<>>, <<".">>} -> IF Len(segs) >= SegMax THEN Bad ELSE Append(segs, s)

\* Segments one after the other; an overfull path is Bad.
PushSegment(segs, s) ==
    CASE segs = Bad \/ s \in {<<>>, <<".">>}             -> segs
      [] segs # Bad /\ s = <<"..">>                       -> IF segs = <<>> THEN segs ELSE Front(segs)
      [] segs # Bad /\ s \notin {<<>>, <<".">>, <<"..">>} -> IF Len(segs) >= SegMax THEN Bad ELSE Append(segs, s)

Segments(text) ==
    FoldLeft(LAMBDA segs, token : IF token = "/" THEN Append(segs, <<>>)
                                  ELSE [segs EXCEPT ![Len(segs)] = Append(@, token)],
             << <<>> >>, text)

Joined(segs) == IF segs = <<>> THEN <<"/">> ELSE FlattenSeq([k \in DOMAIN segs |-> <<"/">> \o segs[k]])

NormalizePath(text) ==
    LET segs == FoldLeft(PushSegment, <<>>, Segments(text))
    IN  IF segs = Bad THEN Bad ELSE Joined(segs)

UpToSlash(text) ==
    LET at == {i \in DOMAIN text : text[i] = "/"}
    IN  IF at = {} THEN <<"/">> ELSE SubSeq(text, 1, CHOOSE i \in at : \A j \in at : j <= i)

\* Fault: a slash in the query of the page counts as one of its path.
JoinPath_OfQuery(base, href) ==
    NormalizePath(IF Head(href) = "/" THEN href ELSE UpToSlash(base) \o href)

JoinPath(base, href) ==
    NormalizePath(IF Head(href) = "/" THEN href ELSE UpToSlash(UntilQuery(base)) \o href)

Origin(url) ==
    (IF url.tls THEN HttpsStart ELSE HttpStart) \o url.host
      \o (IF url.port = DefaultPort(url.tls) THEN <<>>
          ELSE <<":">> \o (CHOOSE text \in DOMAIN Ports : Ports[text] = url.port))

ResolveHttp(base, href) ==
    LET url  == ParseUrl(base)
        path == JoinPath(url.path, href)
    IN  IF url = Bad THEN Bad
        ELSE IF IsPrefix(<<"/", "/">>, href) THEN <<IF url.tls THEN "https" ELSE "http", ":">> \o href
        ELSE IF Head(href) = "?" THEN Origin(url) \o UntilQuery(url.path) \o href
        ELSE IF path = Bad THEN Bad ELSE Origin(url) \o path

ResolveLocal(base, href) ==
    LET here == IF NormalizePath(base) = Bad THEN base ELSE NormalizePath(base)
    IN  IF Head(href) = "/" THEN NormalizePath(href)
        ELSE IF Head(href) = "?" THEN here
        ELSE JoinPath(here, href)

ResolveHref(base, link) ==
    LET href == StripFragment(link)
    IN  IF IsUrl(link) THEN link
        ELSE IF href = <<>> THEN base
        ELSE IF IsUrl(base) THEN ResolveHttp(base, href) ELSE ResolveLocal(base, href)

----------------------------------------------------------------------------
(***************************************************************************)
(* Reference: an address in its parts, and a link taken from it by the     *)
(* rules of the web: the path of the page up to its last slash, the link's *)
(* after it, "." and ".." taken away, the query the link's own.            *)
(***************************************************************************)
NamesOf(path) == SelectSeq(Segments(path), LAMBDA s : s # <<>>)

AddressParts(text) ==
    LET url  == ParseUrl(text)
        path == IF url = Bad THEN StripFragment(text) ELSE StripFragment(url.path)
    IN  [origin |-> IF url = Bad THEN <<>> ELSE <<url.tls, url.host, url.port>>,
         names  |-> NamesOf(Before(path, {"?"})),
         query  |-> From(path, {"?"})]

WithoutDots(names) ==
    LET upto[i \in 0 .. Len(names)] ==
            IF i = 0 THEN <<>>
            ELSE CASE names[i] = <<".">>  -> upto[i - 1]
                   [] names[i] = <<"..">> -> SubSeq(upto[i - 1], 1, Len(upto[i - 1]) - 1)
                   [] OTHER               -> Append(upto[i - 1], names[i])
    IN  upto[Len(names)]

Meant(base, link) ==
    LET page == AddressParts(base)
        path == Before(StripFragment(link), {"?"})
        own  == From(StripFragment(link), {"?"})
        here == IF IsUrl(base) THEN ParseUrl(base).path ELSE base
        dir  == NamesOf(UpToSlash(UntilQuery(here)))
    IN  CASE IsUrl(link)                        -> AddressParts(link)
          [] StripFragment(link) = <<>>         -> page
          [] IsUrl(base) /\ IsPrefix(<<"/", "/">>, link) ->
                AddressParts((IF IsHttps(base) THEN <<"https", ":">> ELSE <<"http", ":">>) \o StripFragment(link))
          [] OTHER                              ->
                [origin |-> page.origin,
                 names  |-> IF path = <<>> THEN page.names
                            ELSE WithoutDots((IF Head(path) = "/" THEN <<>> ELSE dir)
                                             \o NamesOf(path)),
                 query  |-> own]

\* Where the browser departs from those rules a link is outside the comparison.
\* It takes the query for more of the path: of a link with a path of its own, the
\* query loses its empty segments and its dots, and a last "." or ".." in front of
\* the query stays.  A path loses a slash at its end, and files have no query.
Comparable(base, link) ==
    LET path == Before(StripFragment(link), {"?"})
        own  == From(StripFragment(link), {"?"})
    IN  /\ own # <<>> => IsUrl(base)
        /\ path # <<>> /\ own = <<>> => Last(path) # "/"
        /\ path # <<>> /\ own # <<>> =>
             /\ Last(Segments(path)) \notin {<<".">>, <<"..">>}
             /\ \A k \in 2 .. Len(Segments(own)) : Segments(own)[k] \notin {<<>>, <<".">>, <<"..">>}

ResolvesAsMeant(base, link) ==
    LET found == ResolveHref(base, link)
    IN  Comparable(base, link) /\ found # Bad => AddressParts(found) = Meant(base, link)
=============================================================================
