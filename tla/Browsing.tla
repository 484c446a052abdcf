------------------------------ MODULE Browsing ------------------------------
(***************************************************************************)
(* A session of the browser (apps/browser): the pages it loads and goes    *)
(* back to, the forms it submits, the cookies and the token it sends.      *)
(*                                                                         *)
(* A server answers with a page: its links, forms and fields and the       *)
(* cookies that come with it.  How a page is parsed and drawn is external. *)
(* Rendering cannot fail: a load that succeeds has at least one byte, and  *)
(* what Gumbo refuses is rendered without it.                              *)
(***************************************************************************)
EXTENDS Integers, FiniteSets, TLC, Url

CONSTANTS
    HistoryMax, CookieMax, HeaderMax, BodyMax, SourceMax,   \* USH_BROWSER_..._MAX
    Site, Disk,     \* pages by address, and by path
    NotFound,       \* the page of every other address
    Starts,         \* arguments
    Typed, Values,  \* what is typed for an address and for a field
    Lower,          \* letters that are not in lower case
    Letters,        \* the characters of names and values
    Tokens,         \* bearer tokens
    Nothing, Stale, \* nothing; bytes left over from another form
    MaxCommands     \* bound on the commands of a session

FieldType == [form : Nat, name : Seq(Letters), value : Seq(Letters), live : BOOLEAN]
Pages == {Disk[p] : p \in DOMAIN Disk}
         \cup {page \in {NotFound} \cup {Site[p] : p \in DOMAIN Site} : page.kind = "page"}
ASSUME HistoryAssumption == HistoryMax \in Nat \ {0}
ASSUME PagesAssumption ==
    \A page \in Pages : /\ page.fields \in Seq(FieldType)
                        /\ \A n \in DOMAIN page.forms : page.forms[n].post \in BOOLEAN
ASSUME TypedAssumption == \A value \in Values : value \in Seq(Letters)

VARIABLES
    cur, history, srcMode, loaded,   \* current_source, history, source_mode, loaded_once
    shown,                           \* the links, forms and fields of the page
    pend,                            \* pending_post, pending_body, pending_body_len
    jar, token,                      \* ush_browser_cookies, ush_browser_bearer_token
    pc, channel, request,            \* the fetch: where it is, its connection, what it has sent
    wish, trail, deepest, latest,    \* ghosts: see the properties
    commands

browserVars == <<cur, history, srcMode, loaded, shown, pend, jar, token, pc, channel, request,
                 wish, trail, deepest, latest, commands>>

NoPend == [post |-> FALSE, body |-> <<>>, len |-> 0]
Blank == [links |-> <<>>, forms |-> <<>>, fields |-> <<>>]
Get(target) == [post |-> FALSE, target |-> target, fields |-> <<>>, times |-> 0, spoiled |-> FALSE]

----------------------------------------------------------------------------
(***************************************************************************)
(* Cookies (browser_cookie.c).                                             *)
(***************************************************************************)
Lowered(text) == [i \in DOMAIN text |-> IF text[i] \in DOMAIN Lower THEN Lower[text[i]] ELSE text[i]]

DomainMatches(host, domain) ==
    LET bare == IF Head(domain) = "." THEN Tail(domain) ELSE domain
    IN  \/ Lowered(host) = Lowered(domain)
        \/ bare # <<>> /\ IsSuffix(<<".">> \o Lowered(bare), Lowered(host))

PathMatches(path, cookiePath) == IsPrefix(cookiePath, path)

\* The path up to its last slash, without it.
DefaultPath(path) == IF Len(UpToSlash(path)) = 1 THEN <<"/">> ELSE Front(UpToSlash(path))

Key(cookie) == <<Lowered(cookie.name), Lowered(cookie.domain), cookie.path>>
FirstOf(slots) == CHOOSE i \in slots : \A j \in slots : i <= j

\* Fault: only the name is compared.
SlotOf_ByName(cookies, cookie) ==
    LET same == {i \in DOMAIN cookies : cookies[i].name = cookie.name}
    IN  IF same # {} THEN FirstOf(same) ELSE IF Len(cookies) < CookieMax THEN Len(cookies) + 1 ELSE CookieMax

\* A slot of the same name, domain and path; a free one; the last one.
SlotOf(cookies, cookie) ==
    LET same == {i \in DOMAIN cookies : Key(cookies[i]) = Key(cookie)}
    IN  IF same # {} THEN FirstOf(same) ELSE IF Len(cookies) < CookieMax THEN Len(cookies) + 1 ELSE CookieMax

\* What a Set-Cookie line of a response of url means.
CookieOf(url, set) ==
    [name |-> set.name, value |-> set.value, secure |-> set.secure,
     domain |-> IF set.domain = <<>> THEN url.host ELSE set.domain,
     path |-> IF set.path = <<>> THEN DefaultPath(url.path) ELSE set.path]

StoreOne(cookies, cookie) ==
    LET slot == SlotOf(cookies, cookie)
    IN  IF slot > Len(cookies) THEN Append(cookies, cookie) ELSE [cookies EXCEPT ![slot] = cookie]

Stored(url, sets) ==
    FoldLeft(LAMBDA cookies, set : IF set.name = <<>> THEN cookies ELSE StoreOne(cookies, CookieOf(url, set)),
             jar, sets)

IsSent(url, cookie) ==
    /\ cookie.value # <<>>
    /\ cookie.secure => url.tls
    /\ DomainMatches(url.host, cookie.domain) /\ PathMatches(url.path, cookie.path)

CookieCost(cookie) == Len(cookie.name) + Len(cookie.value) + 1
\* The cookies that go to url, up to the first that does not fit.
BuildHeader(url) ==
    LET all == SelectSeq(jar, LAMBDA cookie : IsSent(url, cookie))
        size[n \in 0 .. Len(all)] ==
            IF n = 0 THEN 0 ELSE size[n - 1] + CookieCost(all[n]) + (IF n = 1 THEN 0 ELSE 2)
        fits == {n \in 0 .. Len(all) : \A m \in 1 .. n : size[m] + 2 <= HeaderMax}
    IN  SubSeq(all, 1, CHOOSE n \in fits : \A m \in fits : m <= n)

----------------------------------------------------------------------------
(***************************************************************************)
(* Forms (browser_form.c).                                                 *)
(***************************************************************************)
Reserved == {"&", "=", "+", "%", "/", "?", "#", ":", "*"}

\* A reserved character becomes a percent sign and two digits, which here are
\* the character twice.
UrlEncoded(ch) ==
    IF ch = " " THEN <<"+">> ELSE IF ch \in Reserved THEN <<"%", ch, ch>> ELSE <<ch>>

\* A body [ok, text] with some more characters, if they fit.
Put(body, chars) ==
    IF body.ok /\ Len(body.text) + Len(chars) < BodyMax
    THEN [body EXCEPT !.text = @ \o chars] ELSE [body EXCEPT !.ok = FALSE]
PutEncoded(body, text) ==
    LET put[k \in 0 .. Len(text)] == IF k = 0 THEN body ELSE Put(put[k - 1], UrlEncoded(text[k]))
    IN  put[Len(text)]

PutField(body, field) ==
    LET start == IF body.text = <<>> THEN body ELSE Put(body, <<"&">>)
    IN  PutEncoded(Put(PutEncoded(start, field.name), <<"=">>), field.value)

\* The fields of form n that are sent.
FieldsOf(n) ==
    LET kept[k \in 0 .. Len(shown.fields)] ==
            IF k = 0 THEN <<>>
            ELSE LET field == shown.fields[k]
                 IN  IF field.form = n /\ field.live /\ field.name # <<>>
                     THEN Append(kept[k - 1], field) ELSE kept[k - 1]
    IN  kept[Len(shown.fields)]

BodyOf(fields) ==
    LET built[k \in 0 .. Len(fields)] ==
            IF k = 0 THEN [ok |-> TRUE, text |-> <<>>] ELSE PutField(built[k - 1], fields[k])
    IN  built[Len(fields)]
BuildBody(n) == BodyOf(FieldsOf(n))

JoinGetUrl(base, query) ==
    IF Len(base) + Len(query) + 2 > SourceMax THEN Bad
    ELSE IF query = <<>> THEN base
    ELSE base \o <<IF "?" \in ToSet(base) THEN "&" ELSE "?">> \o query

----------------------------------------------------------------------------
(***************************************************************************)
(* The session (browser_session.c) and its loads (browser_source.c,        *)
(* browser_fetch.c).                                                       *)
(***************************************************************************)
BrowserInit ==
    /\ \E start \in Starts :
         /\ cur = start /\ wish = Get(start)
    /\ srcMode \in BOOLEAN /\ loaded = FALSE /\ history = <<>>
    /\ shown = Blank /\ pend = NoPend /\ jar = <<>> /\ token = Nothing
    /\ pc = "load" /\ channel = "closed" /\ request = Nothing
    /\ trail = <<>> /\ deepest = 0 /\ latest = <<>> /\ commands = 0

\* Fault: a full history loses its newest page.
PushHistory_Newest ==
    LET room == IF Len(history) >= HistoryMax THEN Front(history) ELSE history
        way  == IF trail # <<>> /\ Last(trail) = cur THEN trail ELSE Append(trail, cur)
    IN  /\ history' = IF history # <<>> /\ Last(history) = cur THEN history ELSE Append(room, cur)
        /\ trail' = way /\ deepest' = IF Len(way) > deepest THEN Len(way) ELSE deepest

PushHistory ==
    LET room == IF Len(history) >= HistoryMax THEN Tail(history) ELSE history
        way  == IF trail # <<>> /\ Last(trail) = cur THEN trail ELSE Append(trail, cur)
    IN  /\ history' = IF history # <<>> /\ Last(history) = cur THEN history ELSE Append(room, cur)
        /\ trail' = way /\ deepest' = IF Len(way) > deepest THEN Len(way) ELSE deepest

PopHistory ==
    /\ cur' = Last(history) /\ history' = Front(history)
    /\ trail' = Front(trail) /\ UNCHANGED deepest
    /\ wish' = Get(Last(history))

\* Back to the page before, or out of the program when there is none.
LoadFails ==
    /\ channel' = "closed" /\ request' = Nothing
    /\ IF ~loaded \/ history = <<>>
       THEN /\ pc' = "ended"
            /\ UNCHANGED <<cur, history, pend, trail, deepest, wish>>
       ELSE PopHistory /\ pend' = NoPend /\ pc' = "load"
    /\ UNCHANGED <<srcMode, loaded, shown, token, commands>>

\* Fault: what was posted is kept for the next load.
Show_KeepsPending(page) ==
    /\ loaded' = TRUE /\ pc' = "prompt"
    /\ channel' = "closed" /\ request' = Nothing
    /\ shown' = IF srcMode THEN shown
                ELSE [links |-> page.links, forms |-> page.forms, fields |-> page.fields]
    /\ UNCHANGED <<cur, history, srcMode, pend, token, wish, trail, deepest, commands>>

\* Links and forms are those of the page that was rendered last.
Show(page) ==
    /\ pend' = NoPend /\ loaded' = TRUE /\ pc' = "prompt"
    /\ channel' = "closed" /\ request' = Nothing
    /\ shown' = IF srcMode THEN shown
                ELSE [links |-> page.links, forms |-> page.forms, fields |-> page.fields]
    /\ UNCHANGED <<cur, history, srcMode, token, wish, trail, deepest, commands>>

ReadFile ==
    /\ pc = "load" /\ ~IsUrl(cur)
    /\ \/ LoadFails
       \/ ~pend.post /\ cur \in DOMAIN Disk /\ Show(Disk[cur])
    /\ UNCHANGED <<jar, latest>>

\* No network, no such address, no connection.
ConnectFails == pc = "load" /\ IsUrl(cur) /\ LoadFails /\ UNCHANGED <<jar, latest>>

Reach ==
    /\ pc = "load" /\ IsUrl(cur) /\ ParseUrl(cur) # Bad
    /\ pc' = "send" /\ channel' = IF ParseUrl(cur).tls THEN "tls" ELSE "tcp"
    /\ UNCHANGED <<cur, history, srcMode, loaded, shown, pend, jar, token, request, wish, trail, deepest,
                   latest, commands>>

Send ==
    /\ pc = "send"
    /\ request' = [url |-> ParseUrl(cur), post |-> pend.post, token |-> token,
                   body |-> CASE pend.len = 0 -> <<>>
                              [] pend.len > 0 /\ pend.body # <<>> -> pend.body
                              [] OTHER -> Stale,
                   cookies |-> BuildHeader(ParseUrl(cur))]
    /\ wish' = [wish EXCEPT !.times = @ + 1]
    /\ pc' = "receive"
    /\ UNCHANGED <<cur, history, srcMode, loaded, shown, pend, jar, token, channel, trail, deepest, latest, commands>>

\* The request is too long or the connection takes a part of it only.
SendFails == pc = "send" /\ LoadFails /\ UNCHANGED <<jar, latest>>

Answer == IF request.url \in DOMAIN Site THEN Site[request.url] ELSE NotFound

Kept(sets) ==
    /\ jar' = Stored(request.url, sets)
    /\ latest' = FoldLeft(LAMBDA all, set : (Key(CookieOf(request.url, set)) :> CookieOf(request.url, set)) @@ all,
                          latest, SelectSeq(sets, LAMBDA set : set.name # <<>>))

\* A redirect is shown as a page with a link; one without a body is a failure.
Receive ==
    /\ pc = "receive" /\ Kept(Answer.cookies)
    /\ \/ Answer.kind = "page" /\ Show(Answer)
       \/ Answer.kind = "moved" /\ Show([Blank EXCEPT !.links = <<Answer.to>>])
       \/ Answer.kind = "empty" /\ LoadFails

\* The server goes silent, or a TLS peer ends the session, after some of the page:
\* what has come is the page, unless nothing of the body has.
ReceivePart ==
    /\ pc = "receive" /\ Answer.kind = "page" /\ Kept(Answer.cookies)
    /\ LoadFails \/ Show([Blank EXCEPT !.links = SubSeq(Answer.links, 1, Len(Answer.links) \div 2)])

\* Nothing comes, or no header, or one that cannot be used.
ReceiveFails == pc = "receive" /\ LoadFails /\ UNCHANGED <<jar, latest>>

(* Commands. *)

Command ==
    /\ pc = "prompt" /\ commands < MaxCommands /\ commands' = commands + 1
    /\ UNCHANGED <<loaded, channel, request>>

Quit ==
    /\ Command /\ pc' = "ended"
    /\ UNCHANGED <<cur, history, srcMode, shown, pend, jar, token, wish, trail, deepest, latest>>

Reload ==
    /\ Command /\ pc' = "load" /\ pend' = NoPend
    /\ wish' = Get(cur)
    /\ UNCHANGED <<cur, history, srcMode, shown, jar, token, trail, deepest, latest>>

\* v and render: the page is loaded again.
SetView(mode) ==
    /\ Command /\ pc' = "load" /\ srcMode' = mode
    /\ wish' = [Get(cur) EXCEPT !.spoiled = wish.spoiled]
    /\ UNCHANGED <<cur, history, shown, pend, jar, token, trail, deepest, latest>>

Back ==
    /\ Command /\ history # <<>>
    /\ PopHistory /\ pend' = NoPend /\ pc' = "load"
    /\ UNCHANGED <<srcMode, shown, jar, token, latest>>

ClearCookies ==
    /\ Command /\ jar' = <<>> /\ latest' = <<>>
    /\ UNCHANGED <<cur, history, srcMode, shown, pend, token, pc, wish, trail, deepest>>

SetToken(t) ==
    /\ Command /\ token' = t
    /\ UNCHANGED <<cur, history, srcMode, shown, pend, jar, pc, wish, trail, deepest, latest>>

SetField(k, value) ==
    /\ Command /\ ~srcMode
    /\ k \in DOMAIN shown.fields /\ shown.fields[k].live /\ shown.fields[k].name # <<>>
    /\ shown' = [shown EXCEPT !.fields[k].value = value]
    /\ UNCHANGED <<cur, history, srcMode, pend, jar, token, pc, wish, trail, deepest, latest>>

\* The length of what could be built stays behind when a submission fails.
Submit(n) ==
    LET form   == shown.forms[n]
        action == IF form.action = <<>> THEN cur ELSE ResolveHref(cur, form.action)
        body   == BuildBody(n)
        target == IF form.post THEN action ELSE JoinGetUrl(action, body.text)
    IN  /\ Command /\ ~srcMode /\ n \in DOMAIN shown.forms
        /\ IF action = Bad \/ ~body.ok \/ target = Bad
           THEN /\ pend' = [pend EXCEPT !.len = IF action = Bad THEN 0 ELSE Len(body.text)]
                /\ wish' = [wish EXCEPT !.spoiled = TRUE]
                /\ UNCHANGED <<cur, history, srcMode, pc, trail, deepest>>
           ELSE /\ pend' = IF form.post THEN [post |-> TRUE, body |-> body.text, len |-> Len(body.text)] ELSE NoPend
                /\ PushHistory /\ cur' = target /\ srcMode' = FALSE /\ pc' = "load"
                /\ wish' = [Get(target) EXCEPT !.post = form.post, !.fields = FieldsOf(n)]
        /\ UNCHANGED <<shown, jar, token, latest>>

\* An address that is neither a URL nor starts with a slash belongs to the page,
\* or, when that fails, to the working directory.
TargetOf(text) ==
    IF IsUrl(text) \/ Head(text) = "/" THEN text
    ELSE IF ResolveHref(cur, text) # Bad THEN ResolveHref(cur, text)
    ELSE <<"/">> \o text

Visit(text) ==
    IF TargetOf(text) = cur THEN UNCHANGED <<cur, history, srcMode, pend, pc, wish, trail, deepest>>
    ELSE /\ PushHistory /\ cur' = TargetOf(text)
         /\ srcMode' = FALSE /\ pend' = NoPend /\ pc' = "load"
         /\ wish' = Get(TargetOf(text))

Enter(text) == Command /\ Visit(text) /\ UNCHANGED <<shown, jar, token, latest>>

Follow(k) ==
    /\ ~srcMode /\ k \in DOMAIN shown.links /\ ResolveHref(cur, shown.links[k]) # Bad
    /\ Command /\ Visit(ResolveHref(cur, shown.links[k]))
    /\ UNCHANGED <<shown, jar, token, latest>>

BrowserNext ==
    \/ ReadFile \/ ConnectFails \/ Reach \/ Send \/ SendFails
    \/ Receive \/ ReceivePart \/ ReceiveFails
    \/ Quit \/ Reload \/ SetView(~srcMode) \/ SetView(FALSE) \/ Back \/ ClearCookies
    \/ \E t \in Tokens \cup {Nothing} : SetToken(t)
    \/ \E k \in DOMAIN shown.fields, value \in Values : SetField(k, value)
    \/ \E n \in DOMAIN shown.forms : Submit(n)
    \/ \E text \in Typed : Enter(text)
    \/ \E k \in DOMAIN shown.links : Follow(k)

BrowserSpec == BrowserInit /\ [][BrowserNext]_browserVars

----------------------------------------------------------------------------
(* Properties.                                                                 *)

\* What a server reads from a body, character by character: of an encoded one
\* the first of the two that follow its percent sign.
ReadNext(read, ch) ==
    CASE read.skip = 2 -> [out |-> Append(read.out, <<ch>>), skip |-> 1]
      [] read.skip = 1 -> [out |-> read.out, skip |-> 0]
      [] read.skip = 0 ->
            IF ch = "%" THEN [out |-> read.out, skip |-> 2]
            ELSE [out  |-> Append(read.out, IF ch = "+" THEN <<" ">>
                                            ELSE IF ch \in {"&", "="} THEN <<"between", ch>> ELSE <<ch>>),
                  skip |-> 0]
Decoded(text) ==
    LET read[k \in 0 .. Len(text)] ==
            IF k = 0 THEN [out |-> <<>>, skip |-> 0] ELSE ReadNext(read[k - 1], text[k])
    IN  read[Len(text)]

\* The names and values a body is built from.
Chars(text) == [j \in DOMAIN text |-> <<text[j]>>]
PlainNext(items, first, field) ==
    items \o (IF first THEN <<>> ELSE <<<<"between", "&">>>>)
      \o Chars(field.name) \o <<<<"between", "=">>>> \o Chars(field.value)
Plain(fields) ==
    LET plain[k \in 0 .. Len(fields)] ==
            IF k = 0 THEN <<>> ELSE PlainNext(plain[k - 1], k = 1, fields[k])
    IN  plain[Len(fields)]
IsMeant(body, fields) == Decoded(body) = [out |-> Plain(fields), skip |-> 0]

\* What goes to a server is what the last command asked for: a form is posted to
\* its own target, at most once, with its fields as they were typed; everything
\* else is a GET of the page the session is at (browser_session.c, the pending_
\* variables), and no connection outlives its request.
RequestIsAsked ==
    /\ channel # "closed" <=> pc \in {"send", "receive"}
    /\ pc = "receive" =>
         /\ request.url = ParseUrl(wish.target) /\ wish.target = cur
         /\ request.post = wish.post
         /\ request.post => wish.times = 1 /\ IsMeant(request.body, wish.fields)
         /\ ~request.post => request.body = <<>> \/ wish.spoiled
         /\ channel = IF request.url.tls THEN "tls" ELSE "tcp"

\* b, and a load that fails, lead back over the pages as they were left, without
\* repeats, as far as the history reaches (trail is the way without a limit).
BackRetraces ==
    /\ IsSuffix(history, trail) /\ Len(history) <= HistoryMax
    /\ Len(history) >= Len(trail) - (IF deepest > HistoryMax THEN deepest - HistoryMax ELSE 0)
    /\ \A i \in 1 .. Len(history) - 1 : history[i] # history[i + 1]

\* What the proofs add: the fields of the page, and what waits for the load
\* that is under way, or for the next one, is what was asked for.
Way ==
    /\ history \in Seq(ToSet(history)) /\ trail \in Seq(ToSet(trail))
    /\ Len(history) <= Len(trail) /\ Len(trail) <= deepest /\ deepest \in Nat
    /\ \A i \in 1 .. Len(history) : history[i] = trail[Len(trail) - Len(history) + i]
Page ==
    /\ shown = [links |-> shown.links, forms |-> shown.forms, fields |-> shown.fields]
    /\ shown.fields \in Seq(FieldType)
    /\ \A n \in DOMAIN shown.forms : shown.forms[n].post \in BOOLEAN
Pending ==
    /\ wish = [post |-> wish.post, target |-> cur, fields |-> wish.fields,
               times |-> wish.times, spoiled |-> wish.spoiled]
    /\ wish.spoiled \in BOOLEAN
    /\ pend = [post |-> pend.post, body |-> pend.body, len |-> pend.len]
    /\ pend.post \in BOOLEAN /\ pend.len \in Nat
    /\ pc = "prompt" => ~pend.post
    /\ pc \in {"load", "send", "receive"} => pend.post = wish.post
    /\ pc \in {"load", "send"} => wish.times = 0
    /\ pend.post => pend.len = Len(pend.body) /\ (pend.len = 0 => pend.body = <<>>) /\ IsMeant(pend.body, wish.fields)
    /\ ~pend.post => pend.body = <<>> /\ (pend.len = 0 \/ wish.spoiled)
    /\ pc = "send" => channel = IF ParseUrl(cur).tls THEN "tls" ELSE "tcp"
BrowserInv == Way /\ BackRetraces /\ Page /\ Pending /\ RequestIsAsked

\* A request carries a cookie once and with the value it was given last, and, as
\* long as the jar and the header had room for all, every one that belongs to it.
CookiesAreLatest ==
    pc = "receive" =>
        LET sent == request.cookies
            due  == {k \in DOMAIN latest : IsSent(request.url, latest[k])}
        IN  /\ \A i, j \in DOMAIN sent : Key(sent[i]) = Key(sent[j]) => i = j
            /\ \A i \in DOMAIN sent : Key(sent[i]) \in due /\ sent[i] = latest[Key(sent[i])]
            /\ /\ Cardinality(DOMAIN latest) <= CookieMax
               /\ MapThenSumSet(LAMBDA k : CookieCost(latest[k]) + 2, due) <= HeaderMax
               => due = {Key(sent[i]) : i \in DOMAIN sent}

\* A link, an action or a typed address leads where the web's rules say.
LinksAsMeant ==
    pc = "prompt" =>
        \A link \in ToSet(shown.links) \cup {shown.forms[n].action : n \in DOMAIN shown.forms} \cup Typed :
            ~srcMode => ResolvesAsMeant(cur, link)
=============================================================================
