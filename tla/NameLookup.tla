----------------------------- MODULE NameLookup -----------------------------
(***************************************************************************)
(* From the host of an address to an IPv4 address, as the browser does it  *)
(* (apps/browser/browser_dns.c, browser_url_parse.c): the four numbers     *)
(* themselves, or the first address in an answer of the DNS server, which  *)
(* comes over UDP: late, twice, cut or not at all.  wget and httpget have  *)
(* copies of these functions.  Texts and messages are sequences of bytes,  *)
(* an address is its four bytes.                                           *)
(***************************************************************************)
EXTENDS Naturals, Sequences, SequencesExt

CONSTANTS
    Hosts,          \* hosts that are looked up
    LiteralOf,      \* the address that some of them are the text of
    Replies(_, _),  \* what the server may answer for a host and an id: the bytes and
                    \* the address they are to tell, or Bad
    Strangers,      \* datagrams that come from somewhere else
    DepthMax,       \* steps through a name: 32 in the code
    LabelMax,       \* the longest label: 63 in the code
    QueryMax,       \* USH_BROWSER_DNS_PACKET_MAX
    FirstId,        \* what the clock gives for the first query
    Bad, None,
    MaxLookups      \* bound on the lookups of a behaviour

VARIABLES
    host, id,   \* of the running lookup
    net,        \* datagrams under way
    pc,         \* "idle", "waiting", "found" or "failed"
    address,    \* *out_ipv4_be
    heard,      \* ghost: a whole answer to this lookup has come
    lookups

vars == <<host, id, net, pc, address, heard, lookups>>

Dot == 46
Digit(b) == b \in 48 .. 57

\* The bytes read so far: whole parts, the number under way (Bad without a digit).
Ipv4Byte(s, b) ==
    CASE s = Bad -> Bad
      [] s # Bad /\ Digit(b) ->
            LET n == (IF s.number = None THEN 0 ELSE s.number) * 10 + b - 48
            IN  IF n > 255 THEN Bad ELSE [s EXCEPT !.number = n]
      [] s # Bad /\ b = Dot ->
            IF s.number = None \/ Len(s.parts) >= 3 THEN Bad
            ELSE [parts |-> Append(s.parts, s.number), number |-> None]
      [] OTHER -> Bad
ParseIpv4(text) ==
    LET s == FoldLeft(Ipv4Byte, [parts |-> <<>>, number |-> None], text)
    IN  IF s = Bad THEN Bad
        ELSE IF s.number = None \/ Len(s.parts) # 3 THEN Bad ELSE Append(s.parts, s.number)

\* The labels of a host; one dot at its end is allowed.
Labels(text) ==
    LET all == FoldLeft(LAMBDA ls, b : IF b = Dot THEN Append(ls, <<>>)
                                       ELSE [ls EXCEPT ![Len(ls)] = Append(@, b)], << <<>> >>, text)
    IN  IF Last(all) = <<>> THEN Front(all) ELSE all

EncodeQname(text) ==
    LET labels == Labels(text)
        bytes  == FlattenSeq([i \in DOMAIN labels |-> <<Len(labels[i])>> \o labels[i]]) \o <<0>>
    IN  IF labels = <<>> \/ Len(bytes) > QueryMax - 12 \/ \E i \in DOMAIN labels : Len(labels[i]) \notin 1 .. LabelMax
        THEN Bad ELSE bytes

Be16(bytes, at) == bytes[at + 1] * 256 + bytes[at + 2]

\* Fault: the name ends where its pointer leads.
NameStep_FollowsOff(bytes, s) ==
    LET len == bytes[s.pos + 1]
        ptr == (len - 192) * 256 + bytes[s.pos + 2]
        To(pos) == [s EXCEPT !.pos = pos, !.off = pos]
    IN  IF s.end # "no" THEN s
        ELSE IF s.pos >= Len(bytes) THEN [s EXCEPT !.end = "bad"]
        ELSE IF len = 0 THEN [s EXCEPT !.end = "ok", !.off = s.pos + 1]
        ELSE IF len >= 192
             THEN IF s.pos + 1 >= Len(bytes) THEN [s EXCEPT !.end = "bad"]
                  ELSE IF ptr >= Len(bytes) THEN [s EXCEPT !.end = "bad"] ELSE To(ptr)
        ELSE IF len >= 64 \/ s.pos + 1 + len > Len(bytes) THEN [s EXCEPT !.end = "bad"]
        ELSE To(s.pos + 1 + len)

\* One step through a name.  pos: where the step is; off: the end of the name.
NameStep(bytes, s) ==
    LET len == bytes[s.pos + 1]
        ptr == (len - 192) * 256 + bytes[s.pos + 2]
        EndAt(pos) == IF s.jumped THEN s.off ELSE pos
    IN  IF s.end # "no" THEN s
        ELSE IF s.pos >= Len(bytes) THEN [s EXCEPT !.end = "bad"]
        ELSE IF len = 0 THEN [s EXCEPT !.end = "ok", !.off = EndAt(s.pos + 1)]
        ELSE IF len >= 192
             THEN IF s.pos + 1 >= Len(bytes) THEN [s EXCEPT !.end = "bad"]
                  ELSE IF ptr >= Len(bytes) THEN [s EXCEPT !.end = "bad"]
                  ELSE [s EXCEPT !.pos = ptr, !.off = EndAt(s.pos + 2), !.jumped = TRUE]
        ELSE IF len >= 64 \/ s.pos + 1 + len > Len(bytes) THEN [s EXCEPT !.end = "bad"]
        ELSE [s EXCEPT !.pos = s.pos + 1 + len, !.off = EndAt(s.pos + 1 + len)]

\* Where what follows the name at off begins; Bad for a name that is cut, is none,
\* or goes in circles.
SkipName(bytes, off) ==
    LET walk[n \in 0 .. DepthMax] ==
            IF n = 0 THEN [pos |-> off, off |-> off, jumped |-> FALSE, end |-> "no"]
            ELSE NameStep(bytes, walk[n - 1])
    IN  IF walk[DepthMax].end = "ok" THEN walk[DepthMax].off ELSE Bad

\* off after n questions from byte 12 on.
SkipQuestions(bytes, n) ==
    LET walk[k \in 0 .. n] ==
            IF k = 0 THEN 12
            ELSE LET off == walk[k - 1]
                     end == IF off = Bad THEN Bad ELSE SkipName(bytes, off)
                 IN  IF end = Bad THEN Bad ELSE IF end + 4 > Len(bytes) THEN Bad ELSE end + 4
    IN  walk[n]

\* The first of the n records from off on that is an address.
FirstAddress(bytes, off, n) ==
    LET from[k \in 1 .. n + 1, at \in 0 .. Len(bytes)] ==
            LET name == SkipName(bytes, at)
                data == name + 10
                len  == Be16(bytes, name + 8)
            IN  IF k > n THEN Bad
                ELSE IF name = Bad THEN Bad
                ELSE IF data > Len(bytes) THEN Bad
                ELSE IF data + len > Len(bytes) THEN Bad
                ELSE IF Be16(bytes, name) = 1 /\ Be16(bytes, name + 2) = 1 /\ len = 4
                     THEN SubSeq(bytes, data + 1, data + 4)
                ELSE from[k + 1, data + len]
    IN  from[1, off]

\* An answer to the query of this id, without an error.
ParseFirstA(bytes, expected) ==
    IF Len(bytes) < 12 THEN Bad
    ELSE IF Be16(bytes, 0) # expected \/ bytes[3] < 128 \/ bytes[4] % 16 # 0 THEN Bad
    ELSE LET off == SkipQuestions(bytes, Be16(bytes, 4))
         IN  IF off = Bad THEN Bad ELSE FirstAddress(bytes, off, Be16(bytes, 6))

----------------------------------------------------------------------------
Init ==
    /\ host = None /\ id = None /\ net = Strangers
    /\ pc = "idle" /\ address = None /\ heard = FALSE /\ lookups = 0

\* The query goes out, with one answer under way or none; a send may fail.
Ask(text) ==
    \/ /\ pc' = "waiting" /\ address' = None
       /\ \/ UNCHANGED net
          \/ \E reply \in Replies(text, FirstId + lookups) :
                net' = net \cup {[ours |-> TRUE, id |-> FirstId + lookups, bytes |-> reply.bytes, tells |-> reply.tells]}
    \/ pc' = "failed" /\ address' = None /\ UNCHANGED net

\* A query holds 12 bytes, the name and 4 more.
QueryOf(text) ==
    LET name == EncodeQname(text)
    IN  IF name = Bad THEN Bad ELSE IF 12 + Len(name) + 4 > QueryMax THEN Bad ELSE name

Resolve(text) ==
    /\ pc # "waiting" /\ lookups < MaxLookups
    /\ lookups' = lookups + 1
    /\ host' = text /\ id' = FirstId + lookups /\ heard' = FALSE
    /\ IF ParseIpv4(text) # Bad THEN pc' = "found" /\ address' = ParseIpv4(text) /\ UNCHANGED net
       ELSE IF QueryOf(text) = Bad THEN pc' = "failed" /\ address' = None /\ UNCHANGED net
       ELSE Ask(text)

\* A datagram, which the network may bring once more later.  What is from somewhere
\* else, of another query or of no use is passed over.
Receive(datagram) ==
    LET found == IF datagram.ours THEN ParseFirstA(datagram.bytes, id) ELSE Bad
    IN  /\ pc = "waiting" /\ datagram \in net
        /\ net' \in {net, net \ {datagram}}
        /\ pc' = IF found = Bad THEN "waiting" ELSE "found"
        /\ address' = IF found = Bad THEN address ELSE found
        /\ heard' = (heard \/ (datagram.ours /\ datagram.id = id /\ datagram.tells # Bad))
        /\ UNCHANGED <<host, id, lookups>>

\* Nothing that helps for 700 polls.
GiveUp == pc = "waiting" /\ pc' = "failed" /\ UNCHANGED <<host, id, net, address, heard, lookups>>

Next ==
    \/ \E text \in Hosts : Resolve(text)
    \/ \E datagram \in net : Receive(datagram)
    \/ GiveUp

Spec == Init /\ [][Next]_vars

----------------------------------------------------------------------------
\* The address of a host is the one its text is, or the one that an answer of the
\* DNS server to this very query tells: no answer to an earlier query, of somebody
\* else or cut in the middle gives another, and no whole answer is passed over
\* (ush_browser_dns_resolve_ipv4).
AddressIsAnswered ==
    /\ pc = "found" =>
          IF host \in DOMAIN LiteralOf THEN address = LiteralOf[host]
          ELSE \E reply \in Replies(host, id) : address = reply.tells
    /\ heard => pc = "found"
=============================================================================
