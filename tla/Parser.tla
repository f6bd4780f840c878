-------------------------------- MODULE Parser --------------------------------
(***************************************************************************)
(* HttpParser: the request and the response parser of one session.         *)
(*                                                                         *)
(* A connection delivers a byte stream in reads of any length.  llhttp     *)
(* turns a read into callbacks on spans: a piece of the first line, of a   *)
(* header's name, of its value or of the body, or the end of the message.  *)
(* A span is cut where the read ends and goes on in the next one.  The     *)
(* callbacks collect the pieces; feed and take are what Session and        *)
(* MitmSession call.                                                       *)
(*                                                                         *)
(* The stream is a sequence of elements of at most one byte.  llhttp is    *)
(* modelled by what the callbacks rely on: after llhttp_init it expects    *)
(* the beginning of a message; an empty header value is an empty span;     *)
(* after the end of a message it goes on with the next one in the same     *)
(* read; an error stays until the next llhttp_init.                        *)
(***************************************************************************)
EXTENDS Integers, SequencesExt

CONSTANTS
    Byte,           \* bytes of lines, names, values and bodies
    Messages,       \* what a peer may send: [line, headers, body]
    MaxBody,        \* MAX_BODY_SIZE, for responses
    MaxSent,        \* bound: messages per direction
    Marker          \* "[--- Body truncated for UI ---]", as one element

Sides == {"request", "response"}

VARIABLES
    sent,       \* per side, the messages of the stream
    wire,       \* per side, what the socket has not delivered yet
    parser,     \* requestParser and responseParser
    taken,      \* per side, what take returned
    tidy        \* history: no read held parts of two messages or came early

parserVars == <<sent, wire, parser, taken, tidy>>

\* llhttp refuses a header without a name.
Header  == (Seq(Byte) \ {<<>>}) \X Seq(Byte)
Message == [line : Seq(Byte), headers : Seq(Header), body : Seq(Byte)]

ASSUME ParserAssumption ==
    /\ Messages \subseteq Message
    /\ Marker \notin Byte
    /\ MaxBody \in Nat \ {0} /\ MaxSent \in Nat

-----------------------------------------------------------------------------
\* The stream of a message

Span == [kind : {"begin", "line", "field", "value", "body", "end"}, data : Seq(Byte)]

Piece(k, s) == [kind |-> k, data |-> s]
Pieces(k, s) == [i \in DOMAIN s |-> Piece(k, <<s[i]>>)]

HeaderPieces(h) ==
    Pieces("field", h[1])
        \o (IF h[2] = <<>> THEN <<Piece("value", <<>>)>> ELSE Pieces("value", h[2]))

Stream(m) ==
    <<Piece("begin", <<>>)>> \o Pieces("line", m.line)
        \o FlattenSeq([i \in DOMAIN m.headers |-> HeaderPieces(m.headers[i])])
        \o Pieces("body", m.body) \o <<Piece("end", <<>>)>>

StreamOf(messages) == FlattenSeq([i \in DOMAIN messages |-> Stream(messages[i])])

\* The spans llhttp reports for one read: neighbours of a kind are one span.
Grown(spans, e) ==
    LET n == Len(spans)
    IN  IF spans # <<>> /\ spans[n].kind = e.kind
        THEN [spans EXCEPT ![n] = Piece(e.kind, spans[n].data \o e.data)]
        ELSE Append(spans, e)

Spans(read) ==
    LET cut[i \in 0 .. Len(read)] == IF i = 0 THEN <<>> ELSE Grown(cut[i - 1], read[i])
    IN  cut[Len(read)]

-----------------------------------------------------------------------------
\* The callbacks, as functions of the parser's record

Fresh == [llhttp |-> "start", line |-> <<>>, headers |-> <<>>, body |-> <<>>,
          field |-> <<>>, value |-> <<>>, lastWasField |-> FALSE, complete |-> FALSE]

CommitHeader(p) ==
    IF p.field = <<>> THEN p
    ELSE [p EXCEPT !.headers = Append(@, <<p.field, p.value>>),
                   !.field = <<>>, !.value = <<>>]

\* on_url appends to url, on_status to statusText.
OnLine(p, s) == [p EXCEPT !.line = @ \o s]

\* Variant with a bug: every span begins a header.
OnHeaderFieldAlways(p, s) ==
    LET q == CommitHeader(p)
    IN  [q EXCEPT !.field = @ \o s, !.lastWasField = TRUE]

OnHeaderField(p, s) ==
    LET q == IF p.lastWasField THEN p ELSE CommitHeader(p)
    IN  [q EXCEPT !.field = @ \o s, !.lastWasField = TRUE]

OnHeaderValue(p, s) == [p EXCEPT !.value = @ \o s, !.lastWasField = FALSE]

OnRequestBody(p, s) == [p EXCEPT !.body = @ \o s]

\* Variant with a bug: the room left is not looked at again.
OnResponseBodyUnlimited(p, s) ==
    LET part == IF Len(s) > MaxBody THEN SubSeq(s, 1, MaxBody) ELSE s
    IN  [p EXCEPT !.body = @ \o part \o (IF Len(part) < Len(s) THEN <<Marker>> ELSE <<>>)]

\* The copy for the screen stops at MAX_BODY_SIZE bytes and says so, unless the
\* limit was reached exactly at the end of a span.
OnResponseBody(p, s) ==
    LET room == MaxBody - Len(p.body)
        part == IF Len(s) > room THEN SubSeq(s, 1, room) ELSE s
    IN  IF room <= 0 THEN p
        ELSE [p EXCEPT !.body = @ \o part
                                  \o (IF Len(part) < Len(s) THEN <<Marker>> ELSE <<>>)]

OnMessageComplete(p) ==
    [CommitHeader(p) EXCEPT !.complete = TRUE, !.llhttp = "start"]

Callback(side, p, span) ==
    CASE p.llhttp = "error" -> p
      [] p.llhttp = "start" -> [p EXCEPT !.llhttp = IF span.kind = "begin" THEN "inside" ELSE "error"]
      [] OTHER ->
         CASE span.kind = "line"  -> OnLine(p, span.data)
           [] span.kind = "field" -> OnHeaderField(p, span.data)
           [] span.kind = "value" -> OnHeaderValue(p, span.data)
           [] span.kind = "body"  -> IF side = "request" THEN OnRequestBody(p, span.data)
                                     ELSE OnResponseBody(p, span.data)
           [] OTHER               -> OnMessageComplete(p)

\* llhttp_execute, for the spans of one read.
Execute(side, p, spans) ==
    LET at[i \in 0 .. Len(spans)] == IF i = 0 THEN p ELSE Callback(side, at[i - 1], spans[i])
    IN  at[Len(spans)]

-----------------------------------------------------------------------------
ParserInit ==
    /\ sent \in [Sides -> UNION {[1 .. n -> Messages] : n \in 0 .. MaxSent}]
    /\ wire = [s \in Sides |-> StreamOf(sent[s])]
    /\ parser = [s \in Sides |-> Fresh]
    /\ taken = [s \in Sides |-> <<>>]
    /\ tidy = [s \in Sides |-> TRUE]

\* feedRequest, feedResponse: a read is dropped unseen while a complete message
\* waits to be taken.
Feed(s, n) ==
    LET read == SubSeq(wire[s], 1, n) IN
    /\ wire' = [wire EXCEPT ![s] = SubSeq(@, n + 1, Len(@))]
    /\ parser' = [parser EXCEPT ![s] =
                    IF @.complete THEN @ ELSE Execute(s, @, Spans(read))]
    /\ tidy' = [tidy EXCEPT ![s] =
                    @ /\ ~parser[s].complete
                      /\ \A i \in 1 .. n - 1 : read[i].kind # "end"]
    /\ UNCHANGED <<sent, taken>>

\* takeRequest, takeResponse
Take(s) ==
    LET p == parser[s] IN
    /\ p.complete
    /\ taken' = [taken EXCEPT ![s] =
                    Append(@, [line |-> p.line, headers |-> p.headers, body |-> p.body])]
    /\ parser' = [parser EXCEPT ![s] = Fresh]
    /\ UNCHANGED <<sent, wire, tidy>>

\* reset(), at the end of a turn: both parsers.
Reset ==
    /\ parser' = [s \in Sides |-> Fresh]
    /\ tidy' = [s \in Sides |-> tidy[s] /\ parser[s] = Fresh]
    /\ UNCHANGED <<sent, wire, taken>>

ParserNext ==
    \/ \E s \in Sides : \E n \in 1 .. Len(wire[s]) : Feed(s, n)
    \/ \E s \in Sides : Take(s)
    \/ Reset

ParserSpec == ParserInit /\ [][ParserNext]_parserVars

-----------------------------------------------------------------------------
ParserRecord ==
    [llhttp : {"start", "inside", "error"}, line : Seq(Byte), headers : Seq(Header),
     body : Seq(Byte \cup {Marker}), field : Seq(Byte), value : Seq(Byte),
     lastWasField : BOOLEAN, complete : BOOLEAN]

ParserTypes ==
    /\ sent \in [Sides -> Seq(Messages)]
    /\ wire \in [Sides -> Seq(Span)]
    /\ parser \in [Sides -> ParserRecord]
    /\ taken \in [Sides -> Seq([line : Seq(Byte), headers : Seq(Header),
                                body : Seq(Byte \cup {Marker})])]
    /\ tidy \in [Sides -> BOOLEAN]

\* The body that is kept of message m.
Kept(s, m, body) ==
    \/ body = m.body /\ (s = "response" => Len(body) <= MaxBody)
    \/ /\ s = "response" /\ Len(m.body) > MaxBody
       /\ LET cut == SubSeq(m.body, 1, MaxBody) IN body \in {cut, Append(cut, Marker)}

\* Whatever the lengths of the reads, the messages taken are those that were
\* sent, in order, header by header: pieces of names and values are joined and
\* none is carried over to the next message (on_header_field, commitHeader,
\* take, reset).  Only a read with parts of two messages, or one that comes
\* before the complete message was taken, ends this.
TakenAsSent ==
    \A s \in Sides : tidy[s] =>
        /\ Len(taken[s]) <= Len(sent[s])
        /\ \A i \in DOMAIN taken[s] :
              LET t == taken[s][i]
                  m == sent[s][i]
              IN  t.line = m.line /\ t.headers = m.headers /\ Kept(s, m, t.body)

Ends(seq) == Cardinality({i \in DOMAIN seq : seq[i].kind = "end"})

\* A message whose last byte was read is complete or taken, at once: no caller
\* waits for bytes that do not come, or takes what is not whole.
NoneLost ==
    \A s \in Sides : tidy[s] =>
        Len(taken[s]) + (IF parser[s].complete THEN 1 ELSE 0) = Len(sent[s]) - Ends(wire[s])

\* The copy of a response that is kept for the screen never outgrows the limit,
\* however many spans or merged messages arrive, and the marker only ends it.
BodyBounded ==
    LET body == parser["response"].body IN
    /\ Len(body) <= MaxBody + 1
    /\ \A i \in DOMAIN body : body[i] = Marker => i = MaxBody + 1

ParserInv == ParserTypes /\ NoneLost /\ BodyBounded
=============================================================================
