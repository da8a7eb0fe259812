------------------------- MODULE MetadataReadProofs -------------------------
(***************************************************************************)
(* Proofs about MetadataRead and the subrequests of ChildRequest, for all  *)
(* files, ranges and headers of clients: what the client of a clip or of a *)
(* request that is handed to the upstream gets.                            *)
(*                                                                         *)
(* The records of the model are only known to have their fields, of        *)
(* whatever values; what matters of the values is said for each kind of    *)
(* request.                                                                *)
(***************************************************************************)
EXTENDS MetadataRead, TLAPS

-----------------------------------------------------------------------------
(* Records *)

ChildRec(V) ==
    [state: V, in_memory: V, callback: V, from: V, to: V, room: V, proxy: V, headers: V,
     upstream: V, out: V, status: V, content_length: V, body: V, error_code: V,
     dont_send_header: V, send_header_result: V]
ParentRec(V) == [wev: V, ctx: V, header_sent: V, forwarded: V, last: V, rc: V]
AnswerRec(V) == [calls: V, rc: V, bytes: V, finalized: V]
PlaceRec(V) == [pc: V, rc: V, from: V, to: V, blk: V, at: V, len: V]

IsChild(c) == \E V : c \in ChildRec(V)
IsParent(p) == \E V : p \in ParentRec(V)
IsAnswer(a) == \E V : a \in AnswerRec(V)
IsPlace(s) == \E V : s \in PlaceRec(V)

-----------------------------------------------------------------------------
(* The invariant *)

ReadPcs == {"open", "read", "aio", "child", "result", "parse", "done", "finalized"}

\* The bytes of the file from an offset on.
BytesFrom(b, offset) == b \in Seq(Int) /\ \A i \in 1 .. Len(b) : b[i] = offset + i - 1

\* The conditions of the client are not those of a read.
Unconditional(j, c) ==
    j.kind # "proxy" => "If-Modified-Since" \notin c.headers /\ c.status # 304

\* The child that fetches the bytes of a clip.
ClipChild(j, c) ==
    /\ c.in_memory = FALSE /\ c.from = j.from /\ c.to = j.to /\ c.content_length \in Int
    /\ IF c.status = 500 THEN c.body = ErrorPage /\ c.state # "body"
       ELSE BytesFrom(c.body, j.from)
    /\ c.status = 416 => c.body = <<>> /\ c.state # "body"

Quiet(c, p) == c.state \in {"none", "handled"} /\ p.wev = "own"

\* A clip that was sent is complete.
ClipSent(j, c, p) ==
    /\ Len(p.forwarded) = j.to - j.from
    /\ c.status # 500 => p.forwarded = Range(j.from, j.to)

ClipOK(j, c, p, s) ==
    /\ s.pc \in {"dump", "dumping", "finalized"}
    /\ s.pc = "dump" => Quiet(c, p) /\ c = NoChild /\ p.forwarded = <<>>
    /\ s.pc = "dumping" => ClipChild(j, c) /\ p.forwarded = c.body
    /\ s.pc = "finalized" => Quiet(c, p) /\ (s.rc = OK => ClipSent(j, c, p))

Answering(c, p) == p.header_sent \/ c.dont_send_header

\* The child that a request was handed to.
ProxyChild(c, p) ==
    /\ c.in_memory = FALSE
    /\ c.state \in {"running", "body", "done", "finished"}
    /\ p.wev = "child" => c.state = "finished"
    /\ c.state = "running" => p.header_sent = FALSE
    /\ c.state \in {"body", "done"} => Answering(c, p) \/ c.send_header_result # OK
    /\ c.state = "finished" =>
         Answering(c, p) \/ c.send_header_result # OK \/ c.error_code # OK

ProxyOK(c, p, s) ==
    /\ s.pc \in {"proxy", "proxied", "finalized"}
    /\ p.header_sent \in BOOLEAN /\ c.dont_send_header \in BOOLEAN
    /\ s.pc = "proxy" => Quiet(c, p) /\ c = NoChild /\ p.header_sent = FALSE
    /\ s.pc = "proxied" => ProxyChild(c, p)
    /\ s.pc = "finalized" => Quiet(c, p) /\ (s.rc = OK <=> Answering(c, p))

Serves(j, c, p, s) ==
    CASE j.kind = "clip" -> ClipOK(j, c, p, s)
      [] j.kind = "proxy" -> ProxyOK(c, p, s)
      [] OTHER -> s.pc \in ReadPcs

IInv ==
    /\ job \in Jobs
    /\ IsChild(child) /\ IsParent(parent) /\ IsAnswer(answer) /\ IsPlace(st)
    /\ Unconditional(job, child)
    /\ Serves(job, child, parent, st)

-----------------------------------------------------------------------------
(* Fields *)

At(s, pc) == [s EXCEPT !.pc = pc]
EndsAt(s, pc, rc) == [s EXCEPT !.pc = pc, !.rc = rc]
ReadsAt(s, pc, from, to) == [s EXCEPT !.pc = pc, !.from = from, !.to = to]
ParsesAt(s, pc, blk, at, len) == [s EXCEPT !.pc = pc, !.blk = blk, !.at = at, !.len = len]

\* The place of the request after a step.
LEMMA PlaceFields ==
    ASSUME NEW s, IsPlace(s), NEW v, NEW w, NEW x, NEW y
    PROVE  /\ IsPlace(At(s, v)) /\ At(s, v).pc = v
           /\ IsPlace(EndsAt(s, v, w)) /\ EndsAt(s, v, w).pc = v /\ EndsAt(s, v, w).rc = w
           /\ IsPlace(ReadsAt(s, v, w, x)) /\ ReadsAt(s, v, w, x).pc = v
           /\ IsPlace(ParsesAt(s, v, w, x, y)) /\ ParsesAt(s, v, w, x, y).pc = v
<1>1. PICK V : s \in PlaceRec(V)
    BY DEF IsPlace
<1> DEFINE W == V \cup {v, w, x, y}
<1>2. /\ At(s, v) \in PlaceRec(W) /\ EndsAt(s, v, w) \in PlaceRec(W)
      /\ ReadsAt(s, v, w, x) \in PlaceRec(W) /\ ParsesAt(s, v, w, x, y) \in PlaceRec(W)
    BY <1>1 DEF PlaceRec, At, EndsAt, ReadsAt, ParsesAt
<1>3. /\ At(s, v).pc = v /\ EndsAt(s, v, w).pc = v /\ EndsAt(s, v, w).rc = w
      /\ ReadsAt(s, v, w, x).pc = v /\ ParsesAt(s, v, w, x, y).pc = v
    BY <1>1 DEF PlaceRec, At, EndsAt, ReadsAt, ParsesAt
<1> HIDE DEF W
<1>4. \A t : t \in PlaceRec(W) => IsPlace(t)
    BY DEF IsPlace
<1> QED
    BY <1>2, <1>3, <1>4

\* What finalize leaves of the place.
LEMMA Finalized ==
    ASSUME IsPlace(st), NEW rc, finalize(rc)
    PROVE  IsPlace(st') /\ st'.pc = "finalized" /\ st'.rc = rc
<1>1. st' = EndsAt(st, "finalized", rc)
    BY DEF finalize, EndsAt
<1> QED
    BY <1>1, PlaceFields

WithState(c, state) == [c EXCEPT !.state = state]
StartedChild(c, client) == [copy_headers(c, client) EXCEPT !.state = InitialHandler(c)]

\* c and d differ at most in the state.
SameChild(c, d) ==
    /\ d.in_memory = c.in_memory /\ d.from = c.from /\ d.to = c.to /\ d.headers = c.headers
    /\ d.status = c.status /\ d.content_length = c.content_length /\ d.body = c.body
    /\ d.dont_send_header = c.dont_send_header
    /\ d.send_header_result = c.send_header_result

\* The child in another state.
LEMMA StateFields ==
    ASSUME NEW c, IsChild(c), NEW state
    PROVE  /\ IsChild(WithState(c, state)) /\ WithState(c, state).state = state
           /\ SameChild(c, WithState(c, state))
<1>1. PICK V : c \in ChildRec(V)
    BY DEF IsChild
<1>2. WithState(c, state) \in ChildRec(V \cup {state})
    BY <1>1 DEF ChildRec, WithState
<1>3. WithState(c, state).state = state /\ SameChild(c, WithState(c, state))
    BY <1>1 DEF ChildRec, WithState, SameChild
<1> QED
    BY <1>2, <1>3 DEF IsChild

AsksFor(c, from, to) == [c EXCEPT !.from = from, !.to = to]
SameHeaders(c, d) == d.headers = c.headers /\ d.in_memory = c.in_memory

\* The child with the range of the client.
LEMMA AskFields ==
    ASSUME NEW V, NEW c \in ChildRec(V), NEW from, NEW to
    PROVE  /\ AsksFor(c, from, to) \in ChildRec(V \cup {from, to})
           /\ SameHeaders(c, AsksFor(c, from, to))
<1>1. AsksFor(c, from, to) \in ChildRec(V \cup {from, to})
    BY DEF ChildRec, AsksFor
<1> QED
    BY <1>1 DEF ChildRec, AsksFor, SameHeaders

StartedIs(d, in_memory, from, to, proxy) ==
    /\ IsChild(d)
    /\ d.state = IF in_memory THEN "posted" ELSE "running"
    /\ d.in_memory = in_memory /\ d.status = 0 /\ d.body = <<>> /\ d.content_length = -1
    /\ d.dont_send_header = FALSE /\ d.send_header_result = OK
    /\ from < to => d.from = from /\ d.to = to
    /\ proxy \/ "If-Modified-Since" \notin d.headers

\* The child after it was started for a caller.
LEMMA StartedFields ==
    ASSUME NEW a, NEW b, NEW from, NEW to, NEW room, NEW proxy \in BOOLEAN, NEW client,
           NEW d, d = StartedChild(Ask(a, b, from, to, room, proxy), client)
    PROVE  StartedIs(d, a, from, to, proxy)
<1> DEFINE c == Ask(a, b, from, to, room, proxy)
           W == {"none", a, b, from, to, room, proxy, {}, FALSE, 0, -1, <<>>, OK}
<1>1. c \in ChildRec(W)
    BY DEF ChildRec, Ask, NoChild
<1>2. /\ c.in_memory = a /\ c.from = from /\ c.to = to /\ c.proxy = proxy /\ c.status = 0
      /\ c.body = <<>> /\ c.content_length = -1 /\ c.dont_send_header = FALSE
      /\ c.send_header_result = OK
    BY DEF Ask, NoChild
<1> HIDE DEF c, W
<1>3. c \in ChildRec(W) /\ IsChild(c)
    BY <1>1 DEF IsChild
<1> DEFINE keep == {h \in client.headers : /\ h = "Range" => c.proxy \/ c.from < c.to
                                           /\ c.proxy \/ h \notin hide_headers}
           x == [c EXCEPT !.headers = keep]
           y == [x EXCEPT !.headers = @ \cup {"Range"}]
           z == [x EXCEPT !.from = client.from, !.to = client.to]
           state == InitialHandler(c)
<1>4. proxy \/ "If-Modified-Since" \notin keep
    BY <1>2 DEF hide_headers
<1> HIDE DEF keep
<1>5. /\ x \in ChildRec(W \cup {keep}) /\ x.headers = keep /\ x.from = from /\ x.to = to
      /\ x.in_memory = a /\ x.status = 0 /\ x.body = <<>> /\ x.content_length = -1
      /\ x.dont_send_header = FALSE /\ x.send_header_result = OK
    BY <1>1, <1>2 DEF ChildRec
<1> DEFINE e == IF from < to THEN y ELSE z
<1>6. d = WithState(e, state)
  <2>1. copy_headers(c, client) = RangeHeader(x, client)
      BY DEF copy_headers, keep
  <2>2. RangeHeader(x, client) = e
      BY <1>5 DEF RangeHeader
  <2> QED
      BY <2>1, <2>2 DEF StartedChild, WithState, c
<1> HIDE DEF x
<1>7. state = IF a THEN "posted" ELSE "running"
    BY <1>2 DEF InitialHandler
<1> HIDE DEF state
<1> DEFINE X == (W \cup {keep}) \cup {keep \cup {"Range"}}
           Y == (W \cup {keep}) \cup {client.from, client.to}
<1>8. /\ e \in ChildRec(X) \/ e \in ChildRec(Y)
      /\ from < to => e.from = from /\ e.to = to
      /\ proxy \/ "If-Modified-Since" \notin e.headers
      /\ e.in_memory = a /\ e.status = 0 /\ e.body = <<>> /\ e.content_length = -1
      /\ e.dont_send_header = FALSE /\ e.send_header_result = OK
  <2>1. CASE from < to
    <3>1. e = y
        BY <2>1
    <3> HIDE DEF e
    <3> QED
        BY <1>4, <1>5, <2>1, <3>1 DEF ChildRec
  <2>2. CASE ~(from < to)
    <3>1. e = z
        BY <2>2
    <3> HIDE DEF e
    <3> QED
      <4>1. z \in ChildRec(Y) /\ z.headers = x.headers /\ z.in_memory = x.in_memory
        <5>1. x \in ChildRec(W \cup {keep})
            BY <1>5
        <5>2. z = AsksFor(x, client.from, client.to)
            BY DEF AsksFor
        <5> HIDE DEF z
        <5>3. z \in ChildRec(Y) /\ SameHeaders(x, z)
            BY <5>1, <5>2, AskFields
        <5> QED
            BY <5>3 DEF SameHeaders
      <4>2. /\ z.status = x.status /\ z.body = x.body /\ z.content_length = x.content_length
            /\ z.dont_send_header = x.dont_send_header
            /\ z.send_header_result = x.send_header_result
          BY <1>5 DEF ChildRec
      <4> HIDE DEF z, X, Y
      <4> QED
          BY <1>4, <1>5, <2>2, <3>1, <4>1, <4>2
  <2> HIDE DEF e
  <2> QED
      BY <2>1, <2>2
<1> HIDE DEF e, X, Y
<1>9. IsChild(e)
    BY <1>8 DEF IsChild
<1>10. IsChild(d) /\ d.state = state /\ SameChild(e, d)
    BY <1>6, <1>9, StateFields
<1>11. d.state = IF a THEN "posted" ELSE "running"
    BY <1>7, <1>10, Zenon
<1> QED
    BY <1>8, <1>10, <1>11, Zenon DEF SameChild, StartedIs

\* The header of the response in the child.
HeaderSeen(c, s, l, t, b, d, r) ==
    [c EXCEPT !.upstream = TRUE, !.status = s, !.content_length = l, !.state = t, !.body = b,
              !.dont_send_header = d, !.send_header_result = r]

\* x is the child c with such a header.
HeaderIs(x, c, s, l, t, b, d, r) ==
    /\ IsChild(x)
    /\ x.status = s /\ x.content_length = l /\ x.state = t /\ x.body = b
    /\ x.dont_send_header = d /\ x.send_header_result = r /\ x.upstream = TRUE
    /\ x.headers = c.headers /\ x.in_memory = c.in_memory /\ x.from = c.from /\ x.to = c.to

\* The fields that ngx_child_request_header_filter and the upstream write.
LEMMA HeaderFields ==
    ASSUME NEW c, IsChild(c), NEW s, NEW l, NEW t, NEW b, NEW d, NEW r,
           NEW x, x = HeaderSeen(c, s, l, t, b, d, r)
    PROVE  HeaderIs(x, c, s, l, t, b, d, r)
<1>1. PICK V : c \in ChildRec(V)
    BY DEF IsChild
<1>2. x \in ChildRec(V \cup {s, l, t, b, d, r, TRUE})
    BY <1>1 DEF ChildRec, HeaderSeen
<1>3. /\ x.status = s /\ x.content_length = l /\ x.state = t /\ x.body = b
      /\ x.dont_send_header = d /\ x.send_header_result = r /\ x.upstream = TRUE
      /\ x.headers = c.headers /\ x.in_memory = c.in_memory /\ x.from = c.from /\ x.to = c.to
    BY <1>1 DEF ChildRec, HeaderSeen
<1>4. IsChild(x)
    BY <1>2 DEF IsChild
<1> QED
    BY <1>3, <1>4 DEF HeaderIs

WithBody(c, b) == [c EXCEPT !.body = b]

\* The body in the child.
LEMMA BodyFields ==
    ASSUME NEW c, IsChild(c), NEW b, NEW x, x = WithBody(c, b)
    PROVE  /\ IsChild(x) /\ x.body = b
           /\ x.state = c.state /\ x.in_memory = c.in_memory /\ x.from = c.from /\ x.to = c.to
           /\ x.headers = c.headers /\ x.status = c.status
           /\ x.content_length = c.content_length
           /\ x.dont_send_header = c.dont_send_header
           /\ x.send_header_result = c.send_header_result /\ x.upstream = c.upstream
<1>1. PICK V : c \in ChildRec(V)
    BY DEF IsChild
<1>2. x \in ChildRec(V \cup {b})
    BY <1>1 DEF ChildRec, WithBody
<1>3. /\ x.body = b
      /\ x.state = c.state /\ x.in_memory = c.in_memory /\ x.from = c.from /\ x.to = c.to
      /\ x.headers = c.headers /\ x.status = c.status
      /\ x.content_length = c.content_length
      /\ x.dont_send_header = c.dont_send_header
      /\ x.send_header_result = c.send_header_result /\ x.upstream = c.upstream
    BY <1>1 DEF ChildRec, WithBody
<1>4. IsChild(x)
    BY <1>2 DEF IsChild
<1> QED
    BY <1>3, <1>4

WithError(c, rc) == [c EXCEPT !.state = "finished", !.error_code = rc]

\* The child when the subrequest is done.
LEMMA ErrorFields ==
    ASSUME NEW c, IsChild(c), NEW rc, NEW x, x = WithError(c, rc)
    PROVE  /\ IsChild(x) /\ x.state = "finished" /\ x.error_code = rc /\ SameChild(c, x)
           /\ x.upstream = c.upstream
<1>1. PICK V : c \in ChildRec(V)
    BY DEF IsChild
<1>2. x \in ChildRec(V \cup {rc, "finished"})
    BY <1>1 DEF ChildRec, WithError
<1>3. /\ x.state = "finished" /\ x.error_code = rc /\ SameChild(c, x)
      /\ x.upstream = c.upstream
    BY <1>1 DEF ChildRec, WithError, SameChild
<1>4. IsChild(x)
    BY <1>2 DEF IsChild
<1> QED
    BY <1>3, <1>4

WithUpstream(c, state, u) == [c EXCEPT !.state = state, !.upstream = u, !.out = u]

\* The child with the response buffer injected.
LEMMA UpstreamFields ==
    ASSUME NEW c, IsChild(c), NEW state, NEW u, NEW x, x = WithUpstream(c, state, u)
    PROVE  IsChild(x) /\ x.state = state /\ x.upstream = u /\ SameChild(c, x)
<1>1. PICK V : c \in ChildRec(V)
    BY DEF IsChild
<1>2. x \in ChildRec(V \cup {state, u})
    BY <1>1 DEF ChildRec, WithUpstream
<1>3. x.state = state /\ x.upstream = u /\ SameChild(c, x)
    BY <1>1 DEF ChildRec, WithUpstream, SameChild
<1>4. IsChild(x)
    BY <1>2 DEF IsChild
<1> QED
    BY <1>3, <1>4

Handler(p, who) == [p EXCEPT !.wev = who, !.ctx = who]
Forwards(p, h, f) == [p EXCEPT !.header_sent = h, !.forwarded = f]
ForwardsBody(p, f) == [p EXCEPT !.forwarded = f]
Closed(p, rc, last) == [p EXCEPT !.wev = "own", !.ctx = "own", !.rc = rc, !.last = last]

\* The fields of the parent that the child writes.
LEMMA ParentFields ==
    ASSUME NEW p, IsParent(p), NEW v, NEW w
    PROVE  /\ IsParent(Handler(p, v)) /\ Handler(p, v).wev = v
           /\ Handler(p, v).header_sent = p.header_sent
           /\ Handler(p, v).forwarded = p.forwarded
           /\ IsParent(Forwards(p, v, w)) /\ Forwards(p, v, w).wev = p.wev
           /\ Forwards(p, v, w).header_sent = v /\ Forwards(p, v, w).forwarded = w
           /\ IsParent(ForwardsBody(p, v)) /\ ForwardsBody(p, v).wev = p.wev
           /\ ForwardsBody(p, v).header_sent = p.header_sent
           /\ ForwardsBody(p, v).forwarded = v
           /\ IsParent(Closed(p, v, w)) /\ Closed(p, v, w).wev = "own"
           /\ Closed(p, v, w).header_sent = p.header_sent
<1>1. PICK V : p \in ParentRec(V)
    BY DEF IsParent
<1> DEFINE W == V \cup {v, w, "own"}
<1>2. /\ Handler(p, v) \in ParentRec(W) /\ Forwards(p, v, w) \in ParentRec(W)
      /\ ForwardsBody(p, v) \in ParentRec(W) /\ Closed(p, v, w) \in ParentRec(W)
    BY <1>1 DEF ParentRec, Handler, Forwards, ForwardsBody, Closed
<1>3. /\ Handler(p, v).wev = v
      /\ Handler(p, v).header_sent = p.header_sent /\ Handler(p, v).forwarded = p.forwarded
      /\ Forwards(p, v, w).wev = p.wev
      /\ Forwards(p, v, w).header_sent = v /\ Forwards(p, v, w).forwarded = w
      /\ ForwardsBody(p, v).wev = p.wev
      /\ ForwardsBody(p, v).header_sent = p.header_sent /\ ForwardsBody(p, v).forwarded = v
      /\ Closed(p, v, w).wev = "own" /\ Closed(p, v, w).header_sent = p.header_sent
    BY <1>1 DEF ParentRec, Handler, Forwards, ForwardsBody, Closed
<1> HIDE DEF W
<1>4. \A q : q \in ParentRec(W) => IsParent(q)
    BY DEF IsParent
<1> QED
    BY <1>2, <1>3, <1>4

\* What the parent is told.
LEMMA AnswerFields ==
    ASSUME NEW n, NEW rc, NEW b, NEW f
    PROVE  IsAnswer([calls |-> n, rc |-> rc, bytes |-> b, finalized |-> f])
<1>1. [calls |-> n, rc |-> rc, bytes |-> b, finalized |-> f] \in AnswerRec({n, rc, b, f})
    BY DEF AnswerRec
<1> QED
    BY <1>1 DEF IsAnswer

-----------------------------------------------------------------------------
(* Bytes *)

\* A sequence followed by another one.
LEMMA Appended ==
    ASSUME NEW T, NEW p \in Seq(T), NEW q \in Seq(T)
    PROVE  /\ p \o q \in Seq(T) /\ Len(p \o q) = Len(p) + Len(q)
           /\ \A i \in 1 .. Len(p) + Len(q) :
                  (p \o q)[i] = IF i <= Len(p) THEN p[i] ELSE q[i - Len(p)]
    OBVIOUS

\* The next bytes behind those that were received.
LEMMA MoreBytes ==
    ASSUME NEW o \in Nat, NEW b, BytesFrom(b, o), NEW n \in Nat
    PROVE  BytesFrom(b \o Range(o + Len(b), o + Len(b) + n), o)
<1>1. b \in Seq(Int) /\ Len(b) \in Nat /\ \A i \in 1 .. Len(b) : b[i] = o + i - 1
    BY DEF BytesFrom
<1> DEFINE r == Range(o + Len(b), o + Len(b) + n)
           x == b \o r
<1>2. r \in Seq(Int) /\ Len(r) = n /\ \A i \in 1 .. n : r[i] = o + Len(b) + i - 1
  <2>1. r = [i \in 1 .. n |-> o + Len(b) + i - 1]
      BY <1>1 DEF Range
  <2> HIDE DEF r
  <2> QED
      BY <1>1, <2>1
<1> HIDE DEF r
<1>3. /\ x \in Seq(Int) /\ Len(x) = Len(b) + n
      /\ \A i \in 1 .. Len(b) + n : x[i] = IF i <= Len(b) THEN b[i] ELSE r[i - Len(b)]
    BY <1>1, <1>2, Appended
<1> HIDE DEF x
<1>4. ASSUME NEW i \in 1 .. Len(x) PROVE x[i] = o + i - 1
  <2>1. CASE i <= Len(b)
    <3>1. i \in 1 .. Len(b) /\ i \in 1 .. Len(b) + n
        BY <1>1, <1>3, <2>1
    <3>2. x[i] = b[i]
        BY <1>3, <2>1, <3>1
    <3> QED
        BY <1>1, <3>1, <3>2
  <2>2. CASE i > Len(b)
    <3>1. i - Len(b) \in 1 .. n /\ x[i] = r[i - Len(b)]
        BY <1>1, <1>2, <1>3, <2>2
    <3> QED
        BY <1>1, <1>2, <3>1
  <2> QED
      BY <1>1, <1>3, <2>1, <2>2
<1> QED
    BY <1>3, <1>4 DEF BytesFrom, x, r

\* All the bytes of a range.
LEMMA AllBytes ==
    ASSUME NEW from \in Nat, NEW to \in Nat, from < to, NEW b, BytesFrom(b, from),
           Len(b) = to - from
    PROVE  b = Range(from, to)
    BY DEF BytesFrom, Range

-----------------------------------------------------------------------------
(* Steps *)

\* What is known of a job.
LEMMA JobFacts ==
    ASSUME IInv
    PROVE  /\ job \in Job
           /\ job.kind \in {"mp4", "text", "clip", "proxy"}
           /\ job.from \in Nat /\ job.to \in Nat /\ job.length \in Nat
           /\ job.kind = "clip" => job.from < job.to
    BY JobsAssumption DEF IInv, Job

\* A step that keeps the job and the parts of the invariant keeps the invariant.
LEMMA Kept ==
    ASSUME IInv, job' = job, IsChild(child'), IsParent(parent'), IsAnswer(answer'), IsPlace(st'),
           Unconditional(job, child'), Serves(job, child', parent', st')
    PROVE  IInv'
    BY DEF IInv

\* The request while its child is under way.
LEMMA Active ==
    ASSUME IInv, ~Quiet(child, parent)
    PROVE  /\ job.kind = "clip" =>
                 st.pc = "dumping" /\ ClipChild(job, child) /\ parent.forwarded = child.body
           /\ job.kind = "proxy" =>
                 /\ st.pc = "proxied" /\ ProxyChild(child, parent)
                 /\ parent.header_sent \in BOOLEAN /\ child.dont_send_header \in BOOLEAN
           /\ job.kind \notin {"clip", "proxy"} => st.pc \in ReadPcs
    BY DEF IInv, Serves, ClipOK, ProxyOK

\* A step of the upstream, with what it has to keep for each kind of request.
LEMMA UpstreamKept ==
    ASSUME IInv, ~Quiet(child, parent), job' = job, st' = st, IsChild(child'),
           IsParent(parent'), IsAnswer(answer'), Unconditional(job, child'),
           job.kind = "clip" => ClipChild(job, child') /\ parent'.forwarded = child'.body,
           job.kind = "proxy" => /\ ProxyChild(child', parent')
                                 /\ parent'.header_sent \in BOOLEAN
                                 /\ child'.dont_send_header \in BOOLEAN
    PROVE  IInv'
<1>1. IsPlace(st') /\ Serves(job, child', parent', st')
    BY Active DEF IInv, Serves, ClipOK, ProxyOK
<1> QED
    BY <1>1, Kept

\* ngx_child_request_initial_wev_handler
LEMMA InitialStep ==
    ASSUME IInv, initial_wev_handler, job' = job, st' = st
    PROVE  IInv'
<1>1. PICK u \in BOOLEAN : child' = WithUpstream(child, IF u THEN "running" ELSE "refused", u)
    BY DEF initial_wev_handler, WithUpstream
<1>2. parent' = parent /\ answer' = answer /\ child.state = "posted"
    BY DEF initial_wev_handler
<1>3. ~Quiet(child, parent)
    BY <1>2 DEF Quiet
<1>4. IsChild(child) /\ IsParent(parent) /\ IsAnswer(answer) /\ Unconditional(job, child)
    BY DEF IInv
<1>5. /\ IsChild(child') /\ SameChild(child, child')
      /\ child'.state \in {"running", "refused"}
    BY <1>1, <1>4, UpstreamFields
<1>6. Unconditional(job, child')
    BY <1>4, <1>5 DEF Unconditional, SameChild
<1>7. job.kind = "clip" => ClipChild(job, child') /\ parent'.forwarded = child'.body
  <2> SUFFICES ASSUME job.kind = "clip"
               PROVE  ClipChild(job, child') /\ parent'.forwarded = child'.body
      OBVIOUS
  <2>1. ClipChild(job, child) /\ parent.forwarded = child.body
      BY <1>3, Active
  <2> QED
      BY <1>2, <1>5, <2>1 DEF ClipChild, SameChild
<1>8. job.kind # "proxy"
    BY <1>2, <1>3, Active DEF ProxyChild
<1> QED
    BY <1>2, <1>3, <1>4, <1>5, <1>6, <1>7, <1>8, UpstreamKept

\* The response of the upstream, sent, kept in memory or dropped.
LEMMA HeaderStep ==
    ASSUME IInv, NEW length, job.kind = "clip" => length \in Int, header_filter(length),
           job' = job, st' = st
    PROVE  IInv'
<1> DEFINE forwards == ~child.in_memory /\ ~parent.header_sent
<1>1. child.state = "running" /\ answer' = answer
    BY DEF header_filter
<1>2a. PICK status \in Statuses(child, length), sent \in {OK, ERROR} :
          \E size \in ContentLengths(child, status, length) :
              LET state == IF TooLarge(child, size) THEN "broken"
                           ELSE IF status = 206 THEN "body" ELSE "done"
                  body == IF ~child.in_memory /\ status = 500 THEN ErrorPage ELSE <<>>
              IN  /\ ~(forwards /\ status # 0) => sent = OK
                  /\ child' = HeaderSeen(child, status, size, state,
                                         body, forwards /\ status = 0, sent)
                  /\ parent' = Forwards(parent,
                                    parent.header_sent \/ (forwards /\ status # 0 /\ sent = OK),
                                    IF child.in_memory THEN parent.forwarded ELSE child'.body)
    BY DEF header_filter, HeaderSeen, Forwards
<1>2. PICK size \in ContentLengths(child, status, length) :
          LET state == IF TooLarge(child, size) THEN "broken"
                       ELSE IF status = 206 THEN "body" ELSE "done"
              body == IF ~child.in_memory /\ status = 500 THEN ErrorPage ELSE <<>>
          IN  /\ ~(forwards /\ status # 0) => sent = OK
              /\ child' = HeaderSeen(child, status, size, state,
                                     body, forwards /\ status = 0, sent)
              /\ parent' = Forwards(parent,
                                parent.header_sent \/ (forwards /\ status # 0 /\ sent = OK),
                                IF child.in_memory THEN parent.forwarded ELSE child'.body)
    BY <1>2a
<1> DEFINE state == IF TooLarge(child, size) THEN "broken"
                    ELSE IF status = 206 THEN "body" ELSE "done"
           body == IF ~child.in_memory /\ status = 500 THEN ErrorPage ELSE <<>>
           silent == forwards /\ status = 0
           heads == parent.header_sent \/ (forwards /\ status # 0 /\ sent = OK)
           told == IF child.in_memory THEN parent.forwarded ELSE child'.body
<1>3. /\ ~(forwards /\ status # 0) => sent = OK
      /\ child' = HeaderSeen(child, status, size, state, body, silent, sent)
      /\ parent' = Forwards(parent, heads, told)
    BY <1>2
<1>4. silent \in BOOLEAN /\ (heads \in BOOLEAN) /\ (job.kind = "clip" => size \in Int)
  <2>1. ASSUME job.kind = "clip" PROVE child.in_memory = FALSE
    <3>1. ~Quiet(child, parent)
        BY <1>1 DEF Quiet
    <3> QED
        BY <2>1, <3>1, Active DEF ClipChild
  <2>2. ASSUME job.kind = "clip" PROVE size \in Int
    <3>1. size \in ContentLengths(child, status, length)
        OBVIOUS
    <3>2. size = length \/ size = -1
        BY <2>1, <2>2, <3>1 DEF ContentLengths
    <3> QED
        BY <2>2, <3>2
  <2>3. silent \in BOOLEAN /\ (heads \in BOOLEAN)
      OBVIOUS
  <2> HIDE DEF silent, heads
  <2> QED
      BY <2>2, <2>3
<1>5. IsChild(child) /\ IsParent(parent) /\ IsAnswer(answer) /\ Unconditional(job, child)
    BY DEF IInv
<1>6. ~Quiet(child, parent)
    BY <1>1 DEF Quiet
<1> HIDE DEF state, body, silent, heads, told
<1>7. /\ IsChild(child') /\ child'.status = status /\ child'.content_length = size
      /\ child'.state = state /\ child'.body = body
      /\ child'.dont_send_header = silent /\ child'.send_header_result = sent
      /\ child'.headers = child.headers /\ child'.in_memory = child.in_memory
      /\ child'.from = child.from /\ child'.to = child.to
  <2>1. HeaderIs(child', child, status, size, state, body, silent, sent)
      BY <1>3, <1>5, HeaderFields
  <2> QED
      BY <2>1 DEF HeaderIs
<1>8. /\ IsParent(parent') /\ parent'.wev = parent.wev /\ parent'.header_sent = heads
      /\ parent'.forwarded = told
    BY <1>3, <1>5, ParentFields
<1>9. Unconditional(job, child')
    BY <1>5, <1>7 DEF Unconditional, Statuses
<1>10. ASSUME job.kind = "clip"
       PROVE  ClipChild(job, child') /\ parent'.forwarded = child'.body
  <2>1. ClipChild(job, child)
      BY <1>6, <1>10, Active
  <2>2. child.in_memory = FALSE /\ child.from = job.from /\ child.to = job.to
      BY <2>1 DEF ClipChild
  <2>3. parent'.forwarded = child'.body
      BY <1>8, <2>2 DEF told
  <2>4. BytesFrom(<<>>, job.from)
      BY DEF BytesFrom
  <2>5. /\ status = 500 => body = ErrorPage /\ state = "done"
        /\ status # 500 => body = <<>>
        /\ status = 416 => state = "done"
      BY <2>2 DEF body, state, TooLarge
  <2> QED
      BY <1>4, <1>7, <1>10, <2>2, <2>3, <2>4, <2>5 DEF ClipChild
<1>11. ASSUME job.kind = "proxy"
       PROVE  /\ ProxyChild(child', parent')
              /\ parent'.header_sent \in BOOLEAN /\ child'.dont_send_header \in BOOLEAN
  <2>1. /\ ProxyChild(child, parent) /\ parent.header_sent = FALSE
        /\ child.in_memory = FALSE /\ parent.wev # "child"
      BY <1>1, <1>6, <1>11, Active DEF ProxyChild
  <2>2. state \in {"body", "done"}
      BY <2>1 DEF state, TooLarge
  <2>3. heads \/ silent \/ sent # OK
      BY <2>1 DEF heads, silent, OK, ERROR
  <2> QED
      BY <1>4, <1>7, <1>8, <2>1, <2>2, <2>3 DEF ProxyChild, Answering
<1> QED
    BY <1>1, <1>5, <1>6, <1>7, <1>8, <1>9, <1>10, <1>11, UpstreamKept

\* A piece of the body.
LEMMA BodyStep ==
    ASSUME IInv, body_received, job' = job, st' = st
    PROVE  IInv'
<1> DEFINE l == Len(child.body)
<1>1. /\ child.state = "body" /\ answer' = answer /\ l < child.content_length
    BY DEF body_received
<1>2. PICK n \in {1, child.content_length - l} :
          child' = WithBody(child, child.body \o Range(child.from + l, child.from + l + n))
    BY DEF body_received, WithBody
<1> DEFINE body == child.body \o Range(child.from + l, child.from + l + n)
           told == IF child.in_memory THEN parent.forwarded ELSE child'.body
<1>3. child' = WithBody(child, body) /\ parent' = ForwardsBody(parent, told)
    BY <1>2 DEF body_received, ForwardsBody
<1>4. IsChild(child) /\ IsParent(parent) /\ IsAnswer(answer) /\ Unconditional(job, child)
    BY DEF IInv
<1>5. ~Quiet(child, parent)
    BY <1>1 DEF Quiet
<1> HIDE DEF body, told
<1>6. /\ IsChild(child') /\ child'.body = body
      /\ child'.state = child.state /\ child'.in_memory = child.in_memory
      /\ child'.from = child.from /\ child'.to = child.to
      /\ child'.headers = child.headers /\ child'.status = child.status
      /\ child'.content_length = child.content_length
      /\ child'.dont_send_header = child.dont_send_header
      /\ child'.send_header_result = child.send_header_result
    BY <1>3, <1>4, BodyFields
<1>7. /\ IsParent(parent') /\ parent'.wev = parent.wev
      /\ parent'.header_sent = parent.header_sent /\ parent'.forwarded = told
    BY <1>3, <1>4, ParentFields
<1>8. Unconditional(job, child')
    BY <1>4, <1>6 DEF Unconditional
<1>9. ASSUME job.kind = "clip"
      PROVE  ClipChild(job, child') /\ parent'.forwarded = child'.body
  <2>1. ClipChild(job, child)
      BY <1>5, <1>9, Active
  <2>2. /\ child.in_memory = FALSE /\ child.from = job.from /\ child.to = job.to
        /\ child.content_length \in Int
        /\ child.status # 500 /\ child.status # 416 /\ BytesFrom(child.body, job.from)
      BY <1>1, <2>1 DEF ClipChild
  <2>3. job.from \in Nat
      BY JobFacts
  <2>4. l \in Nat
      BY <2>2 DEF BytesFrom
  <2>5. n \in Nat
      BY <1>1, <2>2, <2>4
  <2> HIDE DEF l
  <2>6. BytesFrom(body, job.from)
      BY <2>2, <2>3, <2>5, MoreBytes DEF body, l
  <2>7. parent'.forwarded = child'.body
      BY <1>7, <2>2 DEF told
  <2> QED
      BY <1>6, <2>2, <2>6, <2>7 DEF ClipChild
<1>10. ASSUME job.kind = "proxy"
       PROVE  /\ ProxyChild(child', parent')
              /\ parent'.header_sent \in BOOLEAN /\ child'.dont_send_header \in BOOLEAN
  <2>1. /\ ProxyChild(child, parent)
        /\ parent.header_sent \in BOOLEAN /\ child.dont_send_header \in BOOLEAN
      BY <1>5, <1>10, Active
  <2> QED
      BY <1>1, <1>6, <1>7, <2>1 DEF ProxyChild, Answering
<1> QED
    BY <1>1, <1>4, <1>5, <1>6, <1>7, <1>8, <1>9, <1>10, UpstreamKept

\* ngx_child_request_finished_handler
LEMMA FinishedStep ==
    ASSUME IInv, finished_handler, job' = job, st' = st
    PROVE  IInv'
<1>1. PICK rc \in CompletionCodes(child) : child' = WithError(child, rc)
    BY DEF finished_handler, WithError
<1>2. /\ parent' = Handler(parent, "child") /\ answer' = answer
      /\ child.state \in {"running", "body", "done", "broken", "refused"}
    BY DEF finished_handler, Handler
<1>3. ~Quiet(child, parent)
    BY <1>2 DEF Quiet
<1>4. IsChild(child) /\ IsParent(parent) /\ IsAnswer(answer) /\ Unconditional(job, child)
    BY DEF IInv
<1>5. /\ IsChild(child') /\ child'.state = "finished" /\ child'.error_code = rc
      /\ SameChild(child, child')
    BY <1>1, <1>4, ErrorFields
<1>6. /\ IsParent(parent') /\ parent'.header_sent = parent.header_sent
      /\ parent'.forwarded = parent.forwarded
    BY <1>2, <1>4, ParentFields
<1>7. Unconditional(job, child')
    BY <1>4, <1>5 DEF Unconditional, SameChild
<1>8. ASSUME job.kind = "clip"
      PROVE  ClipChild(job, child') /\ parent'.forwarded = child'.body
  <2>1. ClipChild(job, child) /\ parent.forwarded = child.body
      BY <1>3, <1>8, Active
  <2> QED
      BY <1>5, <1>6, <2>1 DEF ClipChild, SameChild
<1>9. ASSUME job.kind = "proxy"
      PROVE  /\ ProxyChild(child', parent')
             /\ parent'.header_sent \in BOOLEAN /\ child'.dont_send_header \in BOOLEAN
  <2>1. /\ ProxyChild(child, parent)
        /\ parent.header_sent \in BOOLEAN /\ child.dont_send_header \in BOOLEAN
      BY <1>3, <1>9, Active
  <2>2. child.state = "running" => rc # OK
      BY DEF CompletionCodes, OK, BAD_GATEWAY
  <2>3. Answering(child, parent) \/ child.send_header_result # OK \/ rc # OK
      BY <1>2, <2>1, <2>2 DEF ProxyChild
  <2>4. Answering(child', parent') <=> Answering(child, parent)
      BY <1>5, <1>6 DEF Answering, SameChild
  <2> QED
      BY <1>5, <1>6, <2>1, <2>3, <2>4 DEF ProxyChild, SameChild
<1> QED
    BY <1>2, <1>3, <1>4, <1>5, <1>6, <1>7, <1>8, <1>9, UpstreamKept

\* A subrequest that left no buffer.
LEMMA NoBufferStep ==
    ASSUME IInv, no_output_buffer, job' = job, st' = st
    PROVE  IInv'
<1>1. /\ parent.wev = "child" /\ child.in_memory /\ answer' = answer
      /\ parent' = Handler(parent, "own") /\ child' = WithState(child, "lost")
    BY DEF no_output_buffer, Handler, WithState
<1>2. ~Quiet(child, parent)
    BY <1>1 DEF Quiet
<1>3. IsChild(child) /\ IsParent(parent) /\ IsAnswer(answer) /\ Unconditional(job, child)
    BY DEF IInv
<1>4. IsChild(child') /\ SameChild(child, child') /\ IsParent(parent')
    BY <1>1, <1>3, StateFields, ParentFields
<1>5. Unconditional(job, child')
    BY <1>3, <1>4 DEF Unconditional, SameChild
<1>6. job.kind # "clip" /\ job.kind # "proxy"
    BY <1>1, <1>2, Active DEF ClipChild, ProxyChild
<1> QED
    BY <1>1, <1>2, <1>3, <1>4, <1>5, <1>6, UpstreamKept

\* The steps of the subrequest and its upstream.
LEMMA UpstreamStep ==
    ASSUME IInv, UpstreamSteps
    PROVE  IInv'
<1> DEFINE length == Smaller(child.to, job.length) - Smaller(child.from, job.length)
<1>1. job' = job /\ st' = st
    BY DEF UpstreamSteps
<1>2. CASE header_filter(length)
  <2>1. ASSUME job.kind = "clip" PROVE length \in Int
    <3>1. ~Quiet(child, parent)
        BY <1>2 DEF header_filter, Quiet
    <3>2. ClipChild(job, child)
        BY <2>1, <3>1, Active
    <3> QED
        BY <3>2, JobFacts DEF ClipChild, Smaller
  <2> HIDE DEF length
  <2> QED
      BY <1>1, <1>2, <2>1, HeaderStep
<1> QED
    BY <1>1, <1>2, InitialStep, BodyStep, FinishedStep, NoBufferStep DEF UpstreamSteps

-----------------------------------------------------------------------------
(* Reads *)

\* What a read does with its child.
ChildMoves ==
    \/ UNCHANGED childVars
    \/ \E from, to, room : started(Ask(TRUE, TRUE, from, to, room, FALSE), job.client)
    \/ notify_caller

\* The child of a read that is started is asked without conditions.
LEMMA MovesKept ==
    ASSUME IInv, ChildMoves, job.kind # "proxy"
    PROVE  /\ IsChild(child') /\ IsParent(parent') /\ IsAnswer(answer')
           /\ Unconditional(job, child')
<1>1. IsChild(child) /\ IsParent(parent) /\ IsAnswer(answer) /\ Unconditional(job, child)
    BY DEF IInv
<1>2. CASE UNCHANGED childVars
    BY <1>1, <1>2 DEF childVars
<1>3. CASE \E from, to, room : started(Ask(TRUE, TRUE, from, to, room, FALSE), job.client)
  <2>1. PICK from, to, room : started(Ask(TRUE, TRUE, from, to, room, FALSE), job.client)
      BY <1>3
  <2>2. /\ child' = StartedChild(Ask(TRUE, TRUE, from, to, room, FALSE), job.client)
        /\ answer' = NoAnswer /\ parent' = parent
      BY <2>1 DEF started, StartedChild
  <2>3. IsChild(child') /\ child'.status = 0 /\ "If-Modified-Since" \notin child'.headers
    <3>1. StartedIs(child', TRUE, from, to, FALSE)
        BY <2>2, StartedFields
    <3> QED
        BY <3>1 DEF StartedIs
  <2>4. IsAnswer(answer')
    <3>1. answer' \in AnswerRec({0, OK, <<>>, FALSE})
        BY <2>2 DEF AnswerRec, NoAnswer
    <3> QED
        BY <3>1 DEF IsAnswer
  <2> QED
    <3>1. Unconditional(job, child')
        BY <2>3 DEF Unconditional
    <3> QED
        BY <1>1, <2>2, <2>3, <2>4, <3>1
<1>4. CASE notify_caller
  <2>1. /\ parent' = Handler(parent, "own") /\ child' = WithState(child, "handled")
        /\ answer' = [calls |-> answer.calls + 1, rc |-> FinalCode(child), bytes |-> Body(child),
                      finalized |-> FALSE]
      BY <1>4 DEF notify_caller, Handler, WithState
  <2>2. IsChild(child') /\ SameChild(child, child') /\ IsParent(parent')
      BY <1>1, <2>1, StateFields, ParentFields
  <2>3. IsAnswer(answer')
      BY <1>1, <2>1, AnswerFields
  <2> QED
      BY <1>1, <2>2, <2>3 DEF Unconditional, SameChild
<1> QED
    BY <1>2, <1>3, <1>4 DEF ChildMoves

\* A step of a request that reads metadata.
LEMMA ReadKept ==
    ASSUME IInv, job.kind \notin {"clip", "proxy"}, job' = job, IsPlace(st'), st'.pc \in ReadPcs,
           ChildMoves
    PROVE  IInv'
<1>1. Serves(job, child', parent', st')
    BY DEF Serves
<1> QED
    BY <1>1, MovesKept, Kept

\* Only such a request is at these places.
LEMMA Reading ==
    ASSUME IInv, st.pc \in ReadPcs, st.pc # "finalized"
    PROVE  job.kind \notin {"clip", "proxy"} /\ IsPlace(st)
    BY DEF IInv, Serves, ClipOK, ProxyOK, ReadPcs

\* The reader of the source is called.
LEMMA StartRead ==
    ASSUME IsPlace(st), NEW r, start_read(r)
    PROVE  IsPlace(st') /\ st'.pc \in ReadPcs /\ ChildMoves
<1>1. CASE job.transport = "http"
  <2>1. /\ st' = At(st, "child")
        /\ started(Ask(TRUE, TRUE, r.from, r.to,
                       r.ctx.read_buffer.end - r.ctx.read_buffer.last, FALSE), job.client)
      BY <1>1 DEF start_read, At
  <2>2. ChildMoves
      BY <2>1 DEF ChildMoves
  <2> QED
      BY <2>1, <2>2, PlaceFields DEF ReadPcs
<1>2. CASE job.transport # "http"
  <2>1. /\ \E pc \in {"read", "aio"} : st' = ReadsAt(st, pc, r.from, r.to)
        /\ UNCHANGED childVars
      BY <1>2 DEF start_read, ReadsAt
  <2> QED
      BY <2>1, PlaceFields DEF ReadPcs, ChildMoves
<1> QED
    BY <1>1, <1>2

\* The request goes on without a child.
LEMMA GoesOn ==
    ASSUME IsPlace(st), NEW pc \in ReadPcs, st' = At(st, pc)
    PROVE  IsPlace(st') /\ st'.pc \in ReadPcs
    BY PlaceFields

\* The request is finalized with an error.
LEMMA GivesUp ==
    ASSUME IsPlace(st), NEW rc, finalize(rc)
    PROVE  IsPlace(st') /\ st'.pc \in ReadPcs
    BY Finalized DEF ReadPcs

\* The end of a read.
LEMMA ReadEnds ==
    ASSUME IsPlace(st), NEW rc, NEW bytes, handle_read_completed(rc, bytes)
    PROVE  IsPlace(st') /\ st'.pc \in ReadPcs
<1>1. (\E e : finalize(e)) \/ st' = At(st, "result")
    BY DEF handle_read_completed, At
<1> QED
    BY <1>1, GoesOn, GivesUp DEF ReadPcs

\* What a reader of a format leaves.
LEMMA ReaderAsks ==
    ASSUME IsPlace(st), NEW req, NEW r, ask_for(req, r)
    PROVE  IsPlace(st') /\ st'.pc \in ReadPcs /\ ChildMoves
<1>1. \/ st' = At(st, "result") /\ UNCHANGED childVars
      \/ \E r1 : start_read(r1)
    BY DEF ask_for, At
<1> QED
    BY <1>1, GoesOn, StartRead DEF ReadPcs, ChildMoves

\* It gives up.
LEMMA ReaderFails ==
    ASSUME IsPlace(st), NEW rc, read_failed(rc)
    PROVE  IsPlace(st') /\ st'.pc \in ReadPcs /\ ChildMoves
    BY GivesUp DEF read_failed, ChildMoves

\* It has the moov.
LEMMA ReaderHas ==
    ASSUME IsPlace(st), NEW r, NEW offset, NEW size, moov_read(r, offset, size)
    PROVE  IsPlace(st') /\ st'.pc \in ReadPcs /\ ChildMoves
<1>1. (\E rc : read_failed(rc)) \/ \E x : read_done(x)
    BY DEF moov_read
<1>2. ASSUME NEW x, read_done(x) PROVE IsPlace(st') /\ st'.pc \in ReadPcs /\ ChildMoves
  <2>1. st' = At(st, "done") /\ UNCHANGED childVars
      BY <1>2 DEF read_done, At
  <2> QED
      BY <2>1, GoesOn DEF ReadPcs, ChildMoves
<1> QED
    BY <1>1, <1>2, ReaderFails

ReadSteps ==
    \/ read_file_header \/ read_in_place \/ async_read_completed \/ http_read_completed
    \/ get_async_read_result \/ identify_format \/ read_moov_header \/ read_moov_data
    \/ subtitle_read

\* The steps of a request that reads metadata.
LEMMA ReadStep ==
    ASSUME IInv, ReadSteps
    PROVE  IInv'
<1>1. st.pc \in ReadPcs /\ st.pc # "finalized" /\ job' = job
    BY DEF ReadSteps, ReadPcs, read_file_header, read_in_place, async_read_completed,
           http_read_completed, get_async_read_result, identify_format, read_moov_header,
           read_moov_data, subtitle_read
<1>2. job.kind \notin {"clip", "proxy"} /\ IsPlace(st)
    BY <1>1, Reading
<1> DEFINE Goal == IsPlace(st') /\ st'.pc \in ReadPcs /\ ChildMoves
<1>3. ASSUME read_file_header PROVE Goal
  <2>1. \E r : start_read(r)
      BY <1>3 DEF read_file_header
  <2> QED
      BY <1>2, <2>1, StartRead
<1>4. ASSUME read_in_place PROVE Goal
  <2>1. (st' = At(st, "result") \/ finalize("read_error")) /\ UNCHANGED childVars
      BY <1>4 DEF read_in_place, At
  <2> QED
      BY <1>2, <2>1, GoesOn, GivesUp DEF ReadPcs, ChildMoves
<1>5. ASSUME async_read_completed PROVE Goal
    BY <1>2, <1>5, ReadEnds DEF async_read_completed, ChildMoves
<1>6. ASSUME http_read_completed PROVE Goal
    BY <1>2, <1>6, ReadEnds DEF http_read_completed, ChildMoves
<1>7. ASSUME get_async_read_result PROVE Goal
  <2> DEFINE p == ctx.prefix_buffer
             n == IF p.start # NULL THEN Buffered(p) ELSE 0
             b == [ctx.read_buffer EXCEPT !.start = @ - n, !.pos = @ - n]
             m == IF p.start # NULL THEN Prepended(ctx.read_buffer, p) ELSE mem
             r == IF job.encrypted THEN decrypt_read_buffer(m, b) ELSE plain_read_buffer(m, b)
             skip == ctx.requested_offset - ctx.read_offset
  <2>1. /\ UNCHANGED childVars
        /\ IF r.rc # OK THEN finalize(r.rc)
           ELSE IF r.len < skip THEN finalize("bad_data")
           ELSE st' = ParsesAt(st, "parse", r.blk, r.at + skip, r.len - skip)
      BY <1>7, Zenon DEF get_async_read_result, ParsesAt
  <2> HIDE DEF p, n, b, m, r, skip
  <2>2. (\E rc : finalize(rc))
        \/ st' = ParsesAt(st, "parse", r.blk, r.at + skip, r.len - skip)
      BY <2>1
  <2> QED
      BY <1>2, <2>1, <2>2, GivesUp, PlaceFields DEF ReadPcs, ChildMoves
<1>8. ASSUME identify_format PROVE Goal
  <2>1. (\E rc : read_failed(rc)) \/ (st' = st /\ UNCHANGED childVars)
      BY <1>8 DEF identify_format
  <2> QED
      BY <1>1, <1>2, <2>1, ReaderFails DEF ChildMoves
<1>9. ASSUME read_moov_header PROVE Goal
  <2>1. \/ \E rc : read_failed(rc)
        \/ \E req, r : ask_for(req, r)
        \/ \E r, offset, size : moov_read(r, offset, size)
      BY <1>9 DEF read_moov_header
  <2> QED
      BY <1>2, <2>1, ReaderFails, ReaderAsks, ReaderHas
<1>10. ASSUME read_moov_data PROVE Goal
    BY <1>2, <1>10, ReaderFails, ReaderHas DEF read_moov_data
<1>11. ASSUME subtitle_read PROVE Goal
  <2>1. (\E req, r : ask_for(req, r)) \/ \E x : read_done(x)
      BY <1>11 DEF subtitle_read
  <2>2. ASSUME NEW x, read_done(x) PROVE Goal
    <3>1. st' = At(st, "done") /\ UNCHANGED childVars
        BY <2>2 DEF read_done, At
    <3> QED
        BY <1>2, <3>1, GoesOn DEF ReadPcs, ChildMoves
  <2> QED
      BY <1>2, <2>1, <2>2, ReaderAsks
<1>12. Goal
    BY <1>3, <1>4, <1>5, <1>6, <1>7, <1>8, <1>9, <1>10, <1>11 DEF ReadSteps
<1> QED
    BY <1>1, <1>2, <1>12, ReadKept

-----------------------------------------------------------------------------
(* Clips and requests that are handed on *)

\* No answer yet.
LEMMA FirstAnswer == IsAnswer(NoAnswer)
<1>1. NoAnswer \in AnswerRec({0, OK, <<>>, FALSE})
    BY DEF AnswerRec, NoAnswer
<1> QED
    BY <1>1 DEF IsAnswer

\* Before the child is started.
LEMMA AtDump ==
    ASSUME IInv, st.pc = "dump"
    PROVE  /\ job.kind = "clip" /\ child = NoChild /\ Quiet(child, parent)
           /\ job.from \in Nat /\ job.to \in Nat /\ job.from < job.to
           /\ parent.forwarded = <<>>
<1>1. job.kind = "clip"
    BY JobFacts DEF IInv, Serves, ProxyOK, ReadPcs
<1>2. ClipOK(job, child, parent, st)
    BY <1>1 DEF IInv, Serves
<1> QED
    BY <1>1, <1>2, JobFacts DEF ClipOK

\* ngx_http_vod_dump_http_part
LEMMA DumpHttpPart ==
    ASSUME IInv, dump_http_part
    PROVE  IInv'
<1>1. /\ st.pc = "dump" /\ job' = job /\ st' = At(st, "dumping")
      /\ started(Ask(FALSE, TRUE, job.from, job.to, 0, FALSE), job.client)
    BY DEF dump_http_part, At
<1>2. /\ child' = StartedChild(Ask(FALSE, TRUE, job.from, job.to, 0, FALSE), job.client)
      /\ answer' = NoAnswer /\ parent' = parent
    BY <1>1 DEF started, StartedChild
<1>3. StartedIs(child', FALSE, job.from, job.to, FALSE)
    BY <1>2, StartedFields
<1>4. IsPlace(st') /\ st'.pc = "dumping"
    BY <1>1, PlaceFields DEF IInv
<1>5. /\ IsChild(child') /\ child'.status = 0 /\ "If-Modified-Since" \notin child'.headers
      /\ child'.body = <<>> /\ child'.in_memory = FALSE /\ child'.content_length = -1
      /\ job.from < job.to => child'.from = job.from /\ child'.to = job.to
    BY <1>3 DEF StartedIs
<1>6. job.kind = "clip" /\ job.from < job.to
    BY <1>1, AtDump
<1>7. BytesFrom(<<>>, job.from)
    BY DEF BytesFrom
<1>8. ClipChild(job, child')
    BY <1>5, <1>6, <1>7 DEF ClipChild
<1>9. ClipOK(job, child', parent', st')
    BY <1>1, <1>2, <1>4, <1>5, <1>8, AtDump DEF ClipOK
<1>10. Serves(job, child', parent', st') /\ Unconditional(job, child')
    BY <1>5, <1>6, <1>9 DEF Serves, Unconditional
<1> QED
    BY <1>1, <1>2, <1>4, <1>5, <1>10, FirstAnswer, Kept DEF IInv

\* ngx_file_reader_dump_file_part
LEMMA DumpFilePart ==
    ASSUME IInv, dump_file_part
    PROVE  IInv'
<1>1. st.pc = "dump" /\ job' = job /\ child' = child /\ answer' = answer
    BY DEF dump_file_part
<1>2. /\ job.kind = "clip" /\ child = NoChild /\ Quiet(child, parent)
      /\ job.from \in Nat /\ job.to \in Nat /\ job.from < job.to
    BY <1>1, AtDump
<1>3. IsChild(child) /\ IsParent(parent) /\ IsAnswer(answer) /\ Unconditional(job, child)
      /\ IsPlace(st)
    BY DEF IInv
<1>4. \/ finalize("not_found") /\ parent' = parent
      \/ finalize(OK) /\ parent' = ForwardsBody(parent, Range(job.from, job.to))
    BY DEF dump_file_part, ForwardsBody
<1>5. /\ IsPlace(st') /\ st'.pc = "finalized" /\ IsParent(parent') /\ parent'.wev = parent.wev
      /\ st'.rc = OK => parent'.forwarded = Range(job.from, job.to)
  <2>1. CASE finalize("not_found") /\ parent' = parent
    <3>1. IsPlace(st') /\ st'.pc = "finalized" /\ st'.rc = "not_found"
        BY <1>3, <2>1, Finalized
    <3> QED
        BY <1>3, <2>1, <3>1 DEF OK
  <2>2. CASE finalize(OK) /\ parent' = ForwardsBody(parent, Range(job.from, job.to))
    <3>1. IsPlace(st') /\ st'.pc = "finalized"
        BY <1>3, <2>2, Finalized
    <3> QED
        BY <1>3, <2>2, <3>1, ParentFields
  <2> QED
      BY <1>4, <2>1, <2>2
<1>6. Len(Range(job.from, job.to)) = job.to - job.from
    BY <1>2 DEF Range
<1>7. ClipOK(job, child', parent', st')
    BY <1>1, <1>2, <1>5, <1>6 DEF ClipOK, Quiet, ClipSent
<1>8. Serves(job, child', parent', st')
    BY <1>2, <1>7 DEF Serves
<1> QED
    BY <1>1, <1>3, <1>5, <1>8, Kept

\* ngx_http_vod_handle_read_completed in STATE_DUMP_FILE_PART
LEMMA DumpCompleted ==
    ASSUME IInv, dump_completed
    PROVE  IInv'
<1> DEFINE rc == FinalCode(child)
           code == IF rc # OK THEN rc
                   ELSE IF ~PartComplete(Body(child)) THEN "bad_data" ELSE OK
<1>1. /\ st.pc = "dumping" /\ job' = job /\ parent.wev = "child"
      /\ parent' = Handler(parent, "own") /\ child' = WithState(child, "handled")
      /\ answer' = [calls |-> answer.calls + 1, rc |-> rc, bytes |-> Body(child),
                    finalized |-> FALSE]
    BY DEF dump_completed, notify_caller, Handler, WithState
<1>2. finalize(IF answer'.rc # OK THEN answer'.rc
               ELSE IF ~PartComplete(answer'.bytes) THEN "bad_data" ELSE OK)
    BY DEF dump_completed
<1>3. answer'.rc = rc /\ answer'.bytes = Body(child)
    BY <1>1
<1>4. finalize(code)
    BY <1>2, <1>3
<1>5. code = OK => Len(Body(child)) = job.to - job.from
    BY DEF PartComplete, OK
<1> HIDE DEF rc, code
<1>6. IsChild(child) /\ IsParent(parent) /\ IsAnswer(answer) /\ Unconditional(job, child)
      /\ IsPlace(st)
    BY DEF IInv
<1>7. job.kind = "clip" /\ ClipChild(job, child) /\ parent.forwarded = child.body
  <2>1. job.kind = "clip"
      BY <1>1, JobFacts DEF IInv, Serves, ProxyOK, ReadPcs
  <2> QED
      BY <1>1, <2>1 DEF IInv, Serves, ClipOK
<1>8. /\ IsChild(child') /\ SameChild(child, child') /\ child'.state = "handled"
      /\ IsParent(parent') /\ parent'.wev = "own" /\ parent'.forwarded = parent.forwarded
    BY <1>1, <1>6, StateFields, ParentFields
<1>9. IsAnswer(answer')
    BY <1>1, <1>6, AnswerFields
<1>10. IsPlace(st') /\ st'.pc = "finalized" /\ st'.rc = code
    BY <1>4, <1>6, Finalized
<1>11. Body(child) = child.body
    BY <1>7 DEF Body, ClipChild
<1>12. ASSUME code = OK PROVE ClipSent(job, child', parent')
  <2>1. Len(child.body) = job.to - job.from
      BY <1>5, <1>11, <1>12
  <2>2. /\ job.from \in Nat /\ job.to \in Nat /\ job.from < job.to
      BY <1>7, JobFacts
  <2>3. ASSUME child.status # 500 PROVE child.body = Range(job.from, job.to)
    <3>1. BytesFrom(child.body, job.from)
        BY <1>7, <2>3 DEF ClipChild
    <3> QED
        BY <2>1, <2>2, <3>1, AllBytes
  <2> QED
      BY <1>7, <1>8, <2>1, <2>3 DEF ClipSent, SameChild
<1>13. ClipOK(job, child', parent', st')
    BY <1>8, <1>10, <1>12 DEF ClipOK, Quiet
<1>14. Serves(job, child', parent', st') /\ Unconditional(job, child')
    BY <1>6, <1>7, <1>8, <1>13 DEF Serves, Unconditional, SameChild
<1> QED
    BY <1>1, <1>8, <1>9, <1>10, <1>14, Kept

\* ngx_http_vod_dump_http_request
LEMMA DumpHttpRequest ==
    ASSUME IInv, dump_http_request
    PROVE  IInv'
<1>1. /\ st.pc = "proxy" /\ job' = job /\ st' = At(st, "proxied")
      /\ started(Ask(FALSE, FALSE, 0, 0, 0, TRUE), job.client)
    BY DEF dump_http_request, At
<1>2. /\ child' = StartedChild(Ask(FALSE, FALSE, 0, 0, 0, TRUE), job.client)
      /\ answer' = NoAnswer /\ parent' = parent
    BY <1>1 DEF started, StartedChild
<1>3. StartedIs(child', FALSE, 0, 0, TRUE)
    BY <1>2, StartedFields
<1>4. IsPlace(st') /\ st'.pc = "proxied"
    BY <1>1, PlaceFields DEF IInv
<1>5. /\ IsChild(child') /\ child'.state = "running" /\ child'.in_memory = FALSE
      /\ child'.dont_send_header = FALSE
    BY <1>3 DEF StartedIs
<1>6. job.kind = "proxy" /\ ProxyOK(child, parent, st)
  <2>1. job.kind = "proxy"
      BY <1>1, JobFacts DEF IInv, Serves, ClipOK, ReadPcs
  <2> QED
      BY <2>1 DEF IInv, Serves
<1>7. parent.header_sent = FALSE /\ parent.wev = "own"
    BY <1>1, <1>6 DEF ProxyOK, Quiet
<1>8. ProxyOK(child', parent', st')
    BY <1>2, <1>4, <1>5, <1>7 DEF ProxyOK, ProxyChild
<1>9. Serves(job, child', parent', st') /\ Unconditional(job, child')
    BY <1>6, <1>8 DEF Serves, Unconditional
<1> QED
    BY <1>1, <1>2, <1>4, <1>5, <1>9, FirstAnswer, Kept DEF IInv

Told(a, rc) == [a EXCEPT !.calls = a.calls + 1, !.rc = rc, !.finalized = TRUE]

\* What the parent is finalized with.
LEMMA ToldFields ==
    ASSUME NEW a, IsAnswer(a), NEW rc
    PROVE  IsAnswer(Told(a, rc)) /\ Told(a, rc).rc = rc
<1>1. PICK V : a \in AnswerRec(V)
    BY DEF IsAnswer
<1> DEFINE n == a.calls + 1
<1> HIDE DEF n
<1>2. Told(a, rc) = [a EXCEPT !.calls = n, !.rc = rc, !.finalized = TRUE]
    BY DEF Told, n
<1>3. Told(a, rc) \in AnswerRec(V \cup {n, rc, TRUE}) /\ Told(a, rc).rc = rc
    BY <1>1, <1>2 DEF AnswerRec
<1> QED
    BY <1>3 DEF IsAnswer

\* A header, or the code of an error.
LEMMA HeaderOrError ==
    ASSUME NEW c, NEW p, ProxyChild(c, p), c.state = "finished"
    PROVE  FinalizeCode(c, p) = OK <=> Answering(c, p)
<1>1. CASE Answering(c, p)
    BY <1>1, Zenon DEF FinalizeCode, Answering
<1>2. CASE ~Answering(c, p)
  <2>1. FinalizeCode(c, p) = FinalCode(c)
      BY <1>2, Zenon DEF FinalizeCode, Answering
  <2>2. c.in_memory = FALSE /\ (c.send_header_result # OK \/ c.error_code # OK)
      BY <1>2, Zenon DEF ProxyChild
  <2>3. FinalCode(c) # OK
      BY <2>2 DEF FinalCode, OK, ERROR, BAD_GATEWAY
  <2> QED
      BY <1>2, <2>1, <2>3
<1> QED
    BY <1>1, <1>2

\* "flush the buffer and close the request"
LEMMA DumpFinished ==
    ASSUME IInv, dump_finished
    PROVE  IInv'
<1> DEFINE code == FinalizeCode(child, parent)
           last == parent.header_sent \/ child.dont_send_header
<1>1. /\ st.pc = "proxied" /\ job' = job /\ parent.wev = "child"
      /\ parent' = Closed(parent, code, last) /\ child' = WithState(child, "handled")
      /\ answer' = Told(answer, code)
    BY DEF dump_finished, finalize_parent, Closed, WithState, Told
<1>2. IsChild(child) /\ IsParent(parent) /\ IsAnswer(answer) /\ IsPlace(st)
    BY DEF IInv
<1>3. job.kind = "proxy" /\ ProxyOK(child, parent, st)
  <2>1. job.kind = "proxy"
      BY <1>1, JobFacts DEF IInv, Serves, ClipOK, ReadPcs
  <2> QED
      BY <2>1 DEF IInv, Serves
<1>4. ProxyChild(child, parent) /\ child.state = "finished"
    BY <1>1, <1>3 DEF ProxyOK, ProxyChild
<1>5. code = OK <=> Answering(child, parent)
    BY <1>4, HeaderOrError
<1> HIDE DEF code, last
<1>6. IsAnswer(answer') /\ answer'.rc = code
    BY <1>1, <1>2, ToldFields
<1>7. IsPlace(st') /\ st'.pc = "finalized" /\ st'.rc = code
  <2>1. finalize(answer'.rc)
      BY DEF dump_finished
  <2>2. IsPlace(st') /\ st'.pc = "finalized" /\ st'.rc = answer'.rc
      BY <1>2, <2>1, Finalized
  <2> QED
      BY <1>6, <2>2
<1>8. IsChild(child') /\ child'.state = "handled" /\ SameChild(child, child')
    BY <1>1, <1>2, StateFields
<1>9. IsParent(parent') /\ parent'.wev = "own" /\ parent'.header_sent = parent.header_sent
    BY <1>1, <1>2, ParentFields
<1>10. ProxyOK(child', parent', st')
    BY <1>3, <1>5, <1>7, <1>8, <1>9, Zenon DEF ProxyOK, Quiet, Answering, SameChild
<1>11. Serves(job, child', parent', st') /\ Unconditional(job, child')
    BY <1>3, <1>10 DEF Serves, Unconditional
<1> QED
    BY <1>1, <1>6, <1>7, <1>8, <1>9, <1>11, Kept

-----------------------------------------------------------------------------
(* The theorems *)

\* The request for a job starts within the invariant.
LEMMA InitOK == Init => IInv
<1> SUFFICES ASSUME NEW j \in Jobs, InitJob(j) PROVE IInv
    BY DEF Init
<1>1. /\ job = j /\ child = NoChild /\ answer = NoAnswer
      /\ parent = [NoParent EXCEPT !.header_sent = j.kind = "clip"]
    BY DEF InitJob
<1>2. j \in Job
    BY JobsAssumption
<1>3. IsChild(child) /\ Unconditional(job, child)
  <2>1. NoChild \in ChildRec({"none", FALSE, 0, {}, -1, <<>>, OK})
      BY DEF NoChild, ChildRec
  <2>2. NoChild.headers = {} /\ NoChild.status = 0
      BY DEF NoChild
  <2>3. IsChild(NoChild)
      BY <2>1 DEF IsChild
  <2> QED
      BY <1>1, <2>2, <2>3 DEF Unconditional
<1>4. /\ IsParent(parent) /\ parent.wev = "own" /\ parent.forwarded = <<>>
      /\ parent.header_sent = (j.kind = "clip")
  <2> DEFINE clip == j.kind = "clip"
             V == {"own", clip, <<>>, FALSE, OK}
  <2>1. /\ parent = [wev |-> "own", ctx |-> "own", header_sent |-> clip, forwarded |-> <<>>,
                     last |-> FALSE, rc |-> OK]
      BY <1>1 DEF NoParent
  <2> HIDE DEF clip
  <2>2. /\ parent \in ParentRec(V) /\ parent.wev = "own" /\ parent.forwarded = <<>>
        /\ parent.header_sent = clip
      BY <2>1 DEF ParentRec
  <2> QED
      BY <2>2 DEF IsParent, clip
<1>5. IsPlace(st) /\ st.pc = IF j.kind = "clip" THEN "dump"
                             ELSE IF j.kind = "proxy" THEN "proxy" ELSE "open"
  <2> DEFINE at == IF j.kind = "clip" THEN "dump" ELSE IF j.kind = "proxy" THEN "proxy" ELSE "open"
  <2>1. st = [pc |-> at, rc |-> OK, from |-> 0, to |-> 0, blk |-> 0, at |-> 0, len |-> 0]
      BY DEF InitJob
  <2> HIDE DEF at
  <2>2. st \in PlaceRec({at, OK, 0}) /\ st.pc = at
      BY <2>1 DEF PlaceRec
  <2> QED
      BY <2>2 DEF IsPlace, at
<1>6. Serves(job, child, parent, st)
  <2>1. NoChild.state = "none" /\ NoChild.dont_send_header = FALSE
      BY DEF NoChild
  <2>2. CASE j.kind = "clip"
    <3>1. ClipOK(job, child, parent, st)
        BY <1>1, <1>4, <1>5, <2>1, <2>2 DEF ClipOK, Quiet
    <3> QED
        BY <1>1, <2>2, <3>1 DEF Serves
  <2>3. CASE j.kind = "proxy"
    <3>1. parent.header_sent = FALSE
        BY <1>4, <2>3
    <3>2. ProxyOK(child, parent, st)
        BY <1>1, <1>4, <1>5, <2>1, <2>3, <3>1 DEF ProxyOK, Quiet
    <3> QED
        BY <1>1, <2>3, <3>2 DEF Serves
  <2>4. CASE j.kind \notin {"clip", "proxy"}
      BY <1>1, <1>5, <2>4 DEF Serves, ReadPcs
  <2> QED
      BY <2>2, <2>3, <2>4
<1> QED
    BY <1>1, <1>3, <1>4, <1>5, <1>6, FirstAnswer DEF IInv

\* Every step keeps the invariant.
LEMMA NextOK == IInv /\ [Next]_vars => IInv'
<1> SUFFICES ASSUME IInv, [Next]_vars PROVE IInv'
    OBVIOUS
<1>1. CASE ReadSteps
    BY <1>1, ReadStep
<1>2. CASE dump_http_part
    BY <1>2, DumpHttpPart
<1>3. CASE dump_file_part
    BY <1>3, DumpFilePart
<1>4. CASE dump_completed
    BY <1>4, DumpCompleted
<1>5. CASE dump_http_request
    BY <1>5, DumpHttpRequest
<1>6. CASE dump_finished
    BY <1>6, DumpFinished
<1>7. CASE UpstreamSteps
    BY <1>7, UpstreamStep
<1>8. CASE UNCHANGED vars
  <2>1. UNCHANGED <<job, child, parent, answer, st>>
      BY <1>8 DEF vars, childVars
  <2> QED
      BY <2>1, Kept DEF IInv
<1>9. CASE Finished
    BY <1>8, <1>9 DEF Finished
<1> QED
    BY <1>1, <1>2, <1>3, <1>4, <1>5, <1>6, <1>7, <1>8, <1>9 DEF Next, Steps, ReadSteps

\* Whatever the files, ranges and headers of the clients are: a child that fetches a clip has
\* only ever forwarded bytes of the range in their order, a child that a request was handed to
\* has sent a header or has an error to report, and no read is conditional
\* (ngx_child_request_copy_headers, _header_filter, _finished_handler and _wev_handler).
THEOREM Invariance == Spec => []IInv
<1>1. Init => IInv
    BY InitOK
<1>2. IInv /\ [Next]_vars => IInv'
    BY NextOK
<1> QED
    BY <1>1, <1>2, PTL DEF Spec

\* The client is served, for all files, ranges and headers.  A clip that ends well has all the
\* bytes that its header announced, those of the range unless the upstream sent an error page
\* (the size check of ngx_http_vod_handle_read_completed, ngx_file_reader_dump_file_part); a
\* request that is handed to the upstream gets one header, from the upstream or from
\* ngx_http_finalize_request (the end of ngx_child_request_wev_handler); a read is never
\* answered with "not modified" (the hide list of ngx_child_request_copy_headers).
THEOREM ClientIsServed == Spec => []ClientServed
<1>1. IInv => ClientServed
  <2> SUFFICES ASSUME IInv PROVE ClientServed
      OBVIOUS
  <2>1. job.kind = "clip" => ClipOK(job, child, parent, st)
      BY DEF IInv, Serves
  <2>2. job.kind = "proxy" => ProxyOK(child, parent, st)
      BY DEF IInv, Serves
  <2>3. Unconditional(job, child)
      BY DEF IInv
  <2>4. st.pc = "finalized" /\ st.rc = OK /\ job.kind = "clip" => ClipSent(job, child, parent)
      BY <2>1 DEF ClipOK
  <2>5. st.pc = "finalized" /\ job.kind = "proxy" => (st.rc = OK <=> Answering(child, parent))
      BY <2>2, Zenon DEF ProxyOK
  <2>6. child.status = 304 => job.kind = "proxy"
      BY <2>3 DEF Unconditional
  <2> QED
      BY <2>4, <2>5, <2>6, Zenon DEF ClientServed, ClipSent, Answering
<1> QED
    BY <1>1, Invariance, PTL
=============================================================================
