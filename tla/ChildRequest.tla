---------------------------- MODULE ChildRequest ----------------------------
(***************************************************************************)
(* ngx_child_http_request.c: a vod request (the parent) has a subrequest   *)
(* (the child) fetch something from an upstream.  The response goes to a   *)
(* buffer in memory, or straight to the client of the parent; at the end   *)
(* the parent is called back, or finalized.                                *)
(*                                                                         *)
(* nginx drives both requests with their write event handlers.  The child  *)
(* cannot call the parent from its own completion: it puts a handler and   *)
(* its own context in the place of the parent's, and the parent is posted. *)
(*                                                                         *)
(* A byte of a response is the offset of the remote file it comes from.    *)
(***************************************************************************)
EXTENDS Integers, Sequences

CONSTANTS
    MaxHeadersSize      \* max_upstream_headers_size

ASSUME ChildAssumption == MaxHeadersSize \in Nat

OK == "OK"
ERROR == "NGX_ERROR"
BAD_GATEWAY == "NGX_HTTP_BAD_GATEWAY"

VARIABLES
    child,      \* ngx_child_request_context_t with the subrequest and its upstream
    parent,     \* ngx_http_request_t of the parent, as far as the child changes it
    answer      \* what the parent was told: the callback's arguments

childVars == <<child, parent, answer>>

NoAnswer == [calls |-> 0, rc |-> OK, bytes |-> <<>>, finalized |-> FALSE]

NoChild ==
    [state |-> "none", in_memory |-> FALSE, callback |-> FALSE, from |-> 0, to |-> 0, room |-> 0,
     proxy |-> FALSE, headers |-> {}, upstream |-> FALSE, out |-> FALSE, status |-> 0, content_length |-> -1, body |-> <<>>,
     error_code |-> OK, dont_send_header |-> FALSE, send_header_result |-> OK]

NoParent == [wev |-> "own", ctx |-> "own", header_sent |-> FALSE, forwarded |-> <<>>,
             last |-> FALSE, rc |-> OK]

ChildInit == child = NoChild /\ parent = NoParent /\ answer = NoAnswer

Range(from, to) == [i \in 1 .. to - from |-> from + i - 1]
Smaller(a, b) == IF a < b THEN a ELSE b

-----------------------------------------------------------------------------
(* ngx_child_request_start *)

\* What a caller passes: where the response goes, which range is asked for, and whether the
\* request of the client is handed on as it is (proxy_range, proxy_all_headers).
Ask(in_memory, callback, from, to, room, proxy) ==
    [NoChild EXCEPT !.in_memory = in_memory, !.callback = callback, !.from = from, !.to = to,
                    !.room = room, !.proxy = proxy]

hide_headers == {"Accept", "Accept-Charset", "Accept-Datetime", "Accept-Encoding", "Accept-Language",
                 "If-Match", "If-Modified-Since", "If-None-Match", "If-Range", "If-Unmodified-Since"}

\* "set the range if needed"
RangeHeader(c, client) ==
    IF c.from < c.to THEN [c EXCEPT !.headers = @ \cup {"Range"}]
    ELSE [c EXCEPT !.from = client.from, !.to = client.to]

\* Mutant: the client's conditional headers reach the upstream.
copy_headers_all(c, client) ==
    [c EXCEPT !.headers = client.headers \cup (IF c.from < c.to THEN {"Range"} ELSE {})]

\* ngx_child_request_copy_headers: the headers of the client without those of the hide list,
\* and with the range that is asked for in the place of the client's.
copy_headers(c, client) ==
    LET keep == {h \in client.headers : /\ h = "Range" => c.proxy \/ c.from < c.to
                                        /\ c.proxy \/ h \notin hide_headers}
    IN  RangeHeader([c EXCEPT !.headers = keep], client)

\* Mutant: the buffer is not injected.
InitialHandler_always(c) == "running"

\* "change the write_event_handler in order to inject the response buffer"
InitialHandler(c) == IF c.in_memory THEN "posted" ELSE "running"

\* NGX_AGAIN: the subrequest was created.
started(c, client) ==
    /\ child' = [copy_headers(c, client) EXCEPT !.state = InitialHandler(c)]
    /\ answer' = NoAnswer
    /\ UNCHANGED parent

-----------------------------------------------------------------------------
(* The subrequest and its upstream *)

\* ngx_child_request_initial_wev_handler: the location's handler runs; when it has created an
\* upstream that has not received anything, the response buffer is put in its place.
initial_wev_handler ==
    /\ child.state = "posted"
    /\ \E upstream \in BOOLEAN :
         child' = [child EXCEPT !.state = IF upstream THEN "running" ELSE "refused",
                                !.upstream = upstream, !.out = upstream]
    /\ UNCHANGED <<parent, answer>>

\* The upstream's response: the content, nothing in the range, an error, no change if it was
\* asked for, or no status line at all, which the proxy module takes for HTTP/0.9.
Statuses(c, length) ==
    {500, 0} \cup (IF length > 0 THEN {206} ELSE {416})
             \cup (IF "If-Modified-Since" \in c.headers THEN {304} ELSE {})

ErrorPage == <<-1>>

\* The content length that an upstream announces: that of the range, or of an error page, which is
\* looked at only when it goes to the buffer in memory, where it may fit (-1) or not.
ContentLengths(c, status, length) ==
    IF status = 206 THEN {length}
    ELSE {-1} \cup (IF c.in_memory /\ status \in {416, 500} THEN {c.room + 1} ELSE {})

\* "upstream buffer is too small to read response", whatever the status is
TooLarge(c, size) == c.in_memory /\ size > c.room

\* ngx_child_request_header_filter: the header of a response that is not kept in memory
\* is sent to the client as the parent's, unless the parent has sent its own.
header_filter(length) ==
    /\ child.state = "running"
    /\ \E status \in Statuses(child, length), sent \in {OK, ERROR} :
       \E size \in ContentLengths(child, status, length) :
         LET forwards == ~child.in_memory /\ ~parent.header_sent
         IN  /\ ~(forwards /\ status # 0) => sent = OK
             /\ child' = [child EXCEPT
                    !.upstream = TRUE, !.status = status, !.content_length = size,
                    !.state = IF TooLarge(child, size) THEN "broken"
                              ELSE IF status = 206 THEN "body" ELSE "done",
                    !.body = IF ~child.in_memory /\ status = 500 THEN ErrorPage ELSE <<>>,
                    !.dont_send_header = forwards /\ status = 0,
                    !.send_header_result = sent]
             /\ parent' = [parent EXCEPT
                    !.header_sent = @ \/ (forwards /\ status # 0 /\ sent = OK),
                    !.forwarded = IF child.in_memory THEN @ ELSE child'.body]
    /\ UNCHANGED answer

\* A piece of the body arrives, in the buffer or through the output filters of the parent.
body_received ==
    /\ child.state = "body"
    /\ Len(child.body) < child.content_length
    /\ \E n \in {1, child.content_length - Len(child.body)} :
         child' = [child EXCEPT !.body = @ \o Range(child.from + Len(@), child.from + Len(@) + n)]
    /\ parent' = [parent EXCEPT !.forwarded = IF child.in_memory THEN @ ELSE child'.body]
    /\ UNCHANGED answer

\* What nginx finalizes the subrequest with: the upstream ends, breaks off, never answers.
CompletionCodes(c) ==
    CASE c.state = "body" -> IF Len(c.body) = c.content_length THEN {OK} ELSE {OK, ERROR, BAD_GATEWAY}
      [] c.state = "done" -> {OK}
      [] c.state = "running" -> {BAD_GATEWAY, "NGX_HTTP_GATEWAY_TIME_OUT"}
      [] c.state = "broken" -> {ERROR}
      [] c.state = "refused" -> {"NGX_HTTP_NOT_FOUND"}

\* ngx_child_request_finished_handler
finished_handler ==
    /\ child.state \in {"running", "body", "done", "broken", "refused"}
    /\ \E rc \in CompletionCodes(child) :
         child' = [child EXCEPT !.state = "finished", !.error_code = rc]
    /\ parent' = [parent EXCEPT !.wev = "child", !.ctx = "child"]
    /\ UNCHANGED answer

-----------------------------------------------------------------------------
(* ngx_child_request_wev_handler, called as the write event handler of the parent *)

\* Mutant: a response that was cut off counts as complete.
BodyCode_unchecked(c) ==
    IF c.status = 206 \/ c.status = 416 THEN OK ELSE BAD_GATEWAY

\* The status of a response in memory: "upstream connection was closed with %O bytes left
\* to read", "treat it like a successful read with empty body", "bad status".
BodyCode(c) ==
    CASE c.status = 206 -> IF c.content_length > 0 /\ c.content_length # Len(c.body)
                           THEN BAD_GATEWAY ELSE OK
      [] c.status = 416 -> OK
      [] OTHER -> BAD_GATEWAY

\* "get the final error code"
FinalCode(c) ==
    IF c.send_header_result # OK THEN c.send_header_result
    ELSE IF c.error_code = OK /\ c.in_memory /\ c.upstream THEN BodyCode(c)
    ELSE IF c.error_code = ERROR THEN BAD_GATEWAY
    ELSE c.error_code

Body(c) == IF c.status = 416 THEN <<>> ELSE c.body

\* "unexpected, output buffer is null": nobody is told.
no_output_buffer ==
    /\ parent.wev = "child"
    /\ child.in_memory /\ ~child.out
    /\ parent' = [parent EXCEPT !.wev = "own", !.ctx = "own"]
    /\ child' = [child EXCEPT !.state = "lost"]
    /\ UNCHANGED answer

notify_caller ==
    /\ parent.wev = "child"
    /\ child.in_memory => child.out
    /\ child.callback
    /\ parent' = [parent EXCEPT !.wev = "own", !.ctx = "own"]
    /\ answer' = [calls |-> answer.calls + 1, rc |-> FinalCode(child), bytes |-> Body(child),
                  finalized |-> FALSE]
    /\ child' = [child EXCEPT !.state = "handled"]

\* Mutant: the code of the child is used although a header was sent.
FinalizeCode_plain(c, p) == FinalCode(c)

\* "flush the buffer and close the request"
FinalizeCode(c, p) == IF p.header_sent \/ c.dont_send_header THEN OK ELSE FinalCode(c)

finalize_parent ==
    /\ parent.wev = "child"
    /\ ~child.callback
    /\ parent' = [parent EXCEPT !.wev = "own", !.ctx = "own", !.rc = FinalizeCode(child, parent),
                                !.last = parent.header_sent \/ child.dont_send_header]
    /\ answer' = [answer EXCEPT !.calls = @ + 1, !.rc = FinalizeCode(child, parent), !.finalized = TRUE]
    /\ child' = [child EXCEPT !.state = "handled"]

=============================================================================
