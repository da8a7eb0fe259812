----------------------------- MODULE RequestFlow -----------------------------
(***************************************************************************)
(* The request state machines of ngx_http_vod_module.c.                    *)
(*                                                                         *)
(* A request is served by event handlers: the content handler, and the     *)
(* callbacks of file opens, reads and subrequests.  Each handler runs a    *)
(* state machine until it returns; NGX_AGAIN means that an operation is    *)
(* outstanding and its callback will run the state machine again, from the *)
(* case that ctx->state names.  In mapped mode the machines that map uris, *)
(* dynamic clips and source clips run before the main one.                 *)
(*                                                                         *)
(* The program counter pc is live only inside a handler: "map" and "main"  *)
(* are the switch statements on ctx.state, and what a handler remembers    *)
(* while it waits is in ctx, src and rq alone.  The contents of files,     *)
(* mappings and responses are abstracted to what decides control: every    *)
(* call to a parser, a reader or nginx may return each of its results.     *)
(***************************************************************************)
EXTENDS Integers, Sequences, FiniteSets, SequencesExt

CONSTANTS
    Configurations,     \* what is configured and requested, see Configuration
    MediaSets,          \* what a mapping may replace the media set by
    MaxSources,         \* bound: clip sources of a request
    MaxReads,           \* bound: further reads that parsers and muxers ask for
    MaxStaleRetries     \* MAX_STALE_RETRIES

VARIABLES
    conf,               \* the configuration and the parsed uri
    ctx,                \* ngx_http_vod_ctx_t
    src,                \* the clip sources
    rq,                 \* ngx_http_request_t
    op,                 \* the operation that is outstanding
    pc                  \* where the running handler is

vars == <<conf, ctx, src, rq, op, pc>>

-----------------------------------------------------------------------------
(* Types *)

\* kind: "manifest" and "segment" requests have ctx->request; "clip" and "serve"
\* are progressive downloads, of a part or of the whole file.
Configuration ==
    [mode: {"local", "mapped", "remote"},
     kind: {"manifest", "segment", "clip", "serve"},
     head: BOOLEAN,             \* HEAD request
     uris: 1 .. MaxSources,     \* sub uris of the request
     sequences: Nat,            \* sequences that need drm info
     single_key: BOOLEAN,       \* drm_single_key
     audio: BOOLEAN,            \* audio_filtering_needed
     threads: BOOLEAN,          \* open_file_thread_pool
     aio: BOOLEAN,
     cache: BOOLEAN,            \* the metadata, mapping and drm info caches
     fallback: BOOLEAN,         \* fallback_upstream_location
     upstream: BOOLEAN,         \* upstream_location: mappings are read by http
     remote: BOOLEAN,           \* remote_upstream_location: so are mapped files
     redirect: BOOLEAN,         \* redirect_segments_url
     apply: BOOLEAN]            \* apply_dynamic_mapping

MediaSet == [sources: Nat, mapped: Nat, dynamic: Nat, notifications: Nat]

MapStates == {"MAP_INITIAL", "MAP_OPEN", "MAP_READ"}
MetadataStates == {"READ_METADATA_INITIAL", "READ_METADATA_OPEN_FILE",
                   "READ_METADATA_READ", "READ_FRAMES_OPEN_FILE", "READ_FRAMES_READ"}
MainStates == MetadataStates \cup
    {"READ_DRM_INFO", "OPEN_FILE", "FILTER_FRAMES", "PROCESS_FRAMES",
     "DUMP_OPEN_FILE", "DUMP_FILE_PART"}

Ids == 1 .. MaxSources
Mappers == {"media_set", "dynamic", "source_clip"}      \* ctx->state_machine

\* What a mapping response is for.
Item == [machine: Mappers, index: Nat]
NoItem == [machine |-> "none", index |-> 0]

Ctx == [machine: Mappers \cup {"none", "main"}, state: MapStates \cup MainStates,
        sources: Seq(Ids), mapped: Seq(Ids), dynamic: Seq({"none", "own", "other"}),
        notifications: Nat, used: 0 .. MaxSources,
        cur_source: Nat, cur_clip: Nat, cur_sequence: Nat,
        drm: SUBSET Nat, stale_retries: 0 .. MaxStaleRetries,
        allow_empty: BOOLEAN, response: Item \cup {NoItem}, empty: BOOLEAN,
        frame_processor: {"none", "filter", "segment"}, reads: 0 .. MaxReads]

Source == [uri: {"none", "own", "other"}, reader: {"none", "file", "file_fallback", "http"},
           opens: Nat, open: BOOLEAN, parsed: Nat]

Request == [count: Nat, blocked: Nat, handler: BOOLEAN, header: Nat, raw: BOOLEAN,
            body: SUBSET {"own", "fallback"}, last: BOOLEAN,
            result: {"none", "OK", "AGAIN", "ERROR", "STATUS"}]

Op == [kind: {"none", "open", "read", "dump_part", "drm", "notify", "dump"},
       http: BOOLEAN, source: 0 .. MaxSources, fallback: BOOLEAN, item: Item \cup {NoItem}]

NoOp == [kind |-> "none", http |-> FALSE, source |-> 0, fallback |-> FALSE,
         item |-> NoItem]

ASSUME FlowAssumption ==
    /\ MaxSources \in Nat /\ MaxReads \in Nat /\ MaxStaleRetries \in Nat
    /\ Configurations \subseteq Configuration
    /\ MediaSets \subseteq MediaSet

TypeOK ==
    /\ conf \in Configurations
    /\ ctx \in Ctx
    /\ src \in [Ids -> Source]
    /\ rq \in Request
    /\ op \in Op
    /\ pc \in {"start", "map", "notify", "main", "init_frames", "wait", "end", "fault"}

Progressive == conf.kind \in {"clip", "serve"}          \* ctx->request == NULL

-----------------------------------------------------------------------------
(* How handlers return.  rc is NGX_OK, NGX_AGAIN, NGX_ERROR or an HTTP     *)
(* status.                                                                 *)

\* ngx_http_finalize_request gives up the caller's count.
NginxFinalize(q, rc) ==
    [q EXCEPT !.count = @ - 1,
              !.result = IF rc = "DONE" THEN @ ELSE rc]

\* Mutant: the request is not kept for the callback.
HandlerAgain_noCount(q) == q

HandlerAgain(q) == [q EXCEPT !.count = @ + 1]

\* ngx_http_vod_finalize_request
FinalizeRequest(q, rc) ==
    NginxFinalize(q, IF q.header > 0 /\ rc # "OK" THEN "ERROR" ELSE rc)

\* The handler, or the callback, returns without waiting.
Return(c, q, rc) ==
    /\ ctx' = c
    /\ rq' = [(IF q.handler THEN NginxFinalize(q, rc) ELSE FinalizeRequest(q, rc))
                EXCEPT !.handler = FALSE]
    /\ op' = NoOp
    /\ pc' = "end"
    /\ UNCHANGED conf

\* The handler, or the callback, returns NGX_AGAIN.
Suspend(c, q, o) ==
    /\ ctx' = c
    /\ rq' = IF q.handler
             THEN [NginxFinalize(HandlerAgain(q), "DONE") EXCEPT !.handler = FALSE]
             ELSE q
    /\ op' = o
    /\ pc' = "wait"
    /\ UNCHANGED conf

Continue(c, q, label) ==
    ctx' = c /\ rq' = q /\ op' = NoOp /\ pc' = label /\ UNCHANGED conf

\* The switch that a callback enters.
Resume(c) == IF c.machine = "main" THEN "main" ELSE "map"

Block(q) == [q EXCEPT !.blocked = @ + 1]            \* an open or a read of a file
StartChild(q) == [q EXCEPT !.count = @ + 1]         \* ngx_http_subrequest

Completed(q, o) ==
    IF o.http THEN [q EXCEPT !.count = @ - 1] ELSE [q EXCEPT !.blocked = @ - 1]

SendHeader(q) == [q EXCEPT !.header = @ + 1]
SendBody(q, last) == [q EXCEPT !.body = @ \cup {"own"}, !.last = @ \/ last]
SendLast(q) == [q EXCEPT !.last = TRUE]

\* A response that is sent at once; HEAD requests get the header only.
Answer(q) == IF conf.head THEN SendHeader(q) ELSE SendBody(SendHeader(q), TRUE)

-----------------------------------------------------------------------------
(* Readers *)

\* ngx_http_vod_dump_request_to_fallback: the whole request is given to another
\* server, unless that is not configured or the request came from there.
DumpToFallback(c, q) ==
    \/ /\ conf.fallback
       /\ Suspend(c, StartChild(q), [NoOp EXCEPT !.kind = "dump", !.http = TRUE, !.fallback = TRUE])
    \/ Return(c, q, "STATUS")

\* The file is open, or it is read by http and there is nothing to open.
OpenedAtOnce(c, reader, s) ==
    /\ Continue(c, rq, Resume(c))
    /\ src' = IF s = 0 THEN src ELSE
            [src EXCEPT ![s].reader = reader, ![s].opens = @ + 1, ![s].open = TRUE]

\* ngx_file_reader_init_async: a thread opens the file.
OpenPosted(c, reader, s) ==
    /\ reader # "http" /\ conf.threads
    /\ Suspend(c, Block(rq), [NoOp EXCEPT !.kind = "open", !.source = s,
                                          !.fallback = reader = "file_fallback"])
    /\ src' = IF s = 0 THEN src ELSE
            [src EXCEPT ![s].reader = reader, ![s].opens = @ + 1]

\* reader->open of the file or http reader, for source s, 0 for a mapping.
ReaderOpen(c, reader, s) ==
    \/ OpenedAtOnce(c, reader, s)
    \/ OpenPosted(c, reader, s)
    \/ Return(c, rq, "STATUS") /\ UNCHANGED src
    \/ reader = "file_fallback" /\ DumpToFallback(c, rq) /\ UNCHANGED src

\* ctx->default_reader
default_reader ==
    IF conf.mode = "local" THEN "file_fallback"
    ELSE IF conf.mode = "remote" \/ conf.remote THEN "http" ELSE "file"

\* ngx_http_vod_open_file
open_file(c, s) == ReaderOpen(c, default_reader, s)

\* The source that a position of the list stands for.
CurSource(c) == c.sources[c.cur_source]

\* reader->read: c is the context once the buffer is there.
ReaderRead(c, reader, o) ==
    \/ /\ reader # "http"
       /\ \E empty \in IF o.item = NoItem THEN {FALSE} ELSE BOOLEAN :
            Continue([c EXCEPT !.empty = empty, !.response = o.item], rq, Resume(c))
    \/ reader # "http" /\ conf.aio /\ Suspend(c, Block(rq), o)
    \/ reader = "http" /\ Suspend(c, StartChild(rq), [o EXCEPT !.http = TRUE])
    \/ Return(c, rq, "ERROR")

After(list, i) == IF i < Len(list) THEN i + 1 ELSE 0
First(list) == IF list = <<>> THEN 0 ELSE 1

-----------------------------------------------------------------------------
(* ngx_http_vod_handler and the start of the main state machine *)

\* ngx_http_vod_start_processing_media_file
start_processing_media_file(c) ==
    LET m == [c EXCEPT !.machine = "main", !.cur_source = First(c.sources)]
    IN
    \/ /\ conf.kind = "serve"
       /\ open_file([m EXCEPT !.state = "DUMP_OPEN_FILE"], CurSource(m))
    \/ /\ conf.kind # "serve"
       /\ Continue([m EXCEPT !.cur_sequence = 1,
                             !.state = IF conf.sequences > 0 THEN "READ_DRM_INFO"
                                       ELSE "READ_METADATA_INITIAL"], rq, "main")
       /\ UNCHANGED src
    \/ conf.kind # "serve" /\ Return(m, rq, "STATUS") /\ UNCHANGED src

\* The request is refused, or it is an OPTIONS request.
handler_answers ==
    /\ pc = "start"
    /\ Return(ctx, rq, "STATUS") \/ Return(ctx, Answer(rq), "OK")
    /\ UNCHANGED src

\* The response of a manifest is in the response cache.
response_cached ==
    /\ pc = "start"
    /\ conf.cache /\ conf.kind = "manifest"
    /\ Return(ctx, Answer(rq), "OK")
    /\ UNCHANGED src

local_request_handler ==
    /\ pc = "start"
    /\ conf.mode = "local"
    /\ start_processing_media_file(ctx)

remote_request_handler ==
    /\ pc = "start"
    /\ conf.mode = "remote"
    /\ start_processing_media_file(ctx)

\* ngx_http_vod_mapped_request_handler
mapped_request_handler ==
    /\ pc = "start"
    /\ conf.mode = "mapped"
    /\ Continue([ctx EXCEPT !.machine = "media_set",
                            !.stale_retries = IF conf.upstream THEN 0 ELSE MaxStaleRetries],
                rq, "map")
    /\ UNCHANGED src

-----------------------------------------------------------------------------
(* Mapping: ngx_http_vod_map_run_step and the machines that call it *)

CurItem(c) ==
    [machine |-> c.machine,
     index |-> IF c.machine = "media_set" THEN c.cur_source ELSE c.cur_clip]

NewIds(c, n) == [i \in 1 .. n |-> c.used + i]

\* n sources that have their uri and m that have to be mapped are put in front.
AddSources(c, n, m) ==
    [c EXCEPT !.sources = NewIds(c, n) \o @,
              !.mapped = NewIds([c EXCEPT !.used = @ + n], m) \o @,
              !.used = @ + n + m]

WithUri(c, n, uri) ==
    [i \in Ids |-> IF i \in c.used + 1 .. c.used + n THEN [src[i] EXCEPT !.uri = uri]
                   ELSE src[i]]

\* The mapping replaces a media set of a single source.
Replace(c, set) ==
    [AddSources([c EXCEPT !.sources = <<>>], set.sources, set.mapped) EXCEPT
        !.dynamic = [i \in 1 .. set.dynamic |-> "none"],
        !.notifications = set.notifications,
        !.cur_source = 0]

\* "mapping result is a simple file path, set the uri of the current source"
simple_path(c, uri) == [c |-> c, s |-> [src EXCEPT ![CurSource(c)].uri = uri]]

\* mapping.apply: the contexts and sources that a mapping may lead to.  uri tells
\* whether the mapping is that of the item.
media_set_applied(c, uri) ==
    {simple_path(c, uri)} \cup
    {[c |-> Replace(c, set), s |-> WithUri(c, set.sources, uri)] :
        set \in {m \in MediaSets : ~Progressive /\ conf.uris = 1
                                   /\ c.used + m.sources + m.mapped <= MaxSources}}

dynamic_applied(c, uri) ==
    {[c |-> [AddSources(c, n, 1 - n) EXCEPT !.dynamic[c.cur_clip] = uri],
      s |-> WithUri(c, n, uri)] : n \in {k \in {0, 1} : c.used < MaxSources}}

source_clip_applied(c, uri) ==
    {[c |-> c, s |-> [src EXCEPT ![c.mapped[c.cur_clip]].uri = uri]]}

\* The machines move to the next item after each step.  The media set may have
\* been replaced.
Advance(c) ==
    CASE c.machine = "media_set" ->
           [c EXCEPT !.cur_source = IF @ = 0 THEN 0 ELSE After(c.sources, @)]
      [] c.machine = "dynamic" -> [c EXCEPT !.cur_clip = After(c.dynamic, @)]
      [] c.machine = "source_clip" -> [c EXCEPT !.cur_clip = After(c.mapped, @)]

Apply(c, uri) ==
    \/ \E a \in CASE c.machine = "media_set" -> media_set_applied(c, uri)
                  [] c.machine = "dynamic" -> dynamic_applied(c, uri)
                  [] c.machine = "source_clip" -> source_clip_applied(c, uri) :
            Continue(Advance(a.c), rq, "map") /\ src' = a.s
    \/ Return(c, rq, "STATUS") /\ UNCHANGED src
    \/ c.machine = "media_set" /\ DumpToFallback(c, rq) /\ UNCHANGED src

Mapping(state) ==
    pc = "map" /\ CurItem(ctx).index # 0 /\ ctx.state = state

map_cache_hit ==
    /\ Mapping("MAP_INITIAL")
    /\ conf.cache
    /\ Apply(ctx, "own")

\* The mapping is opened, with OPEN_FILE_NO_CACHE.
map_open ==
    /\ Mapping("MAP_INITIAL")
    /\ ReaderOpen([ctx EXCEPT !.state = "MAP_OPEN"],
                  IF conf.upstream THEN "http" ELSE "file", 0)

\* The file may be too small or too large.
map_read ==
    /\ Mapping("MAP_OPEN")
    /\ \/ ReaderRead([ctx EXCEPT !.state = "MAP_READ"],
                     IF conf.upstream THEN "http" ELSE "file",
                     [NoOp EXCEPT !.kind = "read", !.item = CurItem(ctx)])
       \/ ~conf.upstream /\ Return(ctx, rq, "STATUS")
    /\ UNCHANGED src

\* Mutant: the next item finds the machine in the state of this one.
MapDone_noReset(c) == c

MapDone(c) == [c EXCEPT !.state = "MAP_INITIAL"]

map_apply ==
    /\ Mapping("MAP_READ")
    /\ IF ctx.empty
       THEN Return(ctx, rq, "STATUS") /\ UNCHANGED src
       ELSE Apply(MapDone(ctx), IF ctx.response = CurItem(ctx) THEN "own" ELSE "other")

\* ngx_http_vod_map_dynamic_clip_done: redirect, map the source clips or start.
\* Without a request the comparison reads through a null pointer.
dynamic_clip_done(c) ==
    \/ /\ conf.redirect /\ conf.kind # "manifest"
       /\ Continue(c, rq, IF Progressive THEN "fault" ELSE "notify")
       /\ UNCHANGED src
    \/ /\ ~(conf.redirect /\ conf.kind # "manifest")
       /\ c.mapped # <<>>
       /\ \/ Continue([c EXCEPT !.machine = "source_clip", !.cur_clip = 1], rq, "map")
          \/ Return(c, rq, "STATUS")                \* no source_clip_map_uri
       /\ UNCHANGED src
    \/ /\ ~(conf.redirect /\ conf.kind # "manifest")
       /\ c.mapped = <<>>
       /\ start_processing_media_file(c)

dynamic_clip_start(c) ==
    /\ Continue([c EXCEPT !.machine = "dynamic", !.cur_clip = 1], rq, "map")
    /\ UNCHANGED src

\* dynamic_clip_apply_mapping_string: the clips it names, here the last ones,
\* are replaced by sources that have to be mapped.
ApplyFromString(c) ==
    {[AddSources(c, 0, n) EXCEPT !.dynamic = SubSeq(@, 1, Len(@) - n)] :
        n \in {k \in 0 .. Len(c.dynamic) : c.used + k <= MaxSources}}

\* ngx_http_vod_map_media_set_state_machine, all uris mapped
media_set_mapped ==
    /\ pc = "map" /\ ctx.machine = "media_set" /\ ctx.cur_source = 0
    /\ \/ ctx.dynamic = <<>> /\ dynamic_clip_done(ctx)
       \/ /\ ctx.dynamic # <<>>
          /\ \E c \in IF conf.apply THEN ApplyFromString(ctx) ELSE {ctx} :
                IF c.dynamic = <<>> THEN dynamic_clip_done(c) ELSE dynamic_clip_start(c)
       \/ ctx.dynamic # <<>> /\ Return(ctx, rq, "STATUS") /\ UNCHANGED src

\* ngx_http_vod_map_dynamic_clip_state_machine, all clips mapped
dynamic_mapped ==
    /\ pc = "map" /\ ctx.machine = "dynamic" /\ ctx.cur_clip = 0
    /\ dynamic_clip_done(ctx)

MergeSources(c) == [c EXCEPT !.sources = c.mapped \o @]

\* ngx_http_vod_map_source_clip_state_machine, all sources mapped
source_clips_mapped ==
    /\ pc = "map" /\ ctx.machine = "source_clip" /\ ctx.cur_clip = 0
    /\ start_processing_media_file(MergeSources(ctx))

\* ngx_http_vod_send_notification; the redirect is a status that nginx answers
send_notification ==
    /\ pc = "notify"
    /\ IF ctx.notifications = 0
       THEN Return(ctx, rq, "STATUS")
       ELSE LET c == [ctx EXCEPT !.notifications = @ - 1]
            IN \/ Suspend(c, StartChild(rq), [NoOp EXCEPT !.kind = "notify", !.http = TRUE])
               \/ Return(c, rq, "STATUS")
    /\ UNCHANGED src

-----------------------------------------------------------------------------
(* ngx_http_vod_run_state_machine: drm info and metadata *)

AtState(state) == pc = "main" /\ ctx.state = state

\* parse_drm_info, and ngx_http_vod_copy_drm_info with drm_single_key
DrmParsed(c) ==
    IF conf.single_key
    THEN [c EXCEPT !.drm = @ \cup c.cur_sequence .. conf.sequences,
                   !.cur_sequence = conf.sequences + 1]
    ELSE [c EXCEPT !.drm = @ \cup {c.cur_sequence}, !.cur_sequence = @ + 1]

\* ngx_http_vod_state_machine_get_drm_info, one sequence
get_drm_info ==
    /\ AtState("READ_DRM_INFO")
    /\ UNCHANGED src
    /\ IF ctx.cur_sequence > conf.sequences
       THEN Continue([ctx EXCEPT !.state = "READ_METADATA_INITIAL", !.cur_sequence = 1],
                     rq, "main")
       ELSE \/ conf.cache /\ Continue(DrmParsed(ctx), rq, "main")
            \/ Suspend(ctx, StartChild(rq), [NoOp EXCEPT !.kind = "drm", !.http = TRUE])
            \/ Return(ctx, rq, "STATUS")

\* The states of ngx_http_vod_state_machine_parse_metadata.
AtSource(state) == AtState(state) /\ ctx.cur_source # 0

NextSource(c) ==
    [c EXCEPT !.state = "READ_METADATA_INITIAL", !.cur_source = After(c.sources, @)]

SourceParsed(c) ==
    /\ Continue(NextSource(c), rq, "main")
    /\ src' = [src EXCEPT ![CurSource(c)].parsed = @ + 1]

ReadSource(c, s) ==
    ReaderRead(c, src[s].reader, [NoOp EXCEPT !.kind = "read", !.source = s])

\* The metadata is in the cache, or the mapped uri is "empty".
read_metadata_loaded ==
    /\ AtSource("READ_METADATA_INITIAL")
    /\ conf.cache \/ (conf.mode = "mapped" /\ ~Progressive)
    /\ \/ SourceParsed(ctx)
       \/ /\ ~Progressive
          /\ open_file([ctx EXCEPT !.state = "READ_FRAMES_OPEN_FILE"], CurSource(ctx))
       \/ Return(ctx, rq, "STATUS") /\ UNCHANGED src

read_metadata_initial ==
    /\ AtSource("READ_METADATA_INITIAL")
    /\ open_file([ctx EXCEPT !.state = "READ_METADATA_OPEN_FILE"], CurSource(ctx))

read_metadata_open_file ==
    /\ AtSource("READ_METADATA_OPEN_FILE")
    /\ ReadSource([ctx EXCEPT !.state = "READ_METADATA_READ", !.allow_empty = TRUE],
                  CurSource(ctx))
    /\ UNCHANGED src

\* ngx_http_vod_async_read for a parser.  At the end of the file there is nothing
\* more to read.
read_more(flags) ==
    /\ ctx.reads < MaxReads
    /\ \E allow_empty \in flags :
         LET c == [ctx EXCEPT !.reads = @ + 1, !.allow_empty = allow_empty]
         IN ReadSource(c, CurSource(ctx)) \/ Continue([c EXCEPT !.allow_empty = ctx.allow_empty],
                                                       rq, "main")
    /\ UNCHANGED src

\* Mutant: the answer to the read is taken for the open.
ReadingFrames_noState(c) == c

ReadingFrames(c) == [c EXCEPT !.state = "READ_FRAMES_READ"]

\* ngx_http_vod_read_metadata and what follows it
read_metadata ==
    /\ AtSource("READ_METADATA_READ")
    /\ \/ read_more(BOOLEAN)
       \/ SourceParsed(ctx)
       \/ ~Progressive /\ ReadSource(ReadingFrames(ctx), CurSource(ctx)) /\ UNCHANGED src
       \/ Return(ctx, rq, "STATUS") /\ UNCHANGED src

read_frames_open_file ==
    /\ AtSource("READ_FRAMES_OPEN_FILE")
    /\ ReadSource(ReadingFrames(ctx), CurSource(ctx))
    /\ UNCHANGED src

\* ngx_http_vod_read_frames
read_frames ==
    /\ AtSource("READ_FRAMES_READ")
    /\ \/ read_more({FALSE})
       \/ SourceParsed(ctx)
       \/ Return(ctx, rq, "STATUS") /\ UNCHANGED src

Opening(c) == [c EXCEPT !.state = "OPEN_FILE", !.cur_source = First(c.sources)]

MetadataParsed == pc = "main" /\ ctx.state \in MetadataStates /\ ctx.cur_source = 0

\* ngx_http_vod_send_clip_header
send_clip_header ==
    /\ MetadataParsed /\ conf.kind = "clip"
    /\ LET sent == SendBody(SendHeader(rq), FALSE)
       IN \/ conf.head /\ Return(ctx, SendHeader(rq), "OK")
          \/ ~conf.head /\ Continue(Opening(ctx), sent, "main")
          \/ ~conf.head /\ Return(ctx, sent, "ERROR")
          \/ Return(ctx, rq, "STATUS")
    /\ UNCHANGED src

\* ngx_http_vod_run_generators, or the filters or validate_streams after it,
\* refuse the request.
run_generators_fails == Return(ctx, rq, "STATUS")

\* The tracks of all sources are known: ngx_http_vod_handle_metadata_request for a
\* manifest.
metadata_parsed ==
    /\ MetadataParsed /\ ~Progressive
    /\ \/ run_generators_fails
       \/ conf.kind = "manifest" /\ Return(ctx, Answer(rq), "OK")
       \/ conf.kind = "segment" /\ Continue(Opening(ctx), rq, "main")
    /\ UNCHANGED src

-----------------------------------------------------------------------------
(* ngx_http_vod_run_state_machine: frames and dumps *)

\* Mutant: a file that was opened for its metadata is opened again.
NeedsOpen_always(s) == ~src[s].open \/ src[s].opens = 1

NeedsOpen(s) == src[s].opens = 0            \* reader_context == NULL

\* ngx_http_vod_state_machine_open_files, one source
open_files ==
    /\ AtSource("OPEN_FILE")
    /\ IF NeedsOpen(CurSource(ctx))
       THEN open_file(ctx, CurSource(ctx))
       ELSE /\ Continue([ctx EXCEPT !.cur_source = After(ctx.sources, @)], rq, "main")
            /\ UNCHANGED src

FilesOpened == AtState("OPEN_FILE") /\ ctx.cur_source = 0

\* The part of the clip that is in the file: ngx_file_reader_dump_file_part,
\* ngx_http_vod_dump_http_part
dump_part ==
    /\ FilesOpened /\ conf.kind = "clip"
    /\ LET c == [ctx EXCEPT !.state = "DUMP_FILE_PART", !.cur_source = First(ctx.sources)]
           s == CurSource(c)
       IN \/ Return(ctx, SendLast(rq), "OK")        \* no such part
          \/ src[s].reader # "http" /\ Return(c, SendBody(rq, TRUE), "OK")
          \/ /\ src[s].reader = "http"
             /\ Suspend(c, StartChild(rq), [NoOp EXCEPT !.kind = "dump_part", !.http = TRUE,
                                                        !.source = s])
          \/ Return(c, rq, "STATUS")
    /\ UNCHANGED src

start_filters ==
    /\ FilesOpened /\ conf.kind = "segment"
    /\ \/ /\ conf.audio
          /\ Continue([ctx EXCEPT !.state = "FILTER_FRAMES", !.frame_processor = "filter",
                                  !.cur_source = First(ctx.sources)], rq, "main")
       \/ conf.audio /\ Return([ctx EXCEPT !.state = "FILTER_FRAMES"], rq, "STATUS")
       \/ ~conf.audio /\ Continue(ctx, rq, "init_frames")
    /\ UNCHANGED src

\* Mutant: with the header sent, the end of the response is not marked.
finalize_segment_response_noLast(c, q) ==
    \/ Return(c, IF q.header > 0 THEN q ELSE Answer(q), "OK")
    \/ Return(c, q, "STATUS")

\* ngx_http_vod_finalize_segment_response
finalize_segment_response(c, q) ==
    \/ Return(c, IF q.header > 0 THEN SendLast(q) ELSE Answer(q), "OK")
    \/ Return(c, q, "STATUS")

\* ngx_http_vod_init_frame_processing.  With a known length the header is sent
\* before the frames are processed; a range may end in the first buffer, and then
\* it is the range filter of nginx that marks it as the last.
init_frame_processing ==
    /\ pc = "init_frames"
    /\ \/ Return(ctx, rq, "STATUS")
       \/ conf.head /\ Return(ctx, SendHeader(rq), "OK")
       \/ ~conf.head /\ Return(ctx, SendBody(SendHeader(rq), TRUE), "OK")
       \/ \E q \in IF conf.head THEN {rq} ELSE {rq, SendBody(SendHeader(rq), FALSE)} :
            \/ Continue([ctx EXCEPT !.state = "PROCESS_FRAMES",
                                    !.frame_processor = "segment"], q, "main")
            \/ ctx.frame_processor = "none" /\ finalize_segment_response(ctx, q)
    /\ UNCHANGED src

\* ngx_http_vod_process_media_frames: the processor may need frames of any source
process_media_frames ==
    /\ pc = "main" /\ ctx.state \in {"FILTER_FRAMES", "PROCESS_FRAMES"}
    /\ \/ /\ ctx.reads < MaxReads
          /\ \E s \in ToSet(ctx.sources) : ReadSource([ctx EXCEPT !.reads = @ + 1], s)
       \/ ctx.state = "FILTER_FRAMES" /\ Continue(ctx, rq, "init_frames")
       \/ ctx.state = "PROCESS_FRAMES" /\ finalize_segment_response(ctx, rq)
       \/ Return(ctx, rq, "STATUS")
    /\ UNCHANGED src

\* ngx_http_vod_dump_file, ngx_http_vod_dump_http_request
dump_request ==
    /\ AtState("DUMP_OPEN_FILE")
    /\ IF src[CurSource(ctx)].reader = "http"
       THEN \/ Suspend(ctx, StartChild(rq), [NoOp EXCEPT !.kind = "dump", !.http = TRUE])
            \/ Return(ctx, rq, "ERROR")
       ELSE \/ Return(ctx, Answer(rq), "OK")
            \/ \E q \in {rq, SendHeader(rq)} : Return(ctx, q, "STATUS")
    /\ UNCHANGED src

dump_file_part_done ==
    /\ AtState("DUMP_FILE_PART")
    /\ Return(ctx, SendLast(rq), "OK") \/ Return(ctx, rq, "ERROR")
    /\ UNCHANGED src

-----------------------------------------------------------------------------
(* Callbacks *)

Waiting(kind) == pc = "wait" /\ op.kind = kind

\* ngx_http_vod_file_open_completed_internal
file_open_completed ==
    /\ Waiting("open")
    /\ LET q == Completed(rq, op)
       IN \/ /\ Continue(ctx, q, Resume(ctx))
             /\ src' = IF op.source = 0 THEN src ELSE [src EXCEPT ![op.source].open = TRUE]
          \/ Return(ctx, q, "STATUS") /\ UNCHANGED src
          \/ op.fallback /\ DumpToFallback(ctx, q) /\ UNCHANGED src

\* An empty read is an answer here, and elsewhere an error.
EmptyAllowed(c) ==
    c.state = "MAP_READ" \/ (c.state = "READ_METADATA_READ" /\ c.allow_empty)

MayRetry(c) == c.state = "MAP_READ" /\ c.stale_retries > 0

\* Mutant: the retries are not counted.
RetryStale_forever(c) == [c EXCEPT !.state = "MAP_INITIAL"]

RetryStale(c) == [c EXCEPT !.stale_retries = @ - 1, !.state = "MAP_INITIAL"]

\* ngx_http_vod_handle_read_completed
handle_read_completed ==
    /\ Waiting("read")
    /\ LET q == Completed(rq, op)
       IN \/ Continue([ctx EXCEPT !.response = op.item, !.empty = FALSE], q, Resume(ctx))
          \/ /\ EmptyAllowed(ctx)
             /\ Continue([ctx EXCEPT !.response = op.item, !.empty = op.item # NoItem],
                         q, Resume(ctx))
          \/ ~op.http /\ MayRetry(ctx) /\ Continue(RetryStale(ctx), q, Resume(ctx))  \* ESTALE
          \/ Return(ctx, q, "STATUS")
    /\ UNCHANGED src

\* ngx_http_vod_handle_read_completed, of a part that a subrequest wrote to the
\* client.  NGX_AGAIN: the client has not got all of it.
handle_part_completed ==
    /\ Waiting("dump_part")
    /\ LET q == SendBody(Completed(rq, op), FALSE)
       IN \/ Continue(ctx, q, "main")
          \/ Return(ctx, q, "STATUS")
          \/ /\ op' = NoOp /\ pc' = "end" /\ UNCHANGED <<ctx, conf>>
             /\ rq' = NginxFinalize(q, "AGAIN")
    /\ UNCHANGED src

\* ngx_http_vod_drm_info_request_finished
drm_info_request_finished ==
    /\ Waiting("drm")
    /\ LET q == Completed(rq, op)
       IN Return(ctx, q, "STATUS") \/ Continue(DrmParsed(ctx), q, "main")
    /\ UNCHANGED src

\* ngx_http_vod_notification_finished: errors are ignored
notification_finished ==
    /\ Waiting("notify")
    /\ Continue(ctx, Completed(rq, op), "notify")
    /\ UNCHANGED src

\* ngx_child_request_wev_handler without a callback.  The subrequest sent the
\* header of the request (ngx_child_request_header_filter), unless it was sent
\* before; or the upstream answered without one, or failed.
request_dumped ==
    /\ Waiting("dump")
    /\ LET q == Completed(rq, op)
           body == IF conf.head THEN {} ELSE {IF op.fallback THEN "fallback" ELSE "own"}
           header == [q EXCEPT !.header = IF @ = 0 THEN 1 ELSE @, !.body = @ \cup body]
           raw == [q EXCEPT !.raw = @ \/ q.header = 0, !.body = @ \cup body]
       IN \E q1 \in {q, header, raw} :
            Return(ctx, IF q1.header > 0 \/ q1.raw THEN SendLast(q1) ELSE q1,
                   IF q1.header > 0 \/ q1.raw THEN "OK" ELSE "STATUS")
    /\ UNCHANGED src

-----------------------------------------------------------------------------
(* The specification *)

Start(c) ==
    /\ ctx = [machine |-> "none", state |-> "MAP_INITIAL",
              sources |-> [i \in 1 .. c.uris |-> i], mapped |-> <<>>, dynamic |-> <<>>,
              notifications |-> 0, used |-> c.uris, cur_source |-> 1, cur_clip |-> 0,
              cur_sequence |-> 1, drm |-> {}, stale_retries |-> 0, allow_empty |-> FALSE,
              response |-> NoItem, empty |-> FALSE, frame_processor |-> "none", reads |-> 0]
    /\ src = [i \in Ids |->
                [uri |-> IF i <= c.uris /\ c.mode # "mapped" THEN "own" ELSE "none",
                 reader |-> "none", opens |-> 0, open |-> FALSE, parsed |-> 0]]
    /\ rq = [count |-> 1, blocked |-> 0, handler |-> TRUE, header |-> 0, raw |-> FALSE,
             body |-> {}, last |-> FALSE, result |-> "none"]
    /\ op = NoOp
    /\ pc = "start"

Init == conf \in Configurations /\ Start(conf)

Handler ==
    \/ handler_answers \/ response_cached
    \/ local_request_handler \/ remote_request_handler \/ mapped_request_handler

Map ==
    \/ map_cache_hit \/ map_open \/ map_read \/ map_apply
    \/ media_set_mapped \/ dynamic_mapped \/ source_clips_mapped \/ send_notification

Main ==
    \/ get_drm_info
    \/ read_metadata_loaded \/ read_metadata_initial \/ read_metadata_open_file
    \/ read_metadata \/ read_frames_open_file \/ read_frames
    \/ send_clip_header \/ metadata_parsed
    \/ open_files \/ dump_part \/ start_filters \/ init_frame_processing
    \/ process_media_frames \/ dump_request \/ dump_file_part_done

Callback ==
    \/ file_open_completed \/ handle_read_completed \/ handle_part_completed
    \/ drm_info_request_finished \/ notification_finished \/ request_dumped

Next ==
    \/ Handler \/ Map \/ Main \/ Callback
    \/ pc = "end" /\ UNCHANGED vars         \* the request is freed

\* The event loop runs every handler to its end and every operation that was
\* started completes, or fails when it times out.
Spec == Init /\ [][Next]_vars /\ WF_vars(Next)

-----------------------------------------------------------------------------
(* Properties *)

\* The operation a request waits for is the one that its state expects: the
\* callback knows only ctx->state, and feeds the result to that case.  Files are
\* read once they are open, and parsers get the bytes of the current source.
WaitsInOrder ==
    /\ pc = "map" => ctx.machine \in Mappers /\ ctx.state \in MapStates
    /\ pc = "main" => ctx.machine = "main" /\ ctx.state \in MainStates
    /\ pc = "wait" =>
         CASE op.kind = "open" ->
                IF op.source = 0 THEN ctx.state = "MAP_OPEN"
                ELSE /\ ctx.state \in {"READ_METADATA_OPEN_FILE", "READ_FRAMES_OPEN_FILE",
                                       "OPEN_FILE", "DUMP_OPEN_FILE"}
                     /\ op.source = CurSource(ctx)
           [] op.kind = "read" ->
                IF op.source = 0 THEN ctx.state = "MAP_READ" /\ op.item = CurItem(ctx)
                ELSE /\ src[op.source].open
                     /\ \/ ctx.state \in {"FILTER_FRAMES", "PROCESS_FRAMES"}
                        \/ /\ ctx.state \in {"READ_METADATA_READ", "READ_FRAMES_READ"}
                           /\ op.source = CurSource(ctx)
           [] op.kind = "drm" -> ctx.state = "READ_DRM_INFO"
           [] op.kind = "dump_part" -> ctx.state = "DUMP_FILE_PART"
           [] op.kind = "notify" -> conf.redirect
           [] OTHER -> op.kind = "dump"

FramesReached ==
    \/ pc = "init_frames"
    \/ pc = "main" /\ ctx.state \in {"FILTER_FRAMES", "PROCESS_FRAMES", "DUMP_FILE_PART"}

\* However opens, reads and mappings were interleaved with returns to the event
\* loop, when the main machine runs every source has the uri that its own mapping
\* gave it and none was lost; when the metadata is complete each source was parsed
\* once; and when frames are processed each was opened once and is open.
SourcesReady ==
    /\ ctx.machine = "main" =>
         /\ ToSet(ctx.sources) \in {1 .. ctx.used, conf.uris + 1 .. ctx.used}
         /\ \A s \in ToSet(ctx.sources) : src[s].uri = "own"
         /\ ToSet(ctx.dynamic) \subseteq {"own"}
    /\ MetadataParsed \/ FramesReached =>
         /\ \A s \in ToSet(ctx.sources) : src[s].parsed = 1
         /\ conf.sequences > 0 => ctx.drm = 1 .. conf.sequences
    /\ FramesReached =>
         \A s \in ToSet(ctx.sources) : src[s].open /\ src[s].opens = 1

\* The client gets one response: its body comes from one producer and its header is
\* sent once, also when the request is handed to the fallback server or dumps a file,
\* and a request that is finalized with NGX_OK has its header, and its last buffer
\* unless it is a HEAD request.
CompleteResponse ==
    /\ Cardinality(rq.body) <= 1 /\ rq.header <= 1
    /\ rq.result = "OK" => /\ rq.header = 1 \/ rq.raw
                           /\ rq.last \/ conf.head

\* The request is referenced while an operation is outstanding or a callback runs,
\* and exactly given up at the end, whichever handler finalized it.
Balanced ==
    /\ pc # "end" => rq.count >= 1 /\ rq.result = "none"
    /\ pc = "wait" => IF op.http THEN rq.count = 2 /\ rq.blocked = 0
                      ELSE rq.count = 1 /\ rq.blocked = 1
    /\ pc = "end" => rq.count = 0 /\ rq.blocked = 0

\* Without a request (a progressive download) no code reads through ctx->request.
NoNullRequest == pc # "fault"

\* Every request ends: no chain of opens, reads, stale mappings and subrequests
\* goes on for ever.
Ends == pc = "start" ~> pc = "end"

=============================================================================
