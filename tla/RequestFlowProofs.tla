-------------------------- MODULE RequestFlowProofs --------------------------
(***************************************************************************)
(* Proofs about RequestFlow, for any set of configurations, any media sets *)
(* that mappings return and any number of clip sources.                    *)
(*                                                                         *)
(* The invariant says, for each place where the event loop may find the    *)
(* request, how far the sources are.  It is written over the configuration *)
(* k, the context c, the sources s and the request q, so that a step is    *)
(* shown to establish it for the values that the step assigns.             *)
(***************************************************************************)
EXTENDS RequestFlow, SequenceTheorems, FiniteSetTheorems, TLAPS

\* A clip whose metadata is cached opens its file after the header is sent; the
\* fallback must not answer then.
NoFallbackAfterHeader ==
    \A k \in Configurations :
        ~(k.mode = "local" /\ k.kind = "clip" /\ k.cache /\ k.fallback)

-----------------------------------------------------------------------------
(* The sources *)

NoRepeat(q) == \A i, j \in DOMAIN q : q[i] = q[j] => i = j

\* The items before the current one, all of them when there is none.
Done(cur, i) == cur = 0 \/ i < cur

Named(c, s) == \A i \in DOMAIN c.sources : s[c.sources[i]].uri = "own"
AllOwn(d) == \A i \in DOMAIN d : d[i] = "own"
Fresh(s) == \A i \in Ids : s[i].opens = 0 /\ s[i].parsed = 0

\* T is the set of sources, each of them once in one of the lists.
Listed(c, T) ==
    /\ NoRepeat(c.sources) /\ NoRepeat(c.mapped)
    /\ ToSet(c.sources) \cap ToSet(c.mapped) = {}
    /\ ToSet(c.sources) \cup ToSet(c.mapped) = T

Served(k, c) == k.kind \in {"clip", "serve"} => c.sources # <<>>

Apart(k, c) ==
    /\ Served(k, c)
    /\ k.uris <= c.used
    /\ Listed(c, 1 .. c.used) \/ Listed(c, k.uris + 1 .. c.used)

\* What the main machine is started with.
Settled(k, c, s) ==
    /\ Served(k, c)
    /\ NoRepeat(c.sources)
    /\ ToSet(c.sources) = 1 .. c.used \/ ToSet(c.sources) = k.uris + 1 .. c.used
    /\ Named(c, s) /\ AllOwn(c.dynamic)

-----------------------------------------------------------------------------
(* The mapping machines *)

\* No mapping was applied that changes the lists.
Untouched(k, c) ==
    /\ c.used = k.uris /\ c.mapped = <<>> /\ c.dynamic = <<>>
    /\ c.sources = [i \in 1 .. k.uris |-> i]

MediaSetOK(k, c, s) ==
    /\ c.cur_source # 0 => Untouched(k, c)
    /\ c.cur_source <= Len(c.sources)
    /\ \A i \in DOMAIN c.sources : Done(c.cur_source, i) => s[c.sources[i]].uri = "own"

DynamicOK(c, s) ==
    /\ Named(c, s)
    /\ c.cur_clip <= Len(c.dynamic)
    /\ \A i \in DOMAIN c.dynamic : Done(c.cur_clip, i) => c.dynamic[i] = "own"

SourceClipOK(c, s) ==
    /\ Named(c, s) /\ AllOwn(c.dynamic)
    /\ c.cur_clip <= Len(c.mapped)
    /\ \A i \in DOMAIN c.mapped : Done(c.cur_clip, i) => s[c.mapped[i]].uri = "own"

MapOK(k, c, s) ==
    /\ Fresh(s) /\ Apart(k, c) /\ c.drm = {}
    /\ c.machine \in Mappers /\ c.state \in MapStates
    /\ CurItem(c).index = 0 => c.state = "MAP_INITIAL"
    /\ c.machine = "media_set" => MediaSetOK(k, c, s)
    /\ c.machine = "dynamic" => DynamicOK(c, s)
    /\ c.machine = "source_clip" => SourceClipOK(c, s)

-----------------------------------------------------------------------------
(* The main machine *)

Parsing == MetadataStates \cup {"READ_DRM_INFO"}
Processing == {"FILTER_FRAMES", "PROCESS_FRAMES", "DUMP_FILE_PART"}

Parsed(c, i) == c.state \in Parsing => Done(c.cur_source, i)

\* The source at position i was opened.
Opened(k, c, i) ==
    \/ c.state \in Processing
    \/ c.state = "OPEN_FILE" /\ Done(c.cur_source, i)
    \/ c.state \in MetadataStates \ {"READ_METADATA_INITIAL"} /\ i = c.cur_source
    \/ k.kind = "clip" /\ ~k.cache /\ Parsed(c, i)

NotOpened(c, i) ==
    /\ c.state \in Parsing
    /\ ~Done(c.cur_source, i)
    /\ i = c.cur_source => c.state \in {"READ_METADATA_INITIAL", "READ_DRM_INFO"}

\* x is the source at position i.
SourceAt(k, c, x, i, opening) ==
    /\ x.opens \in {0, 1}
    /\ x.opens = 1 => x.open \/ opening
    /\ c.state # "DUMP_OPEN_FILE" => x.parsed = IF Parsed(c, i) THEN 1 ELSE 0
    /\ c.state # "DUMP_OPEN_FILE" /\ Opened(k, c, i) => x.opens = 1
    /\ NotOpened(c, i) => x.opens = 0

\* w is the source whose open is under way, or 0.
SourcesAt(k, c, s, w) ==
    \A i \in DOMAIN c.sources :
        SourceAt(k, c, s[c.sources[i]], i, c.sources[i] = w)

DrmOK(k, c) ==
    /\ c.state = "READ_DRM_INFO" =>
         c.cur_sequence \in 1 .. k.sequences + 1 /\ c.drm = 1 .. c.cur_sequence - 1
    /\ c.state \notin {"READ_DRM_INFO", "DUMP_OPEN_FILE"} /\ k.sequences > 0 =>
         c.drm = 1 .. k.sequences

PositionOK(k, c) ==
    /\ c.state \in MainStates
    /\ c.cur_source <= Len(c.sources)
    /\ c.state = "READ_DRM_INFO" => c.cur_source = First(c.sources)
    /\ c.state = "DUMP_OPEN_FILE" <=> k.kind = "serve"
    /\ c.state = "DUMP_OPEN_FILE" => c.cur_source = 1
    /\ c.state \in {"FILTER_FRAMES", "PROCESS_FRAMES"} => k.kind = "segment"
    /\ c.state = "DUMP_FILE_PART" => k.kind = "clip"
    /\ c.state = "OPEN_FILE" => k.kind \in {"clip", "segment"}

MainOK(k, c, s, w) ==
    /\ c.machine = "main"
    /\ Settled(k, c, s) /\ PositionOK(k, c) /\ DrmOK(k, c) /\ SourcesAt(k, c, s, w)

-----------------------------------------------------------------------------
(* The request *)

Running(q) == q \in Request /\ q.count = 1 /\ q.blocked = 0 /\ q.result = "none"

Suspended(q, o) ==
    /\ q \in Request /\ q.result = "none" /\ o.http \in BOOLEAN
    /\ IF o.http THEN q.count = 2 /\ q.blocked = 0 ELSE q.count = 1 /\ q.blocked = 1

Clean(q) == q.header = 0 /\ q.body = {} /\ ~q.raw /\ ~q.last
Begun(q) == q.header = 1 /\ q.body = {"own"} /\ ~q.raw /\ ~q.last

\* The header and the first part of a clip are sent.
ClipBegun(k, c) ==
    k.kind = "clip" /\ c.machine = "main" /\ c.state \in {"OPEN_FILE", "DUMP_FILE_PART"}

SegmentMayBegin(k, c) ==
    k.kind = "segment" /\ c.machine = "main" /\ c.state = "PROCESS_FRAMES"

ResponseOK(k, c, q) ==
    IF ClipBegun(k, c) THEN Begun(q) /\ ~k.head
    ELSE Clean(q) \/ (SegmentMayBegin(k, c) /\ Begun(q) /\ ~k.head)

\* The response of a request that is finalized with rc.
Complete(k, q, rc) ==
    /\ q.body \in {{}, {"own"}, {"fallback"}} /\ q.header <= 1
    /\ rc = "OK" => (q.header = 1 \/ q.raw) /\ (q.last \/ k.head)

-----------------------------------------------------------------------------
(* The invariant *)

Runs(k, c, s, q, l) ==
    /\ Running(q) /\ ResponseOK(k, c, q)
    /\ c \in Ctx /\ s \in [Ids -> Source]
    /\ \/ l = "map" /\ MapOK(k, c, s) /\ (c.state = "MAP_READ" => c.response = CurItem(c))
       \/ l = "main" /\ MainOK(k, c, s, 0)
       \/ /\ l = "init_frames" /\ MainOK(k, c, s, 0) /\ k.kind = "segment"
          /\ c.state = "FILTER_FRAMES" \/ (c.state = "OPEN_FILE" /\ c.cur_source = 0)
       \/ l = "notify" /\ k.redirect /\ c.machine \in Mappers
       \/ l = "fault" /\ c.machine \in Mappers

OpenStates == {"READ_METADATA_OPEN_FILE", "READ_FRAMES_OPEN_FILE", "OPEN_FILE",
               "DUMP_OPEN_FILE"}

\* An open of source o.source, 0 for a mapping.
WaitsForOpen(k, c, s, o) ==
    /\ o.kind = "open" /\ ~o.http
    /\ \/ o.source = 0 /\ MapOK(k, c, s) /\ c.state = "MAP_OPEN" /\ ~o.fallback
       \/ /\ o.source \in Ids
          /\ MainOK(k, c, s, o.source) /\ c.state \in OpenStates
          /\ c.cur_source # 0 /\ o.source = CurSource(c)
          /\ o.fallback => k.mode = "local"
          /\ ClipBegun(k, c) => k.cache

WaitsForRead(k, c, s, o) ==
    /\ o.kind = "read"
    /\ \/ o.source = 0 /\ MapOK(k, c, s) /\ c.state = "MAP_READ" /\ o.item = CurItem(c)
       \/ /\ o.source \in Ids /\ o.item = NoItem
          /\ MainOK(k, c, s, 0) /\ s[o.source].open
          /\ \/ c.state \in {"FILTER_FRAMES", "PROCESS_FRAMES"}
             \/ /\ c.state \in {"READ_METADATA_READ", "READ_FRAMES_READ"}
                /\ c.cur_source # 0 /\ o.source = CurSource(c)

WaitsForOther(k, c, s, o) ==
    \/ /\ o.kind = "drm" /\ MainOK(k, c, s, 0) /\ c.state = "READ_DRM_INFO"
       /\ c.cur_sequence <= k.sequences
    \/ o.kind = "dump_part" /\ MainOK(k, c, s, 0) /\ c.state = "DUMP_FILE_PART"
    \/ o.kind = "notify" /\ k.redirect /\ c.machine \in Mappers
    \/ o.kind = "dump" /\ (c.machine = "main" => Settled(k, c, s))

Waits(k, c, s, q, o) ==
    /\ Suspended(q, o)
    /\ IF o.kind = "dump" THEN NoFallbackAfterHeader => Clean(q) ELSE ResponseOK(k, c, q)
    /\ c \in Ctx /\ s \in [Ids -> Source]
    /\ WaitsForOpen(k, c, s, o) \/ WaitsForRead(k, c, s, o) \/ WaitsForOther(k, c, s, o)

Ended(k, c, s, q) ==
    /\ q.count = 0 /\ q.blocked = 0
    /\ NoFallbackAfterHeader => Complete(k, q, q.result)
    /\ c.machine = "main" => Settled(k, c, s)

RunningAt == {"map", "notify", "main", "init_frames", "fault"}

IInv ==
    /\ conf \in Configurations
    /\ pc \in RunningAt \cup {"start", "wait", "end"}
    /\ pc = "start" => Start(conf)
    /\ pc \in RunningAt => Runs(conf, ctx, src, rq, pc)
    /\ pc = "wait" => Waits(conf, ctx, src, rq, op)
    /\ pc = "end" => Ended(conf, ctx, src, rq)


-----------------------------------------------------------------------------
(* How a handler returns *)

\* A handler goes on with what the invariant asks of the place it goes on at.
LEMMA ContinueStep ==
    ASSUME IInv, NEW c, NEW q, NEW l \in RunningAt, Continue(c, q, l),
           Runs(conf, c, src', q, l)
    PROVE  IInv'
<1>1. ctx' = c /\ rq' = q /\ pc' = l /\ conf' = conf
    BY DEF Continue
<1>2. pc' \notin {"start", "wait", "end"}
    BY <1>1 DEF RunningAt
<1> QED
    BY <1>1, <1>2 DEF IInv

\* A response that was not finished may be given up with an error.
LEMMA GiveUp ==
    ASSUME NEW k, NEW c, NEW q, ResponseOK(k, c, q), NEW rc, rc # "OK"
    PROVE  Complete(k, q, rc)
<1>1. Clean(q) \/ Begun(q)
    BY DEF ResponseOK
<1> QED
    BY <1>1 DEF Clean, Begun, Complete

\* A handler that is finished gives up the request exactly.
LEMMA ReturnStep ==
    ASSUME IInv, NEW c, NEW q, NEW rc \in {"OK", "STATUS", "ERROR"}, Return(c, q, rc),
           Running(q), NoFallbackAfterHeader => Complete(conf, q, rc),
           c.machine = "main" => Settled(conf, c, src')
    PROVE  IInv'
<1>1. ctx' = c /\ pc' = "end" /\ conf' = conf
    BY DEF Return
<1>2. /\ rq'.count = 0 /\ rq'.blocked = 0
      /\ rq'.header = q.header /\ rq'.body = q.body /\ rq'.raw = q.raw /\ rq'.last = q.last
      /\ rq'.result = "OK" => rc = "OK"
    BY DEF Return, Running, Request, NginxFinalize, FinalizeRequest
<1>3. NoFallbackAfterHeader => Complete(conf, rq', rq'.result)
    BY <1>2 DEF Complete
<1>4. Ended(conf', ctx', src', rq')
    BY <1>1, <1>2, <1>3 DEF Ended
<1> QED
    BY <1>1, <1>4 DEF IInv, RunningAt

\* A handler that returns with an error.
LEMMA FailStep ==
    ASSUME IInv, NEW c, NEW q, NEW rc \in {"STATUS", "ERROR"}, Return(c, q, rc),
           Running(q), ResponseOK(conf, c, q), c.machine = "main" => Settled(conf, c, src')
    PROVE  IInv'
<1>1. Complete(conf, q, rc)
    BY GiveUp
<1> QED
    BY <1>1, ReturnStep

\* A handler that waits keeps the request, whichever handler it is.
LEMMA SuspendStep ==
    ASSUME IInv, NEW c, NEW q, NEW o, Suspend(c, q, o), Waits(conf, c, src', q, o)
    PROVE  IInv'
<1>1. ctx' = c /\ pc' = "wait" /\ conf' = conf /\ op' = o
    BY DEF Suspend
<1>2. /\ rq' \in Request /\ rq'.count = q.count /\ rq'.blocked = q.blocked
      /\ rq'.header = q.header /\ rq'.body = q.body /\ rq'.raw = q.raw /\ rq'.last = q.last
      /\ rq'.result = q.result
  <2>1. q \in Request /\ q.count \in {1, 2}
      BY DEF Waits, Suspended
  <2>2. CASE q.handler
    <3> DEFINE a == HandlerAgain(q)
               b == NginxFinalize(a, "DONE")
    <3>1. a = [q EXCEPT !.count = q.count + 1]
        BY DEF HandlerAgain
    <3>2. b = [a EXCEPT !.count = a.count - 1]
        BY <2>1, <3>1 DEF NginxFinalize, Request
    <3>3. rq' = [b EXCEPT !.handler = FALSE]
        BY <2>2 DEF Suspend
    <3> HIDE DEF a, b
    <3>4. /\ a \in Request /\ a.count = q.count + 1 /\ a.blocked = q.blocked
          /\ a.header = q.header /\ a.body = q.body /\ a.raw = q.raw /\ a.last = q.last
          /\ a.result = q.result
        BY <2>1, <3>1 DEF Request
    <3>5. /\ b \in Request /\ b.count = q.count /\ b.blocked = q.blocked
          /\ b.header = q.header /\ b.body = q.body /\ b.raw = q.raw /\ b.last = q.last
          /\ b.result = q.result
        BY <2>1, <3>2, <3>4 DEF Request
    <3> QED
        BY <3>3, <3>5 DEF Request
  <2>3. CASE ~q.handler
      BY <2>1, <2>3 DEF Suspend
  <2> QED
      BY <2>2, <2>3
<1>3. Suspended(rq', o)
    BY <1>2 DEF Waits, Suspended
<1>4. Clean(q) => Clean(rq')
    BY <1>2 DEF Clean
<1>5. Begun(q) => Begun(rq')
    BY <1>2 DEF Begun
<1>6. ResponseOK(conf, c, q) => ResponseOK(conf, c, rq')
    BY <1>4, <1>5 DEF ResponseOK
<1>7. Waits(conf, c, src', rq', o)
    BY <1>3, <1>4, <1>6, Zenon DEF Waits
<1>8. Waits(conf', ctx', src', rq', op')
    BY <1>1, <1>7
<1> QED
    BY <1>1, <1>8 DEF IInv, RunningAt

\* What a request keeps of its response when an operation is started.
LEMMA StartedFacts ==
    ASSUME NEW q, Running(q)
    PROVE  /\ \A o : o.http = TRUE => Suspended(StartChild(q), o)
           /\ \A o : o.http = FALSE => Suspended(Block(q), o)
           /\ Clean(q) => Clean(StartChild(q)) /\ Clean(Block(q))
           /\ \A k, c : ResponseOK(k, c, q) =>
                ResponseOK(k, c, StartChild(q)) /\ ResponseOK(k, c, Block(q))
<1> DEFINE a == StartChild(q)
           b == Block(q)
<1>1. /\ a \in Request /\ a.count = 2 /\ a.blocked = 0 /\ a.header = q.header
      /\ a.body = q.body /\ a.raw = q.raw /\ a.last = q.last /\ a.result = "none"
    BY DEF StartChild, Running, Request
<1>2. /\ b \in Request /\ b.count = 1 /\ b.blocked = 1 /\ b.header = q.header
      /\ b.body = q.body /\ b.raw = q.raw /\ b.last = q.last /\ b.result = "none"
    BY DEF Block, Running, Request
<1> HIDE DEF a, b
<1>3. \A o : o.http = TRUE => Suspended(a, o)
    BY <1>1 DEF Suspended
<1>4. \A o : o.http = FALSE => Suspended(b, o)
    BY <1>2 DEF Suspended
<1>5. Clean(q) => Clean(a) /\ Clean(b)
    BY <1>1, <1>2 DEF Clean
<1>6. Begun(q) => Begun(a) /\ Begun(b)
    BY <1>1, <1>2 DEF Begun
<1>7. \A k, c : ResponseOK(k, c, q) => ResponseOK(k, c, a) /\ ResponseOK(k, c, b)
    BY <1>5, <1>6 DEF ResponseOK
<1> QED
    BY <1>3, <1>4, <1>5, <1>7 DEF a, b

\* What a request keeps of its response when the operation completes.
LEMMA CompletedFacts ==
    ASSUME NEW q, NEW o, Suspended(q, o)
    PROVE  /\ Running(Completed(q, o))
           /\ Clean(q) => Clean(Completed(q, o))
           /\ \A k, c : ResponseOK(k, c, q) => ResponseOK(k, c, Completed(q, o))
<1> DEFINE a == Completed(q, o)
<1>1. /\ a \in Request /\ a.count = 1 /\ a.blocked = 0 /\ a.header = q.header
      /\ a.body = q.body /\ a.raw = q.raw /\ a.last = q.last /\ a.result = "none"
    BY DEF Completed, Suspended, Request
<1> HIDE DEF a
<1>3. Running(a)
    BY <1>1 DEF Running
<1>5. Clean(q) => Clean(a)
    BY <1>1 DEF Clean
<1>6. Begun(q) => Begun(a)
    BY <1>1 DEF Begun
<1>7. \A k, c : ResponseOK(k, c, q) => ResponseOK(k, c, a)
    BY <1>5, <1>6 DEF ResponseOK
<1> QED
    BY <1>3, <1>5, <1>7 DEF a

\* The whole request is given to the fallback server before anything was sent.
LEMMA DumpStep ==
    ASSUME IInv, NEW c \in Ctx, NEW q, DumpToFallback(c, q), Running(q),
           src' \in [Ids -> Source],
           ResponseOK(conf, c, q), NoFallbackAfterHeader /\ conf.fallback => Clean(q),
           c.machine = "main" => Settled(conf, c, src')
    PROVE  IInv'
<1>1. CASE Return(c, q, "STATUS")
    BY <1>1, FailStep
<1>2. CASE /\ conf.fallback
           /\ Suspend(c, StartChild(q),
                      [NoOp EXCEPT !.kind = "dump", !.http = TRUE, !.fallback = TRUE])
  <2> DEFINE o == [NoOp EXCEPT !.kind = "dump", !.http = TRUE, !.fallback = TRUE]
             a == StartChild(q)
  <2>1. o.kind = "dump" /\ o.http = TRUE
      BY DEF NoOp
  <2>2. Suspend(c, a, o)
      BY <1>2
  <2> HIDE DEF o
  <2>3. Suspended(a, o) /\ (NoFallbackAfterHeader => Clean(a))
      BY <1>2, <2>1, StartedFacts
  <2> HIDE DEF a
  <2>4. Waits(conf, c, src', a, o)
      BY <2>1, <2>3 DEF Waits, WaitsForOther
  <2> QED
      BY <2>2, <2>4, SuspendStep
<1> QED
    BY <1>1, <1>2 DEF DumpToFallback


-----------------------------------------------------------------------------
(* What the machines do not look at *)

SameMap(c, d) ==
    /\ d.machine = c.machine /\ d.state = c.state
    /\ d.sources = c.sources /\ d.mapped = c.mapped /\ d.dynamic = c.dynamic
    /\ d.used = c.used /\ d.cur_source = c.cur_source /\ d.cur_clip = c.cur_clip
    /\ d.drm = c.drm

SameMain(c, d) == SameMap(c, d) /\ d.cur_sequence = c.cur_sequence

\* The mapping machines only look at the lists and their positions.
LEMMA MapFrame ==
    ASSUME NEW k, NEW c, NEW d, NEW s, SameMap(c, d)
    PROVE  /\ MapOK(k, c, s) => MapOK(k, d, s)
           /\ CurItem(d) = CurItem(c)
           /\ \A q : ResponseOK(k, c, q) => ResponseOK(k, d, q)
<1>1. /\ d.machine = c.machine /\ d.state = c.state
      /\ d.sources = c.sources /\ d.mapped = c.mapped /\ d.dynamic = c.dynamic
      /\ d.used = c.used /\ d.cur_source = c.cur_source /\ d.cur_clip = c.cur_clip
      /\ d.drm = c.drm
    BY DEF SameMap
<1>2. CurItem(d) = CurItem(c)
    BY <1>1 DEF CurItem
<1>3. /\ Apart(k, c) <=> Apart(k, d)
      /\ MediaSetOK(k, c, s) <=> MediaSetOK(k, d, s)
      /\ DynamicOK(c, s) <=> DynamicOK(d, s)
      /\ SourceClipOK(c, s) <=> SourceClipOK(d, s)
    BY <1>1 DEF Apart, Served, Listed, MediaSetOK, DynamicOK, SourceClipOK, Untouched, Named
<1>4. MapOK(k, c, s) => MapOK(k, d, s)
    BY <1>1, <1>2, <1>3 DEF MapOK
<1>5. \A q : ResponseOK(k, c, q) => ResponseOK(k, d, q)
    BY <1>1 DEF ResponseOK, ClipBegun, SegmentMayBegin
<1> QED
    BY <1>2, <1>4, <1>5

\* The main machine looks at the drm info too.
LEMMA MainFrame ==
    ASSUME NEW k, NEW c, NEW d, NEW s, NEW w, SameMain(c, d)
    PROVE  /\ MainOK(k, c, s, w) => MainOK(k, d, s, w)
           /\ Settled(k, c, s) => Settled(k, d, s)
           /\ \A q : ResponseOK(k, c, q) => ResponseOK(k, d, q)
<1>1. /\ d.machine = c.machine /\ d.state = c.state
      /\ d.sources = c.sources /\ d.mapped = c.mapped /\ d.dynamic = c.dynamic
      /\ d.used = c.used /\ d.cur_source = c.cur_source /\ d.cur_clip = c.cur_clip
      /\ d.drm = c.drm /\ d.cur_sequence = c.cur_sequence
    BY DEF SameMap, SameMain
<1>2. /\ Settled(k, c, s) <=> Settled(k, d, s)
      /\ PositionOK(k, c) <=> PositionOK(k, d)
      /\ DrmOK(k, c) <=> DrmOK(k, d)
    BY <1>1 DEF Settled, Served, Named, PositionOK, DrmOK
<1>3. \A x, i, b : SourceAt(k, c, x, i, b) <=> SourceAt(k, d, x, i, b)
    BY <1>1 DEF SourceAt, Opened, NotOpened, Parsed
<1>4. SourcesAt(k, c, s, w) <=> SourcesAt(k, d, s, w)
    BY <1>1, <1>3 DEF SourcesAt
<1>5. \A q : ResponseOK(k, c, q) => ResponseOK(k, d, q)
    BY <1>1 DEF ResponseOK, ClipBegun, SegmentMayBegin
<1> QED
    BY <1>1, <1>2, <1>4, <1>5 DEF MainOK

FilledBy(c, e, i) == [c EXCEPT !.empty = e, !.response = i]

\* The buffer that a read fills.
LEMMA Filled ==
    ASSUME NEW c \in Ctx, NEW e \in BOOLEAN, NEW i \in Item \cup {NoItem},
           NEW d, d = FilledBy(c, e, i)
    PROVE  d \in Ctx /\ SameMain(c, d) /\ SameMap(c, d) /\ d.response = i
    BY DEF FilledBy, Ctx, SameMain, SameMap

\* The current source is one of the sources.
LEMMA CurSourceFacts ==
    ASSUME NEW c \in Ctx, c.cur_source # 0, c.cur_source <= Len(c.sources)
    PROVE  /\ c.cur_source \in DOMAIN c.sources /\ CurSource(c) \in Ids
           /\ CurSource(c) # 0
<1>1. c.sources \in Seq(Ids) /\ c.cur_source \in Nat
    BY DEF Ctx
<1>2. c.cur_source \in 1 .. Len(c.sources) /\ Len(c.sources) \in Nat
    BY <1>1
<1>3. CurSource(c) \in Ids
    BY <1>1, <1>2 DEF CurSource
<1> QED
    BY <1>1, <1>2, <1>3, FlowAssumption DEF Ids

-----------------------------------------------------------------------------
(* Opening a file *)

\* Everything is ready to open the current source.
ToOpen(k, c, s) ==
    \A i \in DOMAIN c.sources :
        IF i = c.cur_source
        THEN /\ s[c.sources[i]].opens = 0 /\ ~NotOpened(c, i)
             /\ c.state # "DUMP_OPEN_FILE" =>
                  s[c.sources[i]].parsed = IF Parsed(c, i) THEN 1 ELSE 0
        ELSE SourceAt(k, c, s[c.sources[i]], i, FALSE)

MainOpens(k, c, s) ==
    /\ c.machine = "main" /\ Settled(k, c, s) /\ PositionOK(k, c) /\ DrmOK(k, c)
    /\ c.cur_source # 0 /\ c.state \in OpenStates
    /\ ToOpen(k, c, s)
    /\ ClipBegun(k, c) => k.cache

\* What the lists say of the uris does not depend on opens and reads.
LEMMA SettledFrame ==
    ASSUME NEW k, NEW c \in Ctx, NEW s \in [Ids -> Source], NEW t,
           Settled(k, c, s), \A i \in Ids : t[i].uri = s[i].uri
    PROVE  Settled(k, c, t)
<1>1. \A i \in DOMAIN c.sources : c.sources[i] \in Ids
    BY DEF Ctx
<1> QED
    BY <1>1 DEF Settled, Named

\* The current source was opened, or its open was posted.
LEMMA OpenedSource ==
    ASSUME NEW k, NEW c \in Ctx, NEW s \in [Ids -> Source], MainOpens(k, c, s),
           NEW t \in [Ids -> Source], NEW n, n = CurSource(c), NEW w,
           t[n].opens = s[n].opens + 1, t[n].open \/ n = w,
           t[n].uri = s[n].uri, t[n].parsed = s[n].parsed,
           \A i \in Ids \ {n} : t[i] = s[i]
    PROVE  MainOK(k, c, t, w)
<1>1. n \in Ids /\ n # 0 /\ c.cur_source \in DOMAIN c.sources
    BY CurSourceFacts DEF MainOpens, PositionOK
<1>2. s[n] \in Source /\ s[n].opens = 0
    BY <1>1 DEF MainOpens, ToOpen, CurSource
<1>3. t[n].opens = 1 /\ \A i \in Ids : t[i].uri = s[i].uri
    BY <1>1, <1>2
<1>4. Settled(k, c, t)
    BY <1>3, SettledFrame DEF MainOpens
<1>5. ASSUME NEW i \in DOMAIN c.sources
      PROVE  SourceAt(k, c, t[c.sources[i]], i, c.sources[i] = w)
  <2>1. c.sources[i] \in Ids
      BY DEF Ctx
  <2>2. CASE i = c.cur_source
    <3>1. c.sources[i] = n
        BY <2>2 DEF CurSource
    <3>2. /\ ~NotOpened(c, i)
          /\ c.state # "DUMP_OPEN_FILE" => t[n].parsed = IF Parsed(c, i) THEN 1 ELSE 0
        BY <1>3, <2>2, <3>1 DEF MainOpens, ToOpen
    <3>3. t[n].opens = 1 /\ (t[n].open \/ n = w)
        BY <1>3
    <3> QED
        BY <3>1, <3>2, <3>3 DEF SourceAt
  <2>3. CASE i # c.cur_source
    <3>1. c.sources[i] # n
        BY <1>1, <2>3 DEF CurSource, MainOpens, Settled, NoRepeat
    <3>2. SourceAt(k, c, s[c.sources[i]], i, FALSE)
        BY <2>3 DEF MainOpens, ToOpen
    <3>3. t[c.sources[i]] = s[c.sources[i]]
        BY <2>1, <3>1
    <3> QED
        BY <3>2, <3>3 DEF SourceAt
  <2> QED
      BY <2>2, <2>3
<1> QED
    BY <1>4, <1>5 DEF MainOK, MainOpens, SourcesAt


\* reader->open, for the current source of the main machine or for a mapping.
OpensOK(k, c, s, reader, n) ==
    \/ n = 0 /\ reader # "file_fallback" /\ MapOK(k, c, s) /\ c.state = "MAP_OPEN"
    \/ n = CurSource(c) /\ MainOpens(k, c, s) /\ (reader = "file_fallback" => k.mode = "local")

\* What a request has sent when it opens a file.
LEMMA CleanAtOpen ==
    ASSUME conf \in Configurations, NEW c, NEW s, NEW reader, NEW n, NEW q,
           OpensOK(conf, c, s, reader, n), ResponseOK(conf, c, q),
           reader = "file_fallback", NoFallbackAfterHeader, conf.fallback
    PROVE  Clean(q)
<1>1. MainOpens(conf, c, s) /\ conf.mode = "local"
    BY DEF OpensOK
<1>2. ~ClipBegun(conf, c)
    BY <1>1 DEF MainOpens, ClipBegun, NoFallbackAfterHeader
<1>3. ~SegmentMayBegin(conf, c)
    BY <1>1 DEF MainOpens, OpenStates, SegmentMayBegin
<1> QED
    BY <1>2, <1>3 DEF ResponseOK

OpenedNow(x, reader) == [x EXCEPT !.reader = reader, !.opens = @ + 1, !.open = TRUE]
OpenedLater(x, reader) == [x EXCEPT !.reader = reader, !.opens = @ + 1]

\* y is x after one more open.
OnceMore(x, y) ==
    /\ y \in Source /\ y.opens = x.opens + 1
    /\ y.uri = x.uri /\ y.parsed = x.parsed

\* The fields that an open writes.
LEMMA OpenedFields ==
    ASSUME NEW x \in Source, NEW reader \in {"file", "file_fallback", "http"}
    PROVE  /\ OnceMore(x, OpenedNow(x, reader)) /\ OpenedNow(x, reader).open
           /\ OnceMore(x, OpenedLater(x, reader))
<1> DEFINE a == [x EXCEPT !.reader = reader]
           b == [a EXCEPT !.opens = x.opens + 1]
           d == [b EXCEPT !.open = TRUE]
<1>1. /\ a \in Source /\ a.opens = x.opens /\ a.uri = x.uri /\ a.parsed = x.parsed
    BY DEF Source
<1>2. OpenedLater(x, reader) = b /\ OpenedNow(x, reader) = d
    BY DEF Source, OpenedLater, OpenedNow
<1> HIDE DEF a
<1>3. /\ b \in Source /\ b.opens = x.opens + 1 /\ b.uri = x.uri /\ b.parsed = x.parsed
    BY <1>1 DEF Source
<1> HIDE DEF b
<1>4. /\ d \in Source /\ d.opens = x.opens + 1 /\ d.open /\ d.uri = x.uri /\ d.parsed = x.parsed
    BY <1>3 DEF Source
<1> HIDE DEF d
<1> QED
    BY <1>2, <1>3, <1>4 DEF OnceMore

\* The file is open, or the reader has nothing to open.
LEMMA OpenedAtOnceStep ==
    ASSUME IInv, NEW c \in Ctx, src \in [Ids -> Source], Running(rq),
           ResponseOK(conf, c, rq), NEW reader \in {"file", "file_fallback", "http"},
           NEW n, OpensOK(conf, c, src, reader, n), OpenedAtOnce(c, reader, n)
    PROVE  IInv'
<1>1. Continue(c, rq, Resume(c))
    BY DEF OpenedAtOnce
<1>2. CASE n = 0 /\ MapOK(conf, c, src) /\ c.state = "MAP_OPEN"
  <2>1. src' = src
      BY <1>2 DEF OpenedAtOnce
  <2>2. Resume(c) = "map"
      BY <1>2 DEF Resume, MapOK, Mappers
  <2>3. Runs(conf, c, src', rq, "map")
      BY <1>2, <2>1 DEF Runs
  <2> QED
      BY <1>1, <2>2, <2>3, ContinueStep DEF RunningAt
<1>3. CASE n = CurSource(c) /\ MainOpens(conf, c, src)
  <2>1. n \in Ids /\ n # 0
      BY <1>3, CurSourceFacts DEF MainOpens, PositionOK
  <2> DEFINE y == OpenedNow(src[n], reader)
  <2>2. src' = [src EXCEPT ![n] = y]
      BY <2>1 DEF OpenedAtOnce, OpenedNow
  <2>3. /\ y \in Source /\ y.opens = src[n].opens + 1 /\ y.open
        /\ y.uri = src[n].uri /\ y.parsed = src[n].parsed
    <3>1. src[n] \in Source
        BY <2>1
    <3>2. OnceMore(src[n], y) /\ y.open
        BY <3>1, OpenedFields
    <3> QED
        BY <3>2 DEF OnceMore
  <2> HIDE DEF y
  <2>4. src' \in [Ids -> Source] /\ src'[n] = y
      BY <2>1, <2>2, <2>3
  <2>5. /\ src'[n].opens = src[n].opens + 1 /\ src'[n].open
        /\ src'[n].uri = src[n].uri /\ src'[n].parsed = src[n].parsed
      BY <2>3, <2>4
  <2>6. \A i \in Ids \ {n} : src'[i] = src[i]
      BY <2>2
  <2>7. MainOK(conf, c, src', 0)
      BY <1>3, <2>4, <2>5, <2>6, OpenedSource
  <2>8. Resume(c) = "main"
      BY <1>3 DEF Resume, MainOpens
  <2>9. Runs(conf, c, src', rq, "main")
      BY <2>4, <2>7 DEF Runs
  <2> QED
      BY <1>1, <2>8, <2>9, ContinueStep DEF RunningAt
<1> QED
    BY <1>2, <1>3 DEF OpensOK

\* A thread opens the file.
LEMMA OpenPostedStep ==
    ASSUME IInv, NEW c \in Ctx, src \in [Ids -> Source], Running(rq),
           ResponseOK(conf, c, rq), NEW reader \in {"file", "file_fallback", "http"},
           NEW n, OpensOK(conf, c, src, reader, n), OpenPosted(c, reader, n)
    PROVE  IInv'
<1> DEFINE o == [NoOp EXCEPT !.kind = "open", !.source = n,
                             !.fallback = reader = "file_fallback"]
           a == Block(rq)
           b == reader = "file_fallback"
<1>1. Suspend(c, a, o)
    BY DEF OpenPosted
<1>2. /\ o.kind = "open" /\ o.http = FALSE /\ o.source = n
      /\ o.fallback = b
    BY DEF NoOp
<1> HIDE DEF o
<1>3. Suspended(a, o) /\ ResponseOK(conf, c, a)
    BY <1>2, StartedFacts
<1> HIDE DEF a
<1>4. CASE n = 0 /\ MapOK(conf, c, src) /\ c.state = "MAP_OPEN" /\ reader # "file_fallback"
  <2>1. src' = src
      BY <1>4 DEF OpenPosted
  <2>2. WaitsForOpen(conf, c, src', o)
      BY <1>2, <1>4, <2>1 DEF WaitsForOpen
  <2>3. Waits(conf, c, src', a, o)
      BY <1>2, <1>3, <2>1, <2>2 DEF Waits
  <2> QED
      BY <1>1, <2>3, SuspendStep
<1>5. CASE n = CurSource(c) /\ MainOpens(conf, c, src) /\ (b => conf.mode = "local")
  <2>1. n \in Ids /\ n # 0
      BY <1>5, CurSourceFacts DEF MainOpens, PositionOK
  <2> DEFINE y == OpenedLater(src[n], reader)
  <2>2. src' = [src EXCEPT ![n] = y]
      BY <2>1 DEF OpenPosted, OpenedLater
  <2>3. /\ y \in Source /\ y.opens = src[n].opens + 1
        /\ y.uri = src[n].uri /\ y.parsed = src[n].parsed
    <3>1. src[n] \in Source
        BY <2>1
    <3>2. OnceMore(src[n], y)
        BY <3>1, OpenedFields
    <3> QED
        BY <3>2 DEF OnceMore
  <2> HIDE DEF y
  <2>4. src' \in [Ids -> Source] /\ src'[n] = y
      BY <2>1, <2>2, <2>3
  <2>5. /\ src'[n].opens = src[n].opens + 1
        /\ src'[n].uri = src[n].uri /\ src'[n].parsed = src[n].parsed
      BY <2>3, <2>4
  <2>6. \A i \in Ids \ {n} : src'[i] = src[i]
      BY <2>2
  <2>7. MainOK(conf, c, src', n)
      BY <1>5, <2>4, <2>5, <2>6, OpenedSource
  <2>8. WaitsForOpen(conf, c, src', o)
      BY <1>2, <1>5, <2>1, <2>7 DEF WaitsForOpen, MainOpens
  <2>9. Waits(conf, c, src', a, o)
      BY <1>2, <1>3, <2>4, <2>8 DEF Waits
  <2> QED
      BY <1>1, <2>9, SuspendStep
<1> QED
    BY <1>4, <1>5 DEF OpensOK

\* Opening a file, whatever comes of it.
LEMMA OpenStep ==
    ASSUME IInv, NEW c \in Ctx, src \in [Ids -> Source], Running(rq),
           ResponseOK(conf, c, rq), NEW reader \in {"file", "file_fallback", "http"},
           NEW n, OpensOK(conf, c, src, reader, n), ReaderOpen(c, reader, n)
    PROVE  IInv'
<1>1. CASE OpenedAtOnce(c, reader, n)
    BY <1>1, OpenedAtOnceStep
<1>2. CASE OpenPosted(c, reader, n)
    BY <1>2, OpenPostedStep
<1>3. c.machine = "main" => Settled(conf, c, src)
    BY DEF OpensOK, MapOK, Mappers, MainOpens
<1>4. CASE Return(c, rq, "STATUS") /\ UNCHANGED src
    BY <1>3, <1>4, FailStep
<1>5. CASE reader = "file_fallback" /\ DumpToFallback(c, rq) /\ UNCHANGED src
  <2>1. NoFallbackAfterHeader /\ conf.fallback => Clean(rq)
      BY <1>5, CleanAtOpen DEF IInv
  <2> QED
      BY <1>3, <1>5, <2>1, DumpStep
<1> QED
    BY <1>1, <1>2, <1>4, <1>5 DEF ReaderOpen

\* ngx_http_vod_open_file
LEMMA OpenFileStep ==
    ASSUME IInv, NEW c \in Ctx, src \in [Ids -> Source], Running(rq),
           ResponseOK(conf, c, rq), NEW n, n = CurSource(c), MainOpens(conf, c, src),
           open_file(c, n)
    PROVE  IInv'
<1> DEFINE r == default_reader
<1>1. /\ r \in {"file", "file_fallback", "http"}
      /\ r = "file_fallback" => conf.mode = "local"
    BY DEF default_reader
<1>2. ReaderOpen(c, r, n)
    BY DEF open_file
<1> HIDE DEF r
<1>3. OpensOK(conf, c, src, r, n)
    BY <1>1 DEF OpensOK
<1> QED
    BY <1>1, <1>2, <1>3, OpenStep


-----------------------------------------------------------------------------
(* Reading *)

\* A read, and the same read by http.
IsRead(o, n, i) ==
    LET h == [o EXCEPT !.http = TRUE]
    IN  /\ o.kind = "read" /\ o.http = FALSE /\ o.source = n /\ o.item = i
        /\ h.kind = "read" /\ h.http = TRUE /\ h.source = n /\ h.item = i

\* The reads that are asked for, of a source and of a mapping.
LEMMA ReadOps ==
    /\ \A n : IsRead([NoOp EXCEPT !.kind = "read", !.source = n], n, NoItem)
    /\ \A i : IsRead([NoOp EXCEPT !.kind = "read", !.item = i], 0, i)
    BY DEF NoOp, IsRead

\* The machine goes on with the buffer that was read.
LEMMA FilledStep ==
    ASSUME IInv, NEW c \in Ctx, src \in [Ids -> Source], src' = src, NEW q, Running(q),
           ResponseOK(conf, c, q), NEW o, WaitsForRead(conf, c, src, o), NEW e \in BOOLEAN,
           Continue([c EXCEPT !.empty = e, !.response = o.item], q, Resume(c))
    PROVE  IInv'
<1> DEFINE d == [c EXCEPT !.empty = e, !.response = o.item]
<1>1. o.item \in Item \cup {NoItem}
  <2>1. c.machine \in Mappers => CurItem(c) \in Item
      BY DEF CurItem, Item, Ctx
  <2> QED
      BY <2>1 DEF WaitsForRead, MapOK
<1>2. d = FilledBy(c, e, o.item)
    BY DEF FilledBy
<1>3. Continue(d, q, Resume(c))
    OBVIOUS
<1> HIDE DEF d
<1>4. d \in Ctx /\ SameMain(c, d) /\ SameMap(c, d) /\ d.response = o.item
    BY <1>1, <1>2, Filled
<1>7. ResponseOK(conf, d, q)
    BY <1>4, MapFrame
<1>5. CASE MapOK(conf, c, src) /\ c.state = "MAP_READ" /\ o.item = CurItem(c)
  <2>1. MapOK(conf, d, src) /\ d.response = CurItem(d)
      BY <1>4, <1>5, MapFrame
  <2>2. Runs(conf, d, src', q, "map")
      BY <1>7, <1>4, <2>1 DEF Runs
  <2>3. Resume(c) = "map"
      BY <1>5 DEF Resume, MapOK, Mappers
  <2> QED
      BY <1>3, <2>2, <2>3, ContinueStep DEF RunningAt
<1>6. CASE MainOK(conf, c, src, 0)
  <2>1. MainOK(conf, d, src, 0)
      BY <1>4, <1>6, MainFrame
  <2>2. Runs(conf, d, src', q, "main")
      BY <1>7, <1>4, <2>1 DEF Runs
  <2>3. Resume(c) = "main"
      BY <1>6 DEF Resume, MainOK
  <2> QED
      BY <1>3, <2>2, <2>3, ContinueStep DEF RunningAt
<1> QED
    BY <1>5, <1>6 DEF WaitsForRead

\* reader->read, of a source of the main machine or of a mapping.
LEMMA ReadStep ==
    ASSUME IInv, NEW c \in Ctx, src \in [Ids -> Source], src' = src, Running(rq),
           ResponseOK(conf, c, rq), NEW reader, NEW n, NEW i, NEW o, IsRead(o, n, i),
           WaitsForRead(conf, c, src, o), ReaderRead(c, reader, o)
    PROVE  IInv'
<1> DEFINE h == [o EXCEPT !.http = TRUE]
<1>1. /\ o.kind = "read" /\ o.http = FALSE /\ o.source = n /\ o.item = i
      /\ h.kind = "read" /\ h.http = TRUE /\ h.source = n /\ h.item = i
    BY DEF IsRead
<1>2. \/ \E e \in BOOLEAN : Continue([c EXCEPT !.empty = e, !.response = o.item], rq, Resume(c))
      \/ Suspend(c, Block(rq), o)
      \/ Suspend(c, StartChild(rq), h)
      \/ Return(c, rq, "ERROR")
    BY DEF ReaderRead
<1> HIDE DEF h
<1>4. WaitsForRead(conf, c, src, h)
    BY <1>1 DEF WaitsForRead
<1>5. CASE \E e \in BOOLEAN :
             Continue([c EXCEPT !.empty = e, !.response = o.item], rq, Resume(c))
    BY <1>5, FilledStep
<1>6. CASE Suspend(c, Block(rq), o)
  <2>1. Suspended(Block(rq), o) /\ ResponseOK(conf, c, Block(rq))
      BY <1>1, StartedFacts
  <2>2. Waits(conf, c, src', Block(rq), o)
      BY <1>1, <2>1 DEF Waits
  <2> QED
      BY <1>6, <2>2, SuspendStep
<1>7. CASE Suspend(c, StartChild(rq), h)
  <2>1. Suspended(StartChild(rq), h) /\ ResponseOK(conf, c, StartChild(rq))
      BY <1>1, StartedFacts
  <2>2. Waits(conf, c, src', StartChild(rq), h)
      BY <1>1, <1>4, <2>1 DEF Waits
  <2> QED
      BY <1>7, <2>2, SuspendStep
<1>8. CASE Return(c, rq, "ERROR")
  <2>1. c.machine = "main" => Settled(conf, c, src')
      BY DEF WaitsForRead, MapOK, MainOK, Mappers
  <2> QED
      BY <1>8, <2>1, FailStep
<1> QED
    BY <1>2, <1>5, <1>6, <1>7, <1>8

\* A read of source n for the main machine.
LEMMA ReadSourceStep ==
    ASSUME IInv, NEW c \in Ctx, src \in [Ids -> Source], src' = src, Running(rq),
           ResponseOK(conf, c, rq), NEW n \in Ids, MainOK(conf, c, src, 0), src[n].open,
           \/ c.state \in {"FILTER_FRAMES", "PROCESS_FRAMES"}
           \/ /\ c.state \in {"READ_METADATA_READ", "READ_FRAMES_READ"}
              /\ c.cur_source # 0 /\ n = CurSource(c),
           ReadSource(c, n)
    PROVE  IInv'
<1> DEFINE o == [NoOp EXCEPT !.kind = "read", !.source = n]
<1>1. IsRead(o, n, NoItem)
    BY ReadOps
<1>2. ReaderRead(c, src[n].reader, o)
    BY DEF ReadSource
<1> HIDE DEF o
<1>3. WaitsForRead(conf, c, src, o)
    BY <1>1 DEF WaitsForRead, IsRead
<1> QED
    BY <1>1, <1>2, <1>3, ReadStep


-----------------------------------------------------------------------------
(* The start of the main machine *)

\* What the mapping machines hand to the main one.
Ready(k, c, s) ==
    Fresh(s) /\ Settled(k, c, s) /\ c.state = "MAP_INITIAL" /\ c.drm = {}

\* The main machine starts with its first source.
MainContext(c) == [c EXCEPT !.machine = "main", !.cur_source = First(c.sources)]
ServeContext(c) == [MainContext(c) EXCEPT !.state = "DUMP_OPEN_FILE"]
ParseContext(c, state) ==
    [MainContext(c) EXCEPT !.cur_sequence = 1, !.state = state]

\* The fields of these contexts.
LEMMA MainContexts ==
    ASSUME NEW c \in Ctx
    PROVE  /\ LET d == MainContext(c)
              IN  /\ d \in Ctx /\ d.machine = "main" /\ d.cur_source = First(c.sources)
                  /\ d.sources = c.sources /\ d.dynamic = c.dynamic /\ d.used = c.used
                  /\ d.drm = c.drm /\ d.state = c.state
           /\ LET d == ServeContext(c)
              IN  /\ d \in Ctx /\ d.machine = "main" /\ d.cur_source = First(c.sources)
                  /\ d.sources = c.sources /\ d.dynamic = c.dynamic /\ d.used = c.used
                  /\ d.drm = c.drm /\ d.state = "DUMP_OPEN_FILE"
           /\ \A state \in MainStates :
                LET d == ParseContext(c, state)
                IN  /\ d \in Ctx /\ d.machine = "main" /\ d.cur_source = First(c.sources)
                    /\ d.sources = c.sources /\ d.dynamic = c.dynamic /\ d.used = c.used
                    /\ d.drm = c.drm /\ d.state = state /\ d.cur_sequence = 1
<1> DEFINE m == MainContext(c)
<1>1. /\ m \in Ctx /\ m.machine = "main" /\ m.cur_source = First(c.sources)
      /\ m.sources = c.sources /\ m.dynamic = c.dynamic /\ m.used = c.used
      /\ m.drm = c.drm /\ m.state = c.state
    BY ZenonT(60) DEF MainContext, Ctx, First
<1> HIDE DEF m
<1>2. LET d == ServeContext(c)
      IN  /\ d \in Ctx /\ d.machine = "main" /\ d.cur_source = First(c.sources)
          /\ d.sources = c.sources /\ d.dynamic = c.dynamic /\ d.used = c.used
          /\ d.drm = c.drm /\ d.state = "DUMP_OPEN_FILE"
  <2>1. ServeContext(c) = [m EXCEPT !.state = "DUMP_OPEN_FILE"]
      BY DEF ServeContext, m
  <2> QED
      BY <1>1, <2>1, ZenonT(60) DEF Ctx, MainStates
<1>3. ASSUME NEW state \in MainStates
      PROVE  LET d == ParseContext(c, state)
             IN  /\ d \in Ctx /\ d.machine = "main" /\ d.cur_source = First(c.sources)
                 /\ d.sources = c.sources /\ d.dynamic = c.dynamic /\ d.used = c.used
                 /\ d.drm = c.drm /\ d.state = state /\ d.cur_sequence = 1
  <2> DEFINE a == [m EXCEPT !.cur_sequence = 1]
  <2>1. ParseContext(c, state) = [a EXCEPT !.state = state]
      BY DEF ParseContext, m
  <2>2. /\ a \in Ctx /\ a.machine = "main" /\ a.cur_source = First(c.sources)
        /\ a.sources = c.sources /\ a.dynamic = c.dynamic /\ a.used = c.used
        /\ a.drm = c.drm /\ a.cur_sequence = 1
      BY <1>1 DEF Ctx
  <2> HIDE DEF a
  <2> QED
      BY <2>1, <2>2, ZenonT(60) DEF Ctx
<1> QED
    BY <1>1, <1>2, <1>3 DEF m

\* The lists are as they were.
LEMMA SettledLists ==
    ASSUME NEW k, NEW c, NEW d, NEW s, Settled(k, c, s), d.sources = c.sources,
           d.dynamic = c.dynamic, d.used = c.used
    PROVE  Settled(k, d, s)
    BY DEF Settled, Served, Named

\* A list is empty or has a first item.
LEMMA FirstFacts ==
    ASSUME NEW T, NEW q \in Seq(T)
    PROVE  /\ First(q) \in Nat /\ First(q) <= Len(q)
           /\ q # <<>> => First(q) = 1
           /\ \A i \in DOMAIN q : First(q) = 1 /\ i \in Nat /\ i >= 1
<1>1. CASE q = <<>>
    BY <1>1 DEF First
<1>2. CASE q # <<>>
  <2>1. Len(q) \in Nat /\ Len(q) # 0
      BY <1>2, EmptySeq
  <2> QED
      BY <1>2, <2>1 DEF First
<1> QED
    BY <1>1, <1>2

\* A request for a file is served.
LEMMA ServeStep ==
    ASSUME IInv, NEW c \in Ctx, src \in [Ids -> Source], Running(rq), Clean(rq),
           Ready(conf, c, src), conf.kind = "serve",
           open_file(ServeContext(c), CurSource(MainContext(c)))
    PROVE  IInv'
<1> DEFINE d == ServeContext(c)
           n == CurSource(MainContext(c))
<1>1. /\ d \in Ctx /\ d.machine = "main" /\ d.cur_source = First(c.sources)
      /\ d.sources = c.sources /\ d.dynamic = c.dynamic /\ d.used = c.used
      /\ d.state = "DUMP_OPEN_FILE"
    BY MainContexts
<1>2. n = CurSource(d)
    BY <1>1, MainContexts DEF CurSource
<1>3. open_file(d, n)
    OBVIOUS
<1> HIDE DEF d, n
<1>4. c.sources # <<>> /\ c.sources \in Seq(Ids)
    BY DEF Ready, Settled, Served, Ctx
<1>5. d.cur_source = 1 /\ d.cur_source <= Len(d.sources)
    BY <1>1, <1>4, FirstFacts
<1>6. Settled(conf, d, src)
    BY <1>1, SettledLists DEF Ready
<1>7. PositionOK(conf, d) /\ DrmOK(conf, d)
    BY <1>1, <1>5 DEF PositionOK, DrmOK, MainStates, First
<1>8. ASSUME NEW i \in DOMAIN d.sources
      PROVE  /\ src[d.sources[i]].opens = 0
             /\ SourceAt(conf, d, src[d.sources[i]], i, FALSE) /\ ~NotOpened(d, i)
  <2>1. d.sources[i] \in Ids
      BY <1>1, <1>4
  <2>2. src[d.sources[i]].opens = 0
      BY <2>1 DEF Ready, Fresh
  <2>3. ~NotOpened(d, i)
      BY <1>1 DEF NotOpened, Parsing, MetadataStates
  <2> QED
      BY <1>1, <2>2, <2>3 DEF SourceAt
<1>9. ToOpen(conf, d, src)
    BY <1>1, <1>8 DEF ToOpen
<1>10. ~ClipBegun(conf, d)
    BY DEF ClipBegun
<1>11. MainOpens(conf, d, src)
    BY <1>1, <1>5, <1>6, <1>7, <1>9, <1>10 DEF MainOpens, OpenStates
<1>12. ResponseOK(conf, d, rq)
    BY <1>10 DEF ResponseOK
<1> QED
    BY <1>1, <1>2, <1>3, <1>11, <1>12, OpenFileStep

\* The drm info or the metadata of the sources is read.
LEMMA ParseStep ==
    ASSUME IInv, NEW c \in Ctx, src \in [Ids -> Source], Running(rq), Clean(rq),
           Ready(conf, c, src), conf.kind # "serve",
           NEW state, state = IF conf.sequences > 0 THEN "READ_DRM_INFO"
                              ELSE "READ_METADATA_INITIAL",
           Continue(ParseContext(c, state), rq, "main"), src' = src
    PROVE  IInv'
<1> DEFINE d == ParseContext(c, state)
<1>0. state \in MainStates /\ conf.sequences \in Nat
    BY FlowAssumption DEF MainStates, MetadataStates, IInv, Configuration
<1>1. /\ d \in Ctx /\ d.machine = "main" /\ d.cur_source = First(c.sources)
      /\ d.sources = c.sources /\ d.dynamic = c.dynamic /\ d.used = c.used
      /\ d.state = state /\ d.cur_sequence = 1 /\ d.drm = {}
    BY <1>0, MainContexts DEF Ready
<1>2. Continue(d, rq, "main")
    OBVIOUS
<1> HIDE DEF d
<1>4. c.sources \in Seq(Ids)
    BY DEF Ctx
<1>5. d.cur_source <= Len(d.sources)
    BY <1>1, <1>4, FirstFacts
<1>6. Settled(conf, d, src)
    BY <1>1, SettledLists DEF Ready
<1>7. PositionOK(conf, d) /\ DrmOK(conf, d)
    BY <1>0, <1>1, <1>5 DEF PositionOK, DrmOK, MainStates
<1>8. ASSUME NEW i \in DOMAIN d.sources
      PROVE  SourceAt(conf, d, src[d.sources[i]], i, d.sources[i] = 0)
  <2>1. d.sources[i] \in Ids
      BY <1>1, <1>4
  <2>2. src[d.sources[i]].opens = 0 /\ src[d.sources[i]].parsed = 0
      BY <2>1 DEF Ready, Fresh
  <2>3. ~Done(d.cur_source, i)
      BY <1>1, <1>4, FirstFacts DEF Done
  <2>4. ~Parsed(d, i) /\ ~Opened(conf, d, i)
      BY <1>1, <2>3 DEF Parsed, Opened, Parsing, Processing, MetadataStates
  <2> QED
      BY <2>2, <2>4 DEF SourceAt
<1>9. MainOK(conf, d, src, 0)
    BY <1>1, <1>6, <1>7, <1>8 DEF MainOK, SourcesAt
<1>10. ResponseOK(conf, d, rq)
    BY <1>1 DEF ResponseOK, ClipBegun
<1>11. Runs(conf, d, src', rq, "main")
    BY <1>1, <1>9, <1>10 DEF Runs
<1> QED
    BY <1>2, <1>11, ContinueStep DEF RunningAt

\* ngx_http_vod_start_processing_media_file
LEMMA StartStep ==
    ASSUME IInv, NEW c \in Ctx, src \in [Ids -> Source], Running(rq), Clean(rq),
           Ready(conf, c, src), start_processing_media_file(c)
    PROVE  IInv'
<1> DEFINE m == MainContext(c)
           state == IF conf.sequences > 0 THEN "READ_DRM_INFO" ELSE "READ_METADATA_INITIAL"
<1>1. \/ conf.kind = "serve" /\ open_file(ServeContext(c), CurSource(m))
      \/ conf.kind # "serve" /\ Continue(ParseContext(c, state), rq, "main") /\ src' = src
      \/ Return(m, rq, "STATUS") /\ src' = src
    BY DEF start_processing_media_file, MainContext, ServeContext, ParseContext
<1>2. /\ m \in Ctx /\ m.machine = "main" /\ m.state = "MAP_INITIAL"
      /\ m.sources = c.sources /\ m.dynamic = c.dynamic /\ m.used = c.used
    BY MainContexts DEF Ready
<1>3. CASE conf.kind = "serve" /\ open_file(ServeContext(c), CurSource(m))
    BY <1>3, ServeStep
<1> HIDE DEF m, state
<1>4. CASE conf.kind # "serve" /\ Continue(ParseContext(c, state), rq, "main") /\ src' = src
    BY <1>4, ParseStep DEF state
<1>5. CASE Return(m, rq, "STATUS") /\ src' = src
  <2>1. Settled(conf, m, src')
      BY <1>2, <1>5, SettledLists DEF Ready
  <2>2. ResponseOK(conf, m, rq)
      BY <1>2 DEF ResponseOK, ClipBegun
  <2> QED
      BY <1>5, <2>1, <2>2, FailStep
<1> QED
    BY <1>1, <1>3, <1>4, <1>5


-----------------------------------------------------------------------------
(* ngx_http_vod_handler *)

\* A response that is sent at once is complete.
LEMMA AnswerFacts ==
    ASSUME NEW q, Running(q), Clean(q)
    PROVE  /\ Running(Answer(q)) /\ Complete(conf, Answer(q), "OK")
           /\ Running(SendHeader(q)) /\ (conf.head => Complete(conf, SendHeader(q), "OK"))
           /\ Running(SendBody(SendHeader(q), TRUE))
           /\ Complete(conf, SendBody(SendHeader(q), TRUE), "OK")
           /\ Running(SendBody(SendHeader(q), FALSE))
           /\ Begun(SendBody(SendHeader(q), FALSE))
<1> DEFINE h == SendHeader(q)
           a == SendBody(h, TRUE)
           b == SendBody(h, FALSE)
<1>1. /\ h \in Request /\ h.count = 1 /\ h.blocked = 0 /\ h.result = "none"
      /\ h.header = 1 /\ h.body = {} /\ ~h.raw /\ ~h.last
    BY DEF Running, Clean, SendHeader, Request
<1> HIDE DEF h
<1>2. /\ a \in Request /\ a.count = 1 /\ a.blocked = 0 /\ a.result = "none"
      /\ a.header = 1 /\ a.body = {"own"} /\ ~a.raw /\ a.last
    BY <1>1 DEF SendBody, Request
<1>3. /\ b \in Request /\ b.count = 1 /\ b.blocked = 0 /\ b.result = "none"
      /\ b.header = 1 /\ b.body = {"own"} /\ ~b.raw /\ ~b.last
    BY <1>1 DEF SendBody, Request
<1> HIDE DEF a, b
<1>4. Running(h) /\ (conf.head => Complete(conf, h, "OK"))
    BY <1>1 DEF Running, Complete
<1>5. Running(a) /\ Complete(conf, a, "OK")
    BY <1>2 DEF Running, Complete
<1>6. Running(b) /\ Begun(b)
    BY <1>3 DEF Running, Begun
<1>7. Answer(q) = IF conf.head THEN h ELSE a
    BY DEF Answer, h, a
<1> QED
    BY <1>4, <1>5, <1>6, <1>7 DEF h, a, b

\* The state that the handler finds.
LEMMA AtStart ==
    ASSUME IInv, pc = "start"
    PROVE  /\ ctx \in Ctx /\ src \in [Ids -> Source] /\ Running(rq) /\ Clean(rq)
           /\ Fresh(src) /\ Untouched(conf, ctx) /\ ctx.drm = {} /\ ctx.cur_source = 1
           /\ ctx.state = "MAP_INITIAL" /\ ctx.machine = "none"
           /\ Apart(conf, ctx) /\ Len(ctx.sources) = conf.uris /\ conf.uris \in 1 .. MaxSources
           /\ conf.mode # "mapped" => Ready(conf, ctx, src)
<1>1. Start(conf) /\ conf \in Configuration
    BY FlowAssumption DEF IInv
<1>2. conf.uris \in 1 .. MaxSources /\ MaxSources \in Nat /\ MaxStaleRetries \in Nat
      /\ MaxReads \in Nat
    BY <1>1, FlowAssumption DEF Configuration
<1> DEFINE l == [i \in 1 .. conf.uris |-> i]
<1>3. ctx = [machine |-> "none", state |-> "MAP_INITIAL",
             sources |-> l, mapped |-> <<>>, dynamic |-> <<>>,
             notifications |-> 0, used |-> conf.uris, cur_source |-> 1, cur_clip |-> 0,
             cur_sequence |-> 1, drm |-> {}, stale_retries |-> 0, allow_empty |-> FALSE,
             response |-> NoItem, empty |-> FALSE, frame_processor |-> "none", reads |-> 0]
    BY <1>1 DEF Start
<1>4. /\ l \in Seq(Ids) /\ Len(l) = conf.uris /\ NoRepeat(l) /\ ToSet(l) = 1 .. conf.uris
      /\ l # <<>>
  <2>1. \A i \in 1 .. conf.uris : i \in Ids
      BY <1>2 DEF Ids
  <2>2. l \in Seq(Ids) /\ Len(l) = conf.uris
      BY <1>2, <2>1
  <2> QED
      BY <1>2, <2>2 DEF NoRepeat, ToSet
<1> HIDE DEF l
<1>5. /\ ctx.sources = l /\ ctx.mapped = <<>> /\ ctx.dynamic = <<>> /\ ctx.used = conf.uris
      /\ ctx.drm = {} /\ ctx.cur_source = 1 /\ ctx.state = "MAP_INITIAL" /\ ctx.machine = "none"
    BY <1>3
<1>6. ctx \in Ctx
    BY <1>2, <1>3, <1>4 DEF Ctx, MapStates
<1>7. src = [i \in Ids |->
                [uri |-> IF i <= conf.uris /\ conf.mode # "mapped" THEN "own" ELSE "none",
                 reader |-> "none", opens |-> 0, open |-> FALSE, parsed |-> 0]]
    BY <1>1 DEF Start
<1>8. src \in [Ids -> Source] /\ Fresh(src)
    BY <1>7 DEF Source, Fresh
<1>9. Running(rq) /\ Clean(rq)
    BY <1>1 DEF Start, Running, Clean, Request
<1>10. Untouched(conf, ctx)
    BY <1>5 DEF Untouched, l
<1>11. NoRepeat(<<>>) /\ ToSet(<<>>) = {} /\ AllOwn(<<>>)
    BY DEF NoRepeat, ToSet, AllOwn
<1>12. Listed(ctx, 1 .. ctx.used)
    BY <1>4, <1>5, <1>11 DEF Listed
<1>13. Apart(conf, ctx)
    BY <1>2, <1>4, <1>5, <1>12 DEF Apart, Served
<1>14. ASSUME conf.mode # "mapped" PROVE Ready(conf, ctx, src)
  <2>1. ASSUME NEW i \in DOMAIN l PROVE src[l[i]].uri = "own"
    <3>1. l[i] \in 1 .. conf.uris /\ l[i] \in Ids
        BY <1>2 DEF l, Ids
    <3> QED
        BY <1>2, <1>7, <1>14, <3>1
  <2>2. Settled(conf, ctx, src)
      BY <1>4, <1>5, <1>11, <2>1 DEF Settled, Served, Named
  <2> QED
      BY <1>5, <1>8, <2>2 DEF Ready
<1> QED
    BY <1>2, <1>4, <1>5, <1>6, <1>8, <1>9, <1>10, <1>13, <1>14

\* The actions of the content handler.
LEMMA HandlerStep ==
    ASSUME IInv, Handler
    PROVE  IInv'
<1>1. pc = "start"
    BY DEF Handler, handler_answers, response_cached, local_request_handler,
           remote_request_handler, mapped_request_handler
<1>2. /\ ctx \in Ctx /\ src \in [Ids -> Source] /\ Running(rq) /\ Clean(rq)
      /\ Fresh(src) /\ Untouched(conf, ctx) /\ ctx.drm = {} /\ ctx.cur_source = 1
      /\ ctx.state = "MAP_INITIAL" /\ ctx.machine = "none"
      /\ Apart(conf, ctx) /\ Len(ctx.sources) = conf.uris /\ conf.uris \in 1 .. MaxSources
      /\ conf.mode # "mapped" => Ready(conf, ctx, src)
    BY <1>1, AtStart
<1>3. CASE Return(ctx, rq, "STATUS")
  <2>1. ResponseOK(conf, ctx, rq)
      BY <1>2 DEF ResponseOK, ClipBegun
  <2> QED
      BY <1>2, <1>3, <2>1, FailStep
<1>4. CASE Return(ctx, Answer(rq), "OK")
    BY <1>2, <1>4, AnswerFacts, ReturnStep
<1>5. CASE start_processing_media_file(ctx) /\ conf.mode # "mapped"
    BY <1>2, <1>5, StartStep
<1>6. CASE mapped_request_handler
  <2> DEFINE v == IF conf.upstream THEN 0 ELSE MaxStaleRetries
             a == [ctx EXCEPT !.machine = "media_set"]
             d == [a EXCEPT !.stale_retries = v]
  <2>1. Continue(d, rq, "map") /\ src' = src
      BY <1>6 DEF mapped_request_handler
  <2>9. v \in 0 .. MaxStaleRetries
      BY FlowAssumption
  <2> HIDE DEF v
  <2>10. /\ a \in Ctx /\ a.machine = "media_set" /\ a.state = "MAP_INITIAL"
         /\ a.sources = ctx.sources /\ a.mapped = ctx.mapped /\ a.dynamic = ctx.dynamic
         /\ a.used = ctx.used /\ a.cur_source = 1 /\ a.drm = {}
      BY <1>2 DEF Ctx, Mappers
  <2> HIDE DEF a
  <2>2. /\ d \in Ctx /\ d.machine = "media_set" /\ d.state = "MAP_INITIAL"
        /\ d.sources = ctx.sources /\ d.mapped = ctx.mapped /\ d.dynamic = ctx.dynamic
        /\ d.used = ctx.used /\ d.cur_source = 1 /\ d.drm = {}
      BY <2>9, <2>10 DEF Ctx
  <2> HIDE DEF d
  <2>3. Apart(conf, d) /\ Untouched(conf, d)
      BY <1>2, <2>2 DEF Apart, Served, Listed, Untouched
  <2>4. ASSUME NEW i \in DOMAIN d.sources PROVE ~Done(d.cur_source, i)
    <3>1. i \in Nat /\ i >= 1
        BY <2>2, FirstFacts DEF Ctx
    <3> QED
        BY <2>2, <3>1 DEF Done
  <2>5. MediaSetOK(conf, d, src)
      BY <1>2, <2>2, <2>3, <2>4 DEF MediaSetOK
  <2>6. MapOK(conf, d, src)
      BY <1>2, <2>2, <2>3, <2>5 DEF MapOK, Mappers, MapStates
  <2>7. ResponseOK(conf, d, rq)
      BY <1>2, <2>2 DEF ResponseOK, ClipBegun
  <2>8. Runs(conf, d, src', rq, "map")
      BY <1>2, <2>1, <2>2, <2>6, <2>7 DEF Runs
  <2> QED
      BY <2>1, <2>8, ContinueStep DEF RunningAt
<1> QED
    BY <1>3, <1>4, <1>5, <1>6 DEF Handler, handler_answers, response_cached,
       local_request_handler, remote_request_handler


-----------------------------------------------------------------------------
(* Lists of sources *)

\* Two lists, one after the other.
LEMMA ConcatFacts ==
    ASSUME NEW T, NEW p \in Seq(T), NEW q \in Seq(T)
    PROVE  /\ p \o q \in Seq(T)
           /\ ToSet(p \o q) = ToSet(p) \cup ToSet(q)
           /\ NoRepeat(p) /\ NoRepeat(q) /\ ToSet(p) \cap ToSet(q) = {} => NoRepeat(p \o q)
           /\ q # <<>> => p \o q # <<>>
<1> DEFINE r == p \o q
           m == Len(p)
           n == Len(q)
<1>1. m \in Nat /\ n \in Nat /\ r \in Seq(T) /\ Len(r) = m + n
    BY ConcatProperties
<1>2. \A i \in 1 .. m + n : r[i] = IF i <= m THEN p[i] ELSE q[i - m]
    BY ConcatProperties
<1>3. DOMAIN p = 1 .. m /\ DOMAIN q = 1 .. n /\ DOMAIN r = 1 .. m + n
    BY <1>1, LenProperties
<1> HIDE DEF r, m, n
<1>4. ASSUME NEW x \in ToSet(r) PROVE x \in ToSet(p) \cup ToSet(q)
  <2>1. PICK i \in 1 .. m + n : r[i] = x
      BY <1>3 DEF ToSet
  <2>2. CASE i <= m
    <3>1. i \in 1 .. m /\ p[i] = x
        BY <1>1, <1>2, <2>1, <2>2
    <3> QED
        BY <1>3, <3>1 DEF ToSet
  <2>3. CASE i > m
    <3>1. i - m \in 1 .. n /\ q[i - m] = x
        BY <1>1, <1>2, <2>1, <2>3
    <3> QED
        BY <1>3, <3>1 DEF ToSet
  <2> QED
      BY <1>1, <2>2, <2>3
<1>5. ASSUME NEW x \in ToSet(p) PROVE x \in ToSet(r)
  <2>1. PICK i \in 1 .. m : p[i] = x
      BY <1>3 DEF ToSet
  <2>2. i \in 1 .. m + n /\ r[i] = x
      BY <1>1, <1>2, <2>1
  <2> QED
      BY <1>3, <2>2 DEF ToSet
<1>6. ASSUME NEW x \in ToSet(q) PROVE x \in ToSet(r)
  <2>1. PICK i \in 1 .. n : q[i] = x
      BY <1>3 DEF ToSet
  <2>2. m + i \in 1 .. m + n /\ r[m + i] = x
      BY <1>1, <1>2, <2>1
  <2> QED
      BY <1>3, <2>2 DEF ToSet
<1>7. ASSUME NoRepeat(p), NoRepeat(q), ToSet(p) \cap ToSet(q) = {} PROVE NoRepeat(r)
  <2> SUFFICES ASSUME NEW i \in 1 .. m + n, NEW j \in 1 .. m + n, r[i] = r[j] PROVE i = j
      BY <1>3 DEF NoRepeat
  <2>1. CASE i <= m /\ j <= m
      BY <1>1, <1>2, <1>3, <1>7, <2>1 DEF NoRepeat
  <2>2. CASE i > m /\ j > m
    <3>1. i - m \in 1 .. n /\ j - m \in 1 .. n /\ q[i - m] = q[j - m]
        BY <1>1, <1>2, <2>2
    <3>2. i - m = j - m
        BY <1>3, <1>7, <3>1 DEF NoRepeat
    <3> QED
        BY <1>1, <3>2
  <2>3. CASE i <= m /\ j > m
    <3>1. i \in 1 .. m /\ j - m \in 1 .. n /\ p[i] = q[j - m]
        BY <1>1, <1>2, <2>3
    <3> QED
        BY <1>3, <1>7, <3>1 DEF ToSet
  <2>4. CASE i > m /\ j <= m
    <3>1. j \in 1 .. m /\ i - m \in 1 .. n /\ p[j] = q[i - m]
        BY <1>1, <1>2, <2>4
    <3> QED
        BY <1>3, <1>7, <3>1 DEF ToSet
  <2> QED
      BY <1>1, <2>1, <2>2, <2>3, <2>4
<1>8. ASSUME q # <<>> PROVE r # <<>>
  <2>1. n # 0
      BY <1>8, EmptySeq DEF n
  <2> QED
      BY <1>1, <2>1, EmptySeq
<1>9. ToSet(r) = ToSet(p) \cup ToSet(q)
    BY <1>4, <1>5, <1>6
<1> QED
    BY <1>1, <1>7, <1>8, <1>9 DEF r

\* The new sources.
LEMMA NewIdsFacts ==
    ASSUME NEW c, c.used \in Nat, NEW n \in Nat, c.used + n <= MaxSources
    PROVE  /\ NewIds(c, n) \in Seq(Ids) /\ NoRepeat(NewIds(c, n))
           /\ ToSet(NewIds(c, n)) = c.used + 1 .. c.used + n
<1> DEFINE l == NewIds(c, n)
<1>1. l = [i \in 1 .. n |-> c.used + i]
    BY DEF NewIds
<1> HIDE DEF l
<1>2. \A i \in 1 .. n : l[i] = c.used + i /\ c.used + i \in Ids
    BY <1>1, FlowAssumption DEF Ids
<1>3. l \in Seq(Ids) /\ DOMAIN l = 1 .. n
    BY <1>1, <1>2
<1>4. NoRepeat(l)
    BY <1>2, <1>3 DEF NoRepeat
<1>5. ToSet(l) = c.used + 1 .. c.used + n
  <2>1. ASSUME NEW x \in c.used + 1 .. c.used + n PROVE x \in ToSet(l)
    <3>1. x - c.used \in 1 .. n /\ l[x - c.used] = x
        BY <1>2
    <3> QED
        BY <1>3, <3>1 DEF ToSet
  <2>2. ASSUME NEW x \in ToSet(l) PROVE x \in c.used + 1 .. c.used + n
      BY <1>2, <1>3 DEF ToSet
  <2> QED
      BY <2>1, <2>2
<1> QED
    BY <1>3, <1>4, <1>5 DEF l

\* A step that only changes the lists of sources.
SameButLists(c, d) ==
    /\ d.machine = c.machine /\ d.state = c.state /\ d.dynamic = c.dynamic
    /\ d.cur_source = c.cur_source /\ d.cur_clip = c.cur_clip /\ d.drm = c.drm

\* d has n more sources and m more that have to be mapped.
Added(c, n, m, T, d) ==
    /\ d \in Ctx /\ SameButLists(c, d)
    /\ Listed(d, T \cup (c.used + 1 .. c.used + n + m)) /\ d.used = c.used + n + m
    /\ ToSet(d.sources) = ToSet(c.sources) \cup (c.used + 1 .. c.used + n)
    /\ c.sources # <<>> => d.sources # <<>>

\* New sources in front of the lists.
LEMMA AddedFacts ==
    ASSUME NEW c \in Ctx, NEW n \in Nat, NEW m \in Nat, c.used + n + m <= MaxSources,
           NEW T, T \subseteq 1 .. c.used, Listed(c, T), NEW d, d = AddSources(c, n, m)
    PROVE  Added(c, n, m, T, d)
<1> DEFINE e == [c EXCEPT !.used = @ + n]
           a == NewIds(c, n)
           b == NewIds(e, m)
<1>1. c.used \in Nat /\ c.sources \in Seq(Ids) /\ c.mapped \in Seq(Ids) /\ MaxSources \in Nat
    BY FlowAssumption DEF Ctx
<1>2. e.used = c.used + n
    BY DEF Ctx
<1>3. d = [c EXCEPT !.sources = a \o c.sources, !.mapped = b \o c.mapped,
                    !.used = c.used + n + m]
    BY DEF AddSources
<1>4. a \in Seq(Ids) /\ NoRepeat(a) /\ ToSet(a) = c.used + 1 .. c.used + n
  <2>1. c.used + n <= MaxSources
      BY <1>1
  <2> QED
      BY <1>1, <2>1, NewIdsFacts
<1> HIDE DEF a, e
<1>5. b \in Seq(Ids) /\ NoRepeat(b) /\ ToSet(b) = c.used + n + 1 .. c.used + n + m
  <2>1. e.used \in Nat /\ e.used + m <= MaxSources
      BY <1>1, <1>2
  <2> QED
      BY <1>2, <2>1, NewIdsFacts
<1> HIDE DEF b
<1> DEFINE p == a \o c.sources
           q == b \o c.mapped
<1>6. /\ ToSet(a) \cap ToSet(b) = {}
      /\ ToSet(a) \cap T = {} /\ ToSet(b) \cap T = {}
      /\ ToSet(a) \cup ToSet(b) = c.used + 1 .. c.used + n + m
    BY <1>1, <1>4, <1>5, SMTT(60)
<1>7. /\ NoRepeat(c.sources) /\ NoRepeat(c.mapped)
      /\ ToSet(c.sources) \cap ToSet(c.mapped) = {}
      /\ ToSet(c.sources) \cup ToSet(c.mapped) = T
    BY DEF Listed
<1>8. /\ p \in Seq(Ids) /\ ToSet(p) = ToSet(a) \cup ToSet(c.sources)
      /\ NoRepeat(p) /\ (c.sources # <<>> => p # <<>>)
  <2>1. ToSet(a) \cap ToSet(c.sources) = {}
      BY <1>6, <1>7
  <2> QED
      BY <1>1, <1>4, <1>7, <2>1, ConcatFacts, SMTT(60)
<1>9. q \in Seq(Ids) /\ ToSet(q) = ToSet(b) \cup ToSet(c.mapped) /\ NoRepeat(q)
  <2>1. ToSet(b) \cap ToSet(c.mapped) = {}
      BY <1>6, <1>7
  <2> QED
      BY <1>1, <1>5, <1>7, <2>1, ConcatFacts, SMTT(60)
<1>10. d = [c EXCEPT !.sources = p, !.mapped = q, !.used = c.used + n + m]
    BY <1>3
<1> HIDE DEF p, q
<1>11. c.used + n + m \in 0 .. MaxSources
    BY <1>1
<1>12. /\ d \in Ctx /\ SameButLists(c, d)
       /\ d.sources = p /\ d.mapped = q /\ d.used = c.used + n + m
  <2> DEFINE x == [c EXCEPT !.sources = p]
             y == [x EXCEPT !.mapped = q]
             z == c.used + n + m
  <2>1. d = [y EXCEPT !.used = z]
      BY <1>10
  <2>2. x \in Ctx /\ SameButLists(c, x) /\ x.sources = p
      BY <1>8 DEF Ctx, SameButLists
  <2> HIDE DEF x, z
  <2>3. y \in Ctx /\ SameButLists(c, y) /\ y.sources = p /\ y.mapped = q
      BY <1>9, <2>2 DEF Ctx, SameButLists
  <2> HIDE DEF y
  <2>4. z \in 0 .. MaxSources
      BY <1>11 DEF z
  <2>5. d \in Ctx /\ SameButLists(c, d) /\ d.sources = p /\ d.mapped = q /\ d.used = z
      BY <2>1, <2>3, <2>4, ZenonT(60) DEF Ctx, SameButLists
  <2> QED
      BY <2>5 DEF z
<1>13. Listed(d, T \cup (c.used + 1 .. c.used + n + m))
  <2>1. ToSet(p) \cap ToSet(q) = {}
      BY <1>6, <1>7, <1>8, <1>9
  <2>2. ToSet(p) \cup ToSet(q) = T \cup (c.used + 1 .. c.used + n + m)
      BY <1>6, <1>7, <1>8, <1>9
  <2> QED
      BY <1>8, <1>9, <1>12, <2>1, <2>2 DEF Listed
<1> QED
    BY <1>4, <1>8, <1>12, <1>13 DEF Added

-----------------------------------------------------------------------------
(* Applying a mapping *)

\* The sources T get the uri of their own mapping.
Renamed(s, t, T) ==
    /\ t \in [Ids -> Source]
    /\ \A i \in Ids : /\ t[i].opens = s[i].opens /\ t[i].parsed = s[i].parsed
                      /\ t[i].uri = IF i \in T THEN "own" ELSE s[i].uri

\* Setting the uri of one source.
LEMMA SetUriFacts ==
    ASSUME NEW s \in [Ids -> Source], NEW n \in Ids
    PROVE  Renamed(s, [s EXCEPT ![n].uri = "own"], {n})
<1> DEFINE y == [s[n] EXCEPT !.uri = "own"]
           t == [s EXCEPT ![n] = y]
<1>1. [s EXCEPT ![n].uri = "own"] = t
    OBVIOUS
<1>2. ASSUME NEW x \in Source
      PROVE  LET z == [x EXCEPT !.uri = "own"]
             IN  z \in Source /\ z.opens = x.opens /\ z.parsed = x.parsed /\ z.uri = "own"
    BY DEF Source
<1>3. y \in Source /\ y.opens = s[n].opens /\ y.parsed = s[n].parsed /\ y.uri = "own"
    BY <1>2
<1> HIDE DEF y
<1>4. t \in [Ids -> Source] /\ t[n] = y /\ \A i \in Ids \ {n} : t[i] = s[i]
    BY <1>3
<1> QED
    BY <1>1, <1>3, <1>4 DEF Renamed

\* Setting the uri of new sources.
LEMMA WithUriFacts ==
    ASSUME src \in [Ids -> Source], NEW c, NEW n
    PROVE  Renamed(src, WithUri(c, n, "own"), c.used + 1 .. c.used + n)
<1> DEFINE t == WithUri(c, n, "own")
           T == c.used + 1 .. c.used + n
<1>1. t = [i \in Ids |-> IF i \in T THEN [src[i] EXCEPT !.uri = "own"] ELSE src[i]]
    BY DEF WithUri
<1> HIDE DEF t, T
<1>2. ASSUME NEW x \in Source
      PROVE  LET z == [x EXCEPT !.uri = "own"]
             IN  z \in Source /\ z.opens = x.opens /\ z.parsed = x.parsed /\ z.uri = "own"
    BY DEF Source
<1>3. ASSUME NEW i \in Ids
      PROVE  /\ t[i] \in Source /\ t[i].opens = src[i].opens /\ t[i].parsed = src[i].parsed
             /\ t[i].uri = IF i \in T THEN "own" ELSE src[i].uri
  <2>1. CASE i \in T
    <3>1. t[i] = [src[i] EXCEPT !.uri = "own"] /\ src[i] \in Source
        BY <1>1, <2>1
    <3> QED
        BY <1>2, <2>1, <3>1
  <2>2. CASE i \notin T
    <3>1. t[i] = src[i] /\ src[i] \in Source
        BY <1>1, <2>2
    <3> QED
        BY <2>2, <3>1
  <2> QED
      BY <2>1, <2>2
<1>4. t \in [Ids -> Source]
    BY <1>1, <1>3
<1> QED
    BY <1>3, <1>4 DEF Renamed, t, T

\* A mapping does not undo what other mappings did.
LEMMA RenamedFacts ==
    ASSUME NEW s \in [Ids -> Source], NEW t, NEW T, Renamed(s, t, T)
    PROVE  /\ Fresh(s) => Fresh(t)
           /\ \A i \in Ids : s[i].uri = "own" \/ i \in T => t[i].uri = "own"
    BY DEF Renamed, Fresh

\* The position of the next item.
LEMMA AfterFacts ==
    ASSUME NEW T, NEW l \in Seq(T), NEW i \in Nat, i # 0, i <= Len(l)
    PROVE  /\ After(l, i) \in Nat /\ After(l, i) <= Len(l)
           /\ \A j \in DOMAIN l : Done(After(l, i), j) => Done(i, j) \/ j = i
<1>1. Len(l) \in Nat /\ DOMAIN l = 1 .. Len(l)
    BY LenProperties
<1>2. \A j \in DOMAIN l : j \in Nat /\ j <= Len(l)
    BY <1>1
<1> QED
    BY <1>1, <1>2 DEF After, Done

SameLists(c, d) ==
    /\ d.machine = c.machine /\ d.state = c.state /\ d.drm = c.drm
    /\ d.sources = c.sources /\ d.mapped = c.mapped /\ d.dynamic = c.dynamic
    /\ d.used = c.used

\* The machine moves on to the next item of its list.
LEMMA AdvanceFacts ==
    ASSUME NEW c \in Ctx, NEW d, d = Advance(c)
    PROVE  /\ c.machine = "media_set" =>
                /\ d \in Ctx /\ SameLists(c, d)
                /\ d.cur_source = IF c.cur_source = 0 THEN 0 ELSE After(c.sources, c.cur_source)
           /\ c.machine = "dynamic" =>
                d \in Ctx /\ SameLists(c, d) /\ d.cur_clip = After(c.dynamic, c.cur_clip)
           /\ c.machine = "source_clip" =>
                d \in Ctx /\ SameLists(c, d) /\ d.cur_clip = After(c.mapped, c.cur_clip)
<1>1. c.cur_source \in Nat /\ c.cur_clip \in Nat
    BY DEF Ctx
<1>2. \A l, i : i \in Nat => After(l, i) \in Nat
    BY DEF After
<1>3. CASE c.machine = "media_set"
  <2> DEFINE v == IF c.cur_source = 0 THEN 0 ELSE After(c.sources, c.cur_source)
  <2>1. v \in Nat
      BY <1>1, <1>2
  <2>2. d = [c EXCEPT !.cur_source = v]
      BY <1>3 DEF Advance
  <2> HIDE DEF v
  <2>3. d \in Ctx /\ SameLists(c, d) /\ d.cur_source = v
      BY <2>1, <2>2 DEF Ctx, SameLists
  <2> QED
      BY <1>3, <2>3 DEF v
<1>4. CASE c.machine = "dynamic"
  <2> DEFINE v == After(c.dynamic, c.cur_clip)
  <2>1. v \in Nat
      BY <1>1, <1>2
  <2>2. d = [c EXCEPT !.cur_clip = v]
      BY <1>4 DEF Advance
  <2> HIDE DEF v
  <2>3. d \in Ctx /\ SameLists(c, d) /\ d.cur_clip = v
      BY <2>1, <2>2 DEF Ctx, SameLists
  <2> QED
      BY <1>4, <2>3 DEF v
<1>5. CASE c.machine = "source_clip"
  <2> DEFINE v == After(c.mapped, c.cur_clip)
  <2>1. v \in Nat
      BY <1>1, <1>2
  <2>2. d = [c EXCEPT !.cur_clip = v]
      BY <1>5 DEF Advance
  <2> HIDE DEF v
  <2>3. d \in Ctx /\ SameLists(c, d) /\ d.cur_clip = v
      BY <2>1, <2>2 DEF Ctx, SameLists
  <2> QED
      BY <1>5, <2>3 DEF v
<1> QED
    BY <1>3, <1>4, <1>5

\* The lists are apart as before.
LEMMA ApartFrame ==
    ASSUME NEW k, NEW c, NEW d, SameLists(c, d), Apart(k, c)
    PROVE  Apart(k, d)
<1>1. d.sources = c.sources /\ d.mapped = c.mapped /\ d.used = c.used
    BY DEF SameLists
<1> QED
    BY <1>1 DEF Apart, Served, Listed

\* A mapping machine goes on with the next item.
LEMMA MappedStep ==
    ASSUME IInv, NEW d \in Ctx, src' \in [Ids -> Source], Running(rq), Clean(rq),
           MapOK(conf, d, src'), d.state = "MAP_INITIAL", Continue(d, rq, "map")
    PROVE  IInv'
<1>1. ResponseOK(conf, d, rq)
    BY DEF ResponseOK, ClipBegun
<1>2. Runs(conf, d, src', rq, "map")
    BY <1>1 DEF Runs
<1> QED
    BY <1>2, ContinueStep DEF RunningAt

\* Where a mapping is applied.
Applying(k, c, s) ==
    /\ MapOK(k, c, s) /\ CurItem(c).index # 0 /\ c.state = "MAP_INITIAL"

\* The mapping of a uri is a path.
LEMMA PathStep ==
    ASSUME IInv, NEW c \in Ctx, src \in [Ids -> Source], Running(rq), Clean(rq),
           Applying(conf, c, src), c.machine = "media_set",
           Continue(Advance(c), rq, "map"), src' = [src EXCEPT ![CurSource(c)].uri = "own"]
    PROVE  IInv'
<1> DEFINE d == Advance(c)
           n == CurSource(c)
<1>1. /\ MediaSetOK(conf, c, src) /\ c.cur_source # 0 /\ Fresh(src) /\ Apart(conf, c)
      /\ c.drm = {} /\ c.state = "MAP_INITIAL"
    BY DEF Applying, MapOK, CurItem
<1>2. Untouched(conf, c) /\ c.cur_source <= Len(c.sources)
    BY <1>1 DEF MediaSetOK
<1>3. n \in Ids /\ c.cur_source \in DOMAIN c.sources
    BY <1>1, <1>2, CurSourceFacts
<1>4. Renamed(src, src', {n})
    BY <1>3, SetUriFacts
<1>5. src' \in [Ids -> Source] /\ Fresh(src')
    BY <1>1, <1>4, RenamedFacts, ZenonT(60) DEF Renamed
<1>6. /\ d \in Ctx /\ SameLists(c, d) /\ d.cur_source = After(c.sources, c.cur_source)
    BY <1>1, AdvanceFacts
<1>7. Continue(d, rq, "map")
    OBVIOUS
<1> HIDE DEF d, n
<1>8. /\ d.sources = c.sources /\ d.mapped = c.mapped /\ d.dynamic = c.dynamic
      /\ d.used = c.used /\ d.machine = "media_set" /\ d.state = "MAP_INITIAL" /\ d.drm = {}
    BY <1>1, <1>6 DEF SameLists
<1>9. /\ d.cur_source <= Len(c.sources)
      /\ \A j \in DOMAIN c.sources :
            Done(d.cur_source, j) => Done(c.cur_source, j) \/ j = c.cur_source
  <2>1. c.sources \in Seq(Ids) /\ c.cur_source \in Nat
      BY DEF Ctx
  <2> QED
      BY <1>1, <1>2, <1>6, <2>1, AfterFacts
<1>10. Untouched(conf, d)
    BY <1>2, <1>8 DEF Untouched
<1>11. ASSUME NEW i \in DOMAIN d.sources, Done(d.cur_source, i)
       PROVE  src'[d.sources[i]].uri = "own"
  <2>1. d.sources[i] = c.sources[i] /\ c.sources[i] \in Ids /\ i \in DOMAIN c.sources
      BY <1>8 DEF Ctx
  <2>2. src[c.sources[i]].uri = "own" \/ c.sources[i] = n
      BY <1>1, <1>9, <1>11, <2>1 DEF MediaSetOK, CurSource, n
  <2> QED
      BY <1>4, <2>1, <2>2, RenamedFacts
<1>12. MediaSetOK(conf, d, src')
    BY <1>8, <1>9, <1>10, <1>11 DEF MediaSetOK
<1>13. MapOK(conf, d, src')
    BY <1>1, <1>5, <1>6, <1>8, <1>12, ApartFrame, SMTT(60) DEF MapOK, Mappers, MapStates
<1> QED
    BY <1>5, <1>6, <1>7, <1>8, <1>13, MappedStep

\* The mapping of a source clip is a path.
LEMMA ClipPathStep ==
    ASSUME IInv, NEW c \in Ctx, src \in [Ids -> Source], Running(rq), Clean(rq),
           Applying(conf, c, src), c.machine = "source_clip",
           Continue(Advance(c), rq, "map"),
           src' = [src EXCEPT ![c.mapped[c.cur_clip]].uri = "own"]
    PROVE  IInv'
<1> DEFINE d == Advance(c)
           n == c.mapped[c.cur_clip]
<1>1. /\ SourceClipOK(c, src) /\ c.cur_clip # 0 /\ Fresh(src) /\ Apart(conf, c)
      /\ c.drm = {} /\ c.state = "MAP_INITIAL"
    BY DEF Applying, MapOK, CurItem
<1>2. c.mapped \in Seq(Ids) /\ c.cur_clip \in Nat /\ c.cur_clip <= Len(c.mapped)
    BY <1>1 DEF Ctx, SourceClipOK
<1>3. n \in Ids
    BY <1>1, <1>2
<1>4. Renamed(src, src', {n})
    BY <1>3, SetUriFacts
<1>5. src' \in [Ids -> Source] /\ Fresh(src')
  <2>1. src' \in [Ids -> Source]
      BY <1>4 DEF Renamed
  <2> QED
      BY <1>1, <1>4, <2>1, RenamedFacts
<1>6. /\ d \in Ctx /\ SameLists(c, d) /\ d.cur_clip = After(c.mapped, c.cur_clip)
    BY AdvanceFacts
<1>7. Continue(d, rq, "map")
    OBVIOUS
<1> HIDE DEF d, n
<1>8. /\ d.sources = c.sources /\ d.mapped = c.mapped /\ d.dynamic = c.dynamic
      /\ d.used = c.used /\ d.machine = "source_clip" /\ d.state = "MAP_INITIAL" /\ d.drm = {}
    BY <1>1, <1>6 DEF SameLists
<1>9. /\ d.cur_clip <= Len(c.mapped)
      /\ \A j \in DOMAIN c.mapped :
            Done(d.cur_clip, j) => Done(c.cur_clip, j) \/ j = c.cur_clip
    BY <1>1, <1>2, <1>6, AfterFacts
<1>10. ASSUME NEW i \in DOMAIN d.sources PROVE src'[d.sources[i]].uri = "own"
  <2>1. d.sources[i] = c.sources[i] /\ c.sources[i] \in Ids /\ i \in DOMAIN c.sources
      BY <1>8 DEF Ctx
  <2>2. src[c.sources[i]].uri = "own"
      BY <1>1, <2>1 DEF SourceClipOK, Named
  <2> QED
      BY <1>4, <2>1, <2>2, RenamedFacts
<1>11. ASSUME NEW i \in DOMAIN d.mapped, Done(d.cur_clip, i)
       PROVE  src'[d.mapped[i]].uri = "own"
  <2>1. d.mapped[i] = c.mapped[i] /\ c.mapped[i] \in Ids /\ i \in DOMAIN c.mapped
      BY <1>8 DEF Ctx
  <2>2. src[c.mapped[i]].uri = "own" \/ c.mapped[i] = n
      BY <1>1, <1>9, <1>11, <2>1 DEF SourceClipOK, n
  <2> QED
      BY <1>4, <2>1, <2>2, RenamedFacts
<1>12. SourceClipOK(d, src')
    BY <1>1, <1>8, <1>9, <1>10, <1>11 DEF SourceClipOK, Named
<1>13. MapOK(conf, d, src')
    BY <1>1, <1>5, <1>6, <1>8, <1>12, ApartFrame DEF MapOK, Mappers, MapStates
<1> QED
    BY <1>5, <1>6, <1>7, <1>8, <1>13, MappedStep

\* New sources keep the lists apart.
LEMMA AddedApart ==
    ASSUME NEW k \in Configuration, NEW c \in Ctx, NEW n \in Nat, NEW m \in Nat,
           c.used + n + m <= MaxSources, Apart(k, c), NEW d, d = AddSources(c, n, m)
    PROVE  /\ d \in Ctx /\ SameButLists(c, d) /\ Apart(k, d)
           /\ ToSet(d.sources) = ToSet(c.sources) \cup (c.used + 1 .. c.used + n)
<1>1. k.uris \in Nat /\ c.used \in Nat /\ k.uris <= c.used
    BY FlowAssumption, SMTT(60) DEF Configuration, Ctx, Apart
<1>3. CASE Listed(c, 1 .. c.used)
  <2>1. (1 .. c.used) \cup (c.used + 1 .. c.used + n + m) = 1 .. c.used + n + m
      BY <1>1
  <2>2. /\ d \in Ctx /\ SameButLists(c, d)
        /\ Listed(d, 1 .. c.used + n + m) /\ d.used = c.used + n + m
        /\ ToSet(d.sources) = ToSet(c.sources) \cup (c.used + 1 .. c.used + n)
        /\ c.sources # <<>> => d.sources # <<>>
    <3>1. Added(c, n, m, 1 .. c.used, d)
        BY <1>3, AddedFacts
    <3> QED
        BY <2>1, <3>1 DEF Added
  <2>3. k.uris <= d.used
      BY <1>1, <2>2
  <2> QED
      BY <2>2, <2>3 DEF Apart, Served
<1>4. CASE Listed(c, k.uris + 1 .. c.used)
  <2>1. /\ (k.uris + 1 .. c.used) \cup (c.used + 1 .. c.used + n + m)
             = k.uris + 1 .. c.used + n + m
        /\ k.uris + 1 .. c.used \subseteq 1 .. c.used
      BY <1>1
  <2>2. /\ d \in Ctx /\ SameButLists(c, d)
        /\ Listed(d, k.uris + 1 .. c.used + n + m) /\ d.used = c.used + n + m
        /\ ToSet(d.sources) = ToSet(c.sources) \cup (c.used + 1 .. c.used + n)
        /\ c.sources # <<>> => d.sources # <<>>
    <3>1. Added(c, n, m, k.uris + 1 .. c.used, d)
        BY <1>4, <2>1, AddedFacts
    <3> QED
        BY <2>1, <3>1 DEF Added
  <2>3. k.uris <= d.used
      BY <1>1, <2>2
  <2> QED
      BY <2>2, <2>3 DEF Apart, Served
<1> QED
    BY <1>3, <1>4 DEF Apart

\* A source of a list is one of its set.
LEMMA NamedBySet ==
    ASSUME NEW c \in Ctx, NEW s, \A x \in ToSet(c.sources) : s[x].uri = "own"
    PROVE  Named(c, s)
    BY DEF Named, ToSet

\* The sources of the set have the uri of their mapping.
LEMMA SetOfNamed ==
    ASSUME NEW c \in Ctx, NEW s, Named(c, s)
    PROVE  \A x \in ToSet(c.sources) : x \in Ids /\ s[x].uri = "own"
    BY DEF Named, ToSet, Ctx

\* A dynamic clip is mapped to a source, or to one that has to be mapped.
LEMMA DynamicStep ==
    ASSUME IInv, NEW c \in Ctx, src \in [Ids -> Source], Running(rq), Clean(rq),
           Applying(conf, c, src), c.machine = "dynamic",
           NEW n \in {0, 1}, c.used < MaxSources,
           Continue(Advance([AddSources(c, n, 1 - n) EXCEPT !.dynamic[c.cur_clip] = "own"]),
                    rq, "map"),
           src' = WithUri(c, n, "own")
    PROVE  IInv'
<1> DEFINE y == AddSources(c, n, 1 - n)
           z == [y EXCEPT !.dynamic[c.cur_clip] = "own"]
           d == Advance(z)
<1>0. Continue(d, rq, "map")
    OBVIOUS
<1>1. /\ DynamicOK(c, src) /\ c.cur_clip # 0 /\ Fresh(src) /\ Apart(conf, c)
      /\ c.drm = {} /\ c.state = "MAP_INITIAL"
    BY DEF Applying, MapOK, CurItem
<1>2. /\ conf \in Configuration /\ c.used \in Nat /\ MaxSources \in Nat /\ c.cur_clip \in Nat
      /\ c.dynamic \in Seq({"none", "own", "other"}) /\ c.cur_clip <= Len(c.dynamic)
    BY <1>1, FlowAssumption DEF IInv, Ctx, DynamicOK
<1>3. n \in Nat /\ 1 - n \in Nat /\ c.used + n + (1 - n) <= MaxSources
    BY <1>2
<1>4. /\ y \in Ctx /\ SameButLists(c, y) /\ Apart(conf, y)
      /\ ToSet(y.sources) = ToSet(c.sources) \cup (c.used + 1 .. c.used + n)
    BY <1>1, <1>2, <1>3, AddedApart
<1> HIDE DEF y
<1>5. /\ y.machine = "dynamic" /\ y.state = "MAP_INITIAL" /\ y.drm = {}
      /\ y.dynamic = c.dynamic /\ y.cur_clip = c.cur_clip
    BY <1>1, <1>4 DEF SameButLists
<1> DEFINE l == [c.dynamic EXCEPT ![c.cur_clip] = "own"]
<1>6. z = [y EXCEPT !.dynamic = l]
    BY <1>5
<1>7. c.cur_clip \in DOMAIN c.dynamic /\ DOMAIN l = DOMAIN c.dynamic
    BY <1>1, <1>2
<1>8. l \in Seq({"none", "own", "other"}) /\ Len(l) = Len(c.dynamic)
    BY <1>2, <1>7, ExceptSeq
<1>9. \A j \in DOMAIN l : l[j] = IF j = c.cur_clip THEN "own" ELSE c.dynamic[j]
    BY <1>7
<1> HIDE DEF l, z
<1>10. /\ z \in Ctx /\ z.machine = "dynamic" /\ z.state = "MAP_INITIAL" /\ z.drm = {}
       /\ z.dynamic = l /\ z.cur_clip = c.cur_clip
       /\ z.sources = y.sources /\ z.mapped = y.mapped /\ z.used = y.used
    BY <1>4, <1>5, <1>6, <1>8 DEF Ctx
<1>11. Apart(conf, z)
    BY <1>4, <1>10 DEF Apart, Served, Listed
<1>12. d \in Ctx /\ SameLists(z, d) /\ d.cur_clip = After(l, c.cur_clip)
    BY <1>10, AdvanceFacts
<1> HIDE DEF d
<1>13. /\ d.machine = "dynamic" /\ d.state = "MAP_INITIAL" /\ d.drm = {}
       /\ d.dynamic = l /\ d.sources = y.sources
    BY <1>10, <1>12 DEF SameLists
<1>14. Renamed(src, src', c.used + 1 .. c.used + n)
    BY WithUriFacts
<1>15. src' \in [Ids -> Source] /\ Fresh(src')
  <2>1. src' \in [Ids -> Source]
      BY <1>14 DEF Renamed
  <2> QED
      BY <1>1, <1>14, <2>1, RenamedFacts
<1>16. Named(d, src')
  <2>1. ASSUME NEW x \in ToSet(d.sources) PROVE src'[x].uri = "own"
    <3>1. x \in ToSet(c.sources) \/ x \in c.used + 1 .. c.used + n
        BY <1>4, <1>13
    <3>2. x \in ToSet(c.sources) => x \in Ids /\ src[x].uri = "own"
        BY <1>1, SetOfNamed DEF DynamicOK
    <3>3. x \in c.used + 1 .. c.used + n => x \in Ids
        BY <1>2 DEF Ids
    <3> QED
        BY <1>14, <3>1, <3>2, <3>3, RenamedFacts
  <2> QED
      BY <1>12, <2>1, NamedBySet
<1>17. /\ d.cur_clip <= Len(l)
       /\ \A j \in DOMAIN l : Done(d.cur_clip, j) => Done(c.cur_clip, j) \/ j = c.cur_clip
    BY <1>1, <1>2, <1>8, <1>12, AfterFacts
<1>18. ASSUME NEW j \in DOMAIN l, Done(d.cur_clip, j) PROVE l[j] = "own"
    BY <1>1, <1>7, <1>9, <1>17, <1>18 DEF DynamicOK
<1>19. DynamicOK(d, src')
    BY <1>13, <1>16, <1>17, <1>18 DEF DynamicOK
<1>20. MapOK(conf, d, src')
    BY <1>11, <1>12, <1>13, <1>15, <1>19, ApartFrame DEF MapOK, Mappers, MapStates
<1> QED
    BY <1>0, <1>12, <1>13, <1>15, <1>20, MappedStep

\* The fields of a media set that a mapping replaces.
Replaced(y, n, set) ==
    [y EXCEPT !.dynamic = [i \in 1 .. set.dynamic |-> "none"],
              !.notifications = n, !.cur_source = 0]

\* The lists of a replaced media set are those of y.
LEMMA ReplacedFacts ==
    ASSUME NEW y \in Ctx, NEW n \in Nat, NEW set \in MediaSet
    PROVE  LET z == Replaced(y, n, set)
           IN  /\ z \in Ctx /\ z.machine = y.machine /\ z.state = y.state /\ z.drm = y.drm
               /\ z.sources = y.sources /\ z.mapped = y.mapped /\ z.used = y.used
               /\ z.cur_source = 0
<1> DEFINE l == [i \in 1 .. set.dynamic |-> "none"]
           a == [y EXCEPT !.dynamic = l]
           b == [a EXCEPT !.notifications = n]
           z == [b EXCEPT !.cur_source = 0]
<1>1. set.dynamic \in Nat
    BY DEF MediaSet
<1>2. l \in Seq({"none", "own", "other"})
    BY <1>1
<1>3. Replaced(y, n, set) = z
    BY DEF Replaced
<1> HIDE DEF l
<1>4. /\ a \in Ctx /\ a.machine = y.machine /\ a.state = y.state /\ a.drm = y.drm
      /\ a.sources = y.sources /\ a.mapped = y.mapped /\ a.used = y.used
    BY <1>2 DEF Ctx
<1> HIDE DEF a
<1>5. /\ b \in Ctx /\ b.machine = y.machine /\ b.state = y.state /\ b.drm = y.drm
      /\ b.sources = y.sources /\ b.mapped = y.mapped /\ b.used = y.used
    BY <1>4 DEF Ctx
<1> HIDE DEF b
<1>6. /\ z \in Ctx /\ z.machine = y.machine /\ z.state = y.state /\ z.drm = y.drm
      /\ z.sources = y.sources /\ z.mapped = y.mapped /\ z.used = y.used
      /\ z.cur_source = 0
    BY <1>5 DEF Ctx
<1> HIDE DEF z
<1> QED
    BY <1>3, <1>6

\* A mapping replaces the media set of the uri.
LEMMA ReplaceStep ==
    ASSUME IInv, NEW c \in Ctx, src \in [Ids -> Source], Running(rq), Clean(rq),
           Applying(conf, c, src), c.machine = "media_set",
           NEW set \in MediaSets, ~Progressive,
           c.used + set.sources + set.mapped <= MaxSources,
           Continue(Advance(Replace(c, set)), rq, "map"),
           src' = WithUri(c, set.sources, "own")
    PROVE  IInv'
<1> DEFINE x == [c EXCEPT !.sources = <<>>]
           y == AddSources(x, set.sources, set.mapped)
           z == Replace(c, set)
           d == Advance(z)
<1>0. Continue(d, rq, "map")
    OBVIOUS
<1>1. /\ MediaSetOK(conf, c, src) /\ c.cur_source # 0 /\ Fresh(src)
      /\ c.drm = {} /\ c.state = "MAP_INITIAL"
    BY DEF Applying, MapOK, CurItem
<1>2. c.used = conf.uris /\ c.mapped = <<>>
    BY <1>1 DEF MediaSetOK, Untouched
<1>3. /\ conf \in Configuration /\ conf.uris \in Nat /\ MaxSources \in Nat /\ set \in MediaSet
      /\ set.sources \in Nat /\ set.mapped \in Nat /\ set.notifications \in Nat
    BY FlowAssumption DEF IInv, Configuration, MediaSet
<1>4. /\ x \in Ctx /\ x.machine = "media_set" /\ x.state = "MAP_INITIAL" /\ x.drm = {}
      /\ x.sources = <<>> /\ x.mapped = <<>> /\ x.used = conf.uris
    BY <1>1, <1>2 DEF Ctx
<1>5. z = Replaced(y, set.notifications, set)
    BY DEF Replace, Replaced
<1> HIDE DEF x, z
<1>6. NoRepeat(<<>>) /\ ToSet(<<>>) = {}
    BY DEF NoRepeat, ToSet
<1>7. Listed(x, {})
    BY <1>4, <1>6 DEF Listed
<1>8. Added(x, set.sources, set.mapped, {}, y)
  <2>1. x.used + set.sources + set.mapped <= MaxSources /\ {} \subseteq 1 .. x.used
      BY <1>2, <1>4
  <2> QED
      BY <1>3, <1>4, <1>7, <2>1, AddedFacts
<1> HIDE DEF y
<1>9. /\ y \in Ctx /\ y.machine = "media_set" /\ y.state = "MAP_INITIAL" /\ y.drm = {}
      /\ Listed(y, conf.uris + 1 .. y.used) /\ conf.uris <= y.used
      /\ ToSet(y.sources) = conf.uris + 1 .. conf.uris + set.sources
  <2>1. /\ y \in Ctx /\ SameButLists(x, y)
        /\ Listed(y, {} \cup (x.used + 1 .. x.used + set.sources + set.mapped))
        /\ y.used = x.used + set.sources + set.mapped
        /\ ToSet(y.sources) = ToSet(x.sources) \cup (x.used + 1 .. x.used + set.sources)
      BY <1>8 DEF Added
  <2>2. y.machine = "media_set" /\ y.state = "MAP_INITIAL" /\ y.drm = {}
      BY <1>4, <2>1 DEF SameButLists
  <2>3. {} \cup (x.used + 1 .. x.used + set.sources + set.mapped) = conf.uris + 1 .. y.used
      BY <1>4, <2>1
  <2>4. conf.uris <= y.used
      BY <1>3, <1>4, <2>1
  <2>5. ToSet(y.sources) = conf.uris + 1 .. conf.uris + set.sources
      BY <1>4, <1>6, <2>1
  <2> QED
      BY <2>1, <2>2, <2>3, <2>4, <2>5
<1>10. /\ z \in Ctx /\ z.machine = "media_set" /\ z.state = "MAP_INITIAL" /\ z.drm = {}
       /\ z.sources = y.sources /\ z.mapped = y.mapped /\ z.used = y.used
       /\ z.cur_source = 0
    BY <1>3, <1>5, <1>9, ReplacedFacts, ZenonT(60)
<1>11. Apart(conf, z)
    BY <1>9, <1>10 DEF Apart, Served, Listed, Progressive
<1>12. d \in Ctx /\ SameLists(z, d) /\ d.cur_source = 0
    BY <1>10, AdvanceFacts
<1> HIDE DEF d
<1>13. /\ d.machine = "media_set" /\ d.state = "MAP_INITIAL" /\ d.drm = {}
       /\ d.sources = y.sources
    BY <1>10, <1>12 DEF SameLists
<1>14. Renamed(src, src', conf.uris + 1 .. conf.uris + set.sources)
    BY <1>2, WithUriFacts
<1>15. src' \in [Ids -> Source] /\ Fresh(src')
  <2>1. src' \in [Ids -> Source]
      BY <1>14 DEF Renamed
  <2> QED
      BY <1>1, <1>14, <2>1, RenamedFacts
<1>16. Named(d, src')
  <2>1. ASSUME NEW i \in ToSet(d.sources) PROVE src'[i].uri = "own"
    <3>1. i \in conf.uris + 1 .. conf.uris + set.sources
        BY <1>9, <1>13
    <3>2. i \in Ids
        BY <1>2, <1>3, <3>1 DEF Ids
    <3> QED
        BY <1>14, <3>1, <3>2, RenamedFacts
  <2> QED
      BY <1>12, <2>1, NamedBySet
<1>17. MediaSetOK(conf, d, src')
  <2>1. d.sources \in Seq(Ids)
      BY <1>12 DEF Ctx
  <2>2. d.cur_source <= Len(d.sources)
      BY <1>12, <2>1
  <2> QED
      BY <1>12, <1>16, <2>2 DEF MediaSetOK, Named
<1>18. MapOK(conf, d, src')
    BY <1>11, <1>12, <1>13, <1>15, <1>17, ApartFrame DEF MapOK, Mappers, MapStates
<1> QED
    BY <1>0, <1>12, <1>13, <1>15, <1>18, MappedStep

\* mapping.apply, with the mapping of the current item.
LEMMA ApplyStep ==
    ASSUME IInv, NEW c \in Ctx, src \in [Ids -> Source], Running(rq), Clean(rq),
           Applying(conf, c, src), Apply(c, "own")
    PROVE  IInv'
<1>1. c.machine \in Mappers /\ ~ClipBegun(conf, c)
    BY DEF Applying, MapOK, ClipBegun, Mappers
<1>2. ResponseOK(conf, c, rq) /\ c.machine # "main"
    BY <1>1 DEF ResponseOK, Mappers
<1>3. CASE Return(c, rq, "STATUS") /\ UNCHANGED src
    BY <1>2, <1>3, FailStep
<1>4. CASE DumpToFallback(c, rq) /\ UNCHANGED src
    BY <1>2, <1>4, DumpStep
<1>5. CASE /\ c.machine = "media_set"
           /\ \E a \in media_set_applied(c, "own") :
                Continue(Advance(a.c), rq, "map") /\ src' = a.s
  <2>1. PICK a \in media_set_applied(c, "own") :
                Continue(Advance(a.c), rq, "map") /\ src' = a.s
      BY <1>5
  <2>2. CASE a = simple_path(c, "own")
    <3>1. a.c = c /\ a.s = [src EXCEPT ![CurSource(c)].uri = "own"]
        BY <2>2 DEF simple_path
    <3> QED
        BY <1>5, <2>1, <3>1, PathStep
  <2>3. ASSUME NEW set \in MediaSets, ~Progressive,
               c.used + set.sources + set.mapped <= MaxSources,
               a = [c |-> Replace(c, set), s |-> WithUri(c, set.sources, "own")]
        PROVE  IInv'
    <3>1. a.c = Replace(c, set) /\ a.s = WithUri(c, set.sources, "own")
        BY <2>3
    <3> QED
        BY <1>5, <2>1, <2>3, <3>1, ReplaceStep
  <2> QED
      BY <2>1, <2>2, <2>3 DEF media_set_applied
<1>6. CASE /\ c.machine = "dynamic"
           /\ \E a \in dynamic_applied(c, "own") :
                Continue(Advance(a.c), rq, "map") /\ src' = a.s
  <2>1. PICK a \in dynamic_applied(c, "own") :
                Continue(Advance(a.c), rq, "map") /\ src' = a.s
      BY <1>6
  <2>2. PICK n \in {0, 1} :
           /\ c.used < MaxSources
           /\ a = [c |-> [AddSources(c, n, 1 - n) EXCEPT !.dynamic[c.cur_clip] = "own"],
                   s |-> WithUri(c, n, "own")]
      BY <2>1 DEF dynamic_applied
  <2>3. /\ a.c = [AddSources(c, n, 1 - n) EXCEPT !.dynamic[c.cur_clip] = "own"]
        /\ a.s = WithUri(c, n, "own")
      BY <2>2
  <2> QED
      BY <1>6, <2>1, <2>2, <2>3, DynamicStep
<1>7. CASE /\ c.machine = "source_clip"
           /\ \E a \in source_clip_applied(c, "own") :
                Continue(Advance(a.c), rq, "map") /\ src' = a.s
  <2>1. PICK a \in source_clip_applied(c, "own") :
                Continue(Advance(a.c), rq, "map") /\ src' = a.s
      BY <1>7
  <2>2. a.c = c /\ a.s = [src EXCEPT ![c.mapped[c.cur_clip]].uri = "own"]
      BY <2>1 DEF source_clip_applied
  <2> QED
      BY <1>7, <2>1, <2>2, ClipPathStep
<1>8. \/ c.machine = "media_set" \/ c.machine = "dynamic" \/ c.machine = "source_clip"
    BY <1>1 DEF Mappers
<1> QED
    BY <1>3, <1>4, <1>5, <1>6, <1>7, <1>8 DEF Apply

-----------------------------------------------------------------------------
(* The steps of the mapping machines *)

WithState(c, state) == [c EXCEPT !.state = state]

SameButState(c, d) ==
    /\ d.machine = c.machine
    /\ d.sources = c.sources /\ d.mapped = c.mapped /\ d.dynamic = c.dynamic
    /\ d.used = c.used /\ d.cur_source = c.cur_source /\ d.cur_clip = c.cur_clip
    /\ d.drm = c.drm /\ d.cur_sequence = c.cur_sequence /\ d.response = c.response

\* A context that goes to another state.
LEMMA WithStateFacts ==
    ASSUME NEW c \in Ctx, NEW state \in MapStates \cup MainStates, NEW d,
           d = WithState(c, state)
    PROVE  d \in Ctx /\ SameButState(c, d) /\ d.state = state
    BY DEF WithState, Ctx, SameButState

\* The state of the item does not matter to the lists.
LEMMA MapStateFrame ==
    ASSUME NEW k, NEW c, NEW s, NEW d, MapOK(k, c, s), CurItem(c).index # 0,
           SameButState(c, d), d.state \in MapStates
    PROVE  MapOK(k, d, s) /\ CurItem(d) = CurItem(c)
<1>1. /\ d.machine = c.machine
      /\ d.sources = c.sources /\ d.mapped = c.mapped /\ d.dynamic = c.dynamic
      /\ d.used = c.used /\ d.cur_source = c.cur_source /\ d.cur_clip = c.cur_clip
      /\ d.drm = c.drm
    BY DEF SameButState
<1>2. CurItem(d) = CurItem(c)
    BY <1>1 DEF CurItem
<1>3. /\ Apart(k, c) <=> Apart(k, d)
      /\ MediaSetOK(k, c, s) <=> MediaSetOK(k, d, s)
      /\ DynamicOK(c, s) <=> DynamicOK(d, s)
      /\ SourceClipOK(c, s) <=> SourceClipOK(d, s)
    BY <1>1 DEF Apart, Served, Listed, MediaSetOK, DynamicOK, SourceClipOK, Untouched, Named
<1> QED
    BY <1>1, <1>2, <1>3 DEF MapOK

\* Before the main machine runs nothing is sent.
LEMMA NothingSent ==
    ASSUME NEW k, NEW c, NEW q, c.machine # "main"
    PROVE  ResponseOK(k, c, q) <=> Clean(q)
    BY DEF ResponseOK, ClipBegun, SegmentMayBegin

\* The state that a mapping machine finds.
LEMMA AtMap ==
    ASSUME IInv, pc = "map"
    PROVE  /\ ctx \in Ctx /\ src \in [Ids -> Source] /\ Running(rq) /\ Clean(rq)
           /\ MapOK(conf, ctx, src) /\ ctx.machine \in Mappers /\ ctx.machine # "main"
           /\ ctx.state = "MAP_READ" => ctx.response = CurItem(ctx)
<1>1. Runs(conf, ctx, src, rq, "map")
    BY DEF IInv, RunningAt
<1>2. /\ MapOK(conf, ctx, src)
      /\ ctx.state = "MAP_READ" => ctx.response = CurItem(ctx)
    BY <1>1 DEF Runs
<1>3. ctx.machine \in Mappers /\ ctx.machine # "main"
    BY <1>2 DEF MapOK, Mappers
<1> QED
    BY <1>1, <1>2, <1>3, NothingSent DEF Runs

\* ngx_http_vod_map_run_step
LEMMA MapItemStep ==
    ASSUME IInv, map_cache_hit \/ map_open \/ map_read \/ map_apply
    PROVE  IInv'
<1>1. pc = "map" /\ CurItem(ctx).index # 0
    BY DEF map_cache_hit, map_open, map_read, map_apply, Mapping
<1>2. /\ ctx \in Ctx /\ src \in [Ids -> Source] /\ Running(rq) /\ Clean(rq)
      /\ MapOK(conf, ctx, src) /\ ctx.machine \in Mappers /\ ctx.machine # "main"
      /\ ctx.state = "MAP_READ" => ctx.response = CurItem(ctx)
    BY <1>1, AtMap
<1>3. ResponseOK(conf, ctx, rq)
    BY <1>2, NothingSent
<1>4. CASE map_cache_hit
  <2>1. Applying(conf, ctx, src) /\ Apply(ctx, "own")
      BY <1>1, <1>2, <1>4 DEF map_cache_hit, Mapping, Applying
  <2> QED
      BY <1>2, <2>1, ApplyStep
<1> DEFINE r == IF conf.upstream THEN "http" ELSE "file"
<1>5. CASE map_open
  <2> DEFINE d == WithState(ctx, "MAP_OPEN")
  <2>1. ReaderOpen(d, r, 0) /\ r \in {"file", "file_fallback", "http"}
      BY <1>5 DEF map_open, WithState
  <2>2. d \in Ctx /\ SameButState(ctx, d) /\ d.state = "MAP_OPEN"
      BY <1>2, WithStateFacts DEF MapStates
  <2>3. r # "file_fallback"
      OBVIOUS
  <2> HIDE DEF d, r
  <2>4. MapOK(conf, d, src) /\ d.machine # "main"
    <3>1. d.state \in MapStates
        BY <2>2 DEF MapStates
    <3> QED
        BY <1>1, <1>2, <2>2, <3>1, MapStateFrame DEF SameButState
  <2>5. ResponseOK(conf, d, rq)
      BY <1>2, <2>4, NothingSent
  <2>6. OpensOK(conf, d, src, r, 0)
      BY <2>2, <2>3, <2>4 DEF OpensOK
  <2> QED
      BY <1>2, <2>1, <2>2, <2>5, <2>6, OpenStep
<1>6. CASE map_read
  <2> DEFINE d == WithState(ctx, "MAP_READ")
             o == [NoOp EXCEPT !.kind = "read", !.item = CurItem(ctx)]
  <2>1. ReaderRead(d, r, o) \/ Return(ctx, rq, "STATUS")
      BY <1>6 DEF map_read, WithState
  <2>2. src' = src
      BY <1>6 DEF map_read
  <2>3. d \in Ctx /\ SameButState(ctx, d) /\ d.state = "MAP_READ"
      BY <1>2, WithStateFacts DEF MapStates
  <2>4. IsRead(o, 0, CurItem(ctx))
      BY ReadOps
  <2> HIDE DEF d, r, o
  <2>5. MapOK(conf, d, src) /\ d.machine # "main" /\ CurItem(d) = CurItem(ctx)
    <3>1. d.state \in MapStates
        BY <2>3 DEF MapStates
    <3> QED
        BY <1>1, <1>2, <2>3, <3>1, MapStateFrame DEF SameButState
  <2>6. ResponseOK(conf, d, rq)
      BY <1>2, <2>5, NothingSent
  <2>7. WaitsForRead(conf, d, src, o)
      BY <2>3, <2>4, <2>5 DEF WaitsForRead, IsRead
  <2>8. CASE ReaderRead(d, r, o)
      BY <1>2, <2>2, <2>3, <2>4, <2>6, <2>7, <2>8, ReadStep
  <2>9. CASE Return(ctx, rq, "STATUS")
      BY <1>2, <1>3, <2>9, FailStep
  <2> QED
      BY <2>1, <2>8, <2>9
<1>7. CASE map_apply
  <2>1. ctx.state = "MAP_READ"
      BY <1>7 DEF map_apply, Mapping
  <2>2. CASE ctx.empty
      BY <1>2, <1>3, <1>7, <2>2, FailStep DEF map_apply
  <2>3. CASE ~ctx.empty
    <3> DEFINE d == MapDone(ctx)
    <3>1. d = WithState(ctx, "MAP_INITIAL")
        BY DEF MapDone, WithState
    <3>2. Apply(d, "own")
        BY <1>2, <1>7, <2>1, <2>3 DEF map_apply
    <3> HIDE DEF d
    <3>3. d \in Ctx /\ SameButState(ctx, d) /\ d.state = "MAP_INITIAL"
        BY <1>2, <3>1, WithStateFacts DEF MapStates
    <3>4. d.state \in MapStates
        BY <3>3 DEF MapStates
    <3>5. MapOK(conf, d, src) /\ CurItem(d) = CurItem(ctx)
        BY <1>1, <1>2, <3>3, <3>4, MapStateFrame
    <3>6. Applying(conf, d, src)
        BY <1>1, <3>3, <3>5 DEF Applying
    <3> QED
        BY <1>2, <3>2, <3>3, <3>6, ApplyStep
  <2> QED
      BY <2>2, <2>3
<1> QED
    BY <1>4, <1>5, <1>6, <1>7

WithMachine(c, machine) == [c EXCEPT !.machine = machine, !.cur_clip = 1]

\* The next mapping machine starts with its first clip.
LEMMA WithMachineFacts ==
    ASSUME NEW c \in Ctx, NEW machine \in Mappers, NEW d, d = WithMachine(c, machine)
    PROVE  /\ d \in Ctx /\ d.machine = machine /\ d.cur_clip = 1
           /\ d.state = c.state /\ d.drm = c.drm
           /\ d.sources = c.sources /\ d.mapped = c.mapped /\ d.dynamic = c.dynamic
           /\ d.used = c.used
<1> DEFINE a == [c EXCEPT !.cur_clip = 1]
<1>1. d = [a EXCEPT !.machine = machine]
    BY DEF WithMachine
<1>2. /\ a \in Ctx /\ a.cur_clip = 1
      /\ a.state = c.state /\ a.drm = c.drm
      /\ a.sources = c.sources /\ a.mapped = c.mapped /\ a.dynamic = c.dynamic
      /\ a.used = c.used
    BY DEF Ctx
<1> HIDE DEF a
<1>3. d \in Ctx
    BY <1>1, <1>2 DEF Ctx
<1> QED
    BY <1>1, <1>2, <1>3, ZenonT(60) DEF Ctx

\* The first item of a list that is not empty, with none before it.
LEMMA FirstItem ==
    ASSUME NEW T, NEW l \in Seq(T), l # <<>>
    PROVE  1 <= Len(l) /\ \A i \in DOMAIN l : ~Done(1, i)
<1>1. First(l) = 1 /\ First(l) <= Len(l)
    BY FirstFacts
<1>2. \A i \in DOMAIN l : i \in Nat /\ i >= 1
    BY FirstFacts
<1> QED
    BY <1>1, <1>2 DEF Done

\* All uris are mapped.
UrisMapped(k, c, s) ==
    /\ Fresh(s) /\ Apart(k, c) /\ Named(c, s) /\ c.drm = {}
    /\ c.machine \in Mappers /\ c.state = "MAP_INITIAL"

\* Sources that have to be mapped are mapped next.
LEMMA SourceClipsStart ==
    ASSUME IInv, NEW c \in Ctx, src \in [Ids -> Source], src' = src, Running(rq), Clean(rq),
           UrisMapped(conf, c, src), AllOwn(c.dynamic), c.mapped # <<>>,
           Continue(WithMachine(c, "source_clip"), rq, "map")
    PROVE  IInv'
<1> DEFINE d == WithMachine(c, "source_clip")
<1>1. /\ d \in Ctx /\ d.machine = "source_clip" /\ d.cur_clip = 1
      /\ d.state = c.state /\ d.drm = c.drm
      /\ d.sources = c.sources /\ d.mapped = c.mapped /\ d.dynamic = c.dynamic
      /\ d.used = c.used
    BY WithMachineFacts DEF Mappers
<1>2. Continue(d, rq, "map")
    OBVIOUS
<1> HIDE DEF d
<1>3. d.cur_clip <= Len(d.mapped) /\ \A i \in DOMAIN d.mapped : ~Done(d.cur_clip, i)
  <2>1. c.mapped \in Seq(Ids)
      BY DEF Ctx
  <2> QED
      BY <1>1, <2>1, FirstItem
<1>4. SourceClipOK(d, src)
    BY <1>1, <1>3 DEF SourceClipOK, UrisMapped, Named
<1>5. Apart(conf, d)
    BY <1>1 DEF Apart, Served, Listed, UrisMapped
<1>6. MapOK(conf, d, src)
    BY <1>1, <1>4, <1>5 DEF MapOK, UrisMapped, Mappers, MapStates
<1> QED
    BY <1>1, <1>2, <1>6, MappedStep DEF UrisMapped

\* The dynamic clips are mapped next.
LEMMA DynamicClipsStart ==
    ASSUME IInv, NEW c \in Ctx, src \in [Ids -> Source], Running(rq), Clean(rq),
           UrisMapped(conf, c, src), c.dynamic # <<>>, dynamic_clip_start(c)
    PROVE  IInv'
<1> DEFINE d == WithMachine(c, "dynamic")
<1>1. /\ d \in Ctx /\ d.machine = "dynamic" /\ d.cur_clip = 1
      /\ d.state = c.state /\ d.drm = c.drm
      /\ d.sources = c.sources /\ d.mapped = c.mapped /\ d.dynamic = c.dynamic
      /\ d.used = c.used
    BY WithMachineFacts DEF Mappers
<1>2. Continue(d, rq, "map") /\ src' = src
    BY DEF dynamic_clip_start, WithMachine
<1> HIDE DEF d
<1>3. d.cur_clip <= Len(d.dynamic) /\ \A i \in DOMAIN d.dynamic : ~Done(d.cur_clip, i)
  <2>1. c.dynamic \in Seq({"none", "own", "other"})
      BY DEF Ctx
  <2> QED
      BY <1>1, <2>1, FirstItem
<1>4. DynamicOK(d, src)
    BY <1>1, <1>3 DEF DynamicOK, UrisMapped, Named
<1>5. Apart(conf, d)
    BY <1>1 DEF Apart, Served, Listed, UrisMapped
<1>6. MapOK(conf, d, src)
    BY <1>1, <1>4, <1>5 DEF MapOK, UrisMapped, Mappers, MapStates
<1> QED
    BY <1>1, <1>2, <1>6, MappedStep DEF UrisMapped

\* ngx_http_vod_map_dynamic_clip_done
LEMMA DynamicDone ==
    ASSUME IInv, NEW c \in Ctx, src \in [Ids -> Source], Running(rq), Clean(rq),
           UrisMapped(conf, c, src), AllOwn(c.dynamic), dynamic_clip_done(c)
    PROVE  IInv'
<1>1. c.machine \in Mappers /\ c.machine # "main"
    BY DEF UrisMapped, Mappers
<1>2. ResponseOK(conf, c, rq)
    BY <1>1, NothingSent
<1> DEFINE l == IF Progressive THEN "fault" ELSE "notify"
<1>3. \/ conf.redirect /\ Continue(c, rq, l) /\ src' = src
      \/ /\ c.mapped # <<>> /\ src' = src
         /\ Continue(WithMachine(c, "source_clip"), rq, "map")
      \/ Return(c, rq, "STATUS") /\ src' = src
      \/ c.mapped = <<>> /\ start_processing_media_file(c)
    BY DEF dynamic_clip_done, WithMachine
<1>4. CASE conf.redirect /\ Continue(c, rq, l) /\ src' = src
  <2>1. Runs(conf, c, src', rq, l) /\ l \in RunningAt
      BY <1>1, <1>2, <1>4 DEF Runs, RunningAt
  <2> QED
      BY <1>4, <2>1, ContinueStep
<1>5. CASE /\ c.mapped # <<>> /\ src' = src
           /\ Continue(WithMachine(c, "source_clip"), rq, "map")
    BY <1>5, SourceClipsStart
<1>6. CASE Return(c, rq, "STATUS") /\ src' = src
    BY <1>1, <1>2, <1>6, FailStep
<1>7. CASE c.mapped = <<>> /\ start_processing_media_file(c)
  <2>1. ToSet(c.mapped) = {}
      BY <1>7 DEF ToSet
  <2>2. Settled(conf, c, src)
      BY <2>1 DEF Settled, UrisMapped, Apart, Listed
  <2>3. Ready(conf, c, src)
      BY <2>2 DEF Ready, UrisMapped
  <2> QED
      BY <1>7, <2>3, StartStep
<1> QED
    BY <1>3, <1>4, <1>5, <1>6, <1>7

\* The clips that the request names are replaced by sources.
LEMMA StringApplied ==
    ASSUME NEW k \in Configuration, NEW c \in Ctx, NEW s, UrisMapped(k, c, s),
           NEW d \in ApplyFromString(c)
    PROVE  d \in Ctx /\ UrisMapped(k, d, s)
<1>1. PICK n \in 0 .. Len(c.dynamic) :
         /\ c.used + n <= MaxSources
         /\ d = [AddSources(c, 0, n) EXCEPT !.dynamic = SubSeq(@, 1, Len(@) - n)]
    BY DEF ApplyFromString
<1>2. /\ c.dynamic \in Seq({"none", "own", "other"}) /\ c.used \in Nat /\ MaxSources \in Nat
      /\ Len(c.dynamic) \in Nat
    BY FlowAssumption DEF Ctx
<1> DEFINE y == AddSources(c, 0, n)
           l == SubSeq(c.dynamic, 1, Len(c.dynamic) - n)
<1>3. /\ y \in Ctx /\ SameButLists(c, y) /\ Apart(k, y)
      /\ ToSet(y.sources) = ToSet(c.sources) \cup (c.used + 1 .. c.used + 0)
  <2>1. c.used + 0 + n <= MaxSources /\ n \in Nat /\ 0 \in Nat
      BY <1>1, <1>2
  <2> QED
      BY <2>1, AddedApart DEF UrisMapped
<1>4. l \in Seq({"none", "own", "other"})
    BY <1>1, <1>2, SubSeqProperties
<1>5. y.machine = c.machine /\ y.state = c.state /\ y.drm = c.drm /\ y.dynamic = c.dynamic
    BY <1>3 DEF SameButLists
<1>6. d = [y EXCEPT !.dynamic = l]
    BY <1>1, <1>5
<1> HIDE DEF y, l
<1>7. /\ d \in Ctx /\ d.machine = y.machine /\ d.state = y.state /\ d.drm = y.drm
      /\ d.sources = y.sources /\ d.mapped = y.mapped /\ d.used = y.used
    BY <1>3, <1>4, <1>6 DEF Ctx
<1>8. Apart(k, d)
    BY <1>3, <1>7 DEF Apart, Served, Listed
<1>9. Named(d, s)
  <2>1. c.used + 1 .. c.used + 0 = {}
      BY <1>2
  <2>2. ToSet(d.sources) = ToSet(c.sources)
      BY <1>3, <1>7, <2>1
  <2>3. \A x \in ToSet(d.sources) : s[x].uri = "own"
      BY <2>2, SetOfNamed DEF UrisMapped
  <2> QED
      BY <1>7, <2>3, NamedBySet
<1> QED
    BY <1>5, <1>7, <1>8, <1>9 DEF UrisMapped

\* ngx_http_vod_map_media_set_state_machine, all uris mapped
LEMMA MediaSetMapped ==
    ASSUME IInv, media_set_mapped
    PROVE  IInv'
<1>1. pc = "map" /\ ctx.machine = "media_set" /\ ctx.cur_source = 0
    BY DEF media_set_mapped
<1>2. /\ ctx \in Ctx /\ src \in [Ids -> Source] /\ Running(rq) /\ Clean(rq)
      /\ MapOK(conf, ctx, src) /\ conf \in Configuration
    BY <1>1, AtMap, FlowAssumption DEF IInv
<1>3. UrisMapped(conf, ctx, src)
  <2>1. MediaSetOK(conf, ctx, src) /\ CurItem(ctx).index = 0
      BY <1>1, <1>2 DEF MapOK, CurItem
  <2>2. Named(ctx, src)
      BY <1>1, <2>1 DEF MediaSetOK, Named, Done
  <2> QED
      BY <1>2, <2>1, <2>2 DEF MapOK, UrisMapped
<1>4. AllOwn(<<>>)
    BY DEF AllOwn
<1>5. ASSUME NEW c \in Ctx, UrisMapped(conf, c, src),
             IF c.dynamic = <<>> THEN dynamic_clip_done(c) ELSE dynamic_clip_start(c)
      PROVE  IInv'
  <2>1. CASE c.dynamic = <<>>
      BY <1>2, <1>4, <1>5, <2>1, DynamicDone
  <2>2. CASE c.dynamic # <<>>
      BY <1>2, <1>5, <2>2, DynamicClipsStart
  <2> QED
      BY <2>1, <2>2
<1>6. CASE ctx.dynamic = <<>> /\ dynamic_clip_done(ctx)
    BY <1>2, <1>3, <1>4, <1>6, DynamicDone
<1>7. CASE \E c \in IF conf.apply THEN ApplyFromString(ctx) ELSE {ctx} :
             IF c.dynamic = <<>> THEN dynamic_clip_done(c) ELSE dynamic_clip_start(c)
  <2>1. PICK c \in IF conf.apply THEN ApplyFromString(ctx) ELSE {ctx} :
             IF c.dynamic = <<>> THEN dynamic_clip_done(c) ELSE dynamic_clip_start(c)
      BY <1>7
  <2>2. c \in Ctx /\ UrisMapped(conf, c, src)
      BY <1>2, <1>3, <2>1, StringApplied
  <2> QED
      BY <1>5, <2>1, <2>2
<1>8. CASE Return(ctx, rq, "STATUS") /\ UNCHANGED src
  <2>1. ResponseOK(conf, ctx, rq)
      BY <1>1, <1>2, NothingSent
  <2> QED
      BY <1>1, <1>2, <1>8, <2>1, FailStep
<1> QED
    BY <1>6, <1>7, <1>8 DEF media_set_mapped

\* ngx_http_vod_map_dynamic_clip_state_machine, all clips mapped
LEMMA DynamicMapped ==
    ASSUME IInv, dynamic_mapped
    PROVE  IInv'
<1>1. pc = "map" /\ ctx.machine = "dynamic" /\ ctx.cur_clip = 0 /\ dynamic_clip_done(ctx)
    BY DEF dynamic_mapped
<1>2. /\ ctx \in Ctx /\ src \in [Ids -> Source] /\ Running(rq) /\ Clean(rq)
      /\ MapOK(conf, ctx, src)
    BY <1>1, AtMap
<1>3. DynamicOK(ctx, src) /\ CurItem(ctx).index = 0
    BY <1>1, <1>2 DEF MapOK, CurItem
<1>4. UrisMapped(conf, ctx, src) /\ AllOwn(ctx.dynamic)
    BY <1>1, <1>2, <1>3 DEF MapOK, UrisMapped, DynamicOK, Done, AllOwn
<1> QED
    BY <1>1, <1>2, <1>4, DynamicDone

\* The sources that were mapped join the others.
LEMMA MergedFacts ==
    ASSUME NEW c \in Ctx, NEW d, d = MergeSources(c)
    PROVE  /\ d \in Ctx /\ d.machine = c.machine /\ d.state = c.state /\ d.drm = c.drm
           /\ d.dynamic = c.dynamic /\ d.used = c.used /\ d.sources = c.mapped \o c.sources
<1> DEFINE l == c.mapped \o c.sources
<1>1. l \in Seq(Ids)
  <2>1. c.mapped \in Seq(Ids) /\ c.sources \in Seq(Ids)
      BY DEF Ctx
  <2> QED
      BY <2>1, ConcatFacts
<1>2. d = [c EXCEPT !.sources = l]
    BY DEF MergeSources
<1> HIDE DEF l
<1>3. /\ d \in Ctx /\ d.machine = c.machine /\ d.state = c.state /\ d.drm = c.drm
      /\ d.dynamic = c.dynamic /\ d.used = c.used /\ d.sources = l
    BY <1>1, <1>2 DEF Ctx
<1> QED
    BY <1>3 DEF l

\* ngx_http_vod_map_source_clip_state_machine, all sources mapped
LEMMA SourceClipsMapped ==
    ASSUME IInv, source_clips_mapped
    PROVE  IInv'
<1> DEFINE d == MergeSources(ctx)
<1>1. pc = "map" /\ ctx.machine = "source_clip" /\ ctx.cur_clip = 0
      /\ start_processing_media_file(d)
    BY DEF source_clips_mapped
<1>2. /\ ctx \in Ctx /\ src \in [Ids -> Source] /\ Running(rq) /\ Clean(rq)
      /\ MapOK(conf, ctx, src)
    BY <1>1, AtMap
<1>3. /\ SourceClipOK(ctx, src) /\ CurItem(ctx).index = 0
      /\ Fresh(src) /\ Apart(conf, ctx) /\ ctx.drm = {} /\ ctx.state = "MAP_INITIAL"
    BY <1>1, <1>2 DEF MapOK, CurItem
<1>4. /\ d \in Ctx /\ d.machine = ctx.machine /\ d.state = ctx.state /\ d.drm = ctx.drm
      /\ d.dynamic = ctx.dynamic /\ d.used = ctx.used /\ d.sources = ctx.mapped \o ctx.sources
    BY <1>2, MergedFacts
<1> HIDE DEF d
<1>5. ctx.mapped \in Seq(Ids) /\ ctx.sources \in Seq(Ids)
    BY <1>2 DEF Ctx
<1>6. /\ NoRepeat(ctx.mapped) /\ NoRepeat(ctx.sources)
      /\ ToSet(ctx.mapped) \cap ToSet(ctx.sources) = {}
    BY <1>3 DEF Apart, Listed
<1>7. /\ ToSet(d.sources) = ToSet(ctx.mapped) \cup ToSet(ctx.sources) /\ NoRepeat(d.sources)
      /\ ctx.sources # <<>> => d.sources # <<>>
    BY <1>4, <1>5, <1>6, ConcatFacts
<1>8. Named(d, src)
  <2>1. \A x \in ToSet(ctx.sources) : src[x].uri = "own"
      BY <1>2, <1>3, SetOfNamed DEF SourceClipOK
  <2>2. \A x \in ToSet(ctx.mapped) : src[x].uri = "own"
      BY <1>1, <1>3 DEF SourceClipOK, Done, ToSet
  <2> QED
      BY <1>4, <1>7, <2>1, <2>2, NamedBySet
<1>9. Settled(conf, d, src)
  <2>1. ToSet(d.sources) = 1 .. d.used \/ ToSet(d.sources) = conf.uris + 1 .. d.used
      BY <1>3, <1>4, <1>7 DEF Apart, Listed
  <2>2. Served(conf, d)
      BY <1>3, <1>7 DEF Apart, Served
  <2> QED
      BY <1>3, <1>4, <1>7, <1>8, <2>1, <2>2 DEF Settled, SourceClipOK
<1>10. Ready(conf, d, src)
    BY <1>3, <1>4, <1>9 DEF Ready
<1> QED
    BY <1>1, <1>2, <1>4, <1>10, StartStep

NotifiedOnce(c) == [c EXCEPT !.notifications = @ - 1]

\* ngx_http_vod_send_notification
LEMMA NotificationStep ==
    ASSUME IInv, send_notification
    PROVE  IInv'
<1>1. Runs(conf, ctx, src, rq, "notify") /\ src' = src
    BY DEF send_notification, IInv, RunningAt
<1>2. /\ Running(rq) /\ ResponseOK(conf, ctx, rq) /\ ctx \in Ctx /\ src \in [Ids -> Source]
      /\ conf.redirect /\ ctx.machine \in Mappers
    BY <1>1 DEF Runs
<1>3. ctx.machine # "main"
    BY <1>2 DEF Mappers
<1>4. CASE Return(ctx, rq, "STATUS")
    BY <1>2, <1>3, <1>4, FailStep
<1> DEFINE d == NotifiedOnce(ctx)
           o == [NoOp EXCEPT !.kind = "notify", !.http = TRUE]
           a == StartChild(rq)
<1>5. ASSUME ctx.notifications # 0 PROVE d \in Ctx /\ d.machine = ctx.machine
  <2>1. ctx.notifications - 1 \in Nat
      BY <1>2, <1>5 DEF Ctx
  <2> DEFINE v == ctx.notifications - 1
  <2>2. d = [ctx EXCEPT !.notifications = v]
      BY <1>2 DEF NotifiedOnce, Ctx
  <2> HIDE DEF v, d
  <2> QED
      BY <1>2, <2>1, <2>2 DEF Ctx, v
<1>6. o.kind = "notify" /\ o.http = TRUE
    BY DEF NoOp
<1>7. \/ Return(ctx, rq, "STATUS")
      \/ ctx.notifications # 0 /\ Suspend(d, a, o)
      \/ ctx.notifications # 0 /\ Return(d, rq, "STATUS")
    BY DEF send_notification, NotifiedOnce
<1> HIDE DEF d, o
<1>8. Suspended(a, o) /\ (Clean(rq) => Clean(a))
    BY <1>2, <1>6, StartedFacts
<1> HIDE DEF a
<1>9. CASE ctx.notifications # 0 /\ Suspend(d, a, o)
  <2>1. ResponseOK(conf, d, a)
      BY <1>2, <1>3, <1>5, <1>8, <1>9, NothingSent
  <2>2. Waits(conf, d, src', a, o)
      BY <1>1, <1>2, <1>5, <1>6, <1>8, <1>9, <2>1 DEF Waits, WaitsForOther
  <2> QED
      BY <1>9, <2>2, SuspendStep
<1>10. CASE ctx.notifications # 0 /\ Return(d, rq, "STATUS")
  <2>1. ResponseOK(conf, d, rq) /\ d.machine # "main"
      BY <1>2, <1>3, <1>5, <1>10, NothingSent
  <2> QED
      BY <1>2, <1>10, <2>1, FailStep
<1> QED
    BY <1>4, <1>7, <1>9, <1>10

\* The actions of the mapping machines.
LEMMA MapStep ==
    ASSUME IInv, Map
    PROVE  IInv'
    BY MapItemStep, MediaSetMapped, DynamicMapped, SourceClipsMapped, NotificationStep DEF Map

-----------------------------------------------------------------------------
(* The steps of the main machine: drm info and metadata *)

\* The state that the main machine finds.
LEMMA AtMain ==
    ASSUME IInv, pc = "main"
    PROVE  /\ ctx \in Ctx /\ src \in [Ids -> Source] /\ Running(rq) /\ ResponseOK(conf, ctx, rq)
           /\ MainOK(conf, ctx, src, 0) /\ Settled(conf, ctx, src) /\ ctx.machine = "main"
           /\ conf \in Configuration
<1>1. Runs(conf, ctx, src, rq, "main")
    BY DEF IInv, RunningAt
<1>2. MainOK(conf, ctx, src, 0)
    BY <1>1 DEF Runs
<1> QED
    BY <1>1, <1>2, FlowAssumption DEF Runs, MainOK, IInv

\* The main machine goes on.
LEMMA GoOn ==
    ASSUME IInv, NEW c \in Ctx, NEW q, src' \in [Ids -> Source], Running(q),
           ResponseOK(conf, c, q), MainOK(conf, c, src', 0), Continue(c, q, "main")
    PROVE  IInv'
<1>1. Runs(conf, c, src', q, "main")
    BY DEF Runs
<1> QED
    BY <1>1, ContinueStep DEF RunningAt

\* Of a request that is not finished neither a clip nor a segment was begun.
LEMMA CleanUnless ==
    ASSUME NEW k, NEW c, NEW q, ~ClipBegun(k, c), ~SegmentMayBegin(k, c)
    PROVE  ResponseOK(k, c, q) <=> Clean(q)
    BY DEF ResponseOK

\* What is true of a source of the list.
LEMMA SourceFacts ==
    ASSUME NEW k, NEW c \in Ctx, NEW s, MainOK(k, c, s, 0), NEW i \in DOMAIN c.sources
    PROVE  /\ c.sources[i] \in Ids
           /\ SourceAt(k, c, s[c.sources[i]], i, FALSE)
<1>1. c.sources[i] \in Ids /\ c.sources[i] # 0
    BY FlowAssumption, SMTT(60) DEF Ctx, Ids
<1>2. SourceAt(k, c, s[c.sources[i]], i, c.sources[i] = 0)
    BY DEF MainOK, SourcesAt
<1> QED
    BY <1>1, <1>2 DEF SourceAt

\* The file of the source is open once it was opened.
LEMMA IsOpen ==
    ASSUME NEW k, NEW c, NEW x, NEW i, SourceAt(k, c, x, i, FALSE), Opened(k, c, i),
           c.state # "DUMP_OPEN_FILE"
    PROVE  x.open /\ x.opens = 1
    BY DEF SourceAt

DrmContext(c, drm, n) == [c EXCEPT !.drm = drm, !.cur_sequence = n]

\* The drm info that was parsed.
LEMMA DrmContextFacts ==
    ASSUME NEW c \in Ctx, NEW drm \in SUBSET Nat, NEW n \in Nat, NEW d,
           d = DrmContext(c, drm, n)
    PROVE  /\ d \in Ctx /\ d.machine = c.machine /\ d.state = c.state
           /\ d.sources = c.sources /\ d.dynamic = c.dynamic /\ d.used = c.used
           /\ d.cur_source = c.cur_source /\ d.drm = drm /\ d.cur_sequence = n
<1> DEFINE a == [c EXCEPT !.drm = drm]
<1>1. d = [a EXCEPT !.cur_sequence = n]
    BY DEF DrmContext
<1>2. /\ a \in Ctx /\ a.machine = c.machine /\ a.state = c.state
      /\ a.sources = c.sources /\ a.dynamic = c.dynamic /\ a.used = c.used
      /\ a.cur_source = c.cur_source /\ a.drm = drm
    BY DEF Ctx
<1> HIDE DEF a
<1> QED
    BY <1>1, <1>2, ZenonT(60) DEF Ctx

\* The sources do not depend on the drm info.
LEMMA DrmFrame ==
    ASSUME NEW k, NEW c, NEW d, NEW s, MainOK(k, c, s, 0), c.state = "READ_DRM_INFO",
           d.machine = c.machine, d.sources = c.sources, d.dynamic = c.dynamic,
           d.used = c.used, d.cur_source = c.cur_source,
           d.state \in {"READ_DRM_INFO", "READ_METADATA_INITIAL"}, DrmOK(k, d)
    PROVE  MainOK(k, d, s, 0)
<1>1. Settled(k, d, s)
    BY SettledLists DEF MainOK
<1>2. PositionOK(k, d)
    BY DEF MainOK, PositionOK, MainStates, MetadataStates
<1>3. ASSUME NEW x, NEW i, NEW b, SourceAt(k, c, x, i, b) PROVE SourceAt(k, d, x, i, b)
  <2>1. /\ Parsed(d, i) <=> Parsed(c, i)
        /\ Opened(k, d, i) => Opened(k, c, i)
        /\ NotOpened(d, i) => NotOpened(c, i)
      BY DEF Parsed, Opened, NotOpened, Parsing, MetadataStates, Processing
  <2> QED
      BY <1>3, <2>1 DEF SourceAt
<1>4. SourcesAt(k, d, s, 0)
    BY <1>3 DEF MainOK, SourcesAt
<1> QED
    BY <1>1, <1>2, <1>4 DEF MainOK

\* parse_drm_info
LEMMA DrmParsedFacts ==
    ASSUME conf \in Configuration, NEW c \in Ctx, NEW s, MainOK(conf, c, s, 0),
           c.state = "READ_DRM_INFO", c.cur_sequence <= conf.sequences
    PROVE  LET d == DrmParsed(c)
           IN  /\ d \in Ctx /\ MainOK(conf, d, s, 0) /\ d.state = "READ_DRM_INFO"
               /\ d.machine = "main"
<1>1. /\ conf.sequences \in Nat /\ c.cur_sequence \in 1 .. conf.sequences + 1
      /\ c.drm = 1 .. c.cur_sequence - 1 /\ c.machine = "main"
    BY DEF Configuration, MainOK, DrmOK
<1> DEFINE n == IF conf.single_key THEN conf.sequences + 1 ELSE c.cur_sequence + 1
           drm == 1 .. n - 1
           d == DrmContext(c, drm, n)
<1>2. n \in 1 .. conf.sequences + 1 /\ n \in Nat /\ drm \in SUBSET Nat
    BY <1>1
<1>3. DrmParsed(c) = d
  <2>1. (1 .. c.cur_sequence - 1) \cup (c.cur_sequence .. conf.sequences) = 1 .. conf.sequences
      BY <1>1
  <2>2. (1 .. c.cur_sequence - 1) \cup {c.cur_sequence} = 1 .. c.cur_sequence
      BY <1>1
  <2>3. CASE conf.single_key
    <3>1. drm = c.drm \cup (c.cur_sequence .. conf.sequences)
        BY <1>1, <2>1, <2>3
    <3> QED
        BY <2>3, <3>1 DEF DrmParsed, DrmContext
  <2>4. CASE ~conf.single_key
    <3>1. drm = c.drm \cup {c.cur_sequence}
        BY <1>1, <2>2, <2>4
    <3> QED
        BY <2>4, <3>1 DEF DrmParsed, DrmContext
  <2> QED
      BY <2>3, <2>4
<1> HIDE DEF drm, n
<1>4. /\ d \in Ctx /\ d.machine = c.machine /\ d.state = c.state
      /\ d.sources = c.sources /\ d.dynamic = c.dynamic /\ d.used = c.used
      /\ d.cur_source = c.cur_source /\ d.drm = drm /\ d.cur_sequence = n
    BY <1>2, DrmContextFacts
<1> HIDE DEF d
<1>5. DrmOK(conf, d)
    BY <1>2, <1>4 DEF DrmOK, drm
<1>6. MainOK(conf, d, s, 0)
    BY <1>4, <1>5, DrmFrame
<1> QED
    BY <1>1, <1>3, <1>4, <1>6

AfterDrm(c) == [c EXCEPT !.state = "READ_METADATA_INITIAL", !.cur_sequence = 1]

\* All sequences have their drm info.
LEMMA AfterDrmFacts ==
    ASSUME NEW c \in Ctx, NEW d, d = AfterDrm(c)
    PROVE  /\ d \in Ctx /\ d.machine = c.machine /\ d.state = "READ_METADATA_INITIAL"
           /\ d.sources = c.sources /\ d.dynamic = c.dynamic /\ d.used = c.used
           /\ d.cur_source = c.cur_source /\ d.drm = c.drm
<1> DEFINE a == [c EXCEPT !.cur_sequence = 1]
<1>1. d = [a EXCEPT !.state = "READ_METADATA_INITIAL"]
    BY DEF AfterDrm
<1>2. /\ a \in Ctx /\ a.machine = c.machine
      /\ a.sources = c.sources /\ a.dynamic = c.dynamic /\ a.used = c.used
      /\ a.cur_source = c.cur_source /\ a.drm = c.drm
    BY DEF Ctx
<1> HIDE DEF a
<1> QED
    BY <1>1, <1>2, ZenonT(60) DEF Ctx, MainStates, MetadataStates

\* ngx_http_vod_state_machine_get_drm_info
LEMMA DrmStep ==
    ASSUME IInv, get_drm_info
    PROVE  IInv'
<1>1. pc = "main" /\ ctx.state = "READ_DRM_INFO" /\ src' = src
    BY DEF get_drm_info, AtState
<1>2. /\ ctx \in Ctx /\ src \in [Ids -> Source] /\ Running(rq) /\ ResponseOK(conf, ctx, rq)
      /\ MainOK(conf, ctx, src, 0) /\ Settled(conf, ctx, src) /\ ctx.machine = "main"
      /\ conf \in Configuration
    BY <1>1, AtMain
<1>3. /\ conf.sequences \in Nat /\ ctx.cur_sequence \in 1 .. conf.sequences + 1
      /\ ctx.drm = 1 .. ctx.cur_sequence - 1
    BY <1>1, <1>2 DEF Configuration, MainOK, DrmOK
<1>4. \A d : d.state \in {"READ_DRM_INFO", "READ_METADATA_INITIAL"} =>
             ~ClipBegun(conf, d) /\ ~SegmentMayBegin(conf, d)
    BY DEF ClipBegun, SegmentMayBegin
<1>5. Clean(rq)
    BY <1>1, <1>2, <1>4, CleanUnless
<1>6. CASE /\ ctx.cur_sequence > conf.sequences
           /\ Continue(AfterDrm(ctx), rq, "main")
  <2> DEFINE d == AfterDrm(ctx)
  <2>1. /\ d \in Ctx /\ d.machine = ctx.machine /\ d.state = "READ_METADATA_INITIAL"
        /\ d.sources = ctx.sources /\ d.dynamic = ctx.dynamic /\ d.used = ctx.used
        /\ d.cur_source = ctx.cur_source /\ d.drm = ctx.drm
      BY <1>2, AfterDrmFacts
  <2>2. Continue(d, rq, "main")
      BY <1>6
  <2> HIDE DEF d
  <2>3. ctx.cur_sequence - 1 = conf.sequences
      BY <1>3, <1>6
  <2>4. DrmOK(conf, d)
      BY <1>3, <2>1, <2>3 DEF DrmOK
  <2>5. MainOK(conf, d, src, 0)
      BY <1>1, <1>2, <2>1, <2>4, DrmFrame
  <2>6. ResponseOK(conf, d, rq)
      BY <1>4, <1>5, <2>1, CleanUnless
  <2> QED
      BY <1>1, <1>2, <2>1, <2>2, <2>5, <2>6, GoOn
<1>7. CASE ctx.cur_sequence <= conf.sequences /\ Continue(DrmParsed(ctx), rq, "main")
  <2> DEFINE d == DrmParsed(ctx)
  <2>1. /\ d \in Ctx /\ MainOK(conf, d, src, 0) /\ d.state = "READ_DRM_INFO"
      BY <1>1, <1>2, <1>7, DrmParsedFacts
  <2>2. Continue(d, rq, "main")
      BY <1>7
  <2> HIDE DEF d
  <2>3. ResponseOK(conf, d, rq)
      BY <1>4, <1>5, <2>1, CleanUnless
  <2> QED
      BY <1>1, <1>2, <2>1, <2>2, <2>3, GoOn
<1> DEFINE o == [NoOp EXCEPT !.kind = "drm", !.http = TRUE]
           a == StartChild(rq)
<1>8. CASE ctx.cur_sequence <= conf.sequences /\ Suspend(ctx, a, o)
  <2>1. o.kind = "drm" /\ o.http = TRUE
      BY DEF NoOp
  <2>2. Suspend(ctx, a, o)
      BY <1>8
  <2> HIDE DEF o
  <2>3. Suspended(a, o) /\ ResponseOK(conf, ctx, a)
      BY <1>2, <2>1, StartedFacts
  <2> HIDE DEF a
  <2>4. Waits(conf, ctx, src', a, o)
      BY <1>1, <1>2, <1>8, <2>1, <2>3 DEF Waits, WaitsForOther
  <2> QED
      BY <2>2, <2>4, SuspendStep
<1>9. CASE Return(ctx, rq, "STATUS")
    BY <1>1, <1>2, <1>9, FailStep
<1>10. ctx.cur_sequence > conf.sequences \/ ctx.cur_sequence <= conf.sequences
    BY <1>3
<1> QED
    BY <1>6, <1>7, <1>8, <1>9, <1>10 DEF get_drm_info, AfterDrm

\* The position after the current one, and what is done then.
LEMMA AfterDone ==
    ASSUME NEW T, NEW l \in Seq(T), NEW i \in Nat, i # 0, i <= Len(l), NEW j \in DOMAIN l
    PROVE  Done(After(l, i), j) <=> Done(i, j) \/ j = i
<1>1. Len(l) \in Nat /\ j \in Nat /\ j <= Len(l)
    BY LenProperties
<1> QED
    BY <1>1 DEF After, Done

\* The metadata of the current source is parsed.
LEMMA NextSourceFacts ==
    ASSUME NEW c \in Ctx, NEW d, d = NextSource(c)
    PROVE  /\ d \in Ctx /\ d.machine = c.machine /\ d.state = "READ_METADATA_INITIAL"
           /\ d.sources = c.sources /\ d.dynamic = c.dynamic /\ d.used = c.used
           /\ d.cur_source = After(c.sources, c.cur_source) /\ d.drm = c.drm
<1> DEFINE v == After(c.sources, c.cur_source)
           a == [c EXCEPT !.cur_source = v]
<1>1. d = [a EXCEPT !.state = "READ_METADATA_INITIAL"]
    BY DEF NextSource
<1>2. v \in Nat
    BY DEF After, Ctx
<1> HIDE DEF v
<1>3. /\ a \in Ctx /\ a.machine = c.machine
      /\ a.sources = c.sources /\ a.dynamic = c.dynamic /\ a.used = c.used
      /\ a.cur_source = v /\ a.drm = c.drm
    BY <1>2 DEF Ctx
<1> HIDE DEF a
<1>4. /\ d \in Ctx /\ d.machine = c.machine /\ d.state = "READ_METADATA_INITIAL"
      /\ d.sources = c.sources /\ d.dynamic = c.dynamic /\ d.used = c.used
      /\ d.cur_source = v /\ d.drm = c.drm
    BY <1>1, <1>3, ZenonT(60) DEF Ctx, MainStates, MetadataStates
<1> QED
    BY <1>4 DEF v

\* The counter of parses of a source.
LEMMA ParsedOnce ==
    ASSUME NEW s \in [Ids -> Source], NEW n \in Ids, NEW t,
           t = [s EXCEPT ![n].parsed = @ + 1]
    PROVE  /\ t \in [Ids -> Source] /\ t[n].parsed = s[n].parsed + 1
           /\ t[n].opens = s[n].opens /\ t[n].open = s[n].open
           /\ \A i \in Ids \ {n} : t[i] = s[i]
           /\ \A i \in Ids : t[i].uri = s[i].uri
<1> DEFINE y == [s[n] EXCEPT !.parsed = @ + 1]
<1>1. t = [s EXCEPT ![n] = y]
    OBVIOUS
<1>2. ASSUME NEW x \in Source
      PROVE  LET z == [x EXCEPT !.parsed = @ + 1]
             IN  /\ z \in Source /\ z.opens = x.opens /\ z.open = x.open
                 /\ z.parsed = x.parsed + 1 /\ z.uri = x.uri
  <2> DEFINE v == x.parsed + 1
             z == [x EXCEPT !.parsed = v]
  <2>1. v \in Nat /\ [x EXCEPT !.parsed = @ + 1] = z
      BY DEF Source
  <2> HIDE DEF v
  <2>2. /\ z \in Source /\ z.opens = x.opens /\ z.open = x.open
        /\ z.parsed = v /\ z.uri = x.uri
      BY <2>1 DEF Source
  <2> HIDE DEF z
  <2> QED
      BY <2>1, <2>2 DEF v
<1>3. /\ y \in Source /\ y.opens = s[n].opens /\ y.open = s[n].open
      /\ y.parsed = s[n].parsed + 1 /\ y.uri = s[n].uri
    BY <1>2
<1> HIDE DEF y
<1>4. t \in [Ids -> Source] /\ t[n] = y /\ \A i \in Ids \ {n} : t[i] = s[i]
    BY <1>1, <1>3
<1> QED
    BY <1>3, <1>4

\* The main machine is at a source whose metadata it reads.
Parses(k, c, s) ==
    /\ MainOK(k, c, s, 0) /\ c.state \in MetadataStates /\ c.cur_source # 0

\* The facts of the current source.
LEMMA CurrentFacts ==
    ASSUME NEW k, NEW c \in Ctx, NEW s \in [Ids -> Source], Parses(k, c, s), NEW n,
           n = CurSource(c)
    PROVE  /\ n \in Ids /\ c.cur_source \in DOMAIN c.sources /\ c.sources[c.cur_source] = n
           /\ SourceAt(k, c, s[n], c.cur_source, FALSE) /\ s[n] \in Source
           /\ s[n].parsed = 0
           /\ c.state = "READ_METADATA_INITIAL" => s[n].opens = 0
           /\ c.state # "READ_METADATA_INITIAL" => s[n].opens = 1 /\ s[n].open
<1> DEFINE i == c.cur_source
<1>1. n \in Ids /\ i \in DOMAIN c.sources
    BY CurSourceFacts DEF Parses, MainOK, PositionOK
<1>2. SourceAt(k, c, s[n], i, FALSE) /\ c.sources[i] = n
    BY <1>1, SourceFacts DEF Parses, CurSource
<1>3. i \in Nat /\ i # 0 /\ c.state \in MetadataStates /\ ~Done(i, i)
    BY DEF Ctx, Done, Parses
<1>4. c.state # "DUMP_OPEN_FILE" /\ c.state \in Parsing
    BY <1>3 DEF MetadataStates, Parsing
<1>5. ~Parsed(c, i)
    BY <1>3, <1>4 DEF Parsed
<1>6. c.state = "READ_METADATA_INITIAL" => NotOpened(c, i)
    BY <1>3, <1>4 DEF NotOpened
<1>7. c.state # "READ_METADATA_INITIAL" => Opened(k, c, i)
    BY <1>3 DEF Opened
<1> QED
    BY <1>1, <1>2, <1>4, <1>5, <1>6, <1>7 DEF SourceAt

\* A source is parsed and the machine moves on to the next one.
LEMMA SourceParsedFacts ==
    ASSUME NEW k, NEW c \in Ctx, NEW s \in [Ids -> Source], Parses(k, c, s),
           NEW n, n = CurSource(c), k.kind = "clip" /\ ~k.cache => s[n].opens = 1,
           NEW d, d = NextSource(c), NEW t, t = [s EXCEPT ![n].parsed = @ + 1]
    PROVE  d \in Ctx /\ t \in [Ids -> Source] /\ MainOK(k, d, t, 0)
           /\ d.state = "READ_METADATA_INITIAL"
<1>1. /\ d \in Ctx /\ d.machine = c.machine /\ d.state = "READ_METADATA_INITIAL"
      /\ d.sources = c.sources /\ d.dynamic = c.dynamic /\ d.used = c.used
      /\ d.cur_source = After(c.sources, c.cur_source) /\ d.drm = c.drm
    BY NextSourceFacts
<1>2. /\ n \in Ids /\ c.cur_source \in DOMAIN c.sources /\ c.sources[c.cur_source] = n
      /\ SourceAt(k, c, s[n], c.cur_source, FALSE)
      /\ s[n].parsed = 0
    BY CurrentFacts
<1>3. /\ t \in [Ids -> Source] /\ t[n].parsed = 1
      /\ t[n].opens = s[n].opens /\ t[n].open = s[n].open
      /\ \A i \in Ids \ {n} : t[i] = s[i]
      /\ \A i \in Ids : t[i].uri = s[i].uri
    BY <1>2, ParsedOnce
<1>4. /\ c.sources \in Seq(Ids) /\ c.cur_source \in Nat /\ c.cur_source # 0
      /\ c.cur_source <= Len(c.sources) /\ c.state \in MetadataStates
      /\ Settled(k, c, s) /\ PositionOK(k, c) /\ DrmOK(k, c) /\ NoRepeat(c.sources)
    BY DEF Ctx, Parses, MainOK, PositionOK, Settled
<1>5. Settled(k, c, t)
    BY <1>3, <1>4, SettledFrame
<1>6. Settled(k, d, t)
    BY <1>1, <1>5, SettledLists
<1>7. d.cur_source <= Len(d.sources)
    BY <1>1, <1>4, AfterFacts
<1>8. PositionOK(k, d) /\ DrmOK(k, d)
  <2>1. c.state \notin {"READ_DRM_INFO", "DUMP_OPEN_FILE"}
      BY <1>4 DEF MetadataStates
  <2> QED
      BY <1>1, <1>4, <1>7, <2>1 DEF PositionOK, DrmOK, MainStates, MetadataStates
<1>9. ASSUME NEW i \in DOMAIN d.sources
      PROVE  SourceAt(k, d, t[d.sources[i]], i, d.sources[i] = 0)
  <2>1. /\ c.sources[i] \in Ids /\ SourceAt(k, c, s[c.sources[i]], i, FALSE)
        /\ d.sources[i] = c.sources[i] /\ i \in DOMAIN c.sources
      BY <1>1, SourceFacts DEF Parses
  <2>2. Done(d.cur_source, i) <=> Done(c.cur_source, i) \/ i = c.cur_source
      BY <1>1, <1>4, <2>1, AfterDone
  <2>3. d.state \in Parsing /\ c.state \in Parsing /\ c.state # "DUMP_OPEN_FILE"
        /\ d.state \notin Processing /\ c.state \notin Processing
        /\ d.state # "OPEN_FILE" /\ c.state # "OPEN_FILE" /\ d.state # "DUMP_OPEN_FILE"
      BY <1>1, <1>4 DEF Parsing, MetadataStates, Processing
  <2>4. CASE i = c.cur_source
    <3>1. Parsed(d, i) /\ ~NotOpened(d, i)
        BY <2>2, <2>4 DEF Parsed, NotOpened
    <3>2. Opened(k, d, i) => k.kind = "clip" /\ ~k.cache
        BY <1>1, <2>3 DEF Opened
    <3>3. c.sources[i] = n
        BY <1>2, <2>4
    <3>4. Opened(k, d, i) => t[n].opens = 1
        BY <1>3, <3>2
    <3>5. t[n].opens \in {0, 1} /\ (t[n].opens = 1 => t[n].open)
        BY <1>2, <1>3 DEF SourceAt
    <3> QED
        BY <1>3, <2>1, <3>1, <3>3, <3>4, <3>5 DEF SourceAt
  <2>5. CASE i # c.cur_source
    <3>1. c.sources[i] # n
        BY <1>2, <1>4, <2>1, <2>5 DEF NoRepeat
    <3>2. t[c.sources[i]] = s[c.sources[i]]
        BY <1>3, <2>1, <3>1
    <3>3. Parsed(d, i) <=> Parsed(c, i)
        BY <2>2, <2>3, <2>5 DEF Parsed
    <3>4. Opened(k, d, i) => Opened(k, c, i)
        BY <1>1, <2>3, <3>3 DEF Opened
    <3>5. NotOpened(d, i) => NotOpened(c, i)
        BY <2>2, <2>3, <2>5 DEF NotOpened
    <3> QED
        BY <2>1, <2>3, <3>2, <3>3, <3>4, <3>5 DEF SourceAt
  <2> QED
      BY <2>4, <2>5
<1>10. d.machine = "main"
    BY <1>1 DEF Parses, MainOK
<1> QED
    BY <1>1, <1>3, <1>6, <1>8, <1>9, <1>10 DEF MainOK, SourcesAt

\* Nothing was sent while metadata is read.
LEMMA CleanWhileParsing ==
    ASSUME NEW k, NEW c, NEW q, c.state \in MetadataStates
    PROVE  (ResponseOK(k, c, q) <=> Clean(q)) /\ ~ClipBegun(k, c)
<1>1. ~ClipBegun(k, c) /\ ~SegmentMayBegin(k, c)
    BY DEF ClipBegun, SegmentMayBegin, MetadataStates
<1> QED
    BY <1>1, CleanUnless

\* The parsers are done with the current source.
LEMMA SourceParsedStep ==
    ASSUME IInv, ctx \in Ctx, src \in [Ids -> Source], Running(rq), Clean(rq),
           Parses(conf, ctx, src), SourceParsed(ctx),
           conf.kind = "clip" /\ ~conf.cache => src[CurSource(ctx)].opens = 1
    PROVE  IInv'
<1> DEFINE d == NextSource(ctx)
<1>1. Continue(d, rq, "main") /\ src' = [src EXCEPT ![CurSource(ctx)].parsed = @ + 1]
    BY DEF SourceParsed
<1>2. d \in Ctx /\ src' \in [Ids -> Source] /\ MainOK(conf, d, src', 0)
      /\ d.state = "READ_METADATA_INITIAL"
    BY <1>1, SourceParsedFacts
<1> HIDE DEF d
<1>3. ResponseOK(conf, d, rq)
    BY <1>2, CleanWhileParsing DEF MetadataStates
<1> QED
    BY <1>1, <1>2, <1>3, GoOn

\* The file of the current source is opened to read its metadata or its frames.
LEMMA MetadataOpenStep ==
    ASSUME IInv, ctx \in Ctx, src \in [Ids -> Source], Running(rq), Clean(rq),
           Parses(conf, ctx, src), ctx.state = "READ_METADATA_INITIAL",
           NEW state \in {"READ_METADATA_OPEN_FILE", "READ_FRAMES_OPEN_FILE"},
           open_file(WithState(ctx, state), CurSource(ctx))
    PROVE  IInv'
<1> DEFINE d == WithState(ctx, state)
           n == CurSource(ctx)
<1>1. d \in Ctx /\ SameButState(ctx, d) /\ d.state = state
    BY WithStateFacts DEF MainStates, MetadataStates
<1>2. open_file(d, n)
    OBVIOUS
<1>3. /\ n \in Ids /\ ctx.cur_source \in DOMAIN ctx.sources
      /\ ctx.sources[ctx.cur_source] = n
      /\ src[n].parsed = 0 /\ src[n].opens = 0
    BY CurrentFacts
<1> HIDE DEF d, n
<1>4. /\ d.machine = ctx.machine /\ d.sources = ctx.sources /\ d.dynamic = ctx.dynamic
      /\ d.used = ctx.used /\ d.cur_source = ctx.cur_source /\ d.drm = ctx.drm
      /\ d.cur_sequence = ctx.cur_sequence
    BY <1>1 DEF SameButState
<1>5. /\ Settled(conf, ctx, src) /\ PositionOK(conf, ctx) /\ DrmOK(conf, ctx)
      /\ ctx.machine = "main" /\ ctx.cur_source # 0
    BY DEF Parses, MainOK
<1>6. Settled(conf, d, src)
    BY <1>4, <1>5, SettledLists
<1>7. PositionOK(conf, d) /\ DrmOK(conf, d)
    BY <1>1, <1>4, <1>5 DEF PositionOK, DrmOK, MainStates, MetadataStates
<1>8. /\ d.state \in Parsing /\ ctx.state \in Parsing /\ d.state \in OpenStates
      /\ d.state \notin {"READ_METADATA_INITIAL", "READ_DRM_INFO", "OPEN_FILE", "DUMP_OPEN_FILE"}
      /\ d.state \notin Processing /\ d.state \in MetadataStates
    BY <1>1 DEF Parsing, MetadataStates, OpenStates, Processing
<1>9. \A i : Parsed(d, i) <=> Parsed(ctx, i)
    BY <1>4, <1>8 DEF Parsed
<1>10. ASSUME NEW i \in DOMAIN d.sources
       PROVE  IF i = d.cur_source
              THEN /\ src[d.sources[i]].opens = 0 /\ ~NotOpened(d, i)
                   /\ d.state # "DUMP_OPEN_FILE" =>
                        src[d.sources[i]].parsed = IF Parsed(d, i) THEN 1 ELSE 0
              ELSE SourceAt(conf, d, src[d.sources[i]], i, FALSE)
  <2>1. SourceAt(conf, ctx, src[ctx.sources[i]], i, FALSE) /\ i \in DOMAIN ctx.sources
      BY <1>4, SourceFacts DEF Parses
  <2>2. CASE i = d.cur_source
    <3>1. ~NotOpened(d, i) /\ src[d.sources[i]].opens = 0
        BY <1>3, <1>4, <1>8, <2>2 DEF NotOpened
    <3>2. src[d.sources[i]].parsed = IF Parsed(ctx, i) THEN 1 ELSE 0
        BY <1>4, <2>1 DEF SourceAt
    <3> QED
        BY <1>9, <2>2, <3>1, <3>2
  <2>3. CASE i # d.cur_source
    <3>1. Opened(conf, d, i) => Opened(conf, ctx, i)
        BY <1>4, <1>8, <1>9, <2>3 DEF Opened
    <3>2. NotOpened(d, i) => NotOpened(ctx, i)
        BY <1>4, <1>8, <2>3 DEF NotOpened
    <3>3. SourceAt(conf, d, src[d.sources[i]], i, FALSE)
        BY <1>4, <1>9, <2>1, <3>1, <3>2 DEF SourceAt
    <3> QED
        BY <2>3, <3>3
  <2> QED
      BY <2>2, <2>3
<1>11. ToOpen(conf, d, src)
    BY <1>10 DEF ToOpen
<1>12. ResponseOK(conf, d, rq) /\ ~ClipBegun(conf, d)
    BY <1>8, CleanWhileParsing
<1>13. MainOpens(conf, d, src)
    BY <1>4, <1>5, <1>6, <1>7, <1>8, <1>11, <1>12 DEF MainOpens
<1>14. n = CurSource(d)
    BY <1>4 DEF CurSource, n
<1> QED
    BY <1>1, <1>2, <1>12, <1>13, <1>14, OpenFileStep

SameButRead(c, d) ==
    /\ d.machine = c.machine /\ d.sources = c.sources /\ d.dynamic = c.dynamic
    /\ d.used = c.used /\ d.cur_source = c.cur_source /\ d.drm = c.drm
    /\ d.cur_sequence = c.cur_sequence

\* Once the file is open its reads do not change what is known of the sources.
LEMMA ReadingFrame ==
    ASSUME NEW k, NEW c, NEW s, Parses(k, c, s), c.state # "READ_METADATA_INITIAL",
           NEW d, SameButRead(c, d), d.state \in MetadataStates \ {"READ_METADATA_INITIAL"}
    PROVE  Parses(k, d, s) /\ CurSource(d) = CurSource(c)
<1>1. /\ d.machine = c.machine /\ d.sources = c.sources /\ d.dynamic = c.dynamic
      /\ d.used = c.used /\ d.cur_source = c.cur_source /\ d.drm = c.drm
      /\ d.cur_sequence = c.cur_sequence
    BY DEF SameButRead
<1>2. /\ MainOK(k, c, s, 0) /\ c.state \in MetadataStates \ {"READ_METADATA_INITIAL"}
      /\ c.cur_source # 0 /\ Settled(k, c, s) /\ PositionOK(k, c) /\ DrmOK(k, c)
    BY DEF Parses, MainOK
<1>3. Settled(k, d, s)
    BY <1>1, <1>2, SettledLists
<1>4. PositionOK(k, d) /\ DrmOK(k, d)
    BY <1>1, <1>2 DEF PositionOK, DrmOK, MainStates, MetadataStates
<1>5. ASSUME NEW x, NEW i, NEW b, SourceAt(k, c, x, i, b) PROVE SourceAt(k, d, x, i, b)
  <2>1. /\ d.state \in Parsing /\ c.state \in Parsing
        /\ d.state \notin {"READ_METADATA_INITIAL", "READ_DRM_INFO", "OPEN_FILE", "DUMP_OPEN_FILE"}
        /\ c.state \notin {"READ_METADATA_INITIAL", "READ_DRM_INFO", "OPEN_FILE", "DUMP_OPEN_FILE"}
        /\ d.state \notin Processing
      BY <1>2 DEF Parsing, MetadataStates, Processing
  <2>2. /\ Parsed(d, i) <=> Parsed(c, i)
        /\ NotOpened(d, i) => NotOpened(c, i)
      BY <1>1, <2>1 DEF Parsed, NotOpened
  <2>3. Opened(k, d, i) => Opened(k, c, i)
      BY <1>1, <1>2, <2>1, <2>2 DEF Opened
  <2> QED
      BY <1>5, <2>1, <2>2, <2>3 DEF SourceAt
<1>6. SourcesAt(k, d, s, 0)
    BY <1>1, <1>2, <1>5 DEF MainOK, SourcesAt
<1> QED
    BY <1>1, <1>2, <1>3, <1>4, <1>6 DEF MainOK, Parses, CurSource

\* A parser reads the file of the current source.
LEMMA ParserReads ==
    ASSUME IInv, ctx \in Ctx, src \in [Ids -> Source], src' = src, Running(rq), Clean(rq),
           Parses(conf, ctx, src), ctx.state # "READ_METADATA_INITIAL",
           NEW d \in Ctx, SameButRead(ctx, d),
           d.state \in {"READ_METADATA_READ", "READ_FRAMES_READ"},
           ReadSource(d, CurSource(ctx)) \/ Continue(d, rq, "main")
    PROVE  IInv'
<1> DEFINE n == CurSource(ctx)
<1>1. d.state \in MetadataStates \ {"READ_METADATA_INITIAL"}
    BY DEF MetadataStates
<1>2. Parses(conf, d, src) /\ n = CurSource(d)
    BY <1>1, ReadingFrame
<1>3. n \in Ids /\ src[n].open
    BY CurrentFacts
<1>4. ResponseOK(conf, d, rq)
    BY <1>1, CleanWhileParsing
<1>5. ReadSource(d, n) \/ Continue(d, rq, "main")
    OBVIOUS
<1> HIDE DEF n
<1>6. MainOK(conf, d, src, 0) /\ d.cur_source # 0
    BY <1>2 DEF Parses
<1>7. CASE ReadSource(d, n)
    BY <1>2, <1>3, <1>4, <1>6, <1>7, ReadSourceStep
<1>8. CASE Continue(d, rq, "main")
    BY <1>4, <1>6, <1>8, GoOn
<1> QED
    BY <1>5, <1>7, <1>8

StartReading(c) == [c EXCEPT !.state = "READ_METADATA_READ", !.allow_empty = TRUE]
ReadMore(c, b) == [c EXCEPT !.reads = @ + 1, !.allow_empty = b]
NoMore(c, b) == [ReadMore(c, b) EXCEPT !.allow_empty = c.allow_empty]

\* The contexts of the reads that parsers ask for.
LEMMA ReadContexts ==
    ASSUME NEW c \in Ctx
    PROVE  /\ LET d == StartReading(c)
              IN  d \in Ctx /\ SameButRead(c, d) /\ d.state = "READ_METADATA_READ"
           /\ LET d == ReadingFrames(c)
              IN  d \in Ctx /\ SameButRead(c, d) /\ d.state = "READ_FRAMES_READ"
           /\ c.reads < MaxReads => \A b \in BOOLEAN :
                /\ LET d == ReadMore(c, b)
                   IN  d \in Ctx /\ SameButRead(c, d) /\ d.state = c.state
                /\ LET d == NoMore(c, b)
                   IN  d \in Ctx /\ SameButRead(c, d) /\ d.state = c.state
<1>1. ASSUME NEW x \in Ctx, NEW b \in BOOLEAN
      PROVE  LET d == [x EXCEPT !.allow_empty = b]
             IN  d \in Ctx /\ SameButRead(x, d) /\ d.state = x.state /\ d.reads = x.reads
    BY ZenonT(60) DEF Ctx, SameButRead
<1>2. LET d == StartReading(c)
      IN  d \in Ctx /\ SameButRead(c, d) /\ d.state = "READ_METADATA_READ"
  <2> DEFINE a == [c EXCEPT !.state = "READ_METADATA_READ"]
             d == [a EXCEPT !.allow_empty = TRUE]
  <2>1. StartReading(c) = d
      BY DEF StartReading
  <2>2. a \in Ctx /\ SameButRead(c, a) /\ a.state = "READ_METADATA_READ"
      BY DEF Ctx, SameButRead, MainStates, MetadataStates
  <2> HIDE DEF a
  <2>3. d \in Ctx /\ SameButRead(a, d) /\ d.state = a.state
      BY <1>1, <2>2
  <2> HIDE DEF d
  <2>4. SameButRead(c, d)
      BY <2>2, <2>3 DEF SameButRead
  <2> QED
      BY <2>1, <2>2, <2>3, <2>4
<1>3. LET d == ReadingFrames(c)
      IN  d \in Ctx /\ SameButRead(c, d) /\ d.state = "READ_FRAMES_READ"
    BY DEF ReadingFrames, Ctx, SameButRead, MainStates, MetadataStates
<1>4. ASSUME c.reads < MaxReads, NEW b \in BOOLEAN
      PROVE  /\ LET d == ReadMore(c, b)
                IN  d \in Ctx /\ SameButRead(c, d) /\ d.state = c.state
             /\ LET d == NoMore(c, b)
                IN  d \in Ctx /\ SameButRead(c, d) /\ d.state = c.state
  <2> DEFINE v == c.reads + 1
             a == [c EXCEPT !.reads = v]
             d == [a EXCEPT !.allow_empty = b]
             e == [d EXCEPT !.allow_empty = c.allow_empty]
  <2>1. v \in 0 .. MaxReads /\ c.allow_empty \in BOOLEAN
      BY <1>4, FlowAssumption, SMTT(60) DEF Ctx
  <2>2. ReadMore(c, b) = d
      BY DEF ReadMore
  <2>3. NoMore(c, b) = e
      BY DEF NoMore, ReadMore
  <2> HIDE DEF v
  <2>4. a \in Ctx /\ SameButRead(c, a) /\ a.state = c.state
      BY <2>1 DEF Ctx, SameButRead
  <2> HIDE DEF a
  <2>5. d \in Ctx /\ SameButRead(a, d) /\ d.state = a.state
      BY <1>1, <2>4
  <2> HIDE DEF d
  <2>6. e \in Ctx /\ SameButRead(d, e) /\ e.state = d.state
      BY <1>1, <2>1, <2>5
  <2> HIDE DEF e
  <2>7. SameButRead(c, d) /\ SameButRead(c, e)
      BY <2>4, <2>5, <2>6 DEF SameButRead
  <2> QED
      BY <2>2, <2>3, <2>4, <2>5, <2>6, <2>7
<1> QED
    BY <1>2, <1>3, <1>4

\* ngx_http_vod_async_read for a parser
LEMMA ReadMoreStep ==
    ASSUME IInv, ctx \in Ctx, src \in [Ids -> Source], Running(rq), Clean(rq),
           Parses(conf, ctx, src), ctx.state \in {"READ_METADATA_READ", "READ_FRAMES_READ"},
           NEW flags \in SUBSET BOOLEAN, read_more(flags)
    PROVE  IInv'
<1>1. ctx.reads < MaxReads /\ src' = src
    BY SMTT(60) DEF read_more
<1>2. PICK b \in flags :
         \/ ReadSource(ReadMore(ctx, b), CurSource(ctx))
         \/ Continue(NoMore(ctx, b), rq, "main")
    BY DEF read_more, ReadMore, NoMore
<1>3. b \in BOOLEAN
    OBVIOUS
<1> DEFINE d == ReadMore(ctx, b)
           e == NoMore(ctx, b)
<1>4. /\ d \in Ctx /\ SameButRead(ctx, d) /\ d.state = ctx.state
      /\ e \in Ctx /\ SameButRead(ctx, e) /\ e.state = ctx.state
    BY <1>1, <1>3, ReadContexts
<1>5. ReadSource(d, CurSource(ctx)) \/ Continue(e, rq, "main")
    BY <1>2
<1> HIDE DEF d, e
<1> QED
    BY <1>1, <1>4, <1>5, ParserReads

\* The actions of ngx_http_vod_state_machine_parse_metadata.
LEMMA MetadataStep ==
    ASSUME IInv, \/ read_metadata_loaded \/ read_metadata_initial
                 \/ read_metadata_open_file \/ read_metadata
                 \/ read_frames_open_file \/ read_frames
    PROVE  IInv'
<1>1. /\ pc = "main" /\ ctx.cur_source # 0 /\ ctx.state \in MetadataStates
      /\ read_metadata_loaded \/ read_metadata_initial => ctx.state = "READ_METADATA_INITIAL"
      /\ read_metadata_open_file => ctx.state = "READ_METADATA_OPEN_FILE"
      /\ read_metadata => ctx.state = "READ_METADATA_READ"
      /\ read_frames_open_file => ctx.state = "READ_FRAMES_OPEN_FILE"
      /\ read_frames => ctx.state = "READ_FRAMES_READ"
    BY DEF read_metadata_loaded, read_metadata_initial, read_metadata_open_file, read_metadata,
           read_frames_open_file, read_frames, AtSource, AtState, MetadataStates
<1>2. /\ ctx \in Ctx /\ src \in [Ids -> Source] /\ Running(rq) /\ ResponseOK(conf, ctx, rq)
      /\ MainOK(conf, ctx, src, 0) /\ Settled(conf, ctx, src) /\ ctx.machine = "main"
    BY <1>1, AtMain
<1>3. Parses(conf, ctx, src) /\ Clean(rq)
    BY <1>1, <1>2, CleanWhileParsing DEF Parses
<1>4. CASE Return(ctx, rq, "STATUS") /\ UNCHANGED src
    BY <1>2, <1>4, FailStep
<1>5. ASSUME ctx.state # "READ_METADATA_INITIAL" PROVE src[CurSource(ctx)].opens = 1
    BY <1>2, <1>3, <1>5, CurrentFacts
<1> DEFINE r == StartReading(ctx)
           f == ReadingFrames(ctx)
<1>6. /\ r \in Ctx /\ SameButRead(ctx, r) /\ r.state = "READ_METADATA_READ"
      /\ f \in Ctx /\ SameButRead(ctx, f) /\ f.state = "READ_FRAMES_READ"
    BY <1>2, ReadContexts
<1>7. CASE read_metadata_loaded
  <2>1. CASE SourceParsed(ctx)
    <3>1. ~(conf.kind = "clip" /\ ~conf.cache)
        BY <1>7 DEF read_metadata_loaded, Progressive
    <3> QED
        BY <1>2, <1>3, <2>1, <3>1, SourceParsedStep
  <2>2. CASE open_file([ctx EXCEPT !.state = "READ_FRAMES_OPEN_FILE"], CurSource(ctx))
    <3>1. open_file(WithState(ctx, "READ_FRAMES_OPEN_FILE"), CurSource(ctx))
        BY <2>2 DEF WithState
    <3> QED
        BY <1>1, <1>2, <1>3, <1>7, <3>1, MetadataOpenStep
  <2> QED
      BY <1>4, <1>7, <2>1, <2>2 DEF read_metadata_loaded
<1>8. CASE read_metadata_initial
  <2>1. open_file(WithState(ctx, "READ_METADATA_OPEN_FILE"), CurSource(ctx))
      BY <1>8 DEF read_metadata_initial, WithState
  <2> QED
      BY <1>1, <1>2, <1>3, <1>8, <2>1, MetadataOpenStep
<1>9. CASE read_metadata_open_file
  <2>1. ReadSource(r, CurSource(ctx)) /\ src' = src
      BY <1>9 DEF read_metadata_open_file, StartReading
  <2>2. ctx.state # "READ_METADATA_INITIAL"
      BY <1>1, <1>9
  <2> HIDE DEF r
  <2> QED
      BY <1>2, <1>3, <1>6, <2>1, <2>2, ParserReads
<1>10. CASE read_metadata
  <2>1. ctx.state = "READ_METADATA_READ"
      BY <1>1, <1>10
  <2>2. CASE read_more(BOOLEAN)
      BY <1>2, <1>3, <2>1, <2>2, ReadMoreStep
  <2>3. CASE SourceParsed(ctx)
      BY <1>2, <1>3, <1>5, <2>1, <2>3, SourceParsedStep
  <2>4. CASE ReadSource(f, CurSource(ctx)) /\ UNCHANGED src
    <3> HIDE DEF f
    <3> QED
        BY <1>2, <1>3, <1>6, <2>1, <2>4, ParserReads
  <2> QED
      BY <1>4, <1>10, <2>2, <2>3, <2>4 DEF read_metadata
<1>11. CASE read_frames_open_file
  <2>1. ReadSource(f, CurSource(ctx)) /\ src' = src
      BY <1>11 DEF read_frames_open_file
  <2>2. ctx.state # "READ_METADATA_INITIAL"
      BY <1>1, <1>11
  <2> HIDE DEF f
  <2> QED
      BY <1>2, <1>3, <1>6, <2>1, <2>2, ParserReads
<1>12. CASE read_frames
  <2>1. ctx.state = "READ_FRAMES_READ"
      BY <1>1, <1>12
  <2>2. CASE read_more({FALSE})
      BY <1>2, <1>3, <2>1, <2>2, ReadMoreStep
  <2>3. CASE SourceParsed(ctx)
      BY <1>2, <1>3, <1>5, <2>1, <2>3, SourceParsedStep
  <2> QED
      BY <1>4, <1>12, <2>2, <2>3 DEF read_frames
<1> QED
    BY <1>7, <1>8, <1>9, <1>10, <1>11, <1>12

-----------------------------------------------------------------------------
(* The steps of the main machine: frames and dumps *)

\* A list position and a state, with the lists as they are.
SameSources(c, d) ==
    /\ d.machine = c.machine /\ d.sources = c.sources /\ d.dynamic = c.dynamic
    /\ d.used = c.used /\ d.drm = c.drm

GoTo(c, state, p) == [c EXCEPT !.state = state, !.cur_source = p]

\* The main machine goes to another state, at another source.
LEMMA GoToFacts ==
    ASSUME NEW c \in Ctx, NEW state \in MainStates, NEW p \in Nat, NEW d,
           d = GoTo(c, state, p)
    PROVE  /\ d \in Ctx /\ SameSources(c, d) /\ d.state = state /\ d.cur_source = p
           /\ d.frame_processor = c.frame_processor
<1> DEFINE a == [c EXCEPT !.cur_source = p]
<1>1. d = [a EXCEPT !.state = state]
    BY DEF GoTo
<1>2. a \in Ctx /\ SameSources(c, a) /\ a.cur_source = p
      /\ a.frame_processor = c.frame_processor
    BY DEF Ctx, SameSources
<1> HIDE DEF a
<1> QED
    BY <1>1, <1>2, ZenonT(60) DEF Ctx, SameSources

\* After the metadata, the files are opened.
LEMMA OpeningFacts ==
    ASSUME NEW k, NEW c \in Ctx, NEW s, MainOK(k, c, s, 0), c.state \in MetadataStates,
           c.cur_source = 0, k.kind \in {"clip", "segment"}, NEW d, d = Opening(c)
    PROVE  d \in Ctx /\ MainOK(k, d, s, 0) /\ d.state = "OPEN_FILE" /\ d.machine = "main"
<1>1. First(c.sources) \in Nat /\ First(c.sources) <= Len(c.sources)
      /\ \A i \in DOMAIN c.sources : ~Done(First(c.sources), i)
    BY FirstFacts DEF Ctx, Done
<1>2. /\ d \in Ctx /\ SameSources(c, d) /\ d.state = "OPEN_FILE"
      /\ d.cur_source = First(c.sources)
  <2>1. d = GoTo(c, "OPEN_FILE", First(c.sources))
      BY DEF Opening, GoTo
  <2>2. "OPEN_FILE" \in MainStates
      BY DEF MainStates
  <2> QED
      BY <1>1, <2>1, <2>2, GoToFacts
<1>3. /\ d.machine = c.machine /\ d.sources = c.sources /\ d.dynamic = c.dynamic
      /\ d.used = c.used /\ d.drm = c.drm
    BY <1>2 DEF SameSources
<1>4. Settled(k, c, s) /\ PositionOK(k, c) /\ DrmOK(k, c) /\ c.machine = "main"
    BY DEF MainOK
<1>5. Settled(k, d, s)
    BY <1>3, <1>4, SettledLists
<1>6. PositionOK(k, d) /\ DrmOK(k, d)
  <2>1. c.state \notin {"READ_DRM_INFO", "DUMP_OPEN_FILE"}
      BY DEF MetadataStates
  <2> QED
      BY <1>1, <1>2, <1>3, <1>4, <2>1 DEF PositionOK, DrmOK, MainStates
<1>7. ASSUME NEW i \in DOMAIN d.sources
      PROVE  SourceAt(k, d, s[d.sources[i]], i, d.sources[i] = 0)
  <2>1. /\ SourceAt(k, c, s[d.sources[i]], i, FALSE) /\ ~Done(d.cur_source, i)
      BY <1>1, <1>2, <1>3, SourceFacts
  <2>2. c.state # "DUMP_OPEN_FILE" /\ d.state \notin Parsing /\ d.state \notin Processing
        /\ d.state \notin MetadataStates /\ c.state \in Parsing
      BY <1>2 DEF MetadataStates, Parsing, Processing
  <2>3. Parsed(c, i) /\ Parsed(d, i) /\ ~NotOpened(d, i)
      BY <2>2 DEF Parsed, Done, NotOpened
  <2>4. Opened(k, d, i) => Opened(k, c, i)
      BY <1>2, <2>1, <2>2, <2>3 DEF Opened
  <2> QED
      BY <2>1, <2>2, <2>3, <2>4 DEF SourceAt
<1> QED
    BY <1>2, <1>3, <1>4, <1>5, <1>6, <1>7 DEF MainOK, SourcesAt

\* All files are open: the frames may be processed.
AllOpen(k, c, s) ==
    /\ MainOK(k, c, s, 0)
    /\ c.state \in Processing \/ (c.state = "OPEN_FILE" /\ c.cur_source = 0)

\* What is true of the sources then.
LEMMA AllOpenFacts ==
    ASSUME NEW k, NEW c \in Ctx, NEW s, AllOpen(k, c, s), NEW i \in DOMAIN c.sources
    PROVE  /\ c.sources[i] \in Ids /\ s[c.sources[i]].open /\ s[c.sources[i]].opens = 1
           /\ s[c.sources[i]].parsed = 1
<1>1. c.sources[i] \in Ids /\ SourceAt(k, c, s[c.sources[i]], i, FALSE)
    BY SourceFacts DEF AllOpen
<1>2. c.state # "DUMP_OPEN_FILE" /\ c.state \notin Parsing
    BY DEF AllOpen, Processing, Parsing, MetadataStates
<1>3. Opened(k, c, i) /\ Parsed(c, i)
    BY <1>2 DEF AllOpen, Opened, Done, Parsed
<1> QED
    BY <1>1, <1>2, <1>3 DEF SourceAt

\* Segments are made of frames, clips of a part of the file.
ProcessesKind(k, c) ==
    \/ c.state \in {"FILTER_FRAMES", "PROCESS_FRAMES"} /\ k.kind = "segment"
    \/ c.state = "DUMP_FILE_PART" /\ k.kind = "clip"

\* The frames or the file part are next.
LEMMA ProcessingFacts ==
    ASSUME NEW k, NEW c \in Ctx, NEW s, AllOpen(k, c, s), NEW d, SameSources(c, d),
           ProcessesKind(k, d),
           d.cur_source <= Len(d.sources)
    PROVE  AllOpen(k, d, s)
<1>1. /\ d.machine = c.machine /\ d.sources = c.sources /\ d.dynamic = c.dynamic
      /\ d.used = c.used /\ d.drm = c.drm
    BY DEF SameSources
<1>2. Settled(k, c, s) /\ PositionOK(k, c) /\ DrmOK(k, c) /\ c.machine = "main"
    BY DEF AllOpen, MainOK
<1>3. c.state \notin {"READ_DRM_INFO", "DUMP_OPEN_FILE"}
    BY DEF AllOpen, Processing
<1>4. /\ d.state \in Processing /\ d.state \notin Parsing
      /\ d.state \notin {"READ_DRM_INFO", "DUMP_OPEN_FILE", "OPEN_FILE"}
    BY DEF ProcessesKind, Processing, Parsing, MetadataStates
<1>5. Settled(k, d, s)
    BY <1>1, <1>2, SettledLists
<1>6. PositionOK(k, d) /\ DrmOK(k, d)
    BY <1>1, <1>2, <1>3, <1>4 DEF ProcessesKind, PositionOK, DrmOK, MainStates
<1>7. ASSUME NEW i \in DOMAIN d.sources
      PROVE  SourceAt(k, d, s[d.sources[i]], i, d.sources[i] = 0)
  <2>1. s[d.sources[i]].open /\ s[d.sources[i]].opens = 1 /\ s[d.sources[i]].parsed = 1
    <3>1. i \in DOMAIN c.sources /\ d.sources[i] = c.sources[i]
        BY <1>1
    <3> QED
        BY <3>1, AllOpenFacts, ZenonT(60)
  <2>2. Parsed(d, i) /\ ~NotOpened(d, i)
      BY <1>4 DEF Parsed, NotOpened
  <2> QED
      BY <2>1, <2>2 DEF SourceAt
<1> QED
    BY <1>1, <1>2, <1>4, <1>5, <1>6, <1>7 DEF MainOK, SourcesAt, AllOpen

\* A response that was begun is finished, or goes on.
LEMMA BegunFacts ==
    ASSUME NEW q, Running(q), Begun(q), NEW k
    PROVE  /\ Running(SendLast(q)) /\ Complete(k, SendLast(q), "OK")
           /\ Running(SendBody(q, TRUE)) /\ Complete(k, SendBody(q, TRUE), "OK")
           /\ Running(SendBody(q, FALSE)) /\ Begun(SendBody(q, FALSE))
           /\ \A rc : rc # "OK" => Complete(k, q, rc)
<1> DEFINE a == SendLast(q)
           b == SendBody(q, TRUE)
           d == SendBody(q, FALSE)
<1>1. /\ a \in Request /\ a.count = 1 /\ a.blocked = 0 /\ a.result = "none"
      /\ a.header = 1 /\ a.body = {"own"} /\ ~a.raw /\ a.last
    BY DEF Running, Begun, SendLast, Request
<1>2. /\ b \in Request /\ b.count = 1 /\ b.blocked = 0 /\ b.result = "none"
      /\ b.header = 1 /\ b.body = {"own"} /\ ~b.raw /\ b.last
    BY DEF Running, Begun, SendBody, Request
<1>3. /\ d \in Request /\ d.count = 1 /\ d.blocked = 0 /\ d.result = "none"
      /\ d.header = 1 /\ d.body = {"own"} /\ ~d.raw /\ ~d.last
    BY DEF Running, Begun, SendBody, Request
<1> HIDE DEF a, b, d
<1>4. Running(a) /\ Complete(k, a, "OK")
    BY <1>1 DEF Running, Complete
<1>5. Running(b) /\ Complete(k, b, "OK")
    BY <1>2 DEF Running, Complete
<1>6. Running(d) /\ Begun(d)
    BY <1>3 DEF Running, Begun
<1>7. \A rc : rc # "OK" => Complete(k, q, rc)
    BY DEF Begun, Complete
<1> QED
    BY <1>4, <1>5, <1>6, <1>7 DEF a, b, d

\* The metadata of all sources is parsed.
LEMMA MetadataDone ==
    ASSUME IInv, send_clip_header \/ metadata_parsed
    PROVE  IInv'
<1>1. /\ pc = "main" /\ ctx.state \in MetadataStates /\ ctx.cur_source = 0 /\ src' = src
      /\ send_clip_header => conf.kind = "clip"
    BY DEF send_clip_header, metadata_parsed, MetadataParsed
<1>2. /\ ctx \in Ctx /\ src \in [Ids -> Source] /\ Running(rq) /\ ResponseOK(conf, ctx, rq)
      /\ MainOK(conf, ctx, src, 0) /\ Settled(conf, ctx, src) /\ ctx.machine = "main"
    BY <1>1, AtMain
<1>3. Clean(rq)
    BY <1>1, <1>2, CleanWhileParsing
<1>4. CASE Return(ctx, rq, "STATUS")
    BY <1>1, <1>2, <1>4, FailStep
<1> DEFINE d == Opening(ctx)
           sent == SendBody(SendHeader(rq), FALSE)
<1>5. ASSUME conf.kind \in {"clip", "segment"}
      PROVE  d \in Ctx /\ MainOK(conf, d, src, 0) /\ d.state = "OPEN_FILE" /\ d.machine = "main"
    BY <1>1, <1>2, <1>5, OpeningFacts
<1>6. Running(sent) /\ Begun(sent)
    BY <1>2, <1>3, AnswerFacts
<1>7. CASE send_clip_header
  <2>1. conf.kind = "clip"
      BY <1>1, <1>7
  <2>2. CASE conf.head /\ Return(ctx, SendHeader(rq), "OK")
      BY <1>1, <1>2, <1>3, <2>2, AnswerFacts, ReturnStep
  <2>6. \/ conf.head /\ Return(ctx, SendHeader(rq), "OK")
        \/ ~conf.head /\ Continue(d, sent, "main")
        \/ ~conf.head /\ Return(ctx, sent, "ERROR")
        \/ Return(ctx, rq, "STATUS")
      BY <1>7 DEF send_clip_header
  <2> HIDE DEF d, sent
  <2>3. CASE ~conf.head /\ Continue(d, sent, "main")
    <3>1. ResponseOK(conf, d, sent)
        BY <1>5, <1>6, <2>1, <2>3 DEF ResponseOK, ClipBegun
    <3> QED
        BY <1>1, <1>2, <1>5, <1>6, <2>1, <2>3, <3>1, GoOn
  <2>4. CASE ~conf.head /\ Return(ctx, sent, "ERROR")
      BY <1>1, <1>2, <1>6, <2>4, BegunFacts, ReturnStep
  <2> QED
      BY <1>4, <2>2, <2>3, <2>4, <2>6
<1>8. CASE metadata_parsed
  <2>1. CASE Return(ctx, Answer(rq), "OK")
      BY <1>1, <1>2, <1>3, <2>1, AnswerFacts, ReturnStep
  <2>4. \/ Return(ctx, rq, "STATUS")
        \/ Return(ctx, Answer(rq), "OK")
        \/ conf.kind = "segment" /\ Continue(d, rq, "main")
      BY <1>8 DEF metadata_parsed, run_generators_fails
  <2> HIDE DEF d
  <2>2. CASE conf.kind = "segment" /\ Continue(d, rq, "main")
    <3>1. ResponseOK(conf, d, rq)
        BY <1>3, <1>5, <2>2 DEF ResponseOK, ClipBegun
    <3> QED
        BY <1>1, <1>2, <1>5, <2>2, <3>1, GoOn
  <2> QED
      BY <1>4, <2>1, <2>2, <2>4
<1> QED
    BY <1>7, <1>8

AtNext(c) == [c EXCEPT !.cur_source = After(c.sources, @)]

\* The next source of the list.
LEMMA AtNextFacts ==
    ASSUME NEW c \in Ctx, NEW d, d = AtNext(c)
    PROVE  /\ d \in Ctx /\ SameSources(c, d) /\ d.state = c.state
           /\ d.cur_source = After(c.sources, c.cur_source)
<1> DEFINE v == After(c.sources, c.cur_source)
<1>1. v \in Nat
    BY DEF After, Ctx
<1>2. d = [c EXCEPT !.cur_source = v]
    BY DEF AtNext
<1> HIDE DEF v
<1>3. d \in Ctx /\ SameSources(c, d) /\ d.state = c.state /\ d.cur_source = v
    BY <1>1, <1>2 DEF Ctx, SameSources
<1> QED
    BY <1>3 DEF v

\* ngx_http_vod_state_machine_open_files
LEMMA OpenFilesStep ==
    ASSUME IInv, open_files
    PROVE  IInv'
<1>1. pc = "main" /\ ctx.state = "OPEN_FILE" /\ ctx.cur_source # 0
    BY DEF open_files, AtSource, AtState
<1>2. /\ ctx \in Ctx /\ src \in [Ids -> Source] /\ Running(rq) /\ ResponseOK(conf, ctx, rq)
      /\ MainOK(conf, ctx, src, 0) /\ Settled(conf, ctx, src) /\ ctx.machine = "main"
    BY <1>1, AtMain
<1> DEFINE n == CurSource(ctx)
           cur == ctx.cur_source
<1>3. PositionOK(conf, ctx) /\ DrmOK(conf, ctx) /\ cur <= Len(ctx.sources)
    BY <1>2 DEF MainOK, PositionOK
<1>4. n \in Ids /\ cur \in DOMAIN ctx.sources /\ ctx.sources[cur] = n
    BY <1>1, <1>2, <1>3, CurSourceFacts DEF CurSource
<1>5. SourceAt(conf, ctx, src[n], cur, FALSE)
    BY <1>2, <1>4, SourceFacts
<1>6. ctx.state \notin Parsing /\ ctx.state \notin Processing /\ ctx.state \notin MetadataStates
      /\ ctx.state # "DUMP_OPEN_FILE" /\ ctx.state \in OpenStates
    BY <1>1 DEF Parsing, Processing, MetadataStates, OpenStates
<1>7. \A i : Parsed(ctx, i) /\ ~NotOpened(ctx, i)
    BY <1>6 DEF Parsed, NotOpened
<1>8. CASE src[n].opens = 0 /\ open_file(ctx, n)
  <2>1. ClipBegun(conf, ctx) => conf.cache
      BY <1>5, <1>6, <1>7, <1>8 DEF ClipBegun, SourceAt, Opened
  <2>2. ASSUME NEW i \in DOMAIN ctx.sources
        PROVE  IF i = cur
               THEN /\ src[ctx.sources[i]].opens = 0 /\ ~NotOpened(ctx, i)
                    /\ ctx.state # "DUMP_OPEN_FILE" =>
                         src[ctx.sources[i]].parsed = IF Parsed(ctx, i) THEN 1 ELSE 0
               ELSE SourceAt(conf, ctx, src[ctx.sources[i]], i, FALSE)
    <3>1. SourceAt(conf, ctx, src[ctx.sources[i]], i, FALSE)
        BY <1>2, SourceFacts
    <3> QED
        BY <1>4, <1>7, <1>8, <3>1 DEF SourceAt
  <2>3. MainOpens(conf, ctx, src)
      BY <1>1, <1>2, <1>3, <1>6, <2>1, <2>2 DEF MainOpens, ToOpen
  <2> QED
      BY <1>2, <1>8, <2>3, OpenFileStep
<1>9. CASE /\ src[n].opens # 0 /\ Continue(AtNext(ctx), rq, "main") /\ src' = src
  <2> DEFINE d == AtNext(ctx)
  <2>1. /\ d \in Ctx /\ SameSources(ctx, d) /\ d.state = "OPEN_FILE"
        /\ d.cur_source = After(ctx.sources, cur)
      BY <1>1, <1>2, AtNextFacts
  <2>2. Continue(d, rq, "main")
      BY <1>9
  <2> HIDE DEF d
  <2>3. /\ d.machine = "main" /\ d.sources = ctx.sources /\ d.dynamic = ctx.dynamic
        /\ d.used = ctx.used /\ d.drm = ctx.drm
      BY <1>2, <2>1 DEF SameSources
  <2>4. Settled(conf, d, src)
      BY <1>2, <2>3, SettledLists
  <2>5. ctx.sources \in Seq(Ids) /\ cur \in Nat
      BY <1>2 DEF Ctx
  <2>6. d.cur_source <= Len(d.sources)
      BY <1>1, <1>3, <2>1, <2>3, <2>5, AfterFacts
  <2>7. PositionOK(conf, d) /\ DrmOK(conf, d)
      BY <1>1, <1>3, <2>1, <2>3, <2>6 DEF PositionOK, DrmOK
  <2>8. ASSUME NEW i \in DOMAIN d.sources
        PROVE  SourceAt(conf, d, src[d.sources[i]], i, d.sources[i] = 0)
    <3>1. i \in DOMAIN ctx.sources /\ d.sources[i] = ctx.sources[i]
        BY <2>3
    <3>2. SourceAt(conf, ctx, src[ctx.sources[i]], i, FALSE)
        BY <1>2, <3>1, SourceFacts
    <3>3. Done(d.cur_source, i) <=> Done(cur, i) \/ i = cur
        BY <1>1, <1>3, <2>1, <2>5, <3>1, AfterDone
    <3>4. Parsed(d, i) /\ ~NotOpened(d, i)
        BY <1>1, <1>6, <2>1 DEF Parsed, NotOpened
    <3>5. Opened(conf, d, i) => Opened(conf, ctx, i) \/ i = cur
        BY <1>1, <1>6, <1>7, <2>1, <3>3, <3>4 DEF Opened
    <3>6. i = cur => src[ctx.sources[i]].opens = 1
        BY <1>4, <1>5, <1>9 DEF SourceAt
    <3> QED
        BY <1>6, <1>7, <3>1, <3>2, <3>4, <3>5, <3>6 DEF SourceAt
  <2>9. MainOK(conf, d, src, 0)
      BY <2>3, <2>4, <2>7, <2>8 DEF MainOK, SourcesAt
  <2>10. ResponseOK(conf, d, rq)
      BY <1>1, <1>2, <2>1, <2>3 DEF ResponseOK, ClipBegun, SegmentMayBegin
  <2> QED
      BY <1>2, <1>9, <2>1, <2>2, <2>9, <2>10, GoOn
<1> QED
    BY <1>8, <1>9 DEF open_files, NeedsOpen, AtNext

\* The files are open: the part of the file that the clip is in is sent.
LEMMA DumpPartStep ==
    ASSUME IInv, dump_part
    PROVE  IInv'
<1>1. /\ pc = "main" /\ ctx.state = "OPEN_FILE" /\ ctx.cur_source = 0 /\ conf.kind = "clip"
      /\ src' = src
    BY DEF dump_part, FilesOpened, AtState
<1>2. /\ ctx \in Ctx /\ src \in [Ids -> Source] /\ Running(rq) /\ ResponseOK(conf, ctx, rq)
      /\ MainOK(conf, ctx, src, 0) /\ Settled(conf, ctx, src) /\ ctx.machine = "main"
    BY <1>1, AtMain
<1>3. AllOpen(conf, ctx, src) /\ Begun(rq) /\ ~conf.head
    BY <1>1, <1>2 DEF AllOpen, ResponseOK, ClipBegun
<1> DEFINE p == First(ctx.sources)
           d == GoTo(ctx, "DUMP_FILE_PART", p)
           s == CurSource(d)
           o == [NoOp EXCEPT !.kind = "dump_part", !.http = TRUE, !.source = s]
           a == StartChild(rq)
<1>4. \/ Return(ctx, SendLast(rq), "OK")
      \/ Return(d, SendBody(rq, TRUE), "OK")
      \/ Suspend(d, a, o)
      \/ Return(d, rq, "STATUS")
    BY DEF dump_part, GoTo
<1>5. p \in Nat /\ p <= Len(ctx.sources)
    BY <1>2, FirstFacts DEF Ctx
<1>6. o.kind = "dump_part" /\ o.http = TRUE
    BY DEF NoOp
<1> HIDE DEF p, s, o
<1>7. /\ d \in Ctx /\ SameSources(ctx, d) /\ d.state = "DUMP_FILE_PART" /\ d.cur_source = p
  <2>1. "DUMP_FILE_PART" \in MainStates
      BY DEF MainStates
  <2> QED
      BY <1>2, <1>5, <2>1, GoToFacts
<1> HIDE DEF d
<1>8. AllOpen(conf, d, src) /\ d.machine = "main" /\ MainOK(conf, d, src, 0)
  <2>1. d.cur_source <= Len(d.sources)
      BY <1>5, <1>7 DEF SameSources
  <2>2. AllOpen(conf, d, src)
      BY <1>1, <1>2, <1>3, <1>7, <2>1, ProcessingFacts DEF ProcessesKind
  <2> QED
      BY <2>2 DEF AllOpen, MainOK
<1>9. ResponseOK(conf, d, rq) /\ Settled(conf, d, src)
    BY <1>1, <1>3, <1>7, <1>8 DEF ResponseOK, ClipBegun, MainOK
<1>10. CASE Return(ctx, SendLast(rq), "OK")
    BY <1>1, <1>2, <1>3, <1>10, BegunFacts, ReturnStep
<1>11. CASE Return(d, SendBody(rq, TRUE), "OK")
    BY <1>1, <1>2, <1>3, <1>9, <1>11, BegunFacts, ReturnStep
<1>12. CASE Suspend(d, a, o)
  <2>1. Suspended(a, o) /\ ResponseOK(conf, d, a)
      BY <1>2, <1>6, <1>9, StartedFacts
  <2> HIDE DEF a
  <2>2. Waits(conf, d, src', a, o)
      BY <1>1, <1>2, <1>6, <1>7, <1>8, <2>1 DEF Waits, WaitsForOther
  <2> QED
      BY <1>12, <2>2, SuspendStep
<1>13. CASE Return(d, rq, "STATUS")
    BY <1>1, <1>2, <1>9, <1>13, FailStep
<1> QED
    BY <1>4, <1>10, <1>11, <1>12, <1>13

ProcessWith(c, state, processor) == [c EXCEPT !.state = state, !.frame_processor = processor]

\* The context of a frame processor.
LEMMA ProcessWithFacts ==
    ASSUME NEW c \in Ctx, NEW state \in MainStates, NEW processor \in {"filter", "segment"},
           NEW d, d = ProcessWith(c, state, processor)
    PROVE  d \in Ctx /\ SameSources(c, d) /\ d.state = state /\ d.cur_source = c.cur_source
<1> DEFINE a == [c EXCEPT !.frame_processor = processor]
<1>1. d = [a EXCEPT !.state = state]
    BY DEF ProcessWith
<1>2. a \in Ctx /\ SameSources(c, a) /\ a.cur_source = c.cur_source
    BY DEF Ctx, SameSources
<1> HIDE DEF a
<1> QED
    BY <1>1, <1>2, ZenonT(60) DEF Ctx, SameSources

\* The files are open: the filters start, or the muxer.
LEMMA StartFilters ==
    ASSUME IInv, start_filters
    PROVE  IInv'
<1>1. /\ pc = "main" /\ ctx.state = "OPEN_FILE" /\ ctx.cur_source = 0 /\ conf.kind = "segment"
      /\ src' = src
    BY DEF start_filters, FilesOpened, AtState
<1>2. /\ ctx \in Ctx /\ src \in [Ids -> Source] /\ Running(rq) /\ ResponseOK(conf, ctx, rq)
      /\ MainOK(conf, ctx, src, 0) /\ Settled(conf, ctx, src) /\ ctx.machine = "main"
    BY <1>1, AtMain
<1>3. AllOpen(conf, ctx, src) /\ Clean(rq)
    BY <1>1, <1>2 DEF AllOpen, ResponseOK, ClipBegun, SegmentMayBegin
<1> DEFINE p == First(ctx.sources)
           m == ProcessWith(ctx, "FILTER_FRAMES", "filter")
           d == GoTo(m, "FILTER_FRAMES", p)
           e == WithState(ctx, "FILTER_FRAMES")
<1>4. \/ Continue(d, rq, "main")
      \/ Return(e, rq, "STATUS")
      \/ Continue(ctx, rq, "init_frames")
  <2>1. [ctx EXCEPT !.state = "FILTER_FRAMES", !.frame_processor = "filter", !.cur_source = p] = d
      BY <1>2 DEF GoTo, ProcessWith, Ctx
  <2> QED
      BY <2>1 DEF start_filters, WithState
<1>5. p \in Nat /\ p <= Len(ctx.sources)
    BY <1>2, FirstFacts DEF Ctx
<1>6. "FILTER_FRAMES" \in MainStates
    BY DEF MainStates
<1> HIDE DEF p
<1>7. m \in Ctx /\ SameSources(ctx, m)
    BY <1>2, <1>6, ProcessWithFacts
<1> HIDE DEF m
<1>8. d \in Ctx /\ SameSources(m, d) /\ d.state = "FILTER_FRAMES" /\ d.cur_source = p
    BY <1>5, <1>6, <1>7, GoToFacts
<1>9. e \in Ctx /\ SameButState(ctx, e) /\ e.state = "FILTER_FRAMES"
    BY <1>2, <1>6, WithStateFacts
<1> HIDE DEF d, e
<1>10. CASE Continue(d, rq, "main")
  <2>1. SameSources(ctx, d) /\ d.cur_source <= Len(d.sources)
      BY <1>5, <1>7, <1>8 DEF SameSources
  <2>2. AllOpen(conf, d, src)
      BY <1>1, <1>2, <1>3, <1>8, <2>1, ProcessingFacts DEF ProcessesKind
  <2>3. MainOK(conf, d, src, 0)
      BY <2>2 DEF AllOpen
  <2>4. ResponseOK(conf, d, rq)
      BY <1>3, <1>8 DEF ResponseOK, ClipBegun
  <2> QED
      BY <1>1, <1>2, <1>8, <1>10, <2>3, <2>4, GoOn
<1>11. CASE Return(e, rq, "STATUS")
  <2>1. Settled(conf, e, src)
    <3>1. e.sources = ctx.sources /\ e.dynamic = ctx.dynamic /\ e.used = ctx.used
        BY <1>9 DEF SameButState
    <3> QED
        BY <1>2, <3>1, SettledLists
  <2>2. ResponseOK(conf, e, rq)
      BY <1>3, <1>9 DEF ResponseOK, ClipBegun
  <2> QED
      BY <1>1, <1>2, <1>11, <2>1, <2>2, FailStep
<1>12. CASE Continue(ctx, rq, "init_frames")
  <2>1. Runs(conf, ctx, src', rq, "init_frames")
      BY <1>1, <1>2 DEF Runs
  <2> QED
      BY <1>12, <2>1, ContinueStep DEF RunningAt
<1> QED
    BY <1>4, <1>10, <1>11, <1>12

\* ngx_http_vod_finalize_segment_response
LEMMA FinalizeSegment ==
    ASSUME IInv, NEW c, NEW q, src' = src, Running(q), Clean(q) \/ Begun(q),
           c.machine = "main" => Settled(conf, c, src), finalize_segment_response(c, q)
    PROVE  IInv'
<1> DEFINE a == IF q.header > 0 THEN SendLast(q) ELSE Answer(q)
<1>1. Running(a) /\ Complete(conf, a, "OK")
  <2>1. CASE Clean(q)
    <3>1. a = Answer(q)
        BY <2>1 DEF Clean
    <3> QED
        BY <2>1, <3>1, AnswerFacts
  <2>2. CASE Begun(q)
    <3>1. a = SendLast(q)
        BY <2>2 DEF Begun
    <3> QED
        BY <2>2, <3>1, BegunFacts
  <2> QED
      BY <2>1, <2>2
<1>2. Complete(conf, q, "STATUS")
    BY DEF Clean, Begun, Complete
<1>3. Return(c, a, "OK") \/ Return(c, q, "STATUS")
    BY DEF finalize_segment_response
<1> HIDE DEF a
<1> QED
    BY <1>1, <1>2, <1>3, ReturnStep

\* ngx_http_vod_init_frame_processing
LEMMA InitFrames ==
    ASSUME IInv, init_frame_processing
    PROVE  IInv'
<1>1. pc = "init_frames" /\ src' = src
    BY DEF init_frame_processing
<1>2. Runs(conf, ctx, src, rq, "init_frames")
    BY <1>1 DEF IInv, RunningAt
<1>3. /\ ctx \in Ctx /\ src \in [Ids -> Source] /\ Running(rq) /\ ResponseOK(conf, ctx, rq)
      /\ MainOK(conf, ctx, src, 0) /\ conf.kind = "segment"
      /\ ctx.state = "FILTER_FRAMES" \/ (ctx.state = "OPEN_FILE" /\ ctx.cur_source = 0)
    BY <1>2 DEF Runs
<1>4. /\ AllOpen(conf, ctx, src) /\ Clean(rq) /\ Settled(conf, ctx, src)
      /\ ctx.cur_source <= Len(ctx.sources) /\ ctx.machine = "main"
    BY <1>3 DEF AllOpen, Processing, ResponseOK, ClipBegun, SegmentMayBegin, MainOK, PositionOK
<1> DEFINE d == ProcessWith(ctx, "PROCESS_FRAMES", "segment")
           sent == SendBody(SendHeader(rq), FALSE)
<1>5. \/ Return(ctx, rq, "STATUS")
      \/ conf.head /\ Return(ctx, SendHeader(rq), "OK")
      \/ Return(ctx, SendBody(SendHeader(rq), TRUE), "OK")
      \/ \E q \in IF conf.head THEN {rq} ELSE {rq, sent} :
            Continue(d, q, "main") \/ finalize_segment_response(ctx, q)
    BY DEF init_frame_processing, ProcessWith
<1>6. CASE Return(ctx, rq, "STATUS")
    BY <1>1, <1>3, <1>4, <1>6, FailStep
<1>7. CASE conf.head /\ Return(ctx, SendHeader(rq), "OK")
    BY <1>1, <1>3, <1>4, <1>7, AnswerFacts, ReturnStep
<1>8. CASE Return(ctx, SendBody(SendHeader(rq), TRUE), "OK")
    BY <1>1, <1>3, <1>4, <1>8, AnswerFacts, ReturnStep
<1>9. Running(sent) /\ Begun(sent)
    BY <1>3, <1>4, AnswerFacts
<1> HIDE DEF sent
<1>10. d \in Ctx /\ SameSources(ctx, d) /\ d.state = "PROCESS_FRAMES"
       /\ d.cur_source = ctx.cur_source
  <2>1. "PROCESS_FRAMES" \in MainStates
      BY DEF MainStates
  <2> QED
      BY <1>3, <2>1, ProcessWithFacts
<1> HIDE DEF d
<1>11. AllOpen(conf, d, src) /\ d.machine = "main"
  <2>1. d.cur_source <= Len(d.sources) /\ d.machine = "main"
      BY <1>4, <1>10 DEF SameSources
  <2> QED
      BY <1>3, <1>4, <1>10, <2>1, ProcessingFacts DEF ProcessesKind
<1>12. MainOK(conf, d, src, 0)
    BY <1>11 DEF AllOpen
<1>13. ASSUME NEW q, Running(q), Clean(q) \/ (Begun(q) /\ ~conf.head),
              Continue(d, q, "main") \/ finalize_segment_response(ctx, q)
       PROVE  IInv'
  <2>1. CASE Continue(d, q, "main")
    <3>1. ResponseOK(conf, d, q)
        BY <1>3, <1>10, <1>11, <1>13 DEF ResponseOK, ClipBegun, SegmentMayBegin
    <3> QED
        BY <1>1, <1>3, <1>10, <1>12, <1>13, <2>1, <3>1, GoOn
  <2>2. CASE finalize_segment_response(ctx, q)
      BY <1>1, <1>4, <1>13, <2>2, FinalizeSegment
  <2> QED
      BY <1>13, <2>1, <2>2
<1>14. CASE \E q \in IF conf.head THEN {rq} ELSE {rq, sent} :
              Continue(d, q, "main") \/ finalize_segment_response(ctx, q)
    BY <1>3, <1>4, <1>9, <1>13, <1>14
<1> QED
    BY <1>5, <1>6, <1>7, <1>8, <1>14

CountRead(c) == [c EXCEPT !.reads = @ + 1]

\* A read that a frame processor asks for.
LEMMA CountReadFacts ==
    ASSUME NEW c \in Ctx, c.reads < MaxReads, NEW d, d = CountRead(c)
    PROVE  d \in Ctx /\ SameSources(c, d) /\ d.state = c.state /\ d.cur_source = c.cur_source
<1> DEFINE v == c.reads + 1
<1>1. v \in 0 .. MaxReads
    BY FlowAssumption, SMTT(60) DEF Ctx
<1>2. d = [c EXCEPT !.reads = v]
    BY DEF CountRead
<1> HIDE DEF v
<1> QED
    BY <1>1, <1>2, ZenonT(60) DEF Ctx, SameSources

\* ngx_http_vod_process_media_frames
LEMMA ProcessFrames ==
    ASSUME IInv, process_media_frames
    PROVE  IInv'
<1>1. pc = "main" /\ ctx.state \in {"FILTER_FRAMES", "PROCESS_FRAMES"} /\ src' = src
    BY DEF process_media_frames
<1>2. /\ ctx \in Ctx /\ src \in [Ids -> Source] /\ Running(rq) /\ ResponseOK(conf, ctx, rq)
      /\ MainOK(conf, ctx, src, 0) /\ Settled(conf, ctx, src) /\ ctx.machine = "main"
    BY <1>1, AtMain
<1>3. /\ AllOpen(conf, ctx, src) /\ conf.kind = "segment"
      /\ ctx.cur_source <= Len(ctx.sources) /\ (Clean(rq) \/ Begun(rq))
    BY <1>1, <1>2 DEF AllOpen, Processing, MainOK, PositionOK, ResponseOK
<1> DEFINE d == CountRead(ctx)
<1>4. \/ ctx.reads < MaxReads /\ \E s \in ToSet(ctx.sources) : ReadSource(d, s)
      \/ ctx.state = "FILTER_FRAMES" /\ Continue(ctx, rq, "init_frames")
      \/ finalize_segment_response(ctx, rq)
      \/ Return(ctx, rq, "STATUS")
    BY DEF process_media_frames, CountRead
<1>5. CASE ctx.reads < MaxReads /\ \E s \in ToSet(ctx.sources) : ReadSource(d, s)
  <2>1. PICK s \in ToSet(ctx.sources) : ReadSource(d, s)
      BY <1>5
  <2>2. d \in Ctx /\ SameSources(ctx, d) /\ d.state = ctx.state /\ d.cur_source = ctx.cur_source
      BY <1>2, <1>5, CountReadFacts
  <2> HIDE DEF d
  <2>3. d.machine = "main" /\ d.sources = ctx.sources
      BY <1>2, <2>2 DEF SameSources
  <2>4. AllOpen(conf, d, src)
      BY <1>1, <1>2, <1>3, <2>2, <2>3, ProcessingFacts DEF ProcessesKind
  <2>5. MainOK(conf, d, src, 0)
      BY <2>4 DEF AllOpen
  <2>6. ResponseOK(conf, d, rq)
      BY <1>2, <2>2, <2>3 DEF ResponseOK, ClipBegun, SegmentMayBegin
  <2>7. s \in Ids /\ src[s].open
    <3>1. PICK i \in DOMAIN ctx.sources : ctx.sources[i] = s
        BY <2>1 DEF ToSet
    <3> QED
        BY <1>2, <1>3, <3>1, AllOpenFacts
  <2> QED
      BY <1>1, <1>2, <2>1, <2>2, <2>5, <2>6, <2>7, ReadSourceStep
<1>6. CASE ctx.state = "FILTER_FRAMES" /\ Continue(ctx, rq, "init_frames")
  <2>1. Runs(conf, ctx, src', rq, "init_frames")
      BY <1>1, <1>2, <1>3, <1>6 DEF Runs
  <2> QED
      BY <1>6, <2>1, ContinueStep DEF RunningAt
<1>7. CASE finalize_segment_response(ctx, rq)
    BY <1>1, <1>2, <1>3, <1>7, FinalizeSegment
<1>8. CASE Return(ctx, rq, "STATUS")
    BY <1>1, <1>2, <1>8, FailStep
<1> QED
    BY <1>4, <1>5, <1>6, <1>7, <1>8

\* ngx_http_vod_dump_file, ngx_http_vod_dump_http_request
LEMMA DumpRequest ==
    ASSUME IInv, dump_request
    PROVE  IInv'
<1>1. pc = "main" /\ ctx.state = "DUMP_OPEN_FILE" /\ src' = src
    BY DEF dump_request, AtState
<1>2. /\ ctx \in Ctx /\ src \in [Ids -> Source] /\ Running(rq) /\ ResponseOK(conf, ctx, rq)
      /\ MainOK(conf, ctx, src, 0) /\ Settled(conf, ctx, src) /\ ctx.machine = "main"
    BY <1>1, AtMain
<1>3. Clean(rq)
    BY <1>1, <1>2 DEF ResponseOK, ClipBegun, SegmentMayBegin
<1> DEFINE o == [NoOp EXCEPT !.kind = "dump", !.http = TRUE]
           a == StartChild(rq)
<1>4. \/ Suspend(ctx, a, o)
      \/ Return(ctx, rq, "ERROR") \/ Return(ctx, rq, "STATUS")
      \/ Return(ctx, Answer(rq), "OK")
      \/ Return(ctx, SendHeader(rq), "STATUS")
    BY DEF dump_request
<1>5. CASE Suspend(ctx, a, o)
  <2>1. o.kind = "dump" /\ o.http = TRUE
      BY DEF NoOp
  <2> HIDE DEF o
  <2>2. Suspended(a, o) /\ Clean(a)
      BY <1>2, <1>3, <2>1, StartedFacts
  <2> HIDE DEF a
  <2>3. Waits(conf, ctx, src', a, o)
      BY <1>1, <1>2, <2>1, <2>2 DEF Waits, WaitsForOther
  <2> QED
      BY <1>5, <2>3, SuspendStep
<1>6. CASE Return(ctx, rq, "ERROR") \/ Return(ctx, rq, "STATUS")
    BY <1>1, <1>2, <1>6, FailStep
<1>7. CASE Return(ctx, Answer(rq), "OK")
    BY <1>1, <1>2, <1>3, <1>7, AnswerFacts, ReturnStep
<1>8. CASE Return(ctx, SendHeader(rq), "STATUS")
  <2> DEFINE h == SendHeader(rq)
  <2>1. h.header = 1 /\ h.body = {}
      BY <1>2, <1>3 DEF SendHeader, Clean, Running, Request
  <2>2. Running(h)
      BY <1>2, <1>3, AnswerFacts
  <2> HIDE DEF h
  <2>3. Complete(conf, h, "STATUS")
      BY <2>1 DEF Complete
  <2>4. Return(ctx, h, "STATUS")
      BY <1>8 DEF h
  <2> QED
      BY <1>1, <1>2, <2>2, <2>3, <2>4, ReturnStep
<1> QED
    BY <1>4, <1>5, <1>6, <1>7, <1>8

\* The part of the file was sent by a subrequest.
LEMMA DumpPartDone ==
    ASSUME IInv, dump_file_part_done
    PROVE  IInv'
<1>1. pc = "main" /\ ctx.state = "DUMP_FILE_PART" /\ src' = src
    BY DEF dump_file_part_done, AtState
<1>2. /\ ctx \in Ctx /\ Running(rq) /\ ResponseOK(conf, ctx, rq)
      /\ MainOK(conf, ctx, src, 0) /\ Settled(conf, ctx, src) /\ ctx.machine = "main"
    BY <1>1, AtMain
<1>3. Begun(rq)
    BY <1>1, <1>2 DEF MainOK, PositionOK, ResponseOK, ClipBegun
<1>4. CASE Return(ctx, SendLast(rq), "OK")
    BY <1>1, <1>2, <1>3, <1>4, BegunFacts, ReturnStep
<1>5. CASE Return(ctx, rq, "ERROR")
    BY <1>1, <1>2, <1>5, FailStep
<1> QED
    BY <1>4, <1>5 DEF dump_file_part_done

\* The actions of the main machine.
LEMMA MainStep ==
    ASSUME IInv, Main
    PROVE  IInv'
    BY DrmStep, MetadataStep, MetadataDone, OpenFilesStep, DumpPartStep, StartFilters,
       InitFrames, ProcessFrames, DumpRequest, DumpPartDone DEF Main

-----------------------------------------------------------------------------
(* Callbacks *)

\* The state that the callback of an operation finds.
LEMMA AtWait ==
    ASSUME IInv, pc = "wait", op.kind # "dump"
    PROVE  /\ ctx \in Ctx /\ src \in [Ids -> Source] /\ conf \in Configuration
           /\ Running(Completed(rq, op)) /\ ResponseOK(conf, ctx, Completed(rq, op))
           /\ op.kind = "open" => WaitsForOpen(conf, ctx, src, op)
           /\ op.kind = "read" => WaitsForRead(conf, ctx, src, op)
           /\ op.kind \notin {"open", "read"} => WaitsForOther(conf, ctx, src, op)
<1>1. Waits(conf, ctx, src, rq, op)
    BY DEF IInv
<1>2. Suspended(rq, op) /\ ResponseOK(conf, ctx, rq)
    BY <1>1 DEF Waits
<1>3. Running(Completed(rq, op)) /\ ResponseOK(conf, ctx, Completed(rq, op))
    BY <1>2, CompletedFacts
<1>4. /\ op.kind = "open" => WaitsForOpen(conf, ctx, src, op)
      /\ op.kind = "read" => WaitsForRead(conf, ctx, src, op)
      /\ op.kind \notin {"open", "read"} => WaitsForOther(conf, ctx, src, op)
    BY <1>1 DEF Waits, WaitsForOpen, WaitsForRead, WaitsForOther
<1> QED
    BY <1>1, <1>3, <1>4, FlowAssumption DEF Waits, IInv

OpenSet(s, n) == [s EXCEPT ![n].open = TRUE]

\* t is s but for the open flag of source n, which is set.
OpenSetIs(s, n, t) ==
    /\ t \in [Ids -> Source] /\ t[n].open
    /\ \A i \in Ids : /\ t[i].opens = s[i].opens /\ t[i].parsed = s[i].parsed
                      /\ t[i].uri = s[i].uri
    /\ \A i \in Ids \ {n} : t[i] = s[i]

\* The open flag of a source.
LEMMA OpenFlag ==
    ASSUME NEW s \in [Ids -> Source], NEW n \in Ids, NEW t, t = OpenSet(s, n)
    PROVE  OpenSetIs(s, n, t)
<1> DEFINE y == [s[n] EXCEPT !.open = TRUE]
<1>1. t = [s EXCEPT ![n] = y]
    BY DEF OpenSet
<1>2. ASSUME NEW x \in Source
      PROVE  LET z == [x EXCEPT !.open = TRUE]
             IN  /\ z \in Source /\ z.opens = x.opens /\ z.open
                 /\ z.parsed = x.parsed /\ z.uri = x.uri
    BY DEF Source
<1>3. /\ y \in Source /\ y.opens = s[n].opens /\ y.open
      /\ y.parsed = s[n].parsed /\ y.uri = s[n].uri
    BY <1>2
<1> HIDE DEF y
<1>4. t \in [Ids -> Source] /\ t[n] = y /\ \A i \in Ids \ {n} : t[i] = s[i]
    BY <1>1, <1>3
<1> QED
    BY <1>3, <1>4 DEF OpenSetIs

\* The open that was under way is done.
LEMMA OpenDone ==
    ASSUME NEW k, NEW c \in Ctx, NEW s \in [Ids -> Source], NEW n \in Ids,
           MainOK(k, c, s, n), NEW t, t = OpenSet(s, n)
    PROVE  t \in [Ids -> Source] /\ MainOK(k, c, t, 0)
<1>1. /\ t \in [Ids -> Source] /\ t[n].open
      /\ \A i \in Ids : /\ t[i].opens = s[i].opens /\ t[i].parsed = s[i].parsed
                        /\ t[i].uri = s[i].uri
      /\ \A i \in Ids \ {n} : t[i] = s[i]
  <2>1. OpenSetIs(s, n, t)
      BY OpenFlag
  <2> QED
      BY <2>1 DEF OpenSetIs
<1>2. Settled(k, c, t)
  <2>1. Settled(k, c, s) /\ \A i \in Ids : t[i].uri = s[i].uri
      BY <1>1 DEF MainOK
  <2> QED
      BY <2>1, SettledFrame
<1>3. ASSUME NEW i \in DOMAIN c.sources
      PROVE  SourceAt(k, c, t[c.sources[i]], i, c.sources[i] = 0)
  <2>1. c.sources[i] \in Ids /\ SourceAt(k, c, s[c.sources[i]], i, c.sources[i] = n)
      BY DEF Ctx, MainOK, SourcesAt
  <2>2. CASE c.sources[i] = n
    <3>1. t[n].open /\ t[n].opens = s[n].opens /\ t[n].parsed = s[n].parsed
        BY <1>1
    <3> QED
        BY <2>1, <2>2, <3>1 DEF SourceAt
  <2>3. CASE c.sources[i] # n
    <3>1. t[c.sources[i]] = s[c.sources[i]]
        BY <1>1, <2>1, <2>3
    <3> QED
        BY <2>1, <2>3, <3>1 DEF SourceAt
  <2> QED
      BY <2>2, <2>3
<1> QED
    BY <1>1, <1>2, <1>3 DEF MainOK, SourcesAt

\* ngx_http_vod_file_open_completed_internal
LEMMA OpenCompleted ==
    ASSUME IInv, file_open_completed
    PROVE  IInv'
<1> DEFINE q == Completed(rq, op)
<1>1. pc = "wait" /\ op.kind = "open"
    BY DEF file_open_completed, Waiting
<1>2. /\ ctx \in Ctx /\ src \in [Ids -> Source] /\ Running(q) /\ ResponseOK(conf, ctx, q)
      /\ WaitsForOpen(conf, ctx, src, op)
    BY <1>1, AtWait
<1>3. \/ /\ Continue(ctx, q, Resume(ctx))
         /\ src' = IF op.source = 0 THEN src ELSE [src EXCEPT ![op.source].open = TRUE]
      \/ Return(ctx, q, "STATUS") /\ src' = src
      \/ op.fallback /\ DumpToFallback(ctx, q) /\ src' = src
    BY DEF file_open_completed
<1> HIDE DEF q
<1>4. ctx.machine = "main" => Settled(conf, ctx, src)
    BY <1>2 DEF WaitsForOpen, MapOK, Mappers, MainOK
<1>5. CASE Return(ctx, q, "STATUS") /\ src' = src
    BY <1>2, <1>4, <1>5, FailStep
<1>6. CASE op.fallback /\ DumpToFallback(ctx, q) /\ src' = src
  <2>1. /\ conf.mode = "local" /\ ctx.state \in OpenStates
        /\ ClipBegun(conf, ctx) => conf.cache
      BY <1>2, <1>6 DEF WaitsForOpen
  <2>2. ~SegmentMayBegin(conf, ctx)
      BY <2>1 DEF SegmentMayBegin, OpenStates
  <2>3. NoFallbackAfterHeader /\ conf.fallback => ~ClipBegun(conf, ctx)
      BY <2>1 DEF NoFallbackAfterHeader, ClipBegun, IInv
  <2>4. NoFallbackAfterHeader /\ conf.fallback => Clean(q)
      BY <1>2, <2>2, <2>3 DEF ResponseOK
  <2> QED
      BY <1>2, <1>4, <1>6, <2>4, DumpStep
<1>7. CASE /\ Continue(ctx, q, Resume(ctx))
           /\ src' = IF op.source = 0 THEN src ELSE [src EXCEPT ![op.source].open = TRUE]
  <2>1. CASE op.source = 0 /\ MapOK(conf, ctx, src) /\ ctx.state = "MAP_OPEN"
    <3>1. Resume(ctx) = "map" /\ src' = src
        BY <1>7, <2>1 DEF Resume, MapOK, Mappers
    <3>2. Runs(conf, ctx, src', q, "map")
        BY <1>2, <2>1, <3>1 DEF Runs
    <3> QED
        BY <1>7, <3>1, <3>2, ContinueStep DEF RunningAt
  <2>2. CASE op.source \in Ids /\ MainOK(conf, ctx, src, op.source)
    <3>1. op.source # 0
        BY <2>2, FlowAssumption DEF Ids
    <3>2. src' \in [Ids -> Source] /\ MainOK(conf, ctx, src', 0)
      <4>1. src' = OpenSet(src, op.source)
          BY <1>7, <3>1 DEF OpenSet
      <4> QED
          BY <1>2, <2>2, <4>1, OpenDone
    <3>3. Resume(ctx) = "main"
        BY <2>2 DEF Resume, MainOK
    <3> QED
        BY <1>2, <1>7, <3>2, <3>3, GoOn
  <2> QED
      BY <1>2, <2>1, <2>2 DEF WaitsForOpen
<1> QED
    BY <1>3, <1>5, <1>6, <1>7

\* A mapping that was found stale is opened again.
LEMMA RetriedFacts ==
    ASSUME NEW c \in Ctx, c.stale_retries > 0, NEW d, d = RetryStale(c)
    PROVE  d \in Ctx /\ SameButState(c, d) /\ d.state = "MAP_INITIAL"
<1> DEFINE v == c.stale_retries - 1
           a == [c EXCEPT !.stale_retries = v]
<1>1. d = [a EXCEPT !.state = "MAP_INITIAL"]
    BY DEF RetryStale
<1>2. v \in 0 .. MaxStaleRetries
    BY FlowAssumption, SMTT(60) DEF Ctx
<1> HIDE DEF v
<1>3. a \in Ctx /\ SameButState(c, a)
    BY <1>2 DEF Ctx, SameButState
<1> HIDE DEF a
<1> QED
    BY <1>1, <1>3, ZenonT(60) DEF Ctx, SameButState, MapStates

\* ngx_http_vod_handle_read_completed
LEMMA ReadCompleted ==
    ASSUME IInv, handle_read_completed
    PROVE  IInv'
<1> DEFINE q == Completed(rq, op)
           d == RetryStale(ctx)
           b == op.item # NoItem
<1>1. pc = "wait" /\ op.kind = "read" /\ src' = src
    BY DEF handle_read_completed, Waiting
<1>2. /\ ctx \in Ctx /\ src \in [Ids -> Source] /\ Running(q) /\ ResponseOK(conf, ctx, q)
      /\ WaitsForRead(conf, ctx, src, op)
    BY <1>1, AtWait
<1>3. ctx.machine = "main" => Settled(conf, ctx, src)
    BY <1>2 DEF WaitsForRead, MapOK, Mappers, MainOK
<1>4. ASSUME NEW e
      PROVE  [ctx EXCEPT !.response = op.item, !.empty = e]
                = [ctx EXCEPT !.empty = e, !.response = op.item]
    BY <1>2 DEF Ctx
<1>5. \/ Continue([ctx EXCEPT !.empty = FALSE, !.response = op.item], q, Resume(ctx))
      \/ Continue([ctx EXCEPT !.empty = b, !.response = op.item], q, Resume(ctx))
      \/ MayRetry(ctx) /\ Continue(d, q, Resume(ctx))
      \/ Return(ctx, q, "STATUS")
    BY <1>4 DEF handle_read_completed
<1>6. b \in BOOLEAN /\ FALSE \in BOOLEAN
    OBVIOUS
<1> HIDE DEF q, b
<1>7. CASE Continue([ctx EXCEPT !.empty = FALSE, !.response = op.item], q, Resume(ctx))
    BY <1>1, <1>2, <1>6, <1>7, FilledStep
<1>8. CASE Continue([ctx EXCEPT !.empty = b, !.response = op.item], q, Resume(ctx))
    BY <1>1, <1>2, <1>6, <1>8, FilledStep
<1>9. CASE Return(ctx, q, "STATUS")
    BY <1>1, <1>2, <1>3, <1>9, FailStep
<1>10. CASE MayRetry(ctx) /\ Continue(d, q, Resume(ctx))
  <2>1. ctx.state = "MAP_READ" /\ ctx.stale_retries > 0
      BY <1>10 DEF MayRetry
  <2>2. d \in Ctx /\ SameButState(ctx, d) /\ d.state = "MAP_INITIAL"
      BY <1>2, <2>1, RetriedFacts
  <2> HIDE DEF d
  <2>3. MapOK(conf, ctx, src) /\ CurItem(ctx).index # 0
      BY <1>2, <2>1 DEF WaitsForRead, MapOK
  <2>4. d.state \in MapStates
      BY <2>2 DEF MapStates
  <2>5. MapOK(conf, d, src)
      BY <2>2, <2>3, <2>4, MapStateFrame
  <2>6. ctx.machine # "main" /\ d.machine # "main" /\ Resume(ctx) = "map"
      BY <2>3, <2>5 DEF MapOK, Mappers, Resume
  <2>7. ResponseOK(conf, d, q)
      BY <1>2, <2>6, NothingSent
  <2>8. Runs(conf, d, src', q, "map")
      BY <1>1, <1>2, <2>2, <2>5, <2>7 DEF Runs
  <2> QED
      BY <1>10, <2>6, <2>8, ContinueStep DEF RunningAt
<1> QED
    BY <1>5, <1>7, <1>8, <1>9, <1>10

\* ngx_http_vod_handle_read_completed, of a part of the file
LEMMA PartCompleted ==
    ASSUME IInv, handle_part_completed
    PROVE  IInv'
<1> DEFINE p == Completed(rq, op)
           q == SendBody(p, FALSE)
<1>1. pc = "wait" /\ op.kind = "dump_part" /\ src' = src
    BY DEF handle_part_completed, Waiting
<1>2. /\ ctx \in Ctx /\ src \in [Ids -> Source] /\ Running(p) /\ ResponseOK(conf, ctx, p)
      /\ WaitsForOther(conf, ctx, src, op)
    BY <1>1, AtWait
<1>3. MainOK(conf, ctx, src, 0) /\ ctx.state = "DUMP_FILE_PART"
    BY <1>1, <1>2 DEF WaitsForOther
<1>4. Begun(p) /\ ~conf.head /\ Settled(conf, ctx, src) /\ ClipBegun(conf, ctx)
    BY <1>2, <1>3 DEF MainOK, PositionOK, ResponseOK, ClipBegun
<1> HIDE DEF p
<1>5. Running(q) /\ Begun(q)
    BY <1>2, <1>4, BegunFacts
<1>6. \/ Continue(ctx, q, "main")
      \/ Return(ctx, q, "STATUS")
      \/ /\ pc' = "end" /\ ctx' = ctx /\ conf' = conf
         /\ rq' = NginxFinalize(q, "AGAIN")
    BY DEF handle_part_completed, p
<1> HIDE DEF q
<1>7. ResponseOK(conf, ctx, q)
    BY <1>4, <1>5 DEF ResponseOK
<1>8. CASE Continue(ctx, q, "main")
    BY <1>1, <1>2, <1>3, <1>5, <1>7, <1>8, GoOn
<1>9. CASE Return(ctx, q, "STATUS")
    BY <1>1, <1>4, <1>5, <1>7, <1>9, FailStep
<1>10. CASE /\ pc' = "end" /\ ctx' = ctx /\ conf' = conf
            /\ rq' = NginxFinalize(q, "AGAIN")
  <2>1. /\ rq'.count = 0 /\ rq'.blocked = 0 /\ rq'.header = 1 /\ rq'.body = {"own"}
        /\ rq'.result = "AGAIN"
      BY <1>5, <1>10 DEF NginxFinalize, Running, Begun, Request
  <2>2. Complete(conf, rq', rq'.result)
      BY <2>1 DEF Complete
  <2>3. Ended(conf', ctx', src', rq')
      BY <1>1, <1>4, <1>10, <2>1, <2>2 DEF Ended
  <2> QED
      BY <1>10, <2>3 DEF IInv, RunningAt
<1> QED
    BY <1>6, <1>8, <1>9, <1>10

\* ngx_http_vod_drm_info_request_finished
LEMMA DrmFinished ==
    ASSUME IInv, drm_info_request_finished
    PROVE  IInv'
<1> DEFINE q == Completed(rq, op)
           d == DrmParsed(ctx)
<1>1. pc = "wait" /\ op.kind = "drm" /\ src' = src
    BY DEF drm_info_request_finished, Waiting
<1>2. /\ ctx \in Ctx /\ src \in [Ids -> Source] /\ Running(q) /\ ResponseOK(conf, ctx, q)
      /\ WaitsForOther(conf, ctx, src, op) /\ conf \in Configuration
    BY <1>1, AtWait
<1>3. /\ MainOK(conf, ctx, src, 0) /\ ctx.state = "READ_DRM_INFO"
      /\ ctx.cur_sequence <= conf.sequences
    BY <1>1, <1>2 DEF WaitsForOther
<1>4. Return(ctx, q, "STATUS") \/ Continue(d, q, "main")
    BY DEF drm_info_request_finished
<1>5. d \in Ctx /\ MainOK(conf, d, src, 0) /\ d.state = "READ_DRM_INFO"
    BY <1>2, <1>3, DrmParsedFacts
<1> HIDE DEF q, d
<1>6. ResponseOK(conf, d, q)
    BY <1>2, <1>3, <1>5 DEF ResponseOK, ClipBegun, SegmentMayBegin
<1>7. CASE Return(ctx, q, "STATUS")
  <2>1. Settled(conf, ctx, src)
      BY <1>3 DEF MainOK
  <2> QED
      BY <1>1, <1>2, <1>7, <2>1, FailStep
<1>8. CASE Continue(d, q, "main")
    BY <1>1, <1>2, <1>5, <1>6, <1>8, GoOn
<1> QED
    BY <1>4, <1>7, <1>8

\* ngx_http_vod_notification_finished
LEMMA NotificationFinished ==
    ASSUME IInv, notification_finished
    PROVE  IInv'
<1> DEFINE q == Completed(rq, op)
<1>1. pc = "wait" /\ op.kind = "notify" /\ src' = src
    BY DEF notification_finished, Waiting
<1>2. /\ ctx \in Ctx /\ src \in [Ids -> Source] /\ Running(q) /\ ResponseOK(conf, ctx, q)
      /\ WaitsForOther(conf, ctx, src, op)
    BY <1>1, AtWait
<1>3. conf.redirect /\ ctx.machine \in Mappers
    BY <1>1, <1>2 DEF WaitsForOther
<1>4. Continue(ctx, q, "notify")
    BY DEF notification_finished
<1>5. Runs(conf, ctx, src', q, "notify")
    BY <1>1, <1>2, <1>3 DEF Runs
<1> QED
    BY <1>4, <1>5, ContinueStep DEF RunningAt

\* ngx_child_request_wev_handler without a callback: the response is complete.
LEMMA RequestDumped ==
    ASSUME IInv, request_dumped
    PROVE  IInv'
<1> DEFINE q == Completed(rq, op)
           body == IF conf.head THEN {} ELSE {IF op.fallback THEN "fallback" ELSE "own"}
           h == [q EXCEPT !.header = IF @ = 0 THEN 1 ELSE @, !.body = @ \cup body]
           r == [q EXCEPT !.raw = @ \/ q.header = 0, !.body = @ \cup body]
<1>1. pc = "wait" /\ op.kind = "dump" /\ src' = src
    BY DEF request_dumped, Waiting
<1>2. Waits(conf, ctx, src, rq, op)
    BY <1>1 DEF IInv
<1>3. /\ Suspended(rq, op) /\ (NoFallbackAfterHeader => Clean(rq))
      /\ ctx.machine = "main" => Settled(conf, ctx, src)
    BY <1>1, <1>2 DEF Waits, WaitsForOther, WaitsForOpen, WaitsForRead
<1>4. Running(q) /\ (NoFallbackAfterHeader => Clean(q))
    BY <1>3, CompletedFacts
<1>5. PICK q1 \in {q, h, r} :
        Return(ctx, IF q1.header > 0 \/ q1.raw THEN SendLast(q1) ELSE q1,
               IF q1.header > 0 \/ q1.raw THEN "OK" ELSE "STATUS")
    BY DEF request_dumped
<1> HIDE DEF q
<1>6. body \in {{}, {"own"}, {"fallback"}}
    OBVIOUS
<1> HIDE DEF body
<1>7. /\ h \in Request /\ h.count = 1 /\ h.blocked = 0 /\ h.result = "none"
      /\ Clean(q) => h.header = 1 /\ h.body = body /\ ~h.raw
  <2> DEFINE v == IF q.header = 0 THEN 1 ELSE q.header
             w == q.body \cup body
             x == [q EXCEPT !.header = v]
  <2>1. q \in Request /\ q.count = 1 /\ q.blocked = 0 /\ q.result = "none"
      BY <1>4 DEF Running
  <2>2. v \in Nat /\ w \in SUBSET {"own", "fallback"}
      BY <1>6, <2>1 DEF Request
  <2>3. h = [x EXCEPT !.body = w]
      BY <2>1 DEF Request
  <2>4. Clean(q) => v = 1 /\ w = body /\ ~q.raw
      BY DEF Clean
  <2> HIDE DEF v, w
  <2>5. /\ x \in Request /\ x.count = 1 /\ x.blocked = 0 /\ x.result = "none"
        /\ x.header = v /\ x.raw = q.raw
      BY <2>1, <2>2 DEF Request
  <2> HIDE DEF x, h
  <2>6. /\ h \in Request /\ h.count = 1 /\ h.blocked = 0 /\ h.result = "none"
        /\ h.header = v /\ h.body = w /\ h.raw = q.raw
      BY <2>2, <2>3, <2>5 DEF Request
  <2> QED
      BY <2>4, <2>6
<1>8. /\ r \in Request /\ r.count = 1 /\ r.blocked = 0 /\ r.result = "none"
      /\ Clean(q) => r.header = 0 /\ r.body = body /\ r.raw
  <2> DEFINE v == q.raw \/ q.header = 0
             w == q.body \cup body
             x == [q EXCEPT !.raw = v]
  <2>1. q \in Request /\ q.count = 1 /\ q.blocked = 0 /\ q.result = "none"
      BY <1>4 DEF Running
  <2>2. v \in BOOLEAN /\ w \in SUBSET {"own", "fallback"}
      BY <1>6, <2>1 DEF Request
  <2>3. r = [x EXCEPT !.body = w]
      BY <2>1 DEF Request
  <2>4. Clean(q) => v /\ w = body /\ q.header = 0
      BY DEF Clean
  <2> HIDE DEF v, w
  <2>5. /\ x \in Request /\ x.count = 1 /\ x.blocked = 0 /\ x.result = "none"
        /\ x.header = q.header /\ x.raw = v
      BY <2>1, <2>2 DEF Request
  <2> HIDE DEF x, r
  <2>6. /\ r \in Request /\ r.count = 1 /\ r.blocked = 0 /\ r.result = "none"
        /\ r.header = q.header /\ r.body = w /\ r.raw = v
      BY <2>2, <2>3, <2>5 DEF Request
  <2> QED
      BY <2>4, <2>6
<1> HIDE DEF h, r
<1>9. /\ q1 \in Request /\ q1.count = 1 /\ q1.blocked = 0 /\ q1.result = "none"
      /\ NoFallbackAfterHeader =>
           q1.header \in {0, 1} /\ q1.body \in {{}, {"own"}, {"fallback"}}
  <2>1. CASE q1 = q
      BY <1>4, <2>1 DEF Running, Clean
  <2>2. CASE q1 = h
      BY <1>4, <1>6, <1>7, <2>2
  <2>3. CASE q1 = r
      BY <1>4, <1>6, <1>8, <2>3
  <2> QED
      BY <1>5, <2>1, <2>2, <2>3
<1> DEFINE z == SendLast(q1)
<1>10. /\ z \in Request /\ z.count = 1 /\ z.blocked = 0 /\ z.result = "none"
       /\ z.header = q1.header /\ z.body = q1.body /\ z.raw = q1.raw /\ z.last
    BY <1>9 DEF SendLast, Request
<1>11. CASE q1.header > 0 \/ q1.raw
  <2>1. Return(ctx, z, "OK")
      BY <1>5, <1>11
  <2> HIDE DEF z
  <2>2. Running(z)
      BY <1>10 DEF Running
  <2>3. NoFallbackAfterHeader => Complete(conf, z, "OK")
      BY <1>9, <1>10, <1>11 DEF Complete
  <2> QED
      BY <1>1, <1>3, <2>1, <2>2, <2>3, ReturnStep
<1>12. CASE ~(q1.header > 0 \/ q1.raw)
  <2>1. Return(ctx, q1, "STATUS")
      BY <1>5, <1>12
  <2>2. Running(q1)
      BY <1>9 DEF Running
  <2>3. NoFallbackAfterHeader => Complete(conf, q1, "STATUS")
      BY <1>9 DEF Complete
  <2> QED
      BY <1>1, <1>3, <2>1, <2>2, <2>3, ReturnStep
<1> QED
    BY <1>11, <1>12

\* The callbacks.
LEMMA CallbackStep ==
    ASSUME IInv, Callback
    PROVE  IInv'
    BY OpenCompleted, ReadCompleted, PartCompleted, DrmFinished, NotificationFinished,
       RequestDumped DEF Callback

-----------------------------------------------------------------------------
(* The invariant *)

\* A request starts as the invariant says.
LEMMA InitOK == Init => IInv
<1> SUFFICES ASSUME Init PROVE IInv
    OBVIOUS
<1>1. conf \in Configurations /\ Start(conf) /\ pc = "start"
    BY DEF Init, Start
<1> QED
    BY <1>1 DEF IInv, RunningAt

\* Every handler and every callback leaves the request where the invariant says.
LEMMA NextOK == IInv /\ [Next]_vars => IInv'
<1> SUFFICES ASSUME IInv, [Next]_vars PROVE IInv'
    OBVIOUS
<1>1. CASE Handler
    BY <1>1, HandlerStep
<1>2. CASE Map
    BY <1>2, MapStep
<1>3. CASE Main
    BY <1>3, MainStep
<1>4. CASE Callback
    BY <1>4, CallbackStep
<1>5. CASE UNCHANGED vars
  <2>1. Start(conf) => Start(conf)'
      BY <1>5 DEF vars, Start
  <2>2. /\ conf' = conf /\ ctx' = ctx /\ src' = src /\ rq' = rq /\ op' = op /\ pc' = pc
      BY <1>5 DEF vars
  <2> QED
      BY <2>1, <2>2 DEF IInv
<1> QED
    BY <1>1, <1>2, <1>3, <1>4, <1>5 DEF Next

\* Wherever the event loop finds the request, the context, the sources and the
\* request are those that the handler which runs there expects.
THEOREM Invariance == Spec => []IInv
    BY InitOK, NextOK, PTL DEF Spec

\* ngx_http_vod_handler, the callbacks and ngx_http_vod_finalize_request: r->count
\* and r->blocked hold the request while an operation is outstanding, whichever
\* handler started it, and every handler that is finished gives it up exactly once.
THEOREM RequestIsBalanced == Spec => []Balanced
<1>1. IInv => Balanced
  <2> SUFFICES ASSUME IInv PROVE Balanced
      OBVIOUS
  <2>1. CASE pc = "start"
      BY <2>1, AtStart DEF Balanced, Running
  <2>2. CASE pc \in RunningAt
    <3>1. Running(rq)
        BY <2>2 DEF IInv, Runs
    <3> QED
        BY <2>2, <3>1 DEF Balanced, Running, RunningAt
  <2>3. CASE pc = "wait"
    <3>1. Suspended(rq, op)
        BY <2>3 DEF IInv, Waits
    <3> QED
        BY <2>3, <3>1 DEF Balanced, Suspended
  <2>4. CASE pc = "end"
      BY <2>4 DEF IInv, Ended, Balanced
  <2> QED
      BY <2>1, <2>2, <2>3, <2>4 DEF IInv
<1> QED
    BY <1>1, Invariance, PTL

\* ngx_http_vod_file_open_completed and ngx_http_vod_handle_read_completed only know
\* ctx->state: the operation that completes is the one that this state waits for.
THEOREM OperationsAreExpected == Spec => []WaitsInOrder
<1>1. IInv => WaitsInOrder
  <2> SUFFICES ASSUME IInv PROVE WaitsInOrder
      OBVIOUS
  <2>1. CASE pc = "map"
    <3>1. MapOK(conf, ctx, src)
        BY <2>1, AtMap
    <3> QED
        BY <2>1, <3>1 DEF WaitsInOrder, MapOK
  <2>2. CASE pc = "main"
    <3>1. MainOK(conf, ctx, src, 0)
        BY <2>2, AtMain
    <3> QED
        BY <2>2, <3>1 DEF WaitsInOrder, MainOK, PositionOK
  <2>3. CASE pc = "wait"
    <3>1. \/ WaitsForOpen(conf, ctx, src, op) \/ WaitsForRead(conf, ctx, src, op)
          \/ WaitsForOther(conf, ctx, src, op)
        BY <2>3 DEF IInv, Waits
    <3>2. \A n \in Ids : n # 0
        BY FlowAssumption DEF Ids
    <3>3. CASE WaitsForOpen(conf, ctx, src, op)
        BY <2>3, <3>2, <3>3 DEF WaitsForOpen, OpenStates, WaitsInOrder
    <3>4. CASE WaitsForRead(conf, ctx, src, op)
        BY <2>3, <3>2, <3>4 DEF WaitsForRead, WaitsInOrder
    <3>5. CASE WaitsForOther(conf, ctx, src, op)
        BY <2>3, <3>5 DEF WaitsForOther, WaitsInOrder
    <3> QED
        BY <3>1, <3>3, <3>4, <3>5
  <2> QED
      BY <2>1, <2>2, <2>3 DEF WaitsInOrder
<1> QED
    BY <1>1, Invariance, PTL


\* What the main machine was started with, said of the sets.
LEMMA SettledSets ==
    ASSUME NEW k, NEW c, NEW s, Settled(k, c, s)
    PROVE  /\ ToSet(c.sources) \in {1 .. c.used, k.uris + 1 .. c.used}
           /\ \A x \in ToSet(c.sources) : s[x].uri = "own"
           /\ ToSet(c.dynamic) \subseteq {"own"}
<1>1. Named(c, s) /\ AllOwn(c.dynamic)
      /\ (ToSet(c.sources) = 1 .. c.used \/ ToSet(c.sources) = k.uris + 1 .. c.used)
    BY DEF Settled
<1>2. \A x \in ToSet(c.sources) : s[x].uri = "own"
    BY <1>1 DEF Named, ToSet
<1>3. ToSet(c.dynamic) \subseteq {"own"}
    BY <1>1 DEF AllOwn, ToSet
<1> QED
    BY <1>1, <1>2, <1>3

\* Where a request may stop, the main machine has its sources.
LEMMA SettledAnywhere ==
    ASSUME IInv, ctx.machine = "main"
    PROVE  Settled(conf, ctx, src)
<1>1. pc # "start"
    BY AtStart
<1>2. ctx.machine \notin Mappers
    BY DEF Mappers
<1>3. CASE pc \in RunningAt
  <2>1. Runs(conf, ctx, src, rq, pc)
      BY <1>3 DEF IInv
  <2> QED
      BY <1>2, <2>1 DEF Runs, MapOK, MainOK
<1>4. CASE pc = "wait"
  <2>1. \/ WaitsForOpen(conf, ctx, src, op) \/ WaitsForRead(conf, ctx, src, op)
        \/ WaitsForOther(conf, ctx, src, op)
      BY <1>4 DEF IInv, Waits
  <2> QED
      BY <1>2, <2>1 DEF WaitsForOpen, WaitsForRead, WaitsForOther, MapOK, MainOK
<1>5. CASE pc = "end"
    BY <1>5 DEF IInv, Ended
<1> QED
    BY <1>1, <1>3, <1>4, <1>5 DEF IInv

\* The metadata of all sources was parsed, once each, and so was the drm info.
LEMMA AllParsed ==
    ASSUME NEW k, NEW c \in Ctx, NEW s, MainOK(k, c, s, 0), c.cur_source = 0 \/ c.state \notin Parsing,
           c.state \notin {"READ_DRM_INFO", "DUMP_OPEN_FILE"}
    PROVE  /\ \A x \in ToSet(c.sources) : s[x].parsed = 1
           /\ k.sequences > 0 => c.drm = 1 .. k.sequences
<1>1. ASSUME NEW i \in DOMAIN c.sources PROVE s[c.sources[i]].parsed = 1
  <2>1. SourceAt(k, c, s[c.sources[i]], i, FALSE)
      BY SourceFacts
  <2>2. Parsed(c, i)
      BY DEF Parsed, Done
  <2> QED
      BY <2>1, <2>2 DEF SourceAt
<1>2. \A x \in ToSet(c.sources) : s[x].parsed = 1
    BY <1>1 DEF ToSet
<1> QED
    BY <1>2 DEF MainOK, DrmOK

\* The places where frames are processed.
LEMMA FramesAt ==
    ASSUME IInv, FramesReached
    PROVE  ctx \in Ctx /\ AllOpen(conf, ctx, src)
<1>1. CASE pc = "init_frames"
  <2>1. Runs(conf, ctx, src, rq, "init_frames")
      BY <1>1 DEF IInv, RunningAt
  <2> QED
      BY <2>1 DEF Runs, AllOpen, Processing
<1>2. CASE pc = "main" /\ ctx.state \in {"FILTER_FRAMES", "PROCESS_FRAMES", "DUMP_FILE_PART"}
    BY <1>2, AtMain DEF AllOpen, Processing
<1> QED
    BY <1>1, <1>2 DEF FramesReached

\* ngx_http_vod_map_source_clip_done, ngx_http_vod_state_machine_parse_metadata and
\* ngx_http_vod_state_machine_open_files: however the mappings, opens and reads return
\* to the event loop, no source is lost, mapped twice, parsed twice or opened twice,
\* and frames are processed only once all of them are open.
THEOREM SourcesAreReady == Spec => []SourcesReady
<1>1. IInv => SourcesReady
  <2> SUFFICES ASSUME IInv PROVE SourcesReady
      OBVIOUS
  <2>1. ASSUME ctx.machine = "main"
        PROVE  /\ ToSet(ctx.sources) \in {1 .. ctx.used, conf.uris + 1 .. ctx.used}
               /\ \A s \in ToSet(ctx.sources) : src[s].uri = "own"
               /\ ToSet(ctx.dynamic) \subseteq {"own"}
    <3>1. Settled(conf, ctx, src)
        BY <2>1, SettledAnywhere
    <3> QED
        BY <3>1, SettledSets
  <2>2. ASSUME FramesReached
        PROVE  /\ \A s \in ToSet(ctx.sources) : src[s].open /\ src[s].opens = 1
               /\ \A s \in ToSet(ctx.sources) : src[s].parsed = 1
               /\ conf.sequences > 0 => ctx.drm = 1 .. conf.sequences
    <3>1. ctx \in Ctx /\ AllOpen(conf, ctx, src)
        BY <2>2, FramesAt
    <3>2. \A i \in DOMAIN ctx.sources :
              /\ src[ctx.sources[i]].open /\ src[ctx.sources[i]].opens = 1
              /\ src[ctx.sources[i]].parsed = 1
        BY <3>1, AllOpenFacts
    <3>3. MainOK(conf, ctx, src, 0) /\ ctx.state \notin {"READ_DRM_INFO", "DUMP_OPEN_FILE"}
        BY <3>1 DEF AllOpen, Processing
    <3> QED
        BY <3>2, <3>3 DEF ToSet, MainOK, DrmOK
  <2>3. ASSUME MetadataParsed
        PROVE  /\ \A s \in ToSet(ctx.sources) : src[s].parsed = 1
               /\ conf.sequences > 0 => ctx.drm = 1 .. conf.sequences
    <3>1. /\ pc = "main" /\ ctx.cur_source = 0
          /\ ctx.state \in MetadataStates
        BY <2>3 DEF MetadataParsed, MetadataStates
    <3>2. ctx \in Ctx /\ MainOK(conf, ctx, src, 0)
        BY <3>1, AtMain
    <3>3. ctx.state \notin {"READ_DRM_INFO", "DUMP_OPEN_FILE"}
        BY <3>1 DEF MetadataStates
    <3> QED
        BY <3>1, <3>2, <3>3, AllParsed
  <2> QED
      BY <2>1, <2>2, <2>3 DEF SourcesReady
<1> QED
    BY <1>1, Invariance, PTL

\* A response that has one producer.
LEMMA OneProducer ==
    ASSUME NEW b, b \in {{}, {"own"}, {"fallback"}}
    PROVE  Cardinality(b) <= 1
<1>1. Cardinality({}) = 0 /\ Cardinality({"own"}) = 1 /\ Cardinality({"fallback"}) = 1
    BY FS_EmptySet, FS_Singleton
<1> QED
    BY <1>1

\* ngx_http_vod_finalize_segment_response, ngx_http_vod_send_header and
\* ngx_http_vod_dump_request_to_fallback: the response has one header and one producer,
\* and a request that is finalized with NGX_OK is complete, unless a clip that is
\* served from cached metadata falls back after its header was sent.
THEOREM ResponseIsComplete ==
    ASSUME NoFallbackAfterHeader
    PROVE  Spec => []CompleteResponse
<1>1. IInv => CompleteResponse
  <2> SUFFICES ASSUME IInv PROVE CompleteResponse
      OBVIOUS
  <2>1. ASSUME Clean(rq) \/ Begun(rq), rq.result = "none" PROVE CompleteResponse
    <3>1. rq.body \in {{}, {"own"}, {"fallback"}} /\ rq.header <= 1
        BY <2>1 DEF Clean, Begun
    <3> QED
        BY <2>1, <3>1, OneProducer DEF CompleteResponse
  <2>2. CASE pc = "start"
      BY <2>1, <2>2, AtStart DEF Running
  <2>3. CASE pc \in RunningAt
      BY <2>1, <2>3 DEF IInv, Runs, Running, ResponseOK
  <2>4. CASE pc = "wait"
      BY <2>1, <2>4 DEF IInv, Waits, Suspended, ResponseOK
  <2>5. CASE pc = "end"
    <3>1. Complete(conf, rq, rq.result)
        BY <2>5 DEF IInv, Ended
    <3> QED
        BY <3>1, OneProducer DEF Complete, CompleteResponse
  <2> QED
      BY <2>2, <2>3, <2>4, <2>5 DEF IInv
<1> QED
    BY <1>1, Invariance, PTL
=============================================================================
