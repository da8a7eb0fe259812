------------------------------ MODULE MediaSet ------------------------------
(***************************************************************************)
(* media_set_parser.c: the mapping json of a playlist becomes the timing   *)
(* of a request.  A manifest request gets the live window of the playlist, *)
(* a segment request the ranges of the clips of one segment.               *)
(*                                                                         *)
(* A mapping j is a record with the fields of the json; -1 stands for an   *)
(* integer field that is missing and <<>> for missing clip_times.  The key *)
(* frames of a clip are the set of their offsets in it, {} when the json   *)
(* has no keyFrameDurations.  A request q has a kind, an index, a time, a  *)
(* clip_index and the clip_from and clip_to of its URI.                    *)
(***************************************************************************)
EXTENDS Segmenter, TLC

NONE == -1
MAX_LOOK_AHEAD_SEGMENTS == 2
SEGMENT_FROM_TIMESTAMP_MARGIN == 100

-----------------------------------------------------------------------------
(* The time line of the mapping *)

\* media_set_init_continuous_clip_times
init_continuous_clip_times(first, durations) ==
    SubSeq(ClipStart([durations |-> durations], first), 1, Len(durations))

\* media_set_parse_clip_times: a clip does not start before the one before it has ended.
parse_clip_times(j) ==
    /\ Len(j.clip_times) = Len(j.durations)
    /\ \A c \in 2 .. Len(j.durations) : j.clip_times[c] >= j.clip_times[c - 1] + j.durations[c - 1]

\* media_set_live_init_clip_times
live_times(j, use_discontinuity) ==
    IF j.clip_times = <<>> \/ ~use_discontinuity
    THEN init_continuous_clip_times(j.first_clip_time, j.durations)
    ELSE j.clip_times

\* media_set_parse_sequence_key_frame_offsets
KeyFramesOfClip(j, times, c) ==
    {times[c] + k : k \in {o \in j.key_frames[c] : o <= j.durations[c]}}

parse_key_frame_offsets(j, times) == UNION {KeyFramesOfClip(j, times, c) : c \in DOMAIN times}

\* media_set_parse_live_params and the fields it tests, before any request is looked at.
LiveParamsValid(j, use_discontinuity) ==
    LET first == live_times(j, use_discontinuity)[1]
    IN  /\ j.clip_times = <<>> \/ ~use_discontinuity => j.first_clip_time # NONE
        /\ ~use_discontinuity => j.segment_base_time # RELATIVE
        /\ j.segment_base_time # RELATIVE => j.segment_base_time <= first
        /\ j.first_clip_start_offset >= 0
        /\ j.first_clip_start_offset <= first - Greater(0, j.segment_base_time)

\* media_set_apply_live_window_duration_param
apply_live_window_duration_param(window, param) ==
    IF param <= 0 THEN window
    ELSE IF window > 0 THEN Lesser(window, param)
    ELSE IF window < 0 THEN Greater(window, -param)
    ELSE -param

\* "increase the live window to compensate for the look ahead segments reduction"
LiveWindow(conf, j, flags) ==
    LET window == IF j.playlist_type = "event" THEN 0
                  ELSE apply_live_window_duration_param(conf.live_window_duration, j.live_window_duration)
        more == conf.segment_duration * MAX_LOOK_AHEAD_SEGMENTS
    IN  IF "look_ahead" \notin flags \/ window = 0 THEN window
        ELSE IF window > 0 THEN window + more ELSE window - more

-----------------------------------------------------------------------------
(* Clipping *)

\* What media_set_parse_json has when it starts to look at the request.
Timing(j, times) ==
    [durations |-> j.durations, times |-> times,
     original_times |-> IF j.clip_times = <<>> THEN times ELSE j.clip_times,
     first_time |-> times[1], segment_base_time |-> RELATIVE,
     total_duration |-> ClipStart(j, 0)[Len(j.durations) + 1],
     first_segment_alignment_offset |-> 0, first_clip_start_offset |-> 0]

\* The clips from clip c on, less an offset into it.
DropTiming(timing, c, offset) ==
    LET n == Len(timing.durations)
        durations == [SubSeq(timing.durations, c, n) EXCEPT ![1] = @ - offset]
    IN  [timing EXCEPT !.durations = durations,
                       !.original_times = [SubSeq(@, c, n) EXCEPT ![1] = @ + offset],
                       !.times = [SubSeq(@, c, n) EXCEPT ![1] = @ + offset],
                       !.first_time = timing.times[c] + offset,
                       !.total_duration = ClipStart([durations |-> durations], 0)[Len(durations) + 1]]

\* media_set_apply_clip_from: a live playlist keeps its times, others start again from zero and
\* at a key frame.
apply_clip_from(timing, keys, live, clip_from) ==
    LET n == Len(timing.durations)
        later == {c \in 1 .. n : clip_from < timing.original_times[c] + timing.durations[c]}
        c0 == SetMin(later)
        offset0 == Greater(0, clip_from - timing.original_times[c0])
        align == keys # NoKeyFrames /\ ~live /\ offset0 > 0
        rel == Relative(keys, timing.times[c0])
        reached == {k \in rel : k >= offset0}
        offset1 == IF align THEN align_to_key_frames(rel, offset0, timing.durations[c0]) ELSE offset0
        past == offset1 >= timing.durations[c0]
        c == IF past THEN c0 + 1 ELSE c0
        offset == IF past THEN 0 ELSE offset1
        left == IF align /\ reached # {}
                THEN {k \in keys : k - timing.times[c0] >= SetMin(reached)} ELSE keys
        t == DropTiming(timing, c, offset)
    IN  IF later = {} \/ c > n THEN Fails("bad_request")
        ELSE IF align /\ (reached = {} \/ SetMin(reached) = SetMax(rel)) THEN Fails("bad_request")
        ELSE IF live
        THEN [rc |-> "OK", base_clip |-> c - 1, clip_from |-> offset, keys |-> keys,
              timing |-> [t EXCEPT !.first_clip_start_offset = IF c = 1 THEN @ + offset ELSE offset]]
        ELSE [rc |-> "OK", base_clip |-> c - 1, clip_from |-> offset, keys |-> Relative(left, t.first_time),
              timing |-> [t EXCEPT !.times = init_continuous_clip_times(0, t.durations), !.first_time = 0]]

\* media_set_apply_clip_to
apply_clip_to(timing, keys, clip_to) ==
    LET n == Len(timing.durations)
        later == {c \in 1 .. n : clip_to <= timing.original_times[c] + timing.durations[c]}
        c == SetMin(later)
        offset0 == clip_to - timing.original_times[c]
        offset == IF keys = NoKeyFrames THEN offset0
                  ELSE align_to_key_frames(Relative(keys, timing.times[c]), offset0, timing.durations[c])
        last == IF offset0 > 0 THEN c ELSE c - 1
        durations == SubSeq(IF offset0 > 0 THEN [timing.durations EXCEPT ![c] = offset] ELSE timing.durations,
                            1, last)
    IN  IF later = {} THEN [rc |-> "OK", timing |-> timing]
        ELSE IF last = 0 THEN Fails("bad_request")
        ELSE [rc |-> "OK",
              timing |-> [timing EXCEPT
                  !.durations = durations, !.times = SubSeq(@, 1, last),
                  !.original_times = SubSeq(@, 1, last),
                  !.total_duration = ClipStart([durations |-> durations], 0)[last + 1]]]

-----------------------------------------------------------------------------
(* The playlist of a request: media_set_parse_json up to its branch on the kind of request *)

IsLive(j, flags) == j.playlist_type # "vod" /\ "force_playlist_type_vod" \notin flags

UseDiscontinuity(j, flags) == j.discontinuity /\ "no_discontinuity" \notin flags

\* "live manifest timeline": whether the presentation has ended.
PresentationEnd(j, flags, clip_to, last_clip_end, now) ==
    \/ ~IsLive(j, flags)
    \/ last_clip_end > clip_to
    \/ j.presentation_end_time # NONE /\ j.presentation_end_time <= now

\* "return 404 for manifest": the test is whether the request has a segment_index or a segment_time,
\* so that requests for the initialization segment of a clip expire with the manifests.
NamesSegment(q) == q.kind \in {"segment", "thumb"}

\* Mutant: all requests of an expired mapping are refused.
Expired_always(j, q, now) == j.expiration_time # NONE /\ j.expiration_time <= now

Expired(j, q, now) == j.expiration_time # NONE /\ j.expiration_time <= now /\ ~NamesSegment(q)

MappingValid(j, live, disc) ==
    /\ j.clip_times # <<>> => parse_clip_times(j)
    /\ live => LiveParamsValid(j, disc)

ClipUpTo(from, clip_to, last_clip_end) ==
    IF from.rc # "OK" THEN from
    ELSE IF clip_to < last_clip_end
    THEN from @@ [to |-> apply_clip_to(from.timing, from.keys, clip_to)]
    ELSE from @@ [to |-> [rc |-> "OK", timing |-> from.timing]]

Clipped(timing, keys, live, q, last_clip_end) ==
    ClipUpTo(IF q.clip_from > timing.original_times[1]
             THEN apply_clip_from(timing, keys, live, q.clip_from)
             ELSE [rc |-> "OK", base_clip |-> 0, clip_from |-> 0, keys |-> keys, timing |-> timing],
             q.clip_to, last_clip_end)

PlaylistOf(j, live, disc, ended, clipped) ==
    IF clipped.rc # "OK" THEN clipped
    ELSE IF clipped.to.rc # "OK" THEN clipped.to
    ELSE [rc |-> "OK", live |-> live, use_discontinuity |-> disc, presentation_end |-> ended,
          timing |-> clipped.to.timing, keys |-> clipped.keys, base_clip |-> clipped.base_clip,
          first_clip_from |-> clipped.clip_from,
          initial_segment_index |-> IF live /\ disc THEN j.initial_segment_index ELSE 0]

TimelinePlaylist(j, q, flags, now, timing) ==
    LET live == IsLive(j, flags)
        n == Len(j.durations)
        last_clip_end == timing.original_times[n] + j.durations[n]
        ended == PresentationEnd(j, flags, q.clip_to, last_clip_end, now)
    IN  IF ~ended /\ Expired(j, q, now) THEN Fails("expired")
        ELSE PlaylistOf(j, live, UseDiscontinuity(j, flags), ended,
                        Clipped(timing, parse_key_frame_offsets(j, timing.times), live, q, last_clip_end))

Playlist(conf, j, q, flags, now) ==
    LET live == IsLive(j, flags)
        disc == UseDiscontinuity(j, flags)
    IN  IF q.clip_from >= q.clip_to THEN Fails("bad_request")
        ELSE IF ~disc /\ q.clip_index > 0 THEN Fails("bad_request")
        ELSE IF ~MappingValid(j, live, disc) THEN Fails("bad_mapping")
        ELSE TimelinePlaylist(j, q, flags, now,
               IF live
               THEN [Timing(j, live_times(j, disc)) EXCEPT
                       !.segment_base_time = j.segment_base_time,
                       !.first_clip_start_offset = j.first_clip_start_offset]
               ELSE Timing(j, init_continuous_clip_times(0, j.durations)))

-----------------------------------------------------------------------------
(* Segment requests *)

\* media_set_is_clip_start
is_clip_start(timing, time) == \E c \in DOMAIN timing.times : time = timing.times[c]

\* "recalculate the segment index if it was determined according to timestamp".  A vod playlist
\* without discontinuities has no segment base: the code subtracts SEGMENT_BASE_TIME_RELATIVE,
\* the largest 64 bit number, which adds 1.
index_of_time(conf, p, time) ==
    LET margin == IF is_clip_start(p.timing, time) THEN 0 ELSE SEGMENT_FROM_TIMESTAMP_MARGIN
    IN  IF p.use_discontinuity /\ p.timing.segment_base_time = RELATIVE
        THEN segment_index_discontinuity(conf, p.initial_segment_index, p.timing,
                                         time + SEGMENT_FROM_TIMESTAMP_MARGIN)
        ELSE IF time < p.timing.first_time THEN Fails("bad_request")
        ELSE [rc |-> "OK",
              index |-> segment_index_no_discontinuity(conf, time - p.timing.segment_base_time + margin)]

SegmentRanges(conf, p, index) ==
    IF p.use_discontinuity
    THEN get_start_end_ranges_discontinuity(conf, p.timing, p.keys, p.initial_segment_index, index,
                                            p.presentation_end)
    ELSE get_start_end_ranges_no_discontinuity(conf, p.timing, p.keys, index, p.presentation_end, 0)

\* "set the segment_start_time & segment_duration"
StartAndDuration(timing, r) ==
    LET start == r.clip_time + Head(r.ranges).start
        last == r.ranges[Len(r.ranges)]
    IN  [start_time |-> start, duration |-> timing.times[last.clip] + last.end - start]

\* The ranges r of the next segments, as far as they are there
Announced(p, r, some) == [rc |-> "OK", list |-> [n \in some |-> StartAndDuration(p.timing, r[n])]]

NextRanges(r) == {n \in DOMAIN r : \A m \in 1 .. n : r[m].rc = "OK" /\ r[m].ranges # <<>>}

LookAhead(p, r) ==
    LET some == NextRanges(r)
        next == Cardinality(some) + 1
    IN  IF next \in DOMAIN r /\ r[next].rc # "OK" THEN r[next]
        ELSE IF next \in DOMAIN r /\ ~p.presentation_end THEN Fails("bad_request")
        ELSE Announced(p, r, some)

\* Mutant: the fragment tells of itself and the one after it.
look_ahead_segments_self(conf, p, index) ==
    LET r == [n \in 1 .. MAX_LOOK_AHEAD_SEGMENTS |-> SegmentRanges(conf, p, index + n - 1)]
    IN  Announced(p, r, NextRanges(r))

\* media_set_init_look_ahead_segments: as far as the presentation goes, if it has ended.
look_ahead_segments(conf, p, index) ==
    LookAhead(p, [n \in 1 .. MAX_LOOK_AHEAD_SEGMENTS |-> SegmentRanges(conf, p, index + n)])

\* Mutant: the time from the end is counted from the start of the clip that it is in.
relative_offset_to_absolute_start(timing, offset, fromEnd) ==
    LET at == ClipStart(timing, 0)
        n == Len(timing.durations)
        total == at[n + 1]
        c == IF fromEnd THEN SetMax({i \in 1 .. n : offset <= total - at[i]})
             ELSE SetMin({i \in 1 .. n : offset <= at[i + 1]})
    IN  timing.times[c] + (IF fromEnd THEN offset - (total - at[c + 1]) ELSE offset - at[c])

\* media_set_start_relative_offset_to_absolute and media_set_end_relative_offset_to_absolute:
\* the answer of a thumbnail request of a relative time is a redirect to the absolute one.
relative_offset_to_absolute(timing, offset, fromEnd) ==
    LET at == ClipStart(timing, 0)
        n == Len(timing.durations)
        total == at[n + 1]
        c == IF fromEnd THEN SetMax({i \in 1 .. n : offset <= total - at[i]})
             ELSE SetMin({i \in 1 .. n : offset <= at[i + 1]})
    IN  timing.times[c] + (IF fromEnd THEN total - offset ELSE offset) - at[c]

Served(conf, p, r, look) ==
    IF r.rc # "OK" THEN r
    ELSE IF r.ranges = <<>> THEN [rc |-> "empty"]
    ELSE StartAndDuration(p.timing, r)
         @@ [rc |-> "OK", ranges |-> r.ranges, clip |-> p.base_clip + Head(r.ranges).clip,
             relative_index |-> r.relative_index, look_ahead |-> look]

ServedAhead(conf, p, r, look) == IF look.rc # "OK" THEN look ELSE Served(conf, p, r, look.list)

WithLookAhead(conf, p, index, flags, r) ==
    IF p.live /\ ~p.use_discontinuity /\ "look_ahead" \in flags /\ r.rc = "OK"
    THEN ServedAhead(conf, p, r, look_ahead_segments(conf, p, index))
    ELSE Served(conf, p, r, <<>>)

parse_json_segment(conf, p, index, flags) ==
    WithLookAhead(conf, p, index, flags, SegmentRanges(conf, p, index))

parse_json_thumb(conf, p, q) ==
    IF q.time_type # "absolute"
    THEN IF q.time > p.timing.total_duration THEN Fails("bad_request")
         ELSE [rc |-> "redirect",
               time |-> relative_offset_to_absolute(p.timing, q.time, q.time_type = "end_relative")]
    ELSE Served(conf, p, get_start_end_ranges_gop(conf, p.timing, p.keys, q.time), <<>>)

-----------------------------------------------------------------------------
(* Manifest requests *)

\* Mutant: the clips are counted from the start of the window.
InitialClip_window(j, w) == j.initial_clip_index

\* "update the initial clip index"
InitialClip(j, w) == IF j.initial_clip_index = NONE THEN NONE ELSE j.initial_clip_index + w.first_clip - 1

WindowPlaylist(j, p, w) ==
    IF w.rc # "OK" THEN w
    ELSE [p EXCEPT !.timing = w.timing, !.presentation_end = w.ended,
                   !.initial_segment_index = w.initial_segment_index,
                   !.base_clip = @ + w.first_clip - 1]
         @@ [window |-> [first_clip |-> w.first_clip, last_clip |-> w.last_clip],
             initial_clip_index |-> IF p.use_discontinuity THEN InitialClip(j, w) ELSE 0,
             relative_index |-> w.relative_index]

parse_json_manifest(conf, j, p, flags, now) ==
    IF ~p.live
    THEN p @@ [window |-> [first_clip |-> 1, last_clip |-> Len(p.timing.durations)],
               initial_clip_index |-> 0, relative_index |-> 0]
    ELSE WindowPlaylist(j, p,
           get_live_window(conf, p.timing, p.keys, LiveWindow(conf, j, flags), p.presentation_end,
                           p.use_discontinuity, j.discontinuity, p.initial_segment_index, now))

\* The clip that a request for an initialization segment, or a manifest of one clip, names.
parse_json_clip(j, p, clip_index) ==
    LET initial == IF p.live /\ p.use_discontinuity THEN j.initial_clip_index ELSE 0
        c == IF initial = NONE THEN clip_index ELSE clip_index - initial
    IN  IF initial = NONE /\ clip_index # 0 THEN Fails("bad_request")
        ELSE IF c < 0 \/ c >= Len(p.timing.durations) THEN Fails("bad_request")
        ELSE [rc |-> "OK", clip |-> p.base_clip + c + 1, clip_time |-> p.timing.times[c + 1]]

=============================================================================
