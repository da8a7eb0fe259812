----------------------------- MODULE Segmenter ------------------------------
(***************************************************************************)
(* segmenter.c: how the time line of a media set is cut into segments.     *)
(* Three parts of the code must cut it in the same way: the manifests list *)
(* the segments with their times and durations, a request for a segment    *)
(* turns its index, or its time, into ranges of the clips, and in a live   *)
(* presentation a window moves over the clips while this goes on.          *)
(*                                                                         *)
(* Times are in milliseconds.  A configuration conf is a record with the   *)
(* segment_duration, the durations of the bootstrap_segments, and the      *)
(* segment_count_policy.  A timing is a media_clip_timing_t.  Key frames   *)
(* are the set of their times.  Segments are counted from 0, clips from 1. *)
(***************************************************************************)
EXTENDS Integers, Sequences, FiniteSets

RELATIVE == -1          \* SEGMENT_BASE_TIME_RELATIVE
NoKeyFrames == {}       \* key_frame_durations == NULL
Fails(rc) == [rc |-> rc]

SetMin(S) == CHOOSE x \in S : \A y \in S : x <= y
SetMax(S) == CHOOSE x \in S : \A y \in S : x >= y
Lesser(a, b) == IF a < b THEN a ELSE b
Greater(a, b) == IF a > b THEN a ELSE b
div_ceil(a, b) == (a + b - 1) \div b

-----------------------------------------------------------------------------
(* Configuration: segmenter_init_config *)

bootstrap_segments_count(conf) == Len(conf.bootstrap_segments)

bootstrap_segments_start(conf, i) ==
    LET sum[n \in 0 .. i] == IF n = 0 THEN 0 ELSE sum[n - 1] + conf.bootstrap_segments[n] IN sum[i]

bootstrap_segments_end(conf, i) == bootstrap_segments_start(conf, i) + conf.bootstrap_segments[i + 1]

bootstrap_segments_mid(conf, i) == bootstrap_segments_start(conf, i) + (conf.bootstrap_segments[i + 1] \div 2)

bootstrap_segments_total_duration(conf) == bootstrap_segments_start(conf, bootstrap_segments_count(conf))

-----------------------------------------------------------------------------
(* The number of segments of a duration, under each segment_count_policy *)

\* The first number of segments, of at least one, whose boundary is not passed.
BootstrapCount(conf, passed) ==
    SetMin({r \in 1 .. Greater(1, bootstrap_segments_count(conf)) :
              r >= bootstrap_segments_count(conf) \/ r \notin passed})

Inner(conf) == 1 .. bootstrap_segments_count(conf) - 1

segment_count_last_short(conf, duration) ==
    LET rest == duration - bootstrap_segments_total_duration(conf)
    IN  IF duration = 0 THEN 0
        ELSE IF rest > 0 THEN bootstrap_segments_count(conf) + div_ceil(rest, conf.segment_duration)
        ELSE BootstrapCount(conf, {r \in Inner(conf) : duration > bootstrap_segments_start(conf, r)})

segment_count_last_long(conf, duration) ==
    LET rest == duration - bootstrap_segments_total_duration(conf)
    IN  IF duration = 0 THEN 0
        ELSE IF rest >= 0 THEN Greater(1, bootstrap_segments_count(conf) + (rest \div conf.segment_duration))
        ELSE BootstrapCount(conf, {r \in Inner(conf) : duration >= bootstrap_segments_end(conf, r)})

segment_count_last_rounded(conf, duration) ==
    LET rest == duration - bootstrap_segments_total_duration(conf)
    IN  IF duration = 0 THEN 0
        ELSE IF rest >= 0
        THEN Greater(1, bootstrap_segments_count(conf)
                        + ((rest + (conf.segment_duration \div 2)) \div conf.segment_duration))
        ELSE BootstrapCount(conf, {r \in Inner(conf) : duration >= bootstrap_segments_mid(conf, r)})

get_segment_count(conf, duration) ==
    CASE conf.segment_count_policy = "last_short" -> segment_count_last_short(conf, duration)
      [] conf.segment_count_policy = "last_long" -> segment_count_last_long(conf, duration)
      [] conf.segment_count_policy = "last_rounded" -> segment_count_last_rounded(conf, duration)

-----------------------------------------------------------------------------
(* Boundaries *)

get_start_offset(conf, index) ==
    IF index < bootstrap_segments_count(conf) THEN bootstrap_segments_start(conf, index)
    ELSE bootstrap_segments_total_duration(conf)
         + (index - bootstrap_segments_count(conf)) * conf.segment_duration

get_end_offset(conf, index) ==
    IF index < bootstrap_segments_count(conf) THEN bootstrap_segments_end(conf, index)
    ELSE bootstrap_segments_total_duration(conf)
         + (index - bootstrap_segments_count(conf) + 1) * conf.segment_duration

\* segmenter_align_to_key_frames: the first key frame that is not before an offset.  The code
\* walks the key frames with calls of growing offsets.
align_to_key_frames(keys, offset, limit) == SetMin({limit} \cup {k \in keys : k >= offset})

\* segmenter_get_segment_index_no_discontinuity
segment_index_no_discontinuity(conf, time) ==
    IF time >= bootstrap_segments_total_duration(conf)
    THEN bootstrap_segments_count(conf)
         + ((time - bootstrap_segments_total_duration(conf)) \div conf.segment_duration)
    ELSE SetMin({i \in 0 .. bootstrap_segments_count(conf) - 1 : time < bootstrap_segments_end(conf, i)})

\* The first segment after a clip that starts with a segment: every clip has at least one.
NextClipIndex(conf, index, duration) ==
    Greater(get_segment_count(conf, get_start_offset(conf, index) + duration), index + 1)

\* Where the clips start in the count of segments, when every clip starts a new one.
ClipSegmentIndex(conf, timing, initial) ==
    LET first[c \in 1 .. Len(timing.durations) + 1] ==
            IF c = 1 THEN initial ELSE NextClipIndex(conf, first[c - 1], timing.durations[c - 1])
    IN  first

ClipEnd(timing, c) == timing.times[c] + timing.durations[c]

\* segmenter_get_segment_index_discontinuity
segment_index_discontinuity(conf, initial, timing, time) ==
    LET passed == {c \in 1 .. Len(timing.times) : time >= ClipEnd(timing, c)}
        c == SetMin(1 .. Len(timing.times) + 1 \ passed)
        first == ClipSegmentIndex(conf, timing, initial)[c]
        offset == time - timing.times[c] + get_start_offset(conf, first)
    IN  IF c > Len(timing.times) \/ time < timing.times[c] THEN Fails("bad_request")
        ELSE [rc |-> "OK", index |-> segment_index_no_discontinuity(conf, offset)]

-----------------------------------------------------------------------------
(* The ranges of a request: which parts of which clips *)

Relative(keys, to) == {k - to : k \in keys}

NoRanges == [rc |-> "OK", ranges |-> <<>>, clip_time |-> 0, relative_index |-> 0]

OneRange(timing, c, start, end, relative_index) ==
    [rc |-> "OK", ranges |-> <<[clip |-> c, start |-> start, end |-> end]>>,
     clip_time |-> timing.times[c], relative_index |-> relative_index]

\* segmenter_get_start_end_ranges_gop: around a time, for thumbnails.
get_start_end_ranges_gop(conf, timing, keys, time) ==
    LET c == SetMin({i \in 1 .. Len(timing.times) : time < ClipEnd(timing, i)} \cup {Len(timing.times) + 1})
        offset == time - timing.times[c]
        start == Greater(0, offset - conf.gop_look_behind)
        end == Lesser(offset + conf.gop_look_ahead, timing.durations[c])
        align(t) == IF keys = NoKeyFrames THEN t
                    ELSE align_to_key_frames(Relative(keys, timing.times[c]), t, timing.durations[c])
    IN  IF c > Len(timing.times) \/ time < timing.times[c] THEN Fails("bad_request")
        ELSE OneRange(timing, c, IF start > 0 THEN align(start) ELSE 0, align(end), 0)

\* Where the clips start on a time line without gaps.
ClipStart(timing, first) ==
    LET at[c \in 1 .. Len(timing.durations) + 1] ==
            IF c = 1 THEN first ELSE at[c - 1] + timing.durations[c - 1]
    IN  at

\* The clips that a range of that time line covers; none if it starts after their end.
CoveredClips(at, n, start, end) ==
    LET hit == {c \in 1 .. n : at[c] <= start /\ start < at[c + 1]}
        last == {c \in 1 .. n : start < at[c + 1] /\ end <= at[c + 1]} \cup {n}
    IN  IF hit = {} THEN {} ELSE SetMin(hit) .. SetMin(last)

\* Mutant: the last segment is cut at its boundary, whatever the segment_count_policy.
RangeEnd_boundary(index, count, end, last_segment_end) == end

\* "if (params->segment_index + 1 >= segment_count)"
RangeEnd(index, count, end, last_segment_end) ==
    IF index + 1 >= count THEN last_segment_end ELSE end

\* segmenter_get_start_end_ranges_no_discontinuity.  last_segment_end is 0 for the end of the
\* presentation, which is known only to the playlists.
get_start_end_ranges_no_discontinuity(conf, timing, keys, index, allow_last_segment, last) ==
    LET base == IF timing.segment_base_time = RELATIVE THEN 0 ELSE timing.segment_base_time
        start_time == timing.first_time - base
        end_time == start_time + timing.total_duration
        last_segment_end == IF last = 0 THEN end_time ELSE last
        count == get_segment_count(conf, end_time)
        start0 == Greater(get_start_offset(conf, index), start_time)
        end0 == get_end_offset(conf, index)
        rel == Relative(keys, base)
        start == IF keys = NoKeyFrames THEN start0
                 ELSE align_to_key_frames(rel, start0, last_segment_end)
        end1 == IF keys = NoKeyFrames THEN end0
                ELSE align_to_key_frames(rel, end0, last_segment_end + 1)
        end2 == IF keys = NoKeyFrames THEN end0 ELSE Lesser(end1, last_segment_end)
        end == RangeEnd(index, count, end2, last_segment_end)
        at == ClipStart(timing, start_time)
        clips == CoveredClips(at, Len(timing.durations), start, end)
        min == SetMin(clips)
        max == SetMax(clips)
    IN  IF index >= count THEN NoRanges
        ELSE IF end0 < start_time THEN Fails("bad_request")
        ELSE IF ~allow_last_segment /\ (end0 > end_time \/ (keys # NoKeyFrames /\ end1 > last_segment_end))
        THEN Fails("bad_request")
        ELSE IF clips = {} THEN NoRanges
        ELSE [rc |-> "OK",
              ranges |-> [i \in 1 .. max - min + 1 |->
                  LET c == min + i - 1
                  IN  [clip |-> c, start |-> IF c = min THEN start - at[c] ELSE 0,
                       end |-> IF c = max THEN end - at[c] ELSE timing.durations[c]]],
              clip_time |-> at[min] + base,
              relative_index |-> index - segment_index_no_discontinuity(conf,
                                            timing.original_times[max] - base)]

\* The clip of a segment, the segment that the clip starts with and the one after its last, and
\* the range of the segment relative to the start of the clip.
ClipOfRelativeIndex(conf, timing, initial, index) ==
    LET first == ClipSegmentIndex(conf, timing, initial)
        c == SetMin({i \in 1 .. Len(timing.durations) : index < first[i + 1]}
                    \cup {Len(timing.durations) + 1})
        offset == get_start_offset(conf, first[c])
    IN  IF c > Len(timing.durations) \/ index < initial THEN Fails("bad_request")
        ELSE [rc |-> "OK", clip |-> c, first |-> first[c], limit |-> first[c + 1],
              start |-> get_start_offset(conf, index) - offset,
              end |-> get_end_offset(conf, index) - offset]

ClipOfAbsoluteIndex(conf, timing, index) ==
    LET base == timing.segment_base_time
        start == get_start_offset(conf, index) + base
        end == get_end_offset(conf, index) + base
        hit == {c \in 1 .. Len(timing.durations) : end > timing.times[c] /\ start < ClipEnd(timing, c)}
        c == SetMin(hit)
    IN  IF hit = {} THEN Fails("bad_request")
        ELSE [rc |-> "OK", clip |-> c,
              first |-> segment_index_no_discontinuity(conf, timing.original_times[c] - base),
              limit |-> get_segment_count(conf, ClipEnd(timing, c) - base),
              start |-> start - timing.times[c], end |-> end - timing.times[c]]

\* The range of segment index, whose clip is s, with its ends moved to the key frames
RangeInClip(timing, keys, index, allow_last_segment, s) ==
    LET c == s.clip
        duration == timing.durations[c]
        rel == Relative(keys, timing.times[c])
        start == Greater(0, s.start)
        ends == index + 1 >= s.limit
        end0 == IF ends THEN duration ELSE Lesser(s.end, duration)
        end1 == IF keys = NoKeyFrames THEN end0 ELSE align_to_key_frames(rel, end0, duration + 1)
    IN  IF s.rc # "OK" THEN s
        ELSE IF /\ c = Len(timing.durations) /\ ~allow_last_segment
                /\ (ends /\ s.end > duration) \/ end1 > duration
        THEN Fails("bad_request")
        ELSE OneRange(timing, c,
                      IF keys = NoKeyFrames \/ start = 0 THEN start
                      ELSE align_to_key_frames(rel, start, duration),
                      Lesser(end1, duration), index - s.first)

\* segmenter_get_start_end_ranges_discontinuity: a segment is in one clip.
get_start_end_ranges_discontinuity(conf, timing, keys, initial, index, allow_last_segment) ==
    RangeInClip(timing, keys, index, allow_last_segment,
                IF timing.segment_base_time = RELATIVE
                THEN ClipOfRelativeIndex(conf, timing, initial, index)
                ELSE ClipOfAbsoluteIndex(conf, timing, index))

-----------------------------------------------------------------------------
(* segmenter_get_segment_durations_estimate_internal: the segments of a manifest *)

\* A segment as the manifest lists it; the code stores runs of equal durations.
Listed(index, time, duration, discontinuity) ==
    [index |-> index, time |-> time, duration |-> duration, discontinuity |-> discontinuity]

\* The segments first .. last of a clip from a time to an end: they start where begin says,
\* moved to the key frames; the last one ends with the clip.
ClipSegments(keys, time, end, first, last, begin, discontinuity) ==
    LET at(i) == IF i = first THEN IF keys = NoKeyFrames THEN begin[i] ELSE time
                 ELSE IF i > last THEN end
                 ELSE IF keys = NoKeyFrames THEN begin[i]
                 ELSE align_to_key_frames(keys, begin[i], end)
    IN  [n \in 1 .. last - first + 1 |->
            Listed(first + n - 1, at(first + n - 1), at(first + n) - at(first + n - 1),
                   discontinuity /\ n = 1)]

\* Mutant: empty segments are listed.
StripEmpty_no(list) == list

\* "there may be zero duration segments at the end due to key frame alignment"
StripEmpty(list) ==
    SubSeq(list, 1, SetMax({0} \cup {n \in DOMAIN list : list[n].duration > 0}))

\* One round of the loop: the segments of clip c, when the next segment is index.
EstimateClip(conf, timing, keys, c, index) ==
    LET time == timing.times[c]
        end == ClipEnd(timing, c)
        shift == IF c = 1 THEN timing.first_segment_alignment_offset ELSE 0
        base == timing.segment_base_time
        absolute == base # RELATIVE
        first == IF absolute THEN segment_index_no_discontinuity(conf, time - base) ELSE index
        limit == IF absolute THEN get_segment_count(conf, end - base)
                 ELSE get_segment_count(conf, get_start_offset(conf, first) + shift + timing.durations[c])
        last == Greater(limit - 1, first)
        begin == [i \in first .. last |->
                    IF absolute THEN IF i = first THEN time ELSE base + get_start_offset(conf, i)
                    ELSE time - shift + get_start_offset(conf, i) - get_start_offset(conf, first)]
    IN  [gap |-> absolute /\ first < index, next |-> last + 1,
         all |-> ClipSegments(keys, time, end, first, last, begin, c > 1)]

\* The segments so far, with those of one more clip
AddEstimate(sofar, e) ==
    [gap |-> sofar.gap \/ e.gap, next |-> e.next, all |-> sofar.all \o e.all,
     list |-> sofar.list \o StripEmpty(e.all)]

EstimateClips(conf, timing, keys, initial) ==
    LET upto[c \in 0 .. Len(timing.durations)] ==
            IF c = 0 THEN [gap |-> FALSE, next |-> initial, all |-> <<>>, list |-> <<>>]
            ELSE AddEstimate(upto[c - 1], EstimateClip(conf, timing, keys, c, upto[c - 1].next))
    IN  upto[Len(timing.durations)]

\* "timing gap smaller than segment duration, when using absolute segment base time"
UnlessGap(e) == IF e.gap THEN Fails("bad_mapping") ELSE [rc |-> "OK", list |-> e.list, all |-> e.all]

get_segment_durations_estimate_internal(conf, timing, keys, initial) ==
    UnlessGap(EstimateClips(conf, timing, keys, initial))

\* segmenter_get_segment_durations_add: runs of equal durations are one item.
ItemCount(list) ==
    Cardinality({n \in DOMAIN list : \/ n = 1 \/ list[n].discontinuity
                                     \/ list[n].duration # list[n - 1].duration})

\* Mutant: room for two different durations in a clip.
AllocCount_two(conf, timing, keys, duration) == bootstrap_segments_count(conf) + 2 * Len(timing.durations)

\* The items that room is made for.
AllocCount(conf, timing, keys, duration) ==
    bootstrap_segments_count(conf)
    + IF keys = NoKeyFrames THEN 3 * Len(timing.durations)
      ELSE 2 * Len(timing.durations) + div_ceil(duration, conf.segment_duration)

\* segmenter_get_total_duration: of tracks, as records with their sequence, media_type and
\* duration; subtitles count only where there is nothing else.
get_total_duration(policy, tracks, media_type) ==
    LET av == {t \in tracks : t.media_type # "subtitle"}
        counted == IF media_type # "none" THEN {t \in tracks : t.media_type = media_type}
                   ELSE IF av # {} THEN av ELSE tracks
        durations == {t.duration : t \in counted} \ {0}
    IN  IF durations = {} THEN 0
        ELSE IF policy = "max" THEN SetMax(durations) ELSE SetMin(durations)

\* The time line without discontinuities, or of a file, as one clip.
SingleClip(timing, duration) ==
    [timing EXCEPT !.durations = <<duration>>, !.times = <<timing.first_time>>,
                   !.total_duration = duration, !.first_segment_alignment_offset = 0]

\* segmenter_get_segment_durations_estimate, for a playlist.
get_segment_durations_estimate(conf, timing, keys, initial, use_discontinuity) ==
    get_segment_durations_estimate_internal(conf,
        IF use_discontinuity THEN timing ELSE SingleClip(timing, timing.total_duration), keys, initial)

-----------------------------------------------------------------------------
(* segmenter_get_segment_durations_accurate: from the frames of a file *)

rescale_time(time, cur_scale, new_scale) == (time * new_scale + (cur_scale \div 2)) \div cur_scale

\* When the frames of a track start, and after the last one where it ends.
FrameStart(frames) ==
    LET at[n \in 1 .. Len(frames) + 1] == IF n = 1 THEN 0 ELSE at[n - 1] + frames[n - 1].duration
    IN  at

\* The frames that may end a segment: the first one that is not before its boundary.
Cuts(frames, at, limit, align) ==
    {at[f] : f \in {n \in DOMAIN frames : at[n] >= limit /\ (align => frames[n].key_frame)}}

\* The segments end at frames of the main track; where another track is longer, at the
\* boundaries after its end.
get_segment_durations_accurate(conf, main, duration_millis, align) ==
    LET at == FrameStart(main.frames)
        end == at[Len(main.frames) + 1]
        total == rescale_time(duration_millis, 1000, main.timescale)
        longer == main.duration_millis < duration_millis /\ ~align
        count == get_segment_count(conf, duration_millis)
        limit(i) == rescale_time(get_end_offset(conf, i), 1000, main.timescale)
        boundary[i \in 0 .. count] ==
            IF i = 0 THEN 0
            ELSE IF i = count THEN IF longer THEN total ELSE end
            ELSE LET cuts == Cuts(main.frames, at, limit(i - 1), align)
                 IN  IF cuts # {} THEN SetMin(cuts)
                     ELSE IF longer THEN IF end < total THEN Lesser(limit(i - 1), total) ELSE total
                     ELSE end
    IN  StripEmpty([n \in 1 .. count |-> Listed(n - 1, boundary[n - 1], boundary[n] - boundary[n - 1], FALSE)])

-----------------------------------------------------------------------------
(* The live window: segmenter_get_live_window *)

\* The last clip that starts before a time.
ClipBefore(timing, time) == SetMax({c \in 1 .. Len(timing.times) : timing.times[c] < time})

SegmentBase(timing, c) ==
    IF timing.segment_base_time = RELATIVE THEN timing.times[c] ELSE timing.segment_base_time

\* "find the end time": the end of the last clip or the current time, and while the presentation
\* goes on at most the last key frame.
WindowLimit(timing, keys, window, ended, now) ==
    LET n == Len(timing.times)
        end0 == IF window <= 0 THEN ClipEnd(timing, n) ELSE now
        end == IF ~ended /\ keys # NoKeyFrames THEN Lesser(end0, SetMax(keys)) ELSE end0
        c == ClipBefore(timing, end)
    IN  IF window <= 0 /\ end = end0 THEN [rc |-> "OK", clip |-> n, time |-> end]
        ELSE IF end <= timing.first_time THEN Fails("bad_mapping")
        ELSE [rc |-> "OK", clip |-> c, time |-> Lesser(end, ClipEnd(timing, c))]

\* The last boundary of segments that the limit has passed.
SnapEnd(conf, timing, keys, limit) ==
    LET c == limit.clip
        base == SegmentBase(timing, c)
        time == base + ((limit.time - base) \div conf.segment_duration) * conf.segment_duration
    IN  IF time <= timing.times[c]
        THEN IF c = 1 THEN Fails("bad_mapping")
             ELSE [rc |-> "OK", clip |-> c - 1, time |-> ClipEnd(timing, c - 1), ended |-> FALSE]
        ELSE [rc |-> "OK", clip |-> c, ended |-> FALSE,
              time |-> IF keys = NoKeyFrames THEN time
                       ELSE align_to_key_frames(keys, time, ClipEnd(timing, c))]

\* Mutant: the end is announced before the window has reached it.
WindowEnd_early(conf, timing, keys, limit, ended) == [SnapEnd(conf, timing, keys, limit) EXCEPT !.ended = ended]

\* "snap end to segment boundary", unless it is the end of the presentation.
WindowEnd(conf, timing, keys, limit, ended) ==
    LET c == limit.clip
        final == ended /\ c = Len(timing.times) /\ limit.time = ClipEnd(timing, c)
    IN  IF final THEN [rc |-> "OK", clip |-> c, time |-> limit.time, ended |-> TRUE]
        ELSE SnapEnd(conf, timing, keys, limit)

\* Mutant: when the presentation has ended, all of it is listed again.
WindowStart_all(timing, end, window) ==
    LET offset == end.time - timing.times[end.clip]
    IN  IF end.ended \/ window > offset THEN [clip |-> 1, time |-> timing.times[1]]
        ELSE [clip |-> end.clip, time |-> end.time - window]

\* "find the start time": the window counts back from its end, over the clips.
WindowStart(timing, end, window) ==
    LET offset == end.time - timing.times[end.clip]
        left[c \in 1 .. end.clip] ==
            IF c = end.clip THEN window - offset ELSE left[c + 1] - timing.durations[c]
        reached == {c \in 1 .. end.clip : left[c] <= 0}
        c == SetMax(reached)
    IN  IF window = 0 \/ window >= timing.total_duration \/ reached = {}
        THEN [clip |-> 1, time |-> timing.times[1]]
        ELSE [clip |-> c, time |-> timing.times[c] - left[c]]

\* "snap start to segment boundary"
SnapStart(conf, timing, keys, start, end, discontinuity) ==
    LET c == start.clip
        base == SegmentBase(timing, c)
        time0 == base + div_ceil(start.time - base, conf.segment_duration) * conf.segment_duration
        time == IF keys # NoKeyFrames /\ time0 > timing.times[c]
                THEN align_to_key_frames(keys, time0, ClipEnd(timing, c)) ELSE time0
    IN  IF /\ discontinuity /\ start.time = timing.times[c]
           /\ c > 1 \/ timing.first_clip_start_offset = 0
        THEN [rc |-> "OK", clip |-> c, time |-> start.time]
        ELSE IF time < ClipEnd(timing, c) THEN [rc |-> "OK", clip |-> c, time |-> time]
        ELSE IF c + 1 > end.clip THEN Fails("bad_mapping")
        ELSE [rc |-> "OK", clip |-> c + 1, time |-> timing.times[c + 1]]

Window(timing, start, end) ==
    IF start.rc # "OK" THEN start
    ELSE IF end.time <= start.time THEN Fails("bad_mapping")
    ELSE [rc |-> "OK", start_time |-> start.time, end_time |-> end.time, ended |-> end.ended,
          start_clip |-> start.clip, end_clip |-> end.clip,
          start_offset |-> start.time - timing.times[start.clip],
          end_offset |-> end.time - timing.times[end.clip]]

WindowUpTo(conf, timing, keys, window, discontinuity, end) ==
    IF end.rc # "OK" THEN end
    ELSE Window(timing, SnapStart(conf, timing, keys,
                                  WindowStart(timing, end, IF window < 0 THEN -window ELSE window),
                                  end, discontinuity), end)

WindowWithin(conf, timing, keys, window, ended, discontinuity, limit) ==
    IF limit.rc # "OK" THEN limit
    ELSE WindowUpTo(conf, timing, keys, window, discontinuity,
                    WindowEnd(conf, timing, keys, limit, ended))

\* segmenter_get_live_window_start_end
get_live_window_start_end(conf, timing, keys, window, ended, discontinuity, now) ==
    IF bootstrap_segments_count(conf) # 0 \/ conf.segment_count_policy # "last_short"
    THEN Fails("bad_mapping")
    ELSE WindowWithin(conf, timing, keys, window, ended, discontinuity,
                      WindowLimit(timing, keys, window, ended, now))

\* The clip of an offset from the start of the first one; an end belongs to the clip before it.
ClipAtOffset(timing, offset, isEnd) ==
    LET at == ClipStart(timing, 0)
        c == SetMin({i \in DOMAIN timing.durations :
                       IF isEnd THEN offset <= at[i + 1] ELSE offset < at[i + 1]})
    IN  [clip |-> c, offset |-> offset - at[c]]

\* The clips of the window, cut at its ends
WindowTiming(timing, w, first, last) ==
    LET cut == [timing.durations EXCEPT ![last.clip] = last.offset]
        durations == SubSeq([cut EXCEPT ![first.clip] = @ - first.offset], first.clip, last.clip)
    IN  [timing EXCEPT
           !.durations = durations,
           !.total_duration = ClipStart([durations |-> durations], 0)[Len(durations) + 1],
           !.times = [SubSeq(timing.times, first.clip, last.clip) EXCEPT ![1] = w.start_time],
           !.first_time = w.start_time]

\* The segments of the clips before the window
SkippedSegments(conf, timing, initial, first) ==
    ClipStart([durations |-> [c \in DOMAIN timing.durations |->
                                div_ceil(timing.durations[c], conf.segment_duration)]], initial)[first.clip]

\* The segments of the first clip that are before the window
SkippedInClip(conf, timing, use_discontinuity, w, first) ==
    IF use_discontinuity /\ timing.segment_base_time = RELATIVE THEN first.offset \div conf.segment_duration
    ELSE segment_index_no_discontinuity(conf, w.start_time - timing.segment_base_time)
         - IF use_discontinuity
           THEN segment_index_no_discontinuity(conf, timing.times[first.clip] - timing.segment_base_time)
           ELSE 0

WindowOfClips(conf, timing, use_discontinuity, initial, w, first, last) ==
    LET relative == use_discontinuity /\ timing.segment_base_time = RELATIVE
        inClip == SkippedInClip(conf, timing, use_discontinuity, w, first)
    IN  [rc |-> "OK", ended |-> w.ended, first_clip |-> first.clip, last_clip |-> last.clip,
         initial_segment_index |-> IF relative THEN SkippedSegments(conf, timing, initial, first) + inClip
                                   ELSE initial,
         relative_index |-> inClip,
         timing |-> [WindowTiming(timing, w, first, last) EXCEPT
                       !.first_segment_alignment_offset =
                           IF relative THEN first.offset % conf.segment_duration ELSE @]]

ApplyWindow(conf, timing, use_discontinuity, initial, w) ==
    IF w.rc # "OK" THEN w
    ELSE IF use_discontinuity
    THEN WindowOfClips(conf, timing, use_discontinuity, initial, w,
                       [clip |-> w.start_clip, offset |-> w.start_offset],
                       [clip |-> w.end_clip, offset |-> w.end_offset])
    ELSE WindowOfClips(conf, timing, use_discontinuity, initial, w,
                       ClipAtOffset(timing, w.start_offset, FALSE), ClipAtOffset(timing, w.end_offset, TRUE))

\* segmenter_get_live_window: the timing of the window, and where its first segment is.
get_live_window(conf, timing, keys, window, ended, use_discontinuity, original, initial, now) ==
    LET single == [timing EXCEPT !.durations = <<timing.total_duration>>, !.times = <<timing.first_time>>]
    IN  ApplyWindow(conf, timing, use_discontinuity, initial,
            get_live_window_start_end(conf, IF use_discontinuity THEN timing ELSE single,
                                      keys, window, ended, original, now))

=============================================================================
