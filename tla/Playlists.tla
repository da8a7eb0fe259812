----------------------------- MODULE Playlists ------------------------------
(***************************************************************************)
(* The time line of a playlist as its players see it.  The server of the   *)
(* mapping (external) adds clips at the end and takes them away at the     *)
(* head, the clock advances, players fetch manifests and then ask for the  *)
(* segments that a manifest listed, by index or by time, when the playlist *)
(* has already moved on.  Each request parses the mapping again; nothing   *)
(* is kept between requests.                                               *)
(***************************************************************************)
EXTENDS MediaSet

CONSTANTS
    Scenarios,      \* records of a segmenter configuration, the flags of the requests of a protocol,
                    \* the clipping of the URIs, where key frames are, and a mapping json to start with
    ClipLengths,    \* durations of the clips that are added
    ThumbOffsets,   \* relative times of thumbnails
    MaxClips, MinTime, MaxTime, MaxAdded

VARIABLES
    conf, flags,    \* configuration of the location
    clipping,       \* of the URIs that the players use
    gop,            \* where the key frames of the clips are
    j,              \* the mapping json
    dropped,        \* number of clips that were taken away at the head
    added,          \* number of clips added
    now,            \* the clock
    known,          \* the segments that manifests have listed
    clips,          \* the clips that manifests have named: index in URIs and number of the clip
    manifest,       \* the last manifest
    answer          \* the last answer to a request for a known segment

vars == <<conf, flags, clipping, gop, j, dropped, added, now, known, clips, manifest, answer>>

NoManifest == [rc |-> "none", list |-> <<>>, ended |-> FALSE, items |-> 0, room |-> 0]
NoAnswer == [rc |-> "none"]

\* The key frames of a clip: the first one and the distance of the others.
KeyFrames(g, duration) ==
    IF g.step = 0 THEN NoKeyFrames
    ELSE {g.first + n * g.step : n \in 0 .. (duration \div g.step)} \cap (0 .. duration)

Init ==
    /\ \E s \in Scenarios :
         /\ conf = s.conf
         /\ flags = s.flags
         /\ clipping = s.clipping
         /\ gop = s.gop
         /\ j = s.mapping @@ [key_frames |-> [c \in DOMAIN s.mapping.durations |->
                                                KeyFrames(s.gop, s.mapping.durations[c])]]
    /\ dropped = 0
    /\ added = 0
    /\ now = MinTime
    /\ known = {}
    /\ clips = {}
    /\ manifest = NoManifest
    /\ answer = NoAnswer

-----------------------------------------------------------------------------
(* The server of the mapping, as README.md describes it *)

Tick ==
    /\ now < MaxTime
    /\ now' = now + 1000
    /\ UNCHANGED <<conf, flags, clipping, gop, j, dropped, added, known, clips, manifest, answer>>

AddClip(duration, gap) ==
    /\ IsLive(j, flags)
    /\ added < MaxAdded
    /\ j.presentation_end_time = NONE \/ now < j.presentation_end_time
    /\ Len(j.durations) < MaxClips
    /\ gap = 0 \/ j.clip_times # <<>>
    /\ gap >= conf.segment_duration \/ ~j.discontinuity \/ j.segment_base_time = RELATIVE
    /\ LET n == Len(j.durations)
       IN  j' = [j EXCEPT !.durations = Append(@, duration),
                          !.key_frames = Append(@, KeyFrames(gop, duration)),
                          !.clip_times = IF @ = <<>> THEN @ ELSE Append(@, @[n] + j.durations[n] + gap)]
    /\ added' = added + 1
    /\ UNCHANGED <<conf, flags, clipping, gop, dropped, now, known, clips, manifest, answer>>

\* "Whenever a clip is pushed out of the head of the playlist, this value must be incremented":
\* by one for initialClipIndex, by the number of segments for initialSegmentIndex.
DropClip ==
    /\ IsLive(j, flags)
    /\ j.playlist_type # "event"
    /\ Len(j.durations) > 1
    /\ j' = [j EXCEPT
         !.durations = Tail(@), !.key_frames = Tail(@),
         !.clip_times = IF @ = <<>> THEN @ ELSE Tail(@),
         !.first_clip_time = IF @ = NONE THEN @ ELSE @ + Head(j.durations),
         !.initial_clip_index = IF @ = NONE THEN @ ELSE @ + 1,
         !.initial_segment_index = @ + div_ceil(Head(j.durations), conf.segment_duration)]
    /\ dropped' = dropped + 1
    /\ UNCHANGED <<conf, flags, clipping, gop, added, now, known, clips, manifest, answer>>

-----------------------------------------------------------------------------
(* Requests *)

Request(kind) ==
    [kind |-> kind, clip_index |-> NONE, clip_from |-> clipping.from, clip_to |-> clipping.to]

\* mss_packager_remove_segment_durations: fragments tell of the ones after them.
RemoveLookAhead(list, ended, live) ==
    IF live /\ ~ended /\ "look_ahead" \in flags
    THEN SubSeq(list, 1, Len(list) - MAX_LOOK_AHEAD_SEGMENTS) ELSE list

\* The clip of a listed segment, among all clips that ever were in the mapping.
ClipAt(p, time) ==
    dropped + p.base_clip + SetMax({c \in DOMAIN p.timing.times : p.timing.times[c] <= time})

\* A manifest: its segments, and for every clip the index that URIs name it by.
Manifest ==
    \E p \in {Playlist(conf, j, Request("manifest"), flags, now)} :
    \E m \in {IF p.rc = "OK" THEN parse_json_manifest(conf, j, p, flags, now) ELSE p} :
    \E d \in {IF m.rc = "OK"
              THEN get_segment_durations_estimate(conf, m.timing, m.keys, m.initial_segment_index,
                                                  m.use_discontinuity)
              ELSE m} :
    \E list \in {IF d.rc = "OK" THEN RemoveLookAhead(d.list, m.presentation_end, m.live) ELSE <<>>} :
        /\ d.rc = "OK"
        /\ manifest' = [rc |-> d.rc, list |-> list, ended |-> m.presentation_end,
                        items |-> ItemCount(d.all),
                        room |-> AllocCount(conf, IF m.use_discontinuity THEN m.timing
                                                  ELSE SingleClip(m.timing, m.timing.total_duration),
                                            m.keys, m.timing.total_duration)]
        /\ known' = known \cup {[index |-> list[n].index, time |-> list[n].time, duration |-> list[n].duration,
                                 clip |-> ClipAt(m, list[n].time)] : n \in DOMAIN list}
        /\ clips' = IF m.use_discontinuity /\ m.initial_clip_index # NONE
                    THEN clips \cup {[index |-> m.initial_clip_index + c - 1, clip |-> dropped + m.base_clip + c] :
                                       c \in DOMAIN m.timing.durations}
                    ELSE clips
        /\ UNCHANGED <<conf, flags, clipping, gop, j, dropped, added, now, answer>>

\* A request whose playlist is refused has no other answer.
OrRefused(p, got) == IF p.rc = "OK" THEN got ELSE p

Answer(rc, asked, got) ==
    [rc |-> rc, asked |-> asked, got |-> got, clip |-> IF got.rc = "OK" THEN dropped + got.clip ELSE NONE]

\* ngx_http_vod_mss_parse_uri_file_name: a fragment is named by its time.
AsksByTime == "look_ahead" \in flags

\* A request for a segment that some manifest has listed, and whose clip is still there.
Fetch(s) ==
    /\ s.clip > dropped
    /\ \E p \in {Playlist(conf, j, Request("segment"), flags, now)} :
       \E i \in {OrRefused(p, IF AsksByTime THEN index_of_time(conf, p, s.time)
                                 ELSE [rc |-> "OK", index |-> s.index])} :
         answer' = Answer("served", s, IF i.rc # "OK" THEN i ELSE parse_json_segment(conf, p, i.index, flags))
    /\ UNCHANGED <<conf, flags, clipping, gop, j, dropped, added, now, known, clips, manifest>>

\* A request for the initialization segment of a clip.
FetchClip(c) ==
    /\ c.clip > dropped
    /\ \E p \in {Playlist(conf, j, Request("clip"), flags, now)} :
         answer' = Answer("clip", c, OrRefused(p, parse_json_clip(j, p, c.index))) @@ [at |-> now]
    /\ UNCHANGED <<conf, flags, clipping, gop, j, dropped, added, now, known, clips, manifest>>

\* How much of the clips of a playlist is before a time.
PlayedBefore(timing, time) ==
    LET part == [c \in DOMAIN timing.times |->
                    Greater(0, Lesser(timing.durations[c], time - timing.times[c]))]
    IN  ClipStart([durations |-> part], 0)[Len(part) + 1]

\* ngx_http_vod_thumb_get_url: a thumbnail of a relative time is redirected to the absolute one.
Thumb(offset, type) ==
    /\ ~AsksByTime
    /\ \E p \in {Playlist(conf, j, Request("thumb"), flags, now)} :
         /\ p.rc = "OK"
         /\ offset < p.timing.total_duration
         /\ \E got \in {parse_json_thumb(conf, p, [time |-> offset, time_type |-> type])} :
              answer' = [rc |-> "redirect", time |-> got.time, clip |-> ClipAt(p, got.time),
                         offset |-> IF type = "end_relative" THEN p.timing.total_duration - offset ELSE offset,
                         before |-> PlayedBefore(p.timing, got.time)]
    /\ UNCHANGED <<conf, flags, clipping, gop, j, dropped, added, now, known, clips, manifest>>

\* The player follows the redirect, later.
FollowRedirect ==
    /\ answer.rc = "redirect"
    /\ answer.clip > dropped
    /\ \E p \in {Playlist(conf, j, Request("thumb"), flags, now)} :
         answer' = Answer("thumb", answer,
                   OrRefused(p, parse_json_thumb(conf, p, [time |-> answer.time, time_type |-> "absolute"])))
    /\ UNCHANGED <<conf, flags, clipping, gop, j, dropped, added, now, known, clips, manifest>>

Next ==
    \/ Tick
    \/ \E d \in ClipLengths, gap \in {0, conf.segment_duration} : AddClip(d, gap)
    \/ DropClip
    \/ Manifest
    \/ \E s \in known : Fetch(s)
    \/ \E c \in clips : FetchClip(c)
    \/ \E offset \in ThumbOffsets, type \in {"start_relative", "end_relative"} : Thumb(offset, type)
    \/ FollowRedirect

Spec == Init /\ [][Next]_vars

-----------------------------------------------------------------------------
(* Properties *)

LastOf(list) == [list[Len(list)] EXCEPT !.discontinuity = FALSE]

\* A segment that a manifest of segmenter_get_segment_durations_estimate has listed is served
\* by segmenter_get_start_end_ranges, at any later time while its clip is in the mapping, from
\* the same clip, with the start and the duration that the manifest promised: two algorithms
\* that count from different ends, and a mapping and a clock that have moved on in between.
SegmentAsListed ==
    answer.rc = "served" /\ answer.asked.duration > 0 =>
        /\ answer.got.rc = "OK"
        /\ answer.got.start_time = answer.asked.time
        /\ answer.got.duration = answer.asked.duration
        /\ answer.clip = answer.asked.clip

\* The times of the next fragments that an MSS fragment carries (media_set_init_look_ahead_segments)
\* are those with which manifests list these fragments.
LookAheadIsListed ==
    answer.rc = "served" /\ answer.got.rc = "OK" =>
        \A n \in DOMAIN answer.got.look_ahead :
            \A s \in known : s.index = answer.asked.index + n =>
                /\ s.time = answer.got.look_ahead[n].start_time
                /\ s.duration = answer.got.look_ahead[n].duration

\* The times at which the mapping sends "not found" to whoever names no segment: after its
\* expirationTime, and before its presentationEndTime, which takes priority.
ExpiredAt(time) ==
    /\ j.expiration_time # NONE /\ j.expiration_time <= time
    /\ j.presentation_end_time # NONE => time < j.presentation_end_time

\* The initialization segment that a manifest names by the index of a clip comes from that clip,
\* whatever clips were dropped or clipped (media_set_parse_json, initial_clip_index).  It is refused
\* only while the mapping is expired, as a manifest is: see ClipsOutliveManifests.
ClipsNamedAlike ==
    answer.rc = "clip" =>
        IF answer.got.rc = "expired" THEN ExpiredAt(answer.at)
        ELSE answer.got.rc = "OK" /\ answer.clip = answer.asked.clip

\* Not so: "return a 404 error for manifest requests (segment requests will continue to be served)"
\* (README.md:512-513).  The initialization segments, without which a player that has the manifest can
\* not start on the segments of a clip, expire with the manifests.
ClipsOutliveManifests == answer.rc = "clip" => answer.got.rc # "expired"

\* The redirect of a thumbnail of a relative time points at the instant with that much of the
\* playlist before it, and following it later gives a range of that clip; where key frames are
\* not further apart than vod_gop_look_behind, the range has the instant in it.
ThumbShowsInstant ==
    /\ answer.rc = "redirect" => answer.before = answer.offset
    /\ answer.rc = "thumb" =>
         /\ answer.got.rc = "OK"
         /\ answer.clip = answer.asked.clip
         /\ gop.step <= conf.gop_look_behind =>
              /\ answer.got.start_time <= answer.asked.time
              /\ answer.asked.time < answer.got.start_time + answer.got.duration

\* Whatever a player asks for by what an earlier answer told it, a segment, a fragment announced by
\* the one before it, the initialization segment of a clip or a thumbnail, is what it was told.
ServedAsListed == SegmentAsListed /\ LookAheadIsListed /\ ClipsNamedAlike /\ ThumbShowsInstant

\* A manifest has no holes: every segment of segmenter_get_segment_durations_estimate_internal
\* starts where the one before it ends, except after a discontinuity, indices grow, and the
\* last one is not empty.  The items that segmenter_get_segment_durations_add writes, the empty
\* ones that are taken away again included, fit in the array allocated for an estimate of them.
Consecutive ==
    /\ manifest.items <= manifest.room
    /\ manifest.list # <<>> => LastOf(manifest.list).duration > 0
    /\ \A n \in 1 .. Len(manifest.list) - 1 :
        LET s == manifest.list[n]
            t == manifest.list[n + 1]
        IN  /\ s.duration >= 0
            /\ s.index < t.index
            /\ IF t.discontinuity THEN t.time >= s.time + s.duration
               ELSE t.time = s.time + s.duration /\ t.index = s.index + 1

\* A later manifest never starts or ends at an earlier segment than one before it: a player that
\* reloads the manifest never sees segments come back (segmenter_get_live_window).  Once a manifest
\* says that the presentation has ended (presentation_end), all later ones say so and have the
\* same last segment.
NeverBack ==
    [][/\ manifest.list # <<>> /\ manifest'.list # <<>> =>
            /\ manifest'.list[1].index >= manifest.list[1].index
            /\ LastOf(manifest'.list).index >= LastOf(manifest.list).index
       /\ manifest.ended => manifest'.ended /\ LastOf(manifest'.list) = LastOf(manifest.list)]_manifest

=============================================================================
