---------------------------- MODULE DashManifest ----------------------------
(***************************************************************************)
(* DASH: dash_packager.c, edash_packager.c and the requests of             *)
(* ngx_http_vod_dash.c.  A manifest has a period for each clip, or one for *)
(* all; a period has the adaptation sets, and these the representations.   *)
(* The segments of a representation are named by a template that the       *)
(* player fills in, or listed one by one.                                  *)
(*                                                                         *)
(* Tracks have a bitrate and dim, the picture size of a video and the      *)
(* sample rate of an audio.  Links and pages are as in HlsPlaylists.       *)
(***************************************************************************)
EXTENDS HlsPlaylists

DashMp4Codecs == {"avc", "hevc", "aac", "ac3", "eac3"}
DashWebmCodecs == {"vp8", "vp9", "av1", "vorbis", "opus"}

\* ngx_http_vod_dash_parse_uri_file_name and the request it selects
dash_request(kind) ==
    LET Req(flags, single, codecs) == [flags |-> flags, single |-> single, codecs |-> codecs]
    IN  CASE kind = "mpd"   -> Req({"MULTI_STREAMS_PER_TYPE"}, "ANY", DashMp4Codecs \cup DashWebmCodecs \cup {"webvtt"})
          [] kind = "mp4"   -> Req({"ALLOW_CLIP_INDEX"}, "SINGLE_TRACK", DashMp4Codecs \cup {"webvtt"})
          [] kind = "m4s"   -> Req({"EXPECT_SEGMENT_INDEX"}, "SINGLE_TRACK", DashMp4Codecs)
          [] kind = "webm_init" -> Req({"ALLOW_CLIP_INDEX"}, "SINGLE_TRACK", DashWebmCodecs)
          [] kind = "webm"  -> Req({"EXPECT_SEGMENT_INDEX"}, "SINGLE_TRACK", DashWebmCodecs)
          [] kind = "vtt"   -> Req({"ALLOW_CLIP_INDEX"}, "SINGLE_TRACK", {"webvtt"})
          [] kind = "ttml"  -> Req({"EXPECT_SEGMENT_INDEX"}, "SINGLE_TRACK", {"webvtt"})

\* dash_codecs: the kind of the files of a codec
init_file_ext(codec) == IF codec \in DashWebmCodecs THEN "webm_init" ELSE "mp4"
frag_file_ext(codec) == CASE codec \in DashWebmCodecs -> "webm" [] codec = "webvtt" -> "ttml" [] OTHER -> "m4s"

-----------------------------------------------------------------------------
(* Tracks that a player could not tell apart *)

dash_compare_tracks_unlabelled(threshold, s, t) ==
    /\ s.bitrate # 0 /\ t.bitrate # 0
    /\ s.bitrate + threshold > t.bitrate /\ t.bitrate + threshold > s.bitrate
    /\ s.codec = t.codec
    /\ s.type = "v" => s.dim = t.dim

dash_compare_tracks(threshold, s, t) ==
    /\ s.bitrate # 0 /\ t.bitrate # 0
    /\ s.bitrate + threshold > t.bitrate /\ t.bitrate + threshold > s.bitrate
    /\ s.codec = t.codec
    /\ s.type = "v" => s.dim = t.dim
    /\ s.type # "v" => s.label = "" \/ t.label = "" \/ s.label = t.label

\* Of two such tracks one without a label goes, else the later one: the earlier tracks
\* that are like t, dup, are looked at in turn until t itself is removed, at the one
\* with index at, if any.
AddUnlessRedundant(kept, t, dup, at) ==
    IF at = 0 THEN Append(SelectSeq(kept, LAMBDA k : k \notin Range(dup)), t)
    ELSE SelectSeq(kept, LAMBDA k : k \notin Range(SubSeq(dup, 1, at - 1)))

AddTrackLike(kept, t, dup) ==
    AddUnlessRedundant(kept, t, dup, SelectInSeq(dup, LAMBDA k : t.label = "" \/ k.label # ""))

remove_redundant_tracks(tracks, same) ==
    LET Add(kept, t) == AddTrackLike(kept, t, SelectSeq(kept, LAMBDA k : k.type = t.type /\ <<t, k>> \in same))
    IN  FoldLeft(Add, << >>, tracks)

-----------------------------------------------------------------------------
(* The names in the manifest *)

get_clip_spec(window, c) ==
    IF window.use_discontinuity /\ window.initial_clip # None
    THEN << Token("c", window.initial_clip + c - 1) >> ELSE << >>

get_track_spec(mapping, t, direct) ==
    (IF Len(mapping.sequences) > 1 /\ ~direct THEN << Token("f", t.seq) >> ELSE << >>)
      \o (IF t.type = "s" THEN << >> ELSE << Token(t.type, t.n), Token("x", 3) >>)

\* The number of the segment before the first of a period, and how many segments
\* its clip had before that one.
StartNumber(window, c) == window.first - 1 + (IF window.use_discontinuity THEN ClipsBefore(window, c) ELSE 0)
RelativeIndex(window, c) == IF c = 1 THEN window.relative ELSE 0

\* dash_packager_get_cur_clip_segment_count
PeriodSegments(window, c) == IF window.use_discontinuity THEN window.clips[c] ELSE SegmentCount(window)

\* The template of a period: the number it starts with, and the shift that the name
\* carries from it to the number of the segment.
segment_template(window, c) ==
    LET start == StartNumber(window, c)
        rel   == RelativeIndex(window, c)
        shift == window.use_discontinuity /\ start > rel
    IN  [start |-> CASE shift -> rel + 1 [] ~shift /\ window.use_discontinuity -> start + 1 [] OTHER -> 1,
         shift |-> IF shift THEN << Token("i", start - rel) >> ELSE << >>]

segment_timeline(window, c) == [start |-> StartNumber(window, c) + 1, shift |-> << >>]

\* Every segment of the period by its number
segment_list(window, c) == [start |-> StartNumber(window, c) + 1, shift |-> << >>]

\* The number that a player puts into a template for the first segment of a period:
\* the one it starts with, or the one of the time when all clips are one period.
FirstNumber(window, conf, t) ==
    IF conf.format = "template" /\ ~window.use_discontinuity THEN t.start + window.first - 1 ELSE t.start

-----------------------------------------------------------------------------
(* The periods *)

\* dash_packager_get_segment_list_base_url: the uri of the file itself is used
\* under an absolute url, except for the files of a mapping
DirectUri(mapping, conf) == conf.format = "list" /\ conf.base = "host" /\ ~mapping.json

\* One representation of a period, and the links to its files.
Representation(mapping, conf, window, c, t) ==
    LET direct == DirectUri(mapping, conf)
        spec == get_track_spec(mapping, t, direct)
        to   == IF direct THEN t.seq ELSE 0
        clip == get_clip_spec(window, c)
        names == CASE conf.format = "template" -> segment_template(window, c)
                   [] conf.format = "timeline" -> segment_timeline(window, c)
                   [] conf.format = "list"     -> segment_list(window, c)
        first == FirstNumber(window, conf, names)
    IN  {Link(init_file_ext(t.codec), clip \o spec, to,
              Meant(<< t >>, None, IF clip = << >> THEN None ELSE window.initial_clip + c - 1))}
          \cup {Link(frag_file_ext(t.codec), << Token("n", first + j) >> \o names.shift \o spec, to,
                     Meant(<< t >>, window.first + ClipsBefore(window, c) + j, None)) :
                  j \in 0 .. PeriodSegments(window, c) - 1}

\* A subtitle of a period as one file
Subtitle(mapping, conf, window, c, t) ==
    LET direct == DirectUri(mapping, conf)
        clip == get_clip_spec(window, c)
    IN  Link("vtt", clip \o get_track_spec(mapping, t, direct), IF direct THEN t.seq ELSE 0,
             Meant(<< t >>, None, IF clip = << >> THEN None ELSE window.initial_clip + c - 1))

AsOneFile(conf, s) == s.type = "s" /\ conf.subtitles = "webvtt"

write_mpd_period(mapping, conf, window, sets, c) ==
    UNION {IF AsOneFile(conf, sets[j]) THEN {Subtitle(mapping, conf, window, c, sets[j].entries[1][1])}
           ELSE UNION {Representation(mapping, conf, window, c, e[1]) : e \in Range(sets[j].entries)} :
             j \in DOMAIN sets}

SumOver(S, Count(_)) == FoldFunctionOnSet(+, 0, [s \in S |-> Count(s)], S)

\* The representations of a type that are written.
Representations(sets, type) ==
    SumOver({j \in DOMAIN sets : sets[j].type = type}, LAMBDA j : Len(sets[j].entries))

\* edash_packager_build_mpd: room for the tags of every track that was asked for
ProtectionRoom(tracks) == Len(tracks)
\* edash_packager_write_content_protection: under the sets or the representations,
\* not for subtitles
ProtectionTags(conf, sets) ==
    CASE conf.drm = "none"   -> 0
      [] conf.drm = "single" -> Len(SelectSeq(sets, LAMBDA s : s.type # "s"))
      [] conf.drm = "each"   -> Representations(sets, "v") + Representations(sets, "a")

\* Room is reserved by tracks; the adaptation sets are what is written.
MpdRoom(tracks, requested) ==
    [video |-> CountOf(tracks, "v"), audio |-> CountOf(tracks, "a"), subtitle |-> CountOf(tracks, "s"),
     protection |-> ProtectionRoom(requested)]

MpdOf(mapping, conf, window, r, tracks, sets) ==
    [rc |-> "ok", tracks |-> r.tracks,
     links |-> UNION {write_mpd_period(mapping, conf, window, sets, c) :
                        c \in 1 .. IF window.use_discontinuity THEN Len(window.clips) ELSE 1},
     room |-> MpdRoom(tracks, r.tracks),
     written |-> [video |-> Representations(sets, "v"), audio |-> Representations(sets, "a"),
                  subtitle |-> Representations(sets, "s"), protection |-> ProtectionTags(conf, sets)]]

MpdOfTracks(mapping, conf, window, r, tracks) ==
    MpdOf(mapping, conf, window, r, tracks,
          get_adaptation_sets(tracks, {"MULTI_AUDIO_CODEC", "MULTI_VIDEO_CODEC"}).sets)

build_mpd(mapping, conf, window, r) ==
    LET same == {p \in Range(r.tracks) \X Range(r.tracks) : dash_compare_tracks(conf.threshold, p[1], p[2])}
    IN  MpdOfTracks(mapping, conf, window, r, remove_redundant_tracks(r.tracks, same))

dash_handle(mapping, conf, window, kind, r) ==
    IF r.rc # "ok" \/ ~InWindow(window, r.params) THEN BAD_REQUEST
    ELSE IF kind = "mpd" THEN build_mpd(mapping, conf, window, r)
    ELSE Media(NoEncryption, "fmp4", r)

dash_answer(mapping, conf, window, kind, name) ==
    dash_handle(mapping, conf, window, kind, Resolve(mapping, name, dash_request(kind)))
=============================================================================
