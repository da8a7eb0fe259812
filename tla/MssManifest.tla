----------------------------- MODULE MssManifest ----------------------------
(***************************************************************************)
(* MSS: mss_packager.c and the requests of ngx_http_vod_mss.c.  A fragment *)
(* is asked for by the bitrate, the type of the stream and the time; the   *)
(* sequence and the track are hidden in the low bits of the bitrate.       *)
(***************************************************************************)
EXTENDS DashManifest

MssCodecs == {"avc", "aac", "mp3"}
MAX_LOOK_AHEAD_SEGMENTS == 2
SEGMENT_FROM_TIMESTAMP_MARGIN == 100

\* mss_encode_indexes, with the indexes counted from 0
mss_encode_indexes(bitrate, sequence, track) ==
    (bitrate - (bitrate % 1024)) + 32 * ((sequence - 1) % 32) + ((track - 1) % 32)
mss_sequence_index(bitrate) == ((bitrate \div 32) % 32) + 1
mss_track_index(bitrate) == (bitrate % 32) + 1

mss_compare_tracks(threshold, s, t) ==
    /\ s.bitrate # 0 /\ t.bitrate # 0
    /\ s.bitrate + threshold > t.bitrate /\ t.bitrate + threshold > s.bitrate
    /\ s.type = "v" => s.dim = t.dim
    /\ s.type # "v" => s.label = "" \/ t.label = "" \/ s.label = t.label

\* mss_packager_remove_redundant_tracks: also the audio of a lower sample rate
mss_tracks(tracks, conf) ==
    LET rates == {t.dim : t \in {u \in Range(tracks) : u.type = "a"}}
        alike == SelectSeq(tracks, LAMBDA t : t.type = "a" => \A d \in rates : d <= t.dim)
        same == {p \in Range(alike) \X Range(alike) : mss_compare_tracks(conf.threshold, p[1], p[2])}
    IN  remove_redundant_tracks(alike, same)

\* The chunks of a live presentation stop before the ones that a fragment announces.
ListedChunks(window) ==
    {n \in Listed(window) : window.live => n <= window.first + SegmentCount(window) - 1 - MAX_LOOK_AHEAD_SEGMENTS}

ChunkTime(conf, n) == (n - 1) * conf.segment_duration * 10000

\* The chunks of one quality level
ChunkLinks(conf, window, t) ==
    {Link("chunk", << Token("b", mss_encode_indexes(t.bitrate, t.seq, t.n)), Token(t.type, ChunkTime(conf, n)) >>, 0,
          Meant(<< t >>, n, None)) : n \in ListedChunks(window)}

MssOf(conf, window, r, tracks, sets) ==
    [rc |-> "ok", tracks |-> r.tracks,
     links |-> UNION {UNION {ChunkLinks(conf, window, e[1]) : e \in Range(sets[j].entries)} : j \in DOMAIN sets},
     room |-> [video |-> CountOf(tracks, "v"), audio |-> CountOf(tracks, "a"), subtitle |-> CountOf(tracks, "s")],
     written |-> [video |-> Representations(sets, "v"), audio |-> Representations(sets, "a"),
                  subtitle |-> Representations(sets, "s")]]

MssOfTracks(conf, window, r, tracks) ==
    MssOf(conf, window, r, tracks, get_adaptation_sets(tracks, {"DEFAULT_LANG_LAST"}).sets)

mss_build_manifest(mapping, conf, window, r) ==
    IF window.use_discontinuity \/ ListedChunks(window) = {} THEN BAD_REQUEST
    ELSE MssOfTracks(conf, window, r, mss_tracks(r.tracks, conf))

\* A fragment has the masks of one sequence and of one track of its type; text
\* has the first track of its sequence.
mss_parse_fragment(conf, name) ==
    LET bitrate == name[1].v
        time == name[2].v \div 10000
        type == name[2].k
    IN  [rc |-> "ok",
         segment |-> ((time + SEGMENT_FROM_TIMESTAMP_MARGIN) \div conf.segment_duration) + 1,
         clip |-> None,
         sequences_mask |-> {mss_sequence_index(bitrate)},
         sequence_ids |-> {},
         tracks_mask |-> [t \in MediaTypes |-> CASE t = type /\ t # "s" -> {mss_track_index(bitrate)}
                                                 [] t = type /\ t = "s" -> {1} [] OTHER -> {}],
         sequence_tracks_mask |-> << >>]

\* ngx_http_vod_mss_parse_uri_file_name and the request it selects; "m4s" is the name
\* that a redirect uses.
mss_params(conf, kind, name) ==
    CASE kind = "manifest" -> parse_uri_file_name(name, {"MULTI_STREAMS_PER_TYPE"})
      [] kind = "m4s"      -> parse_uri_file_name(name, {"EXPECT_SEGMENT_INDEX"})
      [] kind = "chunk"    -> mss_parse_fragment(conf, name)

mss_request(kind, name) ==
    [single |-> IF kind = "manifest" THEN "ANY" ELSE "SINGLE_TRACK",
     codecs |-> CASE kind = "manifest" -> MssCodecs \cup {"webvtt"}
                  [] kind = "chunk"    -> IF name[2].k = "s" THEN {"webvtt"} ELSE MssCodecs
                  [] kind = "m4s"      -> MssCodecs]

mss_handle(mapping, conf, window, kind, r) ==
    IF r.rc # "ok" \/ ~InWindow(window, r.params) THEN BAD_REQUEST
    ELSE IF kind = "manifest" THEN mss_build_manifest(mapping, conf, window, r)
    ELSE Media(NoEncryption, "fmp4", r)

mss_answer(mapping, conf, window, kind, name) ==
    mss_handle(mapping, conf, window, kind,
               ResolveParams(mapping, mss_params(conf, kind, name), mss_request(kind, name)))
=============================================================================
