---------------------------- MODULE HlsPlaylists ----------------------------
(***************************************************************************)
(* HLS: m3u8_builder.c and the requests of ngx_http_vod_hls.c.  A master   *)
(* playlist links to index and iframe playlists, an index playlist to its  *)
(* segments, their init segments and the key that opens them.              *)
(*                                                                         *)
(* A page is what a request is answered with.  Its links are records       *)
(* [kind, name, to, meant]: the file name asked for next, the sequence     *)
(* whose own uri it is under (0: the uri of the playlist), and what the    *)
(* playlist says is there: the uids of the tracks, the segment, the clip.  *)
(* room and written count the pieces that space was reserved for and that  *)
(* were written.                                                           *)
(*                                                                         *)
(* A window is the part of the time line that is listed: the number of its *)
(* first segment, the number of segments of each of its clips, the number  *)
(* of its first clip (None: not given) and use_discontinuity.              *)
(***************************************************************************)
EXTENDS RequestUri, AdaptationSets

Uids(tracks) == {t.uid : t \in Range(tracks)}

Link(kind, name, to, meant) == [kind |-> kind, name |-> name, to |-> to, meant |-> meant]
Meant(tracks, segment, clip) == [uids |-> Uids(tracks), segment |-> segment, clip |-> clip]

-----------------------------------------------------------------------------
(* The requests of the protocol *)

HlsMp4Codecs == {"avc", "hevc", "av1", "aac", "ac3", "eac3", "mp3", "dts", "flac"}
HlsTsCodecs == {"avc", "hevc", "aac", "ac3", "eac3", "mp3", "dts"}

\* ngx_http_vod_hls_parse_uri_file_name and the request it selects
hls_request(kind) ==
    LET Req(flags, single, codecs) == [flags |-> flags, single |-> single, codecs |-> codecs]
        All == HlsMp4Codecs \cup HlsTsCodecs
        perType == "SINGLE_TRACK_PER_MEDIA_TYPE"
    IN  CASE kind = "master"  -> Req({"MULTI_STREAMS_PER_TYPE"}, "ANY", All \cup {"webvtt"})
          [] kind = "index"   -> Req({}, perType, All \cup {"webvtt"})
          [] kind = "iframes" -> Req({}, perType, HlsTsCodecs)
          [] kind = "key"     -> Req({}, perType, All)
          [] kind = "ts"      -> Req({"EXPECT_SEGMENT_INDEX"}, perType, HlsTsCodecs)
          [] kind = "m4s"     -> Req({"EXPECT_SEGMENT_INDEX"}, perType, HlsMp4Codecs)
          [] kind = "vtt"     -> Req({"EXPECT_SEGMENT_INDEX"}, "SINGLE_TRACK", {"webvtt"})
          [] kind = "init"    -> Req({"ALLOW_CLIP_INDEX"}, perType, HlsMp4Codecs)

get_container_format(conf, tracks) ==
    IF conf.container # "auto" THEN conf.container
    ELSE IF (tracks[1].type = "v" /\ tracks[1].codec # "avc") \/ conf.encryption = "cenc" THEN "fmp4"
    ELSE "mpegts"

\* The key is that of the first sequence.  The iv is the number of the segment,
\* the one of the drm, or one made from a seed.
DrmIv == -2
SeedIv == -1
init_encryption_params(conf, container, params, tracks) ==
    LET first == SetToSortSeq({t.seq : t \in Range(tracks)}, <)[1]
    IN  CASE conf.encryption = "none" -> [type |-> "none", key |-> 0, iv |-> 0, return_iv |-> FALSE]
          [] conf.encryption # "none" ->
               [type |-> conf.encryption, key |-> first,
                iv |-> CASE conf.drm_iv -> DrmIv
                         [] ~conf.drm_iv /\ (container # "fmp4" \/ conf.encryption # "aes128") -> params.segment
                         [] OTHER -> SeedIv,
                return_iv |-> conf.output_iv \/ (~conf.drm_iv /\ container = "fmp4" /\ conf.encryption = "aes128")]

-----------------------------------------------------------------------------
(* The master playlist *)

master_flags(conf) ==
    {"SINGLE_LANG_TRACK", "MULTI_AUDIO_CODEC"}
      \cup (IF conf.force_unmuxed \/ conf.encryption = "cenc" THEN {} ELSE {"MUXED"})

\* m3u8_builder_append_index_url: under an absolute url without a path the uri of
\* the file itself is used, if all the tracks are in that file; the sequence is
\* then not named.
append_index_url(mapping, conf, kind, tracks) ==
    LET q == tracks[1].seq
        direct == /\ conf.base = "host" /\ ~mapping.json
                  /\ \A t \in Range(tracks) : t.seq = q
    IN  Link(kind,
             append_tracks_spec(mapping, tracks, Len(mapping.sequences) > 1 /\ ~direct),
             IF direct THEN q ELSE 0,
             Meant(tracks, None, None))

media_tags_one_group(mapping, conf, sets, type) ==
    LET own == SetsOfType(sets, type)
    IN  [j \in DOMAIN own |->
           [group |-> IF type = "a" THEN own[1].entries[1][1].codec ELSE "subs",
            link |-> append_index_url(mapping, conf, "index", own[j].entries[1])]]

\* m3u8_builder_ext_x_media_tags_write: one tag for each set, of its first track
media_tags(mapping, conf, sets, type) ==
    LET own == SetsOfType(sets, type)
    IN  [j \in DOMAIN own |->
           [group |-> IF type = "a" THEN own[j].entries[1][1].codec ELSE "subs",
            link |-> append_index_url(mapping, conf, "index", own[j].entries[1])]]

\* m3u8_builder_get_audio_codec_count: a track of each audio codec
audio_codec_tracks(sets) ==
    LET own == SetsOfType(sets, "a")
        FirstOfCodec(j) == \A i \in 1 .. j - 1 : own[i].entries[1][1].codec # own[j].entries[1][1].codec
        at == SetToSortSeq({j \in DOMAIN own : FirstOfCodec(j)}, <)
    IN  [j \in DOMAIN at |-> own[at[j]].entries[1][1]]

alternative_audio(sets) == SetsOfType(sets, "a") # << >> /\ Len(sets) > 1

VariantsOf(mapping, conf, sets, group) ==
    [j \in DOMAIN sets[1].entries |->
       [audio |-> group,
        subs  |-> SetsOfType(sets, "s") # << >>,
        link  |-> append_index_url(mapping, conf, "index", sets[1].entries[j])]]

VariantsOfGroups(mapping, conf, sets, audio) ==
    IF alternative_audio(sets)
    THEN FlattenSeq([j \in DOMAIN audio |-> VariantsOf(mapping, conf, sets, {audio[j].codec})])
    ELSE VariantsOf(mapping, conf, sets, {})

\* m3u8_builder_write_variants: the first set, once for each group of audio
variants(mapping, conf, sets) == VariantsOfGroups(mapping, conf, sets, audio_codec_tracks(sets))

\* mp4_to_annexb_simulation_supported: the size of the converted frame is known only
\* when its nal units have lengths of four bytes
simulation_supported(t) == t.nal_packet_size_length = 4

iframe_variants_unbounded(mapping, conf, sets) ==
    LET entries == SelectSeq(sets[1].entries, LAMBDA e : e[1].type = "v" /\ e[1].key_frame_bitrate # 0)
    IN  [j \in DOMAIN entries |-> append_index_url(mapping, conf, "iframes", entries[j])]

\* m3u8_builder_write_iframe_variants: for the videos whose i-frame playlist can be
\* built, and of which the bitrate of the key frames is known
iframe_variants(mapping, conf, sets) ==
    LET Has(e) == /\ e[1].type = "v" /\ (conf.container = "auto" => e[1].codec = "avc")
                  /\ e[1].key_frame_bitrate # 0 /\ simulation_supported(e[1])
        entries == SelectSeq(sets[1].entries, Has)
    IN  [j \in DOMAIN entries |-> append_index_url(mapping, conf, "iframes", entries[j])]

iframe_playlist(conf, window, sets) ==
    /\ ~window.live /\ Len(window.clips) <= 1
    /\ conf.encryption = "none" /\ conf.container # "fmp4"
    /\ sets[1].type \in {"muxed", "v"}

\* The sizes are summed up before anything is written.
MasterRoom(sets, iframes) ==
    LET alternative == alternative_audio(sets)
    IN  [tag     |-> Len(SetsOfType(sets, "s")) + (IF alternative THEN Len(SetsOfType(sets, "a")) ELSE 0),
         variant |-> Len(sets[1].entries) * (IF alternative THEN Len(audio_codec_tracks(sets)) ELSE 1),
         iframe  |-> IF iframes THEN Len(sets[1].entries) ELSE 0]

MasterTags(mapping, conf, sets) ==
    (IF alternative_audio(sets) THEN media_tags(mapping, conf, sets, "a") ELSE << >>)
      \o media_tags(mapping, conf, sets, "s")

MasterPage(r, tags, streams, iframes, room) ==
    [rc |-> "ok", tracks |-> r.tracks, tags |-> tags, variants |-> streams,
     links |-> {t.link : t \in Range(tags)} \cup {v.link : v \in Range(streams)} \cup Range(iframes),
     room |-> room,
     written |-> [tag |-> Len(tags), variant |-> Len(streams), iframe |-> Len(iframes)]]

MasterOf(mapping, conf, window, r, a) ==
    IF a.rc # "ok" THEN BAD_REQUEST
    ELSE MasterPage(r, MasterTags(mapping, conf, a.sets), variants(mapping, conf, a.sets),
                    IF iframe_playlist(conf, window, a.sets) THEN iframe_variants(mapping, conf, a.sets) ELSE << >>,
                    MasterRoom(a.sets, iframe_playlist(conf, window, a.sets)))

build_master_playlist(mapping, conf, window, r) ==
    MasterOf(mapping, conf, window, r, get_adaptation_sets(r.tracks, master_flags(conf)))

-----------------------------------------------------------------------------
(* The index playlist *)

ClipsBefore(window, c) == FoldFunctionOnSet(+, 0, window.clips, 1 .. c - 1)
SegmentCount(window) == ClipsBefore(window, Len(window.clips) + 1)
Listed(window) == window.first .. window.first + SegmentCount(window) - 1

\* The init segment is named at the start, and again after each discontinuity.
InitNames(mapping, conf, window, tracks) ==
    LET spec == append_tracks_spec(mapping, tracks, Len(mapping.sequences) > 1)
        numbered == window.use_discontinuity /\ window.initial_clip # None
        last == IF numbered THEN Len(window.clips) ELSE 1
    IN  [c \in 1 .. last |->
           Link("init",
                (IF numbered THEN << Token("c", window.initial_clip + c - 1) >> ELSE << >>) \o spec,
                0, Meant(tracks, None, IF numbered THEN window.initial_clip + c - 1 ELSE None))]

KeyName_last(mapping, tracks) ==
    IF Len(mapping.sequences) > 1
    THEN << Token("f", Last(SetToSortSeq({t.seq : t \in Range(tracks)}, <))) >> ELSE << >>

\* The name of the key: the first sequence of the playlist.
KeyName(mapping, tracks) ==
    IF Len(mapping.sequences) > 1
    THEN << Token("f", SetToSortSeq({t.seq : t \in Range(tracks)}, <)[1]) >> ELSE << >>

\* A drm has a uri of its own for the key.
KeyLinks(mapping, conf, enc, tracks) ==
    IF enc.type \in {"none", "cenc"} \/ conf.drm_iv THEN {}
    ELSE {Link("key", KeyName(mapping, tracks), 0, Meant(<< >>, None, None))}

SegmentLinks(mapping, window, ext, tracks) ==
    LET spec == append_tracks_spec(mapping, tracks, Len(mapping.sequences) > 1)
    IN  {Link(ext, << Token("n", n) >> \o spec, 0, Meant(tracks, n, None)) : n \in Listed(window)}

IndexRoom(window) ==
    [segment |-> SegmentCount(window),
     map     |-> (IF window.use_discontinuity THEN Len(window.clips) - 1 ELSE 0) + 1]

build_index_playlist(mapping, conf, window, r) ==
    LET media == \E t \in Range(r.tracks) : t.type # "s"
        container == IF media THEN get_container_format(conf, r.tracks) ELSE "vtt"
        enc == init_encryption_params(IF media THEN conf ELSE [conf EXCEPT !.encryption = "none"],
                                      container, r.params, r.tracks)
        ext == CASE container = "mpegts" -> "ts" [] container = "fmp4" -> "m4s" [] OTHER -> "vtt"
        segments == SegmentLinks(mapping, window, ext, r.tracks)
        inits == IF container = "fmp4" THEN InitNames(mapping, conf, window, r.tracks) ELSE << >>
        keys == KeyLinks(mapping, conf, enc, r.tracks)
    IN  [rc |-> "ok", links |-> segments \cup Range(inits) \cup keys,
         segments |-> segments, inits |-> Range(inits), keys |-> keys,
         media_sequence |-> window.first, container |-> container, encryption |-> enc,
         room |-> IndexRoom(window),
         written |-> [segment |-> Cardinality(segments), map |-> Len(inits)]]

\* The iframe playlist names the segments that its key frames are in.  The muxing of
\* every video of the request has to be simulated.
build_iframe_playlist(mapping, conf, window, r) ==
    IF \/ conf.encryption # "none" \/ get_container_format(conf, r.tracks) = "fmp4"
       \/ \E t \in Range(r.tracks) : t.type = "v" /\ ~simulation_supported(t)
    THEN BAD_REQUEST
    ELSE [rc |-> "ok", links |-> SegmentLinks(mapping, window, "ts", r.tracks)]

-----------------------------------------------------------------------------
(* The answer to a request *)

\* A segment or an init segment: which tracks of which segment or clip it has, and
\* what it is encrypted with.
NoEncryption == [encryption |-> "none"]
Media(conf, container, r) ==
    [rc |-> "ok", links |-> {}, uids |-> Uids(r.tracks), segment |-> r.params.segment, clip |-> r.params.clip,
     params |-> r.params, encryption |-> init_encryption_params(conf, container, r.params, r.tracks)]

\* The handlers of the requests.  The key is that of the first sequence.
handle_encryption_key(r) == [rc |-> "ok", links |-> {}, key |-> SetToSortSeq(SequencesOf(r.tracks), <)[1]]

init_ts_frame_processor(conf, r) ==
    IF conf.encryption = "cenc" THEN BAD_REQUEST ELSE Media(conf, "mpegts", r)

\* A muxed fragment cannot be encrypted per sample with cenc.
init_fmp4_frame_processor(conf, r) ==
    IF Len(r.tracks) > 1 /\ conf.encryption = "cenc" THEN BAD_REQUEST ELSE Media(conf, "fmp4", r)

handle_mp4_init_segment(conf, r) == Media(conf, "fmp4", r)

handle_vtt_segment(conf, r) == Media([conf EXCEPT !.encryption = "none"], "vtt", r)

\* The first clip that the mapping still has, and its segments, must not be passed.
InWindow(window, params) ==
    /\ params.segment # None => params.segment \in Listed(window)
    /\ params.clip # None => params.clip \in window.initial_clip .. window.initial_clip + Len(window.clips) - 1

hls_handle(mapping, conf, window, kind, r) ==
    IF r.rc # "ok" \/ ~InWindow(window, r.params) THEN BAD_REQUEST
    ELSE CASE kind = "master"  -> build_master_playlist(mapping, conf, window, r)
           [] kind = "index"   -> build_index_playlist(mapping, conf, window, r)
           [] kind = "iframes" -> build_iframe_playlist(mapping, conf, window, r)
           [] kind = "key"     -> handle_encryption_key(r)
           [] kind = "ts"      -> init_ts_frame_processor(conf, r)
           [] kind = "m4s"     -> init_fmp4_frame_processor(conf, r)
           [] kind = "init"    -> handle_mp4_init_segment(conf, r)
           [] kind = "vtt"     -> handle_vtt_segment(conf, r)

hls_answer(mapping, conf, window, kind, name) ==
    hls_handle(mapping, conf, window, kind, Resolve(mapping, name, hls_request(kind)))
=============================================================================
