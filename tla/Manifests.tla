----------------------------- MODULE Manifests ------------------------------
(***************************************************************************)
(* A player walks through a presentation: it opens a master playlist or a  *)
(* manifest, follows the links it finds there, and the module answers each *)
(* request from nothing but its name.  A segment may be redirected to a    *)
(* server that gets the request parameters, $vod_request_params, and a     *)
(* thumbnail to the time that it shows.                                    *)
(***************************************************************************)
EXTENDS MssManifest, HdsManifest

CONSTANTS
    Presentations,  \* [mapping, conf, window]: the sequences of a presentation and whether it
                    \* is a mapping json, the configuration of a protocol, the time line listed
    Entries         \* the names with which the first page may be asked for

VARIABLES
    mapping, conf, window,
    link,           \* the link that was followed, or Nowhere
    page            \* the answer

vars == << mapping, conf, window, link, page >>

Nowhere == [kind |-> "none"]
NoPage == [rc |-> "none", links |-> {}]

\* The first page of each protocol
EntryKind(protocol) ==
    CASE protocol = "hls" -> "master" [] protocol = "dash" -> "mpd" [] protocol = "hds" -> "f4m"
      [] protocol = "mss" -> "manifest" [] protocol = "thumb" -> "thumb"

ThumbRequest == [single |-> "SINGLE_TRACK", codecs |-> {"avc", "hevc", "vp8", "vp9", "av1"}]

\* ngx_http_vod_thumb_get_url: a redirect names the first sequence that was asked for.
ThumbName(m, params) ==
    LET first == SetToSortSeq(ChosenSequences(m, params), <)[1]
    IN  build_request_params_string(
          [params EXCEPT !.sequences_mask = IF Len(m.sequences) > 1 THEN {first} ELSE AllSequences,
                         !.sequence_tracks_mask = << >>],
          None, {t \in MediaTypes : params.tracks_mask[t] # {}})

thumb_handle(m, r) ==
    IF r.rc # "ok" THEN BAD_REQUEST
    ELSE [Media(NoEncryption, "jpg", r) EXCEPT !.links =
            {Link("thumb", ThumbName(m, r.params), 0, Meant(r.tracks, None, None))}]

\* ngx_http_vod_thumb_parse_uri_file_name: a thumbnail is of one video.
ThumbParams(p) == IF p.rc # "ok" THEN p ELSE [p EXCEPT !.tracks_mask["a"] = {}, !.tracks_mask["s"] = {}]

thumb_answer(m, name) ==
    thumb_handle(m, ResolveParams(m, ThumbParams(parse_uri_file_name(name, {})), ThumbRequest))

Answer(m, kind, name) ==
    CASE conf.protocol = "hls"   -> hls_answer(m, conf, window, kind, name)
      [] conf.protocol = "dash"  -> dash_answer(m, conf, window, kind, name)
      [] conf.protocol = "hds"   -> hds_answer(m, conf, window, kind, name)
      [] conf.protocol = "mss"   -> mss_answer(m, conf, window, kind, name)
      [] conf.protocol = "thumb" -> thumb_answer(m, name)

\* The uri of one file is a presentation of that file alone.
Direct(m, q) == [json |-> FALSE,
                 sequences |-> << [m.sequences[q] EXCEPT !.tracks =
                                     [j \in DOMAIN @ |-> [@[j] EXCEPT !.seq = 1]]] >>]

Init ==
    /\ \E p \in Presentations : mapping = p.mapping /\ conf = p.conf /\ window = p.window
    /\ link = Nowhere /\ page = NoPage

Open ==
    /\ page = NoPage
    /\ \E name \in Entries :
         \E answer \in {Answer(mapping, EntryKind(conf.protocol), name)} :
           /\ answer.rc = "ok"
           /\ page' = answer
    /\ UNCHANGED << mapping, conf, window, link >>

Follow ==
    \E l \in page.links :
      \E m \in {IF l.to = 0 THEN mapping ELSE Direct(mapping, l.to)} :
        /\ mapping' = m
        /\ link' = l
        /\ page' = Answer(m, l.kind, l.name)
        /\ UNCHANGED << conf, window >>

SegmentKinds == {"ts", "m4s", "webm", "chunk"}

\* vod_redirect_segments_url with $vod_request_params; the file that an MSS fragment
\* is redirected to has no format for text
Redirect ==
    /\ conf.redirect /\ link # Nowhere /\ link.kind \in SegmentKinds /\ page.rc = "ok"
    /\ link.kind = "chunk" => link.name[2].k # "s"
    /\ \E name \in {build_request_params_string(page.params, page.params.segment,
                      {t \in MediaTypes : page.params.tracks_mask[t] # {}})} :
       \E kind \in {IF link.kind = "chunk" THEN "m4s" ELSE link.kind} :
         /\ link' = [link EXCEPT !.kind = kind, !.name = name]
         /\ page' = Answer(mapping, kind, name)
    /\ UNCHANGED << mapping, conf, window >>

Next == Open \/ Follow \/ Redirect

Spec == Init /\ [][Next]_vars

-----------------------------------------------------------------------------
(* Properties *)

MediaKinds == SegmentKinds \cup {"vtt", "ttml", "init", "mp4", "webm_init", "frag", "thumb"}

\* Every link of a playlist or a manifest, and every redirect, is answered, and with
\* what the page that named it says is there: these tracks, this segment, this clip.
\* The writers and the reader of names agree, whatever the selection of sequences and
\* tracks the page was asked with (append_tracks_spec, dash_packager_get_track_spec,
\* mss_encode_indexes against ngx_http_vod_parse_uri_file_name).
LinksResolve ==
    link # Nowhere =>
      /\ page.rc = "ok"
      /\ link.kind \in MediaKinds =>
           page.uids = link.meant.uids /\ page.segment = link.meant.segment /\ page.clip = link.meant.clip
      /\ link.kind \in {"index", "iframes", "abst"} =>
           \A l \in page.links : l.kind \in MediaKinds => l.meant.uids = link.meant.uids

\* What a manifest offers: the tracks that its links lead to.
Offered == LET uids == UNION {l.meant.uids : l \in page.links} IN {t \in Range(page.tracks) : t.uid \in uids}

\* MSS: all the audio has one sample rate, the highest
SlowAudio(t) == /\ conf.protocol = "mss" /\ t.type = "a"
                /\ \E u \in Range(page.tracks) : u.type = "a" /\ u.dim > t.dim

\* A variant that names an audio group has a media tag of that group to choose from,
\* in every combination of audio codecs and languages.
GroupsDeclared ==
    (link = Nowhere /\ page # NoPage /\ conf.protocol = "hls") =>
      \A v \in Range(page.variants) :
        /\ \A g \in v.audio : \E t \in Range(page.tags) : t.group = g
        /\ v.subs => \E t \in Range(page.tags) : t.group = "subs"

\* No quality and no language gets lost on the way to the player: every video of the
\* request is offered (DASH and MSS: or one that looks the same), every audio codec of
\* each language is (MSS and HDS: some track of the language), and every subtitle
\* language.  An audio without a label may go when others have different ones.  The groups
\* that the variants of a master playlist name are declared.
EverythingOffered ==
    /\ GroupsDeclared
    /\ (link = Nowhere /\ page # NoPage /\ conf.protocol # "thumb") =>
      \A t \in Range(page.tracks) :
        \/ t \in Offered
        \/ \E u \in Offered :
             /\ u.type = t.type
             /\ CASE t.type = "v" -> conf.protocol \in {"dash", "mss"} /\ u.dim = t.dim
                  [] t.type = "a" -> /\ is_multi_audio(page.tracks) => t.label \in {"", u.label}
                                     /\ conf.protocol \in {"hls", "dash"} /\ (t.label # "" \/ ~is_multi_audio(page.tracks))
                                          => u.codec = t.codec
                  [] t.type = "s" -> t.label \in {"", u.label}
        \/ (t.type = "s" /\ t.label = "") \/ SlowAudio(t)

\* A segment that was encrypted with e is opened by what the playlist, and the init
\* segments of these ivs, say.
Opens(l, e, initIvs) ==
    /\ e.key = page.encryption.key
    /\ IF page.container = "fmp4" /\ e.type = "sample_aes" THEN initIvs = {e.iv}
       ELSE IF page.encryption.return_iv THEN e.iv = page.encryption.iv
       ELSE e.iv \in {DrmIv, page.media_sequence + (l.meant.segment - window.first)}

\* What the player decrypts a segment with, by the rules of HLS, is what the segment
\* was encrypted with, although each request makes it up from its own parameters: the
\* key behind the key link, the iv of the playlist or else the media sequence number,
\* and in fragmented mp4 under SAMPLE-AES the iv of the init segment.
KeyOpensSegments ==
    (link # Nowhere /\ link.kind = "index" /\ page.encryption.type \in {"aes128", "sample_aes"}) =>
      /\ \A k \in page.keys : hls_answer(mapping, conf, window, "key", k.name).key = page.encryption.key
      /\ \A l \in page.segments :
           Opens(l, hls_answer(mapping, conf, window, l.kind, l.name).encryption,
                 {hls_answer(mapping, conf, window, "init", i.name).encryption.iv : i \in page.inits})

\* What is written fits into what was reserved: the two passes over a media set count
\* the same tags, variants, representations and entries, although one counts tracks
\* and the other walks the adaptation sets.
RoomSuffices ==
    "room" \in DOMAIN page =>
      \A piece \in DOMAIN page.room : page.written[piece] <= page.room[piece]
=============================================================================
