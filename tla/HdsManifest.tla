----------------------------- MODULE HdsManifest ----------------------------
(***************************************************************************)
(* HDS: hds_manifest.c and the requests of ngx_http_vod_hds.c.  A manifest *)
(* has a media tag for each video with its audio and one for each other    *)
(* language.  A tag names its fragments by a prefix, and they are counted  *)
(* by a bootstrap: a table of runs of fragments, in the manifest itself    *)
(* for VOD and a file of its own for live.                                 *)
(***************************************************************************)
EXTENDS HlsPlaylists

HdsCodecs == {"avc", "aac", "mp3"}
hds_flags == {"MUXED", "EXCLUDE_MUXED_AUDIO", "SINGLE_LANG_TRACK", "AVOID_AUDIO_ONLY"}

\* The request of a kind of file; the number of a fragment is the last token of its
\* name and is taken off before the others are read.
hds_request(kind) ==
    [flags  |-> IF kind = "f4m" THEN {"MULTI_STREAMS_PER_TYPE"} ELSE {},
     single |-> IF kind = "f4m" THEN "ANY" ELSE "SINGLE_TRACK_PER_MEDIA_TYPE",
     codecs |-> HdsCodecs]

-----------------------------------------------------------------------------
(* The table of fragments *)

Run(first, duration, discontinuity) == [first |-> first, duration |-> duration, discontinuity |-> discontinuity]
BothChange == 3
EndOfPresentation == 0
NoIndicator == -1

\* An item for each clip; an entry without duration ends the run before a
\* discontinuity, and one ends the presentation.
write_afrt_entries(window) ==
    LET FirstOf(c) == window.first + ClipsBefore(window, c)
        Breaks(c) == window.use_discontinuity /\ c < Len(window.clips)
        Of(c) == << Run(FirstOf(c), 1, NoIndicator) >>
                   \o (IF Breaks(c) THEN << Run(FirstOf(c) + window.clips[c], 0, BothChange) >> ELSE << >>)
    IN  FlattenSeq([c \in DOMAIN window.clips |-> Of(c)])
          \o (IF window.live THEN << >> ELSE << Run(0, 0, EndOfPresentation) >>)

abst_entries_no_breaks(window) == Len(window.clips) + (IF window.live THEN 0 ELSE 1)

\* hds_get_abst_atom_size: the entries that there is room for
abst_entries(window) ==
    Len(window.clips) + (IF window.use_discontinuity THEN Len(window.clips) - 1 ELSE 0)
                      + (IF window.live THEN 0 ELSE 1)

hds_build_bootstrap(window) ==
    [afrt |-> write_afrt_entries(window), fragments_per_segment |-> SegmentCount(window)]

\* How a player reads the table: a run goes on until the next one starts, the last
\* one until all the fragments were counted.
Fragments(bootstrap) ==
    LET afrt == bootstrap.afrt
        runs == {j \in DOMAIN afrt : afrt[j].duration > 0}
        Ends(j) == IF j < Len(afrt) /\ afrt[j + 1].first > 0 THEN afrt[j + 1].first
                   ELSE afrt[1].first + bootstrap.fragments_per_segment
    IN  UNION {afrt[j].first .. Ends(j) - 1 : j \in runs}

-----------------------------------------------------------------------------
(* The manifest *)

\* The tracks of every media tag, in the order of the sets.
MediaTags(sets) == FlattenSeq([j \in DOMAIN sets |-> sets[j].entries])

FragmentLinks(mapping, tracks, bootstrap) ==
    {Link("frag", append_tracks_spec(mapping, tracks, Len(mapping.sequences) > 1) \o << Token("n", n) >>, 0,
          Meant(tracks, n, None)) : n \in Fragments(bootstrap)}

\* The table of a live presentation is a file of its own.
BootstrapLink(mapping, tracks) ==
    Link("abst", append_tracks_spec(mapping, tracks, Len(mapping.sequences) > 1), 0, Meant(tracks, None, None))

\* Room for the media tags is counted from the first set and the number of the others.
HdsOf(mapping, window, r, a) ==
    IF a.rc # "ok" THEN BAD_REQUEST
    ELSE [rc |-> "ok", tracks |-> r.tracks,
          links |-> UNION {IF window.live THEN {BootstrapLink(mapping, t)}
                           ELSE FragmentLinks(mapping, t, hds_build_bootstrap(window)) : t \in Range(MediaTags(a.sets))},
          room |-> [media |-> Len(a.sets[1].entries) + Len(a.sets) - 1, entries |-> abst_entries(window)],
          written |-> [media |-> Len(MediaTags(a.sets)), entries |-> Len(write_afrt_entries(window))]]

hds_build_manifest(mapping, window, r) == HdsOf(mapping, window, r, get_adaptation_sets(r.tracks, hds_flags))

SetSegment(r, number) == IF r.rc # "ok" THEN r ELSE [r EXCEPT !.params.segment = number]

hds_handle(mapping, window, kind, r) ==
    IF r.rc # "ok" \/ ~InWindow(window, r.params) THEN BAD_REQUEST
    ELSE CASE kind = "f4m"  -> hds_build_manifest(mapping, window, r)
           \* the table of a live presentation: the player has the prefix from the manifest
           [] kind = "abst" -> [rc |-> "ok", links |-> FragmentLinks(mapping, r.tracks, hds_build_bootstrap(window))]
           [] kind = "frag" -> Media(NoEncryption, "f4f", r)

hds_answer(mapping, conf, window, kind, name) ==
    hds_handle(mapping, window, kind,
               SetSegment(Resolve(mapping, IF kind = "frag" THEN Front(name) ELSE name, hds_request(kind)),
                          IF kind = "frag" THEN Last(name).v ELSE None))
=============================================================================
