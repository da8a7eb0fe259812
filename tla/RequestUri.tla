----------------------------- MODULE RequestUri -----------------------------
(***************************************************************************)
(* The names of files.  Every playlist and manifest names the files that   *)
(* the player asks for next, and the name is all that a later request      *)
(* carries: the clip, the segment, the sequences and the tracks must be    *)
(* found again from it.  This module has the reader of names               *)
(* (ngx_http_vod_request_parse.c), the choice of sequences and tracks that *)
(* the parameters make (media_set_parser.c, ngx_http_vod_module.c), and    *)
(* the writers of the parameters (manifest_utils.c).                       *)
(*                                                                         *)
(* A name is a sequence of tokens, a letter k and a value: "n" is the      *)
(* segment number that has no letter, "i" the index shift, "c" a clip, "f" *)
(* a sequence by index, "s" a sequence by id, "v" and "a" tracks, "p" the  *)
(* pts delay, "l" a language, "x" the version.  Sequences, tracks,         *)
(* segments and clips are counted from 1, as names count them.             *)
(***************************************************************************)
EXTENDS Integers, Sequences, FiniteSets, SequencesExt

MAX_SEQUENCES == 32
MAX_SEQUENCE_IDS == 4
MAX_SEQUENCE_TRACKS_MASKS == 2
MAX_TRACK_COUNT == 64

MediaTypes == {"v", "a", "s"}
AllSequences == 1 .. MAX_SEQUENCES
AllTracks == 1 .. MAX_TRACK_COUNT
None == 0                               \* INVALID_SEGMENT_INDEX, INVALID_CLIP_INDEX

Token(k, v) == [k |-> k, v |-> v, id |-> ""]
IdToken(id) == [k |-> "s", v |-> 0, id |-> id]
BAD_REQUEST == [rc |-> "bad_request"]

-----------------------------------------------------------------------------
(* Reading a name *)

IsSelector(t) == t.k \in {"f", "s"}
IsTrack(t) == t.k \in {"v", "a"}

\* The masks that a run of track tokens sets; the types it does not name get none.
extract_track_tokens(spec) ==
    [type \in MediaTypes |->
       LET values == {spec[j].v : j \in {j \in DOMAIN spec : spec[j].k = type}}
       IN  IF 0 \in values THEN AllTracks ELSE values \cap AllTracks]

default_tracks_mask(flags) ==
    [type \in MediaTypes |-> IF "MULTI_STREAMS_PER_TYPE" \in flags THEN AllTracks ELSE {1}]

\* The order in which the parts of a name are looked for.
Part(k) == CASE k = "n" -> 1 [] k = "i" -> 2 [] k = "c" -> 3 [] k \in {"f", "s", "v", "a"} -> 4
             [] k = "p" -> 5 [] k = "l" -> 6 [] k = "x" -> 7

\* Every token is consumed by the part that expects it, and none has an illegal value.
WellFormed(name, flags) ==
    /\ \A j \in DOMAIN name :
         /\ j > 1 => \/ Part(name[j - 1].k) < Part(name[j].k)
                     \/ Part(name[j - 1].k) = Part(name[j].k) /\ Part(name[j].k) \in {4, 6}
         /\ CASE name[j].k \in {"n", "i"} -> "EXPECT_SEGMENT_INDEX" \in flags /\ name[j].v > 0
              [] name[j].k = "c" -> "ALLOW_CLIP_INDEX" \in flags /\ name[j].v > 0
              [] name[j].k = "f" -> name[j].v \in AllSequences
              [] name[j].k \in {"p", "x"} -> name[j].v > 0
              [] OTHER -> TRUE
    /\ "EXPECT_SEGMENT_INDEX" \in flags => name # << >> /\ name[1].k = "n"
    \* without a sequence selector in front, no selector may follow the tracks
    /\ \A i, j \in DOMAIN name : i < j /\ IsTrack(name[i]) /\ IsSelector(name[j])
                                   => \E h \in 1 .. i : IsSelector(name[h])

\* Each selector of a name with the track tokens that follow it.
Selectors(name) ==
    LET at == SetToSortSeq({j \in DOMAIN name : IsSelector(name[j])}, <)
        Until(i) == IF i < Len(at) THEN at[i + 1] ELSE Len(name) + 1
    IN  [i \in DOMAIN at |-> [token |-> name[at[i]],
                              spec  |-> SelectSeq(SubSeq(name, at[i] + 1, Until(i) - 1), IsTrack)]]

ValueOf(name, k, default) ==
    LET at == {j \in DOMAIN name : name[j].k = k}
    IN  IF at = {} THEN default ELSE name[CHOOSE j \in at : TRUE].v

Ids(sel) == SelectSeq(sel, LAMBDA e : e.token.k = "s")

Specs(sel) == IF Len(sel) > 1 THEN SelectSeq(sel, LAMBDA e : e.spec # << >>) ELSE << >>

\* The track spec of a single selector is the mask of the whole request.  With
\* several, each spec belongs to its sequence and the others have the default.
ParamsOf(name, flags, sel, ids, specs, spec) ==
    IF \/ ~WellFormed(name, flags)
       \/ Len(ids) > MAX_SEQUENCE_IDS
       \/ Len(specs) > MAX_SEQUENCE_TRACKS_MASKS
    THEN BAD_REQUEST
    ELSE [rc             |-> "ok",
          segment        |-> ValueOf(name, "n", None) + ValueOf(name, "i", 0),
          clip           |-> ValueOf(name, "c", None),
          sequences_mask |-> IF sel = << >> THEN AllSequences
                             ELSE {e.token.v : e \in {f \in Range(sel) : f.token.k = "f"}},
          sequence_ids   |-> {e.token.id : e \in Range(ids)},
          tracks_mask    |-> IF Len(sel) > 1 \/ spec = << >> THEN default_tracks_mask(flags)
                             ELSE extract_track_tokens(spec),
          sequence_tracks_mask |->
             [i \in DOMAIN specs |-> [token |-> specs[i].token,
                                      tracks_mask |-> extract_track_tokens(specs[i].spec)]]]

ParamsOfSelectors(name, flags, sel) ==
    ParamsOf(name, flags, sel, Ids(sel), Specs(sel), SelectSeq(name, IsTrack))

parse_uri_file_name(name, flags) == ParamsOfSelectors(name, flags, Selectors(name))

-----------------------------------------------------------------------------
(* The sequences and tracks that the parameters choose *)

\* get_sequence_tracks_mask: the first mask whose selector is this sequence
TracksMaskOf(params, q, id) ==
    LET Is(e) == IF e.token.k = "f" THEN e.token.v = q ELSE e.token.id = id
        own   == SelectSeq(params.sequence_tracks_mask, Is)
    IN  IF own = << >> THEN params.tracks_mask ELSE own[1].tracks_mask

\* "filtered sub uris that didn't have any required tracks"
HasUriTracks(params) == \E type \in MediaTypes : params.tracks_mask[type] # {}

\* parse_uri_path: a multi uri has a sequence for each part that the mask keeps
\* and that has any track at all; the mask is then spent.
UriSequences(mapping, params) ==
    {q \in DOMAIN mapping.sequences :
       /\ Len(mapping.sequences) > 1 /\ params.sequence_ids = {} => q \in params.sequences_mask
       /\ HasUriTracks(params)}

\* parse_sequences of a mapping: by index or by id
JsonSequences(mapping, params) ==
    {q \in DOMAIN mapping.sequences :
       \/ q \in params.sequences_mask
       \/ mapping.sequences[q].id \in params.sequence_ids}

ChosenSequences(mapping, params) ==
    IF mapping.json THEN JsonSequences(mapping, params) ELSE UriSequences(mapping, params)

\* The tracks of a media set, sequence by sequence, video before audio before
\* subtitles; a sequence that has none left is removed.
MediaSetTracks(mapping, params, codecs) ==
    LET Wanted(q) == SelectSeq(mapping.sequences[q].tracks,
                       LAMBDA t : /\ q \in ChosenSequences(mapping, params)
                                  /\ t.n \in TracksMaskOf(params, q, mapping.sequences[q].id)[t.type]
                                  /\ t.codec \in codecs)
    IN  FlattenSeq([q \in DOMAIN mapping.sequences |-> Wanted(q)])

CountOf(tracks, type) == Len(SelectSeq(tracks, LAMBDA t : t.type = type))
SequencesOf(tracks) == {t.seq : t \in Range(tracks)}

\* validate_streams
ValidStreams(tracks, single) ==
    /\ tracks # << >>
    /\ single = "SINGLE_TRACK" => Len(tracks) = 1
    /\ single = "SINGLE_TRACK_PER_MEDIA_TYPE" =>
         /\ Cardinality(SequencesOf(tracks)) \in {1, 2}
         /\ CountOf(tracks, "v") <= 1 /\ CountOf(tracks, "a") <= 1
         /\ CountOf(tracks, "s") > 0 => Len(tracks) = 1

\* parse_uri: a multi uri request is also refused for its number of parts
ValidParts(mapping, params, single) ==
    LET parts == Cardinality(UriSequences(mapping, params))
    IN  /\ parts > 0
        /\ single = "SINGLE_TRACK" => parts = 1
        /\ single = "SINGLE_TRACK_PER_MEDIA_TYPE" => parts \in {1, 2}

\* What a request is about: its parameters and the tracks of its media set.
ResolveTracks(mapping, params, request, tracks) ==
    IF \/ ChosenSequences(mapping, params) = {}
       \/ ~mapping.json /\ ~ValidParts(mapping, params, request.single)
       \/ ~ValidStreams(tracks, request.single)
    THEN BAD_REQUEST
    ELSE [rc |-> "ok", params |-> params, tracks |-> tracks]

ResolveParams(mapping, params, request) ==
    IF params.rc # "ok" THEN BAD_REQUEST
    ELSE ResolveTracks(mapping, params, request, MediaSetTracks(mapping, params, request.codecs))

Resolve(mapping, name, request) ==
    ResolveParams(mapping, parse_uri_file_name(name, request.flags), request)

-----------------------------------------------------------------------------
(* Writing the parameters into names *)

TrackTokens(k, mask) ==
    LET sorted == SetToSortSeq(mask, <)
    IN  IF mask = AllTracks THEN << Token(k, 0) >> ELSE [j \in DOMAIN sorted |-> Token(k, sorted[j])]

\* The sequences of a mask; the mask of all of them is not written.
SequenceTokens(mask) ==
    LET sorted == SetToSortSeq(mask, <)
    IN  IF mask = AllSequences THEN << >> ELSE [j \in DOMAIN sorted |-> Token("f", sorted[j])]

SegmentToken(segment) == IF segment = None THEN << >> ELSE << Token("n", segment) >>

\* Each sequence of the mask with its own tracks.  A mask for a sequence that was
\* named by its id is not looked at, nor is the id written.
params_string_per_sequence(params, segment) ==
    LET order == SetToSortSeq(params.sequences_mask, <)
        Own(q) == SelectSeq(params.sequence_tracks_mask,
                    LAMBDA e : e.token = Token("f", q))
        Mask(q) == IF Own(q) = << >> THEN params.tracks_mask ELSE Own(q)[1].tracks_mask
    IN  SegmentToken(segment) \o FlattenSeq([j \in DOMAIN order |->
          << Token("f", order[j]) >> \o TrackTokens("v", Mask(order[j])["v"])
                                     \o TrackTokens("a", Mask(order[j])["a"])])

\* has: the types of which the media set has a track
build_request_params_string(params, segment, has) ==
    IF params.sequence_tracks_mask # << >> THEN params_string_per_sequence(params, segment)
    ELSE SegmentToken(segment)
           \o SequenceTokens(params.sequences_mask)
           \o (IF "v" \in has THEN TrackTokens("v", params.tracks_mask["v"]) ELSE << >>)
           \o (IF "a" \in has THEN TrackTokens("a", params.tracks_mask["a"]) ELSE << >>)

append_tracks_spec_once(mapping, tracks, write_sequence_index) ==
    LET Id(t) == mapping.sequences[t.seq].id
        Sel(t) == IF Id(t) # "" THEN IdToken(Id(t)) ELSE Token("f", t.seq)
    IN  (IF write_sequence_index THEN << Sel(tracks[1]) >> ELSE << >>)
          \o [j \in 1 .. Len(SelectSeq(tracks, LAMBDA t : t.type # "s")) |-> Token(tracks[j].type, tracks[j].n)]

\* The spec of given tracks; the sequence is named when it changes, by its id if
\* it has one.
append_tracks_spec(mapping, tracks, write_sequence_index) ==
    LET Id(t) == mapping.sequences[t.seq].id
        Sel(t) == IF Id(t) # "" THEN IdToken(Id(t)) ELSE Token("f", t.seq)
        Spec(j) == (IF write_sequence_index /\ (j = 1 \/ tracks[j - 1].seq # tracks[j].seq)
                    THEN << Sel(tracks[j]) >> ELSE << >>)
                     \o (IF tracks[j].type # "s" THEN << Token(tracks[j].type, tracks[j].n) >> ELSE << >>)
    IN  FlattenSeq([j \in DOMAIN tracks |-> Spec(j)])
=============================================================================
