--------------------------- MODULE AdaptationSets ---------------------------
(***************************************************************************)
(* manifest_utils.c: how the tracks of a media set are grouped into the    *)
(* sets among which a player chooses.  HLS and HDS serve video muxed with  *)
(* an audio, the others serve each track alone; languages, audio codecs    *)
(* and subtitles become sets of their own.                                 *)
(*                                                                         *)
(* A track is a record with its seq, type, number n in the file, codec and *)
(* label (and what the protocols look at: its bitrate and dimension, the   *)
(* bitrate of its key frames, the length of its nal units' sizes).  An     *)
(* adaptation set is [type, entries]: an entry is the tracks that are      *)
(* served together, one track unless the set is muxed.                     *)
(***************************************************************************)
EXTENDS Integers, Sequences, FiniteSets, SequencesExt

Ungrouped == [codec |-> "", label |-> "", grouped |-> FALSE]

\* track_group_key_init
GroupKey(t, flags) ==
    LET Codec(flag) == IF flag \in flags THEN t.codec ELSE ""
        Key(c, l) == [codec |-> c, label |-> l, grouped |-> TRUE]
    IN  CASE t.type = "v" -> Key(Codec("MULTI_VIDEO_CODEC"), "")
          [] t.type = "a" /\ "MULTI_AUDIO" \notin flags -> Key(Codec("MULTI_AUDIO_CODEC"), "")
          [] t.type = "a" /\ "MULTI_AUDIO" \in flags /\ t.label # "" -> Key(Codec("MULTI_AUDIO_CODEC"), t.label)
          [] t.type = "s" /\ t.label # "" -> Key("", t.label)
          [] OTHER -> Ungrouped

\* track_group_add_track: a group of subtitles, and one of a language when one
\* track is enough, keeps its first track only.
KeepsAll(type, flags) ==
    ~(type = "s" \/ (type = "a" /\ {"MULTI_AUDIO", "SINGLE_LANG_TRACK"} \subseteq flags))

\* The members of a group, and the first members of all groups
Members(tracks, flags, k) == SelectSeq(tracks, LAMBDA t : GroupKey(t, flags) = k)

GroupHeads(tracks, flags) ==
    SelectSeq(tracks, LAMBDA t : t = Members(tracks, flags, GroupKey(t, flags))[1])

GroupsAt(tracks, heads, type, flags) ==
    [g \in DOMAIN heads |->
       IF KeepsAll(type, flags) THEN Members(tracks, flags, GroupKey(heads[g], flags)) ELSE << heads[g] >>]

GroupsOf(tracks, type, flags) == GroupsAt(tracks, GroupHeads(tracks, flags), type, flags)

\* track_groups_from_media_set: the groups of a type, in the order of their first tracks
Groups(tracks, type, flags) ==
    GroupsOf(SelectSeq(tracks, LAMBDA t : t.type = type /\ GroupKey(t, flags).grouped), type, flags)

AdaptationSet(type, group) == [type |-> type, entries |-> [j \in DOMAIN group |-> << group[j] >>]]

is_multi_audio(tracks) ==
    \E i, j \in DOMAIN tracks : /\ tracks[i].type = "a" /\ tracks[j].type = "a"
                                /\ tracks[i].label # "" /\ tracks[j].label # ""
                                /\ tracks[i].label # tracks[j].label

First(seq) == IF seq = << >> THEN << >> ELSE << Head(seq) >>

OfType(tracks, type) == SelectSeq(tracks, LAMBDA t : t.type = type)

\* The tracks video of a sequence with its audio; other is what is muxed when that is
\* missing or foreign, in another group.
MuxedWith(tracks, flags, video, audio, foreign, other) ==
    CASE video # << >> ->
           [j \in DOMAIN video |-> << video[j] >> \o IF foreign /\ other # << >> THEN other ELSE First(audio)]
      [] video = << >> /\ \/ foreign
                          \/ /\ "AVOID_AUDIO_ONLY" \in flags
                             /\ \E j \in DOMAIN tracks : tracks[j].type = "v" -> << >>
      [] OTHER -> [j \in DOMAIN audio |-> << audio[j] >>]

\* keys: no key, or the one of the muxed audio group.
IsMuxedAudio(t, flags, keys) == t.type = "a" /\ (keys = {} \/ GroupKey(t, flags) \in keys)

MuxedSequence(tracks, flags, keys, video, audio) ==
    MuxedWith(tracks, flags, video, audio,
              /\ \E j \in DOMAIN tracks : tracks[j].type = "a"
              /\ audio = << >> \/ ~IsMuxedAudio(audio[1], flags, keys),
              First(SelectSeq(tracks, LAMBDA t : IsMuxedAudio(t, flags, keys))))

\* manifest_utils_get_muxed_adaptation_set: a video is muxed with the audio of its
\* sequence or, if that is missing or in another group than keys ask for, with one
\* of another sequence.
MuxedEntries(tracks, flags, keys) ==
    LET order == SetToSortSeq({t.seq : t \in Range(tracks)}, <)
        own(i) == SelectSeq(tracks, LAMBDA t : t.seq = order[i])
    IN  FlattenSeq([i \in DOMAIN order |->
          MuxedSequence(tracks, flags, keys, OfType(own(i), "v"), OfType(own(i), "a"))])

DefaultLast(groups) == Append(Tail(groups), Head(groups))

\* The groups of audio that get sets of their own
AudioApart(video, audio, flags) ==
    CASE ~(video # << >> /\ "MUXED" \in flags) -> audio
      [] video # << >> /\ "MUXED" \in flags /\ Len(audio) <= 1 -> << >>
      [] OTHER -> IF "EXCLUDE_MUXED_AUDIO" \in flags THEN Tail(audio) ELSE audio

MuxedSet(tracks, flags, audio, apart) ==
    [type |-> "muxed",
     entries |-> IF apart = << >> THEN MuxedEntries(tracks, flags, {})
                 ELSE MuxedEntries(tracks, flags \cup {"AVOID_AUDIO_ONLY"},
                                   IF "EXCLUDE_MUXED_AUDIO" \in flags THEN {GroupKey(audio[1][1], flags)} ELSE {})]

SetsOf(type, groups) == [g \in DOMAIN groups |-> AdaptationSet(type, groups[g])]

SetsOfGroups(tracks, flags, video, audio) ==
    (IF video # << >> /\ "MUXED" \in flags
     THEN << MuxedSet(tracks, flags, audio, AudioApart(video, audio, flags)) >>
     ELSE SetsOf("v", video))
      \o SetsOf("a", AudioApart(video, audio, flags)) \o SetsOf("s", Groups(tracks, "s", flags))

\* manifest_utils_get_adaptation_sets
get_adaptation_sets(tracks, requested) ==
    LET multi  == is_multi_audio(tracks)
        flags  == requested \cup (IF multi THEN {"MULTI_AUDIO"} ELSE {})
    IN  IF "MUXED" \in flags /\ \A j \in DOMAIN tracks : tracks[j].type = "s"
        THEN [rc |-> "bad_request"]
        ELSE [rc |-> "ok", multi_audio |-> multi,
              sets |-> SetsOfGroups(tracks, flags, Groups(tracks, "v", flags),
                         IF multi /\ "DEFAULT_LANG_LAST" \in flags THEN DefaultLast(Groups(tracks, "a", flags))
                         ELSE Groups(tracks, "a", flags))]

SetsOfType(sets, type) == SelectSeq(sets, LAMBDA s : s.type = type)
=============================================================================
