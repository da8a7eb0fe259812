--------------------------- MODULE FragmentHeaders ---------------------------
(***************************************************************************)
(* The headers of dash and smooth streaming fragments, clear, encrypted    *)
(* and passed through.                                                     *)
(*                                                                         *)
(* A header is a sequence of pieces in the order they are written: name,   *)
(* declared (the size the atom states) and written (the bytes written; a   *)
(* container's are those of its own header).  The sizes are computed before*)
(* anything is written, by other code than the one that writes.            *)
(***************************************************************************)
EXTENDS Ciphers, FiniteSets

CONSTANT UintMax    \* UINT_MAX

ASSUME HeadersAssumption == UintMax \in Nat \ {0}

VARIABLE job

SumOf(s) == FoldLeft(LAMBDA a, x : a + x, 0, s)

\* The frames of a track's clips, one after the other
AllFrames(clips) == FlattenSeq([c \in DOMAIN clips |-> clips[c].frames])

total_frame_count == Len(AllFrames(job.tracks[1].clips))
total_frame_size == SumOf([f \in 1 .. total_frame_count |-> AllFrames(job.tracks[1].clips)[f].size])

AtomHeader == 8
Atom(name, declared, body) == [name |-> name, declared |-> declared, written |-> AtomHeader + body]
Container(name, declared) == Atom(name, declared, 0)
Room(body) == AtomHeader + body

\* sizeof of the atoms' structures
Sizeof == [mfhd |-> 8, tfhd |-> 8, tfdt |-> 8, tfdt64 |-> 12, trun |-> 12, video_frame |-> 16,
           audio_frame |-> 8, sidx |-> 36, sidx64 |-> 44, saiz |-> 9, saio |-> 12, senc |-> 8,
           piff |-> 24, mss_tfhd |-> 12, tfxd |-> 36, tfrf |-> 21, tfrf_entry |-> 16,
           styp |-> 28, styp_v2 |-> 24]

-----------------------------------------------------------------------------
(* The auxiliary data: per frame an iv and, for video, the count of the    *)
(* subsamples and the clear and encrypted bytes of each *)

Iv(iv) == [t |-> "iv", x |-> iv, y |-> 0]
Count(n) == [t |-> "count", x |-> n, y |-> 0]
Subsample(clear, encrypted) == [t |-> "sub", x |-> clear, y |-> encrypted]

ItemSize == [iv |-> 8, count |-> 2, sub |-> 6]

AuxSize(aux) == SumOf([i \in DOMAIN aux |-> ItemSize[aux[i].t]])

\* The items in the bytes from .. to - 1
AuxRange(aux, from, to) ==
    LET at(i) == AuxSize(SubSeq(aux, 1, i - 1))
        inside == {i \in DOMAIN aux : from <= at(i) /\ at(i) < to}
    IN IF inside = {} THEN <<>> ELSE SubSeq(aux, Min(inside), Max(inside))

\* What a writer of auxiliary data tells the header: the items, the sizes of
\* saiz (default 0 when they differ), the sizes of the two atoms, and
\* whether the flags say that there are subsamples
AuxInfo(aux, default, count, sizes, saiz_size, subsamples) ==
    [aux |-> aux, default |-> default, count |-> count, sizes |-> sizes,
     saiz_size |-> saiz_size, saio_size |-> Room(Sizeof.saio), subsamples |-> subsamples]

NoAux == AuxInfo(<<>>, 0, 0, <<>>, 0, FALSE)

\* mp4_cenc_encrypt_video_write_saiz_saio and the ones like it
write_saiz_saio(info) ==
    << Atom("saiz", info.saiz_size, 4 + 1 + 4 + Len(info.sizes)),
       Atom("saio", info.saio_size, 4 + 4 + 4) >>

senc(info) == Atom("senc", Room(Sizeof.senc) + AuxSize(info.aux), 4 + 4 + AuxSize(info.aux))

uuid_piff(info) == Atom("piff", Room(Sizeof.piff) + AuxSize(info.aux), 16 + 4 + 4 + AuxSize(info.aux))

\* [size, atoms, offset(moof)]: what edash_packager.c adds to a traf
edash_packager_write_encryption_atoms(info, moof) ==
    [size |-> info.saiz_size + info.saio_size + Room(Sizeof.senc) + AuxSize(info.aux),
     atoms |-> write_saiz_saio(info) \o <<senc(info)>>,
     offset |-> moof - AuxSize(info.aux)]

\* A plausible mistake: the atoms after the data are forgotten
mss_playready_write_extra_traf_atoms_BUG(info, moof) ==
    [size |-> Room(Sizeof.piff) + AuxSize(info.aux) + info.saiz_size + info.saio_size,
     atoms |-> <<uuid_piff(info)>> \o write_saiz_saio(info),
     offset |-> moof - AuxSize(info.aux)]

\* and what mss_playready.c adds
mss_playready_write_extra_traf_atoms(info, moof) ==
    [size |-> Room(Sizeof.piff) + AuxSize(info.aux) + info.saiz_size + info.saio_size,
     atoms |-> <<uuid_piff(info)>> \o write_saiz_saio(info),
     offset |-> moof - (AuxSize(info.aux) + info.saiz_size + info.saio_size)]

ExtraAtoms(info, moof) ==
    IF ~ job.encrypt THEN [size |-> 0, atoms |-> <<>>, offset |-> 0]
    ELSE IF job.protocol = "dash" THEN edash_packager_write_encryption_atoms(info, moof)
    ELSE mss_playready_write_extra_traf_atoms(info, moof)

-----------------------------------------------------------------------------
(* mp4_fragment.c *)

FrameEntry == IF job.tracks[1].kind = "video" THEN Sizeof.video_frame ELSE Sizeof.audio_frame

mp4_fragment_get_trun_atom_size == Room(Sizeof.trun) + total_frame_count * FrameEntry

\* Four fields of 4 bytes for every frame
mp4_fragment_write_video_trun_atom ==
    Atom("trun", Room(Sizeof.trun) + total_frame_count * Sizeof.video_frame,
         4 + 4 + 4 + 4 * 4 * Len(AllFrames(job.tracks[1].clips)))

\* Two fields for every frame
mp4_fragment_write_audio_trun_atom ==
    Atom("trun", Room(Sizeof.trun) + total_frame_count * Sizeof.audio_frame,
         4 + 4 + 4 + 2 * 4 * Len(AllFrames(job.tracks[1].clips)))

TrunAtom ==
    IF job.tracks[1].kind = "video" THEN mp4_fragment_write_video_trun_atom
    ELSE mp4_fragment_write_audio_trun_atom

mp4_fragment_write_mfhd_atom == Atom("mfhd", Room(Sizeof.mfhd), 4 + 4)

mp4_fragment_write_tfhd_atom(index) ==
    Atom("tfhd", Room(Sizeof.tfhd) + (IF index > 0 THEN 4 ELSE 0),
         4 + 4 + (IF index > 0 THEN 4 ELSE 0))

mp4_fragment_write_tfdt_atom == Atom("tfdt", Room(Sizeof.tfdt), 4 + 4)
mp4_fragment_write_tfdt64_atom == Atom("tfdt", Room(Sizeof.tfdt64), 4 + 8)

-----------------------------------------------------------------------------
(* dash_packager.c *)

dash_packager_write_sidx_atom == Atom("sidx", Room(Sizeof.sidx), 9 * 4)
dash_packager_write_sidx64_atom == Atom("sidx", Room(Sizeof.sidx64), 7 * 4 + 2 * 8)

\* DASH_TIMESCALE / 1000
TicksPerMs == 90

dash_packager_get_earliest_pres_time(clip) ==
    TicksPerMs * (clip.clip_start_time - job.origin) + clip.first_frame_time_offset
      + (IF clip.frames = <<>> THEN 0
         ELSE clip.pts_delay - (IF job.tracks[1].kind = "video" /\ job.version >= 1
                                THEN clip.initial_pts_delay ELSE 0))

\* The time of the first clip with frames, or of the first one
EarliestTime ==
    LET clips == job.tracks[1].clips
        filled == {c \in DOMAIN clips : clips[c].frames # <<>>}
    IN dash_packager_get_earliest_pres_time(clips[IF filled = {} THEN 1 ELSE Min(filled)])

\* The fields of a header: its pieces, the response's size, where the
\* samples start and where saio says that the auxiliary data is, both from
\* the start of moof
Header(pieces, total, first_frame_offset, info, offset) ==
    [pieces |-> pieces, total |-> total, first_frame_offset |-> first_frame_offset,
     info |-> info, aux_offset |-> offset]

NoHeader == Header(<<>>, 0, 0, NoAux, 0)

DashTrafSize(index, info, wide) ==
    AtomHeader + Room(Sizeof.tfhd) + (IF index > 0 THEN 4 ELSE 0)
      + (IF wide THEN Room(Sizeof.tfdt64) ELSE Room(Sizeof.tfdt))
      + mp4_fragment_get_trun_atom_size + ExtraAtoms(info, 0).size

DashHeader(index, info, wide, styp, traf, moof, mdat, extra) ==
    Header(<< [name |-> "styp", declared |-> styp, written |-> styp],
              IF wide THEN dash_packager_write_sidx64_atom ELSE dash_packager_write_sidx_atom,
              Container("moof", moof), mp4_fragment_write_mfhd_atom, Container("traf", traf),
              mp4_fragment_write_tfhd_atom(index),
              IF wide THEN mp4_fragment_write_tfdt64_atom ELSE mp4_fragment_write_tfdt_atom,
              TrunAtom >>
           \o extra.atoms \o <<Container("mdat", mdat)>>,
           styp + (IF wide THEN Room(Sizeof.sidx64) ELSE Room(Sizeof.sidx)) + moof + mdat,
           moof + AtomHeader, info, extra.offset)

MoofSize(traf) == AtomHeader + Room(Sizeof.mfhd) + traf

DashHeaderOf(index, info, wide, traf) ==
    DashHeader(index, info, wide, IF job.version >= 2 THEN Sizeof.styp_v2 ELSE Sizeof.styp,
               traf, MoofSize(traf), Room(total_frame_size), ExtraAtoms(info, MoofSize(traf)))

DashHeaderWide(index, info, wide) == DashHeaderOf(index, info, wide, DashTrafSize(index, info, wide))

\* The times are 64 bits wide when the earliest one needs it
dash_packager_build_fragment_header(index, info) == DashHeaderWide(index, info, EarliestTime > UintMax)

-----------------------------------------------------------------------------
(* mss_packager.c *)

get_tfrf_atom_size(count) == Room(Sizeof.tfrf) + count * Sizeof.tfrf_entry

mss_write_tfhd_atom == Atom("tfhd", Room(Sizeof.mss_tfhd), 3 * 4)
mss_write_uuid_tfxd_atom == Atom("tfxd", Room(Sizeof.tfxd), 16 + 4 + 8 + 8)
mss_write_uuid_tfrf_atom ==
    Atom("tfrf", get_tfrf_atom_size(job.look_ahead), 16 + 4 + 1 + job.look_ahead * (8 + 8))

MssTrafSize(info) ==
    AtomHeader + Room(Sizeof.mss_tfhd) + mp4_fragment_get_trun_atom_size
      + Room(Sizeof.tfxd) + ExtraAtoms(info, 0).size
      + (IF job.look_ahead > 0 THEN get_tfrf_atom_size(job.look_ahead) ELSE 0)

MssHeader(info, traf, moof, samples, extra) ==
    Header(<< Container("moof", moof), mp4_fragment_write_mfhd_atom, Container("traf", traf),
              mss_write_tfhd_atom, TrunAtom, mss_write_uuid_tfxd_atom >>
           \o (IF job.look_ahead > 0 THEN <<mss_write_uuid_tfrf_atom>> ELSE <<>>)
           \o extra.atoms \o <<Container("mdat", Room(samples))>>,
           moof + AtomHeader + samples, moof + AtomHeader, info, extra.offset)

MssHeaderOf(info, traf) ==
    MssHeader(info, traf, MoofSize(traf), total_frame_size, ExtraAtoms(info, MoofSize(traf)))

mss_packager_build_fragment_header(info) == MssHeaderOf(info, MssTrafSize(info))

\* A segment of an encrypted presentation that is left clear names the second
\* sample description
BuildFragmentHeader(info) ==
    IF job.protocol = "mss" THEN mss_packager_build_fragment_header(info)
    ELSE dash_packager_build_fragment_header(IF job.clear_lead THEN 2 ELSE 0, info)

-----------------------------------------------------------------------------
(* mp4_cenc_passthrough.c: a fragment of files that are already encrypted  *)
(* with the key the client has *)

\* mp4_parser_parse_saiz_atom: the bytes of the auxiliary data of the frames
\* that were selected
mp4_parser_parse_saiz_atom(clip) ==
    LET first == clip.first_frame_index
        last == first + Len(clip.frames)
    IN IF clip.default # 0
       THEN [start |-> first * clip.default, end |-> last * clip.default, sizes |-> <<>>]
       ELSE [start |-> SumOf(First(clip.saiz, first)), end |-> SumOf(First(clip.saiz, last)),
             sizes |-> SubSeq(clip.saiz, first + 1, last)]

\* mp4_parser_parse_senc_atom
mp4_parser_parse_senc_atom(clip) ==
    LET range == mp4_parser_parse_saiz_atom(clip) IN AuxRange(clip.senc, range.start, range.end)

\* The source of a track without frames, or of a clear file, decrypts nothing
Decrypts(clip) == clip.key # 0 /\ clip.frames # <<>>

\* A plausible mistake: the keys are not compared
CanPassThrough_BUG ==
    LET clips == job.tracks[1].clips
    IN /\ job.encrypt
       /\ \A c \in DOMAIN clips :
            /\ Decrypts(clips[c])
            /\ clips[c].default = clips[1].default
            /\ clips[c].subsamples = clips[1].subsamples

CanPassThrough ==
    LET clips == job.tracks[1].clips
    IN /\ job.encrypt
       /\ \A c \in DOMAIN clips :
            /\ Decrypts(clips[c])
            /\ clips[c].key = job.key
            /\ clips[c].default = clips[1].default
            /\ clips[c].subsamples = clips[1].subsamples

mp4_cenc_passthrough_info ==
    LET clips == job.tracks[1].clips
        each == clips[1].default = 0
    IN AuxInfo(FlattenSeq([c \in DOMAIN clips |-> mp4_parser_parse_senc_atom(clips[c])]),
               clips[1].default, total_frame_count,
               IF each THEN FlattenSeq([c \in DOMAIN clips |-> mp4_parser_parse_saiz_atom(clips[c]).sizes]) ELSE <<>>,
               Room(Sizeof.saiz) + (IF each THEN total_frame_count ELSE 0),
               clips[1].subsamples)

=============================================================================
