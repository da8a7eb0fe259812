---------------------------- MODULE MCManifests -----------------------------
EXTENDS Manifests

T(uid, seq, type, n, codec, label, bitrate, dim) ==
    [uid |-> uid, seq |-> seq, type |-> type, n |-> n, codec |-> codec, label |-> label,
     bitrate |-> bitrate, dim |-> dim, key_frame_bitrate |-> 40000, nal_packet_size_length |-> 4]

S(id, tracks) == [id |-> id, tracks |-> tracks]

M(json, sequences) == [json |-> json, sequences |-> sequences]

V(uid, seq, codec) == T(uid, seq, "v", 1, codec, "", 500000, 360)
A(uid, seq, n, codec, label) == T(uid, seq, "a", n, codec, label, 64000, 44100)
Sub(uid, seq, label) == T(uid, seq, "s", 1, "webvtt", label, 100, 0)

\* one file with a video and an audio
OneFile == M(FALSE, << S("", << V("v1", 1, "avc"), A("a1", 1, 1, "aac", "") >>) >>)

\* qualities, the audio of two languages in files of their own, subtitles
Languages(json, id) ==
    M(json, << S("", << T("v1", 1, "v", 1, "avc", "", 500000, 360) >>),
               S(id, << T("v2", 2, "v", 1, "hevc", "", 900000, 720), A("a1", 2, 1, "aac", "eng") >>),
               S("", << A("a2", 3, 1, "aac", "fra"), A("a3", 3, 2, "ac3", "fra") >>),
               S("", << Sub("s1", 4, "eng") >>) >>)

\* two videos that look the same, one of them with short nal unit lengths, and the
\* same audio with and without a label
Twins(json) ==
    M(json, << S("", << T("v1", 1, "v", 1, "avc", "", 500000, 360), A("a1", 1, 1, "aac", "") >>),
               S("", << [T("v2", 2, "v", 1, "avc", "", 501000, 360) EXCEPT !.nal_packet_size_length = 2],
                        A("a2", 2, 1, "aac", "eng") >>),
               S("", << T("a3", 3, "a", 1, "aac", "fra", 64500, 44100),
                        T("a4", 3, "a", 2, "mp3", "fra", 128000, 22050) >>) >>)

\* a file that does not list its key frames
Unlisted == M(TRUE, << S("", << [V("v1", 1, "avc") EXCEPT !.key_frame_bitrate = 0], A("a1", 1, 1, "aac", "") >>) >>)

AudioOnly == M(TRUE, << S("", << A("a1", 1, 1, "aac", "eng") >>),
                        S("x", << A("a2", 2, 1, "mp3", "") >>) >>)

Webm == M(TRUE, << S("", << V("v1", 1, "vp9"), A("a1", 1, 1, "opus", "") >>),
                   S("", << V("v2", 2, "avc"), A("a2", 2, 1, "aac", "") >>) >>)

W(first, clips, initial, disc, live, relative) ==
    [first |-> first, clips |-> clips, initial_clip |-> initial, use_discontinuity |-> disc, live |-> live,
     relative |-> relative]

Vod == W(1, << 2 >>, 1, FALSE, FALSE, 0)
VodClips == W(1, << 2, 1 >>, 1, TRUE, FALSE, 0)
VodUnnamed == W(1, << 1, 2 >>, None, TRUE, FALSE, 0)
Live == W(4, << 3, 2 >>, 3, FALSE, TRUE, 0)
LiveClips == W(7, << 1, 2 >>, 3, TRUE, TRUE, 2)

H(container, encryption, unmuxed, base, drm_iv, redirect) ==
    [protocol |-> "hls", container |-> container, encryption |-> encryption, force_unmuxed |-> unmuxed,
     base |-> base, drm_iv |-> drm_iv, output_iv |-> FALSE, redirect |-> redirect]

D(format, subtitles, base, drm, redirect) ==
    [protocol |-> "dash", format |-> format, subtitles |-> subtitles, base |-> base, drm |-> drm,
     threshold |-> 4096, redirect |-> redirect]

Mss(redirect) == [protocol |-> "mss", threshold |-> 4096, segment_duration |-> 1000, redirect |-> redirect]
Hds == [protocol |-> "hds", redirect |-> FALSE]
Thumb == [protocol |-> "thumb", redirect |-> FALSE]

Plain == {OneFile, Languages(TRUE, ""), Languages(FALSE, ""), Twins(TRUE), Twins(FALSE), AudioOnly}

MCPresentations ==
    [mapping : Plain \cup {Languages(TRUE, "hd"), Unlisted},
     conf : {H("auto", "none", FALSE, "", FALSE, FALSE), H("mpegts", "none", FALSE, "host", FALSE, FALSE),
             H("mpegts", "aes128", FALSE, "host", FALSE, FALSE),
             H("fmp4", "aes128", TRUE, "", FALSE, FALSE), H("fmp4", "sample_aes", FALSE, "", TRUE, FALSE),
             H("auto", "cenc", FALSE, "host", TRUE, FALSE), H("mpegts", "sample_aes", FALSE, "", FALSE, FALSE)},
     window : {Vod, LiveClips}]
      \cup [mapping : Plain \ {AudioOnly}, conf : {H("auto", "none", FALSE, "", FALSE, TRUE)}, window : {Live}]
      \cup [mapping : Plain \cup {Webm},
            conf : {D("template", "webvtt", "", "none", FALSE), D("timeline", "smpte", "", "each", TRUE),
                    D("list", "webvtt", "host", "single", FALSE)},
            window : {Vod, VodClips, VodUnnamed, Live, LiveClips}]
      \cup [mapping : Plain, conf : {Mss(FALSE), Mss(TRUE)}, window : {Vod, Live}]
      \cup [mapping : Plain, conf : {Hds}, window : {Vod, VodClips, Live, LiveClips}]
      \cup [mapping : {Twins(TRUE), OneFile}, conf : {Thumb}, window : {Vod}]

MCEntries == {<< >>, << Token("f", 1) >>, << Token("v", 1) >>, << Token("f", 1), Token("f", 3), Token("a", 1) >>}
=============================================================================
