---------------------------- MODULE MCPlaylists -----------------------------
(* Small playlists. *)
EXTENDS Playlists

MCConf(policy, window, bootstrap) ==
    [segment_duration |-> 1000, bootstrap_segments |-> bootstrap, segment_count_policy |-> policy,
     live_window_duration |-> window, gop_look_behind |-> 500, gop_look_ahead |-> 500]

MCLive(discontinuity, base, durations) ==
    [playlist_type |-> "live", discontinuity |-> discontinuity, durations |-> durations, clip_times |-> <<>>,
     first_clip_time |-> 5300, segment_base_time |-> base, initial_segment_index |-> 3,
     initial_clip_index |-> 7, first_clip_start_offset |-> 0, presentation_end_time |-> NONE,
     expiration_time |-> NONE, live_window_duration |-> 0]

MCVod(discontinuity, durations) ==
    [MCLive(discontinuity, RELATIVE, durations) EXCEPT !.playlist_type = "vod"]

MCGop(first, step) == [first |-> first, step |-> step]
MCClip(from, to) == [from |-> from, to |-> to]
MCScenario(confs, protocols, clippings, gops, mappings) ==
    [conf : confs, flags : protocols, clipping : clippings, gop : gops, mapping : mappings]

Whole == MCClip(0, 1000000)
Short(window) == MCConf("last_short", window, <<>>)
Continuous == MCLive(FALSE, 5000, <<1700>>)
Sequential == MCLive(TRUE, RELATIVE, <<1700>>)
Absolute == [MCLive(TRUE, 5000, <<1700>>) EXCEPT !.clip_times = <<5300>>]
Ending(m) == [m EXCEPT !.presentation_end_time = 8000, !.expiration_time = 7000]
HLS == {}
MSS == {"no_discontinuity", "look_ahead"}
None == MCGop(0, 0)

MCScenarios ==
    MCScenario({Short(2000), Short(-3000), Short(0)}, {HLS}, {Whole}, {None, MCGop(0, 400), MCGop(200, 700)}, {Sequential, Absolute})
    \cup MCScenario({Short(2000), Short(-3000)}, {HLS, MSS}, {Whole, MCClip(6500, 1000000), MCClip(5900, 8100)}, {None, MCGop(0, 400)}, {Continuous})
    \cup MCScenario({Short(2000), Short(-3000)}, {HLS}, {Whole}, {None, MCGop(0, 400)}, {Ending(Continuous), Ending(Sequential), [Sequential EXCEPT !.playlist_type = "event"]})
    \cup MCScenario({Short(0), MCConf("last_long", 0, <<400, 600>>), MCConf("last_rounded", 0, <<300>>)}, {HLS, MSS, {"force_playlist_type_vod"}}, {Whole, MCClip(600, 2200), MCClip(1800, 4000)}, {None, MCGop(0, 400), MCGop(0,700)}, {MCVod(TRUE, <<1700, 900>>), MCVod(FALSE, <<300, 3000>>)})
MCThumbOffsets == {1800}
MCClipLengths == {700, 2500}

=============================================================================
