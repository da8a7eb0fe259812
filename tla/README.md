# TLA+ models of nginx-vod-module

nginx-vod-module packages media files on the fly. A request is parsed and mapped
to one or more media clips; the clips are opened and read asynchronously, their
metadata is parsed, the frames of the requested segment are selected, muxed into
the output format, encrypted if need be, and sent. This directory holds TLA+ models
of the module, the TLC configurations that check them on small instances, and proofs
about the two caches, the request state machine, the subrequests, the metadata readers and
the mp4 muxer for all instances.

## Inventory

| part | source | state | operations | what is hard | what makes it correct |
|---|---|---|---|---|---|
| shared-memory buffer cache | `ngx_buffer_cache.c` | tree, used and free queues, cyclic buffer area, reference counts, reset flag, statistics | fetch, store, release, evict, expire, reset | workers run concurrently, copy outside the mutex, and may be killed anywhere; references are honoured for a few seconds only | live buffers do not overlap; a fetched buffer stays intact; tree and queues agree unless the flag says otherwise; it comes back after a kill |
| open file cache | `ngx_async_open_file_cache.c`, `ngx_file_reader.c` | tree, LRU queue, entries with counts, descriptors | lookup, hit, miss, retest, save, expire, cleanup | the cache and the disk change while a thread opens or tests a file | each descriptor has one owner and is closed once, after its last user |
| request state machine | `ngx_http_vod_module.c` | `ctx->state`, the cursor over sources and clips, the reference count of the request, what was sent | content handler, completions of opens, reads and subrequests | each call may complete at once, later, or fail, and the same handler resumes all of them | answers reach the step that asked; one complete response; the request is released once and ends |
| subrequests | `ngx_child_http_request.c` | the child, its upstream and its callback | start, header and body filter, completion, dump | upstreams that break off or are missing; a child cannot call its parent directly | the parent is called back once; the client gets the bytes that were announced |
| metadata readers | `ngx_http_vod_module.c` (`async_read`, `get_async_read_result`), `mp4_format.c`, `subtitle_format.c` | offset and size of the bytes held, what was found so far | read, prefix reuse, end of file | alignment and end-of-file arithmetic; parts that point into memory that is read into again | the parser is given the bytes of its offset; every usable file is used |
| read cache, frame sources | `vod/input/` | slots, the outstanding read, the current frame of each track | get, read completed | several tracks share a few slots | the bytes of a frame come from its offset; every read makes progress |
| mp4 muxer | `vod/mp4/mp4_muxer.c` | the current frame of each stream, the pending write | init, process | the order of frames is computed twice; suspension in the middle of a frame | a player finds every frame where the header says |
| hls muxer, mpegts encoder, output buffers | `vod/hls/`, `vod/write_buffer_queue.c` | the streams, their filters and packets, the queue of buffers | simulate, process, flush, send | streams write at different offsets of one queue; everything is computed twice, simulated and for real | what was announced is sent; a sent buffer does not change; a demultiplexer gets the streams back |
| encryption | `vod/mp4/mp4_cenc_*.c`, `mp4_cbcs_encrypt.c`, `edash_packager.c`, `mss_playready.c` | position in frame, nal unit, subsample and cipher block | write, flush, decrypt | reads split everything anywhere; sizes of headers are computed before subsamples are known | what must be encrypted is, no key stream is used twice, a player can decrypt |
| media set and segmenter | `vod/media_set_parser.c`, `vod/segmenter.c` | none between requests; the mapping and the clock move on | parse the mapping; window, list and ranges of segments | several functions cut the time line independently; live windows; rounding | a segment is served as it was listed; manifests never go back |
| request parsing, playlists and manifests | `ngx_http_vod_request_parse.c`, `vod/hls/m3u8_builder.c`, `vod/dash`, `vod/hds`, `vod/mss`, `manifest_utils.c` | none: a name carries everything | write and parse names; group tracks; reserve and write | five writers and one reader of names; two passes over a media set | a link leads to what its page says; nothing is lost; keys open segments |
| mp4 sample tables, clipper, mkv, codec headers, subtitles, audio filters | `vod/mp4/mp4_parser.c`, `vod/mkv`, `vod/*_parser.c`, `vod/filters`, ... | none between calls | pure, or a library | parsing | |
| configuration, status | `ngx_http_vod_conf.c`, `ngx_http_vod_status.c` | none | directives, formatting | | |

How they interact: the content handler of the request state machine looks
responses, mappings, DRM info and metadata up in buffer caches and stores them
there; the file reader opens through the open file cache and calls
back into the state machine when the thread pool or aio is done; remote reads,
mappings, DRM info and fallbacks are subrequests that call back in the same way.
A mapping becomes a media set, whose time line the segmenter cuts; a manifest
request is answered from it by a packager, a segment request goes through frame
sources over the read cache to a muxer or a fragment writer, and from there, possibly
through a cipher, to the client. The buffer caches are shared by all worker
processes; everything else belongs to one single-threaded worker, apart from the body
of a thread-pool task. Nothing but the caches survives a request: what one request
tells a player, a later one has to find again from the URI, the mapping and the clock.

`PROJECT.json` lists every component with what is and is not modelled, the
hazards with their lines, and the correspondence of definitions and lines.

## Modules

| module | models |
|---|---|
| `LossyCache` | what callers of the buffer cache rely on: any key may be lost at any time unless it is in use, and the bytes read are those of the key |
| `BufferCache` | `ngx_buffer_cache.c`; refines `LossyCache` |
| `BufferCacheProofs`, `BufferCacheTreeProofs`, `BufferCacheUseProofs` | the proofs about `BufferCache`, each extending the one before |
| `OpenFileCache` | `ngx_async_open_file_cache.c` and the use of its handles in `ngx_file_reader.c` |
| `OpenFileCacheProofs`, `RequestFlowProofs`, `MetadataReadProofs` | the proofs about the modules they extend |
| `ReadBufferProofs` | extends `MetadataReadProofs`: the proofs about the read buffer and the readers of the formats |
| `RequestFlow` | the state machines and handlers of `ngx_http_vod_module.c`, with readers and subrequests as they see them |
| `ChildRequest` | `ngx_child_http_request.c` with the parts of nginx that drive a subrequest |
| `MetadataRead` | extends it: `async_read`, the file reader, `mp4_format.c` and `subtitle_format.c`, and the requests that hand a file or a part of it to the client |
| `ReadCache` | `vod/input/read_cache.c` and `frames_source_cache.c`, as operators on the cache |
| `Mp4Muxer` | `vod/mp4/mp4_muxer.c` over `ReadCache`, driven by `ngx_http_vod_process_media_frames` |
| `Mp4MuxerProofs` | the proofs about `Mp4Muxer` and the operators of `ReadCache` |
| `Segmenter` | `vod/segmenter.c`, as operators |
| `MediaSet` | `vod/media_set_parser.c` over `Segmenter`: from a mapping to the answer of one request |
| `Playlists` | players, the clock and the server of the mapping over `MediaSet` |
| `RequestUri` | `ngx_http_vod_request_parse.c` and the writers of names |
| `AdaptationSets` | the grouping of tracks in `manifest_utils.c` |
| `HlsPlaylists`, `DashManifest`, `HdsManifest`, `MssManifest` | the playlists and manifests of each protocol, and the requests its submodule answers |
| `Manifests` | a player that walks through them |
| `MpegtsEncoder`, `HlsFilters` | `mpegts_encoder_filter.c` with `write_buffer_queue.c`; the filters in front of it |
| `HlsMuxer` | `hls_muxer.c` over them |
| `Ciphers`, `FragmentHeaders` | the write buffer and the cipher modes; the boxes of DASH and MSS fragments |
| `CencEncrypt`, `CencDecrypt`, `CbcsEncrypt` | `mp4_cenc_encrypt.c`, `mp4_cenc_decrypt.c`, `mp4_cbcs_encrypt.c` |
| `EncryptedFragment` | `mp4_fragment.c` and the choice of writers, composing these |
| `MC...` | symmetry sets, and the configurations, media, mappings and jobs that TLC enumerates |

In a module, a definition that ends in a suffix such as `_noFlag` or `_BUG` and is
introduced by "Mutant:" or "A plausible mistake:" is a wrong variant of the definition
that follows it. It is not part of the specification; substituting it must violate a
property.

### BufferCache

Addresses are byte offsets from the start of the entries array, as in the zone;
an entry is named by its address; the red-black tree is the set of entries it
links. `mutex`, `reset`, `rbtree`, `used_queue`, `free_queue`, `entries_end`,
`buffers_start`, `buffers_read`, `buffers_write` and `entry` are the fields of
`ngx_buffer_cache_sh_t` and of the entries; `live` is `store_ok - evicted`; `loc`
holds the locals of a worker's call and `pc` where it is; `clock` is the wall
clock and `now[p]` the time a worker has cached, which it refreshes between
event handlers only.

A store is split wherever a kill leaves a different state in shared memory
(`store_begin`, `store_expire`, `free_unlink`, `free_dequeue`, `free_account`,
`store_lookup`, `get_free_entry`, `get_free_buffer`, `find_room`,
`store_init_entry`, `store_commit`) and wherever another worker can run
(`store_copy`, `store_set_ready`, `store_unref`, after the unlock). A fetch and a
release run under the mutex and are one action each. `crash` is the death of a
worker: the master unlocks the mutex, the memory stays as it is, and a new worker
starts. `abandon` is a caller that returns without releasing its reference.
Contents are abstracted: `data` is the key whose bytes the buffer holds
completely, or `None`; a copy over the buffer of another entry ruins that
entry's data.

### OpenFileCache

The cache with the descriptors of the process is one record `c`, and the
functions of the source are operators from caches to caches; each label of
`ngx_save_open_file_to_cache` is an operator (`save_create`, `save_update`,
`save_found`, `save_failed`). A request goes through `open_miss`, `open_retest`,
`open_hit` or `open_uncached` (the event loop), `thread_stat`, `thread_open` and
`stat_failed` (the thread), `open_done` (the event loop again) and `cleanup` (its
pool is destroyed). `replace_file` is another process that gives a name another
file, `age` the end of an entry's validity. Times are abstracted to `fresh`; which
entries at the end of the queue are old enough to be dropped is nondeterministic.
The field `is_dir` of an entry made for a cached error is never initialized by
the source, so it starts with either value. `broken` records a handle closed
twice or an entry unlinked twice.

### RequestFlow

One request, from the content handler to the release of the request. `pc` is live
only inside a handler: what survives a suspension is in `ctx` (`ngx_http_vod_ctx_t`:
the machine that runs, `ctx->state`, the cursors), `src` (the clip sources), `rq`
(`ngx_http_request_t`: reference count, blocked count, what was sent) and `op`, the
outstanding operation. Each case of `ngx_http_vod_run_state_machine`,
`ngx_http_vod_state_machine_parse_metadata`, `ngx_http_vod_map_run_step` and of
the mapping machines is an action, and so is every completion callback. Calls that parse, read or send
may return each of their results at each call. `src[s].uri` records whether the
mapping that a source got was its own, `opens` and `parsed` how often it was opened
and parsed.

### ChildRequest and MetadataRead

A byte is the offset of the file it was read from, and memory is a set of blocks with
a `freed` flag, so a part of the metadata that points into a buffer that was read into
again shows the wrong offsets. `job` is the file (the order, place and size of its
atoms, or the length of a text, encrypted or not) and what is done with it. `ctx` has
the read state of `ngx_http_vod_ctx_t`, `reader` the state of the format's reader,
`st` the place in the handler. A read completes in place, in the background, or as a
subrequest, whose life is `child`, `parent` and `answer`: the upstream sends a header
and a body, sends an error page, breaks off, or is missing; the handlers
that the child puts in place of its parent's, and the two filters, are actions.
Assumed of the surroundings: nginx 1.13.10 or later (the response goes to an output
buffer), an upstream that honours `Range` and sends a `Content-Length`, aes-cbc for
subtitles only.

### ReadCache and Mp4Muxer

`ReadCache` holds no state of its own: `cache` of `Mp4Muxer` is a record of it, and
`Hits`, `ReadFromHint`, `SkipCached` and `UpToLastOffset` are the steps of
`read_cache_get_from_cache`. A buffer is the range of a source it was filled from;
its memory is a block number, which matters for joining adjacent pieces only: the
padding that `ngx_http_vod_alloc_read_buffer` asks for never fits a buffer that is
offered for reuse, so each read gets a new block.

In `Mp4Muxer` the input (streams, clips, parts, frames with offset, size and
duration; the lengths of the files) is chosen by `Init`. `assign_offset` is one round
of `mp4_calculate_output_offsets`, `init_fragment` the rest of
`mp4_muxer_init_fragment` with the start of the first frame; `frame_data` and
`no_data` are a round of `mp4_muxer_process_frames` with and without a hit, and
`read_completed` the end of a read. `mux` is `mp4_muxer_state_t`, `layout` the output
offsets and the number of truns, `wbuf` the pending write. A byte of the output is the
source and offset it was read from, with the stream whose writer it passed. `PlaceIn` is
where the search of `mp4_muxer_choose_stream` stands in a clip, and `Preferred` the stream it
chooses there. The fields of boxes other than the offsets and the number of truns are left out, and so
are allocation failures. `frames` lists the frames in the order of the trun writers.

### Segmenter, MediaSet and Playlists

`Segmenter` and `MediaSet` are operators named after the functions of the source, on
records of the fields of `media_clip_timing_t`, the segmenter configuration and the
mapping json. Loops over clips are recursive functions; loops that search for a
boundary are minima of sets. `Playlists` puts them into a world: `Tick` moves the
clock, `AddClip` and `DropClip` change the mapping as its (external) server may,
`Manifest` answers a request for a manifest and remembers what it listed in `known`,
and `Fetch`, `FetchClip`, `Thumb` and `FollowRedirect` are requests that use what an
earlier answer said. Every request parses the mapping anew; the state is only what
players remember.

### RequestUri, AdaptationSets and the manifests

A name is a sequence of tokens, each a letter and a number: what the characters spell
out, in the order in which the parser of the source accepts them. A page is the set of
links that it contains, each with its name and with what the page says is behind it
(`meant`: tracks, segment, clip), and the tags, keys and counts that matter.
`Manifests` has three actions: a player opens the entry point of a protocol (`Open`),
follows a link of the page it has (`Follow`), and is redirected (`Redirect`). The
answer of a submodule depends on the mapping, the configuration and the name alone.
`room` and `written` count the pieces that the first pass reserved space for and that
the second one wrote.

### HlsMuxer

The operators of `MpegtsEncoder` and `HlsFilters` take the state of the muxer and
return the next one; `m.enc[s]` is the encoder of a stream, `m.filt[s]` its filters,
`m.queue` the write buffer queue with the packets and `out`, what the write callback
has been given. Offsets count packets; a byte of a packet is a frame with a position in
it, or a header, marker or padding byte. `InitSegment` runs the two simulations and
starts the first frame; `Write` is a round of `hls_muxer_process` with data, `Again`
one without, which sends and suspends, and `ReadDone` the end of a read.

### EncryptedFragment

A byte is a record of its clear value and the key stream it was combined with, so
encrypting twice with the same key stream gives the clear byte back, as with the real
cipher. `fw` is `fragment_writer_state_t` with the read position, `src` the frames
source with its memory (a piece given to the client shows what is written over it
later), `enc` and `cbcs` the writers, whose steps are one round of their loops,
`sent` what the client was given. `ChooseWriter` is the choice the submodules make
(clear, encrypted with or without a single nal unit per frame, audio, passed through).
The boxes of a header are pieces with the size they declare, computed beforehand by
other code, and the size that is written. Scaled down: cipher blocks of 2 bytes, 2
blocks of counters per call, write buffers of 8 bytes. The header of a slice has the
length its type byte says, instead of the one `avc_hevc_parser.c` reads from it.

## Runs

| run | what it asks | bounds |
|---|---|---|
| `cache_ring` | does the cyclic allocator ever hand out bytes in use, give up while room can be made, or loop for ever? | one worker, 3 keys, sizes 0, 1, 3 and 12 in a zone of 12 bytes with alignment 2: room for several small buffers, for one large one, and a size that never fits; the ring wraps, fills and empties |
| `cache_locks` | do tree, queues, counts and contents stay right when two workers overlap and one is killed or leaks a reference anywhere? Does the cache implement `LossyCache`? | 2 workers, 3 keys in a zone for two, 4 seconds against expirations of 3, one loss |
| `cache_expire` | the same when entries expire and the statistics are zeroed | 2 workers, expiration of 2 of 4 seconds, no loss |
| `cache_recovery` | does the cache come back after a kill? | 2 workers, 2 keys, one loss, fairness |
| `file_names` | who owns each descriptor, which counts and entries does an open see, with overlapping requests for one name or two, cached errors, uncached opens and directories? | 2 requests, 2 entries, 2 descriptors, a cache for one entry, one replacement of a file |
| `flow` | do completions reach the right step, is the response one and complete, is the request released once, and does it end, in the three modes? | see below |
| `upstream` | does the reader get the bytes of its offset, and the client the bytes that were announced, from local files and from upstreams that fail in every way? Does every request end? | files of up to 4 atoms with sizes around the 6 bytes of the first read, text up to the limit of 12, alignment 2 |
| `mux` | does a player find every frame where the header says, does only a truncated file fail, and does the muxer end? | 2 streams, up to 4 frames of 1 or 7 bytes in every order in the file, buffers of 12 bytes, alignments 1 and 4; one file, two files, two clips, two parts; files cut off, ranges, three ways of writing |
| `playlists` | is what a player asks for, by what it was told earlier, served as it was told? Do manifests have holes or go back? | clips of 300 to 3000 ms, segments of 1000 ms and bootstrap segments of 300 to 600 ms, at most 3 clips at a time, a clock of 4 seconds, two clips added of 700 or 2500 ms; VOD, event and live with a window of either kind, continuous, discontinuous and with gaps, with key frames and clipping |
| `manifests` | does every link lead to what its page says, is every track offered, do keys open the segments, does what is written fit? | 9 mappings with up to 4 sequences, two languages, two codecs, subtitles, files whose i-frame playlist cannot be built, selections in the name; all protocols and their segment naming; VOD and live windows of one and two clips |
| `hls` | are the announced size and the i-frame ranges those of the packets that are sent, does a sent packet change, does a demultiplexer get every stream back? | video, audio and id3, frames smaller and larger than a packet of 8 bytes and than the audio buffer, reads of 1 and 3 bytes, interleaved or not, aligned or not |
| `encryption` | does a player that has the key get every frame, is everything encrypted that must be, do ivs repeat? | video with nal units and audio, AVC and HEVC nal headers in cbcs, clear and encrypted files, DASH, MSS and cbcs, one and two clips, all sizes of reads that split a frame differently |

Bounds. The buffer cache constants are scaled down together:
`CACHE_LOCK_EXPIRATION` and `ENTRY_LOCK_EXPIRATION` (5 seconds in the source) keep
their order relative to the clock's range and to `MaxLag`, the longest a handler
runs, which is below both, as the source assumes. With two workers every pair of windows overlaps; a third key
forces evictions in a zone for two; one kill suffices for each half-done state,
and the reset heals before a second would add anything new.
`flow` enumerates, per mode, what control depends on: 4 kinds of request, HEAD, up
to 2 uris, audio filtering, caches, fallback, thread pool, DRM sequences with one
key or several, upstream or file mapping, redirect, dynamic mapping, and two
media sets a mapping may return; up to 4 sources, one additional read per parser
or muxer (`MaxReads`) and the source's two stale retries. It leaves out the two
combinations listed under Disagreements.
`upstream` has the first read end before, at, inside and after each atom and header.
`mux` enumerates the order of the frames in the file: with 7 of the 12 bytes of a buffer a
large frame is split over two reads, a small one in front of it is within the quarter of
a buffer that makes the muxer read from the hint, and 4 frames need up to 4 reads, which
replace both slots. Frames are not empty, parts after the first are not empty, and
the buffer is a multiple of the alignment.
In `playlists` a clip is shorter or longer than a segment and no multiple of it, and the
clock passes the end of every clip, so windows start and end inside, at and between
clips. In `hls` a pes header, an adaptation field and a frame compete for the 8 bytes of
a packet, buffers of two packets make the queue grow, and four buffered frames fill
the ring. In `encryption` blocks, counters and write buffers are all shorter than a
frame and no multiples of each other.
`SYMMETRY` is used for invariants and the refinement, never with fairness.

Fairness. In `BufferCache`, a worker that is in a store or holds a buffer
within a handler goes on (a handler runs to its end; the mutex holder is
never descheduled for ever), refreshes its clock between handlers, and time passes.
`cache_recovery` also assumes that stores are attempted again and again: only
a store resets the cache. `crash` is not fair. In `RequestFlow` and `MetadataRead`, the
event loop runs every handler to its end and every operation that was started completes
or times out, as aio, the thread pool and nginx's upstream timeouts guarantee. In
`Mp4Muxer`, the handler runs to its end and every read completes. The remaining
specifications state safety only. `playlists`, `manifests` and
`hls` end when the last page was followed or the last packet sent, so their
configurations turn the deadlock check off.

## What the checks show

All properties of the runs hold. A property that is a conjunction of named parts says
one thing about the system, and its parts say in which ways it could fail; every
property is tied to a mutant of the code that violates it in the same run, and
`PROJECT.json` lists further mutants for the parts.

### Disagreements

Where the code and a comment or the documentation disagree, or a combination of
settings goes wrong, the runs leave the combination out, and the definition that fails
and how to see it are named here.

* **Kill during expiry** (`ngx_buffer_cache.c:446`): the reset flag is enabled "before
  we start making any changes" (:462), but evictions of expired entries happen before it.
  A worker killed there leaves an entry in the queue and not in the tree, and no
  reset follows. `StructuresAgree` fails with `Expiration = 2` and `MaxLosses = 1`.
* **Long holds** (`ngx_http_vod_module.c:2418`): a fetched buffer is protected
  from "being freed while the caller uses the buffer" for `ENTRY_LOCK_EXPIRATION`
  seconds. A progressive request keeps it across its asynchronous reads.
  `HeldBufferIntact` fails with `HoldAcrossHandlers = TRUE`.
* **Special files** (`ngx_file_reader.c:81`): the handle of a FIFO or device is closed
  although the cache entry and the pool cleanup still own it. `HandleOfUserIsOpen` fails
  with `"special"` in `Kinds`.
* **Fallback after the header** (`ngx_http_vod_module.c:4291`): for a clip with cached
  metadata the file is opened after the header and the mp4 header were sent; if it is missing the
  fallback's response is appended, although `README.md:1053` says that the request is
  forwarded. `CompleteResponse` fails with `Configurations <- CachedClip`.
* **Redirect of progressive downloads** (`ngx_http_vod_module.c:4964`): `ctx->request`
  is read although it is NULL. `NoNullRequest` fails with `Configurations <- RedirectedClip`.
* **A read that ends in an atom's header** (`mp4_format.c:164`): the file is refused
  although it is complete. `EveryLayoutServed` fails in `upstream`; `FilesReadWhole`
  excepts this case.
* **A location without an upstream** (`ngx_child_http_request.c:124`): the parent of a
  subrequest that leaves no output buffer is never called back. `Answered` excepts it.
* **Hints that bring nothing** (`read_cache.c:81`, `:96`): a read that starts at the hint of
  another track is cut where the other buffer starts. If that buffer lies between the hint and
  the frame, the frame is not read, the muxer is entered again without data, and a complete file
  is refused with "no data was handled, probably a truncated file" (`mp4_muxer.c:835`). It takes a
  file that two clips use, with frames that do not follow the order of the file.
  `FailsIfTruncated`, and so `Complete`, fails with `Jobs <- OneFileTwice` and `BufferSize = 16`.
* **I-frame playlists with id3 timestamps** (`hls_muxer.c:895`): the simulation has the id3
  frame in the first segment only, although every segment gets one (`README.md:1703`), so the
  byte ranges of later segments are off. `Id3IframeRanges` fails in `hls`.
* **Small last slice in cbcs** (`mp4_cbcs_encrypt.c:497`): a last slice of the last frame with less
  than a block after its header, or a last nal unit of one byte, never reaches the end of
  the frames, so the buffer is not flushed and the response is cut off. `CbcsPattern`
  is checked without such a slice.
* **Empty frames** (`mp4_cenc_encrypt.c:546`): a frame of size zero at the end of an encrypted
  fragment is never entered by the write loop, so the header is not written.
* **Passed-through fragments in HLS** (`ngx_http_vod_hls.c:828`): `reuse_input_buffers` stays
  on when the writer passes the frames through, so they may be overwritten before they
  are sent. DASH and MSS, which the run has, leave it off.
* **First clip without frames** (`mp4_cenc_encrypt.c:256`): after the auxiliary data of
  single nal units is computed the state returns to the first clip without looking
  for its first frame.
* **Keys and ivs in HLS** (`ngx_http_vod_hls.c:196`): with SAMPLE-AES in fragmented mp4 and no iv
  from the DRM, the init segment has iv 0 and the segments theirs; with
  `vod_hls_encryption_output_iv` and mpegts the playlist has iv 0 (`README.md:1717`).
  `KeyOpensSegments` is checked without these.
* **Live playlists**: clipping a live playlist with discontinuities, MSS on a mapping that is
  declared discontinuous, an absolute segment base time with gaps shorter than a segment
  (`README.md:493`) and `force_playlist_type_vod` on a growing mapping list segments that
  are served differently. `playlists` leaves them out, and key frames further apart than
  a segment, which give empty segments (`README.md:893`).
* **Init segments expire** (`media_set_parser.c:2635`): after `expirationTime` every request
  that names neither a segment nor a time gets a 404, so also the init segment of a clip
  that a manifest named before, although `README.md:509` says that manifests
  get it and segments "will continue to be served". `ClipsOutliveManifests` fails in `playlists`: the
  manifest is read at 6000, the media set expires at 7000, and the init segment is
  asked for then. `ClipsNamedAlike` excepts what was asked for after the expiration.
* **Only subtitles** (`m3u8_builder.c:1168`): a media set without video and audio is refused
  only if segments may be muxed (`manifest_utils.c:944`). With `vod_hls_force_unmuxed_segments` or
  SAMPLE-AES-CTR (cenc) the variant is written from the audio track that is not there. No
  presentation of `manifests` has only subtitles.
* **Names**: 32 sub-uris shift a mask by 32 (`ngx_http_vod_request_parse.c:1043`);
  `$vod_request_params` drops the ids of sequences (`README.md:1831`); MSS drops the audio of a
  lower sample rate even if it is the only one of its language (`mss_packager.c:199`, the
  exception `SlowAudio`); a thumbnail's redirect names the first sequence even if it
  has no video.

## Proofs

Every safety property of the buffer cache, the open file cache, the request state machine,
and the metadata readers with their subrequests that a run checks is also a theorem, for every
value of the constants, and so is what the mp4 muxer promises a player, except that a segment fails
only on files that end early.

| module | theorem | states | hypothesis |
|---|---|---|---|
| `BufferCacheProofs` | `TypeCorrect` | `TypeOK` | |
| | `NoOverlap` | `BuffersDisjoint` | |
| `BufferCacheTreeProofs` | `Consistency` | `StructuresAgree` | `NoKillWhileExpiring` |
| | `GivesUpOnlyIfLocked` | `RoomUnlessLocked` | `NoKillWhileExpiring`, `ZoneHoldsAnEntry` |
| `BufferCacheUseProofs` | `CountsCoverUsers` | `ReferencesCounted` | `LocksOutlastHandlers` |
| | `HeldStaysIntact` | `HeldBufferIntact` | `LocksOutlastHandlers` |
| | `Refinement` | `ImplementsLossyCache` | `LocksOutlastHandlers` |
| `OpenFileCacheProofs` | `CountsHolders` | `CountsAgree` | `NoSpecialFiles` |
| | `StructureAgrees` | `CacheAgrees` | `NoSpecialFiles` |
| | `UsersHandleIsOpen` | `HandleOfUserIsOpen` | `NoSpecialFiles` |
| | `DescriptorsOwned` | `HandlesOwned` | `NoSpecialFiles` |
| `RequestFlowProofs` | `RequestIsBalanced` | `Balanced` | |
| | `OperationsAreExpected` | `WaitsInOrder` | |
| | `SourcesAreReady` | `SourcesReady` | |
| | `ResponseIsComplete` | `CompleteResponse` | `NoFallbackAfterHeader` |
| `MetadataReadProofs` | `ClientIsServed` | `ClientServed` | |
| `ReadBufferProofs` | `OffsetsRead` | `BytesOfOffset` | |
| | `WholeFiles` | `FilesReadWhole` | |
| `Mp4MuxerProofs` | `MuxerPlays` | `PlayerView` | |
| | `MuxerSendsAnnounced` | `AnnouncedIsSent` of `Complete` | |

The named assumptions on constants (`ProcsAssumption`, `SizesAssumption`,
`TimesAssumption`, `FlowAssumption`, ...) say only that sizes, bounds and sets have their
types; TLC evaluates them. `JobsAssumption` says besides that a clip has bytes, because
`ngx_http_vod_module.c:3726` dumps no other, and that a job is a file (`IsFile`): atoms follow
each other from its start, which is what the parser takes them for, and only subtitles are
decrypted. The jobs of `Mp4Muxer` are media sets
(`IsMediaSet`): each clip has a track for every stream, and only the first part of a track may be
empty. `ReadAssumption` has the first read shorter than the limit of a text, because the
limit is 2 MB (`subtitle_format.c:27`) and `vod_initial_read_size` 4 KB by default. The hypotheses restrict a theorem to where the code is right.
Each but `ZoneHoldsAnEntry` is the negation of one of the disagreements above, where
TLC has a counterexample, and each holds of the runs that check the property:

* `NoKillWhileExpiring`: entries do not expire, or no worker is killed (*Kill during
  expiry*);
* `ZoneHoldsAnEntry`: the zone is larger than one entry;
* `LocksOutlastHandlers`: no buffer is held across handlers (*Long holds*), the workers are
  finitely many, and twice `MaxLag`, the longest that a worker's cached time lags, is
  less than the lock expirations, which are 5 seconds in the source. Once is not
  enough: an access time is as old as the cached time of the worker that wrote it,
  and the worker that compares it with its own may be ahead by the same amount;
* `NoSpecialFiles`: no name is a FIFO or a device (*Special files*);
* `NoFallbackAfterHeader`: no configuration serves clips from cached metadata
  with a fallback server (*Fallback after the header*).

### The buffer cache

`BuffersDisjoint` is not inductive, because it says nothing of the two heads, and an eviction or
an allocation is several steps. The inductive invariant `IInv` adds:

* `StoreOwner`: who is inside a store holds the mutex, so one worker changes the ring;
* `QueuesOK`: every entry is at one place of one queue;
* `HeadsOK`: the order of the entries array, the heads and the end of the zone;
* `RingOK`: `Good`, on which side of the heads a buffer may be, and `Older`, how
  the buffers of two entries lie when one was stored before the other. It
  describes the layout before and after the wrap at once, and holds when the
  write head equals the read head;
* `LocalsOK`: what the locals of an interrupted store mean at each point; in
  particular the victim of an eviction bounds the ring until the read head moves.

Kills keep `IInv` since none of it depends on the operation being finished.

`StructuresAgree` speaks of states in which nobody holds the mutex. `TInv` says what is
in the tree and that the reset flag is on from the step that finds the key missing to
the commit; `AInv` says, for every step of the critical section, which entry the tree, the
queues and the statistics do not agree about yet (`Agree(pend, gone, new)`). A kill leaves the
flag on, and a reset starts from nothing.

`UInv` is about workers that use a buffer without the mutex: the entry they use is still
linked, under their key, at their address, and was accessed within `MaxLag` of their
time. So whoever wants to free it finds it locked, and whoever wants to reset the zone
waits. The refinement follows step by step: the abstract cache holds the keys of
complete linked entries, and an entry that is freed or reset is a loss.

### The open file cache

`CacheOK(d, h, w)` says that a cache is in order when `h[i]` requests hold entry `i` and
requests own the descriptors `w` themselves. The functions of the source are operators on
caches, and there is one lemma per function: it takes a cache in order to one in order,
and says how `h` and `w` change. `IInv` adds what each request knows of the entry or the
descriptor that it has between its steps; a step of one request keeps what the
others know because their entries have a holder, and nothing closes an entry that has one.

### The request state machine

`IInv` says for each place at which the event loop may find the request (at the start, in
a handler, waiting for an operation, at the end) what is true of the configuration, the
context, the sources and the request. For a mapping machine it is `MapOK`: the sources are
listed once each (`Apart`), those before the cursor have their own uri, none was opened.
For the main machine it is `MainOK`: what it was started with (`Settled`), which states the
kind of request allows (`PositionOK`), which DRM infos were parsed (`DrmOK`), and for the source at each position
how often it was opened and parsed, given `ctx->state` and the cursor (`SourceAt`).
`ResponseOK` says what was sent. The predicates take the context and the sources as
parameters, so that a handler, which changes the context several times before it
returns, is followed value by value; `ContinueStep`, `SuspendStep`, `ReturnStep` and `DumpStep`
are the four ways to return.

### Subrequests and their clients

`ClientServed` is about the end of a request, long after the child and its upstream have
done what matters. `IInv` of `MetadataReadProofs` says for each kind of request what holds
on the way. The child of a clip has only forwarded bytes of the range, in order and
from its start, or an error page (`ClipChild`); so the size check at the end is
enough. The child of a request that was handed on is at `running` until the header,
afterwards the header was sent, or could not be sent, or need not be, and at the end the
same holds or there is an error code (`ProxyChild`); `HeaderOrError` concludes
that the code is `OK` exactly if the client has its header. A read of the module never
carries the client's conditions (`Unconditional`). Files, ranges, headers of clients
and statuses of upstreams are arbitrary: records are only known to have their
fields, of whatever values.

### The read buffers

A byte of a block is the offset it was read from, and blocks are used again, so `BytesOfOffset`
needs the whole way of a range. `BInv` follows it: asked for (`BufferOK`: the buffer has room for
the range and the null, its start is kept for the prefix; `PrefixOK`: the prefix, which is in another
block, is the start of the range), being read from the file or by a child (`ReadingOK`,
`ReadChild`), read (`GotOK`: the bytes are there, or the file ended) and handed on (`HandedOK`).
The arithmetic of alignment, prefix and end of file is in lemmas of its own; those about the
memory say which bytes of which block a step changes.

Where the reader is in the file is the other half. `SearchAt(k)` says that the search stands at
the start of the atom `k`, that no atom before it is a moov with data, and that the attempts that
are left are at most as many as the atoms that were passed; a round of the search is one atom
further at least, by a lemma that says what `parse_atoms` finds in a part of a file that starts
with an atom (`Found`). A file is refused only when it is bad (`BadJob`) or where a header is cut
off (`CutAt`). That rests on `Before`: as long as the moov has not ended, the file may not end, so a
read without a byte, which is an error, means a file that is cut off. The least atom with a
property is found by well-founded induction on numbers (`LeastOf`), in place of an induction over
the list of atoms.

### The mp4 muxer

`PlayerView` compares two passes over the frames that are far apart in time. `MuxInv` is about a
*run*: the places `run[0 .. n]` of the muxer and the offsets `off[0 .. n]` of their frames in
the output, each place the one that `mp4_muxer_choose_stream` leads to from the place before. The
first pass makes the run longer by a frame per round (`RunExtended`) and writes its offsets into
`layout` (`InLayout`). The second starts at `run[0]` again, because the reset leaves no trace of the
first pass that the choice depends on (`SamePlace`), and stands at one of the places of the run
whenever it is suspended (`AtFrame`): `SameTake` says that two states at the same place choose the
same frame. `Right` says of the bytes that were written and of the piece that is
pending (`Written`) that they are the bytes of the frames of the run, up to the current offset in the
current frame.

That a frame has one offset, whatever clip, part or stream it is in, is `PlaceFacts`: a cursor
of clip, part and frame stands for a number of frames passed, where the end of a part and the start
of the next one are the same number. It rests on what `FlattenSeq` computes (`FlattenFacts`).

The bytes come from the cache. `CacheOK` says that the buffers start at aligned offsets and are
different blocks of memory; `ReadIs`, that a read which succeeds returns bytes of the offset it was
asked for; `PendingOK`, that a piece which waits to be written is still in its block, because
the muxer flushes before a read replaces one. A miss chooses a range that fits its buffer and
does not overlap the other one (`MissOK`, `Awaits`), which is what `ReadsUseful` asks.

`AnnouncedIsSent` adds `SentInv` to this. The trun counter of the first pass is the number of
frames that do not follow the one before in their stream (`TrunsStep`), which is what the writers of the
boxes count (`TrunsAgree`), so the check of the header's size never fails. What was written or waits
ends within the frame at hand (`WithinFrame`), so it is never longer than announced. When no
frame is left, the muxer stands at `run[n]` (`AllSent`) and the last frame was the end of
its part (`NoFrameLeft`), so nothing waits and the whole segment was written.

### Only model-checked

Liveness (`StoreTerminates`, `ResetHeals`, `Ends`, `Answered`, ...) is out of the prover's
reach, and so are what recursive operators compute (`HlsFilters`, `HlsMuxer` and what
depends on them). `FailsIfTruncated`, the other part of `Complete` of `Mp4Muxer`, and the safety
properties of `Playlists`, `Manifests`, `HlsMuxer` and `EncryptedFragment` are not proved.
`FailsIfTruncated` is false for the files under *Hints that bring nothing*, so a proof has to say in
which order the frames are in a file.

The proofs changed four modules. In three, a `CASE` with overlapping guards has an unspecified
value for the prover, where TLC takes the first. `ngx_close_cached_file`, `GroupKey` and
`default_reader` now test in the order of the source. `Mp4Muxer` has operators on a stream of
the muxer (`NextPart`, `NextFrame`, `Preferred`) where it had nested updates and a fold.

## Not modelled

* The mp4 sample tables and the clipper (`mp4_parser.c`, `mp4_clipper.c`), codec headers, subtitle
  text, json syntax: parsing of bytes without state between calls, in which nearly all
  of the code is about the layout of its input.
* `vod/mkv`: the format is not registered in `media_formats`.
* The audio filters, the volume map and the thumbnail grabber are wrappers of libavcodec
  and libavfilter; the ciphers are external functions with the properties of the real
  ones.
* Configuration and status pages: no state after start-up.
* Within the modelled files: kqueue events, `disable_symlinks` and directio of the
  open file cache, a file that is renamed away and back while it is retested (each
  replacement is a new file); the layout of cache keys and stored buffers, and the
  statistics other than the number of items; multi uris and the parameters after a
  name; notifications, closed captions and the limits on numbers of clips in the
  media set parser; accurate segment durations; the wording, bit rates and drm tags
  of manifests; the sample-aes filters and aes-cbc of mpegts, PMT contents and cache
  hints; `skip_frames` of the decryptor; init segments and HDS fragments; allocation
  failures in the muxers and writers, and those of `RequestFlow` that come after a
  subrequest was started (the copy of its headers). `RequestFlow` takes the kind of a source
  (local or remote) from the configuration; a mapping that mixes them is not followed.

## Plan

1. Proofs about `Mp4Muxer`: `FailsIfTruncated`, for files in which the frames of a stream are in
   order.
2. Proofs about `HlsMuxer`, as far as its operators allow: `SentStays`, a packet that was
   handed to the client is not written again.
3. Lemmas about operators: the boundaries of `Segmenter` grow with the index.
4. Models still worth adding: the sample-table iterators of the mp4 parser against a
   reference, the audio filter's suspension over `ReadCache`, and HDS fragments.
