---------------------------- MODULE MetadataRead ----------------------------
(***************************************************************************)
(* How a request gets the metadata of a source file, or hands a part of    *)
(* the file to the client (ngx_http_vod_module.c), over a local file       *)
(* (ngx_file_reader.c) or a remote one (ngx_child_http_request.c).         *)
(*                                                                         *)
(* The reader of the format (mp4_format.c, subtitle_format.c) parses what  *)
(* was read and asks for another range until it has everything; the        *)
(* request aligns the range, reuses what it has of it, and keeps the       *)
(* results in memory that the reader's parts point to.                     *)
(*                                                                         *)
(* A byte is the offset of the file it was read from; Garbage is memory    *)
(* that was not written.                                                   *)
(***************************************************************************)
EXTENDS ChildRequest, FiniteSets

CONSTANTS
    Jobs,               \* the files and requests: see Job
    InitialReadSize,    \* vod_initial_read_size
    Padding,            \* VOD_BUFFER_PADDING_SIZE
    MaxMetadataSize,    \* vod_max_metadata_size
    MaxMoovStartReads,  \* MAX_MOOV_START_READS
    SubtitleLimit,      \* size_limit of the subtitle reader
    DirectioAlignment,  \* directio_alignment
    AtomHeader,         \* ATOM_HEADER_SIZE; a 64 bit size takes as much again
    AesBlock            \* AES_BLOCK_SIZE

ASSUME ReadAssumption ==
    /\ {InitialReadSize, Padding, DirectioAlignment, AtomHeader, AesBlock} \subseteq Nat \ {0}
    /\ {MaxMetadataSize, MaxMoovStartReads, SubtitleLimit} \subseteq Nat
    /\ InitialReadSize % DirectioAlignment = 0
    /\ InitialReadSize < SubtitleLimit
Atom == [name: STRING, at: Nat, hdr: Nat, size: Nat]

\* What the client of the parent asks for.
Client == [headers: SUBSET STRING, from: Nat, to: Nat]

\* A source file, and what the request does with it: it reads its metadata (mp4, text), sends
\* the range from .. to (clip), or hands the request to the upstream (proxy).
Job == [kind: {"mp4", "text", "clip", "proxy"}, transport: {"file", "http"}, client: Client,
        atoms: Seq(Atom), length: Nat, plain: Nat, from: Nat, to: Nat, uncompressed: Nat,
        encrypted: BOOLEAN, compressed: BOOLEAN, zlib_ok: BOOLEAN]

DataAt(a) == a.at + a.hdr
EndOf(a) == a.at + a.hdr + a.size

\* The atoms of a file follow each other from its start; only a text can be encrypted.
IsFile(j) ==
    /\ \A i \in DOMAIN j.atoms : /\ j.atoms[i].at = IF i = 1 THEN 0 ELSE EndOf(j.atoms[i - 1])
                                 /\ j.atoms[i].hdr > 0
    /\ IF j.encrypted THEN j.kind = "text" ELSE j.plain = j.length

\* A clip without bytes behind its header is not dumped.
ASSUME JobsAssumption ==
    /\ Jobs \subseteq Job
    /\ \A j \in Jobs : IsFile(j) /\ (j.kind = "clip" => j.from < j.to)

VARIABLES
    job,    \* the file and what the request does with it: constant
    mem,    \* the blocks of the request's pool
    ctx,    \* the read state of ngx_http_vod_ctx_t
    reader, \* metadata_reader_context
    st      \* where the request is, and the buffer handed to the reader

vars == <<job, mem, ctx, reader, st, childVars>>

Garbage == -1
NULL == -1
NoBuf == [blk |-> 0, start |-> NULL, pos |-> 0, last |-> 0, end |-> 0]
Buffered(b) == b.last - b.pos
Larger(a, b) == IF a > b THEN a ELSE b

\* ngx_http_vod_get_alloc_params
Alignment == IF job.transport = "http" THEN 1 ELSE DirectioAlignment
AllocExtraSize == IF job.transport = "http" THEN MaxHeadersSize + 1 ELSE 0

-----------------------------------------------------------------------------
(* The file *)

\* What AES-CBC adds: the file on disk holds the plain text and 1 to AesBlock bytes of padding.
Encrypted(length) == length + AesBlock - (length % AesBlock)

-----------------------------------------------------------------------------
(* mp4_parser_parse_atoms, without validation, on the n bytes at offset o of the file *)

\* The atoms whose header is in the buffer; the last one may overflow it.
parse_atoms(o, n) ==
    {i \in DOMAIN job.atoms : job.atoms[i].at >= o /\ job.atoms[i].at + job.atoms[i].hdr <= o + n}

\* mp4_parser_find_atom_callback: the atom, or else where the next one starts.
find_atom(name, o, n) ==
    LET seen == parse_atoms(o, n)
        hits == {i \in seen : job.atoms[i].name = name}
        first == CHOOSE i \in hits : \A j \in hits : i <= j
        last == CHOOSE i \in seen : \A j \in seen : j <= i
    IN  IF seen = {} THEN [found |-> FALSE, at |-> NULL, size |-> 0]
        ELSE IF hits # {} THEN [found |-> TRUE, at |-> DataAt(job.atoms[first]) - o,
                                size |-> job.atoms[first].size]
        ELSE [found |-> FALSE, at |-> EndOf(job.atoms[last]) - o, size |-> 0]

-----------------------------------------------------------------------------
(* ngx_http_vod_alloc_read_buffer *)

NewBlock(size) == [bytes |-> [i \in 0 .. size - 1 |-> Garbage], freed |-> FALSE]

\* Mutant: a buffer is used again whatever its size.
BufferFits_any(b, size) == b.start # NULL

\* "no buffer", "buffer too small", "buffer not conforming to alignment"
BufferFits(b, size) ==
    b.start # NULL /\ b.start + size <= b.end /\ b.start % Alignment = 0

alloc_read_buffer(b, size) ==
    LET need == size + Padding
    IN  IF BufferFits(b, need)
        THEN [mem |-> mem, buf |-> [b EXCEPT !.pos = b.start, !.last = b.start]]
        ELSE [mem |-> Append(mem, NewBlock(need)),
              buf |-> [blk |-> Len(mem) + 1, start |-> 0, pos |-> 0, last |-> 0, end |-> need]]

-----------------------------------------------------------------------------
(* ngx_http_vod_async_read *)

\* "already reached the end of file and read offset is after the previous one"
NothingToRead(req) ==
    req.read_offset >= ctx.read_offset /\ Buffered(ctx.read_buffer) < ctx.read_size

AlignDown(n) == n - (n % Alignment)
AlignUp(n) == AlignDown(n + Alignment - 1)

\* Mutant: the part of the range before the requested offset is not counted.
ReadSize_unshifted(req) ==
    AlignUp(IF req.read_size = 0 THEN InitialReadSize ELSE req.read_size)

ReadSize(req) ==
    AlignUp(IF req.read_size = 0 THEN InitialReadSize
            ELSE req.read_size + req.read_offset - AlignDown(req.read_offset))

\* How much of the new range the current buffer ends with.
PrefixSize(offset) ==
    LET end == ctx.read_offset + Buffered(ctx.read_buffer)
    IN  IF ctx.read_buffer.start # NULL /\ offset >= ctx.read_offset /\ offset < end
        THEN end - offset ELSE 0

\* The state of the read and the range that is read.
async_read(req) ==
    LET offset == AlignDown(req.read_offset)
        size == ReadSize(req)
        prefix == PrefixSize(offset)
        kept == IF prefix > 0
                THEN [ctx.read_buffer EXCEPT !.pos = ctx.read_buffer.last - prefix]
                ELSE ctx.prefix_buffer
        a == alloc_read_buffer(IF prefix > 0 THEN NoBuf ELSE ctx.read_buffer, size + AllocExtraSize)
        shift == IF kept.start # NULL THEN prefix ELSE 0
    IN  [mem |-> a.mem,
         ctx |-> [ctx EXCEPT
            !.read_buffer = [a.buf EXCEPT !.start = @ + shift, !.pos = @ + shift, !.last = @ + shift],
            !.prefix_buffer = kept, !.read_offset = offset, !.requested_offset = req.read_offset,
            !.read_size = size, !.allow_empty = req.allow_empty],
         from |-> offset + prefix, to |-> offset + size]

\* The reader of the source is called: a local file is read in place or in the background,
\* a remote one by a child.
start_read(r) ==
    /\ mem' = r.mem
    /\ ctx' = r.ctx
    /\ IF job.transport = "http"
       THEN /\ started(Ask(TRUE, TRUE, r.from, r.to, r.ctx.read_buffer.end - r.ctx.read_buffer.last,
                            FALSE), job.client)
            /\ st' = [st EXCEPT !.pc = "child"]
       ELSE \E pc \in {"read", "aio"} :
              st' = [st EXCEPT !.pc = pc, !.from = r.from, !.to = r.to]
            /\ UNCHANGED childVars

\* STATE_READ_METADATA_OPEN_FILE: the head of the file is read.
read_file_header ==
    /\ st.pc = "open"
    /\ LET a == alloc_read_buffer(ctx.read_buffer, InitialReadSize + AllocExtraSize)
       IN  start_read([mem |-> a.mem, from |-> 0, to |-> InitialReadSize,
                       ctx |-> [ctx EXCEPT !.read_buffer = a.buf, !.read_offset = 0,
                                           !.read_size = InitialReadSize,
                                           !.requested_offset = 0, !.allow_empty = TRUE]])
    /\ UNCHANGED <<job, reader>>

-----------------------------------------------------------------------------
(* The end of a read *)

finalize(rc) == st' = [st EXCEPT !.pc = "finalized", !.rc = rc]

\* The bytes are in the block, and the buffer ends after them.
Filled(bytes) ==
    LET b == ctx.read_buffer
    IN  [mem EXCEPT ![b.blk].bytes =
            [i \in DOMAIN @ |-> IF i \in b.last .. b.last + Len(bytes) - 1
                                THEN bytes[i - b.last + 1] ELSE @[i]]]

\* Mutant: an empty read is always an error.
EmptyReadAllowed_never == FALSE

\* MEDIA_READ_FLAG_ALLOW_EMPTY_READ
EmptyReadAllowed == ctx.allow_empty

\* ngx_http_vod_handle_read_completed in STATE_READ_METADATA_READ.
handle_read_completed(rc, bytes) ==
    /\ mem' = Filled(bytes)
    /\ ctx' = [ctx EXCEPT !.read_buffer.last = @ + Len(bytes)]
    /\ IF rc # OK THEN finalize(rc)
       ELSE IF bytes = <<>> /\ ~EmptyReadAllowed THEN finalize("bad_data")
       ELSE st' = [st EXCEPT !.pc = "result"]

FileBytes == Range(Smaller(st.from, job.length), Smaller(st.to, job.length))

\* ngx_async_file_read in place: the state machine goes on, an empty read included.
read_in_place ==
    /\ st.pc = "read"
    /\ \/ /\ mem' = Filled(FileBytes)
          /\ ctx' = [ctx EXCEPT !.read_buffer.last = @ + Len(FileBytes)]
          /\ st' = [st EXCEPT !.pc = "result"]
       \/ finalize("read_error") /\ UNCHANGED <<mem, ctx>>
    /\ UNCHANGED <<job, reader, childVars>>

\* ngx_async_read_completed_callback
async_read_completed ==
    /\ st.pc = "aio"
    /\ \/ handle_read_completed(OK, FileBytes)
       \/ handle_read_completed("read_error", <<>>)
    /\ UNCHANGED <<job, reader, childVars>>

\* The child calls back.
http_read_completed ==
    /\ st.pc = "child"
    /\ notify_caller
    /\ handle_read_completed(answer'.rc, answer'.bytes)
    /\ UNCHANGED <<job, reader>>

-----------------------------------------------------------------------------
(* ngx_http_vod_get_async_read_result *)

\* The memory after the prefix was put in front of what was read.
Prepended(b, p) ==
    LET size == Buffered(p)
    IN  [mem EXCEPT ![b.blk].bytes =
            [i \in DOMAIN @ |-> IF i \in b.pos - size .. b.pos - 1
                                THEN mem[p.blk].bytes[i - b.pos + p.last] ELSE @[i]],
                    ![p.blk].freed = TRUE]

\* Mutant: the last block is always taken for the end of the file.
FinalBlock_always(n) == TRUE

\* "if (buffer_size < ctx->read_size)": EVP_DecryptFinal_ex
FinalBlock(n) == n < ctx.read_size

\* What EVP_DecryptUpdate and EVP_DecryptFinal_ex give for n bytes: the last block is held
\* back until the end is known, which removes the padding.
Decrypted(n) ==
    IF ~FinalBlock(n) THEN [ok |-> TRUE, len |-> Larger(0, ((n - 1) \div AesBlock) * AesBlock)]
    ELSE [ok |-> n = Encrypted(job.plain), len |-> job.plain]

\* ngx_http_vod_decrypt_read_buffer: a new block with the plain text, where a byte is the
\* offset in the plain text.
decrypt_read_buffer(m, b) ==
    LET d == Decrypted(Buffered(b))
        valid == \A i \in 0 .. Buffered(b) - 1 : m[b.blk].bytes[b.pos + i] = i
        block == [NewBlock(Buffered(b) + AesBlock + 1) EXCEPT
                    !.bytes = [i \in DOMAIN @ |-> IF i < d.len /\ valid THEN i ELSE Garbage]]
    IN  IF ctx.read_offset # 0 THEN [rc |-> "unexpected", mem |-> m]
        ELSE IF ~d.ok THEN [rc |-> "bad_data", mem |-> m]
        ELSE [rc |-> OK, mem |-> Append(m, block), blk |-> Len(m) + 1, at |-> 0, len |-> d.len]

\* "not enough room for null terminator"
plain_read_buffer(m, b) ==
    IF b.last >= b.end THEN [rc |-> "unexpected", mem |-> m]
    ELSE [rc |-> OK, mem |-> m, blk |-> b.blk, at |-> b.pos, len |-> Buffered(b)]

get_async_read_result ==
    /\ st.pc = "result"
    /\ LET p == ctx.prefix_buffer
           n == IF p.start # NULL THEN Buffered(p) ELSE 0
           b == [ctx.read_buffer EXCEPT !.start = @ - n, !.pos = @ - n]
           m == IF p.start # NULL THEN Prepended(ctx.read_buffer, p) ELSE mem
           r == IF job.encrypted THEN decrypt_read_buffer(m, b) ELSE plain_read_buffer(m, b)
           skip == ctx.requested_offset - ctx.read_offset
       IN  /\ ctx' = [ctx EXCEPT !.read_buffer = b, !.prefix_buffer = NoBuf]
           /\ mem' = r.mem
           /\ IF r.rc # OK THEN finalize(r.rc)
              ELSE IF r.len < skip THEN finalize("bad_data")
              ELSE st' = [st EXCEPT !.pc = "parse", !.blk = r.blk, !.at = r.at + skip,
                                    !.len = r.len - skip]
    /\ UNCHANGED <<job, reader, childVars>>

-----------------------------------------------------------------------------
(* The readers of the formats: one call of read_metadata *)

\* "issue another read request"
ask_for(req, r) ==
    /\ reader' = r
    /\ IF NothingToRead(req)
       THEN /\ ctx' = [ctx EXCEPT !.requested_offset = req.read_offset]
            /\ st' = [st EXCEPT !.pc = "result"]
            /\ UNCHANGED <<mem, childVars>>
       ELSE \E r1 \in {async_read(req)} : start_read(r1)

read_done(r) ==
    /\ reader' = r
    /\ st' = [st EXCEPT !.pc = "done"]
    /\ UNCHANGED <<mem, ctx, childVars>>

read_failed(rc) ==
    /\ finalize(rc)
    /\ UNCHANGED <<mem, ctx, reader, childVars>>

ReadReq(offset, size, allow_empty) ==
    [read_offset |-> offset, read_size |-> size, allow_empty |-> allow_empty]

PartAt(from, len) == [blk |-> st.blk, at |-> st.at + from, len |-> len]

NoPart == [blk |-> 0, at |-> 0, len |-> 0]

\* A copy in memory of its own.
Copied(from, len) == [len |-> len, bytes |-> [i \in 1 .. len |-> mem[st.blk].bytes[st.at + from + i - 1]]]

\* mp4_parser_uncompress_moov: a compressed moov is uncompressed to a block of its own.
MoovFails == job.compressed /\ (~job.zlib_ok \/ job.uncompressed > MaxMetadataSize)

\* ngx_http_vod_identify_format
identify_format ==
    /\ st.pc = "parse" /\ reader.state = "none"
    /\ IF job.kind = "mp4" /\ \A i \in parse_atoms(0, st.len) :
                                 job.atoms[i].name \notin {"ftyp", "moov", "mdat"}
       THEN read_failed("bad_data")
       ELSE /\ reader' = [reader EXCEPT
                    !.state = IF job.kind = "mp4" THEN "moov_header" ELSE "first_time",
                    !.moov_start_reads = MaxMoovStartReads]
            /\ UNCHANGED <<st, mem, ctx, childVars>>
    /\ UNCHANGED job

\* done:
moov_read(r, offset, size) ==
    IF MoovFails THEN read_failed("bad_data")
    ELSE read_done([r EXCEPT !.state = "done",
                             !.moov = IF job.compressed THEN [NoPart EXCEPT !.len = job.uncompressed]
                                      ELSE PartAt(offset, size)])

\* Mutant: the next attempt starts behind the buffer.
MoovStart_buffer(moov) == st.len

\* Where the header of the moov is looked for next: behind the last atom.
MoovStart(moov) == moov.at

\* mp4_metadata_reader_read in STATE_READ_MOOV_HEADER
read_moov_header ==
    /\ st.pc = "parse" /\ reader.state = "moov_header"
    /\ \E ftyp \in {find_atom("ftyp", ctx.requested_offset, st.len)},
          moov \in {find_atom("moov", ctx.requested_offset, st.len)} :
         LET r == IF reader.ftyp.len = 0 /\ ftyp.size > 0 /\ ftyp.at + ftyp.size <= st.len
                  THEN [reader EXCEPT !.ftyp = Copied(ftyp.at, ftyp.size)]
                  ELSE reader
         IN  IF moov.at = NULL THEN read_failed("bad_data")
             ELSE IF moov.size = 0
             THEN IF moov.at < st.len \/ reader.moov_start_reads = 0 THEN read_failed("bad_data")
                  ELSE ask_for(ReadReq(ctx.requested_offset + MoovStart(moov), 0, FALSE),
                               [r EXCEPT !.moov_start_reads = @ - 1])
             ELSE IF moov.at + moov.size <= st.len THEN moov_read(r, moov.at, moov.size)
             ELSE IF moov.size > MaxMetadataSize THEN read_failed("bad_data")
             ELSE ask_for(ReadReq(ctx.requested_offset + moov.at, moov.size, FALSE),
                          [r EXCEPT !.state = "moov_data", !.moov.len = moov.size])
    /\ UNCHANGED job

\* Mutant: a part of the moov is enough.
MoovComplete_any == TRUE

\* "make sure we got the whole moov atom"
MoovComplete == st.len >= reader.moov.len

read_moov_data ==
    /\ st.pc = "parse" /\ reader.state = "moov_data"
    /\ IF MoovComplete THEN moov_read(reader, 0, reader.moov.len) ELSE read_failed("bad_data")
    /\ UNCHANGED job

\* subtitle_reader_read
subtitle_read ==
    /\ st.pc = "parse" /\ reader.state \in {"first_time", "second_time"}
    /\ IF reader.state = "first_time"
       THEN ask_for(ReadReq(0, SubtitleLimit, TRUE), [reader EXCEPT !.state = "second_time"])
       ELSE read_done([reader EXCEPT !.state = "done", !.text = PartAt(0, st.len)])
    /\ UNCHANGED job

-----------------------------------------------------------------------------
(* Parts of the file for the client *)

\* ngx_http_vod_dump_http_part: the header of the clip was sent.
dump_http_part ==
    /\ st.pc = "dump" /\ job.transport = "http"
    /\ started(Ask(FALSE, TRUE, job.from, job.to, 0, FALSE), job.client)
    /\ st' = [st EXCEPT !.pc = "dumping"]
    /\ UNCHANGED <<job, mem, ctx, reader>>

\* ngx_file_reader_dump_file_part
dump_file_part ==
    /\ st.pc = "dump" /\ job.transport = "file"
    /\ IF job.to > job.length THEN finalize("not_found") /\ UNCHANGED parent
       ELSE /\ finalize(OK)
            /\ parent' = [parent EXCEPT !.forwarded = Range(job.from, job.to)]
    /\ UNCHANGED <<job, mem, ctx, reader, child, answer>>

\* Mutant: the size of the response is not compared with the size of the part.
PartComplete_any(bytes) == TRUE

\* "read size %z different than expected %z, probably a truncated file"
PartComplete(bytes) == Len(bytes) = job.to - job.from

\* ngx_http_vod_handle_read_completed in STATE_DUMP_FILE_PART
dump_completed ==
    /\ st.pc = "dumping"
    /\ notify_caller
    /\ finalize(IF answer'.rc # OK THEN answer'.rc
                ELSE IF ~PartComplete(answer'.bytes) THEN "bad_data" ELSE OK)
    /\ UNCHANGED <<job, mem, ctx, reader>>

\* ngx_http_vod_dump_http_request: the request is handed to the upstream as it is.
dump_http_request ==
    /\ st.pc = "proxy"
    /\ started(Ask(FALSE, FALSE, 0, 0, 0, TRUE), job.client)
    /\ st' = [st EXCEPT !.pc = "proxied"]
    /\ UNCHANGED <<job, mem, ctx, reader>>

dump_finished ==
    /\ st.pc = "proxied"
    /\ finalize_parent
    /\ finalize(answer'.rc)
    /\ UNCHANGED <<job, mem, ctx, reader>>

-----------------------------------------------------------------------------

UpstreamSteps ==
    /\ \/ initial_wev_handler
       \/ header_filter(Smaller(child.to, job.length) - Smaller(child.from, job.length))
       \/ body_received
       \/ finished_handler
       \/ no_output_buffer
    /\ UNCHANGED <<job, mem, ctx, reader, st>>

Finished ==
    /\ st.pc \in {"done", "finalized"} \/ child.state = "lost"
    /\ UNCHANGED vars

Steps ==
    \/ read_file_header \/ read_in_place \/ async_read_completed \/ http_read_completed
    \/ get_async_read_result \/ identify_format \/ read_moov_header \/ read_moov_data
    \/ subtitle_read
    \/ dump_http_part \/ dump_file_part \/ dump_completed \/ dump_http_request \/ dump_finished
    \/ UpstreamSteps

Next == Steps \/ Finished

\* The request for a job.
InitJob(j) ==
    /\ job = j
    /\ mem = <<>>
    /\ ctx = [read_offset |-> 0, requested_offset |-> 0, read_size |-> 0, allow_empty |-> FALSE,
              read_buffer |-> NoBuf, prefix_buffer |-> NoBuf]
    /\ reader = [state |-> "none", moov_start_reads |-> 0, ftyp |-> [len |-> 0, bytes |-> <<>>], moov |-> NoPart,
                 text |-> NoPart]
    /\ st = [pc |-> CASE j.kind = "clip" -> "dump" [] j.kind = "proxy" -> "proxy" [] OTHER -> "open",
             rc |-> OK, from |-> 0, to |-> 0, blk |-> 0, at |-> 0, len |-> 0]
    /\ child = NoChild /\ answer = NoAnswer
    /\ parent = [NoParent EXCEPT !.header_sent = j.kind = "clip"]

Init == \E j \in Jobs : InitJob(j)

\* Under fairness: nginx runs the requests that are posted, files and upstreams answer or time
\* out.
Spec == Init /\ [][Next]_vars /\ WF_vars(Steps)

-----------------------------------------------------------------------------
(* Properties *)

\* The bytes of the file from an offset are at a place in memory that was not freed.
Holds(blk, at, len, offset) ==
    /\ ~mem[blk].freed
    /\ \A i \in 0 .. len - 1 : mem[blk].bytes[at + i] = offset + i

\* The moov of the file: the first one that is not empty.
IsMoov(a) == a.name = "moov" /\ a.size > 0
MoovIndexes == {i \in DOMAIN job.atoms : /\ IsMoov(job.atoms[i])
                                         /\ \A k \in 1 .. i - 1 : ~IsMoov(job.atoms[k])}
Moovs == {job.atoms[i] : i \in MoovIndexes}
AtomStarts == {0} \cup {EndOf(job.atoms[i]) : i \in DOMAIN job.atoms}

\* The reader is handed the bytes of the offset it asked for, whatever was aligned, kept of
\* the buffer before, skipped at the end of the file or decrypted on the way; the mp4 reader
\* only ever parses from where an atom starts, or the moov's data; and each range of the file is
\* read into its own place of the buffer, with room for the terminating null.
BytesOfOffset ==
    /\ st.pc = "parse" =>
        /\ Holds(st.blk, st.at, st.len, ctx.requested_offset)
        /\ job.kind = "mp4" => ctx.requested_offset \in IF reader.state = "moov_data"
                                                       THEN {DataAt(a) : a \in Moovs} ELSE AtomStarts
    /\ st.pc \in {"read", "aio"} =>
        st.from < st.to /\ ctx.read_buffer.last + st.to - st.from < ctx.read_buffer.end
    /\ st.pc = "child" => ctx.read_buffer.last + Len(child.body) < ctx.read_buffer.end

\* The file cannot be used: no moov or not all of it, too large, too far behind, behind an empty
\* one, in a file that starts with another atom than the format's, not to be uncompressed, or
\* a text that was cut off before it was stored.
BadFile ==
    \/ job.kind = "mp4" /\ \/ \A a \in Moovs : EndOf(a) > job.length
                           \/ \E a \in Moovs : a.size > MaxMetadataSize
                           \/ \E i \in MoovIndexes : i > MaxMoovStartReads + 1
                           \/ \E i \in DOMAIN job.atoms : job.atoms[i].name = "moov" /\ job.atoms[i].size = 0
                           \/ job.atoms[1].name \notin {"ftyp", "moov", "mdat"}
                           \/ MoovFails
    \/ job.encrypted /\ job.length # Encrypted(job.plain)

\* What was read ends within the header of an atom ("moov start offset %O is smaller than the
\* buffer size"): the reader gives up although the file is complete.
HeaderCutOff ==
    \E i \in DOMAIN job.atoms :
        /\ job.atoms[i].at < ctx.requested_offset + st.len
        /\ DataAt(job.atoms[i]) > ctx.requested_offset + st.len

\* The reader gave up.
Refused == st.pc = "finalized" /\ st.rc \in {"bad_data", "unexpected"} /\ job.kind \in {"mp4", "text"}

\* A file that can be used is used: unless a read or the upstream fails, or a read ends within
\* the header of an atom, only a file that cannot be used is refused; and what is parsed in the
\* end, and stored in the metadata cache, is the whole moov of the file and its ftyp if it was
\* seen, or the whole text of the subtitles up to the limit, in memory that still belongs to
\* the request.
FilesReadWhole ==
    /\ Refused => BadFile \/ HeaderCutOff
    /\ st.pc = "done" =>
        CASE job.kind = "mp4" ->
                /\ \A a \in Moovs : ~job.compressed =>
                     /\ reader.moov.len = a.size
                     /\ Holds(reader.moov.blk, reader.moov.at, a.size, DataAt(a))
                /\ reader.ftyp.len > 0 => \E i \in DOMAIN job.atoms :
                     /\ job.atoms[i].name = "ftyp" /\ job.atoms[i].size = reader.ftyp.len
                     /\ \A k \in 1 .. reader.ftyp.len :
                            reader.ftyp.bytes[k] = DataAt(job.atoms[i]) + k - 1
          [] OTHER ->
                /\ Holds(reader.text.blk, reader.text.at, reader.text.len, 0)
                /\ reader.text.len >= Smaller(job.plain, SubtitleLimit - AesBlock)

\* A complete file whose moov is within the limits is served, wherever its atoms lie.  It is
\* not where HeaderCutOff holds.
EveryLayoutServed == Refused => BadFile

\* A clip whose request ends well was sent all the bytes that its header has announced, and the
\* bytes of its range unless the upstream sent an error page of that size.  A request that is
\* handed to the upstream gets one header: the upstream's, or that of the error the request is
\* finalized with, unless the upstream sent none.  And a read of the module is never answered
\* with "not modified": the client's conditions are not those of the read.
ClientServed ==
    /\ st.pc = "finalized" /\ st.rc = OK /\ job.kind = "clip" =>
        /\ Len(parent.forwarded) = job.to - job.from
        /\ child.status # 500 => parent.forwarded = Range(job.from, job.to)
    /\ st.pc = "finalized" /\ job.kind = "proxy" =>
        (st.rc = OK <=> (parent.header_sent \/ child.dont_send_header))
    /\ child.status = 304 => job.kind = "proxy"

\* Every request ends, unless its location has no upstream.
Answered == <>(st.pc \in {"done", "finalized"} \/ (child.state = "lost" /\ ~child.upstream))
=============================================================================
