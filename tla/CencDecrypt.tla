----------------------------- MODULE CencDecrypt -----------------------------
(***************************************************************************)
(* mp4_cenc_decrypt.c: the frames source that decrypts the frames of an    *)
(* encrypted file, over the one that reads them from the read cache.       *)
(*                                                                         *)
(* src.mem holds every buffer that was read into or decrypted into, and a  *)
(* read returns a piece of one of them: whoever keeps a piece sees what is *)
(* written over it later.                                                  *)
(***************************************************************************)
EXTENDS CencEncrypt

CONSTANTS
    OutputSize,     \* BUFFER_SIZE without the padding
    MinOutput       \* MIN_BUFFER_SIZE

ASSUME DecryptAssumption == OutputSize \in Nat /\ MinOutput \in Nat /\ MinOutput < OutputSize

VARIABLE src

Piece(buf, from, size) == [buf |-> buf, from |-> from, size |-> size]
NoPiece == Piece(0, 1, 0)

BytesOf(mem, piece) ==
    IF piece.size = 0 THEN <<>> ELSE SubSeq(mem[piece.buf], piece.from, piece.from + piece.size - 1)

-----------------------------------------------------------------------------
(* frames_source_cache.c: unread is what the cache holds of the file after *)
(* the frames' current offset *)

frames_source_cache_start_frame(s, size) == [s EXCEPT !.frame_left = size]

\* read_cache_get_from_cache finds something
Cached(s) == s.unread.size > 0

frames_source_cache_read(s) ==
    LET n == Min({s.unread.size, s.frame_left})
    IN [s EXCEPT !.piece = Piece(s.unread.buf, s.unread.from, n),
                 !.unread = Piece(@.buf, @.from + n, @.size - n),
                 !.frame_left = @ - n,
                 !.frame_done = n = s.frame_left]

\* The next bytes of the file arrive in the cache's buffer, or in a new one
\* when those that were given away must stay
FileArrives(s, bytes) ==
    LET again == s.cache_reuse /\ s.cache_buf # 0
        buf == IF again THEN s.cache_buf ELSE Len(s.mem) + 1
    IN [s EXCEPT !.mem = IF again THEN [@ EXCEPT ![buf] = bytes \o After(@, Len(bytes))] ELSE Append(@, bytes),
                 !.cache_buf = buf,
                 !.unread = Piece(buf, 1, Len(bytes)),
                 !.offset = @ + Len(bytes)]

-----------------------------------------------------------------------------
(* The decrypting source *)

\* The source of a clip: created with the clip, used when its turn comes
mp4_cenc_decrypt_init(s, clip) ==
    [s EXCEPT !.decrypts = Decrypts(clip) /\ job.writer # "passthrough",
              !.cipher = mp4_aes_ctr_init(clip.key),
              !.info = IF Decrypts(clip) THEN mp4_parser_parse_senc_atom(clip) ELSE <<>>,
              !.use_subsamples = clip.subsamples,
              !.subsample_count = 0, !.clear_bytes = 0, !.encrypted_bytes = 0,
              !.reuse_buffers = TRUE,
              !.input = NoPiece, !.output = 0, !.output_pos = 0,
              !.unread = NoPiece, !.offset = 0, !.frame_left = 0]

mp4_cenc_decrypt_start_frame(s, size) ==
    LET f == [frames_source_cache_start_frame(s, size) EXCEPT
                !.cipher = mp4_aes_ctr_set_iv(@, s.info[1].x)]
    IN IF s.info = <<>> THEN Fail(s, "BAD_DATA")
       ELSE IF ~ s.use_subsamples
       THEN [f EXCEPT !.encrypted_bytes = UintMax, !.info = After(@, 1)]
       ELSE IF Len(s.info) < 3 \/ s.info[2].x = 0 THEN Fail(f, "BAD_DATA")
       ELSE [f EXCEPT !.subsample_count = s.info[2].x - 1,
                      !.clear_bytes = s.info[3].x,
                      !.encrypted_bytes = s.info[3].y,
                      !.info = After(@, 3)]

NextSubsample(s) ==
    IF s.clear_bytes > 0 \/ s.encrypted_bytes > 0 THEN s
    ELSE IF s.subsample_count = 0 \/ s.info = <<>> THEN Fail(s, "BAD_DATA")
    ELSE [s EXCEPT !.subsample_count = @ - 1, !.clear_bytes = s.info[1].x,
                   !.encrypted_bytes = s.info[1].y, !.info = After(@, 1)]

\* A plausible mistake: a subsample's clear bytes are fed to the cipher too
DecryptPart_BUG(p) ==
    LET s == NextSubsample(p.s)
        clear == Min({s.clear_bytes, Len(p.left)})
        hidden == Min({s.encrypted_bytes, Len(p.left) - clear})
        all == mp4_aes_ctr_process(s.cipher, First(p.left, clear + hidden))
    IN IF p.left = <<>> \/ p.s.rc # "OK" THEN p
       ELSE IF s.rc # "OK" THEN [p EXCEPT !.s = s]
       ELSE [s |-> [s EXCEPT !.cipher = all.cipher, !.clear_bytes = @ - clear,
                             !.encrypted_bytes = @ - hidden],
             left |-> After(p.left, clear + hidden),
             out |-> p.out \o First(p.left, clear) \o After(all.dest, clear)]

Decrypt(p, s, clear, hidden, c) ==
    [s |-> [s EXCEPT !.cipher = c.cipher, !.clear_bytes = @ - clear, !.encrypted_bytes = @ - hidden],
     left |-> After(p.left, clear + hidden),
     out |-> p.out \o First(p.left, clear) \o c.dest]

DecryptSubsample(p, s) ==
    LET clear == Min({s.clear_bytes, Len(p.left)})
        hidden == Min({s.encrypted_bytes, Len(p.left) - clear})
    IN IF s.rc # "OK" THEN [p EXCEPT !.s = s]
       ELSE Decrypt(p, s, clear, hidden,
                    mp4_aes_ctr_process(s.cipher, SubSeq(p.left, clear + 1, clear + hidden)))

\* A round of mp4_cenc_decrypt_process: the clear bytes of a subsample and
\* then its encrypted ones
DecryptPart(p) ==
    IF p.left = <<>> \/ p.s.rc # "OK" THEN p ELSE DecryptSubsample(p, NextSubsample(p.s))

PutOutput(p) ==
    LET s == p.s
    IN [s EXCEPT !.mem[s.output] = First(@, s.output_pos) \o p.out \o After(@, s.output_pos + Len(p.out)),
                 !.output_pos = @ + Len(p.out)]

\* bytes are decrypted to the output buffer, at output_pos
mp4_cenc_decrypt_process(s, bytes) ==
    PutOutput(Repeat(DecryptPart, Len(bytes), [s |-> s, left |-> bytes, out |-> <<>>]))

\* Output space: a new buffer, or the start of the old one when what it holds
\* was used up by the one who read it
OutputSpace(s) ==
    IF s.output # 0 /\ s.output_pos + MinOutput < OutputSize THEN s
    ELSE IF s.reuse_buffers /\ s.output # 0 THEN [s EXCEPT !.output_pos = 0]
    ELSE [s EXCEPT !.mem = Append(@, <<>>), !.output = Len(s.mem) + 1, !.output_pos = 0]

KeepInput(s) == [s EXCEPT !.input = s.piece, !.input_done = s.frame_done]

\* As much of the input as there is room for
DecryptInput(s, n) ==
    [mp4_cenc_decrypt_process([s EXCEPT !.input = Piece(@.buf, @.from + n, @.size - n)],
                              First(BytesOf(s.mem, s.input), n)) EXCEPT
        !.piece = Piece(s.output, s.output_pos + 1, n),
        !.frame_done = s.input.size = n /\ s.input_done]

DecryptRoom(s) == DecryptInput(s, Min({OutputSize - s.output_pos, s.input.size}))

ReadInput(s) == DecryptRoom(IF s.input.size > 0 THEN s ELSE KeepInput(frames_source_cache_read(s)))

\* Called when something can be read
mp4_cenc_decrypt_read(s) == ReadInput(OutputSpace(s))

-----------------------------------------------------------------------------
(* Either source *)

SourceStartFrame(s, size) ==
    IF s.decrypts THEN mp4_cenc_decrypt_start_frame(s, size)
    ELSE frames_source_cache_start_frame(s, size)

CanRead(s) == Cached(s) \/ (s.decrypts /\ s.input.size > 0)

SourceRead(s) ==
    IF s.decrypts THEN mp4_cenc_decrypt_read(s) ELSE frames_source_cache_read(s)

\* A plausible mistake: the decrypting source goes on with its buffer
disable_buffer_reuse_BUG(s) == [s EXCEPT !.cache_reuse = FALSE]

\* mp4_cenc_decrypt_disable_buffer_reuse, or the one of the cache
disable_buffer_reuse(s) ==
    IF s.decrypts THEN [s EXCEPT !.reuse_buffers = FALSE] ELSE [s EXCEPT !.cache_reuse = FALSE]

\* Before the first clip
NoSource ==
    [mem |-> <<>>, cache_reuse |-> TRUE, cache_buf |-> 0, unread |-> NoPiece, offset |-> 0,
     frame_left |-> 0, piece |-> NoPiece, frame_done |-> FALSE, rc |-> "OK",
     decrypts |-> FALSE, cipher |-> mp4_aes_ctr_init(0), info |-> <<>>, use_subsamples |-> FALSE,
     subsample_count |-> 0, clear_bytes |-> 0, encrypted_bytes |-> 0, reuse_buffers |-> TRUE,
     input |-> NoPiece, input_done |-> FALSE, output |-> 0, output_pos |-> 0]

=============================================================================
