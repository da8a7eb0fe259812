------------------------------- MODULE Ciphers -------------------------------
(***************************************************************************)
(* What the writers of encrypted fragments share: the buffer that collects *)
(* their output, the counter mode of common encryption and the chained     *)
(* blocks of cbcs.                                                         *)
(*                                                                         *)
(* A byte is a record: b is its clear value, ks the key stream it was      *)
(* combined with (empty when it is clear).  Counter mode gives the stream  *)
(* <<key, iv, block, offset>>; a chained block gives <<key, link, offset>>,*)
(* where the link is the iv or the first byte of the block before.         *)
(*                                                                         *)
(* A writer is a record w with the fields buf and size (the buffer's       *)
(* content and capacity, 0 when there is no buffer), tail (what was given  *)
(* to write_tail), rc, and the fields of its cipher.                       *)
(***************************************************************************)
EXTENDS Integers, Sequences, SequencesExt

CONSTANTS
    BlockSize,          \* AES_BLOCK_SIZE
    CounterBlocks,      \* the blocks of MP4_AES_CTR_COUNTER_BUFFER_SIZE
    WriteBufferSize,    \* WRITE_BUFFER_SIZE
    MinAllocSize        \* MIN_ALLOC_SIZE

ASSUME CiphersAssumption ==
    /\ {BlockSize, CounterBlocks, WriteBufferSize, MinAllocSize} \subseteq Nat \ {0}
    /\ MinAllocSize <= WriteBufferSize

Clear(value) == [b |-> value, ks |-> <<>>]

\* The same key stream twice gives the clear byte again
Crypt(byte, k) == [byte EXCEPT !.ks = IF @ = k THEN <<>> ELSE @ \o k]

First(s, n) == SubSeq(s, 1, n)
After(s, n) == SubSeq(s, n + 1, Len(s))

\* A loop whose body leaves x alone when it has ended
Repeat(Body(_), n, x) == FoldLeft(LAMBDA y, i : Body(y), x, [i \in 1 .. n |-> i])

Fail(w, rc) == [w EXCEPT !.rc = rc]

-----------------------------------------------------------------------------
(* write_buffer.c, with reuse_buffers FALSE *)

write_buffer_flush(w, reallocate) ==
    [w EXCEPT !.tail = @ \o w.buf,
              !.buf = <<>>,
              !.size = IF reallocate THEN WriteBufferSize ELSE 0]

CheckRoom(w, min_size) == IF min_size > w.size THEN Fail(w, "UNEXPECTED") ELSE w

write_buffer_get_bytes(w, min_size) ==
    CheckRoom(IF Len(w.buf) + min_size > w.size THEN write_buffer_flush(w, TRUE) ELSE w, min_size)

Put(w, bytes) == [w EXCEPT !.buf = @ \o bytes]

\* As much of left as there is room for
CopyInto(w, left) ==
    LET n == Min({Len(left), w.size - Len(w.buf)})
    IN [w |-> Put(w, First(left, n)), left |-> After(left, n)]

CopyPart(c) ==
    IF c.left = <<>> THEN c
    ELSE CopyInto(IF Len(c.w.buf) = c.w.size THEN write_buffer_flush(c.w, TRUE) ELSE c.w, c.left)

write_buffer_write(w, bytes) == Repeat(CopyPart, Len(bytes), [w |-> w, left |-> bytes]).w

-----------------------------------------------------------------------------
(* mp4_aes_ctr.c *)

mp4_aes_ctr_init(key) == [key |-> key, iv |-> 0, counter |-> 0, encrypted |-> <<>>]

mp4_aes_ctr_set_iv(cipher, iv) ==
    [cipher EXCEPT !.iv = iv, !.counter = 0, !.encrypted = <<>>]

\* aes_round_up_to_block_exact
RoundUp(n) == ((n + BlockSize - 1) \div BlockSize) * BlockSize

\* A plausible mistake: the counter moves by one block whatever was encrypted
EncryptCounters_BUG(cipher, n) ==
    LET size == Min({RoundUp(n), CounterBlocks * BlockSize})
    IN [cipher EXCEPT
          !.encrypted = [i \in 1 .. size |-> << cipher.key, cipher.iv,
                                                cipher.counter + ((i - 1) \div BlockSize),
                                                (i - 1) % BlockSize >>],
          !.counter = @ + 1]

\* The counters for up to n bytes, as many as the counter buffer holds, are
\* encrypted together; the first one of the next time follows the last of them
EncryptCounters(cipher, n) ==
    LET size == Min({RoundUp(n), CounterBlocks * BlockSize})
    IN [cipher EXCEPT
          !.encrypted = [i \in 1 .. size |-> << cipher.key, cipher.iv,
                                                cipher.counter + ((i - 1) \div BlockSize),
                                                (i - 1) % BlockSize >>],
          !.counter = @ + (size \div BlockSize)]

UseCounters(p, cipher) ==
    LET n == Min({Len(p.src), Len(cipher.encrypted)})
    IN [cipher |-> [cipher EXCEPT !.encrypted = After(@, n)],
        src |-> After(p.src, n),
        dest |-> p.dest \o [i \in 1 .. n |-> Crypt(p.src[i], cipher.encrypted[i])]]

ProcessPart(p) ==
    IF p.src = <<>> THEN p
    ELSE UseCounters(p, IF p.cipher.encrypted = <<>> THEN EncryptCounters(p.cipher, Len(p.src)) ELSE p.cipher)

\* [cipher, dest] after all of src
mp4_aes_ctr_process(cipher, src) ==
    Repeat(ProcessPart, Len(src), [cipher |-> cipher, src |-> src, dest |-> <<>>])

PutEncrypted(w, p) == [Put(w, p.dest) EXCEPT !.cipher = p.cipher]

EncryptInto(w, left) ==
    LET n == Min({Len(left), w.size - Len(w.buf)})
    IN [w |-> PutEncrypted(w, mp4_aes_ctr_process(w.cipher, First(left, n))), left |-> After(left, n)]

EncryptPart(c) ==
    IF c.left = <<>> THEN c ELSE EncryptInto(write_buffer_get_bytes(c.w, MinAllocSize), c.left)

mp4_aes_ctr_write_encrypted(w, bytes) ==
    Repeat(EncryptPart, Len(bytes), [w |-> w, left |-> bytes]).w

-----------------------------------------------------------------------------
(* The chained cipher, EVP_aes_128_cbc: it keeps the bytes that do not yet *)
(* make a block *)

EVP_EncryptInit(w) == [w EXCEPT !.cipher.link = w.iv, !.cipher.kept = <<>>]

EVP_EncryptUpdate(cipher, src) ==
    LET all == cipher.kept \o src
        size == (Len(all) \div BlockSize) * BlockSize
        block(i) == ((i - 1) \div BlockSize) * BlockSize
        link(i) == IF block(i) = 0 THEN cipher.link ELSE all[block(i) - BlockSize + 1].b
    IN [cipher |-> [cipher EXCEPT !.kept = After(all, size),
                                  !.link = IF size = 0 THEN @ ELSE all[size - BlockSize + 1].b],
        out |-> [i \in 1 .. size |-> Crypt(all[i], <<cipher.key, link(i), (i - 1) % BlockSize>>)]]

=============================================================================
