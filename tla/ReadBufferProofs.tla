-------------------------- MODULE ReadBufferProofs --------------------------
(***************************************************************************)
(* Proofs about MetadataRead for all files and sizes: the reader of a      *)
(* format is handed the bytes it asked for, and ends with the whole moov   *)
(* of an mp4 or the whole text of the subtitles.                           *)
(*                                                                         *)
(* The invariant follows the buffers of a request from the place where a   *)
(* range is asked for, over the file or the child that reads it, to the    *)
(* place where it is parsed, and with them where the reader is in the file.*)
(***************************************************************************)
EXTENDS MetadataReadProofs, WellFoundedInduction

-----------------------------------------------------------------------------
(* What is known of the state *)

BlockRec(V) == [bytes: V, freed: V]
IsMemory(m) == \E V : m \in Seq(BlockRec(V))

Buf == [blk: Int, start: Int, pos: Int, last: Int, end: Int]
CtxT == [read_offset: Nat, requested_offset: Nat, read_size: Nat, allow_empty: BOOLEAN,
         read_buffer: Buf, prefix_buffer: Buf]

PartRec(V) == [blk: V, at: V, len: V]
ReaderRec(V) == [state: V, moov_start_reads: V, ftyp: V, moov: PartRec(V), text: V]
IsReader(r) == \E V : r \in ReaderRec(V)

-----------------------------------------------------------------------------
(* The file *)

\* Where an atom starts, its data start and end; where the atom k starts, or the file ends.
AtOf(j, i) == j.atoms[i].at
DataOf(j, i) == DataAt(j.atoms[i])
StopOf(j, i) == EndOf(j.atoms[i])
SizeOf(j, i) == j.atoms[i].size
StartOf(j, k) == IF k = 1 THEN 0 ELSE StopOf(j, k - 1)

\* The first moov that is not empty.
NameOf(j, i) == j.atoms[i].name
MoovAt(j, i) == NameOf(j, i) = "moov" /\ SizeOf(j, i) > 0
FirstMoov(j) == {i \in DOMAIN j.atoms : MoovAt(j, i) /\ \A k \in 1 .. i - 1 : ~MoovAt(j, k)}

\* The atoms whose headers are between two offsets.
SeenAtoms(j, o, e) == {i \in DOMAIN j.atoms : AtOf(j, i) >= o /\ DataOf(j, i) <= e}

\* The moov, if there is one, ends behind an offset.
Before(j, offset) == \A i \in FirstMoov(j) : offset < StopOf(j, i)

CannotUncompress(j) == j.compressed /\ (~j.zlib_ok \/ j.uncompressed > MaxMetadataSize)

BadMp4(j) ==
    \/ Before(j, j.length)
    \/ \E i \in FirstMoov(j) : SizeOf(j, i) > MaxMetadataSize
    \/ \E i \in FirstMoov(j) : i > MaxMoovStartReads + 1
    \/ \E i \in DOMAIN j.atoms : NameOf(j, i) = "moov" /\ SizeOf(j, i) = 0
    \/ NameOf(j, 1) \notin {"ftyp", "moov", "mdat"}
    \/ CannotUncompress(j)

BadJob(j) == \/ j.kind = "mp4" /\ BadMp4(j)
             \/ j.encrypted /\ j.length # Encrypted(j.plain)

\* A header of an atom is cut off at an offset.
CutAt(j, offset) == \E i \in DOMAIN j.atoms : AtOf(j, i) < offset /\ offset < DataOf(j, i)

-----------------------------------------------------------------------------
(* The invariant *)

\* A block that belongs to the request, with the bytes 0 .. n - 1.
HasBlock(m, blk, n) ==
    blk \in 1 .. Len(m) /\ m[blk].freed = FALSE /\ DOMAIN m[blk].bytes = 0 .. n - 1

\* The n bytes at a place of a block are those of the file from an offset.
HeldAt(m, blk, at, n, offset) == \A i \in 0 .. n - 1 : m[blk].bytes[at + i] = offset + i

\* How many bytes the prefix has.
PreLen(c) == IF c.prefix_buffer.start # NULL THEN Buffered(c.prefix_buffer) ELSE 0

\* The end of what was read, and of what was asked for.
ReadEnd(c) == c.read_offset + c.read_buffer.last
AskedEnd(c) == c.read_offset + c.read_size

\* The buffer has room for the range and the null behind it, and for the prefix in front.
BufferOK(m, c) ==
    /\ HasBlock(m, c.read_buffer.blk, c.read_buffer.end)
    /\ c.read_buffer.start = PreLen(c) /\ c.read_buffer.pos = PreLen(c)
    /\ 0 <= PreLen(c) /\ PreLen(c) <= c.read_buffer.last
    /\ c.read_buffer.last <= c.read_size /\ c.read_size < c.read_buffer.end
    /\ c.read_offset <= c.requested_offset

\* The prefix is the start of the range.
PrefixOK(m, c) ==
    \/ c.prefix_buffer = NoBuf
    \/ /\ c.prefix_buffer.blk \in 1 .. Len(m) /\ c.prefix_buffer.blk # c.read_buffer.blk
       /\ c.prefix_buffer.start # NULL
       /\ HeldAt(m, c.prefix_buffer.blk, c.prefix_buffer.pos, Buffered(c.prefix_buffer),
                 c.read_offset)

\* A range is being read: there is something to read, from before the end of the moov.
ReadingOK(j, c) ==
    /\ c.read_buffer.last = c.read_buffer.start /\ c.read_buffer.start < c.read_size
    /\ c.requested_offset < AskedEnd(c)
    /\ c.allow_empty \/ j.kind = "mp4"
    /\ j.kind = "mp4" => Before(j, ReadEnd(c))
    /\ j.kind = "text" => c.read_buffer.start <= j.length

\* A range was read.
GotOK(j, m, c) ==
    /\ HeldAt(m, c.read_buffer.blk, c.read_buffer.pos, Buffered(c.read_buffer),
              c.read_offset + PreLen(c))
    /\ c.read_buffer.last < c.read_size => j.length <= ReadEnd(c)
    /\ c.requested_offset < AskedEnd(c) \/ c.read_buffer.last < c.read_size
    /\ j.kind = "text" => c.read_buffer.last <= j.length

\* A range is handed to the reader.
HandedOK(j, m, c, s) ==
    /\ c.prefix_buffer = NoBuf
    /\ s.blk \in 1 .. Len(m) /\ m[s.blk].freed = FALSE /\ s.at \in Int /\ s.len \in Nat
    /\ HeldAt(m, s.blk, s.at, s.len, c.requested_offset)
    /\ ~j.encrypted => c.requested_offset + s.len = ReadEnd(c)
    /\ j.encrypted => IF c.read_buffer.last < c.read_size THEN s.len = j.plain
                      ELSE s.len >= c.read_size - AesBlock

\* The moov is looked for from the atom k, the number of attempts is at most that of the atoms.
SearchAt(j, c, r, k) ==
    /\ k \in 1 .. Len(j.atoms) + 1 /\ c.requested_offset = StartOf(j, k)
    /\ \A i \in 1 .. k - 1 : ~MoovAt(j, i)
    /\ r.moov_start_reads \in Nat /\ k + r.moov_start_reads > MaxMoovStartReads

\* The range ends at an offset at least, or all of the file was read.
Reaches(c, pc, offset) ==
    \/ offset <= AskedEnd(c)
    \/ pc \in {"result", "parse"} /\ c.read_buffer.last < c.read_size

FtypOK(j, r) ==
    /\ r.ftyp.len \in Nat
    /\ r.ftyp.len > 0 => \E i \in DOMAIN j.atoms :
         /\ NameOf(j, i) = "ftyp" /\ SizeOf(j, i) = r.ftyp.len
         /\ \A k \in 1 .. r.ftyp.len : r.ftyp.bytes[k] = DataOf(j, i) + k - 1

\* Where the reader is in the file.
Mp4Reader(j, c, r, pc) ==
    /\ r.state \in {"none", "moov_header", "moov_data"}
    /\ r.state = "none" => c.requested_offset = 0
    /\ r.state = "moov_header" => \E k \in Nat : SearchAt(j, c, r, k)
    /\ r.state = "moov_data" => \E k \in FirstMoov(j) :
         /\ c.requested_offset = DataOf(j, k) /\ r.moov.len = SizeOf(j, k)
         /\ Reaches(c, pc, StopOf(j, k))
    /\ FtypOK(j, r)

TextReader(c, r, pc) ==
    /\ c.read_offset = 0 /\ c.requested_offset = 0
    /\ r.state \in {"none", "first_time", "second_time"}
    /\ r.state = "second_time" => Reaches(c, pc, SubtitleLimit)
    /\ r.state # "second_time" => c.read_size = InitialReadSize

ReaderOK(j, c, r, pc) == IF j.kind = "mp4" THEN Mp4Reader(j, c, r, pc) ELSE TextReader(c, r, pc)

Codes == {OK, ERROR, BAD_GATEWAY, "NGX_HTTP_GATEWAY_TIME_OUT", "NGX_HTTP_NOT_FOUND"}

\* How many bytes a range has in the file.
SizeIn(j, from, to) == Smaller(to, j.length) - Smaller(from, j.length)

\* The child that reads a range.
ReadChild(j, c, p, from, to) ==
    /\ c.in_memory = TRUE /\ c.from = from /\ c.to = to /\ c.send_header_result = OK
    /\ c.state \in {"posted", "running", "refused", "body", "done", "broken", "finished", "lost"}
    /\ p.wev = "child" => c.state = "finished"
    /\ BytesFrom(c.body, from) /\ Len(c.body) <= SizeIn(j, from, to)
    /\ c.status = 206 => c.content_length = SizeIn(j, from, to) /\ SizeIn(j, from, to) > 0
    /\ c.status = 416 => SizeIn(j, from, to) = 0
    /\ c.status # 206 => c.body = <<>>
    /\ c.state = "body" => c.status = 206
    /\ c.state \in {"running", "body", "done", "broken"} => c.upstream = TRUE
    /\ c.state = "finished" => c.error_code \in Codes /\ (c.error_code = OK => c.upstream = TRUE)

\* What the reader ends with.
DoneOK(j, m, r) ==
    IF j.kind = "mp4"
    THEN /\ ~j.compressed => \A i \in FirstMoov(j) :
              /\ r.moov.len = SizeOf(j, i) /\ m[r.moov.blk].freed = FALSE
              /\ HeldAt(m, r.moov.blk, r.moov.at, r.moov.len, DataOf(j, i))
         /\ FtypOK(j, r)
    ELSE /\ m[r.text.blk].freed = FALSE
         /\ HeldAt(m, r.text.blk, r.text.at, r.text.len, 0)
         /\ r.text.len >= Smaller(j.plain, SubtitleLimit - AesBlock)

ReadingPcs == {"read", "aio", "child"}
GotPcs == {"result", "parse"}

OpenOK(j, c, r) ==
    /\ c.read_buffer = NoBuf /\ c.prefix_buffer = NoBuf
    /\ r.state = "none" /\ r.ftyp.len = 0

BytesOK(j, m, c, r, s) ==
    /\ BufferOK(m, c) /\ PrefixOK(m, c) /\ ReaderOK(j, c, r, s.pc)
    /\ s.pc \in ReadingPcs => ReadingOK(j, c)
    /\ s.pc \in {"read", "aio"} => s.from = ReadEnd(c) /\ s.to = AskedEnd(c)
    /\ s.pc \in GotPcs => GotOK(j, m, c)
    /\ s.pc = "parse" => HandedOK(j, m, c, s)

ReadOK(j, m, c, r, s, ch, p) ==
    /\ s.pc \in ReadPcs
    /\ s.pc \in {"open"} \cup ReadingPcs \cup GotPcs => IsMemory(m) /\ c \in CtxT /\ IsReader(r)
    /\ s.pc # "child" => Quiet(ch, p)
    /\ s.pc = "open" => OpenOK(j, c, r)
    /\ s.pc \in ReadingPcs \cup GotPcs => BytesOK(j, m, c, r, s)
    /\ s.pc = "child" => ReadChild(j, ch, p, ReadEnd(c), AskedEnd(c))
    /\ s.pc = "done" => DoneOK(j, m, r)
    /\ s.pc = "finalized" /\ s.rc \in {"bad_data", "unexpected"} =>
         BadJob(j) \/ CutAt(j, c.requested_offset + s.len)

BInv ==
    /\ IInv
    /\ job.kind \in {"mp4", "text"} => ReadOK(job, mem, ctx, reader, st, child, parent)

-----------------------------------------------------------------------------
(* Numbers *)

\* A set of numbers has a least one.
LEMMA LeastOf ==
    ASSUME NEW T \in SUBSET Nat, T # {}
    PROVE  \E x \in T : \A y \in T : x <= y
<1>1. \E x \in T : \A y \in T : ~(<<y, x>> \in OpToRel(<, Nat))
    BY NatLessThanWellFounded, WFMin
<1>2. \A x, y \in Nat : y < x => <<y, x>> \in OpToRel(<, Nat)
    BY DEF OpToRel
<1>3. \E x \in T : \A y \in T : ~(y < x)
    BY <1>1, <1>2, Zenon
<1> QED
    BY <1>3

\* A set of numbers with a bound has a greatest one.
LEMMA GreatestOf ==
    ASSUME NEW n \in Nat, NEW T \in SUBSET (0 .. n), T # {}
    PROVE  \E x \in T : \A y \in T : y <= x
<1> DEFINE U == {n - x : x \in T}
<1>1. \A x \in T : n - x \in Nat
    OBVIOUS
<1>1a. U \in SUBSET Nat /\ U # {}
    BY <1>1, Zenon
<1>2. \A x \in T : n - x \in U
    OBVIOUS
<1>3. \A u \in U : \E x \in T : u = n - x
    OBVIOUS
<1> HIDE DEF U
<1>4. PICK u \in U : \A v \in U : u <= v
    BY <1>1a, LeastOf
<1>5. PICK x \in T : u = n - x
    BY <1>3
<1>6. \A y \in T : n - x <= n - y
    BY <1>2, <1>4, <1>5
<1> QED
    BY <1>6

-----------------------------------------------------------------------------
(* The atoms of a file *)

\* The places and the size of an atom.
LEMMA AtomFields ==
    ASSUME NEW a \in Atom
    PROVE  /\ a.at \in Nat /\ a.hdr \in Nat /\ a.size \in Nat
           /\ DataAt(a) \in Nat /\ EndOf(a) \in Nat
           /\ a.hdr > 0 => a.at < DataAt(a)
           /\ EndOf(a) = DataAt(a) + a.size
    BY DEF Atom, DataAt, EndOf

\* The places and the sizes of the atoms of a file.
LEMMA AtomFacts ==
    ASSUME NEW j \in Job, IsFile(j)
    PROVE  /\ Len(j.atoms) \in Nat /\ DOMAIN j.atoms = 1 .. Len(j.atoms)
           /\ \A i \in 1 .. Len(j.atoms) :
                /\ AtOf(j, i) \in Nat /\ DataOf(j, i) \in Nat /\ StopOf(j, i) \in Nat
                /\ SizeOf(j, i) \in Nat
                /\ AtOf(j, i) = StartOf(j, i) /\ AtOf(j, i) < DataOf(j, i)
                /\ StopOf(j, i) = DataOf(j, i) + SizeOf(j, i)
<1>1. j.atoms \in Seq(Atom)
    BY DEF Job
<1>2. Len(j.atoms) \in Nat /\ DOMAIN j.atoms = 1 .. Len(j.atoms)
    BY <1>1
<1>3. ASSUME NEW i \in 1 .. Len(j.atoms)
      PROVE  /\ AtOf(j, i) \in Nat /\ DataOf(j, i) \in Nat /\ StopOf(j, i) \in Nat
             /\ SizeOf(j, i) \in Nat
             /\ AtOf(j, i) = StartOf(j, i) /\ AtOf(j, i) < DataOf(j, i)
             /\ StopOf(j, i) = DataOf(j, i) + SizeOf(j, i)
  <2>1. j.atoms[i] \in Atom
      BY <1>1
  <2>2. j.atoms[i].hdr > 0 /\ AtOf(j, i) = StartOf(j, i)
      BY <1>2 DEF IsFile, StartOf, AtOf, StopOf
  <2>3. /\ j.atoms[i].at \in Nat /\ j.atoms[i].hdr \in Nat /\ j.atoms[i].size \in Nat
        /\ DataAt(j.atoms[i]) \in Nat /\ EndOf(j.atoms[i]) \in Nat
        /\ j.atoms[i].at < DataAt(j.atoms[i])
        /\ EndOf(j.atoms[i]) = DataAt(j.atoms[i]) + j.atoms[i].size
      BY <2>1, <2>2, AtomFields
  <2> QED
      BY <2>2, <2>3, Zenon DEF AtOf, DataOf, StopOf, SizeOf
<1> QED
    BY <1>2, <1>3

\* An atom ends before the atoms behind it start.
LEMMA AtomOrder ==
    ASSUME NEW j \in Job, IsFile(j), NEW i \in 1 .. Len(j.atoms), NEW k \in 1 .. Len(j.atoms),
           i < k
    PROVE  StopOf(j, i) <= AtOf(j, k)
<1> DEFINE n == Len(j.atoms)
           T == {h \in 1 .. n : i < h /\ StopOf(j, i) > AtOf(j, h)}
<1>0. /\ n \in Nat
      /\ \A h \in 1 .. n : /\ AtOf(j, h) \in Nat /\ DataOf(j, h) \in Nat
                           /\ StopOf(j, h) \in Nat /\ SizeOf(j, h) \in Nat
                           /\ AtOf(j, h) = StartOf(j, h) /\ AtOf(j, h) < DataOf(j, h)
                           /\ StopOf(j, h) = DataOf(j, h) + SizeOf(j, h)
    BY AtomFacts, Zenon
<1>0a. ASSUME NEW h \in 1 .. n PROVE AtOf(j, h) <= StopOf(j, h)
  <2>1. /\ AtOf(j, h) \in Nat /\ DataOf(j, h) \in Nat /\ SizeOf(j, h) \in Nat
        /\ AtOf(j, h) < DataOf(j, h) /\ StopOf(j, h) = DataOf(j, h) + SizeOf(j, h)
      BY <1>0, Zenon
  <2> QED
      BY <2>1
<1>1. /\ n \in Nat
      /\ \A h \in 1 .. n : /\ AtOf(j, h) \in Nat /\ StopOf(j, h) \in Nat
                           /\ AtOf(j, h) <= StopOf(j, h)
                           /\ AtOf(j, h) = StartOf(j, h)
    BY <1>0, <1>0a, Zenon
<1> HIDE DEF n
<1>2. ASSUME T # {} PROVE FALSE
  <2>1. T \in SUBSET Nat
      BY <1>1
  <2>2. PICK h \in T : \A g \in T : h <= g
    <3> HIDE DEF T
    <3> QED
        BY <1>2, <2>1, LeastOf
  <2>3. h \in 1 .. n /\ i < h /\ StopOf(j, i) > AtOf(j, h)
      OBVIOUS
  <2>4. i \in 1 .. n
      BY DEF n
  <2>5. h # 1 /\ h - 1 \in 1 .. n /\ AtOf(j, h) = StopOf(j, h - 1)
      BY <1>1, <2>3, <2>4 DEF StartOf
  <2>6. h - 1 \notin T
      BY <1>1, <2>2, <2>3
  <2>7. i # h - 1
      BY <1>1, <2>3, <2>5
  <2>8. StopOf(j, i) <= AtOf(j, h - 1)
      BY <1>1, <2>3, <2>4, <2>5, <2>6, <2>7
  <2> QED
      BY <1>1, <2>3, <2>4, <2>5, <2>8
<1>3. k \in 1 .. n /\ k \notin T /\ i \in 1 .. n
    BY <1>2 DEF n
<1> QED
    BY <1>1, <1>3

\* From the start of an atom the atoms are seen without gaps.
LEMMA SeenFacts ==
    ASSUME NEW j \in Job, IsFile(j), NEW k \in 1 .. Len(j.atoms) + 1, NEW e \in Int,
           NEW i \in SeenAtoms(j, StartOf(j, k), e)
    PROVE  /\ i \in 1 .. Len(j.atoms) /\ k <= i
           /\ k .. i \subseteq SeenAtoms(j, StartOf(j, k), e)
<1> DEFINE n == Len(j.atoms)
<1>1. /\ n \in Nat /\ k \in 1 .. n + 1
      /\ \A h \in 1 .. n : /\ AtOf(j, h) \in Nat /\ DataOf(j, h) \in Nat /\ StopOf(j, h) \in Nat
                           /\ AtOf(j, h) = StartOf(j, h) /\ AtOf(j, h) < DataOf(j, h)
                           /\ DataOf(j, h) <= StopOf(j, h)
    BY AtomFacts
<1>2. i \in 1 .. n /\ AtOf(j, i) >= StartOf(j, k) /\ DataOf(j, i) <= e
    BY AtomFacts DEF SeenAtoms
<1>3. \A f, g \in 1 .. n : f < g => StopOf(j, f) <= AtOf(j, g)
    BY AtomOrder
<1>4. \A h \in 1 .. n : AtOf(j, h) >= StartOf(j, k) /\ DataOf(j, h) <= e =>
            h \in SeenAtoms(j, StartOf(j, k), e)
    BY AtomFacts DEF SeenAtoms
<1> HIDE DEF n
<1>5. k <= i
  <2> SUFFICES ASSUME i < k PROVE FALSE
      BY <1>1, <1>2
  <2>1. k - 1 \in 1 .. n /\ StartOf(j, k) = StopOf(j, k - 1)
      BY <1>1, <1>2 DEF StartOf
  <2>2. CASE i = k - 1
      BY <1>1, <1>2, <2>1, <2>2
  <2>3. CASE i < k - 1
    <3>1. StopOf(j, i) <= AtOf(j, k - 1)
        BY <1>2, <1>3, <2>1, <2>3
    <3> QED
        BY <1>1, <1>2, <2>1, <3>1
  <2> QED
      BY <1>1, <1>2, <2>2, <2>3
<1>6. ASSUME NEW h \in k .. i PROVE h \in SeenAtoms(j, StartOf(j, k), e)
  <2>1. h \in 1 .. n /\ k \in 1 .. n /\ StartOf(j, k) = AtOf(j, k)
      BY <1>1, <1>2, <1>5
  <2>2. AtOf(j, k) <= AtOf(j, h)
    <3>1. CASE k < h
      <4>1. StopOf(j, k) <= AtOf(j, h)
          BY <1>3, <2>1, <3>1
      <4> QED
          BY <1>1, <2>1, <4>1
    <3> QED
        BY <1>1, <2>1, <3>1
  <2>3. DataOf(j, h) <= DataOf(j, i)
    <3>1. CASE h < i
      <4>1. StopOf(j, h) <= AtOf(j, i)
          BY <1>2, <1>3, <2>1, <3>1
      <4> QED
          BY <1>1, <1>2, <2>1, <4>1
    <3> QED
        BY <1>1, <1>2, <2>1, <3>1
  <2>4. AtOf(j, h) >= StartOf(j, k) /\ DataOf(j, h) <= e
      BY <1>1, <1>2, <2>1, <2>2, <2>3
  <2> QED
      BY <1>4, <2>1, <2>4
<1> QED
    BY <1>2, <1>5, <1>6 DEF n

\* What mp4_parser_find_atom_callback tells of the atoms from an offset to another one: none was
\* seen, the first one of the name, or where the last one ends.
Found(j, o, e, name, f) ==
    \/ SeenAtoms(j, o, e) = {} /\ f.at = NULL /\ f.size = 0
    \/ \E i \in SeenAtoms(j, o, e) :
         /\ NameOf(j, i) = name /\ \A h \in SeenAtoms(j, o, e) : NameOf(j, h) = name => i <= h
         /\ f.at = DataOf(j, i) - o /\ f.size = SizeOf(j, i)
    \/ \E i \in SeenAtoms(j, o, e) :
         /\ \A h \in SeenAtoms(j, o, e) : NameOf(j, h) # name /\ h <= i
         /\ f.at = StopOf(j, i) - o /\ f.size = 0

\* mp4_parser_parse_atoms with mp4_parser_find_atom_callback
LEMMA FindAtom ==
    ASSUME job \in Job, IsFile(job), NEW name, NEW o \in Nat, NEW n \in Nat
    PROVE  Found(job, o, o + n, name, find_atom(name, o, n))
<1> DEFINE seen == SeenAtoms(job, o, o + n)
           hits == {i \in seen : NameOf(job, i) = name}
           first == CHOOSE i \in hits : \A h \in hits : i <= h
           last == CHOOSE i \in seen : \A h \in seen : h <= i
           f == find_atom(name, o, n)
<1>1. parse_atoms(o, n) = seen
    BY DEF parse_atoms, SeenAtoms, AtOf, DataOf, DataAt
<1>2. hits = {i \in parse_atoms(o, n) : job.atoms[i].name = name}
    BY <1>1 DEF NameOf
<1>3. f = IF seen = {} THEN [found |-> FALSE, at |-> NULL, size |-> 0]
          ELSE IF hits # {} THEN [found |-> TRUE, at |-> DataOf(job, first) - o,
                                  size |-> SizeOf(job, first)]
          ELSE [found |-> FALSE, at |-> StopOf(job, last) - o, size |-> 0]
    BY <1>1, <1>2, Zenon DEF find_atom, NameOf, DataOf, SizeOf, StopOf
<1>4. Len(job.atoms) \in Nat /\ seen \in SUBSET (0 .. Len(job.atoms)) /\ seen \in SUBSET Nat
    BY AtomFacts DEF SeenAtoms
<1>5. hits \in SUBSET Nat /\ hits \subseteq seen
    BY <1>4
<1> HIDE DEF f
<1>6. CASE seen = {}
  <2>1. f.at = NULL /\ f.size = 0
      BY <1>3, <1>6
  <2> QED
      BY <1>6, <2>1, Zenon DEF Found, f
<1>7. CASE hits # {}
  <2>1. f.at = DataOf(job, first) - o /\ f.size = SizeOf(job, first)
      BY <1>3, <1>5, <1>7
  <2>2. first \in hits /\ \A h \in hits : first <= h
    <3> HIDE DEF hits
    <3>1. \E i \in hits : \A h \in hits : i <= h
        BY <1>5, <1>7, LeastOf
    <3> QED
        BY <3>1, Zenon
  <2> HIDE DEF first
  <2>3. first \in seen /\ NameOf(job, first) = name
    BY <2>2
  <2>4. \A h \in seen : NameOf(job, h) = name => first <= h
    BY <2>2
  <2> HIDE DEF seen, hits
  <2> QED
      BY <2>1, <2>3, <2>4, Zenon DEF Found, seen, f
<1>8. CASE seen # {} /\ hits = {}
  <2>1. f.at = StopOf(job, last) - o /\ f.size = 0
      BY <1>3, <1>8
  <2>2. last \in seen /\ \A h \in seen : h <= last
    <3> HIDE DEF seen
    <3>1. \E i \in seen : \A h \in seen : h <= i
        BY <1>4, <1>8, GreatestOf
    <3> QED
        BY <3>1, Zenon
  <2> HIDE DEF last
  <2>3. \A h \in seen : NameOf(job, h) # name
      BY <1>8
  <2> HIDE DEF seen, hits
  <2> QED
      BY <2>1, <2>2, <2>3, Zenon DEF Found, seen, f
<1> QED
    BY <1>6, <1>7, <1>8

-----------------------------------------------------------------------------
(* The memory of the request *)

WithBytes(m, k, f) == [m EXCEPT ![k].bytes = f]
WithFreed(m, k) == [m EXCEPT ![k].freed = TRUE]

\* n is the memory m but for the block k, which has other bytes.
BytesSet(m, n, k, f) ==
    /\ IsMemory(n) /\ Len(n) = Len(m)
    /\ n[k].bytes = f /\ n[k].freed = m[k].freed
    /\ \A h \in 1 .. Len(m) : h # k => n[h] = m[h]

\* n is the memory m but for the block k, which is freed.
BlockFreed(m, n, k) ==
    /\ IsMemory(n) /\ Len(n) = Len(m)
    /\ n[k].bytes = m[k].bytes
    /\ \A h \in 1 .. Len(m) : h # k => n[h] = m[h]

\* Bytes are written to a block.
LEMMA WriteBlock ==
    ASSUME NEW m, IsMemory(m), NEW k \in 1 .. Len(m), NEW f
    PROVE  BytesSet(m, WithBytes(m, k, f), k, f)
<1>1. PICK V : m \in Seq(BlockRec(V))
    BY DEF IsMemory
<1> DEFINE n == WithBytes(m, k, f)
           b == [m[k] EXCEPT !.bytes = f]
           W == V \cup {f}
<1>2. Len(m) \in Nat /\ DOMAIN m = 1 .. Len(m) /\ \A h \in 1 .. Len(m) : m[h] \in BlockRec(V)
    BY <1>1
<1>3. b \in BlockRec(W) /\ b.bytes = f /\ b.freed = m[k].freed
    BY <1>2 DEF BlockRec
<1>4. \A x \in BlockRec(V) : x \in BlockRec(W)
    BY DEF BlockRec
<1> HIDE DEF W
<1>5. n = [m EXCEPT ![k] = b]
    BY DEF WithBytes
<1> HIDE DEF b, n
<1>6. n = [h \in 1 .. Len(m) |-> IF h = k THEN b ELSE m[h]]
    BY <1>2, <1>5
<1>7. n \in [1 .. Len(m) -> BlockRec(W)]
    BY <1>2, <1>3, <1>4, <1>6
<1>8. n \in Seq(BlockRec(W)) /\ Len(n) = Len(m)
    BY <1>2, <1>7
<1>9. n[k] = b /\ \A h \in 1 .. Len(m) : h # k => n[h] = m[h]
    BY <1>6
<1> QED
    BY <1>3, <1>8, <1>9 DEF BytesSet, IsMemory, n

\* A block is freed.
LEMMA FreeBlock ==
    ASSUME NEW m, IsMemory(m), NEW k \in 1 .. Len(m)
    PROVE  BlockFreed(m, WithFreed(m, k), k)
<1>1. PICK V : m \in Seq(BlockRec(V))
    BY DEF IsMemory
<1> DEFINE n == WithFreed(m, k)
           b == [m[k] EXCEPT !.freed = TRUE]
           W == V \cup {TRUE}
<1>2. Len(m) \in Nat /\ DOMAIN m = 1 .. Len(m) /\ \A h \in 1 .. Len(m) : m[h] \in BlockRec(V)
    BY <1>1
<1>3. b \in BlockRec(W) /\ b.bytes = m[k].bytes
    BY <1>2 DEF BlockRec
<1>4. \A x \in BlockRec(V) : x \in BlockRec(W)
    BY DEF BlockRec
<1> HIDE DEF W
<1>5. n = [m EXCEPT ![k] = b]
    BY DEF WithFreed
<1> HIDE DEF b, n
<1>6. n = [h \in 1 .. Len(m) |-> IF h = k THEN b ELSE m[h]]
    BY <1>2, <1>5
<1>7. n \in [1 .. Len(m) -> BlockRec(W)]
    BY <1>2, <1>3, <1>4, <1>6
<1>8. n \in Seq(BlockRec(W)) /\ Len(n) = Len(m)
    BY <1>2, <1>7
<1>9. n[k] = b /\ \A h \in 1 .. Len(m) : h # k => n[h] = m[h]
    BY <1>6
<1> QED
    BY <1>3, <1>8, <1>9 DEF BlockFreed, IsMemory, n

\* n is the memory m with one more block.
BlockAdded(m, n, f) ==
    /\ IsMemory(n) /\ Len(m) \in Nat /\ Len(n) = Len(m) + 1
    /\ n[Len(m) + 1].bytes = f /\ n[Len(m) + 1].freed = FALSE
    /\ \A h \in 1 .. Len(m) : n[h] = m[h]

\* A block is allocated.
LEMMA AddBlock ==
    ASSUME NEW m, IsMemory(m), NEW f, NEW b, b = [bytes |-> f, freed |-> FALSE]
    PROVE  BlockAdded(m, Append(m, b), f)
<1>1. PICK V : m \in Seq(BlockRec(V))
    BY DEF IsMemory
<1> DEFINE n == Append(m, b)
           W == V \cup {f, FALSE}
<1>2. b \in BlockRec(W) /\ b.bytes = f /\ b.freed = FALSE
    BY DEF BlockRec
<1>3. \A x \in BlockRec(V) : x \in BlockRec(W)
    BY DEF BlockRec
<1> HIDE DEF W
<1>4. m \in Seq(BlockRec(W))
    BY <1>1, <1>3
<1>5. /\ n \in Seq(BlockRec(W)) /\ Len(m) \in Nat /\ Len(n) = Len(m) + 1 /\ n[Len(m) + 1] = b
      /\ \A h \in 1 .. Len(m) : n[h] = m[h]
    BY <1>2, <1>4
<1> HIDE DEF n
<1>6. IsMemory(n)
    BY <1>5 DEF IsMemory
<1> QED
    BY <1>2, <1>5, <1>6 DEF BlockAdded, n

\* The bytes that were read are in the block behind its first ones.
ReadInto(m, n, blk, last, bytes, o) ==
    /\ IsMemory(n) /\ Len(n) = Len(m)
    /\ n[blk].freed = m[blk].freed /\ DOMAIN n[blk].bytes = DOMAIN m[blk].bytes
    /\ HeldAt(n, blk, last, Len(bytes), o)
    /\ \A h \in 1 .. Len(m) : h # blk => n[h] = m[h]

\* The end of a read.
LEMMA FilledFacts ==
    ASSUME IsMemory(mem), ctx \in CtxT, NEW size \in Int, NEW o \in Int, NEW bytes,
           HasBlock(mem, ctx.read_buffer.blk, size), BytesFrom(bytes, o),
           0 <= ctx.read_buffer.last, ctx.read_buffer.last + Len(bytes) <= size
    PROVE  ReadInto(mem, Filled(bytes), ctx.read_buffer.blk, ctx.read_buffer.last, bytes, o)
<1> DEFINE blk == ctx.read_buffer.blk
           last == ctx.read_buffer.last
           g == mem[blk].bytes
           f == [i \in DOMAIN g |-> IF i \in last .. last + Len(bytes) - 1
                                    THEN bytes[i - last + 1] ELSE g[i]]
           n == Filled(bytes)
<1>1. n = WithBytes(mem, blk, f)
    BY DEF Filled, WithBytes
<1>2. blk \in 1 .. Len(mem) /\ DOMAIN g = 0 .. size - 1
    BY DEF HasBlock
<1>3. last \in Int /\ Len(bytes) \in Nat /\ \A i \in 1 .. Len(bytes) : bytes[i] = o + i - 1
    BY SMTT(20) DEF CtxT, Buf, BytesFrom
<1>3a. 0 <= last /\ last + Len(bytes) <= size
    OBVIOUS
<1>4. DOMAIN f = DOMAIN g
    OBVIOUS
<1> DEFINE at(i) == i - last + 1
<1>5. \A x \in DOMAIN g : x \in last .. last + Len(bytes) - 1 => f[x] = bytes[at(x)]
    OBVIOUS
<1>6. ASSUME NEW i \in 0 .. Len(bytes) - 1 PROVE f[last + i] = o + i
  <2> HIDE DEF n, blk, last, g, f
  <2> DEFINE x == last + i
  <2>1. x \in 0 .. size - 1 /\ x \in last .. last + Len(bytes) - 1
    <3>1. \A a, b, l, z \in Int : 0 <= a /\ a + l <= z /\ b \in 0 .. l - 1 =>
              a + b \in 0 .. z - 1 /\ a + b \in a .. a + l - 1
        OBVIOUS
    <3> QED
        BY <1>3, <1>3a, <3>1
  <2>2. at(x) = i + 1 /\ i + 1 \in 1 .. Len(bytes)
      BY <1>3
  <2> HIDE DEF x, at
  <2>3. f[x] = bytes[at(x)]
      BY <1>2, <1>5, <2>1
  <2> QED
      BY <1>3, <2>2, <2>3 DEF x
<1> HIDE DEF n, blk, last, g, f
<1>7. BytesSet(mem, n, blk, f)
    BY <1>1, <1>2, WriteBlock
<1> QED
    BY <1>4, <1>6, <1>7 DEF BytesSet, ReadInto, HeldAt, n, blk, last, g

\* The memory after ngx_http_vod_get_async_read_result has put the prefix in its place.
Joined == IF ctx.prefix_buffer.start # NULL THEN Prepended(ctx.read_buffer, ctx.prefix_buffer)
          ELSE mem

\* The block of the read buffer holds the range from its first byte.
Whole(m, c) ==
    /\ IsMemory(m) /\ HasBlock(m, c.read_buffer.blk, c.read_buffer.end)
    /\ HeldAt(m, c.read_buffer.blk, 0, c.read_buffer.last, c.read_offset)

\* The numbers of the read state.
LEMMA CtxFields ==
    ASSUME NEW c \in CtxT
    PROVE  /\ c.read_offset \in Nat /\ c.requested_offset \in Nat /\ c.read_size \in Nat
           /\ c.read_buffer \in Buf /\ c.prefix_buffer \in Buf
           /\ c.read_buffer.blk \in Int /\ c.read_buffer.start \in Int /\ c.read_buffer.pos \in Int
           /\ c.read_buffer.last \in Int /\ c.read_buffer.end \in Int
           /\ c.prefix_buffer.blk \in Int /\ c.prefix_buffer.start \in Int
           /\ c.prefix_buffer.pos \in Int /\ c.prefix_buffer.last \in Int
           /\ Buffered(c.prefix_buffer) \in Int /\ PreLen(c) \in Int
           /\ Buffered(c.prefix_buffer) = c.prefix_buffer.last - c.prefix_buffer.pos
           /\ Buffered(c.read_buffer) = c.read_buffer.last - c.read_buffer.pos
           /\ ReadEnd(c) = c.read_offset + c.read_buffer.last /\ ReadEnd(c) \in Int
           /\ AskedEnd(c) = c.read_offset + c.read_size /\ AskedEnd(c) \in Nat
           /\ c.allow_empty \in BOOLEAN
    BY DEF CtxT, Buf, Buffered, PreLen, ReadEnd, AskedEnd

\* "prepend the prefix buffer"
LEMMA JoinedFacts ==
    ASSUME IsMemory(mem), ctx \in CtxT, BufferOK(mem, ctx), PrefixOK(mem, ctx),
           HeldAt(mem, ctx.read_buffer.blk, ctx.read_buffer.pos, Buffered(ctx.read_buffer),
                  ctx.read_offset + PreLen(ctx))
    PROVE  Whole(Joined, ctx)
<1> DEFINE b == ctx.read_buffer
           p == ctx.prefix_buffer
           o == ctx.read_offset
           blk == b.blk
           l == b.last
           z == PreLen(ctx)
           g == mem[blk].bytes
           w == mem[p.blk].bytes
<1>1. /\ o \in Nat /\ l \in Int /\ b.end \in Int /\ z \in Int /\ p.last \in Int /\ p.pos \in Int
      /\ Buffered(p) = p.last - p.pos /\ Buffered(b) = l - b.pos
    BY CtxFields
<1>2. /\ blk \in 1 .. Len(mem) /\ mem[blk].freed = FALSE /\ DOMAIN g = 0 .. b.end - 1
      /\ b.pos = z /\ 0 <= z /\ z <= l /\ l < b.end
  <2>1. /\ blk \in 1 .. Len(mem) /\ mem[blk].freed = FALSE /\ DOMAIN g = 0 .. b.end - 1
        /\ b.pos = z /\ 0 <= z /\ z <= l /\ l <= ctx.read_size /\ ctx.read_size < b.end
      BY DEF BufferOK, HasBlock
  <2>2. ctx.read_size \in Nat
      BY CtxFields
  <2> HIDE DEF b, l, z, g, blk
  <2> QED
      BY <1>1, <2>1, <2>2
<1>3. \A i \in 0 .. l - z - 1 : g[z + i] = o + z + i
    BY <1>1, <1>2 DEF HeldAt
<1>4. \A i \in z .. l - 1 : g[i] = o + i
  <2> SUFFICES ASSUME NEW i \in z .. l - 1 PROVE g[i] = o + i
      OBVIOUS
  <2> HIDE DEF b, p, o, blk, l, z, g, w
  <2>1. i - z \in 0 .. l - z - 1 /\ z + (i - z) = i /\ o + z + (i - z) = o + i
      BY <1>1, <1>2
  <2> QED
      BY <1>3, <2>1
<1>5. CASE p.start = NULL
  <2>1. z = 0
      BY <1>5 DEF PreLen
  <2>2. Joined = mem
      BY <1>5 DEF Joined
  <2>3. HeldAt(mem, blk, 0, l, o)
    <3>1. \A i \in 0 .. l - 1 : g[i] = o + i /\ 0 + i = i
        BY <1>1, <1>4, <2>1
    <3> QED
        BY <3>1 DEF HeldAt
  <2> QED
      BY <1>2, <2>2, <2>3 DEF Whole, HasBlock
<1>6. CASE p.start # NULL
  <2> DEFINE f == [i \in DOMAIN g |-> IF i \in b.pos - Buffered(p) .. b.pos - 1
                                      THEN w[i - b.pos + p.last] ELSE g[i]]
             n == WithBytes(mem, blk, f)
             m == WithFreed(n, p.blk)
  <2>1. Joined = m
      BY <1>6 DEF Joined, Prepended, WithBytes, WithFreed
  <2>2. z = p.last - p.pos
      BY <1>1, <1>6 DEF PreLen
  <2>3. /\ p.blk \in 1 .. Len(mem) /\ p.blk # blk
        /\ \A i \in 0 .. z - 1 : w[p.pos + i] = o + i
    <3>1. p # NoBuf
        BY <1>6 DEF NoBuf
    <3> QED
        BY <1>1, <2>2, <3>1 DEF PrefixOK, HeldAt
  <2>4. DOMAIN f = DOMAIN g
      OBVIOUS
  <2>5. \A i \in DOMAIN g : f[i] = IF i \in 0 .. z - 1 THEN w[i - z + p.last] ELSE g[i]
    <3>1. b.pos - Buffered(p) = 0 /\ b.pos = z
        BY <1>1, <1>2, <2>2
    <3> QED
        BY <3>1
  <2> HIDE DEF b, p, o, blk, l, z, g, w, f
  <2>6. \A i \in 0 .. l - 1 : f[i] = o + i
    <3> SUFFICES ASSUME NEW i \in 0 .. l - 1 PROVE f[i] = o + i
        OBVIOUS
    <3>1. i \in DOMAIN g
        BY <1>1, <1>2
    <3>2. CASE i < z
      <4>1. i \in 0 .. z - 1 /\ i - z + p.last = p.pos + i
          BY <1>1, <2>2, <3>2
      <4>2. f[i] = w[i - z + p.last]
          BY <2>5, <3>1, <4>1
      <4> QED
          BY <2>3, <4>1, <4>2
    <3>3. CASE ~(i < z)
      <4>1. i \notin 0 .. z - 1 /\ i \in z .. l - 1
          BY <1>1, <3>3
      <4> QED
          BY <1>4, <2>5, <3>1, <4>1
    <3> QED
        BY <3>2, <3>3
  <2>7. BytesSet(mem, n, blk, f)
      BY <1>2, WriteBlock
  <2> HIDE DEF n
  <2>8. Len(n) = Len(mem) /\ IsMemory(n) /\ p.blk \in 1 .. Len(n)
      BY <2>3, <2>7 DEF BytesSet
  <2>9. BlockFreed(n, m, p.blk)
      BY <2>8, FreeBlock
  <2> HIDE DEF m
  <2>10. Len(m) = Len(mem) /\ IsMemory(m) /\ m[blk] = n[blk]
      BY <1>2, <2>3, <2>8, <2>9 DEF BlockFreed
  <2>11. m[blk].bytes = f /\ m[blk].freed = FALSE
      BY <1>2, <2>7, <2>10 DEF BytesSet
  <2>12. HeldAt(m, blk, 0, l, o)
    <3>1. \A i \in 0 .. l - 1 : 0 + i = i
        BY <1>1
    <3> QED
        BY <2>6, <2>11, <3>1 DEF HeldAt
  <2>13. HasBlock(m, blk, b.end)
      BY <1>2, <2>4, <2>10, <2>11 DEF HasBlock
  <2> QED
      BY <2>1, <2>10, <2>12, <2>13 DEF Whole, b, blk, l, o
<1> QED
    BY <1>5, <1>6

-----------------------------------------------------------------------------
(* Ranges *)

\* The remainder of a division.
LEMMA Remainder ==
    ASSUME NEW n \in Nat, NEW a \in Nat \ {0}
    PROVE  n % a \in 0 .. a - 1 /\ (n < a => n % a = n)
    OBVIOUS

\* The sizes that the configuration gives.
LEMMA Sizes ==
    /\ InitialReadSize \in Nat /\ InitialReadSize > 0 /\ Padding \in Nat /\ Padding > 0
    /\ AesBlock \in Nat /\ AesBlock > 0 /\ SubtitleLimit \in Nat
    /\ InitialReadSize < SubtitleLimit /\ MaxMoovStartReads \in Nat
    /\ MaxMetadataSize \in Nat /\ AllocExtraSize \in Nat
    /\ Alignment \in Nat /\ Alignment > 0 /\ Alignment <= InitialReadSize
<1>1. /\ InitialReadSize \in Nat /\ InitialReadSize > 0 /\ Padding \in Nat /\ Padding > 0
      /\ AesBlock \in Nat /\ AesBlock > 0 /\ SubtitleLimit \in Nat
      /\ InitialReadSize < SubtitleLimit /\ MaxMoovStartReads \in Nat /\ MaxMetadataSize \in Nat
      /\ DirectioAlignment \in Nat \ {0} /\ InitialReadSize % DirectioAlignment = 0
    BY ReadAssumption
<1>2. DirectioAlignment <= InitialReadSize
    BY <1>1, Remainder
<1>3. Alignment \in Nat /\ Alignment > 0 /\ Alignment <= InitialReadSize
    BY <1>1, <1>2 DEF Alignment
<1>4. AllocExtraSize \in Nat
    BY ChildAssumption DEF AllocExtraSize
<1> QED
    BY <1>1, <1>3, <1>4

\* Offsets are aligned down, sizes up.
LEMMA Aligned ==
    ASSUME NEW n \in Nat
    PROVE  /\ AlignDown(n) \in Nat /\ AlignDown(n) <= n /\ n < AlignDown(n) + Alignment
           /\ AlignUp(n) \in Nat /\ n <= AlignUp(n)
<1>1. \A x \in Nat : /\ AlignDown(x) \in Nat /\ AlignDown(x) <= x
                     /\ x < AlignDown(x) + Alignment
  <2> SUFFICES ASSUME NEW x \in Nat
               PROVE  AlignDown(x) \in Nat /\ AlignDown(x) <= x /\ x < AlignDown(x) + Alignment
      OBVIOUS
  <2> DEFINE a == Alignment
             q == x % a
  <2>1. a \in Nat \ {0}
      BY Sizes
  <2> HIDE DEF a
  <2>2. q \in 0 .. a - 1 /\ (x < a => q = x)
      BY <2>1, Remainder
  <2>3. q <= x
      BY <2>1, <2>2
  <2>4. AlignDown(x) = x - q
      BY DEF AlignDown, a
  <2> HIDE DEF q
  <2> QED
      BY <2>1, <2>2, <2>3, <2>4 DEF a
<1>2. Alignment \in Nat /\ Alignment > 0
    BY Sizes
<1>3. n + Alignment - 1 \in Nat
    BY <1>2
<1>4. AlignUp(n) = AlignDown(n + Alignment - 1)
    BY DEF AlignUp
<1>5. /\ AlignUp(n) \in Nat /\ n + Alignment - 1 < AlignUp(n) + Alignment
    BY <1>1, <1>3, <1>4
<1> QED
    BY <1>1, <1>2, <1>5

\* The buffer that a range is read into.
Allocated(m, b, a, size) ==
    /\ IsMemory(a.mem) /\ Len(m) \in Nat /\ Len(m) <= Len(a.mem) /\ Len(a.mem) \in Nat
    /\ \A h \in 1 .. Len(m) : a.mem[h] = m[h]
    /\ a.buf \in Buf /\ a.buf.start = 0 /\ a.buf.pos = 0 /\ a.buf.last = 0
    /\ HasBlock(a.mem, a.buf.blk, a.buf.end) /\ a.buf.end >= size + Padding
    /\ b = NoBuf => a.buf.blk = Len(m) + 1

\* ngx_http_vod_alloc_read_buffer
LEMMA AllocFacts ==
    ASSUME IsMemory(mem), NEW b \in Buf, NEW size \in Nat,
           b.start # NULL => HasBlock(mem, b.blk, b.end) /\ b.start = 0
    PROVE  Allocated(mem, b, alloc_read_buffer(b, size), size)
<1> DEFINE a == alloc_read_buffer(b, size)
           need == size + Padding
<1>1. Len(mem) \in Nat
    BY DEF IsMemory
<1>2. need \in Nat
    BY Sizes
<1>3. /\ b.blk \in Int /\ b.start \in Int /\ b.pos \in Int /\ b.last \in Int /\ b.end \in Int
    BY DEF Buf
<1>4. CASE BufferFits(b, need)
  <2> DEFINE c == [b EXCEPT !.pos = b.start, !.last = b.start]
  <2>1. a = [mem |-> mem, buf |-> c]
      BY <1>4 DEF alloc_read_buffer
  <2>2. b.start # NULL /\ b.start = 0 /\ HasBlock(mem, b.blk, b.end) /\ b.start + need <= b.end
      BY <1>4 DEF BufferFits
  <2>3. /\ c \in Buf /\ c.start = 0 /\ c.pos = 0 /\ c.last = 0 /\ c.blk = b.blk /\ c.end = b.end
      BY <2>2 DEF Buf
  <2>4. b # NoBuf
      BY <2>2 DEF NoBuf
  <2> HIDE DEF c
  <2>5. a.mem = mem /\ a.buf = c
      BY <2>1
  <2>6. need <= b.end
      BY <1>2, <1>3, <2>2
  <2> HIDE DEF a
  <2>7. Allocated(mem, b, a, size)
      BY <1>1, <2>2, <2>3, <2>4, <2>5, <2>6 DEF Allocated
  <2> QED
      BY <2>7 DEF a
<1>5. CASE ~BufferFits(b, need)
  <2> DEFINE f == [i \in 0 .. need - 1 |-> Garbage]
             n == Append(mem, NewBlock(need))
             c == [blk |-> Len(mem) + 1, start |-> 0, pos |-> 0, last |-> 0, end |-> need]
  <2>1. a = [mem |-> n, buf |-> c]
      BY <1>5 DEF alloc_read_buffer
  <2>2. DOMAIN f = 0 .. need - 1
      OBVIOUS
  <2>3. NewBlock(need) = [bytes |-> f, freed |-> FALSE]
      BY DEF NewBlock
  <2> HIDE DEF f
  <2>4. BlockAdded(mem, n, f)
      BY <2>3, AddBlock
  <2> HIDE DEF n
  <2>5. /\ c \in Buf /\ c.start = 0 /\ c.pos = 0 /\ c.last = 0 /\ c.blk = Len(mem) + 1
        /\ c.end = need
      BY <1>1, <1>2 DEF Buf
  <2>6. a.mem = n /\ a.buf = c
      BY <2>1
  <2> HIDE DEF a, c
  <2>7. HasBlock(n, Len(mem) + 1, need)
      BY <1>1, <2>2, <2>4 DEF HasBlock, BlockAdded
  <2>8. Len(n) = Len(mem) + 1 /\ IsMemory(n) /\ \A h \in 1 .. Len(mem) : n[h] = mem[h]
      BY <2>4 DEF BlockAdded
  <2>9. Allocated(mem, b, a, size)
      BY <1>1, <1>2, <2>5, <2>6, <2>7, <2>8 DEF Allocated
  <2> QED
      BY <2>9 DEF a
<1> QED
    BY <1>4, <1>5

\* A range was asked for from the aligned offset, with a prefix from the buffer before.
RangeAsked(r, o, off, size, pre, allow) ==
    /\ IsMemory(r.mem) /\ r.ctx \in CtxT /\ BufferOK(r.mem, r.ctx) /\ PrefixOK(r.mem, r.ctx)
    /\ r.ctx.read_offset = off /\ r.ctx.requested_offset = o /\ r.ctx.read_size = size
    /\ r.ctx.allow_empty = allow
    /\ r.ctx.read_buffer.start = pre /\ r.ctx.read_buffer.last = pre
    /\ r.from = ReadEnd(r.ctx) /\ r.to = AskedEnd(r.ctx)

AskCtx(c, b, p, off, o, size, allow) ==
    [c EXCEPT !.read_buffer = b, !.prefix_buffer = p, !.read_offset = off,
              !.requested_offset = o, !.read_size = size, !.allow_empty = allow]
IsAsked(d, b, p, off, o, size, allow) ==
    /\ d \in CtxT /\ d.read_buffer = b /\ d.prefix_buffer = p /\ d.read_offset = off
    /\ d.requested_offset = o /\ d.read_size = size /\ d.allow_empty = allow

\* The read state when a range was asked for.
LEMMA AskedCtx ==
    ASSUME NEW c \in CtxT, NEW b \in Buf, NEW p \in Buf, NEW off \in Nat, NEW o \in Nat,
           NEW size \in Nat, NEW allow \in BOOLEAN, NEW d,
           d = AskCtx(c, b, p, off, o, size, allow)
    PROVE  IsAsked(d, b, p, off, o, size, allow)
    BY DEF CtxT, AskCtx, IsAsked

ShiftBuf(b, n) == [b EXCEPT !.start = @ + n, !.pos = @ + n, !.last = @ + n]
IsShifted(d, b, n) ==
    /\ d \in Buf /\ d.start = b.start + n /\ d.pos = b.pos + n /\ d.last = b.last + n
    /\ d.blk = b.blk /\ d.end = b.end

\* A buffer whose first bytes are left free for the prefix.
LEMMA ShiftedBuf ==
    ASSUME NEW b \in Buf, NEW n \in Int, NEW d, d = ShiftBuf(b, n)
    PROVE  IsShifted(d, b, n)
<1> DEFINE x == b.start + n
           y == b.pos + n
           z == b.last + n
<1>1. b.blk \in Int /\ b.end \in Int /\ x \in Int /\ y \in Int /\ z \in Int
    BY DEF Buf
<1>2. d = [b EXCEPT !.start = x, !.pos = y, !.last = z]
    BY DEF ShiftBuf
<1> HIDE DEF x, y, z
<1>3. /\ d \in Buf /\ d.start = x /\ d.pos = y /\ d.last = z /\ d.blk = b.blk /\ d.end = b.end
    BY <1>1, <1>2 DEF Buf
<1> QED
    BY <1>3 DEF x, y, z, IsShifted

\* ngx_http_vod_async_read
LEMMA AsyncRead ==
    ASSUME IsMemory(mem), ctx \in CtxT, BufferOK(mem, ctx), ctx.prefix_buffer = NoBuf,
           HeldAt(mem, ctx.read_buffer.blk, 0, ctx.read_buffer.last, ctx.read_offset),
           NEW req, req.read_offset \in Nat, req.allow_empty \in BOOLEAN, ReadSize(req) \in Nat,
           PrefixSize(AlignDown(req.read_offset)) < ReadSize(req)
    PROVE  RangeAsked(async_read(req), req.read_offset, AlignDown(req.read_offset), ReadSize(req),
                      PrefixSize(AlignDown(req.read_offset)), req.allow_empty)
<1> DEFINE o == req.read_offset
           off == AlignDown(o)
           size == ReadSize(req)
           pre == PrefixSize(off)
           b == ctx.read_buffer
           cut == [b EXCEPT !.pos = b.last - pre]
           kept == IF pre > 0 THEN cut ELSE ctx.prefix_buffer
           old == IF pre > 0 THEN NoBuf ELSE b
           a == alloc_read_buffer(old, size + AllocExtraSize)
           shift == IF kept.start # NULL THEN pre ELSE 0
           new == ShiftBuf(a.buf, shift)
           d == AskCtx(ctx, new, kept, off, o, size, req.allow_empty)
           r == async_read(req)
<1>1. r = [mem |-> a.mem, ctx |-> d, from |-> off + pre, to |-> off + size]
    BY DEF async_read, AskCtx, ShiftBuf
<1>2. off \in Nat /\ off <= o /\ o \in Nat /\ size \in Nat /\ pre < size
    BY Aligned
<1>3. /\ ctx.read_offset \in Nat /\ b \in Buf /\ b.last \in Int /\ b.end \in Int
      /\ b.blk \in Int /\ Buffered(b) = b.last - b.pos
    BY CtxFields
<1>4. b.start = 0 /\ b.pos = 0 /\ 0 <= b.last /\ HasBlock(mem, b.blk, b.end)
  <2>1. PreLen(ctx) = 0
      BY DEF PreLen, NoBuf
  <2> QED
      BY <2>1 DEF BufferOK
<1>5. /\ pre \in Nat
      /\ pre > 0 => ctx.read_offset <= off /\ off + pre = ctx.read_offset + b.last
  <2> DEFINE end == ctx.read_offset + Buffered(b)
  <2>1. end = ctx.read_offset + b.last
      BY <1>3, <1>4
  <2>2. pre = IF b.start # NULL /\ off >= ctx.read_offset /\ off < end THEN end - off ELSE 0
      BY DEF PrefixSize
  <2> HIDE DEF off, pre, b, end
  <2> QED
      BY <1>2, <1>3, <2>1, <2>2
<1>6. NoBuf \in Buf /\ NoBuf.start = NULL
    BY DEF NoBuf, Buf, NULL
<1>7. cut \in Buf /\ cut.start = 0 /\ cut.pos = b.last - pre /\ cut.last = b.last /\ cut.blk = b.blk
  <2> HIDE DEF pre
  <2>1. b.last - pre \in Int
      BY <1>3, <1>5
  <2> QED
      BY <1>3, <1>4, <2>1 DEF Buf
<1>8. kept \in Buf /\ shift = pre /\ (pre = 0 => kept = NoBuf)
  <2>1. CASE pre > 0
    <3>1. kept = cut
        BY <2>1
    <3> HIDE DEF cut, kept, pre
    <3> QED
        BY <1>5, <1>7, <2>1, <3>1 DEF NULL
  <2>2. CASE ~(pre > 0)
    <3>1. pre = 0
        BY <1>5, <2>2
    <3>2. kept = NoBuf
        BY <2>2
    <3> HIDE DEF kept, pre
    <3> QED
        BY <1>6, <3>1, <3>2
  <2> QED
      BY <2>1, <2>2
<1>9. old \in Buf /\ (old.start # NULL => HasBlock(mem, old.blk, old.end) /\ old.start = 0)
  <2>1. old = NoBuf \/ old = b
      OBVIOUS
  <2> HIDE DEF old, b
  <2> QED
      BY <1>3, <1>4, <1>6, <2>1
<1>10. Allocated(mem, old, a, size + AllocExtraSize)
  <2>1. size + AllocExtraSize \in Nat
      BY <1>2, Sizes
  <2> HIDE DEF old, size
  <2> QED
      BY <1>9, <2>1, AllocFacts
<1>11. pre > 0 => old = NoBuf
    OBVIOUS
<1> HIDE DEF a, old, kept, shift, pre, size, off, b, o, cut
<1>12. /\ new \in Buf /\ new.start = pre /\ new.pos = pre /\ new.last = pre
       /\ new.blk = a.buf.blk /\ new.end = a.buf.end
  <2>1. a.buf \in Buf /\ a.buf.start = 0 /\ a.buf.pos = 0 /\ a.buf.last = 0
      BY <1>10 DEF Allocated
  <2>2. /\ new \in Buf /\ new.start = 0 + shift /\ new.pos = 0 + shift /\ new.last = 0 + shift
        /\ new.blk = a.buf.blk /\ new.end = a.buf.end
    <3>1. shift \in Int /\ a.buf \in Buf
        BY <1>5, <1>8, <2>1
    <3>2. IsShifted(new, a.buf, shift)
        BY <3>1, ShiftedBuf
    <3> QED
        BY <2>1, <3>2 DEF IsShifted
  <2> HIDE DEF new
  <2> QED
      BY <1>5, <1>8, <2>2
<1> HIDE DEF new
<1>13. /\ d \in CtxT /\ d.read_buffer = new /\ d.prefix_buffer = kept /\ d.read_offset = off
       /\ d.requested_offset = o /\ d.read_size = size /\ d.allow_empty = req.allow_empty
  <2>1. IsAsked(d, new, kept, off, o, size, req.allow_empty)
      BY <1>2, <1>8, <1>12, AskedCtx
  <2> QED
      BY <2>1 DEF IsAsked
<1> HIDE DEF d
<1>14. PreLen(d) = pre
  <2>1. CASE pre = 0
      BY <1>6, <1>8, <1>13, <2>1 DEF PreLen
  <2>2. CASE pre > 0
    <3>1. kept = cut
        BY <2>2 DEF kept
    <3>2. Buffered(cut) = pre
        BY <1>3, <1>5, <1>7 DEF Buffered
    <3> QED
        BY <1>7, <1>13, <3>1, <3>2 DEF PreLen, NULL
  <2> QED
      BY <1>5, <2>1, <2>2
<1>15. BufferOK(a.mem, d)
  <2>1. HasBlock(a.mem, new.blk, new.end)
      BY <1>10, <1>12 DEF Allocated
  <2>2. size < new.end
    <3>1. a.buf \in Buf /\ a.buf.end >= size + AllocExtraSize + Padding
        BY <1>10 DEF Allocated
    <3>2. a.buf.end \in Int
        BY <3>1 DEF Buf
    <3> QED
        BY <1>2, <1>12, <3>1, <3>2, Sizes
  <2> QED
      BY <1>2, <1>5, <1>12, <1>13, <1>14, <2>1, <2>2 DEF BufferOK
<1>16. PrefixOK(a.mem, d)
  <2>1. CASE pre = 0
      BY <1>8, <1>13, <2>1 DEF PrefixOK
  <2>2. CASE pre > 0
    <3>1. kept = cut
        BY <2>2 DEF kept
    <3>2. b.blk \in 1 .. Len(mem)
        BY <1>4 DEF HasBlock
    <3>3. /\ Len(mem) \in Nat /\ Len(mem) <= Len(a.mem) /\ Len(a.mem) \in Nat
          /\ a.mem[b.blk] = mem[b.blk] /\ new.blk = Len(mem) + 1
        BY <1>10, <1>11, <1>12, <2>2, <3>2 DEF Allocated
    <3>4. cut.blk \in 1 .. Len(a.mem) /\ cut.blk # new.blk
        BY <1>7, <3>2, <3>3
    <3>5. Buffered(cut) = pre
        BY <1>3, <1>5, <1>7 DEF Buffered
    <3>6. HeldAt(a.mem, cut.blk, cut.pos, pre, off)
      <4> SUFFICES ASSUME NEW i \in 0 .. pre - 1
                   PROVE  mem[b.blk].bytes[b.last - pre + i] = off + i
          BY <1>7, <3>3 DEF HeldAt
      <4> DEFINE x == b.last - pre + i
      <4>1. x \in 0 .. b.last - 1 /\ 0 + x = x /\ ctx.read_offset + x = off + i
          BY <1>2, <1>3, <1>4, <1>5, <2>2
      <4>2. \A y \in 0 .. b.last - 1 : mem[b.blk].bytes[0 + y] = ctx.read_offset + y
          BY DEF HeldAt, b
      <4> HIDE DEF x
      <4>3. mem[b.blk].bytes[0 + x] = ctx.read_offset + x
          BY <4>1, <4>2
      <4>4. mem[b.blk].bytes[x] = off + i
          BY <4>1, <4>3
      <4> QED
          BY <4>4 DEF x
    <3> QED
        BY <1>7, <1>13, <3>1, <3>4, <3>5, <3>6 DEF PrefixOK, NULL
  <2> QED
      BY <1>5, <2>1, <2>2
<1>17. off + pre = ReadEnd(d) /\ off + size = AskedEnd(d)
    BY <1>12, <1>13 DEF ReadEnd, AskedEnd
<1>18. r.mem = a.mem /\ r.ctx = d /\ r.from = off + pre /\ r.to = off + size
    BY <1>1
<1>19. IsMemory(a.mem)
    BY <1>10 DEF Allocated
<1> HIDE DEF r
<1>20. RangeAsked(r, o, off, size, pre, req.allow_empty)
    BY <1>12, <1>13, <1>15, <1>16, <1>17, <1>18, <1>19 DEF RangeAsked
<1> QED
    BY <1>20 DEF r, o, off, size, pre

\* The bytes that a file has of a range.
LEMMA SizeInFacts ==
    ASSUME NEW j, j.length \in Nat, NEW from \in Nat, NEW to \in Nat, from < to
    PROVE  /\ SizeIn(j, from, to) \in Nat /\ SizeIn(j, from, to) <= to - from
           /\ SizeIn(j, from, to) = 0 => j.length <= from
           /\ from + SizeIn(j, from, to) < to => j.length <= from + SizeIn(j, from, to)
           /\ from <= j.length => from + SizeIn(j, from, to) <= j.length
    BY DEF SizeIn, Smaller

\* What ngx_async_file_read reads.
LEMMA FileRange ==
    ASSUME NEW j, j.length \in Nat, NEW from \in Nat, NEW to \in Nat, from < to
    PROVE  LET b == Range(Smaller(from, j.length), Smaller(to, j.length))
           IN  BytesFrom(b, from) /\ Len(b) = SizeIn(j, from, to)
<1> DEFINE x == Smaller(from, j.length)
           n == SizeIn(j, from, to)
           b == [i \in 1 .. n |-> x + i - 1]
<1>1. n \in Nat /\ x \in Nat /\ (n = 0 \/ x = from) /\ n = Smaller(to, j.length) - x
    BY DEF SizeIn, Smaller
<1>2. Range(x, Smaller(to, j.length)) = b
    BY <1>1 DEF Range
<1> HIDE DEF x, n
<1>3. b \in Seq(Int) /\ Len(b) = n /\ \A i \in 1 .. n : b[i] = x + i - 1
    BY <1>1
<1> HIDE DEF b
<1>4. \A i \in 1 .. n : b[i] = from + i - 1
    BY <1>1, <1>3, SMTT(20)
<1> QED
    BY <1>2, <1>3, <1>4 DEF BytesFrom, x, n

-----------------------------------------------------------------------------
(* Steps that start and end a read *)

\* What is known of the file of a job.
LEMMA FileFacts ==
    ASSUME IInv
    PROVE  /\ job \in Job /\ IsFile(job) /\ job.length \in Nat /\ job.plain \in Nat
           /\ job.encrypted \in BOOLEAN /\ job.compressed \in BOOLEAN
           /\ job.encrypted => job.kind = "text"
           /\ ~job.encrypted => job.plain = job.length
<1>1. job \in Job /\ IsFile(job)
    BY JobsAssumption DEF IInv
<1>2. job.length \in Nat /\ job.plain \in Nat /\ job.encrypted \in BOOLEAN /\ job.compressed \in BOOLEAN
    BY <1>1 DEF Job
<1> QED
    BY <1>1, <1>2 DEF IsFile

\* Where the reader is in the file does not depend on how a range was read.
LEMMA ReaderKept ==
    ASSUME NEW j, NEW c, NEW d, NEW r, NEW pc, NEW pd,
           d.read_offset = c.read_offset, d.requested_offset = c.requested_offset,
           d.read_size = c.read_size, \A x : Reaches(c, pc, x) => Reaches(d, pd, x),
           ReaderOK(j, c, r, pc)
    PROVE  ReaderOK(j, d, r, pd)
<1>1. CASE j.kind = "mp4"
  <2>1. Mp4Reader(j, c, r, pc)
      BY <1>1 DEF ReaderOK
  <2>2. \A k \in Nat : SearchAt(j, c, r, k) => SearchAt(j, d, r, k)
      BY DEF SearchAt
  <2>3. Mp4Reader(j, d, r, pd)
      BY <2>1, <2>2 DEF Mp4Reader
  <2> QED
      BY <1>1, <2>3 DEF ReaderOK
<1>2. CASE j.kind # "mp4"
  <2>1. TextReader(c, r, pc)
      BY <1>2 DEF ReaderOK
  <2>2. TextReader(d, r, pd)
      BY <2>1 DEF TextReader
  <2> QED
      BY <1>2, <2>2 DEF ReaderOK
<1> QED
    BY <1>1, <1>2

\* The place of the request with the range it reads, or with what is parsed.
LEMMA PlaceValues ==
    ASSUME NEW s, IsPlace(s), NEW v, NEW w, NEW x, NEW y
    PROVE  /\ ReadsAt(s, v, w, x).from = w /\ ReadsAt(s, v, w, x).to = x
           /\ ParsesAt(s, v, w, x, y).blk = w /\ ParsesAt(s, v, w, x, y).at = x
           /\ ParsesAt(s, v, w, x, y).len = y
           /\ EndsAt(s, v, w).len = s.len /\ EndsAt(s, v, w).blk = s.blk
<1>1. PICK V : s \in PlaceRec(V)
    BY DEF IsPlace
<1> QED
    BY <1>1 DEF PlaceRec, ReadsAt, ParsesAt, EndsAt

\* A range is read from a file or by a child.
LEMMA RangeStarts ==
    ASSUME IInv, job.kind \in {"mp4", "text"}, Quiet(child, parent), IsReader(reader'),
           NEW r, start_read(r),
           IsMemory(r.mem), r.ctx \in CtxT, BufferOK(r.mem, r.ctx), PrefixOK(r.mem, r.ctx),
           r.from = ReadEnd(r.ctx), r.to = AskedEnd(r.ctx), ReadingOK(job, r.ctx),
           \A pc \in ReadingPcs : ReaderOK(job, r.ctx, reader', pc)
    PROVE  ReadOK(job, mem', ctx', reader', st', child', parent')
<1>1. mem' = r.mem /\ ctx' = r.ctx
    BY DEF start_read
<1>2. /\ ReadEnd(r.ctx) \in Nat /\ AskedEnd(r.ctx) \in Nat /\ ReadEnd(r.ctx) < AskedEnd(r.ctx)
  <2>1. /\ r.ctx.read_offset \in Nat /\ r.ctx.read_size \in Nat /\ r.ctx.read_buffer.last \in Int
        /\ r.ctx.read_buffer.start \in Int /\ PreLen(r.ctx) \in Int
        /\ ReadEnd(r.ctx) = r.ctx.read_offset + r.ctx.read_buffer.last
        /\ AskedEnd(r.ctx) = r.ctx.read_offset + r.ctx.read_size
      BY CtxFields
  <2>2. /\ 0 <= PreLen(r.ctx) /\ r.ctx.read_buffer.start = PreLen(r.ctx)
        /\ r.ctx.read_buffer.last = r.ctx.read_buffer.start
        /\ r.ctx.read_buffer.start < r.ctx.read_size
      BY DEF BufferOK, ReadingOK
  <2> QED
      BY <2>1, <2>2
<1>3. IsPlace(st) /\ IsParent(parent)
    BY DEF IInv
<1>4. CASE job.transport = "http"
  <2> DEFINE room == r.ctx.read_buffer.end - r.ctx.read_buffer.last
  <2>1. started(Ask(TRUE, TRUE, r.from, r.to, room, FALSE), job.client) /\ st' = At(st, "child")
      BY <1>4 DEF start_read, At
  <2>2. /\ child' = StartedChild(Ask(TRUE, TRUE, r.from, r.to, room, FALSE), job.client)
        /\ parent' = parent
      BY <2>1 DEF started, StartedChild
  <2>3. StartedIs(child', TRUE, r.from, r.to, FALSE)
      BY <2>2, StartedFields
  <2>4. IsPlace(st') /\ st'.pc = "child"
      BY <1>3, <2>1, PlaceFields
  <2>5. /\ child'.state = "posted" /\ child'.in_memory = TRUE /\ child'.status = 0
        /\ child'.body = <<>> /\ child'.send_header_result = OK
        /\ child'.from = ReadEnd(r.ctx) /\ child'.to = AskedEnd(r.ctx)
      BY <1>2, <2>3 DEF StartedIs
  <2>6. BytesFrom(<<>>, ReadEnd(r.ctx)) /\ Len(<<>>) <= SizeIn(job, ReadEnd(r.ctx), AskedEnd(r.ctx))
    <3>1. BytesFrom(<<>>, ReadEnd(r.ctx))
        BY DEF BytesFrom
    <3>2. SizeIn(job, ReadEnd(r.ctx), AskedEnd(r.ctx)) \in Nat
        BY <1>2, FileFacts, SizeInFacts
    <3>3. Len(<<>>) = 0
        OBVIOUS
    <3> QED
        BY <3>1, <3>2, <3>3
  <2>7. ReadChild(job, child', parent', ReadEnd(r.ctx), AskedEnd(r.ctx))
    <3>0. parent'.wev = "own"
        BY <2>2, Zenon DEF Quiet
    <3>1. child'.status # 206 /\ child'.status # 416 /\ parent'.wev # "child"
        BY <2>5, <3>0
    <3>2. BytesFrom(child'.body, ReadEnd(r.ctx))
          /\ Len(child'.body) <= SizeIn(job, ReadEnd(r.ctx), AskedEnd(r.ctx))
        BY <2>5, <2>6
    <3> QED
        BY <2>5, <3>1, <3>2 DEF ReadChild
  <2>8. BytesOK(job, mem', ctx', reader', st')
      BY <1>1, <2>4 DEF BytesOK, ReadingPcs, GotPcs
  <2> QED
      BY <1>1, <2>4, <2>7, <2>8 DEF ReadOK, ReadPcs
<1>5. CASE job.transport # "http"
  <2>1. PICK pc \in {"read", "aio"} : st' = ReadsAt(st, pc, r.from, r.to) /\ UNCHANGED childVars
      BY <1>5 DEF start_read, ReadsAt
  <2>2. child' = child /\ parent' = parent
      BY <2>1 DEF childVars
  <2>3. IsPlace(st') /\ st'.pc = pc /\ st'.from = r.from /\ st'.to = r.to
      BY <1>3, <2>1, PlaceFields, PlaceValues
  <2>4. BytesOK(job, mem', ctx', reader', st')
      BY <1>1, <2>1, <2>3 DEF BytesOK, ReadingPcs, GotPcs
  <2> QED
      BY <1>1, <2>1, <2>2, <2>3, <2>4 DEF ReadOK, ReadPcs, ReadingPcs
<1> QED
    BY <1>4, <1>5

\* The request while a range is read.
LEMMA WhileReading ==
    ASSUME IInv, ReadOK(job, mem, ctx, reader, st, child, parent), st.pc \in ReadingPcs
    PROVE  /\ IsMemory(mem) /\ ctx \in CtxT /\ IsReader(reader)
           /\ BufferOK(mem, ctx) /\ PrefixOK(mem, ctx) /\ ReaderOK(job, ctx, reader, st.pc)
           /\ ReadingOK(job, ctx)
           /\ ReadEnd(ctx) \in Nat /\ AskedEnd(ctx) \in Nat /\ ReadEnd(ctx) < AskedEnd(ctx)
           /\ ctx.read_buffer.last \in Nat
<1>1. /\ IsMemory(mem) /\ ctx \in CtxT /\ IsReader(reader)
      /\ BufferOK(mem, ctx) /\ PrefixOK(mem, ctx) /\ ReaderOK(job, ctx, reader, st.pc)
      /\ ReadingOK(job, ctx)
    BY DEF ReadOK, BytesOK
<1>2. /\ ctx.read_offset \in Nat /\ ctx.read_size \in Nat /\ ctx.read_buffer.last \in Int
      /\ ctx.read_buffer.start \in Int /\ PreLen(ctx) \in Int
      /\ ReadEnd(ctx) = ctx.read_offset + ctx.read_buffer.last
      /\ AskedEnd(ctx) = ctx.read_offset + ctx.read_size
    BY <1>1, CtxFields
<1>3. /\ 0 <= PreLen(ctx) /\ ctx.read_buffer.start = PreLen(ctx)
      /\ ctx.read_buffer.last = ctx.read_buffer.start
      /\ ctx.read_buffer.start < ctx.read_size
    BY <1>1 DEF BufferOK, ReadingOK
<1> QED
    BY <1>1, <1>2, <1>3

Advance(c, n) == [c EXCEPT !.read_buffer.last = @ + n]

\* The read state is the same but for the end of what was read.
IsAdvanced(d, c, n) ==
    /\ d \in CtxT /\ d.read_offset = c.read_offset /\ d.requested_offset = c.requested_offset
    /\ d.read_size = c.read_size /\ d.prefix_buffer = c.prefix_buffer
    /\ d.read_buffer.blk = c.read_buffer.blk /\ d.read_buffer.start = c.read_buffer.start
    /\ d.read_buffer.pos = c.read_buffer.pos /\ d.read_buffer.end = c.read_buffer.end
    /\ d.read_buffer.last = c.read_buffer.last + n
    /\ d.allow_empty = c.allow_empty

\* The buffer ends after the bytes that were read.
LEMMA Advanced ==
    ASSUME NEW c \in CtxT, NEW n \in Int
    PROVE  IsAdvanced(Advance(c, n), c, n)
<1> DEFINE x == c.read_buffer.last + n
           b == [c.read_buffer EXCEPT !.last = x]
           d == Advance(c, n)
<1>1. c.read_buffer \in Buf /\ x \in Int
    BY DEF CtxT, Buf
<1>2. d = [c EXCEPT !.read_buffer = b]
    BY DEF Advance
<1> HIDE DEF x, d
<1>3. /\ b \in Buf /\ b.last = x /\ b.blk = c.read_buffer.blk /\ b.start = c.read_buffer.start
      /\ b.pos = c.read_buffer.pos /\ b.end = c.read_buffer.end
    BY <1>1 DEF Buf
<1> HIDE DEF b
<1>4. /\ d \in CtxT /\ d.read_offset = c.read_offset /\ d.requested_offset = c.requested_offset
      /\ d.read_size = c.read_size /\ d.prefix_buffer = c.prefix_buffer /\ d.read_buffer = b
      /\ d.allow_empty = c.allow_empty
    BY <1>2, <1>3 DEF CtxT
<1> QED
    BY <1>3, <1>4 DEF IsAdvanced, d, x

\* A range was read as far as the file goes.
LEMMA RangeRead ==
    ASSUME IInv, ReadOK(job, mem, ctx, reader, st, child, parent), st.pc \in ReadingPcs,
           NEW bytes, BytesFrom(bytes, ReadEnd(ctx)),
           Len(bytes) = SizeIn(job, ReadEnd(ctx), AskedEnd(ctx)),
           NEW m, m = Filled(bytes), NEW d, d = Advance(ctx, Len(bytes))
    PROVE  /\ IsMemory(m) /\ d \in CtxT
           /\ BufferOK(m, d) /\ PrefixOK(m, d) /\ ReaderOK(job, d, reader, "result")
           /\ GotOK(job, m, d)
<1> DEFINE n == Len(bytes)
           b == ctx.read_buffer
           z == PreLen(ctx)
<1>1. /\ IsMemory(mem) /\ ctx \in CtxT /\ BufferOK(mem, ctx) /\ PrefixOK(mem, ctx)
      /\ ReaderOK(job, ctx, reader, st.pc) /\ ReadingOK(job, ctx)
      /\ ReadEnd(ctx) \in Nat /\ AskedEnd(ctx) \in Nat /\ ReadEnd(ctx) < AskedEnd(ctx)
      /\ b.last \in Nat
    BY WhileReading
<1>2. /\ n \in Nat /\ n <= AskedEnd(ctx) - ReadEnd(ctx)
      /\ ReadEnd(ctx) + n < AskedEnd(ctx) => job.length <= ReadEnd(ctx) + n
      /\ ReadEnd(ctx) <= job.length => ReadEnd(ctx) + n <= job.length
      /\ job.length \in Nat
    BY <1>1, FileFacts, SizeInFacts
<1>3. IsAdvanced(d, ctx, n)
    BY <1>1, <1>2, Advanced
<1>4. /\ ctx.read_offset \in Nat /\ ctx.read_size \in Nat /\ ctx.requested_offset \in Nat
      /\ z \in Int /\ b.end \in Int /\ b.pos \in Int
      /\ ReadEnd(ctx) = ctx.read_offset + b.last /\ AskedEnd(ctx) = ctx.read_offset + ctx.read_size
    BY <1>1, CtxFields
<1>5. /\ HasBlock(mem, b.blk, b.end) /\ b.start = z /\ b.pos = z /\ 0 <= z /\ b.last = z
      /\ b.last < ctx.read_size /\ ctx.read_size < b.end /\ ctx.read_offset <= ctx.requested_offset
      /\ ctx.requested_offset < AskedEnd(ctx)
    BY <1>1 DEF BufferOK, ReadingOK
<1> DEFINE last == b.last
           size == ctx.read_size
           off == ctx.read_offset
           from == ReadEnd(ctx)
           to == AskedEnd(ctx)
           end == b.end
           len == job.length
<1>6. /\ last \in Nat /\ size \in Nat /\ off \in Nat /\ n \in Nat /\ end \in Int /\ len \in Nat
      /\ z = last /\ from = off + last /\ to = off + size /\ n <= to - from /\ size < end
      /\ from + n < to => len <= from + n
      /\ from <= len => from + n <= len
    BY <1>1, <1>2, <1>4, <1>5, Zenon
<1> HIDE DEF n, b, z, last, size, off, from, to, end, len
<1>6a. last + n <= size /\ last + n <= end /\ 0 <= last /\ last <= last + n /\ from \in Int
    BY <1>6
<1>7. ReadInto(mem, m, b.blk, last, bytes, from)
  <2>1. HasBlock(mem, ctx.read_buffer.blk, ctx.read_buffer.end)
      BY <1>5 DEF b
  <2>2. /\ ctx.read_buffer.end \in Int /\ ReadEnd(ctx) \in Int /\ 0 <= ctx.read_buffer.last
        /\ ctx.read_buffer.last + Len(bytes) <= ctx.read_buffer.end
      BY <1>6, <1>6a DEF b, n, last, end, from
  <2>3. ReadInto(mem, m, ctx.read_buffer.blk, ctx.read_buffer.last, bytes, ReadEnd(ctx))
      BY <1>1, <2>1, <2>2, FilledFacts
  <2> QED
      BY <2>3 DEF b, last, from
<1>8. /\ d.read_buffer.blk = b.blk /\ d.read_buffer.end = b.end /\ d.read_buffer.start = last
      /\ d.read_buffer.pos = last /\ d.read_buffer.last = last + n
      /\ d.read_size = size /\ d.read_offset = off /\ d.prefix_buffer = ctx.prefix_buffer
      /\ d.requested_offset = ctx.requested_offset
    BY <1>3, <1>5, Zenon DEF IsAdvanced, b, last, size, off
<1>8a. PreLen(d) = last /\ AskedEnd(d) = to /\ ReadEnd(d) = from + n
  <2>1. PreLen(d) = z
      BY <1>8, Zenon DEF PreLen, z
  <2>2. AskedEnd(d) = off + size
      BY <1>8, Zenon DEF AskedEnd
  <2>3. ReadEnd(d) = off + (last + n)
      BY <1>8, Zenon DEF ReadEnd
  <2> QED
      BY <1>6, <2>1, <2>2, <2>3
<1>9. BufferOK(m, d)
  <2>1. HasBlock(m, b.blk, b.end)
    <3>1. /\ Len(m) = Len(mem) /\ m[b.blk].freed = mem[b.blk].freed
          /\ DOMAIN m[b.blk].bytes = DOMAIN mem[b.blk].bytes
        BY <1>7, Zenon DEF ReadInto
    <3> QED
        BY <1>5, <3>1, Zenon DEF HasBlock
  <2>2. size < b.end /\ off <= ctx.requested_offset
      BY <1>5, Zenon DEF size, off
  <2>3. HasBlock(m, d.read_buffer.blk, d.read_buffer.end)
      BY <1>8, <2>1, Zenon
  <2> QED
      BY <1>6a, <1>8, <1>8a, <2>2, <2>3, Zenon DEF BufferOK
<1>10. PrefixOK(m, d)
  <2>1. d.prefix_buffer = ctx.prefix_buffer /\ d.read_buffer.blk = b.blk
        /\ d.read_offset = ctx.read_offset
      BY <1>8 DEF off
  <2>2. CASE ctx.prefix_buffer = NoBuf
      BY <2>1, <2>2 DEF PrefixOK
  <2>3. CASE ctx.prefix_buffer # NoBuf
    <3> DEFINE p == ctx.prefix_buffer
    <3>1. /\ p.blk \in 1 .. Len(mem) /\ p.blk # b.blk /\ p.start # NULL
          /\ HeldAt(mem, p.blk, p.pos, Buffered(p), ctx.read_offset)
        BY <1>1, <2>3 DEF PrefixOK, b
    <3>2. m[p.blk] = mem[p.blk] /\ Len(m) = Len(mem)
        BY <1>7, <3>1 DEF ReadInto
    <3>3. HeldAt(m, p.blk, p.pos, Buffered(p), ctx.read_offset)
        BY <3>1, <3>2 DEF HeldAt
    <3> QED
        BY <2>1, <3>1, <3>2, <3>3 DEF PrefixOK
  <2> QED
      BY <2>2, <2>3
<1>11. ReaderOK(job, d, reader, "result")
  <2>1. \A x : Reaches(ctx, st.pc, x) => Reaches(d, "result", x)
    <3>1. st.pc \notin {"result", "parse"}
        BY DEF ReadingPcs
    <3> QED
        BY <1>8a, <3>1 DEF Reaches, to
  <2>2. /\ d.read_offset = ctx.read_offset /\ d.requested_offset = ctx.requested_offset
        /\ d.read_size = ctx.read_size
      BY <1>8 DEF off, size
  <2> QED
      BY <1>1, <2>1, <2>2, ReaderKept
<1>12. GotOK(job, m, d)
  <2>1. Buffered(d.read_buffer) = n
    <3>1. Buffered(d.read_buffer) = (last + n) - last
        BY <1>8, Zenon DEF Buffered
    <3> QED
        BY <1>6, <3>1
  <2>2. HeldAt(m, b.blk, last, n, from)
      BY <1>7, Zenon DEF ReadInto, n
  <2>3. HeldAt(m, d.read_buffer.blk, d.read_buffer.pos, Buffered(d.read_buffer),
               d.read_offset + PreLen(d))
      BY <1>6, <1>8, <1>8a, <2>1, <2>2, Zenon
  <2>4. last + n < size => len <= from + n
      BY <1>6
  <2>5. d.read_buffer.last < d.read_size => job.length <= ReadEnd(d)
      BY <1>8, <1>8a, <2>4, Zenon DEF len
  <2>6. d.requested_offset < AskedEnd(d)
      BY <1>5, <1>8, <1>8a, Zenon DEF to
  <2>7. job.kind = "text" => last + n <= len
    <3> SUFFICES ASSUME job.kind = "text" PROVE last + n <= len
        OBVIOUS
    <3>1. off = 0
        BY <1>1 DEF ReaderOK, TextReader, off
    <3>2. last <= len
        BY <1>1, <1>5, <1>6, Zenon DEF ReadingOK, b, last, len
    <3> QED
        BY <1>6, <3>1, <3>2
  <2> QED
      BY <1>8, <2>3, <2>5, <2>6, <2>7, Zenon DEF GotOK, len
<1>13. IsMemory(m) /\ d \in CtxT
  <2>1. IsMemory(m)
      BY <1>7, Zenon DEF ReadInto
  <2>2. d \in CtxT
      BY <1>3 DEF IsAdvanced
  <2> QED
      BY <2>1, <2>2
<1> QED
    BY <1>9, <1>10, <1>11, <1>12, <1>13


-----------------------------------------------------------------------------
(* The child that reads a range *)

\* Without a child at work the upstream does nothing.
LEMMA NoUpstream ==
    ASSUME Quiet(child, parent)
    PROVE  ~UpstreamSteps
    BY DEF Quiet, UpstreamSteps, initial_wev_handler, header_filter, body_received,
           finished_handler, no_output_buffer

\* The child after a step that only changes its state.
LEMMA SameRead ==
    ASSUME NEW j, NEW c, NEW p, NEW from, NEW to, ReadChild(j, c, p, from, to),
           NEW d, NEW q, SameChild(c, d),
           d.state \in {"running", "refused", "finished", "lost"},
           q.wev = "child" => d.state = "finished",
           d.state = "running" => d.upstream = TRUE,
           d.state = "finished" => d.error_code \in Codes /\ (d.error_code = OK => d.upstream = TRUE)
    PROVE  ReadChild(j, d, q, from, to)
<1>1. /\ d.in_memory = c.in_memory /\ d.from = c.from /\ d.to = c.to /\ d.status = c.status
      /\ d.content_length = c.content_length /\ d.body = c.body
      /\ d.send_header_result = c.send_header_result
    BY DEF SameChild
<1>2. /\ c.in_memory = TRUE /\ c.from = from /\ c.to = to /\ c.send_header_result = OK
      /\ BytesFrom(c.body, from) /\ Len(c.body) <= SizeIn(j, from, to)
      /\ c.status = 206 => c.content_length = SizeIn(j, from, to) /\ SizeIn(j, from, to) > 0
      /\ c.status = 416 => SizeIn(j, from, to) = 0
      /\ c.status # 206 => c.body = <<>>
    BY DEF ReadChild
<1>3. /\ d.in_memory = TRUE /\ d.from = from /\ d.to = to /\ d.send_header_result = OK
      /\ BytesFrom(d.body, from) /\ Len(d.body) <= SizeIn(j, from, to)
      /\ d.status = 206 => d.content_length = SizeIn(j, from, to) /\ SizeIn(j, from, to) > 0
      /\ d.status = 416 => SizeIn(j, from, to) = 0
      /\ d.status # 206 => d.body = <<>>
    BY <1>1, <1>2, ZenonT(40)
<1> QED
    BY <1>3 DEF ReadChild

\* The header of the response.
LEMMA ReadHeader ==
    ASSUME IInv, NEW from, NEW to, ReadChild(job, child, parent, from, to),
           SizeIn(job, from, to) \in Nat,
           NEW length, length = SizeIn(job, from, to), header_filter(length)
    PROVE  ReadChild(job, child', parent', from, to)
<1>1. child.state = "running" /\ child.in_memory = TRUE /\ parent.wev # "child"
      /\ child.from = from /\ child.to = to
    BY DEF header_filter, ReadChild
<1>2a. PICK status \in Statuses(child, length), sent \in {OK, ERROR} :
          \E size \in ContentLengths(child, status, length) :
              LET forwards == ~child.in_memory /\ ~parent.header_sent
                  state == IF TooLarge(child, size) THEN "broken"
                           ELSE IF status = 206 THEN "body" ELSE "done"
                  body == IF ~child.in_memory /\ status = 500 THEN ErrorPage ELSE <<>>
              IN  /\ ~(forwards /\ status # 0) => sent = OK
                  /\ child' = HeaderSeen(child, status, size, state,
                                         body, forwards /\ status = 0, sent)
                  /\ parent' = Forwards(parent,
                                    parent.header_sent \/ (forwards /\ status # 0 /\ sent = OK),
                                    IF child.in_memory THEN parent.forwarded ELSE child'.body)
    BY DEF header_filter, HeaderSeen, Forwards
<1>2. PICK size \in ContentLengths(child, status, length) :
          LET forwards == ~child.in_memory /\ ~parent.header_sent
              state == IF TooLarge(child, size) THEN "broken"
                       ELSE IF status = 206 THEN "body" ELSE "done"
              body == IF ~child.in_memory /\ status = 500 THEN ErrorPage ELSE <<>>
          IN  /\ ~(forwards /\ status # 0) => sent = OK
              /\ child' = HeaderSeen(child, status, size, state,
                                     body, forwards /\ status = 0, sent)
              /\ parent' = Forwards(parent,
                                parent.header_sent \/ (forwards /\ status # 0 /\ sent = OK),
                                IF child.in_memory THEN parent.forwarded ELSE child'.body)
    BY <1>2a
<1> DEFINE forwards == ~child.in_memory /\ ~parent.header_sent
           state == IF TooLarge(child, size) THEN "broken"
                    ELSE IF status = 206 THEN "body" ELSE "done"
           body == IF ~child.in_memory /\ status = 500 THEN ErrorPage ELSE <<>>
           silent == forwards /\ status = 0
           heads == parent.header_sent \/ (forwards /\ status # 0 /\ sent = OK)
           told == IF child.in_memory THEN parent.forwarded ELSE child'.body
<1>3. /\ ~(forwards /\ status # 0) => sent = OK
      /\ child' = HeaderSeen(child, status, size, state, body, silent, sent)
      /\ parent' = Forwards(parent, heads, told)
    BY <1>2
<1>4. sent = OK /\ body = <<>>
    BY <1>1, <1>3
<1>5. /\ state \in {"broken", "body", "done"} /\ (state = "body" => status = 206)
      /\ status = 206 => size = length
    BY DEF ContentLengths
<1>6. (status = 206 => length > 0) /\ (status = 416 => length = 0)
    BY DEF Statuses
<1> HIDE DEF state, body, silent, heads, told, forwards
<1>7. HeaderIs(child', child, status, size, state, body, silent, sent)
    BY <1>3, HeaderFields DEF IInv
<1>8. parent'.wev = parent.wev
    BY <1>3, ParentFields DEF IInv
<1>9. /\ child'.in_memory = TRUE /\ child'.from = from /\ child'.to = to
      /\ child'.send_header_result = OK /\ child'.state = state /\ child'.body = <<>>
      /\ child'.status = status /\ child'.content_length = size /\ child'.upstream = TRUE
    BY <1>1, <1>4, <1>7, Zenon DEF HeaderIs
<1>10. BytesFrom(<<>>, from) /\ Len(<<>>) <= SizeIn(job, from, to)
    BY DEF BytesFrom
<1> QED
    BY <1>1, <1>5, <1>6, <1>8, <1>9, <1>10 DEF ReadChild

\* The length of a range.
LEMMA RangeLength ==
    ASSUME NEW from \in Nat, NEW n \in Nat
    PROVE  Range(from, from + n) \in Seq(Int) /\ Len(Range(from, from + n)) = n
<1>1. Range(from, from + n) = [i \in 1 .. n |-> from + i - 1]
    BY DEF Range
<1> QED
    BY <1>1

\* A piece of the body.
LEMMA ReadBody ==
    ASSUME IInv, NEW from \in Nat, NEW to, ReadChild(job, child, parent, from, to),
           SizeIn(job, from, to) \in Nat, body_received
    PROVE  ReadChild(job, child', parent', from, to)
<1> DEFINE l == Len(child.body)
           size == SizeIn(job, from, to)
<1>1. /\ child.state = "body" /\ l < child.content_length /\ child.from = from
      /\ parent.wev # "child" /\ child.status = 206 /\ child.content_length = size
      /\ BytesFrom(child.body, from) /\ l <= size
    BY DEF body_received, ReadChild
<1>2. PICK n \in {1, child.content_length - l} :
          child' = WithBody(child, child.body \o Range(child.from + l, child.from + l + n))
    BY DEF body_received, WithBody
<1> DEFINE more == Range(from + l, from + l + n)
           body == child.body \o more
           told == IF child.in_memory THEN parent.forwarded ELSE child'.body
<1>3. child' = WithBody(child, body) /\ parent' = ForwardsBody(parent, told)
    BY <1>1, <1>2 DEF body_received, ForwardsBody
<1>4. l \in Nat /\ child.body \in Seq(Int)
    BY <1>1 DEF BytesFrom
<1>5. n \in Nat /\ l + n <= size
  <2>1. size \in Nat
      OBVIOUS
  <2> HIDE DEF l, size
  <2> QED
      BY <1>1, <1>2, <1>4, <2>1
<1>6. n \in Nat
    BY <1>5
<1>6a. BytesFrom(body, from)
  <2>1. BytesFrom(child.body, from)
      BY <1>1
  <2> QED
      BY <1>6, <2>1, MoreBytes, Zenon
<1>7. Len(body) = l + n
  <2> DEFINE o == from + l
  <2>1. o \in Nat
      BY <1>4
  <2>2. more = Range(o, o + n)
      OBVIOUS
  <2> HIDE DEF more, o
  <2>3. more \in Seq(Int) /\ Len(more) = n
    <3>1. Range(o, o + n) \in Seq(Int) /\ Len(Range(o, o + n)) = n
        BY <1>6, <2>1, RangeLength
    <3> QED
        BY <2>2, <3>1
  <2>4. Len(child.body \o more) = Len(child.body) + Len(more)
      BY <1>4, <2>3, Appended
  <2> QED
      BY <2>3, <2>4
<1> HIDE DEF body, told, l, size, more
<1>8. /\ child'.body = body /\ child'.state = child.state /\ child'.in_memory = child.in_memory
      /\ child'.from = child.from /\ child'.to = child.to /\ child'.status = child.status
      /\ child'.content_length = child.content_length
      /\ child'.send_header_result = child.send_header_result
      /\ child'.upstream = child.upstream
    BY <1>3, BodyFields DEF IInv
<1>9. parent'.wev = parent.wev
    BY <1>3, ParentFields DEF IInv
<1>10. Len(child'.body) <= SizeIn(job, from, to) /\ BytesFrom(child'.body, from)
    BY <1>5, <1>6a, <1>7, <1>8 DEF size
<1>11. /\ child'.in_memory = TRUE /\ child'.from = from /\ child'.to = to
       /\ child'.send_header_result = OK /\ child'.state = "body" /\ child'.status = 206
       /\ child'.content_length = SizeIn(job, from, to) /\ SizeIn(job, from, to) > 0
       /\ child'.upstream = TRUE /\ parent'.wev # "child"
    BY <1>1, <1>8, <1>9 DEF ReadChild
<1> QED
    BY <1>10, <1>11 DEF ReadChild

\* The steps of the child and its upstream while a range is read.
LEMMA ReadUpstream ==
    ASSUME IInv, NEW from \in Nat, NEW to \in Nat, from < to,
           ReadChild(job, child, parent, from, to), UpstreamSteps
    PROVE  ReadChild(job, child', parent', from, to)
<1>1. SizeIn(job, from, to) \in Nat
    BY FileFacts, SizeInFacts
<1>2. IsChild(child) /\ IsParent(parent)
    BY DEF IInv
<1>3. CASE initial_wev_handler
  <2>1. PICK u \in BOOLEAN : child' = WithUpstream(child, IF u THEN "running" ELSE "refused", u)
      BY <1>3 DEF initial_wev_handler, WithUpstream
  <2>2. parent' = parent /\ child.state = "posted"
      BY <1>3 DEF initial_wev_handler
  <2>3. /\ SameChild(child, child') /\ child'.state = (IF u THEN "running" ELSE "refused")
        /\ child'.upstream = u
      BY <1>2, <2>1, UpstreamFields
  <2>4. child'.state \in {"running", "refused"} /\ (child'.state = "running" => child'.upstream = TRUE)
      BY <2>3
  <2>5. parent'.wev # "child"
      BY <2>2 DEF ReadChild
  <2> QED
      BY <2>3, <2>4, <2>5, SameRead
<1>4. CASE header_filter(Smaller(child.to, job.length) - Smaller(child.from, job.length))
  <2>1. Smaller(child.to, job.length) - Smaller(child.from, job.length) = SizeIn(job, from, to)
      BY DEF ReadChild, SizeIn
  <2> QED
      BY <1>1, <1>4, <2>1, ReadHeader
<1>5. CASE body_received
    BY <1>1, <1>5, ReadBody
<1>6. CASE finished_handler
  <2>1. PICK rc \in CompletionCodes(child) : child' = WithError(child, rc)
      BY <1>6 DEF finished_handler, WithError
  <2>2. /\ parent' = Handler(parent, "child")
        /\ child.state \in {"running", "body", "done", "broken", "refused"}
      BY <1>6 DEF finished_handler, Handler
  <2>3. /\ child'.state = "finished" /\ child'.error_code = rc /\ SameChild(child, child')
        /\ child'.upstream = child.upstream
      BY <1>2, <2>1, ErrorFields
  <2>4. rc \in Codes /\ (rc = OK => child.state \in {"body", "done"})
      BY <2>2 DEF CompletionCodes, Codes, OK, ERROR, BAD_GATEWAY
  <2>5. rc = OK => child'.upstream = TRUE
      BY <2>3, <2>4 DEF ReadChild
  <2> QED
      BY <2>3, <2>4, <2>5, SameRead
<1>7. CASE no_output_buffer
  <2>1. parent' = Handler(parent, "own") /\ child' = WithState(child, "lost")
      BY <1>7 DEF no_output_buffer, Handler, WithState
  <2>2. SameChild(child, child') /\ child'.state = "lost" /\ parent'.wev = "own"
      BY <1>2, <2>1, StateFields, ParentFields
  <2> QED
      BY <2>2, SameRead
<1> QED
    BY <1>3, <1>4, <1>5, <1>6, <1>7 DEF UpstreamSteps

\* What the reader is told by the child: an error of the upstream, or the bytes of the range that
\* the file has.
LEMMA ChildAnswer ==
    ASSUME NEW from \in Int, NEW to, SizeIn(job, from, to) \in Nat, NEW c, NEW p,
           ReadChild(job, c, p, from, to), p.wev = "child"
    PROVE  /\ FinalCode(c) \notin {"bad_data", "unexpected"}
           /\ FinalCode(c) = OK => /\ BytesFrom(Body(c), from)
                                   /\ Len(Body(c)) = SizeIn(job, from, to)
<1>1. /\ c.in_memory = TRUE /\ c.send_header_result = OK /\ c.state = "finished"
      /\ c.error_code \in Codes /\ (c.error_code = OK => c.upstream = TRUE)
      /\ BytesFrom(c.body, from)
      /\ c.status = 206 => c.content_length = SizeIn(job, from, to) /\ SizeIn(job, from, to) > 0
      /\ c.status = 416 => SizeIn(job, from, to) = 0
    BY DEF ReadChild
<1>2. CASE c.error_code = OK
  <2>1. FinalCode(c) = BodyCode(c)
      BY <1>1, <1>2 DEF FinalCode
  <2>2. BodyCode(c) \in {OK, BAD_GATEWAY}
      BY DEF BodyCode
  <2>3. BodyCode(c) = OK => c.status = 416 \/ (c.status = 206 /\ Len(c.body) = c.content_length)
      BY <1>1 DEF BodyCode, OK, BAD_GATEWAY
  <2>4. ASSUME BodyCode(c) = OK
        PROVE  BytesFrom(Body(c), from) /\ Len(Body(c)) = SizeIn(job, from, to)
    <3>1. CASE c.status = 416
      <4>1. Body(c) = <<>> /\ SizeIn(job, from, to) = 0
          BY <1>1, <3>1 DEF Body
      <4>2. BytesFrom(<<>>, from) /\ Len(<<>>) = 0
          BY DEF BytesFrom
      <4> QED
          BY <4>1, <4>2
    <3>2. CASE c.status # 416
        BY <1>1, <2>3, <2>4, <3>2 DEF Body
    <3> QED
        BY <3>1, <3>2
  <2> QED
      BY <2>1, <2>2, <2>4 DEF OK, BAD_GATEWAY
<1>3. CASE c.error_code # OK
    BY <1>1, <1>3 DEF FinalCode, Codes, OK, ERROR, BAD_GATEWAY
<1> QED
    BY <1>2, <1>3


-----------------------------------------------------------------------------
(* The end of a read *)

\* The request has the bytes.
LEMMA ReadGot ==
    ASSUME IInv, ReadOK(job, mem, ctx, reader, st, child, parent), st.pc \in ReadingPcs,
           NEW bytes, BytesFrom(bytes, ReadEnd(ctx)),
           Len(bytes) = SizeIn(job, ReadEnd(ctx), AskedEnd(ctx)),
           mem' = Filled(bytes), ctx' = Advance(ctx, Len(bytes)), reader' = reader,
           st' = At(st, "result"), Quiet(child', parent')
    PROVE  ReadOK(job, mem', ctx', reader', st', child', parent')
<1>1. /\ IsMemory(mem') /\ ctx' \in CtxT
      /\ BufferOK(mem', ctx') /\ PrefixOK(mem', ctx') /\ ReaderOK(job, ctx', reader, "result")
      /\ GotOK(job, mem', ctx')
    BY RangeRead
<1>2. st'.pc = "result"
    BY PlaceFields DEF IInv
<1>3. IsReader(reader)
    BY WhileReading
<1> HIDE DEF IsReader, IsMemory, CtxT
<1>4. BytesOK(job, mem', ctx', reader', st')
    BY <1>1, <1>2 DEF BytesOK, ReadingPcs, GotPcs
<1> QED
    BY <1>1, <1>2, <1>3, <1>4 DEF ReadOK, ReadPcs, ReadingPcs, GotPcs

\* The request is finalized with an error.
LEMMA GaveUp ==
    ASSUME IInv, NEW rc, finalize(rc), Quiet(child', parent'),
           rc \in {"bad_data", "unexpected"} =>
               BadJob(job) \/ CutAt(job, ctx'.requested_offset + st.len)
    PROVE  ReadOK(job, mem', ctx', reader', st', child', parent')
<1>1. IsPlace(st)
    BY DEF IInv
<1>2. st' = EndsAt(st, "finalized", rc)
    BY DEF finalize, EndsAt
<1>3. st'.pc = "finalized" /\ st'.rc = rc /\ st'.len = st.len
    BY <1>1, <1>2, PlaceFields, PlaceValues
<1> QED
    BY <1>3 DEF ReadOK, ReadPcs, ReadingPcs, GotPcs

\* The moov does not end in the file when it does not end in what was read.
LEMMA BeforeEnd ==
    ASSUME IInv, NEW e \in Int, job.length <= e, Before(job, e)
    PROVE  Before(job, job.length)
<1>1. \A i \in FirstMoov(job) : StopOf(job, i) \in Nat
    BY FileFacts, AtomFacts DEF FirstMoov
<1>2. job.length \in Nat
    BY FileFacts
<1> QED
    BY <1>1, <1>2 DEF Before

\* An empty read of a part of the moov.
LEMMA EmptyRead ==
    ASSUME IInv, ReadOK(job, mem, ctx, reader, st, child, parent), st.pc \in ReadingPcs,
           SizeIn(job, ReadEnd(ctx), AskedEnd(ctx)) = 0, ~ctx.allow_empty
    PROVE  BadJob(job)
<1>1. /\ ReadEnd(ctx) \in Nat /\ AskedEnd(ctx) \in Nat /\ ReadEnd(ctx) < AskedEnd(ctx)
      /\ ReadingOK(job, ctx)
    BY WhileReading
<1>2. job.kind = "mp4" /\ Before(job, ReadEnd(ctx))
    BY <1>1 DEF ReadingOK
<1>3. job.length <= ReadEnd(ctx)
    BY <1>1, FileFacts, SizeInFacts
<1>4. Before(job, job.length)
    BY <1>1, <1>2, <1>3, BeforeEnd
<1> QED
    BY <1>2, <1>4 DEF BadJob, BadMp4

\* ngx_http_vod_handle_read_completed
LEMMA Completed ==
    ASSUME IInv, ReadOK(job, mem, ctx, reader, st, child, parent), st.pc \in ReadingPcs,
           NEW rc, NEW bytes, handle_read_completed(rc, bytes), reader' = reader,
           Quiet(child', parent'), rc \notin {"bad_data", "unexpected"},
           rc = OK => /\ BytesFrom(bytes, ReadEnd(ctx))
                      /\ Len(bytes) = SizeIn(job, ReadEnd(ctx), AskedEnd(ctx))
    PROVE  ReadOK(job, mem', ctx', reader', st', child', parent')
<1>1. CASE rc # OK
  <2>1. finalize(rc)
      BY <1>1 DEF handle_read_completed
  <2> QED
      BY <2>1, GaveUp
<1>2. CASE rc = OK /\ bytes = <<>> /\ ~EmptyReadAllowed
  <2>1. finalize("bad_data")
      BY <1>2 DEF handle_read_completed
  <2>2. SizeIn(job, ReadEnd(ctx), AskedEnd(ctx)) = 0 /\ ~ctx.allow_empty
      BY <1>2 DEF EmptyReadAllowed
  <2>3. BadJob(job)
      BY <2>2, EmptyRead
  <2> QED
      BY <2>1, <2>3, GaveUp
<1>3. CASE rc = OK /\ ~(bytes = <<>> /\ ~EmptyReadAllowed)
  <2>1. mem' = Filled(bytes) /\ ctx' = Advance(ctx, Len(bytes)) /\ st' = At(st, "result")
      BY <1>3 DEF handle_read_completed, Advance, At
  <2> QED
      BY <1>3, <2>1, ReadGot
<1> QED
    BY <1>1, <1>2, <1>3

\* What is read from a file.
LEMMA FileBytesFacts ==
    ASSUME IInv, ReadOK(job, mem, ctx, reader, st, child, parent), st.pc \in {"read", "aio"}
    PROVE  /\ BytesFrom(FileBytes, ReadEnd(ctx))
           /\ Len(FileBytes) = SizeIn(job, ReadEnd(ctx), AskedEnd(ctx))
<1>1. st.from = ReadEnd(ctx) /\ st.to = AskedEnd(ctx)
    BY DEF ReadOK, BytesOK, ReadingPcs
<1>2. ReadEnd(ctx) \in Nat /\ AskedEnd(ctx) \in Nat /\ ReadEnd(ctx) < AskedEnd(ctx)
    BY WhileReading DEF ReadingPcs
<1>3. job.length \in Nat
    BY FileFacts
<1>4. FileBytes = Range(Smaller(ReadEnd(ctx), job.length), Smaller(AskedEnd(ctx), job.length))
    BY <1>1 DEF FileBytes
<1> QED
    BY <1>2, <1>3, <1>4, FileRange

\* The end of a read in place, in the background and by a child.
LEMMA ReadSteps1 ==
    ASSUME IInv, ReadOK(job, mem, ctx, reader, st, child, parent),
           read_in_place \/ async_read_completed \/ http_read_completed
    PROVE  ReadOK(job, mem', ctx', reader', st', child', parent')
<1>1. CASE read_in_place
  <2>1. st.pc = "read" /\ reader' = reader /\ child' = child /\ parent' = parent
      BY <1>1 DEF read_in_place, childVars
  <2>2. Quiet(child', parent')
      BY <2>1 DEF ReadOK
  <2>3. CASE finalize("read_error")
      BY <2>2, <2>3, GaveUp
  <2>4. CASE ~finalize("read_error")
    <3>1. /\ mem' = Filled(FileBytes) /\ ctx' = Advance(ctx, Len(FileBytes))
          /\ st' = At(st, "result")
        BY <1>1, <2>4 DEF read_in_place, Advance, At
    <3>2. /\ BytesFrom(FileBytes, ReadEnd(ctx))
          /\ Len(FileBytes) = SizeIn(job, ReadEnd(ctx), AskedEnd(ctx))
        BY <2>1, FileBytesFacts
    <3> QED
        BY <2>1, <2>2, <3>1, <3>2, ReadGot DEF ReadingPcs
  <2> QED
      BY <2>3, <2>4
<1>2. CASE async_read_completed
  <2>1. st.pc = "aio" /\ reader' = reader /\ child' = child /\ parent' = parent
      BY <1>2 DEF async_read_completed, childVars
  <2>2. Quiet(child', parent')
      BY <2>1 DEF ReadOK
  <2>3. /\ BytesFrom(FileBytes, ReadEnd(ctx))
        /\ Len(FileBytes) = SizeIn(job, ReadEnd(ctx), AskedEnd(ctx))
      BY <2>1, FileBytesFacts
  <2>4. CASE handle_read_completed(OK, FileBytes)
    <3>1. OK \notin {"bad_data", "unexpected"}
        BY DEF OK
    <3> QED
        BY <2>1, <2>2, <2>3, <2>4, <3>1, Completed DEF ReadingPcs
  <2>5. CASE handle_read_completed("read_error", <<>>)
    <3>1. "read_error" # OK
        BY DEF OK
    <3> QED
        BY <2>1, <2>2, <2>5, <3>1, Completed DEF ReadingPcs
  <2> QED
      BY <1>2, <2>4, <2>5 DEF async_read_completed
<1>3. CASE http_read_completed
  <2>1. /\ st.pc = "child" /\ reader' = reader /\ parent.wev = "child"
        /\ parent' = Handler(parent, "own") /\ child' = WithState(child, "handled")
        /\ answer' = [calls |-> answer.calls + 1, rc |-> FinalCode(child), bytes |-> Body(child),
                      finalized |-> FALSE]
        /\ handle_read_completed(answer'.rc, answer'.bytes)
      BY <1>3 DEF http_read_completed, notify_caller, Handler, WithState
  <2>2. handle_read_completed(FinalCode(child), Body(child))
      BY <2>1
  <2>3. Quiet(child', parent')
    <3>1. child'.state = "handled" /\ parent'.wev = "own"
        BY <2>1, StateFields, ParentFields DEF IInv
    <3> QED
        BY <3>1 DEF Quiet
  <2>4. ReadEnd(ctx) \in Nat /\ AskedEnd(ctx) \in Nat /\ ReadEnd(ctx) < AskedEnd(ctx)
      BY <2>1, WhileReading DEF ReadingPcs
  <2>5. SizeIn(job, ReadEnd(ctx), AskedEnd(ctx)) \in Nat
      BY <2>4, FileFacts, SizeInFacts
  <2>6. ReadChild(job, child, parent, ReadEnd(ctx), AskedEnd(ctx))
      BY <2>1 DEF ReadOK
  <2>7. /\ FinalCode(child) \notin {"bad_data", "unexpected"}
        /\ FinalCode(child) = OK =>
             /\ BytesFrom(Body(child), ReadEnd(ctx))
             /\ Len(Body(child)) = SizeIn(job, ReadEnd(ctx), AskedEnd(ctx))
      BY <2>1, <2>4, <2>5, <2>6, ChildAnswer
  <2> QED
      BY <2>1, <2>2, <2>3, <2>7, Completed DEF ReadingPcs
<1> QED
    BY <1>1, <1>2, <1>3


-----------------------------------------------------------------------------
(* The head of the file *)

\* The end of an atom is behind its start.
LEMMA BeforeStart ==
    ASSUME IInv, NEW i \in FirstMoov(job)
    PROVE  /\ i \in 1 .. Len(job.atoms) /\ SizeOf(job, i) > 0
           /\ StopOf(job, i) \in Nat /\ DataOf(job, i) \in Nat /\ AtOf(job, i) \in Nat
           /\ SizeOf(job, i) \in Nat
           /\ AtOf(job, i) < DataOf(job, i) /\ DataOf(job, i) < StopOf(job, i)
           /\ StopOf(job, i) = DataOf(job, i) + SizeOf(job, i)
<1>1. i \in 1 .. Len(job.atoms) /\ SizeOf(job, i) > 0
    BY FileFacts, AtomFacts DEF FirstMoov, MoovAt
<1>2. /\ StopOf(job, i) \in Nat /\ DataOf(job, i) \in Nat /\ AtOf(job, i) \in Nat
      /\ SizeOf(job, i) \in Nat
      /\ AtOf(job, i) < DataOf(job, i) /\ StopOf(job, i) = DataOf(job, i) + SizeOf(job, i)
    BY <1>1, FileFacts, AtomFacts
<1> QED
    BY <1>1, <1>2

OpenCtx(c, b, size) ==
    [c EXCEPT !.read_buffer = b, !.read_offset = 0, !.read_size = size, !.requested_offset = 0,
              !.allow_empty = TRUE]

\* The read state when the head of the file was asked for.
LEMMA OpenedCtx ==
    ASSUME NEW c \in CtxT, NEW b \in Buf, NEW size \in Nat, NEW d, d = OpenCtx(c, b, size)
    PROVE  IsAsked(d, b, c.prefix_buffer, 0, 0, size, TRUE)
<1>1. /\ d \in CtxT /\ d.read_buffer = b /\ d.read_offset = 0 /\ d.read_size = size
      /\ d.requested_offset = 0 /\ d.allow_empty = TRUE /\ d.prefix_buffer = c.prefix_buffer
    BY DEF CtxT, OpenCtx
<1> QED
    BY <1>1, Zenon DEF IsAsked

\* STATE_READ_METADATA_OPEN_FILE
LEMMA OpenStep ==
    ASSUME IInv, job.kind \in {"mp4", "text"},
           ReadOK(job, mem, ctx, reader, st, child, parent), read_file_header
    PROVE  ReadOK(job, mem', ctx', reader', st', child', parent')
<1> DEFINE need == InitialReadSize + AllocExtraSize
           a == alloc_read_buffer(ctx.read_buffer, need)
           d == OpenCtx(ctx, a.buf, InitialReadSize)
           r == [mem |-> a.mem, from |-> 0, to |-> InitialReadSize, ctx |-> d]
<1>1. st.pc = "open" /\ start_read(r) /\ reader' = reader
    BY DEF read_file_header, OpenCtx
<1>2. /\ IsMemory(mem) /\ ctx \in CtxT /\ IsReader(reader) /\ Quiet(child, parent)
      /\ OpenOK(job, ctx, reader)
    BY <1>1 DEF ReadOK
<1>3. /\ ctx.read_buffer = NoBuf /\ ctx.prefix_buffer = NoBuf /\ reader.state = "none"
      /\ reader.ftyp.len = 0
    BY <1>2 DEF OpenOK
<1>4. NoBuf.start = NULL /\ ctx.read_buffer \in Buf
    BY <1>2, CtxFields DEF NoBuf
<1>5. Allocated(mem, ctx.read_buffer, a, need)
  <2>1. need \in Nat
      BY Sizes
  <2> QED
      BY <1>2, <1>3, <1>4, <2>1, AllocFacts
<1> HIDE DEF a
<1>6. /\ IsMemory(a.mem) /\ a.buf \in Buf /\ a.buf.start = 0 /\ a.buf.pos = 0 /\ a.buf.last = 0
      /\ HasBlock(a.mem, a.buf.blk, a.buf.end) /\ a.buf.end >= need + Padding
    BY <1>5 DEF Allocated
<1>7. InitialReadSize < a.buf.end
  <2>1. a.buf.end \in Int
      BY <1>6 DEF Buf
  <2> QED
      BY <1>6, <2>1, Sizes
<1>8. IsAsked(d, a.buf, ctx.prefix_buffer, 0, 0, InitialReadSize, TRUE)
    BY <1>2, <1>6, Sizes, OpenedCtx
<1>9. r.mem = a.mem /\ r.ctx = d /\ r.from = 0 /\ r.to = InitialReadSize
    OBVIOUS
<1> HIDE DEF d, r
<1>10. /\ d \in CtxT /\ d.read_buffer = a.buf /\ d.prefix_buffer = NoBuf /\ d.read_offset = 0
       /\ d.requested_offset = 0 /\ d.read_size = InitialReadSize /\ d.allow_empty = TRUE
    BY <1>3, <1>8 DEF IsAsked
<1>11. PreLen(d) = 0
    BY <1>4, <1>10 DEF PreLen, NoBuf
<1>12. ReadEnd(d) = 0 /\ AskedEnd(d) = InitialReadSize
    BY <1>6, <1>10, Sizes DEF ReadEnd, AskedEnd
<1>13. BufferOK(a.mem, d)
    BY <1>6, <1>7, <1>10, <1>11, Sizes DEF BufferOK
<1>14. PrefixOK(a.mem, d)
    BY <1>10 DEF PrefixOK
<1>15. ReadingOK(job, d)
  <2>1. Before(job, 0)
      BY BeforeStart DEF Before
  <2>2. job.length \in Nat
      BY FileFacts
  <2> QED
      BY <1>6, <1>10, <1>12, <2>1, <2>2, Sizes DEF ReadingOK
<1>16. ASSUME NEW pc \in ReadingPcs PROVE ReaderOK(job, d, reader', pc)
  <2>1. FtypOK(job, reader)
      BY <1>3 DEF FtypOK
  <2> QED
      BY <1>1, <1>3, <1>10, <2>1 DEF ReaderOK, Mp4Reader, TextReader
<1> QED
    BY <1>1, <1>2, <1>6, <1>9, <1>10, <1>12, <1>13, <1>14, <1>15, <1>16, RangeStarts


-----------------------------------------------------------------------------
(* The result of a read *)

\* There is one first moov.
LEMMA FirstUnique ==
    ASSUME IInv, NEW i \in FirstMoov(job), NEW k \in FirstMoov(job)
    PROVE  i = k
<1>1. /\ i \in 1 .. Len(job.atoms) /\ k \in 1 .. Len(job.atoms)
      /\ MoovAt(job, i) /\ MoovAt(job, k)
      /\ \A h \in 1 .. i - 1 : ~MoovAt(job, h)
      /\ \A h \in 1 .. k - 1 : ~MoovAt(job, h)
    BY BeforeStart DEF FirstMoov
<1>2. i \notin 1 .. k - 1 /\ k \notin 1 .. i - 1
    BY <1>1, Zenon
<1>3. Len(job.atoms) \in Nat
    BY FileFacts, AtomFacts
<1> QED
    BY <1>1, <1>2, <1>3

\* When no atom before one is a moov, the moov starts there or behind.
LEMMA SearchBefore ==
    ASSUME IInv, NEW k \in 1 .. Len(job.atoms) + 1, \A i \in 1 .. k - 1 : ~MoovAt(job, i)
    PROVE  /\ StartOf(job, k) \in Nat
           /\ \A i \in FirstMoov(job) : k <= i /\ StartOf(job, k) <= AtOf(job, i)
           /\ Before(job, StartOf(job, k))
<1> DEFINE n == Len(job.atoms)
<1>1. /\ n \in Nat
      /\ \A h \in 1 .. n : /\ AtOf(job, h) \in Nat /\ StopOf(job, h) \in Nat
                           /\ AtOf(job, h) <= StopOf(job, h) /\ AtOf(job, h) = StartOf(job, h)
  <2>1. /\ n \in Nat
        /\ \A h \in 1 .. n : /\ AtOf(job, h) \in Nat /\ StopOf(job, h) \in Nat
                             /\ DataOf(job, h) \in Nat /\ SizeOf(job, h) \in Nat
                             /\ AtOf(job, h) = StartOf(job, h) /\ AtOf(job, h) < DataOf(job, h)
                             /\ StopOf(job, h) = DataOf(job, h) + SizeOf(job, h)
      BY FileFacts, AtomFacts
  <2> QED
      BY <2>1
<1>2. StartOf(job, k) \in Nat
    BY <1>1 DEF StartOf
<1>3. ASSUME NEW i \in FirstMoov(job)
      PROVE  k <= i /\ StartOf(job, k) <= AtOf(job, i) /\ StartOf(job, k) < StopOf(job, i)
  <2>1. /\ i \in 1 .. n /\ StopOf(job, i) \in Nat /\ AtOf(job, i) \in Nat
        /\ AtOf(job, i) < StopOf(job, i)
    <3>1. /\ i \in 1 .. n /\ StopOf(job, i) \in Nat /\ DataOf(job, i) \in Nat
          /\ AtOf(job, i) \in Nat
          /\ AtOf(job, i) < DataOf(job, i) /\ DataOf(job, i) < StopOf(job, i)
        BY BeforeStart
    <3> QED
        BY <3>1
  <2>2. i \notin 1 .. k - 1
      BY DEF FirstMoov
  <2> HIDE DEF n
  <2>3. k <= i /\ k \in 1 .. n
      BY <1>1, <2>1, <2>2
  <2>4. StartOf(job, k) <= AtOf(job, i)
    <3>1. CASE i = k
        BY <1>1, <2>1, <2>3, <3>1
    <3>2. CASE k < i
      <4>1. StopOf(job, k) <= AtOf(job, i)
          BY <2>1, <2>3, <3>2, FileFacts, AtomOrder DEF n
      <4> QED
          BY <1>1, <2>1, <2>3, <4>1
    <3> QED
        BY <1>1, <2>1, <2>3, <3>1, <3>2
  <2> QED
      BY <1>2, <2>1, <2>3, <2>4
<1> QED
    BY <1>2, <1>3 DEF Before

\* What the reader of an mp4 asks for is before the end of the moov.
LEMMA RequestedBefore ==
    ASSUME IInv, job.kind = "mp4", NEW c, NEW r, NEW pc, Mp4Reader(job, c, r, pc)
    PROVE  Before(job, c.requested_offset)
<1>1. CASE r.state = "none"
    BY <1>1, BeforeStart DEF Mp4Reader, Before
<1>2. CASE r.state = "moov_header"
    BY <1>2, SearchBefore DEF Mp4Reader, SearchAt
<1>3. CASE r.state = "moov_data"
  <2>1. PICK k \in FirstMoov(job) : c.requested_offset = DataOf(job, k)
      BY <1>3 DEF Mp4Reader
  <2> QED
      BY <2>1, FirstUnique, BeforeStart DEF Before
<1> QED
    BY <1>1, <1>2, <1>3 DEF Mp4Reader

\* The multiple of a number below another one.
LEMMA Multiple ==
    ASSUME NEW x \in Nat, NEW a \in Nat \ {0}
    PROVE  /\ (x \div a) * a \in Nat /\ (x \div a) * a <= x
           /\ x < (x \div a) * a + a
    OBVIOUS

\* What is left of n bytes when they are decrypted.
LEMMA DecryptedFacts ==
    ASSUME NEW n \in Nat, n > 0 \/ FinalBlock(n), job.plain \in Nat
    PROVE  /\ Decrypted(n).len \in Nat
           /\ Decrypted(n).ok => Decrypted(n).len <= n
           /\ ~FinalBlock(n) => Decrypted(n).ok /\ Decrypted(n).len >= n - AesBlock
           /\ FinalBlock(n) => /\ Decrypted(n).len = job.plain
                               /\ Decrypted(n).ok => n = Encrypted(job.plain)
                               /\ ~Decrypted(n).ok => n # Encrypted(job.plain)
<1>1. AesBlock \in Nat \ {0}
    BY Sizes
<1>2. CASE FinalBlock(n)
  <2>1. Decrypted(n) = [ok |-> n = Encrypted(job.plain), len |-> job.plain]
      BY <1>2 DEF Decrypted
  <2>2. job.plain < Encrypted(job.plain)
    <3>1. job.plain % AesBlock \in 0 .. AesBlock - 1
        BY <1>1, Remainder
    <3> DEFINE q == job.plain % AesBlock
    <3>2. Encrypted(job.plain) = job.plain + AesBlock - q
        BY DEF Encrypted
    <3> HIDE DEF q
    <3>3. q \in 0 .. AesBlock - 1
        BY <3>1 DEF q
    <3> QED
        BY <1>1, <3>2, <3>3
  <2>3. /\ Decrypted(n).len = job.plain
        /\ Decrypted(n).ok => n = Encrypted(job.plain)
        /\ ~Decrypted(n).ok => n # Encrypted(job.plain)
    <3> DEFINE e == n = Encrypted(job.plain)
    <3>1. Decrypted(n) = [ok |-> e, len |-> job.plain]
        BY <2>1, Zenon
    <3> HIDE DEF e
    <3>2. Decrypted(n).ok = e /\ Decrypted(n).len = job.plain
        BY <3>1
    <3> QED
        BY <3>2, Zenon DEF e
  <2> QED
      BY <1>2, <2>2, <2>3
<1>3. CASE ~FinalBlock(n)
  <2> DEFINE v == ((n - 1) \div AesBlock) * AesBlock
  <2>1. n - 1 \in Nat
      BY <1>3
  <2>2. v \in Nat /\ v <= n - 1 /\ n - 1 < v + AesBlock
      BY <1>1, <2>1, Multiple
  <2>3. Decrypted(n) = [ok |-> TRUE, len |-> Larger(0, v)]
      BY <1>3 DEF Decrypted
  <2> HIDE DEF v
  <2>4. Larger(0, v) = v
      BY <2>2 DEF Larger
  <2>5. Decrypted(n).ok /\ Decrypted(n).len = v
      BY <2>3, <2>4
  <2> QED
      BY <1>1, <1>3, <2>2, <2>5
<1> QED
    BY <1>2, <1>3


\* The plain text in a block of its own.
IsDecrypted(m, r, n) ==
    /\ r.rc = OK /\ IsMemory(r.mem) /\ Len(m) \in Nat /\ Len(r.mem) = Len(m) + 1
    /\ \A h \in 1 .. Len(m) : r.mem[h] = m[h]
    /\ r.blk = Len(m) + 1 /\ r.mem[r.blk].freed = FALSE /\ r.at = 0 /\ r.len \in Nat
    /\ HeldAt(r.mem, r.blk, 0, r.len, 0)
    /\ FinalBlock(n) => r.len = job.plain
    /\ ~FinalBlock(n) => r.len >= n - AesBlock

\* A block with other bytes.
LEMMA OtherBytes ==
    ASSUME NEW n, NEW o, NEW z, n = [bytes |-> o, freed |-> z], NEW f
    PROVE  [n EXCEPT !.bytes = f] = [bytes |-> f, freed |-> z]
    OBVIOUS

\* ngx_http_vod_decrypt_read_buffer
LEMMA DecryptFacts ==
    ASSUME NEW m, IsMemory(m), NEW b \in Buf, b.pos = 0, b.last \in Nat,
           HeldAt(m, b.blk, 0, b.last, 0), ctx.read_offset = 0, job.plain \in Nat,
           b.last > 0 \/ FinalBlock(b.last), NEW r, r = decrypt_read_buffer(m, b)
    PROVE  \/ r.rc = "bad_data" /\ FinalBlock(b.last) /\ b.last # Encrypted(job.plain)
           \/ IsDecrypted(m, r, b.last)
<1> DEFINE n == b.last
           d == Decrypted(n)
           valid == \A i \in 0 .. n - 1 : m[b.blk].bytes[0 + i] = i
           size == n + AesBlock + 1
           new == NewBlock(size)
           f == [i \in DOMAIN new.bytes |-> IF i < d.len /\ valid THEN i ELSE Garbage]
           block == [new EXCEPT !.bytes = f]
<1>1. Buffered(b) = n
    BY DEF Buffered
<1>2. r = IF ~d.ok THEN [rc |-> "bad_data", mem |-> m]
          ELSE [rc |-> OK, mem |-> Append(m, block), blk |-> Len(m) + 1, at |-> 0, len |-> d.len]
    BY <1>1, Zenon DEF decrypt_read_buffer
<1>3. valid
    BY DEF HeldAt
<1>4. /\ d.len \in Nat
      /\ d.ok => d.len <= n
      /\ ~FinalBlock(n) => d.ok /\ d.len >= n - AesBlock
      /\ FinalBlock(n) => /\ d.len = job.plain
                          /\ d.ok => n = Encrypted(job.plain)
                          /\ ~d.ok => n # Encrypted(job.plain)
    BY DecryptedFacts
<1>5. size \in Nat /\ n < size
    BY Sizes
<1>6. new.bytes = [i \in 0 .. size - 1 |-> Garbage] /\ new.freed = FALSE
      /\ new = [bytes |-> new.bytes, freed |-> FALSE]
    BY DEF NewBlock
<1> HIDE DEF new, d, valid, size
<1>7. DOMAIN new.bytes = 0 .. size - 1
    BY <1>6
<1>8. block = [bytes |-> f, freed |-> FALSE]
  <2> DEFINE z == FALSE
             old == new.bytes
  <2>1. new = [bytes |-> old, freed |-> z]
      BY <1>6
  <2> HIDE DEF z, old, f
  <2>2. block = [bytes |-> f, freed |-> z]
      BY <2>1, OtherBytes
  <2> QED
      BY <2>2, Zenon DEF z
<1>9. CASE ~d.ok
  <2>1. r.rc = "bad_data"
      BY <1>2, <1>9
  <2>2. FinalBlock(n) /\ n # Encrypted(job.plain)
      BY <1>4, <1>9
  <2> QED
      BY <2>1, <2>2
<1>10. CASE d.ok
  <2>1. \A i \in 0 .. d.len - 1 : f[0 + i] = 0 + i
    <3> SUFFICES ASSUME NEW i \in 0 .. d.len - 1 PROVE f[i] = i
        BY <1>4
    <3> HIDE DEF n
    <3>1. d.len <= n /\ n \in Nat
        BY <1>4, <1>10 DEF n
    <3>2. i \in 0 .. size - 1 /\ i < d.len
        BY <1>4, <1>5, <3>1
    <3> QED
        BY <1>3, <1>7, <3>2
  <2> HIDE DEF f
  <2>2. BlockAdded(m, Append(m, block), f)
      BY <1>8, AddBlock
  <2> HIDE DEF block
  <2>3. /\ r.rc = OK /\ r.mem = Append(m, block) /\ r.blk = Len(m) + 1 /\ r.at = 0
        /\ r.len = d.len
      BY <1>2, <1>10
  <2>4. BlockAdded(m, r.mem, f)
      BY <2>2, <2>3
  <2>5. /\ IsMemory(r.mem) /\ Len(m) \in Nat /\ Len(r.mem) = Len(m) + 1
        /\ r.mem[r.blk].bytes = f /\ r.mem[r.blk].freed = FALSE
        /\ \A h \in 1 .. Len(m) : r.mem[h] = m[h]
      BY <2>3, <2>4 DEF BlockAdded
  <2>6. HeldAt(r.mem, r.blk, 0, r.len, 0)
      BY <2>1, <2>3, <2>5, Zenon DEF HeldAt
  <2>7. FinalBlock(n) => r.len = job.plain
      BY <1>4, <2>3
  <2>8. ~FinalBlock(n) => r.len >= n - AesBlock
      BY <1>4, <2>3
  <2>9. IsDecrypted(m, r, n)
      BY <1>4, <2>3, <2>5, <2>6, <2>7, <2>8 DEF IsDecrypted
  <2> QED
      BY <2>9
<1> QED
    BY <1>9, <1>10

Rewound(c, b) == [c EXCEPT !.read_buffer = b, !.prefix_buffer = NoBuf]
Rewind(b, n) == [b EXCEPT !.start = @ - n, !.pos = @ - n]

\* The read state after the prefix was prepended.
IsRewound(d, c, n) ==
    /\ d \in CtxT /\ d.read_offset = c.read_offset /\ d.requested_offset = c.requested_offset
    /\ d.read_size = c.read_size /\ d.prefix_buffer = NoBuf
    /\ d.read_buffer.blk = c.read_buffer.blk /\ d.read_buffer.start = c.read_buffer.start - n
    /\ d.read_buffer.pos = c.read_buffer.pos - n /\ d.read_buffer.end = c.read_buffer.end
    /\ d.read_buffer.last = c.read_buffer.last /\ d.read_buffer \in Buf

\* The buffer starts with the prefix.
LEMMA RewoundCtx ==
    ASSUME NEW c \in CtxT, NEW n \in Int, NEW d, d = Rewound(c, Rewind(c.read_buffer, n))
    PROVE  IsRewound(d, c, n)
<1> DEFINE x == c.read_buffer.start - n
           y == c.read_buffer.pos - n
           b == [c.read_buffer EXCEPT !.start = x, !.pos = y]
<1>1. c.read_buffer \in Buf /\ x \in Int /\ y \in Int
    BY DEF CtxT, Buf
<1>2. d = Rewound(c, b)
    BY DEF Rewind
<1> HIDE DEF x, y
<1>3. /\ b \in Buf /\ b.last = c.read_buffer.last /\ b.blk = c.read_buffer.blk /\ b.start = x
      /\ b.pos = y /\ b.end = c.read_buffer.end
    BY <1>1 DEF Buf
<1> HIDE DEF b
<1>4. NoBuf \in Buf
    BY DEF NoBuf, Buf, NULL
<1>5. /\ d \in CtxT /\ d.read_offset = c.read_offset /\ d.requested_offset = c.requested_offset
      /\ d.read_size = c.read_size /\ d.prefix_buffer = NoBuf /\ d.read_buffer = b
    BY <1>2, <1>3, <1>4 DEF CtxT, Rewound
<1> QED
    BY <1>3, <1>5 DEF IsRewound, x, y


\* The request when a range was read.
LEMMA AtResult ==
    ASSUME IInv, ReadOK(job, mem, ctx, reader, st, child, parent), st.pc = "result"
    PROVE  /\ IsMemory(mem) /\ ctx \in CtxT /\ IsReader(reader) /\ Quiet(child, parent)
           /\ BufferOK(mem, ctx) /\ PrefixOK(mem, ctx) /\ ReaderOK(job, ctx, reader, "result")
           /\ GotOK(job, mem, ctx) /\ Whole(Joined, ctx)
           /\ PreLen(ctx) \in Int
           /\ ctx.read_buffer.start = PreLen(ctx) /\ ctx.read_buffer.pos = PreLen(ctx)
<1>1. /\ IsMemory(mem) /\ ctx \in CtxT /\ IsReader(reader) /\ Quiet(child, parent)
      /\ BufferOK(mem, ctx) /\ PrefixOK(mem, ctx) /\ ReaderOK(job, ctx, reader, "result")
      /\ GotOK(job, mem, ctx)
    BY DEF ReadOK, BytesOK, GotPcs
<1>2. HeldAt(mem, ctx.read_buffer.blk, ctx.read_buffer.pos, Buffered(ctx.read_buffer),
             ctx.read_offset + PreLen(ctx))
    BY <1>1 DEF GotOK
<1>3. Whole(Joined, ctx)
    BY <1>1, <1>2, JoinedFacts
<1>4. /\ PreLen(ctx) \in Int
      /\ ctx.read_buffer.start = PreLen(ctx) /\ ctx.read_buffer.pos = PreLen(ctx)
    BY <1>1, CtxFields DEF BufferOK
<1> QED
    BY <1>1, <1>3, <1>4

\* The numbers of a range that was read.
ResultNumbers(j, c) ==
    /\ c.read_offset \in Nat /\ c.requested_offset \in Nat /\ c.read_size \in Nat
    /\ c.read_buffer.last \in Nat /\ c.read_buffer.end \in Int /\ j.length \in Nat
    /\ c.read_buffer.last <= c.read_size /\ c.read_size < c.read_buffer.end
    /\ c.read_offset <= c.requested_offset
    /\ ReadEnd(c) = c.read_offset + c.read_buffer.last
    /\ AskedEnd(c) = c.read_offset + c.read_size
    /\ c.read_buffer.last < c.read_size => j.length <= ReadEnd(c)
    /\ c.requested_offset < AskedEnd(c) \/ c.read_buffer.last < c.read_size
    /\ j.kind = "text" => /\ c.read_buffer.last <= j.length
                          /\ c.read_offset = 0 /\ c.requested_offset = 0

\* The range is not longer than was asked for, and shorter only at the end of the file.
LEMMA GotNumbers ==
    ASSUME IInv, ctx \in CtxT, BufferOK(mem, ctx), NEW pc, ReaderOK(job, ctx, reader, pc),
           GotOK(job, mem, ctx)
    PROVE  ResultNumbers(job, ctx)
<1>1. PreLen(ctx) \in Int
    BY CtxFields
<1>2. /\ ctx.read_offset \in Nat /\ ctx.requested_offset \in Nat /\ ctx.read_size \in Nat
      /\ ctx.read_buffer.last \in Int /\ ctx.read_buffer.end \in Int
      /\ ReadEnd(ctx) = ctx.read_offset + ctx.read_buffer.last
      /\ AskedEnd(ctx) = ctx.read_offset + ctx.read_size
    BY CtxFields
<1>3. /\ 0 <= PreLen(ctx) /\ PreLen(ctx) <= ctx.read_buffer.last
      /\ ctx.read_buffer.last <= ctx.read_size /\ ctx.read_size < ctx.read_buffer.end
      /\ ctx.read_offset <= ctx.requested_offset
    BY DEF BufferOK
<1>4. /\ ctx.read_buffer.last < ctx.read_size => job.length <= ReadEnd(ctx)
      /\ ctx.requested_offset < AskedEnd(ctx) \/ ctx.read_buffer.last < ctx.read_size
      /\ job.kind = "text" => ctx.read_buffer.last <= job.length
    BY Zenon DEF GotOK
<1>5. job.kind = "text" => ctx.read_offset = 0 /\ ctx.requested_offset = 0
    BY DEF ReaderOK, TextReader
<1>6. job.length \in Nat
    BY FileFacts
<1>7. ctx.read_buffer.last \in Nat
    BY <1>1, <1>2, <1>3
<1> QED
    BY <1>2, <1>3, <1>4, <1>5, <1>6, <1>7, Zenon DEF ResultNumbers

\* The numbers when a range was read.
LEMMA ResultSizes ==
    ASSUME IInv, ReadOK(job, mem, ctx, reader, st, child, parent), st.pc = "result"
    PROVE  ResultNumbers(job, ctx)
    BY AtResult, GotNumbers

\* The range is handed to the reader of the format.
LEMMA HandsOver ==
    ASSUME IInv, ReadOK(job, mem, ctx, reader, st, child, parent), st.pc = "result",
           reader' = reader, Quiet(child', parent'), IsRewound(ctx', ctx, PreLen(ctx)),
           Whole(mem', ctx), NEW x, NEW y, NEW z, st' = ParsesAt(st, "parse", x, y, z),
           HandedOK(job, mem', ctx', st')
    PROVE  ReadOK(job, mem', ctx', reader', st', child', parent')
<1>1. /\ IsReader(reader) /\ ReaderOK(job, ctx, reader, "result") /\ PreLen(ctx) \in Int
      /\ ctx.read_buffer.start = PreLen(ctx) /\ ctx.read_buffer.pos = PreLen(ctx)
    BY AtResult
<1>2. ResultNumbers(job, ctx)
    BY ResultSizes
<1>3. /\ ctx' \in CtxT /\ ctx'.read_offset = ctx.read_offset
      /\ ctx'.requested_offset = ctx.requested_offset /\ ctx'.read_size = ctx.read_size
      /\ ctx'.prefix_buffer = NoBuf /\ ctx'.read_buffer.blk = ctx.read_buffer.blk
      /\ ctx'.read_buffer.start = 0 /\ ctx'.read_buffer.pos = 0
      /\ ctx'.read_buffer.end = ctx.read_buffer.end
      /\ ctx'.read_buffer.last = ctx.read_buffer.last
  <2> DEFINE z0 == PreLen(ctx)
  <2>1. /\ ctx' \in CtxT /\ ctx'.read_offset = ctx.read_offset
        /\ ctx'.requested_offset = ctx.requested_offset /\ ctx'.read_size = ctx.read_size
        /\ ctx'.prefix_buffer = NoBuf /\ ctx'.read_buffer.blk = ctx.read_buffer.blk
        /\ ctx'.read_buffer.start = z0 - z0 /\ ctx'.read_buffer.pos = z0 - z0
        /\ ctx'.read_buffer.end = ctx.read_buffer.end
        /\ ctx'.read_buffer.last = ctx.read_buffer.last
      BY <1>1, Zenon DEF IsRewound
  <2>2. z0 \in Int
      BY <1>1
  <2> HIDE DEF z0
  <2>3. z0 - z0 = 0
      BY <2>2
  <2> QED
      BY <2>1, <2>3, Zenon
<1>4. PreLen(ctx') = 0
    BY <1>3 DEF PreLen, NoBuf
<1>5. ReadEnd(ctx') = ReadEnd(ctx) /\ AskedEnd(ctx') = AskedEnd(ctx)
    BY <1>3, Zenon DEF ReadEnd, AskedEnd
<1>6. st'.pc = "parse"
    BY PlaceFields DEF IInv
<1>7. BufferOK(mem', ctx')
  <2>1. HasBlock(mem', ctx'.read_buffer.blk, ctx'.read_buffer.end)
      BY <1>3 DEF Whole
  <2>2. /\ 0 <= ctx.read_buffer.last /\ ctx.read_buffer.last <= ctx.read_size
        /\ ctx.read_size < ctx.read_buffer.end /\ ctx.read_offset <= ctx.requested_offset
      BY <1>2 DEF ResultNumbers
  <2>3. /\ ctx'.read_buffer.start = PreLen(ctx') /\ ctx'.read_buffer.pos = PreLen(ctx')
        /\ 0 <= PreLen(ctx') /\ PreLen(ctx') <= ctx.read_buffer.last
      BY <1>3, <1>4, <2>2
  <2> QED
      BY <1>3, <2>1, <2>2, <2>3, Zenon DEF BufferOK
<1>8. PrefixOK(mem', ctx')
    BY <1>3 DEF PrefixOK
<1>9. ReaderOK(job, ctx', reader, "parse")
  <2>1. \A e : Reaches(ctx, "result", e) => Reaches(ctx', "parse", e)
      BY <1>3, <1>5 DEF Reaches
  <2> QED
      BY <1>1, <1>3, <2>1, ReaderKept
<1>10. GotOK(job, mem', ctx')
  <2>1. Buffered(ctx'.read_buffer) = ctx.read_buffer.last
        /\ ctx'.read_offset + PreLen(ctx') = ctx.read_offset
    <3>1. Buffered(ctx'.read_buffer) = ctx.read_buffer.last - 0
          /\ ctx'.read_offset + PreLen(ctx') = ctx.read_offset + 0
        BY <1>3, <1>4, Zenon DEF Buffered
    <3>2. ctx.read_buffer.last \in Nat /\ ctx.read_offset \in Nat
        BY <1>2 DEF ResultNumbers
    <3> QED
        BY <3>1, <3>2
  <2>2. HeldAt(mem', ctx.read_buffer.blk, 0, ctx.read_buffer.last, ctx.read_offset)
      BY DEF Whole
  <2>3. HeldAt(mem', ctx'.read_buffer.blk, ctx'.read_buffer.pos, Buffered(ctx'.read_buffer),
               ctx'.read_offset + PreLen(ctx'))
      BY <1>3, <2>1, <2>2, Zenon
  <2> QED
      BY <1>2, <1>3, <1>5, <2>3, Zenon DEF GotOK, ResultNumbers
<1>11. IsMemory(mem')
    BY DEF Whole
<1> HIDE DEF IsReader, IsMemory, CtxT
<1>12. BytesOK(job, mem', ctx', reader', st')
    BY <1>6, <1>7, <1>8, <1>9, <1>10 DEF BytesOK, ReadingPcs, GotPcs
<1> QED
    BY <1>1, <1>3, <1>6, <1>11, <1>12 DEF ReadOK, ReadPcs, ReadingPcs, GotPcs


\* The request ends behind the end of the file.
LEMMA SkipsAll ==
    ASSUME IInv, job.kind \in {"mp4", "text"},
           ReadOK(job, mem, ctx, reader, st, child, parent), st.pc = "result",
           ReadEnd(ctx) < ctx.requested_offset
    PROVE  BadJob(job)
<1>1. ResultNumbers(job, ctx) /\ ReaderOK(job, ctx, reader, "result")
    BY ResultSizes, AtResult
<1>2. job.length <= ctx.requested_offset /\ ctx.requested_offset \in Int
  <2> DEFINE off == ctx.read_offset
             req == ctx.requested_offset
             size == ctx.read_size
             last == ctx.read_buffer.last
             end == ReadEnd(ctx)
             asked == AskedEnd(ctx)
             len == job.length
  <2>1. /\ off \in Nat /\ req \in Nat /\ size \in Nat /\ last \in Nat /\ len \in Nat
        /\ last <= size /\ end = off + last /\ asked = off + size
        /\ last < size => len <= end
        /\ req < asked \/ last < size
        /\ end < req
      BY <1>1, Zenon DEF ResultNumbers
  <2> HIDE DEF off, req, size, last, end, asked, len
  <2>2. len <= req /\ req \in Int
      BY <2>1
  <2> QED
      BY <2>2 DEF len, req
<1>3. job.kind = "mp4"
  <2> SUFFICES ASSUME job.kind = "text" PROVE FALSE
      OBVIOUS
  <2>1. /\ ctx.read_offset = 0 /\ ctx.requested_offset = 0 /\ ctx.read_buffer.last \in Nat
        /\ ReadEnd(ctx) = ctx.read_offset + ctx.read_buffer.last
      BY <1>1 DEF ResultNumbers
  <2> QED
      BY <2>1
<1>4. Before(job, ctx.requested_offset)
    BY <1>1, <1>3, RequestedBefore DEF ReaderOK
<1>5. Before(job, job.length)
    BY <1>2, <1>4, BeforeEnd
<1> QED
    BY <1>3, <1>5 DEF BadJob, BadMp4

\* ngx_http_vod_get_async_read_result
LEMMA ResultStep ==
    ASSUME IInv, job.kind \in {"mp4", "text"},
           ReadOK(job, mem, ctx, reader, st, child, parent), get_async_read_result
    PROVE  ReadOK(job, mem', ctx', reader', st', child', parent')
<1> DEFINE n == PreLen(ctx)
           b == Rewind(ctx.read_buffer, n)
           m == Joined
           r == IF job.encrypted THEN decrypt_read_buffer(m, b) ELSE plain_read_buffer(m, b)
           skip == ctx.requested_offset - ctx.read_offset
           last == ctx.read_buffer.last
<1>1. /\ st.pc = "result" /\ reader' = reader /\ child' = child /\ parent' = parent
      /\ ctx' = Rewound(ctx, b) /\ mem' = r.mem
      /\ IF r.rc # OK THEN finalize(r.rc)
         ELSE IF r.len < skip THEN finalize("bad_data")
         ELSE st' = ParsesAt(st, "parse", r.blk, r.at + skip, r.len - skip)
    BY Zenon DEF get_async_read_result, PreLen, Joined, Rewind, Rewound, ParsesAt, childVars
<1>2. /\ ctx \in CtxT /\ Quiet(child', parent') /\ Whole(m, ctx) /\ n \in Int
      /\ ctx.read_buffer.pos = n
    BY <1>1, AtResult
<1>3. ResultNumbers(job, ctx)
    BY <1>1, ResultSizes
<1>4. IsRewound(ctx', ctx, n)
    BY <1>1, <1>2, RewoundCtx
<1>5. /\ b \in Buf /\ b.pos = 0 /\ b.last = last /\ b.blk = ctx.read_buffer.blk
      /\ b.end = ctx.read_buffer.end
  <2>1. ctx'.read_buffer = b
      BY <1>1, <1>2 DEF CtxT, Rewound
  <2>2. /\ b \in Buf /\ b.pos = ctx.read_buffer.pos - n /\ b.last = last
        /\ b.blk = ctx.read_buffer.blk /\ b.end = ctx.read_buffer.end
    <3> HIDE DEF b, n
    <3> QED
        BY <1>4, <2>1 DEF IsRewound
  <2> HIDE DEF b, n
  <2> QED
      BY <1>2, <2>2
<1>6. /\ ctx'.requested_offset = ctx.requested_offset /\ ctx'.prefix_buffer = NoBuf
      /\ ctx'.read_size = ctx.read_size /\ ctx'.read_buffer.last = last
      /\ ReadEnd(ctx') = ReadEnd(ctx)
    BY <1>4, Zenon DEF IsRewound, ReadEnd
<1>7. /\ IsMemory(m) /\ HasBlock(m, b.blk, b.end) /\ HeldAt(m, b.blk, 0, last, ctx.read_offset)
    BY <1>2, <1>5, Zenon DEF Whole
<1>8. IsPlace(st)
    BY DEF IInv
<1> HIDE DEF n, b, m, r
<1>9. CASE ~job.encrypted
  <2>1. r = plain_read_buffer(m, b)
      BY <1>9 DEF r
  <2>2. ~(b.last >= b.end)
      BY <1>3, <1>5 DEF ResultNumbers
  <2>3. r.rc = OK /\ r.mem = m /\ r.blk = b.blk /\ r.at = 0 /\ r.len = last
    <3>1. Buffered(b) = last
        BY <1>3, <1>5 DEF Buffered, ResultNumbers
    <3> QED
        BY <1>5, <2>1, <2>2, <3>1 DEF plain_read_buffer
  <2>4. /\ last \in Nat /\ skip \in Nat /\ skip + ctx.read_offset = ctx.requested_offset
        /\ ctx.read_offset \in Nat /\ ReadEnd(ctx) = ctx.read_offset + last
      BY <1>3 DEF ResultNumbers
  <2>5. CASE r.len < skip
    <3>1. finalize("bad_data")
        BY <1>1, <2>3, <2>5
    <3>2. ReadEnd(ctx) < ctx.requested_offset
      <4> HIDE DEF last, skip
      <4> QED
          BY <2>3, <2>4, <2>5
    <3>3. BadJob(job)
        BY <1>1, <3>2, SkipsAll
    <3> QED
        BY <1>2, <3>1, <3>3, GaveUp
  <2>6. CASE ~(r.len < skip)
    <3> DEFINE z == last - skip
    <3>1. st' = ParsesAt(st, "parse", b.blk, 0 + skip, z)
        BY <1>1, <2>3, <2>6
    <3>2. st'.blk = b.blk /\ st'.at = skip /\ st'.len = z
        BY <1>8, <2>4, <3>1, PlaceValues
    <3> HIDE DEF last
    <3>3. z \in Nat
        BY <2>3, <2>4, <2>6
    <3>4. HeldAt(m, b.blk, skip, z, ctx.requested_offset)
      <4> SUFFICES ASSUME NEW i \in 0 .. z - 1
                   PROVE  m[b.blk].bytes[skip + i] = ctx.requested_offset + i
          BY DEF HeldAt
      <4> DEFINE x == skip + i
      <4>1. x \in 0 .. last - 1 /\ 0 + x = x /\ ctx.read_offset + x = ctx.requested_offset + i
          BY <2>4, <3>3
      <4>2. \A y \in 0 .. last - 1 : m[b.blk].bytes[0 + y] = ctx.read_offset + y
          BY <1>7 DEF HeldAt
      <4> HIDE DEF x
      <4>3. m[b.blk].bytes[x] = ctx.requested_offset + i
          BY <4>1, <4>2
      <4> QED
          BY <4>3 DEF x
    <3>5. ctx.requested_offset + z = ReadEnd(ctx)
        BY <2>4
    <3>6. b.blk \in 1 .. Len(m) /\ m[b.blk].freed = FALSE
        BY <1>7 DEF HasBlock
    <3>7. HandedOK(job, mem', ctx', st')
      <4>1. HeldAt(mem', st'.blk, st'.at, st'.len, ctx'.requested_offset)
          BY <1>1, <1>6, <2>3, <3>2, <3>4
      <4>2. st'.blk \in 1 .. Len(mem') /\ mem'[st'.blk].freed = FALSE
          BY <1>1, <2>3, <3>2, <3>6
      <4>3. st'.at \in Int /\ st'.len \in Nat
          BY <2>4, <3>2, <3>3
      <4>4. ctx'.requested_offset + st'.len = ReadEnd(ctx')
          BY <1>6, <3>2, <3>5
      <4> QED
          BY <1>6, <1>9, <4>1, <4>2, <4>3, <4>4 DEF HandedOK
    <3>8. Whole(mem', ctx)
        BY <1>1, <1>2, <2>3 DEF m
    <3> QED
        BY <1>1, <1>2, <1>4, <3>1, <3>7, <3>8, HandsOver DEF n
  <2> QED
      BY <2>5, <2>6
<1>10. CASE job.encrypted
  <2>1. r = decrypt_read_buffer(m, b)
      BY <1>10 DEF r
  <2>2. job.kind = "text" /\ job.plain \in Nat
      BY <1>10, FileFacts
  <2>3. /\ ctx.read_offset = 0 /\ ctx.requested_offset = 0 /\ last \in Nat /\ skip = 0
        /\ last <= job.length
      BY <1>3, <2>2 DEF ResultNumbers
  <2>4. FinalBlock(last) <=> last < ctx.read_size
      BY DEF FinalBlock
  <2>5. last > 0 \/ FinalBlock(last)
      BY <1>3, <2>3, <2>4 DEF ResultNumbers
  <2>6. \/ r.rc = "bad_data" /\ FinalBlock(last) /\ last # Encrypted(job.plain)
        \/ IsDecrypted(m, r, last)
    <3> HIDE DEF last
    <3>1. b.last \in Nat /\ (b.last > 0 \/ FinalBlock(b.last)) /\ HeldAt(m, b.blk, 0, b.last, 0)
        BY <1>5, <1>7, <2>3, <2>5
    <3>2. \/ r.rc = "bad_data" /\ FinalBlock(b.last) /\ b.last # Encrypted(job.plain)
          \/ IsDecrypted(m, r, b.last)
        BY <1>5, <1>7, <2>1, <2>2, <2>3, <3>1, DecryptFacts
    <3> QED
        BY <1>5, <3>2, Zenon
  <2>7. CASE r.rc = "bad_data" /\ FinalBlock(last) /\ last # Encrypted(job.plain)
    <3>1. finalize(r.rc)
        BY <1>1, <2>7 DEF OK
    <3>2. last = job.length
      <4>1. /\ job.length <= ReadEnd(ctx) /\ ReadEnd(ctx) = ctx.read_offset + last
            /\ job.length \in Nat
          BY <1>3, <2>4, <2>7 DEF ResultNumbers
      <4> HIDE DEF last
      <4> QED
          BY <2>3, <4>1
    <3>3. BadJob(job)
        BY <1>10, <2>7, <3>2 DEF BadJob
    <3> QED
        BY <1>2, <3>1, <3>3, GaveUp
  <2>8. CASE IsDecrypted(m, r, last)
    <3>1. /\ r.rc = OK /\ IsMemory(r.mem) /\ Len(m) \in Nat /\ Len(r.mem) = Len(m) + 1
          /\ \A h \in 1 .. Len(m) : r.mem[h] = m[h]
          /\ r.blk = Len(m) + 1 /\ r.mem[r.blk].freed = FALSE /\ r.at = 0 /\ r.len \in Nat
          /\ HeldAt(r.mem, r.blk, 0, r.len, 0)
          /\ FinalBlock(last) => r.len = job.plain
          /\ ~FinalBlock(last) => r.len >= last - AesBlock
        BY <2>8 DEF IsDecrypted
    <3> HIDE DEF skip, last
    <3>2. st' = ParsesAt(st, "parse", r.blk, r.at + skip, r.len - skip)
      <4>1. ~(r.len < skip)
          BY <2>3, <3>1
      <4> QED
          BY <1>1, <3>1, <4>1
    <3>3. r.at + skip = 0 /\ r.len - skip = r.len
        BY <2>3, <3>1
    <3>4. st' = ParsesAt(st, "parse", r.blk, 0, r.len)
        BY <3>2, <3>3, Zenon
    <3>5. st'.blk = r.blk /\ st'.at = 0 /\ st'.len = r.len
        BY <1>8, <3>4, PlaceValues
    <3>6. Whole(mem', ctx)
      <4>1. ctx.read_buffer.blk \in 1 .. Len(m) /\ ctx.read_buffer.blk \in 1 .. Len(r.mem)
        <5>1. ctx.read_buffer.blk \in 1 .. Len(m)
            BY <1>2 DEF Whole, HasBlock
        <5> QED
            BY <3>1, <5>1
      <4>2. r.mem[ctx.read_buffer.blk] = m[ctx.read_buffer.blk]
          BY <3>1, <4>1
      <4> QED
          BY <1>1, <1>2, <3>1, <4>1, <4>2, Zenon DEF Whole, HasBlock, HeldAt
    <3>7. HandedOK(job, mem', ctx', st')
      <4>1. st'.blk \in 1 .. Len(mem') /\ mem'[st'.blk].freed = FALSE
          BY <1>1, <3>1, <3>5
      <4>2. HeldAt(mem', st'.blk, st'.at, st'.len, ctx'.requested_offset)
          BY <1>1, <1>6, <2>3, <3>1, <3>5, Zenon
      <4>3. IF ctx'.read_buffer.last < ctx'.read_size THEN st'.len = job.plain
            ELSE st'.len >= ctx'.read_size - AesBlock
        <5>1. CASE last < ctx.read_size
            BY <1>6, <2>4, <3>1, <3>5, <5>1, Zenon
        <5>2. CASE ~(last < ctx.read_size)
          <6>1. last = ctx.read_size
              BY <1>3, <5>2 DEF ResultNumbers, last
          <6>2. r.len >= last - AesBlock
              BY <2>4, <3>1, <5>2
          <6> QED
              BY <1>6, <3>5, <5>2, <6>1, <6>2, Zenon
        <5> QED
            BY <5>1, <5>2
      <4>4. st'.at \in Int /\ st'.len \in Nat
          BY <3>1, <3>5
      <4> QED
          BY <1>6, <1>10, <4>1, <4>2, <4>3, <4>4 DEF HandedOK
    <3> QED
        BY <1>1, <1>2, <1>4, <3>4, <3>6, <3>7, HandsOver DEF n
  <2> QED
      BY <2>6, <2>7, <2>8
<1> QED
    BY <1>9, <1>10


-----------------------------------------------------------------------------
(* The readers of the formats ask for more *)

\* The request when a range is parsed.
LEMMA AtParse ==
    ASSUME IInv, ReadOK(job, mem, ctx, reader, st, child, parent), st.pc = "parse"
    PROVE  /\ IsMemory(mem) /\ ctx \in CtxT /\ IsReader(reader) /\ Quiet(child, parent)
           /\ BufferOK(mem, ctx) /\ PrefixOK(mem, ctx) /\ ReaderOK(job, ctx, reader, "parse")
           /\ GotOK(job, mem, ctx) /\ HandedOK(job, mem, ctx, st) /\ ctx.prefix_buffer = NoBuf
           /\ HeldAt(mem, ctx.read_buffer.blk, 0, ctx.read_buffer.last, ctx.read_offset)
           /\ ResultNumbers(job, ctx)
<1>1. /\ IsMemory(mem) /\ ctx \in CtxT /\ IsReader(reader) /\ Quiet(child, parent)
      /\ BufferOK(mem, ctx) /\ PrefixOK(mem, ctx) /\ ReaderOK(job, ctx, reader, "parse")
      /\ GotOK(job, mem, ctx) /\ HandedOK(job, mem, ctx, st)
    BY DEF ReadOK, BytesOK, GotPcs
<1>2. ctx.prefix_buffer = NoBuf
    BY <1>1 DEF HandedOK
<1>3. ResultNumbers(job, ctx)
    BY <1>1, GotNumbers
<1>4. HeldAt(mem, ctx.read_buffer.blk, 0, ctx.read_buffer.last, ctx.read_offset)
  <2>1. PreLen(ctx) = 0
      BY <1>2 DEF PreLen, NoBuf
  <2>2. ctx.read_buffer.pos = 0
      BY <1>1, <2>1 DEF BufferOK
  <2>3. ctx.read_offset + PreLen(ctx) = ctx.read_offset
      BY <1>3, <2>1 DEF ResultNumbers
  <2>4. Buffered(ctx.read_buffer) = ctx.read_buffer.last
      BY <1>3, <2>2 DEF ResultNumbers, Buffered
  <2> QED
      BY <1>1, <2>2, <2>3, <2>4, Zenon DEF GotOK
<1> QED
    BY <1>1, <1>2, <1>3, <1>4

Requests(c, o) == [c EXCEPT !.requested_offset = o]

\* The read state is the same but for the offset that is asked for.
IsRequested(d, c, o) ==
    /\ d \in CtxT /\ d.requested_offset = o /\ d.read_offset = c.read_offset
    /\ d.read_size = c.read_size /\ d.read_buffer = c.read_buffer
    /\ d.prefix_buffer = c.prefix_buffer

\* Another offset is asked for.
LEMMA RequestedCtx ==
    ASSUME NEW c \in CtxT, NEW o \in Nat, NEW d, d = Requests(c, o)
    PROVE  IsRequested(d, c, o)
    BY DEF CtxT, Requests, IsRequested

\* What the reader r that is left behind has to know when it has asked for a range.
AsksFor1(req, r) ==
    /\ IsReader(r)
    /\ req.read_offset \in Nat /\ req.read_size \in Nat /\ req.allow_empty \in BOOLEAN
    /\ req.allow_empty \/ job.kind = "mp4"
    /\ job.kind = "mp4" => Before(job, req.read_offset) /\ Before(job, ReadEnd(ctx))
    /\ job.kind = "text" => req.read_offset = 0
    /\ IF req.read_size = 0 THEN ReadEnd(ctx) <= req.read_offset
       ELSE ReadEnd(ctx) < req.read_offset + req.read_size
    /\ \A c, pc : /\ c.requested_offset = req.read_offset
                  /\ job.kind = "text" => c.read_offset = 0
                  /\ Reaches(c, pc, req.read_offset + req.read_size)
                  => ReaderOK(job, c, r, pc)

\* "already reached the end of file and read offset is after the previous one"
LEMMA AskNothing ==
    ASSUME IInv, job.kind \in {"mp4", "text"},
           ReadOK(job, mem, ctx, reader, st, child, parent), st.pc = "parse",
           NEW req, NEW r, AsksFor1(req, r), NothingToRead(req), ask_for(req, r)
    PROVE  ReadOK(job, mem', ctx', reader', st', child', parent')
<1>1. /\ reader' = r /\ mem' = mem /\ child' = child /\ parent' = parent
      /\ ctx' = Requests(ctx, req.read_offset) /\ st' = At(st, "result")
    BY DEF ask_for, Requests, At, childVars
<1>2. /\ IsMemory(mem) /\ ctx \in CtxT /\ Quiet(child, parent)
      /\ BufferOK(mem, ctx) /\ PrefixOK(mem, ctx) /\ GotOK(job, mem, ctx)
      /\ ResultNumbers(job, ctx) /\ ctx.prefix_buffer = NoBuf
    BY AtParse
<1>3. IsRequested(ctx', ctx, req.read_offset)
    BY <1>1, <1>2, RequestedCtx DEF AsksFor1
<1>4. st'.pc = "result"
    BY <1>1, PlaceFields DEF IInv
<1>5. req.read_offset >= ctx.read_offset /\ ctx.read_buffer.last < ctx.read_size
  <2>1. PreLen(ctx) = 0
      BY <1>2 DEF PreLen, NoBuf
  <2>2. ctx.read_buffer.pos = 0
      BY <1>2, <2>1 DEF BufferOK
  <2>3. Buffered(ctx.read_buffer) = ctx.read_buffer.last
      BY <1>2, <2>2 DEF ResultNumbers, Buffered
  <2> QED
      BY <2>3 DEF NothingToRead
<1>6. /\ ctx'.requested_offset = req.read_offset /\ ctx'.read_offset = ctx.read_offset
      /\ ctx'.read_size = ctx.read_size /\ ctx'.read_buffer = ctx.read_buffer
      /\ ctx'.prefix_buffer = ctx.prefix_buffer /\ ctx' \in CtxT
    BY <1>3 DEF IsRequested
<1>7. PreLen(ctx') = PreLen(ctx) /\ ReadEnd(ctx') = ReadEnd(ctx) /\ AskedEnd(ctx') = AskedEnd(ctx)
    BY <1>6, Zenon DEF PreLen, ReadEnd, AskedEnd
<1>8. BufferOK(mem, ctx')
  <2>1. ctx.read_offset <= req.read_offset
      BY <1>2, <1>5 DEF ResultNumbers, AsksFor1
  <2> QED
      BY <1>2, <1>6, <1>7, <2>1, Zenon DEF BufferOK
<1>9. PrefixOK(mem, ctx')
    BY <1>2, <1>6 DEF PrefixOK
<1>10. GotOK(job, mem, ctx')
    BY <1>2, <1>5, <1>6, <1>7, Zenon DEF GotOK
<1>11. ReaderOK(job, ctx', r, "result")
  <2>1. Reaches(ctx', "result", req.read_offset + req.read_size)
      BY <1>5, <1>6 DEF Reaches
  <2>2. job.kind = "text" => ctx'.read_offset = 0
      BY <1>2, <1>6 DEF ResultNumbers
  <2>3. ctx'.requested_offset = req.read_offset
      BY <1>6
  <2> QED
      BY <2>1, <2>2, <2>3, Zenon DEF AsksFor1
<1>12. IsReader(r)
    BY DEF AsksFor1
<1> HIDE DEF IsReader, IsMemory, CtxT
<1>13. BytesOK(job, mem', ctx', reader', st')
    BY <1>1, <1>4, <1>8, <1>9, <1>10, <1>11 DEF BytesOK, ReadingPcs, GotPcs
<1> QED
    BY <1>1, <1>2, <1>4, <1>6, <1>12, <1>13 DEF ReadOK, ReadPcs, ReadingPcs, GotPcs


\* The numbers of the range that is asked for: it is behind what was read, or goes on from there.
AskedNumbers(o, off, size, pre, need) ==
    /\ o \in Nat /\ off \in Nat /\ size \in Nat /\ pre \in Nat
    /\ off <= o /\ o < off + size /\ o + need <= off + size /\ pre < size
    /\ pre > 0 => ctx.read_offset <= off /\ off + pre = ReadEnd(ctx)

\* The range has bytes that were not read.
LEMMA AskNumbers ==
    ASSUME IInv, ReadOK(job, mem, ctx, reader, st, child, parent), st.pc = "parse",
           NEW req, NEW r, AsksFor1(req, r)
    PROVE  AskedNumbers(req.read_offset, AlignDown(req.read_offset), ReadSize(req),
                        PrefixSize(AlignDown(req.read_offset)), req.read_size)
<1> DEFINE o == req.read_offset
           need == req.read_size
           off == AlignDown(o)
           size == ReadSize(req)
           pre == PrefixSize(off)
           b == ctx.read_buffer
           last == ctx.read_buffer.last
           from == ctx.read_offset
           end == ReadEnd(ctx)
           al == Alignment
           ini == InitialReadSize
           sum == need + o - off
<1>1. o \in Nat /\ need \in Nat /\ off \in Nat /\ off <= o /\ o < off + al
    BY Aligned DEF AsksFor1
<1>2. al \in Nat /\ al > 0 /\ ini \in Nat /\ al <= ini
    BY Sizes
<1>3. from \in Nat /\ last \in Nat /\ end = from + last
    BY AtParse DEF ResultNumbers
<1>4. IF need = 0 THEN end <= o ELSE end < o + need
    BY DEF AsksFor1
<1>5. need = 0 => size \in Nat /\ ini <= size
  <2>1. need = 0 => size = AlignUp(ini)
      BY DEF ReadSize
  <2>2. AlignUp(ini) \in Nat /\ ini <= AlignUp(ini)
      BY <1>2, Aligned
  <2> QED
      BY <2>1, <2>2, Zenon
<1>6. need # 0 => size \in Nat /\ sum <= size
  <2>1. need # 0 => size = AlignUp(sum)
      BY DEF ReadSize
  <2>2. sum \in Nat
    <3> HIDE DEF need, o, off
    <3> QED
        BY <1>1
  <2>3. AlignUp(sum) \in Nat /\ sum <= AlignUp(sum)
    <3> HIDE DEF sum
    <3> QED
        BY <2>2, Aligned
  <2> QED
      BY <2>1, <2>3, Zenon
<1>7. pre \in Nat /\ (pre > 0 => from <= off /\ off + pre = end)
  <2> DEFINE e == from + Buffered(b)
  <2>1. Buffered(b) = last
    <3>1. PreLen(ctx) = 0
        BY AtParse DEF PreLen, NoBuf
    <3>2. b.pos = 0
        BY <3>1, AtParse DEF BufferOK
    <3> QED
        BY <1>3, <3>2 DEF Buffered
  <2>2. pre = IF b.start # NULL /\ off >= from /\ off < e THEN e - off ELSE 0
      BY DEF PrefixSize
  <2>3. e = end
      BY <1>3, <2>1
  <2> HIDE DEF off, pre, b, from, e, end
  <2> QED
      BY <1>1, <1>3, <2>2, <2>3
<1> HIDE DEF o, need, off, size, pre, b, last, from, end, al, ini
<1>8. o < off + size /\ o + need <= off + size /\ pre < size
  <2>1. CASE need = 0
      BY <1>1, <1>2, <1>3, <1>4, <1>5, <1>7, <2>1
  <2>2. CASE need # 0
      BY <1>1, <1>2, <1>3, <1>4, <1>6, <1>7, <2>2 DEF sum
  <2> QED
      BY <2>1, <2>2
<1>9. size \in Nat
    BY <1>5, <1>6
<1> QED
    BY <1>1, <1>7, <1>8, <1>9, Zenon DEF AskedNumbers, o, need, off, size, pre, from, end

\* Another range is read.
LEMMA AskSomething ==
    ASSUME IInv, job.kind \in {"mp4", "text"},
           ReadOK(job, mem, ctx, reader, st, child, parent), st.pc = "parse",
           NEW req, NEW r, AsksFor1(req, r), ~NothingToRead(req), ask_for(req, r)
    PROVE  ReadOK(job, mem', ctx', reader', st', child', parent')
<1> DEFINE o == req.read_offset
           off == AlignDown(o)
           size == ReadSize(req)
           pre == PrefixSize(off)
           q == async_read(req)
           d == q.ctx
<1>1. reader' = r /\ start_read(q)
    BY DEF ask_for
<1>2. /\ IsMemory(mem) /\ ctx \in CtxT /\ Quiet(child, parent) /\ BufferOK(mem, ctx)
      /\ ctx.prefix_buffer = NoBuf /\ ResultNumbers(job, ctx)
      /\ HeldAt(mem, ctx.read_buffer.blk, 0, ctx.read_buffer.last, ctx.read_offset)
    BY AtParse
<1>3. AskedNumbers(o, off, size, pre, req.read_size)
    BY AskNumbers
<1>4. RangeAsked(q, o, off, size, pre, req.allow_empty)
    BY <1>2, <1>3, AsyncRead DEF AskedNumbers, AsksFor1
<1>5. /\ IsReader(r) /\ (req.allow_empty \/ job.kind = "mp4")
      /\ job.kind = "mp4" => Before(job, o) /\ Before(job, ReadEnd(ctx))
      /\ job.kind = "text" => o = 0
    BY DEF AsksFor1
<1>6. /\ o \in Nat /\ off \in Nat /\ size \in Nat /\ pre \in Nat
      /\ off <= o /\ o < off + size /\ o + req.read_size <= off + size /\ pre < size
      /\ pre > 0 => ctx.read_offset <= off /\ off + pre = ReadEnd(ctx)
    BY <1>3, Zenon DEF AskedNumbers
<1>7. /\ IsMemory(q.mem) /\ d \in CtxT /\ BufferOK(q.mem, d) /\ PrefixOK(q.mem, d)
      /\ d.read_offset = off /\ d.requested_offset = o /\ d.read_size = size
      /\ d.allow_empty = req.allow_empty
      /\ d.read_buffer.start = pre /\ d.read_buffer.last = pre
      /\ q.from = ReadEnd(d) /\ q.to = AskedEnd(d)
    BY <1>4, Zenon DEF RangeAsked
<1>8. ReadEnd(d) = off + pre /\ AskedEnd(d) = off + size
    BY <1>7, Zenon DEF ReadEnd, AskedEnd
<1> HIDE DEF off, size, pre, q
<1>9. job.kind = "mp4" => Before(job, ReadEnd(d))
  <2> SUFFICES ASSUME job.kind = "mp4" PROVE Before(job, ReadEnd(d))
      OBVIOUS
  <2>1. CASE pre = 0
    <3>1. off + pre <= o
        BY <1>6, <2>1
    <3>2. Before(job, o)
        BY <1>5
    <3>3. \A i \in FirstMoov(job) : o < StopOf(job, i) /\ StopOf(job, i) \in Nat
        BY <3>2, BeforeStart DEF Before
    <3>4. \A i \in FirstMoov(job) : off + pre < StopOf(job, i)
        BY <1>6, <3>1, <3>3
    <3> QED
        BY <1>8, <3>4 DEF Before
  <2>2. CASE pre > 0
      BY <1>5, <1>6, <1>8, <2>2
  <2> QED
      BY <1>6, <2>1, <2>2
<1>10. job.kind = "text" => pre <= job.length /\ off = 0
  <2> SUFFICES ASSUME job.kind = "text" PROVE pre <= job.length /\ off = 0
      OBVIOUS
  <2>1. /\ ctx.read_offset = 0 /\ ctx.read_buffer.last <= job.length
        /\ ReadEnd(ctx) = ctx.read_offset + ctx.read_buffer.last
        /\ ctx.read_buffer.last \in Nat /\ job.length \in Nat
      BY <1>2 DEF ResultNumbers
  <2> QED
      BY <1>5, <1>6, <2>1
<1>11. ReadingOK(job, d)
  <2>1. d.read_buffer.last = d.read_buffer.start /\ d.read_buffer.start < d.read_size
      BY <1>6, <1>7
  <2>2. d.requested_offset < AskedEnd(d)
      BY <1>6, <1>7, <1>8
  <2>3. d.allow_empty \/ job.kind = "mp4"
      BY <1>5, <1>7
  <2>4. job.kind = "text" => d.read_buffer.start <= job.length
      BY <1>7, <1>10
  <2> QED
      BY <1>9, <2>1, <2>2, <2>3, <2>4 DEF ReadingOK
<1>12. ASSUME NEW pc \in ReadingPcs PROVE ReaderOK(job, d, r, pc)
  <2>1. Reaches(d, pc, o + req.read_size)
      BY <1>6, <1>8 DEF Reaches
  <2>2. d.requested_offset = o /\ (job.kind = "text" => d.read_offset = 0)
      BY <1>7, <1>10
  <2> QED
      BY <2>1, <2>2, Zenon DEF AsksFor1
<1>13. \A pc \in ReadingPcs : ReaderOK(job, d, reader', pc)
    BY <1>1, <1>12
<1> HIDE DEF o, d, IsReader, IsMemory, CtxT
<1>14. /\ IsMemory(q.mem) /\ q.ctx \in CtxT /\ BufferOK(q.mem, q.ctx) /\ PrefixOK(q.mem, q.ctx)
       /\ q.from = ReadEnd(q.ctx) /\ q.to = AskedEnd(q.ctx) /\ ReadingOK(job, q.ctx)
       /\ \A pc \in ReadingPcs : ReaderOK(job, q.ctx, reader', pc)
       /\ IsReader(reader')
    BY <1>1, <1>5, <1>7, <1>11, <1>13, Zenon DEF d
<1> QED
    BY <1>1, <1>2, <1>14, RangeStarts

\* The reader of a format asks for a range.
LEMMA AskFor ==
    ASSUME IInv, job.kind \in {"mp4", "text"},
           ReadOK(job, mem, ctx, reader, st, child, parent), st.pc = "parse",
           NEW req, NEW r, AsksFor1(req, r), ask_for(req, r)
    PROVE  ReadOK(job, mem', ctx', reader', st', child', parent')
    BY AskNothing, AskSomething


-----------------------------------------------------------------------------
(* The readers of the formats end *)

Identified(r, s) == [r EXCEPT !.state = s, !.moov_start_reads = MaxMoovStartReads]
HasFtyp(r, f) == [r EXCEPT !.ftyp = f]
LessReads(r) == [r EXCEPT !.moov_start_reads = @ - 1]
NeedsMoov(r, n) == [r EXCEPT !.state = "moov_data", !.moov.len = n]
HasMoov(r, p) == [r EXCEPT !.state = "done", !.moov = p]
NeedsText(r) == [r EXCEPT !.state = "second_time"]
HasText(r, p) == [r EXCEPT !.state = "done", !.text = p]

\* The reader after a call of read_metadata.
LEMMA ReaderFields ==
    ASSUME NEW r, IsReader(r), NEW v
    PROVE  /\ IsReader(Identified(r, v)) /\ Identified(r, v).state = v
           /\ Identified(r, v).moov_start_reads = MaxMoovStartReads
           /\ Identified(r, v).ftyp = r.ftyp
           /\ IsReader(HasFtyp(r, v)) /\ HasFtyp(r, v).ftyp = v /\ HasFtyp(r, v).state = r.state
           /\ HasFtyp(r, v).moov_start_reads = r.moov_start_reads
           /\ IsReader(LessReads(r)) /\ LessReads(r).moov_start_reads = r.moov_start_reads - 1
           /\ LessReads(r).ftyp = r.ftyp /\ LessReads(r).state = r.state
           /\ IsReader(NeedsMoov(r, v)) /\ NeedsMoov(r, v).state = "moov_data"
           /\ NeedsMoov(r, v).moov.len = v /\ NeedsMoov(r, v).ftyp = r.ftyp
           /\ IsReader(NeedsText(r)) /\ NeedsText(r).state = "second_time"
<1>1. PICK V : r \in ReaderRec(V)
    BY DEF IsReader
<1> DEFINE W == V \cup {v, "moov_data", "second_time", MaxMoovStartReads, r.moov_start_reads - 1}
<1>2. r.moov \in PartRec(V)
    BY <1>1 DEF ReaderRec
<1> DEFINE q == [r.moov EXCEPT !.len = v]
<1>3. q \in PartRec(W) /\ q.len = v /\ r.moov \in PartRec(W)
    BY <1>2 DEF PartRec
<1>4. NeedsMoov(r, v) = [r EXCEPT !.state = "moov_data", !.moov = q]
    BY DEF NeedsMoov
<1> HIDE DEF q
<1>5. /\ Identified(r, v) \in ReaderRec(W) /\ HasFtyp(r, v) \in ReaderRec(W)
      /\ LessReads(r) \in ReaderRec(W) /\ NeedsText(r) \in ReaderRec(W)
    BY <1>1, <1>3 DEF ReaderRec, Identified, HasFtyp, LessReads, NeedsText
<1>6. /\ NeedsMoov(r, v) \in ReaderRec(W) /\ NeedsMoov(r, v).state = "moov_data"
      /\ NeedsMoov(r, v).moov = q /\ NeedsMoov(r, v).ftyp = r.ftyp
    BY <1>1, <1>3, <1>4 DEF ReaderRec
<1>7. /\ Identified(r, v).state = v /\ Identified(r, v).moov_start_reads = MaxMoovStartReads
      /\ Identified(r, v).ftyp = r.ftyp
      /\ HasFtyp(r, v).ftyp = v /\ HasFtyp(r, v).state = r.state
      /\ HasFtyp(r, v).moov_start_reads = r.moov_start_reads
      /\ LessReads(r).moov_start_reads = r.moov_start_reads - 1
      /\ LessReads(r).ftyp = r.ftyp /\ LessReads(r).state = r.state
      /\ NeedsText(r).state = "second_time"
    BY <1>1 DEF ReaderRec, Identified, HasFtyp, LessReads, NeedsText
<1> HIDE DEF W
<1>8. \A x : x \in ReaderRec(W) => IsReader(x)
    BY DEF IsReader
<1> QED
    BY <1>3, <1>5, <1>6, <1>7, <1>8

\* The reader that has everything.
LEMMA ReaderHasAll ==
    ASSUME NEW r, IsReader(r), NEW p
    PROVE  /\ HasMoov(r, p).moov = p /\ HasMoov(r, p).ftyp = r.ftyp
           /\ HasText(r, p).text = p
<1>1. PICK V : r \in ReaderRec(V)
    BY DEF IsReader
<1> QED
    BY <1>1 DEF ReaderRec, HasMoov, HasText

\* A part of the bytes.
LEMMA HeldPart ==
    ASSUME NEW m, NEW blk, NEW at \in Int, NEW n \in Nat, NEW o \in Nat, NEW x \in Nat,
           NEW z \in Nat, HeldAt(m, blk, at, n, o), x + z <= n
    PROVE  HeldAt(m, blk, at + x, z, o + x)
<1> SUFFICES ASSUME NEW i \in 0 .. z - 1
             PROVE  m[blk].bytes[(at + x) + i] = (o + x) + i
    BY DEF HeldAt
<1> DEFINE y == x + i
           place == at + y
<1>1. y \in 0 .. n - 1 /\ (at + x) + i = place /\ (o + x) + i = o + y
    OBVIOUS
<1>2. \A k \in 0 .. n - 1 : m[blk].bytes[at + k] = o + k
    BY DEF HeldAt
<1>3. m[blk].bytes[place] = o + y
    BY <1>1, <1>2
<1> HIDE DEF y, place
<1> QED
    BY <1>1, <1>3

\* The reader has what it wanted.
LEMMA DoneStep ==
    ASSUME IInv, Quiet(child, parent), NEW r, read_done(r), DoneOK(job, mem, r)
    PROVE  ReadOK(job, mem', ctx', reader', st', child', parent')
<1>1. /\ reader' = r /\ mem' = mem /\ child' = child /\ parent' = parent
      /\ st' = At(st, "done")
    BY DEF read_done, At, childVars
<1>2. st'.pc = "done"
    BY <1>1, PlaceFields DEF IInv
<1> QED
    BY <1>1, <1>2 DEF ReadOK, ReadPcs, ReadingPcs, GotPcs

\* The reader gives up for a reason.
LEMMA FailedStep ==
    ASSUME IInv, Quiet(child, parent), read_failed("bad_data"),
           BadJob(job) \/ CutAt(job, ctx.requested_offset + st.len)
    PROVE  ReadOK(job, mem', ctx', reader', st', child', parent')
<1>1. finalize("bad_data") /\ Quiet(child', parent') /\ ctx' = ctx
    BY DEF read_failed, childVars
<1> QED
    BY <1>1, GaveUp

\* What is handed to the reader of an mp4.
HandedMp4(o, n) ==
    /\ o \in Nat /\ n \in Nat /\ st.at \in Int /\ mem[st.blk].freed = FALSE
    /\ HeldAt(mem, st.blk, st.at, n, o) /\ o + n = ReadEnd(ctx)
    /\ ctx.read_buffer.last < ctx.read_size => job.length <= o + n

\* The bytes of the offset that was asked for, up to the end of what was read.
LEMMA HandedFacts ==
    ASSUME IInv, job.kind = "mp4",
           ReadOK(job, mem, ctx, reader, st, child, parent), st.pc = "parse"
    PROVE  HandedMp4(ctx.requested_offset, st.len)
<1>1. HandedOK(job, mem, ctx, st) /\ ResultNumbers(job, ctx)
    BY AtParse
<1>2. ~job.encrypted
    BY FileFacts
<1>3. ctx.requested_offset + st.len = ReadEnd(ctx)
    BY <1>1, <1>2 DEF HandedOK
<1> QED
    BY <1>1, <1>3 DEF HandedOK, ResultNumbers, HandedMp4

\* "done:" of mp4_metadata_reader_read
LEMMA MoovReadStep ==
    ASSUME IInv, job.kind = "mp4",
           ReadOK(job, mem, ctx, reader, st, child, parent), st.pc = "parse",
           NEW r, IsReader(r), FtypOK(job, r), NEW i \in FirstMoov(job),
           NEW offset \in Nat, NEW size \in Nat, size = SizeOf(job, i),
           ctx.requested_offset + offset = DataOf(job, i), offset + size <= st.len,
           moov_read(r, offset, size)
    PROVE  ReadOK(job, mem', ctx', reader', st', child', parent')
<1>1. HandedMp4(ctx.requested_offset, st.len) /\ Quiet(child, parent)
    BY HandedFacts, AtParse
<1>2. CASE MoovFails
  <2>1. read_failed("bad_data")
      BY <1>2 DEF moov_read
  <2>2. BadJob(job)
      BY <1>2 DEF MoovFails, CannotUncompress, BadMp4, BadJob
  <2> QED
      BY <1>1, <2>1, <2>2, FailedStep
<1>3. CASE ~MoovFails
  <2> DEFINE part == IF job.compressed THEN [NoPart EXCEPT !.len = job.uncompressed]
                     ELSE PartAt(offset, size)
             h == HasMoov(r, part)
  <2>1. read_done(h)
      BY <1>3 DEF moov_read, HasMoov
  <2>2. h.moov = part /\ h.ftyp = r.ftyp
      BY ReaderHasAll
  <2>3. ~job.compressed => part.blk = st.blk /\ part.at = st.at + offset /\ part.len = size
      BY DEF PartAt
  <2> HIDE DEF part, h
  <2>4. HeldAt(mem, st.blk, st.at + offset, size, ctx.requested_offset + offset)
      BY <1>1, HeldPart DEF HandedMp4
  <2>5. ASSUME ~job.compressed, NEW k \in FirstMoov(job)
        PROVE  /\ h.moov.len = SizeOf(job, k) /\ mem[h.moov.blk].freed = FALSE
               /\ HeldAt(mem, h.moov.blk, h.moov.at, h.moov.len, DataOf(job, k))
    <3>1. k = i
        BY FirstUnique
    <3>2. h.moov.blk = st.blk /\ h.moov.at = st.at + offset /\ h.moov.len = size
        BY <2>2, <2>3, <2>5
    <3> QED
        BY <1>1, <2>4, <3>1, <3>2 DEF HandedMp4
  <2>6. FtypOK(job, h)
      BY <2>2 DEF FtypOK
  <2>7. DoneOK(job, mem, h)
      BY <2>5, <2>6 DEF DoneOK
  <2> QED
      BY <1>1, <2>1, <2>7, DoneStep
<1> QED
    BY <1>2, <1>3


\* The header of the atom where the moov is looked for was not read.
LEMMA HeaderMissing ==
    ASSUME IInv, job.kind = "mp4",
           ReadOK(job, mem, ctx, reader, st, child, parent), st.pc = "parse",
           NEW k \in 1 .. Len(job.atoms), ctx.requested_offset = StartOf(job, k),
           \A i \in 1 .. k - 1 : ~MoovAt(job, i),
           ctx.requested_offset + st.len < DataOf(job, k)
    PROVE  BadJob(job) \/ CutAt(job, ctx.requested_offset + st.len)
<1> DEFINE o == ctx.requested_offset
           n == st.len
           e == o + n
<1>1. /\ HandedMp4(o, n) /\ ResultNumbers(job, ctx) /\ job \in Job /\ IsFile(job)
    BY HandedFacts, AtParse, FileFacts
<1>2. o \in Nat /\ n \in Nat /\ e = ReadEnd(ctx)
    BY <1>1 DEF HandedMp4
<1>3. AtOf(job, k) = o /\ k \in DOMAIN job.atoms /\ e < DataOf(job, k)
    BY <1>1, AtomFacts
<1>4. CASE n > 0
  <2>1. AtOf(job, k) < e /\ e < DataOf(job, k)
    <3> HIDE DEF o, n
    <3> QED
        BY <1>2, <1>3, <1>4
  <2> QED
      BY <1>3, <2>1 DEF CutAt
<1>5. CASE n = 0
  <2>1. e = o
    <3> HIDE DEF o, n
    <3> QED
        BY <1>2, <1>5
  <2>2. ctx.read_buffer.last < ctx.read_size
    <3> DEFINE last == ctx.read_buffer.last
               size == ctx.read_size
               from == ctx.read_offset
               asked == AskedEnd(ctx)
    <3>1. /\ o < asked \/ last < size
          /\ asked = from + size /\ e = from + last
          /\ from \in Nat /\ last \in Nat /\ size \in Nat
        BY <1>1, <1>2, Zenon DEF ResultNumbers
    <3> HIDE DEF last, size, from, asked, o, e
    <3>2. last < size
        BY <1>2, <2>1, <3>1
    <3> QED
        BY <3>2 DEF last, size
  <2>3. job.length <= o
      BY <1>1, <2>1, <2>2 DEF HandedMp4
  <2>4. Before(job, o)
    <3>1. Len(job.atoms) \in Nat
        BY <1>1, AtomFacts
    <3>2. k \in 1 .. Len(job.atoms) + 1
        BY <3>1
    <3>3. Before(job, StartOf(job, k))
        BY <3>2, SearchBefore
    <3> QED
        BY <3>3
  <2>5. Before(job, job.length)
      BY <1>2, <2>3, <2>4, BeforeEnd
  <2> QED
      BY <2>5 DEF BadMp4, BadJob
<1> QED
    BY <1>2, <1>4, <1>5

\* There is no moov.
LEMMA NoMoov ==
    ASSUME IInv, job.kind = "mp4", \A i \in 1 .. Len(job.atoms) : ~MoovAt(job, i)
    PROVE  BadJob(job)
<1>1. FirstMoov(job) = {}
    BY FileFacts, AtomFacts DEF FirstMoov
<1> QED
    BY <1>1 DEF Before, BadMp4, BadJob

\* The reader is another one, and waits for the same range.
LEMMA OtherReader ==
    ASSUME IInv, ReadOK(job, mem, ctx, reader, st, child, parent), st.pc = "parse",
           NEW r, IsReader(r), ReaderOK(job, ctx, r, "parse"), reader' = r,
           UNCHANGED <<st, mem, ctx, childVars>>
    PROVE  ReadOK(job, mem', ctx', reader', st', child', parent')
<1>1. /\ IsMemory(mem) /\ ctx \in CtxT /\ Quiet(child, parent)
      /\ BufferOK(mem, ctx) /\ PrefixOK(mem, ctx) /\ GotOK(job, mem, ctx)
      /\ HandedOK(job, mem, ctx, st)
    BY AtParse
<1>2. mem' = mem /\ ctx' = ctx /\ st' = st /\ child' = child /\ parent' = parent
    BY DEF childVars
<1> HIDE DEF IsReader, IsMemory, CtxT
<1>3. BytesOK(job, mem', ctx', reader', st')
    BY <1>1, <1>2 DEF BytesOK, ReadingPcs, GotPcs
<1> QED
    BY <1>1, <1>2, <1>3 DEF ReadOK, ReadPcs, ReadingPcs, GotPcs

\* ngx_http_vod_identify_format
LEMMA IdentifyStep ==
    ASSUME IInv, job.kind \in {"mp4", "text"},
           ReadOK(job, mem, ctx, reader, st, child, parent), identify_format
    PROVE  ReadOK(job, mem', ctx', reader', st', child', parent')
<1>1. st.pc = "parse" /\ reader.state = "none"
    BY DEF identify_format
<1>2. /\ IsReader(reader) /\ ReaderOK(job, ctx, reader, "parse") /\ Quiet(child, parent)
    BY <1>1, AtParse
<1>3. CASE job.kind = "mp4" /\ \A i \in parse_atoms(0, st.len) :
                                  job.atoms[i].name \notin {"ftyp", "moov", "mdat"}
  <2>1. read_failed("bad_data")
      BY <1>3, Zenon DEF identify_format
  <2>2. ctx.requested_offset = 0 /\ HandedMp4(0, st.len)
    <3>1. ctx.requested_offset = 0
        BY <1>1, <1>2, <1>3 DEF ReaderOK, Mp4Reader
    <3> QED
        BY <1>1, <1>3, <3>1, HandedFacts
  <2>3. st.len \in Nat
      BY <2>2 DEF HandedMp4
  <2>4. Len(job.atoms) \in Nat /\ DOMAIN job.atoms = 1 .. Len(job.atoms)
      BY FileFacts, AtomFacts
  <2>5. CASE Len(job.atoms) = 0
      BY <1>1, <1>2, <1>3, <2>1, <2>4, <2>5, NoMoov, FailedStep
  <2>6. CASE Len(job.atoms) > 0
    <3>1. 1 \in 1 .. Len(job.atoms) /\ StartOf(job, 1) = 0
        BY <2>4, <2>6 DEF StartOf
    <3>2. AtOf(job, 1) = 0 /\ DataOf(job, 1) \in Nat
        BY <3>1, FileFacts, AtomFacts
    <3>3. CASE DataOf(job, 1) <= st.len
      <4>1. 1 \in parse_atoms(0, st.len)
          BY <2>3, <2>4, <3>1, <3>2, <3>3 DEF parse_atoms, AtOf, DataOf, DataAt
      <4>2. NameOf(job, 1) \notin {"ftyp", "moov", "mdat"}
          BY <1>3, <4>1 DEF NameOf
      <4>3. BadJob(job)
          BY <1>3, <4>2 DEF BadMp4, BadJob
      <4> QED
          BY <1>2, <2>1, <4>3, FailedStep
    <3>4. CASE ~(DataOf(job, 1) <= st.len)
      <4>1. ctx.requested_offset + st.len < DataOf(job, 1)
          BY <2>2, <2>3, <3>2, <3>4
      <4>2. \A i \in 1 .. 1 - 1 : ~MoovAt(job, i)
          OBVIOUS
      <4>3. BadJob(job) \/ CutAt(job, ctx.requested_offset + st.len)
          BY <1>1, <1>3, <2>2, <3>1, <4>1, <4>2, HeaderMissing
      <4> QED
          BY <1>2, <2>1, <4>3, FailedStep
    <3> QED
        BY <3>3, <3>4
  <2> QED
      BY <2>4, <2>5, <2>6
<1>4. CASE ~(job.kind = "mp4" /\ \A i \in parse_atoms(0, st.len) :
                                    job.atoms[i].name \notin {"ftyp", "moov", "mdat"})
  <2> DEFINE s == IF job.kind = "mp4" THEN "moov_header" ELSE "first_time"
             r == Identified(reader, s)
  <2>1. reader' = r /\ UNCHANGED <<st, mem, ctx, childVars>>
      BY <1>4, Zenon DEF identify_format, Identified
  <2>2. /\ IsReader(r) /\ r.state = s /\ r.moov_start_reads = MaxMoovStartReads
        /\ r.ftyp = reader.ftyp
    <3> HIDE DEF s
    <3> QED
        BY <1>2, ReaderFields
  <2> HIDE DEF r
  <2>3. CASE job.kind = "mp4"
    <3>1. r.state = "moov_header"
        BY <2>2, <2>3
    <3>2. ctx.requested_offset = 0 /\ FtypOK(job, reader)
        BY <1>1, <1>2, <2>3 DEF ReaderOK, Mp4Reader
    <3>3. SearchAt(job, ctx, r, 1)
      <4>1. Len(job.atoms) \in Nat /\ MaxMoovStartReads \in Nat
          BY FileFacts, AtomFacts, Sizes
      <4>2. 1 \in 1 .. Len(job.atoms) + 1 /\ 1 + MaxMoovStartReads > MaxMoovStartReads
          BY <4>1
      <4>3. \A i \in 1 .. 1 - 1 : ~MoovAt(job, i)
          OBVIOUS
      <4>4. StartOf(job, 1) = 0
          BY DEF StartOf
      <4> QED
          BY <2>2, <3>2, <4>1, <4>2, <4>3, <4>4, Zenon DEF SearchAt
    <3>4. FtypOK(job, r)
        BY <2>2, <3>2, Zenon DEF FtypOK
    <3>5. Mp4Reader(job, ctx, r, "parse")
        BY <3>1, <3>3, <3>4 DEF Mp4Reader
    <3> QED
        BY <1>1, <2>1, <2>2, <2>3, <3>5, OtherReader DEF ReaderOK
  <2>4. CASE job.kind = "text"
    <3>1. r.state = "first_time"
        BY <2>2, <2>4
    <3>2. TextReader(ctx, r, "parse")
        BY <1>1, <1>2, <2>4, <3>1 DEF ReaderOK, TextReader
    <3> QED
        BY <1>1, <2>1, <2>2, <2>4, <3>2, OtherReader DEF ReaderOK
  <2> QED
      BY <2>3, <2>4
<1> QED
    BY <1>3, <1>4


\* subtitle_reader_read
LEMMA SubtitleStep ==
    ASSUME IInv, job.kind \in {"mp4", "text"},
           ReadOK(job, mem, ctx, reader, st, child, parent), subtitle_read
    PROVE  ReadOK(job, mem', ctx', reader', st', child', parent')
<1>1. st.pc = "parse" /\ reader.state \in {"first_time", "second_time"}
    BY DEF subtitle_read
<1>2. /\ IsReader(reader) /\ ReaderOK(job, ctx, reader, "parse") /\ Quiet(child, parent)
      /\ ResultNumbers(job, ctx) /\ HandedOK(job, mem, ctx, st)
    BY <1>1, AtParse
<1>3. job.kind = "text"
    BY <1>1, <1>2 DEF ReaderOK, Mp4Reader
<1>4. TextReader(ctx, reader, "parse")
    BY <1>2, <1>3 DEF ReaderOK
<1>5. /\ InitialReadSize \in Nat /\ InitialReadSize > 0 /\ SubtitleLimit \in Nat
      /\ InitialReadSize < SubtitleLimit /\ AesBlock \in Nat
    BY Sizes
<1>6. /\ ctx.read_offset = 0 /\ ctx.requested_offset = 0 /\ ctx.read_buffer.last \in Nat
      /\ ctx.read_size \in Nat /\ ctx.read_buffer.last <= ctx.read_size
      /\ ReadEnd(ctx) = ctx.read_offset + ctx.read_buffer.last
      /\ AskedEnd(ctx) = ctx.read_offset + ctx.read_size
      /\ ctx.read_buffer.last < ctx.read_size => job.length <= ReadEnd(ctx)
    BY <1>2, <1>3, Zenon DEF ResultNumbers
<1>7. CASE reader.state = "first_time"
  <2> DEFINE r == NeedsText(reader)
             req == ReadReq(0, SubtitleLimit, TRUE)
  <2>1. ask_for(req, r)
      BY <1>7, Zenon DEF subtitle_read, NeedsText
  <2>2. IsReader(r) /\ r.state = "second_time"
      BY <1>2, ReaderFields
  <2>3. req.read_offset = 0 /\ req.read_size = SubtitleLimit /\ req.allow_empty = TRUE
      BY DEF ReadReq
  <2>4. ReadEnd(ctx) < SubtitleLimit
      BY <1>4, <1>5, <1>6, <1>7 DEF TextReader
  <2> HIDE DEF r, req
  <2>5. ASSUME NEW c, NEW pc, c.requested_offset = req.read_offset, c.read_offset = 0,
               Reaches(c, pc, req.read_offset + req.read_size)
        PROVE  ReaderOK(job, c, r, pc)
    <3>1. req.read_offset + req.read_size = SubtitleLimit
        BY <1>5, <2>3
    <3>2. Reaches(c, pc, SubtitleLimit)
        BY <2>5, <3>1
    <3>3. TextReader(c, r, pc)
        BY <2>2, <2>3, <2>5, <3>2 DEF TextReader
    <3> QED
        BY <1>3, <3>3 DEF ReaderOK
  <2>6. AsksFor1(req, r)
    <3>1. \A c, pc : /\ c.requested_offset = req.read_offset
                     /\ job.kind = "text" => c.read_offset = 0
                     /\ Reaches(c, pc, req.read_offset + req.read_size)
                     => ReaderOK(job, c, r, pc)
        BY <1>3, <2>5, Zenon
    <3>2. /\ req.read_offset \in Nat /\ req.read_size \in Nat /\ req.allow_empty \in BOOLEAN
      <4>1. req.read_offset \in Nat /\ req.read_size \in Nat
          BY <1>5, <2>3
      <4>2. req.allow_empty \in BOOLEAN
          BY <2>3, Zenon
      <4> QED
          BY <4>1, <4>2
    <3>3. IF req.read_size = 0 THEN ReadEnd(ctx) <= req.read_offset
          ELSE ReadEnd(ctx) < req.read_offset + req.read_size
        BY <1>5, <2>3, <2>4
    <3>4. job.kind # "mp4" /\ req.allow_empty /\ req.read_offset = 0
        BY <1>3, <2>3
    <3> QED
        BY <2>2, <3>1, <3>2, <3>3, <3>4, Zenon DEF AsksFor1
  <2> QED
      BY <1>1, <2>1, <2>6, AskFor
<1>8. CASE reader.state # "first_time"
  <2> DEFINE h == HasText(reader, PartAt(0, st.len))
             n == st.len
             last == ctx.read_buffer.last
             size == ctx.read_size
             plain == job.plain
             most == SubtitleLimit - AesBlock
  <2>1. read_done(h)
      BY <1>8, Zenon DEF subtitle_read, HasText
  <2>2. h.text.blk = st.blk /\ h.text.at = st.at + 0 /\ h.text.len = n
    <3>1. h.text = PartAt(0, st.len)
        BY <1>2, ReaderHasAll
    <3> HIDE DEF h
    <3> QED
        BY <3>1 DEF PartAt
  <2>3. /\ st.at \in Int /\ n \in Nat /\ mem[st.blk].freed = FALSE
        /\ HeldAt(mem, st.blk, st.at, n, 0)
        /\ ~job.encrypted => ctx.requested_offset + st.len = ReadEnd(ctx)
        /\ job.encrypted => IF last < size THEN n = plain ELSE n >= size - AesBlock
      BY <1>2, <1>6, Zenon DEF HandedOK
  <2>4. /\ plain \in Nat /\ job.length \in Nat /\ (~job.encrypted => plain = job.length)
      BY FileFacts
  <2>5. SubtitleLimit <= size \/ last < size
    <3>1. Reaches(ctx, "parse", SubtitleLimit)
        BY <1>1, <1>4, <1>8 DEF TextReader
    <3> QED
        BY <1>6, <3>1 DEF Reaches
  <2>6. n >= plain \/ n >= most
    <3>1. CASE job.encrypted
      <4>1. IF last < size THEN n = plain ELSE n >= size - AesBlock
          BY <2>3, <3>1
      <4> HIDE DEF n, last, size, plain
      <4> QED
          BY <1>5, <1>6, <2>3, <2>4, <2>5, <4>1 DEF last, size
    <3>2. CASE ~job.encrypted
      <4>1. n = last
          BY <1>6, <2>3, <3>2
      <4>2. last < size => plain <= last
          BY <1>6, <2>4, <3>2
      <4>3. last \in Nat /\ size \in Nat /\ last <= size
          BY <1>6
      <4> HIDE DEF n, last, size, plain
      <4> QED
          BY <1>5, <2>4, <2>5, <4>1, <4>2, <4>3
    <3> QED
        BY <3>1, <3>2
  <2>7. n >= Smaller(plain, most)
    <3> HIDE DEF n, plain
    <3> QED
        BY <1>5, <2>3, <2>4, <2>6 DEF Smaller
  <2>8. HeldAt(mem, h.text.blk, h.text.at, h.text.len, 0)
      BY <2>2, <2>3
  <2> HIDE DEF h
  <2>9. DoneOK(job, mem, h)
      BY <1>3, <2>2, <2>3, <2>7, <2>8 DEF DoneOK
  <2> QED
      BY <1>2, <2>1, <2>9, DoneStep
<1> QED
    BY <1>7, <1>8

\* mp4_metadata_reader_read in STATE_READ_MOOV_DATA
LEMMA MoovDataStep ==
    ASSUME IInv, job.kind \in {"mp4", "text"},
           ReadOK(job, mem, ctx, reader, st, child, parent), read_moov_data
    PROVE  ReadOK(job, mem', ctx', reader', st', child', parent')
<1>1. st.pc = "parse" /\ reader.state = "moov_data"
    BY DEF read_moov_data
<1>2. /\ IsReader(reader) /\ ReaderOK(job, ctx, reader, "parse") /\ Quiet(child, parent)
      /\ ResultNumbers(job, ctx)
    BY <1>1, AtParse
<1>3. job.kind = "mp4"
    BY <1>1, <1>2 DEF ReaderOK, TextReader
<1>4. Mp4Reader(job, ctx, reader, "parse") /\ HandedMp4(ctx.requested_offset, st.len)
    BY <1>1, <1>2, <1>3, HandedFacts DEF ReaderOK
<1>5. PICK k \in FirstMoov(job) : /\ ctx.requested_offset = DataOf(job, k)
                                  /\ reader.moov.len = SizeOf(job, k)
                                  /\ Reaches(ctx, "parse", StopOf(job, k))
    BY <1>1, <1>4 DEF Mp4Reader
<1> DEFINE o == ctx.requested_offset
           n == st.len
           len == reader.moov.len
<1>6. /\ o \in Nat /\ n \in Nat /\ o + n = ReadEnd(ctx)
      /\ ctx.read_buffer.last < ctx.read_size => job.length <= o + n
    BY <1>4, Zenon DEF HandedMp4
<1>7. len \in Nat /\ StopOf(job, k) = o + len
    BY <1>5, BeforeStart
<1>8. CASE MoovComplete
  <2>1. moov_read(reader, 0, len)
      BY <1>8, Zenon DEF read_moov_data
  <2>2. 0 + len <= n
      BY <1>7, <1>8 DEF MoovComplete
  <2>3. FtypOK(job, reader)
      BY <1>4 DEF Mp4Reader
  <2>4. o + 0 = DataOf(job, k) /\ 0 \in Nat
      BY <1>5, <1>6
  <2> QED
      BY <1>1, <1>2, <1>3, <1>5, <1>7, <2>1, <2>2, <2>3, <2>4, MoovReadStep
<1>9. CASE ~MoovComplete
  <2>1. read_failed("bad_data")
      BY <1>9, Zenon DEF read_moov_data
  <2>2. n < len
      BY <1>6, <1>7, <1>9 DEF MoovComplete
  <2>3. o + n < StopOf(job, k)
    <3> HIDE DEF o, n, len
    <3> QED
        BY <1>6, <1>7, <2>2
  <2>4. ctx.read_buffer.last < ctx.read_size
    <3> DEFINE last == ctx.read_buffer.last
               size == ctx.read_size
               from == ctx.read_offset
               stop == StopOf(job, k)
               sum == o + n
    <3>1. stop <= AskedEnd(ctx) \/ last < size
        BY <1>5 DEF Reaches
    <3>2. /\ AskedEnd(ctx) = from + size /\ sum = from + last
          /\ from \in Nat /\ last \in Nat /\ size \in Nat
        BY <1>2, <1>6, Zenon DEF ResultNumbers
    <3>3. sum < stop /\ stop \in Nat
        BY <1>5, <2>3, BeforeStart
    <3> HIDE DEF last, size, from, stop, sum
    <3>4. last < size
        BY <3>1, <3>2, <3>3
    <3> QED
        BY <3>4 DEF last, size
  <2>5. Before(job, o + n)
    <3>1. \A i \in FirstMoov(job) : i = k
        BY <1>5, FirstUnique
    <3> QED
        BY <2>3, <3>1 DEF Before
  <2>6. job.length <= o + n /\ o + n \in Int
      BY <1>6, <2>4
  <2>7. Before(job, job.length)
    <3> HIDE DEF o, n
    <3> QED
        BY <2>5, <2>6, BeforeEnd
  <2>8. BadJob(job)
      BY <1>3, <2>7 DEF BadMp4, BadJob
  <2> QED
      BY <1>2, <2>1, <2>8, FailedStep
<1> QED
    BY <1>8, <1>9


\* The numbers of the atoms that are seen where the moov is looked for.
LEMMA SearchFacts ==
    ASSUME IInv, job.kind = "mp4",
           ReadOK(job, mem, ctx, reader, st, child, parent), st.pc = "parse",
           NEW k, SearchAt(job, ctx, reader, k), NEW e, e = ctx.requested_offset + st.len,
           NEW i \in SeenAtoms(job, ctx.requested_offset, e)
    PROVE  /\ i \in 1 .. Len(job.atoms) /\ k \in 1 .. Len(job.atoms) + 1 /\ k <= i
           /\ k .. i \subseteq SeenAtoms(job, ctx.requested_offset, e)
           /\ ctx.requested_offset \in Nat /\ e \in Nat
           /\ AtOf(job, i) \in Nat /\ DataOf(job, i) \in Nat /\ SizeOf(job, i) \in Nat
           /\ StopOf(job, i) = DataOf(job, i) + SizeOf(job, i)
           /\ ctx.requested_offset < DataOf(job, i) /\ DataOf(job, i) <= e
<1>1. HandedMp4(ctx.requested_offset, st.len)
    BY HandedFacts
<1>2. ctx.requested_offset \in Nat /\ e \in Nat
    BY <1>1 DEF HandedMp4
<1>3. k \in 1 .. Len(job.atoms) + 1 /\ ctx.requested_offset = StartOf(job, k)
    BY DEF SearchAt
<1>4. /\ i \in 1 .. Len(job.atoms) /\ k <= i
      /\ k .. i \subseteq SeenAtoms(job, StartOf(job, k), e)
    BY <1>2, <1>3, FileFacts, SeenFacts
<1>5. AtOf(job, i) >= ctx.requested_offset /\ DataOf(job, i) <= e
    BY DEF SeenAtoms
<1>6. /\ AtOf(job, i) \in Nat /\ DataOf(job, i) \in Nat /\ SizeOf(job, i) \in Nat
      /\ StopOf(job, i) = DataOf(job, i) + SizeOf(job, i) /\ AtOf(job, i) < DataOf(job, i)
    BY <1>4, FileFacts, AtomFacts
<1>7. ctx.requested_offset < DataOf(job, i)
    BY <1>2, <1>5, <1>6
<1> QED
    BY <1>2, <1>3, <1>4, <1>5, <1>6, <1>7

\* The reader with the ftyp that was seen.
WithFtyp(ftyp) ==
    IF reader.ftyp.len = 0 /\ ftyp.size > 0 /\ ftyp.at + ftyp.size <= st.len
    THEN HasFtyp(reader, Copied(ftyp.at, ftyp.size)) ELSE reader

\* The ftyp is copied from where it was read.
LEMMA FtypStep ==
    ASSUME IInv, job.kind = "mp4",
           ReadOK(job, mem, ctx, reader, st, child, parent), st.pc = "parse",
           NEW k, SearchAt(job, ctx, reader, k), FtypOK(job, reader), NEW f,
           Found(job, ctx.requested_offset, ctx.requested_offset + st.len, "ftyp", f)
    PROVE  /\ IsReader(WithFtyp(f)) /\ FtypOK(job, WithFtyp(f))
           /\ WithFtyp(f).state = reader.state
           /\ WithFtyp(f).moov_start_reads = reader.moov_start_reads
<1>1. IsReader(reader)
    BY AtParse
<1>2. CASE reader.ftyp.len = 0 /\ f.size > 0 /\ f.at + f.size <= st.len
  <2> DEFINE c == Copied(f.at, f.size)
             o == ctx.requested_offset
             n == st.len
             from == f.at
             len == f.size
             bytes == [h \in 1 .. len |-> mem[st.blk].bytes[st.at + from + h - 1]]
  <2>1. WithFtyp(f) = HasFtyp(reader, c)
      BY <1>2 DEF WithFtyp
  <2>2. PICK i \in SeenAtoms(job, o, o + n) :
          NameOf(job, i) = "ftyp" /\ f.at = DataOf(job, i) - o /\ f.size = SizeOf(job, i)
      BY <1>2 DEF Found
  <2>3. /\ i \in 1 .. Len(job.atoms) /\ o \in Nat /\ DataOf(job, i) \in Nat
        /\ SizeOf(job, i) \in Nat /\ o < DataOf(job, i)
      BY SearchFacts
  <2>4. from \in Nat /\ len \in Nat /\ o + from = DataOf(job, i) /\ from + len <= n
    <3> HIDE DEF o
    <3> QED
        BY <1>2, <2>2, <2>3
  <2>5. HandedMp4(o, n)
      BY HandedFacts
  <2>6. /\ st.at \in Int /\ HeldAt(mem, st.blk, st.at, n, o) /\ n \in Nat
      BY <2>5 DEF HandedMp4
  <2>7. HeldAt(mem, st.blk, st.at + from, len, o + from)
    <3> HIDE DEF o, n, from, len
    <3> QED
        BY <2>3, <2>4, <2>6, HeldPart
  <2>8. c.len = len /\ c.bytes = bytes
      BY DEF Copied
  <2> HIDE DEF o, n, from, len, c
  <2>9. ASSUME NEW h \in 1 .. len PROVE c.bytes[h] = DataOf(job, i) + h - 1
    <3> DEFINE g == h - 1
               place == st.at + from + h - 1
    <3>1. g \in 0 .. len - 1 /\ (st.at + from) + g = place
          /\ (o + from) + g = DataOf(job, i) + h - 1
        BY <2>3, <2>4, <2>6
    <3>2. \A y \in 0 .. len - 1 : mem[st.blk].bytes[(st.at + from) + y] = (o + from) + y
        BY <2>7 DEF HeldAt
    <3>3. bytes[h] = mem[st.blk].bytes[place]
        OBVIOUS
    <3> HIDE DEF g, place, bytes
    <3> QED
        BY <2>8, <3>1, <3>2, <3>3
  <2>10. /\ IsReader(HasFtyp(reader, c)) /\ HasFtyp(reader, c).ftyp = c
         /\ HasFtyp(reader, c).state = reader.state
         /\ HasFtyp(reader, c).moov_start_reads = reader.moov_start_reads
      BY <1>1, ReaderFields
  <2>11. FtypOK(job, HasFtyp(reader, c))
    <3>1. i \in DOMAIN job.atoms
        BY <2>3, FileFacts, AtomFacts
    <3>2. SizeOf(job, i) = c.len
        BY <2>2, <2>8 DEF len
    <3>3. \A h \in 1 .. c.len : c.bytes[h] = DataOf(job, i) + h - 1
        BY <2>8, <2>9
    <3>4. c.len \in Nat
        BY <2>4, <2>8
    <3> QED
        BY <2>2, <2>10, <3>1, <3>2, <3>3, <3>4, Zenon DEF FtypOK
  <2> QED
      BY <2>1, <2>10, <2>11
<1>3. CASE ~(reader.ftyp.len = 0 /\ f.size > 0 /\ f.at + f.size <= st.len)
  <2>1. WithFtyp(f) = reader
      BY <1>3 DEF WithFtyp
  <2> QED
      BY <1>1, <2>1
<1> QED
    BY <1>2, <1>3

\* The moov that was found is the file's.
LEMMA MoovFound ==
    ASSUME IInv, job.kind = "mp4",
           ReadOK(job, mem, ctx, reader, st, child, parent), st.pc = "parse",
           NEW k, SearchAt(job, ctx, reader, k), NEW f,
           Found(job, ctx.requested_offset, ctx.requested_offset + st.len, "moov", f),
           f.size # 0
    PROVE  \E i \in FirstMoov(job) :
             /\ f.size = SizeOf(job, i) /\ f.at \in Nat /\ f.size \in Nat /\ f.size > 0
             /\ ctx.requested_offset + f.at = DataOf(job, i)
<1> DEFINE o == ctx.requested_offset
           e == o + st.len
<1>1. PICK i \in SeenAtoms(job, o, e) :
        /\ NameOf(job, i) = "moov"
        /\ \A h \in SeenAtoms(job, o, e) : NameOf(job, h) = "moov" => i <= h
        /\ f.at = DataOf(job, i) - o /\ f.size = SizeOf(job, i)
    BY Zenon DEF Found
<1>2. /\ i \in 1 .. Len(job.atoms) /\ k \in 1 .. Len(job.atoms) + 1 /\ k <= i
      /\ k .. i \subseteq SeenAtoms(job, o, e)
      /\ o \in Nat /\ DataOf(job, i) \in Nat /\ SizeOf(job, i) \in Nat /\ o < DataOf(job, i)
    BY SearchFacts
<1>3. \A h \in 1 .. k - 1 : ~MoovAt(job, h)
    BY DEF SearchAt
<1>4. Len(job.atoms) \in Nat /\ DOMAIN job.atoms = 1 .. Len(job.atoms)
    BY FileFacts, AtomFacts
<1> HIDE DEF o, e
<1>5. f.at \in Nat /\ f.size \in Nat /\ f.size > 0 /\ o + f.at = DataOf(job, i)
    BY <1>1, <1>2, SMTT(20)
<1>6. MoovAt(job, i)
    BY <1>1, <1>5 DEF MoovAt
<1>7. ASSUME NEW h \in 1 .. i - 1 PROVE ~MoovAt(job, h)
  <2>1. CASE h < k
      BY <1>2, <1>3, <1>4, <2>1
  <2>2. CASE ~(h < k)
    <3>1. h \in k .. i /\ ~(i <= h)
        BY <1>2, <1>4, <2>2
    <3>2. NameOf(job, h) # "moov"
        BY <1>1, <1>2, <3>1
    <3> QED
        BY <3>2 DEF MoovAt
  <2> QED
      BY <2>1, <2>2
<1>8. i \in FirstMoov(job)
    BY <1>2, <1>4, <1>6, <1>7 DEF FirstMoov
<1> QED
    BY <1>1, <1>5, <1>8 DEF o

\* Where the last atom that was seen ends, if the moov was not found.
BehindAtom(k, i, at) ==
    /\ i \in 1 .. Len(job.atoms) /\ k <= i /\ at \in Nat
    /\ ctx.requested_offset + at = StopOf(job, i)
    /\ \A h \in 1 .. i : ~MoovAt(job, h)
    /\ \/ BadJob(job)
       \/ \A h \in SeenAtoms(job, ctx.requested_offset, ctx.requested_offset + st.len) : h <= i

\* There is no moov in what was read, or an empty one.
LEMMA MoovBehind ==
    ASSUME IInv, job.kind = "mp4",
           ReadOK(job, mem, ctx, reader, st, child, parent), st.pc = "parse",
           NEW k, SearchAt(job, ctx, reader, k), NEW f,
           Found(job, ctx.requested_offset, ctx.requested_offset + st.len, "moov", f),
           f.size = 0, f.at # NULL
    PROVE  \E i : BehindAtom(k, i, f.at)
<1> DEFINE o == ctx.requested_offset
           e == o + st.len
<1>1. PICK i \in SeenAtoms(job, o, e) :
        \/ /\ NameOf(job, i) = "moov" /\ SizeOf(job, i) = 0
           /\ \A h \in SeenAtoms(job, o, e) : NameOf(job, h) = "moov" => i <= h
           /\ f.at = DataOf(job, i) - o
        \/ /\ \A h \in SeenAtoms(job, o, e) : NameOf(job, h) # "moov" /\ h <= i
           /\ f.at = StopOf(job, i) - o
  <2>1. \/ \E i \in SeenAtoms(job, o, e) :
             /\ NameOf(job, i) = "moov"
             /\ \A h \in SeenAtoms(job, o, e) : NameOf(job, h) = "moov" => i <= h
             /\ f.at = DataOf(job, i) - o /\ f.size = SizeOf(job, i)
        \/ \E i \in SeenAtoms(job, o, e) :
             /\ \A h \in SeenAtoms(job, o, e) : NameOf(job, h) # "moov" /\ h <= i
             /\ f.at = StopOf(job, i) - o /\ f.size = 0
      BY Zenon DEF Found
  <2> QED
      BY <2>1, Zenon
<1>2. /\ i \in 1 .. Len(job.atoms) /\ k \in 1 .. Len(job.atoms) + 1 /\ k <= i
      /\ k .. i \subseteq SeenAtoms(job, o, e)
      /\ o \in Nat /\ DataOf(job, i) \in Nat /\ SizeOf(job, i) \in Nat /\ o < DataOf(job, i)
      /\ StopOf(job, i) = DataOf(job, i) + SizeOf(job, i)
    BY SearchFacts
<1>3. \A h \in 1 .. k - 1 : ~MoovAt(job, h)
    BY DEF SearchAt
<1>4. Len(job.atoms) \in Nat /\ DOMAIN job.atoms = 1 .. Len(job.atoms)
    BY FileFacts, AtomFacts
<1>5. o + f.at = StopOf(job, i) /\ f.at \in Nat
  <2> HIDE DEF o, e
  <2> QED
      BY <1>1, <1>2
<1> HIDE DEF e
<1>6. ASSUME NEW h \in 1 .. i PROVE ~MoovAt(job, h)
  <2>1. CASE h < k
      BY <1>2, <1>3, <1>4, <2>1
  <2>2. CASE ~(h < k)
    <3>1. h \in k .. i
        BY <1>2, <1>4, <2>2
    <3>2. h \in SeenAtoms(job, o, e)
        BY <1>2, <3>1
    <3>3. NameOf(job, h) # "moov" \/ (i = h /\ SizeOf(job, i) = 0)
        BY <1>1, <1>2, <3>1, <3>2
    <3> QED
        BY <3>3 DEF MoovAt
  <2> QED
      BY <2>1, <2>2
<1>7. BadJob(job) \/ \A h \in SeenAtoms(job, o, e) : h <= i
  <2>1. CASE NameOf(job, i) = "moov" /\ SizeOf(job, i) = 0
      BY <1>2, <1>4, <2>1 DEF BadMp4, BadJob
  <2>2. CASE ~(NameOf(job, i) = "moov" /\ SizeOf(job, i) = 0)
      BY <1>1, <2>2
  <2> QED
      BY <2>1, <2>2
<1>8. BehindAtom(k, i, f.at)
    BY <1>2, <1>5, <1>6, <1>7 DEF BehindAtom, e
<1> QED
    BY <1>8


\* No header was read: the reader gives up.
LEMMA NothingSeen ==
    ASSUME IInv, job.kind = "mp4",
           ReadOK(job, mem, ctx, reader, st, child, parent), st.pc = "parse",
           NEW k, SearchAt(job, ctx, reader, k), NEW f,
           Found(job, ctx.requested_offset, ctx.requested_offset + st.len, "moov", f),
           f.at = NULL
    PROVE  BadJob(job) \/ CutAt(job, ctx.requested_offset + st.len)
<1> DEFINE o == ctx.requested_offset
           e == o + st.len
<1>1. SeenAtoms(job, o, e) = {}
  <2> SUFFICES ASSUME NEW i \in SeenAtoms(job, o, e), f.at = DataOf(job, i) - o \/ f.at = StopOf(job, i) - o
               PROVE  FALSE
      BY Zenon DEF Found
  <2>1. /\ o \in Nat /\ DataOf(job, i) \in Nat /\ SizeOf(job, i) \in Nat /\ o < DataOf(job, i)
        /\ StopOf(job, i) = DataOf(job, i) + SizeOf(job, i)
      BY SearchFacts
  <2> HIDE DEF o, e
  <2> QED
      BY <2>1 DEF NULL
<1>2. /\ k \in 1 .. Len(job.atoms) + 1 /\ o = StartOf(job, k)
      /\ \A h \in 1 .. k - 1 : ~MoovAt(job, h)
    BY DEF SearchAt
<1>3. Len(job.atoms) \in Nat /\ DOMAIN job.atoms = 1 .. Len(job.atoms)
    BY FileFacts, AtomFacts
<1>4. CASE k = Len(job.atoms) + 1
  <2>1. 1 .. k - 1 = 1 .. Len(job.atoms)
      BY <1>3, <1>4
  <2> QED
      BY <1>2, <2>1, NoMoov
<1>5. CASE k # Len(job.atoms) + 1
  <2>1. k \in 1 .. Len(job.atoms)
      BY <1>2, <1>3, <1>5
  <2>2. AtOf(job, k) = o /\ AtOf(job, k) \in Nat /\ DataOf(job, k) \in Nat
      BY <1>2, <2>1, FileFacts, AtomFacts
  <2>3. o \in Nat /\ st.len \in Nat
    <3>1. HandedMp4(o, st.len)
        BY HandedFacts
    <3> QED
        BY <3>1 DEF HandedMp4
  <2>4. e < DataOf(job, k)
    <3>1. ~(AtOf(job, k) >= o /\ DataOf(job, k) <= e)
        BY <1>1, <1>3, <2>1 DEF SeenAtoms
    <3> QED
        BY <2>2, <2>3, <3>1
  <2> QED
      BY <1>2, <2>1, <2>4, HeaderMissing
<1> QED
    BY <1>4, <1>5

\* The atom behind the ones that were seen is not looked for: the reader gives up.
LEMMA SearchEnds ==
    ASSUME IInv, job.kind = "mp4",
           ReadOK(job, mem, ctx, reader, st, child, parent), st.pc = "parse",
           NEW k, SearchAt(job, ctx, reader, k), NEW i, NEW at, BehindAtom(k, i, at),
           at < st.len \/ reader.moov_start_reads = 0
    PROVE  BadJob(job) \/ CutAt(job, ctx.requested_offset + st.len)
<1> DEFINE o == ctx.requested_offset
           e == o + st.len
<1>1. /\ i \in 1 .. Len(job.atoms) /\ k <= i /\ at \in Nat /\ o + at = StopOf(job, i)
      /\ \A h \in 1 .. i : ~MoovAt(job, h)
      /\ BadJob(job) \/ \A h \in SeenAtoms(job, o, e) : h <= i
    BY DEF BehindAtom
<1>2. Len(job.atoms) \in Nat /\ DOMAIN job.atoms = 1 .. Len(job.atoms)
    BY FileFacts, AtomFacts
<1>3. /\ k \in 1 .. Len(job.atoms) + 1 /\ k + reader.moov_start_reads > MaxMoovStartReads
      /\ MaxMoovStartReads \in Nat
    BY Sizes DEF SearchAt
<1>4. o \in Nat /\ st.len \in Nat
  <2>1. HandedMp4(o, st.len)
      BY HandedFacts
  <2> QED
      BY <2>1 DEF HandedMp4
<1>5. CASE i = Len(job.atoms)
    BY <1>1, <1>5, NoMoov
<1>6. CASE i # Len(job.atoms)
  <2> DEFINE n == i + 1
  <2>1. n \in 1 .. Len(job.atoms) /\ ~(n <= i) /\ n # 1 /\ n - 1 = i
      BY <1>1, <1>2, <1>6
  <2> HIDE DEF n
  <2>2. /\ AtOf(job, n) = StartOf(job, n) /\ AtOf(job, n) \in Nat /\ DataOf(job, n) \in Nat
        /\ AtOf(job, n) < DataOf(job, n)
      BY <2>1, FileFacts, AtomFacts
  <2>3. AtOf(job, n) = o + at
      BY <1>1, <2>1, <2>2 DEF StartOf
  <2>4. CASE at < st.len
    <3>1. AtOf(job, n) < e
      <4> HIDE DEF o
      <4> QED
          BY <1>1, <1>4, <2>3, <2>4
    <3>2. CASE DataOf(job, n) <= e
      <4>1. n \in SeenAtoms(job, o, e)
        <5>1. AtOf(job, n) >= o
          <6> HIDE DEF o
          <6> QED
              BY <1>1, <1>4, <2>3
        <5> QED
            BY <1>2, <2>1, <3>2, <5>1 DEF SeenAtoms
      <4> QED
          BY <1>1, <2>1, <4>1
    <3>3. CASE ~(DataOf(job, n) <= e)
      <4>1. e < DataOf(job, n)
          BY <1>4, <2>2, <3>3
      <4> QED
          BY <1>2, <2>1, <3>1, <4>1 DEF CutAt
    <3> QED
        BY <3>2, <3>3
  <2>5. CASE reader.moov_start_reads = 0
    <3>1. i > MaxMoovStartReads
        BY <1>1, <1>2, <1>3, <2>5
    <3>2. ASSUME NEW x \in FirstMoov(job) PROVE x > MaxMoovStartReads + 1
      <4>1. x \in 1 .. Len(job.atoms) /\ MoovAt(job, x)
          BY <1>2 DEF FirstMoov
      <4>2. ~(x <= i)
          BY <1>1, <1>2, <4>1
      <4> QED
          BY <1>1, <1>2, <1>3, <3>1, <4>1, <4>2
    <3>3. CASE FirstMoov(job) = {}
        BY <3>3 DEF Before, BadMp4, BadJob
    <3>4. CASE FirstMoov(job) # {}
        BY <3>2, <3>4 DEF BadMp4, BadJob
    <3> QED
        BY <3>3, <3>4
  <2> QED
      BY <2>4, <2>5
<1> QED
    BY <1>5, <1>6

\* "start of moov atom not found, issue another read request"
LEMMA SearchOn ==
    ASSUME IInv, job.kind = "mp4",
           ReadOK(job, mem, ctx, reader, st, child, parent), st.pc = "parse",
           NEW k, SearchAt(job, ctx, reader, k), NEW i, NEW at, BehindAtom(k, i, at),
           ~(at < st.len), reader.moov_start_reads # 0, reader.state = "moov_header",
           NEW r, IsReader(r), FtypOK(job, r), r.state = reader.state,
           r.moov_start_reads = reader.moov_start_reads
    PROVE  AsksFor1(ReadReq(ctx.requested_offset + at, 0, FALSE), LessReads(r))
<1> DEFINE o == ctx.requested_offset
           n == i + 1
           next == o + at
           req == ReadReq(next, 0, FALSE)
           q == LessReads(r)
<1>1. /\ i \in 1 .. Len(job.atoms) /\ k <= i /\ at \in Nat /\ next = StopOf(job, i)
      /\ \A h \in 1 .. i : ~MoovAt(job, h)
    BY DEF BehindAtom
<1>2. Len(job.atoms) \in Nat
    BY FileFacts, AtomFacts
<1>3. /\ k \in 1 .. Len(job.atoms) + 1 /\ reader.moov_start_reads \in Nat
      /\ k + reader.moov_start_reads > MaxMoovStartReads /\ MaxMoovStartReads \in Nat
    BY Sizes DEF SearchAt
<1>4. o \in Nat /\ st.len \in Nat /\ o + st.len = ReadEnd(ctx)
  <2>1. HandedMp4(o, st.len)
      BY HandedFacts
  <2> QED
      BY <2>1 DEF HandedMp4
<1>5. n \in 1 .. Len(job.atoms) + 1 /\ n # 1 /\ n - 1 = i
    BY <1>1, <1>2
<1>6. IsReader(q) /\ q.state = "moov_header" /\ q.ftyp = r.ftyp
      /\ q.moov_start_reads = reader.moov_start_reads - 1
    BY ReaderFields
<1>7. req.read_offset = next /\ req.read_size = 0 /\ req.allow_empty = FALSE
    BY DEF ReadReq
<1>8. next \in Nat /\ ReadEnd(ctx) <= next /\ ReadEnd(ctx) \in Nat
  <2> HIDE DEF o
  <2> QED
      BY <1>1, <1>4
<1> HIDE DEF n, q, req, next
<1>9. next = StartOf(job, n)
    BY <1>1, <1>5 DEF StartOf
<1>10. \A h \in 1 .. n - 1 : ~MoovAt(job, h)
    BY <1>1, <1>5
<1>11. Before(job, next)
    BY <1>5, <1>9, <1>10, SearchBefore
<1>12. Before(job, ReadEnd(ctx))
  <2>1. \A x \in FirstMoov(job) : StopOf(job, x) \in Nat
      BY BeforeStart
  <2> QED
      BY <1>8, <1>11, <2>1 DEF Before
<1>13. /\ q.moov_start_reads \in Nat /\ n + q.moov_start_reads > MaxMoovStartReads
  <2>1. n = i + 1
      BY DEF n
  <2> QED
      BY <1>1, <1>2, <1>3, <1>6, <2>1
<1>14. ASSUME NEW c, NEW pc, c.requested_offset = next PROVE ReaderOK(job, c, q, pc)
  <2>1. SearchAt(job, c, q, n)
      BY <1>5, <1>9, <1>10, <1>13, <1>14 DEF SearchAt
  <2>2. n \in Nat
      BY <1>2, <1>5
  <2>3. FtypOK(job, q)
      BY <1>6, Zenon DEF FtypOK
  <2> QED
      BY <1>6, <2>1, <2>2, <2>3 DEF Mp4Reader, ReaderOK
<1>15. AsksFor1(req, q)
  <2>1. req.read_offset \in Nat /\ req.read_size \in Nat
      BY <1>7, <1>8
  <2>2. req.allow_empty \in BOOLEAN
      BY <1>7, Zenon
  <2>3. IF req.read_size = 0 THEN ReadEnd(ctx) <= req.read_offset
        ELSE ReadEnd(ctx) < req.read_offset + req.read_size
      BY <1>7, <1>8
  <2>4. \A c, pc : /\ c.requested_offset = req.read_offset
                   /\ job.kind = "text" => c.read_offset = 0
                   /\ Reaches(c, pc, req.read_offset + req.read_size)
                   => ReaderOK(job, c, q, pc)
      BY <1>7, <1>14, Zenon
  <2>5. Before(job, req.read_offset)
      BY <1>7, <1>11
  <2>6. job.kind # "text"
      OBVIOUS
  <2> QED
      BY <1>6, <1>12, <2>1, <2>2, <2>3, <2>4, <2>5, <2>6, Zenon DEF AsksFor1
<1> QED
    BY <1>15 DEF req, q, next


\* "got the moov header, but not all of the moov": its data is asked for.
LEMMA SearchData ==
    ASSUME IInv, job.kind = "mp4",
           ReadOK(job, mem, ctx, reader, st, child, parent), st.pc = "parse",
           NEW i \in FirstMoov(job), NEW at \in Nat, NEW size \in Nat, size = SizeOf(job, i),
           ctx.requested_offset + at = DataOf(job, i), ~(at + size <= st.len),
           NEW r, IsReader(r), FtypOK(job, r)
    PROVE  AsksFor1(ReadReq(ctx.requested_offset + at, size, FALSE), NeedsMoov(r, size))
<1> DEFINE o == ctx.requested_offset
           next == o + at
           req == ReadReq(next, size, FALSE)
           q == NeedsMoov(r, size)
           stop == StopOf(job, i)
<1>1. /\ next = DataOf(job, i) /\ next \in Nat /\ stop \in Nat /\ stop = next + size
      /\ next < stop /\ size > 0
    BY BeforeStart
<1>2. o \in Nat /\ st.len \in Nat /\ o + st.len = ReadEnd(ctx)
  <2>1. HandedMp4(o, st.len)
      BY HandedFacts
  <2> QED
      BY <2>1 DEF HandedMp4
<1>3. ReadEnd(ctx) < stop /\ ReadEnd(ctx) \in Nat
  <2> HIDE DEF o, stop
  <2> QED
      BY <1>1, <1>2 DEF next
<1>4. /\ IsReader(q) /\ q.state = "moov_data" /\ q.moov.len = size /\ q.ftyp = r.ftyp
    BY ReaderFields
<1>5. req.read_offset = next /\ req.read_size = size /\ req.allow_empty = FALSE
    BY DEF ReadReq
<1>6. \A x \in FirstMoov(job) : x = i
    BY FirstUnique
<1> HIDE DEF q, req, next, stop, o
<1>7. Before(job, next) /\ Before(job, ReadEnd(ctx))
    BY <1>1, <1>3, <1>6 DEF Before, stop
<1>8. ASSUME NEW c, NEW pc, c.requested_offset = next, Reaches(c, pc, next + size)
      PROVE  ReaderOK(job, c, q, pc)
  <2>1. Reaches(c, pc, StopOf(job, i))
      BY <1>1, <1>8 DEF stop
  <2>2. FtypOK(job, q)
      BY <1>4, Zenon DEF FtypOK
  <2>3. c.requested_offset = DataOf(job, i) /\ q.moov.len = SizeOf(job, i)
      BY <1>1, <1>4, <1>8
  <2> QED
      BY <1>4, <2>1, <2>2, <2>3 DEF Mp4Reader, ReaderOK
<1>9. AsksFor1(req, q)
  <2>1. req.read_offset \in Nat /\ req.read_size \in Nat
      BY <1>1, <1>5
  <2>2. req.allow_empty \in BOOLEAN
      BY <1>5, Zenon
  <2>3. IF req.read_size = 0 THEN ReadEnd(ctx) <= req.read_offset
        ELSE ReadEnd(ctx) < req.read_offset + req.read_size
      BY <1>1, <1>3, <1>5
  <2>4. \A c, pc : /\ c.requested_offset = req.read_offset
                   /\ job.kind = "text" => c.read_offset = 0
                   /\ Reaches(c, pc, req.read_offset + req.read_size)
                   => ReaderOK(job, c, q, pc)
      BY <1>5, <1>8, Zenon
  <2>5. Before(job, req.read_offset) /\ Before(job, ReadEnd(ctx))
      BY <1>5, <1>7
  <2>6. job.kind # "text"
      OBVIOUS
  <2> QED
      BY <1>4, <2>1, <2>2, <2>3, <2>4, <2>5, <2>6, Zenon DEF AsksFor1
<1> QED
    BY <1>9 DEF req, q, next, o

\* mp4_metadata_reader_read in STATE_READ_MOOV_HEADER
LEMMA MoovHeaderStep ==
    ASSUME IInv, job.kind \in {"mp4", "text"},
           ReadOK(job, mem, ctx, reader, st, child, parent), read_moov_header
    PROVE  ReadOK(job, mem', ctx', reader', st', child', parent')
<1> DEFINE o == ctx.requested_offset
           n == st.len
           ftyp == find_atom("ftyp", o, n)
           moov == find_atom("moov", o, n)
           r == WithFtyp(ftyp)
<1>1. st.pc = "parse" /\ reader.state = "moov_header"
    BY DEF read_moov_header
<1>2. /\ IsReader(reader) /\ ReaderOK(job, ctx, reader, "parse") /\ Quiet(child, parent)
    BY <1>1, AtParse
<1>3. job.kind = "mp4"
    BY <1>1, <1>2 DEF ReaderOK, TextReader
<1>4. Mp4Reader(job, ctx, reader, "parse") /\ HandedMp4(o, n)
    BY <1>1, <1>2, <1>3, HandedFacts DEF ReaderOK
<1>5. PICK k \in Nat : SearchAt(job, ctx, reader, k)
    BY <1>1, <1>4 DEF Mp4Reader
<1>6. o \in Nat /\ n \in Nat /\ FtypOK(job, reader)
    BY <1>4 DEF HandedMp4, Mp4Reader
<1>7. Found(job, o, o + n, "ftyp", ftyp) /\ Found(job, o, o + n, "moov", moov)
    BY <1>6, FileFacts, FindAtom
<1>8. IF moov.at = NULL THEN read_failed("bad_data")
      ELSE IF moov.size = 0
      THEN IF moov.at < n \/ reader.moov_start_reads = 0 THEN read_failed("bad_data")
           ELSE ask_for(ReadReq(o + moov.at, 0, FALSE), LessReads(r))
      ELSE IF moov.at + moov.size <= n THEN moov_read(r, moov.at, moov.size)
      ELSE IF moov.size > MaxMetadataSize THEN read_failed("bad_data")
      ELSE ask_for(ReadReq(o + moov.at, moov.size, FALSE), NeedsMoov(r, moov.size))
    BY ZenonT(40) DEF read_moov_header, MoovStart, WithFtyp, HasFtyp, LessReads, NeedsMoov
<1> HIDE DEF ftyp, moov
<1>9. /\ IsReader(r) /\ FtypOK(job, r) /\ r.state = reader.state
      /\ r.moov_start_reads = reader.moov_start_reads
    BY <1>1, <1>3, <1>5, <1>6, <1>7, FtypStep
<1> HIDE DEF r
<1>10. CASE moov.at = NULL
  <2>1. read_failed("bad_data")
      BY <1>8, <1>10
  <2>2. BadJob(job) \/ CutAt(job, o + n)
      BY <1>1, <1>3, <1>5, <1>7, <1>10, NothingSeen
  <2> QED
      BY <1>2, <2>1, <2>2, FailedStep
<1>11. CASE moov.at # NULL /\ moov.size = 0
  <2>1. PICK i : BehindAtom(k, i, moov.at)
      BY <1>1, <1>3, <1>5, <1>7, <1>11, MoovBehind
  <2>2. CASE moov.at < n \/ reader.moov_start_reads = 0
    <3>1. read_failed("bad_data")
        BY <1>8, <1>11, <2>2
    <3>2. BadJob(job) \/ CutAt(job, o + n)
        BY <1>1, <1>3, <1>5, <2>1, <2>2, SearchEnds
    <3> QED
        BY <1>2, <3>1, <3>2, FailedStep
  <2>3. CASE ~(moov.at < n) /\ reader.moov_start_reads # 0
    <3>1. ask_for(ReadReq(o + moov.at, 0, FALSE), LessReads(r))
        BY <1>8, <1>11, <2>3
    <3>2. AsksFor1(ReadReq(o + moov.at, 0, FALSE), LessReads(r))
        BY <1>1, <1>3, <1>5, <1>9, <2>1, <2>3, SearchOn
    <3> QED
        BY <1>1, <3>1, <3>2, AskFor
  <2> QED
      BY <2>2, <2>3
<1>12. CASE moov.at # NULL /\ moov.size # 0
  <2> DEFINE at == moov.at
             size == moov.size
  <2>1. PICK i \in FirstMoov(job) : /\ size = SizeOf(job, i) /\ at \in Nat /\ size \in Nat
                                    /\ size > 0 /\ o + at = DataOf(job, i)
      BY <1>1, <1>3, <1>5, <1>7, <1>12, MoovFound
  <2>2. CASE at + size <= n
    <3>1. moov_read(r, at, size)
        BY <1>8, <1>12, <2>2
    <3> QED
        BY <1>1, <1>3, <1>9, <2>1, <2>2, <3>1, MoovReadStep
  <2>3. CASE ~(at + size <= n) /\ size > MaxMetadataSize
    <3>1. read_failed("bad_data")
        BY <1>8, <1>12, <2>3
    <3>2. BadJob(job)
        BY <1>3, <2>1, <2>3 DEF BadMp4, BadJob
    <3> QED
        BY <1>2, <3>1, <3>2, FailedStep
  <2>4. CASE ~(at + size <= n) /\ ~(size > MaxMetadataSize)
    <3>1. ask_for(ReadReq(o + at, size, FALSE), NeedsMoov(r, size))
        BY <1>8, <1>12, <2>4
    <3>2. AsksFor1(ReadReq(o + at, size, FALSE), NeedsMoov(r, size))
        BY <1>1, <1>3, <1>9, <2>1, <2>4, SearchData
    <3> QED
        BY <1>1, <3>1, <3>2, AskFor
  <2> QED
      BY <2>2, <2>3, <2>4
<1> QED
    BY <1>10, <1>11, <1>12


-----------------------------------------------------------------------------
(* The invariant holds *)

\* Every step of a request that reads a file keeps what is known of its buffers.
LEMMA ReaderStep ==
    ASSUME IInv, job.kind \in {"mp4", "text"},
           ReadOK(job, mem, ctx, reader, st, child, parent), Steps
    PROVE  ReadOK(job, mem', ctx', reader', st', child', parent')
<1>1. st.pc \in ReadPcs
    BY DEF ReadOK
<1>2. st.pc \notin {"dump", "dumping", "proxy", "proxied"}
    BY <1>1 DEF ReadPcs
<1>3. CASE read_file_header
    BY <1>3, OpenStep
<1>4. CASE read_in_place \/ async_read_completed \/ http_read_completed
    BY <1>4, ReadSteps1
<1>5. CASE get_async_read_result
    BY <1>5, ResultStep
<1>6. CASE identify_format
    BY <1>6, IdentifyStep
<1>7. CASE read_moov_header
    BY <1>7, MoovHeaderStep
<1>8. CASE read_moov_data
    BY <1>8, MoovDataStep
<1>9. CASE subtitle_read
    BY <1>9, SubtitleStep
<1>10. CASE dump_http_part \/ dump_file_part
    BY <1>2, <1>10 DEF dump_http_part, dump_file_part
<1>11. CASE dump_completed \/ dump_http_request \/ dump_finished
    BY <1>2, <1>11 DEF dump_completed, dump_http_request, dump_finished
<1>12. CASE UpstreamSteps
  <2>1. mem' = mem /\ ctx' = ctx /\ reader' = reader /\ st' = st
      BY <1>12 DEF UpstreamSteps
  <2>2. ~Quiet(child, parent)
      BY <1>12, NoUpstream
  <2>3. st.pc = "child"
      BY <2>2 DEF ReadOK
  <2>4. ReadChild(job, child, parent, ReadEnd(ctx), AskedEnd(ctx))
      BY <2>3 DEF ReadOK
  <2>5. ReadEnd(ctx) \in Nat /\ AskedEnd(ctx) \in Nat /\ ReadEnd(ctx) < AskedEnd(ctx)
      BY <2>3, WhileReading DEF ReadingPcs
  <2>6. ReadChild(job, child', parent', ReadEnd(ctx), AskedEnd(ctx))
      BY <1>12, <2>4, <2>5, ReadUpstream
  <2>7. /\ IsMemory(mem) /\ ctx \in CtxT /\ IsReader(reader)
        /\ BytesOK(job, mem, ctx, reader, st)
      BY <2>3 DEF ReadOK, ReadingPcs
  <2> HIDE DEF IsMemory, CtxT, IsReader
  <2> QED
      BY <1>1, <2>1, <2>3, <2>6, <2>7 DEF ReadOK, ReadingPcs, GotPcs
<1> QED
    BY <1>3, <1>4, <1>5, <1>6, <1>7, <1>8, <1>9, <1>10, <1>11, <1>12 DEF Steps

\* The request for a file starts without a buffer.
LEMMA FirstRead ==
    ASSUME NEW j \in Jobs, InitJob(j), IInv, job.kind \in {"mp4", "text"}
    PROVE  ReadOK(job, mem, ctx, reader, st, child, parent)
<1>1. job = j /\ child = NoChild /\ parent = [NoParent EXCEPT !.header_sent = j.kind = "clip"]
    BY DEF InitJob
<1>2. st.pc = "open"
  <2> DEFINE at == IF j.kind = "clip" THEN "dump" ELSE IF j.kind = "proxy" THEN "proxy" ELSE "open"
  <2>1. st = [pc |-> at, rc |-> OK, from |-> 0, to |-> 0, blk |-> 0, at |-> 0, len |-> 0]
      BY DEF InitJob
  <2>2. at = "open"
      BY <1>1
  <2> HIDE DEF at
  <2> QED
      BY <2>1, <2>2
<1>3. Quiet(child, parent)
  <2>1. parent.wev = "own"
    <3> DEFINE clip == j.kind = "clip"
    <3>1. parent = [NoParent EXCEPT !.header_sent = clip]
        BY <1>1
    <3> HIDE DEF clip
    <3> QED
        BY <3>1 DEF NoParent
  <2>2. child.state = "none"
      BY <1>1 DEF NoChild
  <2> QED
      BY <2>1, <2>2 DEF Quiet
<1>4. IsMemory(mem)
  <2>1. mem \in Seq(BlockRec({0}))
      BY DEF InitJob
  <2> QED
      BY <2>1 DEF IsMemory
<1>5. ctx \in CtxT /\ ctx.read_buffer = NoBuf /\ ctx.prefix_buffer = NoBuf
  <2>1. NoBuf \in Buf
      BY DEF NoBuf, Buf, NULL
  <2> QED
      BY <2>1 DEF InitJob, CtxT
<1>6. IsReader(reader) /\ reader.state = "none" /\ reader.ftyp.len = 0
  <2> DEFINE f == [len |-> 0, bytes |-> <<>>]
             V == {"none", 0, f, NoPart}
  <2>1. reader = [state |-> "none", moov_start_reads |-> 0, ftyp |-> f, moov |-> NoPart,
                  text |-> NoPart]
      BY DEF InitJob
  <2>2. NoPart \in PartRec(V)
      BY DEF PartRec, NoPart
  <2>3. f.len = 0
      OBVIOUS
  <2> HIDE DEF f
  <2>4. reader \in ReaderRec(V) /\ reader.state = "none" /\ reader.ftyp = f
      BY <2>1, <2>2 DEF ReaderRec
  <2> QED
      BY <2>3, <2>4 DEF IsReader
<1>7. OpenOK(job, ctx, reader)
    BY <1>5, <1>6 DEF OpenOK
<1> HIDE DEF IsMemory, CtxT, IsReader
<1> QED
    BY <1>2, <1>3, <1>4, <1>5, <1>6, <1>7 DEF ReadOK, ReadPcs, ReadingPcs, GotPcs

\* The invariant holds at the start.
LEMMA InitBuffers == Init => BInv
<1> SUFFICES ASSUME NEW j \in Jobs, InitJob(j) PROVE BInv
    BY DEF Init
<1>1. IInv
    BY InitOK DEF Init
<1> QED
    BY <1>1, FirstRead DEF BInv

\* Every step keeps the invariant.
LEMMA NextBuffers == BInv /\ [Next]_vars => BInv'
<1> SUFFICES ASSUME BInv, [Next]_vars PROVE BInv'
    OBVIOUS
<1>1. IInv /\ IInv'
    BY NextOK DEF BInv
<1>2. ASSUME job'.kind \in {"mp4", "text"}
      PROVE  ReadOK(job', mem', ctx', reader', st', child', parent')
  <2>1. CASE Steps
    <3>1. job' = job
        BY <2>1 DEF Steps, read_file_header, read_in_place, async_read_completed,
                    http_read_completed, get_async_read_result, identify_format,
                    read_moov_header, read_moov_data, subtitle_read, dump_http_part,
                    dump_file_part, dump_completed, dump_http_request, dump_finished,
                    UpstreamSteps
    <3>2. job.kind \in {"mp4", "text"} /\ ReadOK(job, mem, ctx, reader, st, child, parent)
        BY <1>2, <3>1 DEF BInv
    <3>3. ReadOK(job, mem', ctx', reader', st', child', parent')
        BY <1>1, <2>1, <3>2, ReaderStep
    <3> QED
        BY <3>1, <3>3
  <2>2. CASE UNCHANGED vars
      BY <1>2, <2>2 DEF BInv, vars, childVars
  <2>3. CASE Finished
      BY <2>2, <2>3 DEF Finished
  <2> QED
      BY <2>1, <2>2, <2>3 DEF Next
<1> QED
    BY <1>1, <1>2 DEF BInv

\* Whatever the files and the sizes are: the buffer of a request holds the bytes of the file
\* from the offset of the range on, it has room for the range and the null behind it, the prefix
\* in front is the start of the range, and the reader of the format is where an atom starts, or
\* the data of the moov, with all of the file before it searched
\* (ngx_http_vod_async_read, _alloc_read_buffer, _get_async_read_result, the readers).
THEOREM BufferInvariance == Spec => []BInv
<1>1. Init => BInv
    BY InitBuffers
<1>2. BInv /\ [Next]_vars => BInv'
    BY NextBuffers
<1> QED
    BY <1>1, <1>2, PTL DEF Spec

\* Only requests that read a file are at the places of the readers.
LEMMA OnlyReaders ==
    ASSUME BInv, st.pc \in {"read", "aio", "child", "parse", "done"}
    PROVE  /\ IInv /\ job.kind \in {"mp4", "text"}
           /\ ReadOK(job, mem, ctx, reader, st, child, parent)
<1>1. IInv
    BY DEF BInv
<1>2. job.kind \in {"mp4", "text", "clip", "proxy"}
    BY <1>1, FileFacts DEF Job
<1>3. CASE job.kind = "clip"
    BY <1>1, <1>3 DEF IInv, Serves, ClipOK
<1>4. CASE job.kind = "proxy"
    BY <1>1, <1>4 DEF IInv, Serves, ProxyOK
<1> QED
    BY <1>1, <1>2, <1>3, <1>4 DEF BInv

\* The moov of the file.
LEMMA MoovIsFirst == FirstMoov(job) = MoovIndexes
    BY DEF FirstMoov, MoovIndexes, MoovAt, IsMoov, NameOf, SizeOf

\* The reader is handed the bytes of the offset it asked for, from where an atom starts or the
\* moov's data, and a range is read into its own place of the buffer, with room for the null
\* behind it: for all files, sizes and alignments (ngx_http_vod_async_read with the prefix and
\* the skip of ngx_http_vod_get_async_read_result, ngx_http_vod_decrypt_read_buffer).
THEOREM OffsetsRead == Spec => []BytesOfOffset
<1>1. BInv => BytesOfOffset
  <2> SUFFICES ASSUME BInv PROVE BytesOfOffset
      OBVIOUS
  <2>1. ASSUME st.pc = "parse"
        PROVE  /\ Holds(st.blk, st.at, st.len, ctx.requested_offset)
               /\ job.kind = "mp4" => ctx.requested_offset \in
                    IF reader.state = "moov_data" THEN {DataAt(a) : a \in Moovs} ELSE AtomStarts
    <3>1. /\ IInv /\ ReadOK(job, mem, ctx, reader, st, child, parent)
        BY <2>1, OnlyReaders
    <3>2. HandedOK(job, mem, ctx, st) /\ ReaderOK(job, ctx, reader, "parse")
        BY <2>1, <3>1, AtParse
    <3>3. Holds(st.blk, st.at, st.len, ctx.requested_offset)
        BY <3>2 DEF HandedOK, HeldAt, Holds
    <3>4. ASSUME job.kind = "mp4", reader.state = "moov_data"
          PROVE  ctx.requested_offset \in {DataAt(a) : a \in Moovs}
      <4>1. PICK k \in MoovIndexes : ctx.requested_offset = DataAt(job.atoms[k])
          BY <3>2, <3>4, MoovIsFirst DEF ReaderOK, Mp4Reader, DataOf
      <4> QED
          BY <4>1 DEF Moovs
    <3>5. ASSUME job.kind = "mp4", reader.state # "moov_data"
          PROVE  ctx.requested_offset \in AtomStarts
      <4>1. CASE reader.state = "none"
          BY <3>2, <3>5, <4>1 DEF ReaderOK, Mp4Reader, AtomStarts
      <4>2. CASE reader.state = "moov_header"
        <5>1. PICK k \in 1 .. Len(job.atoms) + 1 : ctx.requested_offset = StartOf(job, k)
            BY <3>2, <3>5, <4>2 DEF ReaderOK, Mp4Reader, SearchAt
        <5>2. Len(job.atoms) \in Nat /\ DOMAIN job.atoms = 1 .. Len(job.atoms)
            BY <3>1, FileFacts, AtomFacts
        <5>3. CASE k = 1
            BY <5>1, <5>3 DEF StartOf, AtomStarts
        <5>4. CASE k # 1
          <6>1. k - 1 \in DOMAIN job.atoms
              BY <5>2, <5>4
          <6>2. ctx.requested_offset = EndOf(job.atoms[k - 1])
              BY <5>1, <5>4 DEF StartOf, StopOf
          <6> QED
              BY <6>1, <6>2 DEF AtomStarts
        <5> QED
            BY <5>3, <5>4
      <4> QED
          BY <3>2, <3>5, <4>1, <4>2 DEF ReaderOK, Mp4Reader
    <3> QED
        BY <3>3, <3>4, <3>5
  <2>2. ASSUME st.pc \in {"read", "aio"}
        PROVE  st.from < st.to /\ ctx.read_buffer.last + st.to - st.from < ctx.read_buffer.end
    <3>1. /\ IInv /\ ReadOK(job, mem, ctx, reader, st, child, parent)
        BY <2>2, OnlyReaders
    <3>2. /\ ctx \in CtxT /\ BufferOK(mem, ctx)
          /\ ReadEnd(ctx) \in Nat /\ AskedEnd(ctx) \in Nat /\ ReadEnd(ctx) < AskedEnd(ctx)
        BY <2>2, <3>1, WhileReading DEF ReadingPcs
    <3>3. st.from = ReadEnd(ctx) /\ st.to = AskedEnd(ctx)
        BY <2>2, <3>1 DEF ReadOK, BytesOK, ReadingPcs
    <3> DEFINE last == ctx.read_buffer.last
               end == ctx.read_buffer.end
               size == ctx.read_size
               o == ctx.read_offset
    <3>4. /\ o \in Nat /\ last \in Int /\ size \in Nat /\ end \in Int
          /\ ReadEnd(ctx) = o + last /\ AskedEnd(ctx) = o + size
        BY <3>2, CtxFields
    <3>5. size < end
        BY <3>2 DEF BufferOK
    <3> HIDE DEF last, end, size, o
    <3>6. st.from < st.to /\ last + st.to - st.from < end
        BY <3>2, <3>3, <3>4, <3>5
    <3> QED
        BY <3>6 DEF last, end
  <2>3. ASSUME st.pc = "child"
        PROVE  ctx.read_buffer.last + Len(child.body) < ctx.read_buffer.end
    <3>1. /\ IInv /\ ReadOK(job, mem, ctx, reader, st, child, parent)
        BY <2>3, OnlyReaders
    <3>2. /\ ctx \in CtxT /\ BufferOK(mem, ctx)
          /\ ReadEnd(ctx) \in Nat /\ AskedEnd(ctx) \in Nat /\ ReadEnd(ctx) < AskedEnd(ctx)
        BY <2>3, <3>1, WhileReading DEF ReadingPcs
    <3>3. ReadChild(job, child, parent, ReadEnd(ctx), AskedEnd(ctx))
        BY <2>3, <3>1 DEF ReadOK
    <3> DEFINE last == ctx.read_buffer.last
               end == ctx.read_buffer.end
               size == ctx.read_size
               o == ctx.read_offset
               n == Len(child.body)
               most == SizeIn(job, ReadEnd(ctx), AskedEnd(ctx))
    <3>4. /\ o \in Nat /\ last \in Int /\ size \in Nat /\ end \in Int
          /\ ReadEnd(ctx) = o + last /\ AskedEnd(ctx) = o + size
        BY <3>2, CtxFields
    <3>5. size < end
        BY <3>2 DEF BufferOK
    <3>6. n \in Nat /\ n <= most
        BY <3>3 DEF ReadChild, BytesFrom
    <3>7. most \in Nat /\ most <= AskedEnd(ctx) - ReadEnd(ctx)
        BY <3>1, <3>2, FileFacts, SizeInFacts
    <3> HIDE DEF last, end, size, o, n, most
    <3>8. last + n < end
        BY <3>4, <3>5, <3>6, <3>7
    <3> QED
        BY <3>8 DEF last, end, n
  <2> QED
      BY <2>1, <2>2, <2>3, Zenon DEF BytesOfOffset
<1> QED
    BY <1>1, BufferInvariance, PTL

\* A file that can be used is used, and read whole: whatever its atoms, their number and places,
\* and the sizes that are configured, the reader only gives up on a file that cannot be used or
\* at a header that was cut off, and ends with the whole moov and the ftyp, or the whole text up
\* to the limit, in memory that was not freed (mp4_metadata_reader_read, subtitle_reader_read,
\* ngx_http_vod_state_machine_open_files).
THEOREM WholeFiles == Spec => []FilesReadWhole
<1>1. BInv => FilesReadWhole
  <2> SUFFICES ASSUME BInv PROVE FilesReadWhole
      OBVIOUS
  <2>1. ASSUME Refused PROVE BadFile \/ HeaderCutOff
    <3>1. /\ IInv /\ ReadOK(job, mem, ctx, reader, st, child, parent)
        BY <2>1 DEF BInv, Refused
    <3>2. BadJob(job) \/ CutAt(job, ctx.requested_offset + st.len)
        BY <2>1, <3>1 DEF Refused, ReadOK
    <3>3. ASSUME BadJob(job) PROVE BadFile
      <4>1. CASE job.encrypted /\ job.length # Encrypted(job.plain)
          BY <4>1 DEF BadFile
      <4>2. CASE job.kind = "mp4" /\ BadMp4(job)
        <5>1. CASE Before(job, job.length)
          <6>1. \A i \in MoovIndexes : EndOf(job.atoms[i]) > job.length
            <7>1. \A i \in MoovIndexes : job.length < StopOf(job, i)
                BY <5>1, MoovIsFirst DEF Before
            <7>2. \A i \in MoovIndexes : StopOf(job, i) \in Nat /\ job.length \in Nat
                BY <3>1, MoovIsFirst, BeforeStart, FileFacts
            <7> QED
                BY <7>1, <7>2 DEF StopOf
          <6>2. \A a \in Moovs : EndOf(a) > job.length
              BY <6>1, Zenon DEF Moovs
          <6> QED
              BY <4>2, <6>2 DEF BadFile
        <5>2. CASE \E i \in FirstMoov(job) : SizeOf(job, i) > MaxMetadataSize
            BY <4>2, <5>2, MoovIsFirst DEF BadFile, Moovs, SizeOf
        <5>3. CASE \E i \in FirstMoov(job) : i > MaxMoovStartReads + 1
            BY <4>2, <5>3, MoovIsFirst DEF BadFile
        <5>4. CASE \E i \in DOMAIN job.atoms : NameOf(job, i) = "moov" /\ SizeOf(job, i) = 0
            BY <4>2, <5>4 DEF BadFile, NameOf, SizeOf
        <5>5. CASE NameOf(job, 1) \notin {"ftyp", "moov", "mdat"}
            BY <4>2, <5>5 DEF BadFile, NameOf
        <5>6. CASE CannotUncompress(job)
            BY <4>2, <5>6 DEF BadFile, MoovFails, CannotUncompress
        <5> QED
            BY <4>2, <5>1, <5>2, <5>3, <5>4, <5>5, <5>6 DEF BadMp4
      <4> QED
          BY <3>3, <4>1, <4>2 DEF BadJob
    <3>4. ASSUME CutAt(job, ctx.requested_offset + st.len) PROVE HeaderCutOff
      <4> DEFINE e == ctx.requested_offset + st.len
      <4>1. PICK i \in DOMAIN job.atoms : AtOf(job, i) < e /\ e < DataOf(job, i)
          BY <3>4 DEF CutAt
      <4> QED
          BY <4>1 DEF HeaderCutOff, AtOf, DataOf
    <3> QED
        BY <3>2, <3>3, <3>4
  <2>2. ASSUME st.pc = "done", job.kind = "mp4"
        PROVE  /\ \A a \in Moovs : ~job.compressed =>
                    /\ reader.moov.len = a.size
                    /\ Holds(reader.moov.blk, reader.moov.at, a.size, DataAt(a))
               /\ reader.ftyp.len > 0 => \E i \in DOMAIN job.atoms :
                    /\ job.atoms[i].name = "ftyp" /\ job.atoms[i].size = reader.ftyp.len
                    /\ \A k \in 1 .. reader.ftyp.len :
                           reader.ftyp.bytes[k] = DataAt(job.atoms[i]) + k - 1
    <3>1. ReadOK(job, mem, ctx, reader, st, child, parent)
        BY <2>2, OnlyReaders
    <3>2. DoneOK(job, mem, reader)
        BY <2>2, <3>1 DEF ReadOK
    <3>3. FtypOK(job, reader)
        BY <2>2, <3>2 DEF DoneOK
    <3>4. ASSUME ~job.compressed, NEW i \in MoovIndexes
          PROVE  /\ reader.moov.len = job.atoms[i].size
                 /\ Holds(reader.moov.blk, reader.moov.at, job.atoms[i].size, DataAt(job.atoms[i]))
        BY <2>2, <3>2, <3>4, MoovIsFirst DEF DoneOK, Holds, HeldAt, SizeOf, DataOf
    <3> QED
        BY <3>3, <3>4, Zenon DEF FtypOK, Moovs, NameOf, SizeOf, DataOf
  <2>3. ASSUME st.pc = "done", job.kind # "mp4"
        PROVE  /\ Holds(reader.text.blk, reader.text.at, reader.text.len, 0)
               /\ reader.text.len >= Smaller(job.plain, SubtitleLimit - AesBlock)
    <3>1. ReadOK(job, mem, ctx, reader, st, child, parent)
        BY <2>3, OnlyReaders
    <3>2. DoneOK(job, mem, reader)
        BY <2>3, <3>1 DEF ReadOK
    <3> QED
        BY <2>3, <3>2 DEF DoneOK, Holds, HeldAt
  <2> QED
      BY <2>1, <2>2, <2>3, Zenon DEF FilesReadWhole
<1> QED
    BY <1>1, BufferInvariance, PTL
=============================================================================
