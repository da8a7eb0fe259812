--------------------------- MODULE MCMetadataRead ---------------------------
(* Small files for MetadataRead: the atoms in the orders that encoders write them, with the   *)
(* moov in the first read, across its end or behind it, and complete or cut off.              *)
EXTENDS MetadataRead

Orders == {<<"ftyp", "moov", "mdat">>, <<"ftyp", "mdat", "moov">>, <<"mdat", "moov">>,
           <<"ftyp", "free", "mdat", "moov">>, <<"free", "moov">>}
MdatSizes == {1, 2, 7}
MoovSizes == {0, 1, 6, 8, 9}
Header64 == {FALSE, TRUE}       \* of the mdat

SizeOf(name, mdat, moov) == CASE name = "mdat" -> mdat [] name = "moov" -> moov [] OTHER -> 1
HeaderOf(name, wide) == IF name = "mdat" /\ wide THEN 2 * AtomHeader ELSE AtomHeader

Atoms(order, mdat, moov, wide) ==
    LET len(i) == HeaderOf(order[i], wide) + SizeOf(order[i], mdat, moov)
        before[i \in 1 .. Len(order) + 1] == IF i = 1 THEN 0 ELSE before[i - 1] + len(i - 1)
    IN  [i \in 1 .. Len(order) |->
            [name |-> order[i], at |-> before[i], hdr |-> HeaderOf(order[i], wide),
             size |-> SizeOf(order[i], mdat, moov)]]

Clients == {[headers |-> {}, from |-> 0, to |-> 99],
            [headers |-> {"Range", "If-Modified-Since"}, from |-> 1, to |-> 3]}

JobOf(kind, atoms, length, transport, client) ==
    [kind |-> kind, atoms |-> atoms, length |-> length, plain |-> length, encrypted |-> FALSE,
     compressed |-> FALSE, zlib_ok |-> TRUE, uncompressed |-> 0, transport |-> transport,
     from |-> 0, to |-> 0, client |-> client]

Mp4Job(atoms, cut, transport, comp, moov) ==
    [JobOf("mp4", atoms, EndOf(atoms[Len(atoms)]) - cut, transport,
           [headers |-> {"Range", "If-Modified-Since"}, from |-> 1, to |-> 3])
     EXCEPT !.compressed = comp # "no", !.zlib_ok = comp # "bad", !.uncompressed = moov + 2]

Mp4Jobs ==
    {Mp4Job(Atoms(order, mdat, moov, wide), cut[1], transport, cut[2], moov) :
        order \in Orders, mdat \in MdatSizes, moov \in MoovSizes, wide \in Header64,
        transport \in {"file", "http"},
        cut \in {<<0, "no">>, <<1, "no">>, <<4, "no">>, <<0, "zlib">>, <<0, "bad">>}}

Texts == {0, 1, 3, InitialReadSize - 1, InitialReadSize, InitialReadSize + 1, SubtitleLimit - 1,
          SubtitleLimit + 1}

TextJob(plain, length, transport) ==
    [JobOf("text", <<>>, length, transport, [headers |-> {}, from |-> 0, to |-> 99])
     EXCEPT !.plain = plain]

TextJobs ==
    {TextJob(plain, plain, transport) : plain \in Texts, transport \in {"file", "http"}}
    \cup {[TextJob(plain, Encrypted(plain) - cut, transport) EXCEPT !.encrypted = TRUE] :
            plain \in Texts, cut \in {0, 1}, transport \in {"file", "http"}}

DumpJob(kind, transport, to, client) ==
    [JobOf(kind, <<>>, 4, transport, client) EXCEPT !.from = 1, !.to = to]

DumpJobs ==
    {DumpJob("clip", transport, to, client) :
        transport \in {"file", "http"}, to \in {3, 5}, client \in Clients}
    \cup {DumpJob("proxy", "http", to, client) : to \in {3, 5}, client \in Clients}

AllJobs == Mp4Jobs \cup TextJobs \cup DumpJobs
=============================================================================
