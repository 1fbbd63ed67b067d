------------------------------ MODULE DataFile ------------------------------
(***************************************************************************)
(* The texts of definitions: dictzip, which compresses a file chunk by     *)
(* chunk and writes where each lies (dictzip/dictzip.c), and dictd's reads *)
(* of any part of it, through a cache of inflated chunks                   *)
(* (libdictd/data.c).  A byte of a file is its offset.  zlib is external:  *)
(* a compressed chunk is any number of cells, which inflate to the chunk   *)
(* if they are all there, in order, and nothing else is.                   *)
(*                                                                         *)
(* Options that unpack a part only, filters and the formats gzip and text  *)
(* are left out, but for the reading of a text.                            *)
(***************************************************************************)
EXTENDS Integers, SequencesExt

CONSTANTS
    Files,          \* names of files
    Texts,          \* those that are not compressed
    LengthOf,       \* their length
    NameLength,     \* the length of their names
    ChunkLength,    \* IN_BUFFER_SIZE
    Slots,          \* DICT_CACHE_SIZE
    SizeOf,         \* the lengths of its chunks when compressed
    Word,           \* 2^16, the width of the fields of a header
    MaxStamp,       \* bound: chunks looked up by one process
    MaxRuns         \* bound: runs of dictzip

None == [none |-> TRUE]
Text(f) == [k \in 1 .. LengthOf[f] |-> k - 1]
ChunkText(f, n) ==
    LET end == (n + 1) * ChunkLength
    IN  SubSeq(Text(f), n * ChunkLength + 1, IF end < LengthOf[f] THEN end ELSE LengthOf[f])
Chunks(f) == LengthOf[f] \div ChunkLength + (IF LengthOf[f] % ChunkLength > 0 THEN 1 ELSE 0)
Extra(f) == 10 + 2 * Chunks(f)

(* An empty file has no chunk, and cannot be read again; and the chunks of *)
(* a file must have room in an extra field.                                *)
ASSUME DataAssumption ==
    /\ Texts \subseteq Files
    /\ LengthOf \in [Files -> Nat \ {0}]
    /\ NameLength \in [Files -> Nat]
    /\ ChunkLength \in Nat \ {0} /\ Slots \in Nat \ {0}
    /\ Word \in Nat /\ MaxStamp \in Nat /\ MaxRuns \in Nat
    /\ ChunkLength < Word
    /\ \A f \in Files : Extra(f) < Word /\ SizeOf[f] \in [1 .. Chunks(f) -> 1 .. Word - 1]

VARIABLES
    orig,           \* the file as it was, as far as it is there
    dz,             \* its compressed form
    tool, runs,     \* what dictzip is doing; how often it was started
    data,           \* dictData of the files dictd has open
    cache,          \* its cache
    stamp,          \* the counter of dict_data_read_, one for all files
    rd,             \* the read dictd is carrying out
    recent          \* history: the chunks used last, the last one first

toolVars == <<orig, dz, tool, runs>>
dictdVars == <<data, cache, stamp, rd, recent>>
vars == <<toolVars, dictdVars>>

Idle == [op |-> "idle"]
Dead == [op |-> "dead"]
EmptyCache == [s \in 1 .. Slots |-> [chunk |-> -1, stamp |-> -1, text |-> <<>>]]

Init ==
    /\ orig = [f \in Files |-> Text(f)]
    /\ dz = [f \in Files |-> None]
    /\ tool = Idle /\ runs = 0
    /\ data = [f \in Files |-> None]
    /\ cache = [f \in Files |-> EmptyCache]
    /\ stamp = 0
    /\ rd = Idle
    /\ recent = [f \in Files |-> <<>>]
----------------------------------------------------------------------------
(* The compressed file: fields of two bytes, a header of so many cells,    *)
(* and after it the cells of the chunks.  tail is the length at the end.   *)
Header(f, table) ==
    [xlen |-> Extra(f) % Word, chlen |-> ChunkLength % Word, chcnt |-> Chunks(f) % Word,
     table |-> table]

Zeros(f) == [n \in 1 .. Chunks(f) |-> 0]
HeaderLength(f) == 12 + Extra(f) + NameLength[f] + 1

Written(f, table, cells, tail) ==
    [none |-> FALSE, head |-> Header(f, table), cells |-> cells, tail |-> tail]

Compressed(n, size) == [m \in 1 .. size |-> <<n, m, size>>]

(* dict_read_header: chunk n begins there, after those before it.          *)
Sums(table) ==
    LET sum[n \in 0 .. Len(table)] == IF n = 0 THEN 0 ELSE sum[n - 1] + table[n]
    IN  sum

Offset(d, f, n) == 9 + d.head.xlen + 2 + NameLength[f] + 1 + 1 + Sums(d.head.table)[n]

ReadHeader(f) ==
    IF f \in Texts THEN [none |-> FALSE, type |-> "text"]
    ELSE [none |-> FALSE, type |-> "dzip", chunkLength |-> dz[f].head.chlen,
          chunks  |-> dz[f].head.table,
          offsets |-> [n \in 1 .. dz[f].head.chcnt |-> Offset(dz[f], f, n - 1)],
          cells   |-> dz[f].cells]

(* What lies at an offset of the whole file, and the text it inflates to;  *)
(* no text if it is not one compressed chunk.                              *)
CellsAt(d, f, offset, size) ==
    SubSeq(d.cells, offset + 1 - HeaderLength(f), offset + size - HeaderLength(f))

Inflate(f, s) ==
    IF s # <<>> /\ s = Compressed(s[1][1], s[1][3])
    THEN ChunkText(f, s[1][1])
    ELSE <<>>

InflateChunk(d, f, n) == Inflate(f, CellsAt(d, f, d.offsets[n + 1], d.chunks[n + 1]))
----------------------------------------------------------------------------
(* dictzip f, of a whole file: of what a dictunzip that was killed left,   *)
(* it would overwrite what it is a part of.                                *)
ZipStarts(f) ==
    /\ tool = Idle /\ runs < MaxRuns
    /\ f \notin Texts
    /\ orig[f] = Text(f)
    /\ dz' = [dz EXCEPT ![f] = Written(f, Zeros(f), <<>>, -1)]
    /\ tool' = [op |-> "zip", file |-> f, at |-> 0, table |-> <<>>]
    /\ runs' = runs + 1
    /\ UNCHANGED <<orig, dictdVars>>

ZipChunk ==
    /\ tool.op = "zip"
    /\ tool.at < Chunks(tool.file)
    /\ LET size == SizeOf[tool.file][tool.at + 1] IN
        /\ dz' = [dz EXCEPT ![tool.file].cells = @ \o Compressed(tool.at, size)]
        /\ tool' = [tool EXCEPT !.at = @ + 1, !.table = Append(@, size)]
    /\ UNCHANGED <<orig, runs, dictdVars>>

ZipTail ==
    /\ tool.op = "zip"
    /\ tool.at = Chunks(tool.file)
    /\ dz' = [dz EXCEPT ![tool.file].tail = Len(orig[tool.file])]
    /\ tool' = [tool EXCEPT !.op = "table"]
    /\ UNCHANGED <<orig, runs, dictdVars>>

ZipTable ==
    /\ tool.op = "table"
    /\ dz' = [dz EXCEPT ![tool.file].head = Header(tool.file, tool.table)]
    /\ tool' = [tool EXCEPT !.op = "unlink"]
    /\ UNCHANGED <<orig, runs, dictdVars>>

(* Unless -k was given.                                                    *)
ZipUnlinks ==
    /\ tool.op = "unlink"
    /\ \/ orig' = [orig EXCEPT ![tool.file] = <<>>]
       \/ UNCHANGED orig
    /\ tool' = Idle
    /\ UNCHANGED <<dz, runs, dictdVars>>

(* dictunzip f: not over a file that is there (there is no -f here, which  *)
(* empties it whatever the compressed file holds).                         *)
UnzipStarts(f) ==
    /\ tool = Idle /\ runs < MaxRuns
    /\ orig[f] = <<>>
    /\ tool' = [op |-> "unzip", file |-> f, at |-> 0]
    /\ runs' = runs + 1
    /\ UNCHANGED <<orig, dz, dictdVars>>

(* len = chunkLength, and in the last round what is left.                  *)
UnzipPart ==
    /\ tool.op = "unzip"
    /\ tool.at < dz[tool.file].tail
    /\ LET d    == ReadHeader(tool.file)
           len  == IF tool.at + d.chunkLength >= dz[tool.file].tail
                   THEN dz[tool.file].tail - tool.at ELSE d.chunkLength
           text == InflateChunk(d, tool.file, tool.at \div d.chunkLength)
       IN  IF text = <<>> THEN tool' = Idle /\ UNCHANGED orig
           ELSE /\ orig' = [orig EXCEPT ![tool.file] = @ \o SubSeq(text, 1, len)]
                /\ tool' = [tool EXCEPT !.at = @ + len]
    /\ UNCHANGED <<dz, runs, dictdVars>>

(* Mutant for NothingLost: the compressed file is removed too early.       *)
UnzipUnlinksFirst ==
    /\ tool.op = "unzip"
    /\ tool.at + ChunkLength >= dz[tool.file].tail
    /\ dz' = [dz EXCEPT ![tool.file] = None]
    /\ tool' = Idle
    /\ UNCHANGED <<orig, runs, dictdVars>>

UnzipUnlinks ==
    /\ tool.op = "unzip"
    /\ tool.at >= dz[tool.file].tail
    /\ \/ dz' = [dz EXCEPT ![tool.file] = None]
       \/ UNCHANGED dz
    /\ tool' = Idle
    /\ UNCHANGED <<orig, runs, dictdVars>>

(* dictzip is killed.                                                      *)
ToolKilled ==
    /\ tool # Idle
    /\ tool' = Idle
    /\ UNCHANGED <<orig, dz, runs, dictdVars>>
----------------------------------------------------------------------------
(* dict_data_open and dict_data_close.  What is open stays mapped when its *)
(* name is removed.  A file that dictzip is writing is not given to dictd, *)
(* one that it was killed over may be.                                     *)
Open(f) ==
    /\ rd = Idle
    /\ tool = Idle
    /\ data[f] = None
    /\ f \in Texts \/ dz[f] # None
    /\ data' = [data EXCEPT ![f] = ReadHeader(f)]
    /\ cache' = [cache EXCEPT ![f] = EmptyCache]
    /\ recent' = [recent EXCEPT ![f] = <<>>]
    /\ UNCHANGED <<toolVars, stamp, rd>>

CloseData(f) ==
    /\ rd = Idle
    /\ data[f] # None
    /\ data' = [data EXCEPT ![f] = None]
    /\ cache' = [cache EXCEPT ![f] = EmptyCache]
    /\ recent' = [recent EXCEPT ![f] = <<>>]
    /\ UNCHANGED <<toolVars, stamp, rd>>

(* dict_data_read_: the chunks of a part of a file.                        *)
FirstChunk(start) == start \div ChunkLength
LastChunk(start, size) ==
    LET last == (start + size - 1) \div ChunkLength
    IN  IF last < FirstChunk(start) THEN FirstChunk(start) ELSE last

(* An entry of an index.  An empty one at the beginning of a file, or at   *)
(* its end if that is the end of a chunk, is looked for in chunks that are *)
(* not there, and is left out.                                             *)
ReadStarts(f, start, size) ==
    /\ rd = Idle
    /\ data[f] # None
    /\ start < LengthOf[f]
    /\ start + size \in 1 .. LengthOf[f]
    /\ rd' = IF data[f].type = "text"
             THEN [op |-> "read", file |-> f, start |-> start, size |-> size, at |-> 1, last |-> 0,
                   out |-> SubSeq(Text(f), start + 1, start + size)]
             ELSE [op |-> "read", file |-> f, start |-> start, size |-> size,
                   at |-> FirstChunk(start), last |-> LastChunk(start, size), out |-> <<>>]
    /\ UNCHANGED <<toolVars, data, cache, stamp, recent>>

(* Mutant for CacheIsLru: a hit does not count as a use.                   *)
StampIfNew(found, old) == IF found THEN old ELSE stamp + 1

Stamp(found, old) == stamp + 1

(* The slot that holds a chunk, or else the first of the oldest.           *)
Target(c, n) ==
    LET holding == {s \in 1 .. Slots : c[s].chunk = n}
        oldest  == {s \in 1 .. Slots : \A t \in 1 .. Slots : c[s].stamp <= c[t].stamp}
    IN  CHOOSE s \in IF holding # {} THEN holding ELSE oldest :
            \A t \in IF holding # {} THEN holding ELSE oldest : s <= t

(* Mutant for ReadsExact: the offset in the first chunk is applied to all. *)
PartFromFirst(r, text) ==
    LET from == r.start % ChunkLength
        to   == IF r.at = r.last THEN r.start + r.size - r.at * ChunkLength ELSE ChunkLength
    IN  SubSeq(text, from + 1, to)

(* The part of a chunk that is copied.                                     *)
Part(r, text) ==
    LET from == IF r.at = FirstChunk(r.start) THEN r.start - r.at * ChunkLength ELSE 0
        to   == IF r.at = r.last THEN r.start + r.size - r.at * ChunkLength ELSE ChunkLength
    IN  SubSeq(text, from + 1, to)

(* A chunk that is not the last must be full.                              *)
Whole(r, text) == r.at < r.last => Len(text) = ChunkLength

(* A chunk that is used moves to the front, from where it was or from      *)
(* outside; then the last one makes place for it when there is no other.   *)
Used(old, n) ==
    LET last == IF Len(old) < Slots THEN Len(old) + 1 ELSE Slots
        from == IF n \in ToSet(old) THEN CHOOSE k \in 1 .. Len(old) : old[k] = n ELSE last
        size == IF n \in ToSet(old) THEN Len(old) ELSE last
    IN  [k \in 1 .. size |-> IF k = 1 THEN n ELSE IF k <= from THEN old[k - 1] ELSE old[k]]

ReadChunk ==
    /\ rd.op = "read"
    /\ rd.at <= rd.last
    /\ stamp < MaxStamp
    /\ LET f     == rd.file
           slot  == Target(cache[f], rd.at)
           found == cache[f][slot].chunk = rd.at
           text  == IF found THEN cache[f][slot].text ELSE InflateChunk(data[f], f, rd.at)
       IN  /\ stamp' = stamp + 1
           /\ IF text = <<>> \/ ~Whole(rd, text)
              THEN rd' = Dead /\ UNCHANGED <<cache, recent>>
              ELSE /\ cache' = [cache EXCEPT ![f][slot] =
                          [chunk |-> rd.at, stamp |-> Stamp(found, @.stamp), text |-> text]]
                   /\ recent' = [recent EXCEPT ![f] = Used(@, rd.at)]
                   /\ rd' = [rd EXCEPT !.out = @ \o Part(rd, text), !.at = @ + 1]
    /\ UNCHANGED <<toolVars, data>>

ReadEnds ==
    /\ rd.op = "read"
    /\ rd.at > rd.last
    /\ rd' = Idle
    /\ UNCHANGED <<toolVars, data, cache, stamp, recent>>

Tool ==
    \/ \E f \in Files : ZipStarts(f) \/ UnzipStarts(f)
    \/ ZipChunk \/ ZipTail \/ ZipTable \/ ZipUnlinks
    \/ UnzipPart \/ UnzipUnlinks
    \/ ToolKilled

Dictd ==
    \/ \E f \in Files : Open(f) \/ CloseData(f)
    \/ \E f \in Files : \E start, size \in 0 .. LengthOf[f] : ReadStarts(f, start, size)
    \/ ReadChunk \/ ReadEnds

Next == Tool \/ Dictd

Spec == Init /\ [][Next]_vars
----------------------------------------------------------------------------
Bytes(f) == 0 .. LengthOf[f] - 1

TypeOK ==
    /\ orig \in [Files -> Seq(Nat)]
    /\ tool.op \in {"idle", "zip", "table", "unlink", "unzip"}
    /\ stamp \in 0 .. MaxStamp /\ runs \in 0 .. MaxRuns
    /\ rd.op \in {"idle", "read", "dead"}
    /\ rd.op = "read" => /\ rd.file \in Files
                         /\ rd.out \in Seq(Bytes(rd.file))
                         /\ rd.last < Chunks(rd.file)
                         /\ rd.at <= rd.last + 1
    /\ \A f \in Files :
        /\ orig[f] \in Seq(Bytes(f))
        /\ data[f] # None /\ f \notin Texts => Len(data[f].offsets) = Len(data[f].chunks)
        /\ \A s \in 1 .. Slots : /\ cache[f][s].chunk \in -1 .. Chunks(f) - 1
                                 /\ cache[f][s].stamp \in -1 .. stamp
                                 /\ cache[f][s].text \in Seq(Bytes(f))
        /\ recent[f] \in Seq(0 .. Chunks(f) - 1)

(* A read returns the bytes asked for, wherever they lie in the chunks of  *)
(* the file, whatever was read before, from this file or another; also of  *)
(* a file that dictzip left half written (then there is nothing to return, *)
(* and the process ends).                                                  *)
ReadsExact ==
    rd.op = "read" /\ rd.at > rd.last => rd.out = SubSeq(Text(rd.file), rd.start + 1, rd.start + rd.size)

(* The cache holds the chunks used last, each with the whole of its text,  *)
(* and no chunk twice.  The type invariant is part of it.                  *)
CacheIsLru ==
    /\ TypeOK
    /\ \A f \in Files :
        /\ {cache[f][s].chunk : s \in 1 .. Slots} \ {-1} = ToSet(recent[f])
        /\ \A s, t \in 1 .. Slots :
            cache[f][s].chunk = cache[f][t].chunk /\ cache[f][s].chunk # -1 => s = t
        /\ \A s \in 1 .. Slots : cache[f][s].chunk # -1 =>
            cache[f][s].text = ChunkText(f, cache[f][s].chunk)

(* Whenever dictzip or dictunzip is killed, what was in the file is still  *)
(* there, or in a compressed file that gives it back.                      *)
GivesBack(f) ==
    /\ dz[f] # None
    /\ dz[f].tail = LengthOf[f]
    /\ FlattenSeq([n \in 1 .. Chunks(f) |-> InflateChunk(ReadHeader(f), f, n - 1)]) = Text(f)

NothingLost == \A f \in Files : orig[f] = Text(f) \/ GivesBack(f)
=============================================================================
