--------------------------- MODULE DataFile_proofs ---------------------------
(***************************************************************************)
(* Theorems about DataFile, for files of every length, chunks and caches   *)
(* of every size, and any number of runs of dictzip, wherever each is      *)
(* killed.                                                                 *)
(***************************************************************************)
EXTENDS DataFile, RecursionTheorems, FiniteSetTheorems

(* Cells of compressed chunks, packed one chunk after the other.           *)
Cells == Nat \X Nat \X Nat

Packed(table, cells) ==
    /\ \A k \in 1 .. Len(table) : table[k] > 0
    /\ Len(cells) = Sums(table)[Len(table)]
    /\ \A k \in 1 .. Len(table) : \A m \in 1 .. table[k] :
           cells[Sums(table)[k - 1] + m] = <<k - 1, m, table[k]>>

(* A compressed file, also one that is not finished.                       *)
Heads == [xlen : Nat, chlen : Nat, chcnt : Nat, table : Seq(Nat)]
Zipped == [none : {FALSE}, head : Heads, cells : Seq(Cells), tail : Int]

Table(f) == dz[f].head.table
Headed(f) == dz[f].head = Header(f, Table(f)) /\ Len(Table(f)) = Chunks(f)

Complete(f) ==
    /\ dz[f] # None
    /\ Packed(Table(f), dz[f].cells)
    /\ dz[f].tail = LengthOf[f]

ZipInv(f) ==
    dz[f] # None => /\ f \notin Texts
                    /\ Headed(f)
                    /\ Table(f) = Zeros(f) \/ Packed(Table(f), dz[f].cells)

(* What dictzip is doing.                                                  *)
Zipping == [op : {"zip", "table", "unlink"}, file : Files \ Texts, at : Nat, table : Seq(Nat)]
Unzipping == [op : {"unzip"}, file : Files \ Texts, at : Nat]

ZippingInv ==
    tool.op \in {"zip", "table", "unlink"} =>
        /\ orig[tool.file] = Text(tool.file)
        /\ dz[tool.file] # None
        /\ Len(tool.table) = tool.at /\ tool.at <= Chunks(tool.file)
        /\ Packed(tool.table, dz[tool.file].cells)
        /\ tool.op # "zip" => tool.at = Chunks(tool.file) /\ dz[tool.file].tail = LengthOf[tool.file]
        /\ Table(tool.file) = IF tool.op = "unlink" THEN tool.table ELSE Zeros(tool.file)

Begun(f, n) == n <= LengthOf[f] /\ orig[f] = SubSeq(Text(f), 1, n)

UnzippingInv ==
    tool.op = "unzip" =>
        /\ Complete(tool.file)
        /\ Begun(tool.file, tool.at)
        /\ tool.at = LengthOf[tool.file] \/ \E q \in Nat : tool.at = q * ChunkLength

ToolInv ==
    /\ orig \in [Files -> Seq(Nat)] /\ \A f \in Files : orig[f] \in Seq(Bytes(f))
    /\ dz \in [Files -> {None} \cup Zipped]
    /\ tool \in {Idle} \cup Zipping \cup Unzipping
    /\ runs \in 0 .. MaxRuns
    /\ \A f \in Files : ZipInv(f)
    /\ \A f \in Files : orig[f] = Text(f) \/ Complete(f)
    /\ ZippingInv /\ UnzippingInv

(* What dictd has open.                                                    *)
OpenText == [none : {FALSE}, type : {"text"}]
OpenZip == [none : {FALSE}, type : {"dzip"}, chunkLength : {ChunkLength}, chunks : Seq(Nat),
            offsets : Seq(Int), cells : Seq(Cells)]

Opened(f, d) ==
    IF f \in Texts THEN d \in OpenText
    ELSE /\ d \in OpenZip
         /\ Len(d.offsets) = Len(d.chunks)
         /\ \A n \in 0 .. Chunks(f) - 1 : InflateChunk(d, f, n) \in {<<>>, ChunkText(f, n)}

OpenInv ==
    /\ data \in [Files -> {None} \cup OpenText \cup OpenZip]
    /\ \A f \in Files : data[f] # None => Opened(f, data[f])

(* The cache.                                                              *)
Slot == [chunk : Int, stamp : Int, text : Seq(Nat)]
Filled(c) == {s \in 1 .. Slots : c[s].chunk # -1}

(* What the slots of a cache hold, at a time.                              *)
SlotsInv(f, c, now) ==
    /\ c \in [1 .. Slots -> Slot]
    /\ \A s \in 1 .. Slots :
        /\ c[s].chunk \in -1 .. Chunks(f) - 1
        /\ c[s].stamp \in -1 .. now
        /\ c[s].text = IF c[s].chunk = -1 THEN <<>> ELSE ChunkText(f, c[s].chunk)
        /\ c[s].chunk = -1 <=> c[s].stamp = -1

(* The chunks used last, in the order of their use, are what a cache holds.*)
Lru(c, old) ==
    /\ old \in Seq(Nat)
    /\ \A i, j \in 1 .. Len(old) : old[i] = old[j] => i = j
    /\ Cardinality(Filled(c)) = Len(old)
    /\ \A k \in 1 .. Len(old) : \E s \in 1 .. Slots : c[s].chunk = old[k]
    /\ \A s \in Filled(c) : \E k \in 1 .. Len(old) : old[k] = c[s].chunk
    /\ \A s, t \in Filled(c) : c[s].chunk = c[t].chunk => s = t
    /\ \A s, t \in Filled(c) : \A i, j \in 1 .. Len(old) :
           c[s].chunk = old[i] /\ c[t].chunk = old[j] /\ i < j => c[s].stamp > c[t].stamp

CacheInv ==
    /\ cache \in [Files -> [1 .. Slots -> Slot]]
    /\ recent \in [Files -> Seq(Nat)]
    /\ stamp \in 0 .. MaxStamp
    /\ \A f \in Files : SlotsInv(f, cache[f], stamp) /\ Lru(cache[f], recent[f])

(* The read that dictd carries out.                                        *)
Reads == [op : {"read"}, file : Files, start : Nat, size : Nat, at : Nat, last : Nat, out : Seq(Nat)]

(* The bytes before a chunk.                                               *)
Before(n) == n * ChunkLength

(* How much of it has been copied.                                         *)
Copied(r) == IF r.at > r.last THEN r.size
             ELSE IF r.at = FirstChunk(r.start) THEN 0
             ELSE Before(r.at) - r.start

Reading(r) ==
    /\ r.start < LengthOf[r.file] /\ r.start + r.size \in 1 .. LengthOf[r.file]
    /\ Copied(r) \in 0 .. r.size
    /\ r.out = SubSeq(Text(r.file), r.start + 1, r.start + Copied(r))
    /\ IF r.file \in Texts THEN r.at = 1 /\ r.last = 0
       ELSE /\ r.last = LastChunk(r.start, r.size)
            /\ r.at \in FirstChunk(r.start) .. r.last + 1

ReadInv ==
    /\ rd \in {Idle, Dead} \cup Reads
    /\ rd.op = "read" => data[rd.file] # None /\ Reading(rd)

DataInv == ToolInv /\ OpenInv /\ CacheInv /\ ReadInv

-----------------------------------------------------------------------------
(* Division and multiplication.                                            *)
LEMMA Division ==
    ASSUME NEW a \in Nat, NEW c \in Nat \ {0}
    PROVE  /\ a \div c \in Nat
           /\ (a \div c) * c <= a
           /\ a < (a \div c) * c + c
           /\ a % c = a - (a \div c) * c
  OBVIOUS

LEMMA Times ==
    ASSUME NEW a \in Nat, NEW c \in Nat
    PROVE  a * c \in Nat /\ (a + 1) * c = a * c + c /\ 0 * c = 0
  OBVIOUS

LEMMA TimesLess ==
    ASSUME NEW a \in Nat, NEW b \in Nat, a < b, NEW c \in Nat
    PROVE  a * c + c <= b * c
  OBVIOUS

LEMMA TimesMore ==
    ASSUME NEW a \in Nat, NEW b \in Nat, NEW c \in Nat, a * c < b * c
    PROVE  a < b
<1>1. a * c \in Nat /\ b * c \in Nat
  BY Times
<1>2. CASE b < a
  BY <1>1, <1>2, TimesLess
<1>3. CASE a = b
  BY <1>1, <1>3
<1> QED
  BY <1>2, <1>3

(* The chunk a byte is in, and the only one.                               *)
LEMMA DivisionOnly ==
    ASSUME NEW a \in Nat, NEW c \in Nat \ {0}, NEW q \in Nat, q * c <= a, a < q * c + c
    PROVE  a \div c = q
<1> DEFINE d == a \div c
<1>1. d \in Nat /\ d * c <= a /\ a < d * c + c /\ q * c \in Nat /\ d * c \in Nat
  BY Division, Times
<1> HIDE DEF d
<1>2. ~(d < q)
  BY <1>1, TimesLess
<1>3. ~(q < d)
  BY <1>1, TimesLess
<1> QED
  BY <1>1, <1>2, <1>3 DEF d

-----------------------------------------------------------------------------
(* Files and their chunks.                                                 *)
LEMMA Lengths ==
    ASSUME NEW f \in Files
    PROVE  /\ LengthOf[f] \in Nat \ {0} /\ NameLength[f] \in Nat /\ ChunkLength \in Nat \ {0}
           /\ Slots \in Nat \ {0} /\ Word \in Nat /\ MaxStamp \in Nat /\ MaxRuns \in Nat
           /\ Extra(f) < Word /\ ChunkLength < Word /\ SizeOf[f] \in [1 .. Chunks(f) -> 1 .. Word - 1]
  BY DataAssumption

LEMMA ChunksIs ==
    ASSUME NEW f \in Files
    PROVE  /\ Chunks(f) \in Nat \ {0}
           /\ \A n \in Nat : n < Chunks(f) <=> n * ChunkLength < LengthOf[f]
<1> DEFINE l == LengthOf[f]
           c == ChunkLength
           q == l \div c
<1>1. l \in Nat \ {0} /\ c \in Nat \ {0}
  BY Lengths
<1> HIDE DEF l, c
<1>2. q \in Nat /\ q * c \in Nat /\ q * c <= l /\ l < q * c + c /\ l % c = l - q * c
  BY <1>1, Division, Times
<1>3. Chunks(f) = q + (IF l % c > 0 THEN 1 ELSE 0)
  BY DEF Chunks, l, c
<1> HIDE DEF q
<1>4. ASSUME NEW n \in Nat PROVE n < Chunks(f) <=> n * c < l
  <2>1. n * c \in Nat
    BY <1>1, Times
  <2>2. n < q => n * c + c <= q * c
    BY <1>1, <1>2, TimesLess
  <2>3. q < n => q * c + c <= n * c
    BY <1>1, <1>2, TimesLess
  <2>4. CASE q * c < l
    <3>1. Chunks(f) = q + 1
      BY <1>1, <1>2, <1>3, <2>4
    <3>2. n = q => n * c = q * c
      OBVIOUS
    <3>3. n < q \/ n = q \/ q < n
      BY <1>2
    <3> QED
      BY <1>1, <1>2, <2>1, <2>2, <2>3, <2>4, <3>1, <3>2, <3>3
  <2>5. CASE q * c = l
    <3>1. Chunks(f) = q
      BY <1>1, <1>2, <1>3, <2>5
    <3>2. n = q => n * c = q * c
      OBVIOUS
    <3>3. n < q \/ n = q \/ q < n
      BY <1>2
    <3> QED
      BY <1>1, <1>2, <2>1, <2>2, <2>3, <2>5, <3>1, <3>2, <3>3
  <2> QED
    BY <1>1, <1>2, <2>4, <2>5
<1>5. Chunks(f) \in Nat
  BY <1>2, <1>3
<1>6. Chunks(f) # 0
  <2>1. 0 < Chunks(f) <=> 0 * c < l
    BY <1>4
  <2> QED
    BY <1>1, <2>1, Times
<1> QED
  BY <1>4, <1>5, <1>6 DEF l, c

LEMMA TextIs ==
    ASSUME NEW f \in Files
    PROVE  /\ Text(f) \in Seq(Bytes(f)) /\ Len(Text(f)) = LengthOf[f]
           /\ \A k \in 1 .. LengthOf[f] : Text(f)[k] = k - 1
<1>1. LengthOf[f] \in Nat
  BY Lengths
<1>2. \A k \in 1 .. LengthOf[f] : k - 1 \in Bytes(f)
  BY <1>1 DEF Bytes
<1> QED
  BY <1>1, <1>2 DEF Text

(* A part of the text.                                                     *)
LEMMA PartIs ==
    ASSUME NEW f \in Files, NEW a \in Nat, NEW b \in Nat, a <= b, b <= LengthOf[f]
    PROVE  /\ SubSeq(Text(f), a + 1, b) \in Seq(Bytes(f))
           /\ Len(SubSeq(Text(f), a + 1, b)) = b - a
           /\ \A k \in 1 .. b - a : SubSeq(Text(f), a + 1, b)[k] = a + k - 1
<1>1. /\ LengthOf[f] \in Nat /\ Text(f) \in Seq(Bytes(f)) /\ Len(Text(f)) = LengthOf[f]
      /\ \A k \in 1 .. LengthOf[f] : Text(f)[k] = k - 1
  BY Lengths, TextIs
<1> DEFINE s == Text(f)
<1> HIDE DEF s
<1>2. SubSeq(s, a + 1, b) = [k \in 1 .. b - a |-> s[a + k]]
  OBVIOUS
<1> QED
  BY <1>1, <1>2 DEF s


LEMMA SeqOfLength ==
    ASSUME NEW S, NEW m \in Nat, NEW s \in [1 .. m -> S]
    PROVE  s \in Seq(S) /\ Len(s) = m
  OBVIOUS

LEMMA ChunkIs ==
    ASSUME NEW f \in Files, NEW n \in Nat, n < Chunks(f)
    PROVE  LET a == Before(n)
               b == IF a + ChunkLength < LengthOf[f] THEN a + ChunkLength ELSE LengthOf[f]
           IN  /\ a \in Nat /\ b \in Nat /\ a < b /\ b <= LengthOf[f] /\ b - a <= ChunkLength
               /\ ChunkText(f, n) = SubSeq(Text(f), a + 1, b)
               /\ ChunkText(f, n) \in Seq(Bytes(f)) /\ Len(ChunkText(f, n)) = b - a
               /\ ChunkText(f, n) # <<>>
<1> DEFINE a == Before(n)
           b == IF a + ChunkLength < LengthOf[f] THEN a + ChunkLength ELSE LengthOf[f]
<1>1. LengthOf[f] \in Nat \ {0} /\ ChunkLength \in Nat \ {0}
  BY Lengths
<1>2. a \in Nat /\ (n + 1) * ChunkLength = a + ChunkLength
  BY <1>1, Times DEF Before
<1>3. a < LengthOf[f]
  BY ChunksIs DEF Before
<1>4. ChunkText(f, n) = SubSeq(Text(f), a + 1, b)
  <2>1. a = n * ChunkLength
    BY DEF Before
  <2> HIDE DEF a
  <2> QED
    BY <1>2, <2>1 DEF ChunkText
<1> HIDE DEF a
<1>5. b \in Nat /\ a < b /\ b <= LengthOf[f] /\ b - a <= ChunkLength
  BY <1>1, <1>2, <1>3
<1> HIDE DEF b
<1>6. SubSeq(Text(f), a + 1, b) \in Seq(Bytes(f)) /\ Len(SubSeq(Text(f), a + 1, b)) = b - a
  BY <1>2, <1>5, PartIs
<1>7. b - a # 0 /\ Len(<<>>) = 0
  BY <1>2, <1>5
<1>8. SubSeq(Text(f), a + 1, b) # <<>>
  BY <1>6, <1>7
<1> QED
  BY <1>2, <1>4, <1>5, <1>6, <1>8 DEF a, b

(* A part of a part.                                                       *)
LEMMA PartOfPart ==
    ASSUME NEW f \in Files, NEW a \in Nat, NEW b \in Nat, a <= b, b <= LengthOf[f],
           NEW from \in Nat, NEW to \in Nat, from <= to, to <= b - a
    PROVE  /\ a + to <= LengthOf[f]
           /\ SubSeq(SubSeq(Text(f), a + 1, b), from + 1, to) = SubSeq(Text(f), a + from + 1, a + to)
<1> DEFINE c == SubSeq(Text(f), a + 1, b)
           d == SubSeq(c, from + 1, to)
           e == SubSeq(Text(f), (a + from) + 1, a + to)
<1>1. c \in Seq(Bytes(f)) /\ Len(c) = b - a /\ \A k \in 1 .. b - a : c[k] = a + k - 1
  BY PartIs
<1>2. LengthOf[f] \in Nat
  BY Lengths
<1> HIDE DEF c
<1>3. \A k \in 1 .. b - a : c[k] = a + k - 1
  BY <1>1
<1>4. d = [k \in 1 .. to - from |-> c[from + k]]
  OBVIOUS
<1>5. d \in Seq(Bytes(f)) /\ Len(d) = to - from /\ \A k \in 1 .. to - from : d[k] = a + from + k - 1
  <2>1. ASSUME NEW k \in 1 .. to - from PROVE c[from + k] = a + from + k - 1 /\ c[from + k] \in Bytes(f)
    <3>1. from + k \in 1 .. b - a
      BY <1>1 DEF c
    <3>2. c[from + k] = a + (from + k) - 1
      BY <1>3, <3>1
    <3>3. c[from + k] \in Bytes(f)
      BY <1>1, <3>1, ElementOfSeq
    <3>4. a + (from + k) - 1 = a + from + k - 1
      BY <1>1
    <3> QED
      BY <3>2, <3>3, <3>4
  <2> DEFINE m == to - from
  <2>2. m \in Nat
    OBVIOUS
  <2> HIDE DEF d, m
  <2>3. d = [k \in 1 .. m |-> c[from + k]]
    BY <1>4 DEF m
  <2>4. \A k \in 1 .. m : c[from + k] = a + from + k - 1 /\ c[from + k] \in Bytes(f)
    BY <2>1 DEF m
  <2>5. d \in Seq(Bytes(f)) /\ Len(d) = m /\ \A k \in 1 .. m : d[k] = c[from + k]
    <3>1. d \in [1 .. m -> Bytes(f)]
      BY <2>3, <2>4
    <3>2. d \in Seq(Bytes(f)) /\ Len(d) = m
      BY <2>2, <3>1, SeqOfLength
    <3>3. \A k \in 1 .. m : d[k] = c[from + k]
      BY <2>3, Zenon
    <3> QED
      BY <3>2, <3>3
  <2> QED
    BY <2>4, <2>5 DEF m
<1>6. a + to <= LengthOf[f] /\ a + from \in Nat /\ a + to \in Nat /\ a + from <= a + to
  BY <1>1, <1>2 DEF c
<1>7. e \in Seq(Bytes(f)) /\ Len(e) = (a + to) - (a + from)
      /\ \A k \in 1 .. (a + to) - (a + from) : e[k] = (a + from) + k - 1
  BY <1>6, PartIs
<1> HIDE DEF d, e
<1>8. (a + to) - (a + from) = to - from
  BY <1>1
<1>9. d = e
  BY <1>5, <1>7, <1>8, SeqEqual
<1> QED
  BY <1>1, <1>6, <1>9 DEF c, d, e

-----------------------------------------------------------------------------
(* Where the chunks begin.                                                 *)
LEMMA SumsStep ==
    ASSUME NEW t \in Seq(Nat)
    PROVE  /\ Sums(t)[0] = 0
           /\ \A n \in Nat : n < Len(t) => Sums(t)[n + 1] = Sums(t)[n] + t[n + 1]
<1> DEFINE l == Len(t)
           g == [k \in Nat |-> [r \in Nat |-> IF k + 1 \in 1 .. l THEN r + t[k + 1] ELSE r]]
           IsSum(f) == f = [n \in 0 .. l |-> IF n = 0 THEN 0 ELSE f[n - 1] + t[n]]
           sum == CHOOSE f : IsSum(f)
<1>1. l \in Nat /\ \A k \in 1 .. l : t[k] \in Nat
  OBVIOUS
<1>2. Sums(t) = sum
  BY Zenon DEF Sums
<1> HIDE DEF l
<1>3. g \in [Nat -> [Nat -> Nat]]
  BY <1>1
<1>4. \A k \in Nat, r \in Nat : g[k][r] = IF k + 1 \in 1 .. l THEN r + t[k + 1] ELSE r
  OBVIOUS
<1> HIDE DEF g
<1>5. PICK h : Solves(h, Nat, 0, g)
  BY <1>3, RecursionSolved
<1>6. h \in [Nat -> Nat] /\ h[0] = 0 /\ \A k \in Nat : h[k + 1] = g[k][h[k]]
  BY <1>5 DEF Solves
<1> DEFINE f == [n \in 0 .. l |-> h[n]]
<1>7. IsSum(f)
  <2>1. ASSUME NEW n \in 0 .. l PROVE h[n] = IF n = 0 THEN 0 ELSE f[n - 1] + t[n]
    <3>1. CASE n = 0
      BY <1>6, <3>1
    <3>2. CASE n # 0
      <4>1. n - 1 \in Nat /\ (n - 1) + 1 = n /\ n \in 1 .. l /\ n - 1 \in 0 .. l
        BY <1>1, <3>2
      <4>2. f[n - 1] = h[n - 1] /\ h[n - 1] \in Nat
        BY <1>6, <4>1
      <4>3. h[(n - 1) + 1] = g[n - 1][h[n - 1]]
        BY <1>6, <4>1
      <4>4. g[n - 1][h[n - 1]] = h[n - 1] + t[n]
        BY <1>4, <4>1, <4>2
      <4> QED
        BY <3>2, <4>1, <4>2, <4>3, <4>4
    <3> QED
      BY <3>1, <3>2
  <2> QED
    BY <2>1
<1> HIDE DEF f
<1>8. IsSum(sum)
  BY <1>7
<1> HIDE DEF sum
<1>9. \A n \in 0 .. l : sum[n] = IF n = 0 THEN 0 ELSE sum[n - 1] + t[n]
  BY <1>8
<1>10. sum[0] = 0
  BY <1>1, <1>9
<1>11. ASSUME NEW n \in Nat, n < l PROVE sum[n + 1] = sum[n] + t[n + 1]
  <2>1. n + 1 \in 0 .. l /\ n + 1 # 0 /\ (n + 1) - 1 = n
    BY <1>1, <1>11
  <2> QED
    BY <1>9, <2>1
<1> QED
  BY <1>2, <1>10, <1>11 DEF l

LEMMA SumsType ==
    ASSUME NEW t \in Seq(Nat)
    PROVE  \A n \in 0 .. Len(t) : Sums(t)[n] \in Nat /\ Sums(t)[n] <= Sums(t)[Len(t)]
<1> DEFINE l == Len(t)
           s == Sums(t)
           N == {n \in Nat : n <= l => s[n] \in Nat /\ \A k \in 0 .. n : s[k] \in Nat /\ s[k] <= s[n]}
<1>1. l \in Nat /\ \A k \in 1 .. l : t[k] \in Nat
  OBVIOUS
<1>2. s[0] = 0 /\ \A n \in Nat : n < l => s[n + 1] = s[n] + t[n + 1]
  BY SumsStep
<1> HIDE DEF l, s
<1>3. 0 \in N
  BY <1>2
<1>4. ASSUME NEW n \in Nat, n \in N PROVE n + 1 \in N
  <2> SUFFICES ASSUME n + 1 <= l PROVE s[n + 1] \in Nat /\ \A k \in 0 .. n + 1 : s[k] \in Nat /\ s[k] <= s[n + 1]
    OBVIOUS
  <2>1. s[n] \in Nat /\ \A k \in 0 .. n : s[k] \in Nat /\ s[k] <= s[n]
    BY <1>1, <1>4
  <2>2. s[n + 1] = s[n] + t[n + 1] /\ t[n + 1] \in Nat
    BY <1>1, <1>2
  <2>3. s[n + 1] \in Nat /\ s[n] <= s[n + 1]
    BY <2>1, <2>2
  <2>4. ASSUME NEW k \in 0 .. n + 1 PROVE s[k] \in Nat /\ s[k] <= s[n + 1]
    <3>1. CASE k = n + 1
      BY <2>3, <3>1
    <3>2. CASE k # n + 1
      <4>1. k \in 0 .. n
        BY <3>2
      <4>2. s[k] <= s[n] /\ s[k] \in Nat
        BY <2>1, <4>1
      <4> QED
        BY <2>1, <2>3, <4>2
    <3> QED
      BY <3>1, <3>2
  <2> QED
    BY <2>3, <2>4
<1> HIDE DEF N
<1>5. Nat \subseteq N
  BY <1>3, <1>4, AllNumbers
<1>6. l \in N
  BY <1>1, <1>5
<1> QED
  BY <1>1, <1>6 DEF N, l, s

LEMMA SumsAppend ==
    ASSUME NEW t \in Seq(Nat), NEW x \in Nat
    PROVE  /\ \A n \in 0 .. Len(t) : Sums(Append(t, x))[n] = Sums(t)[n]
           /\ Sums(Append(t, x))[Len(t) + 1] = Sums(t)[Len(t)] + x
<1> DEFINE l == Len(t)
           u == Append(t, x)
           N == {n \in Nat : n <= l => Sums(u)[n] = Sums(t)[n]}
<1>1. /\ l \in Nat /\ u \in Seq(Nat) /\ Len(u) = l + 1 /\ u[l + 1] = x
      /\ \A k \in 1 .. l : u[k] = t[k]
  OBVIOUS
<1>2. Sums(t)[0] = 0 /\ \A n \in Nat : n < l => Sums(t)[n + 1] = Sums(t)[n] + t[n + 1]
  BY SumsStep
<1> HIDE DEF u
<1>3. Sums(u)[0] = 0 /\ \A n \in Nat : n < Len(u) => Sums(u)[n + 1] = Sums(u)[n] + u[n + 1]
  BY <1>1, SumsStep
<1> HIDE DEF l
<1>4. 0 \in N
  BY <1>2, <1>3
<1>5. ASSUME NEW n \in Nat, n \in N PROVE n + 1 \in N
  <2> SUFFICES ASSUME n + 1 <= l PROVE Sums(u)[n + 1] = Sums(t)[n + 1]
    OBVIOUS
  <2>1. n < l /\ n <= l /\ n < Len(u) /\ n + 1 \in 1 .. l
    BY <1>1
  <2>2. Sums(u)[n] = Sums(t)[n] /\ u[n + 1] = t[n + 1]
    BY <1>1, <1>5, <2>1
  <2> QED
    BY <1>2, <1>3, <2>1, <2>2
<1> HIDE DEF N
<1>6. Nat \subseteq N
  BY <1>4, <1>5, AllNumbers
<1>7. \A n \in 0 .. l : Sums(u)[n] = Sums(t)[n]
  BY <1>1, <1>6 DEF N
<1>8. Sums(u)[l + 1] = Sums(t)[l] + x
  <2>1. l < Len(u) /\ l \in 0 .. l
    BY <1>1
  <2> QED
    BY <1>1, <1>3, <1>7, <2>1
<1> QED
  BY <1>7, <1>8 DEF l, u


-----------------------------------------------------------------------------
(* Packing and unpacking.                                                  *)
LEMMA PackedNothing == Packed(<<>>, <<>>)
<1>1. Len(<<>>) = 0 /\ <<>> \in Seq(Nat)
  OBVIOUS
<1>2. Sums(<<>>)[0] = 0
  BY <1>1, SumsStep
<1> QED
  BY <1>1, <1>2 DEF Packed

LEMMA CompressedIs ==
    ASSUME NEW n \in Nat, NEW x \in Nat
    PROVE  /\ Compressed(n, x) \in Seq(Cells) /\ Len(Compressed(n, x)) = x
           /\ \A m \in 1 .. x : Compressed(n, x)[m] = <<n, m, x>>
<1>1. \A m \in 1 .. x : <<n, m, x>> \in Cells
  BY DEF Cells
<1>2. Compressed(n, x) \in [1 .. x -> Cells] /\ \A m \in 1 .. x : Compressed(n, x)[m] = <<n, m, x>>
  BY <1>1 DEF Compressed
<1> QED
  BY <1>2, SeqOfLength

LEMMA PackedMore ==
    ASSUME NEW t \in Seq(Nat), NEW cells \in Seq(Cells), Packed(t, cells), NEW x \in Nat \ {0}
    PROVE  /\ cells \o Compressed(Len(t), x) \in Seq(Cells)
           /\ Packed(Append(t, x), cells \o Compressed(Len(t), x))
<1> DEFINE l == Len(t)
           c == Compressed(l, x)
           u == Append(t, x)
           v == cells \o c
           s == Sums(t)
           r == Sums(u)
<1>1. /\ l \in Nat /\ u \in Seq(Nat) /\ Len(u) = l + 1 /\ u[l + 1] = x
      /\ \A k \in 1 .. l : u[k] = t[k] /\ t[k] \in Nat
  OBVIOUS
<1>2. c \in Seq(Cells) /\ Len(c) = x /\ \A m \in 1 .. x : c[m] = <<l, m, x>>
  BY <1>1, CompressedIs
<1>3. (\A n \in 0 .. l : r[n] = s[n]) /\ r[l + 1] = s[l] + x
  BY SumsAppend
<1>4. \A n \in 0 .. l : s[n] \in Nat /\ s[n] <= s[l]
  BY SumsType
<1>5. \A n \in Nat : n < l => s[n + 1] = s[n] + t[n + 1]
  BY SumsStep
<1>6. /\ \A k \in 1 .. l : t[k] > 0
      /\ Len(cells) = s[l]
      /\ \A k \in 1 .. l : \A m \in 1 .. t[k] : cells[s[k - 1] + m] = <<k - 1, m, t[k]>>
  BY DEF Packed
<1> HIDE DEF l, c, u, s, r
<1>7. /\ v \in Seq(Cells) /\ Len(v) = Len(cells) + x
      /\ \A i \in 1 .. Len(cells) : v[i] = cells[i]
      /\ \A m \in 1 .. x : v[Len(cells) + m] = c[m]
  <2>1. /\ v \in Seq(Cells) /\ Len(v) = Len(cells) + Len(c)
        /\ \A i \in 1 .. Len(cells) + Len(c) : v[i] = IF i <= Len(cells) THEN cells[i] ELSE c[i - Len(cells)]
    BY <1>2, ConcatProperties
  <2> HIDE DEF v
  <2>2. Len(cells) \in Nat
    OBVIOUS
  <2>3. ASSUME NEW i \in 1 .. Len(cells) PROVE v[i] = cells[i]
    <3>1. i \in 1 .. Len(cells) + Len(c) /\ i <= Len(cells)
      BY <1>2, <2>2
    <3> QED
      BY <2>1, <3>1
  <2>4. ASSUME NEW m \in 1 .. x PROVE v[Len(cells) + m] = c[m]
    <3>1. /\ Len(cells) + m \in 1 .. Len(cells) + Len(c) /\ ~(Len(cells) + m <= Len(cells))
          /\ (Len(cells) + m) - Len(cells) = m
      BY <1>2, <2>2
    <3> QED
      BY <2>1, <3>1
  <2> QED
    BY <1>2, <2>1, <2>3, <2>4
<1> HIDE DEF v
<1>8. ASSUME NEW k \in 1 .. l + 1 PROVE u[k] > 0 /\ \A m \in 1 .. u[k] : v[r[k - 1] + m] = <<k - 1, m, u[k]>>
  <2>1. CASE k = l + 1
    <3>1. u[k] = x /\ k - 1 = l /\ l \in 0 .. l
      BY <1>1, <2>1
    <3>2. r[k - 1] = Len(cells)
      BY <1>3, <1>6, <3>1
    <3>3. ASSUME NEW m \in 1 .. x PROVE v[r[k - 1] + m] = <<k - 1, m, x>>
      <4>1. v[Len(cells) + m] = <<l, m, x>>
        BY <1>2, <1>7
      <4> QED
        BY <3>1, <3>2, <4>1
    <3> QED
      BY <3>1, <3>3
  <2>2. CASE k # l + 1
    <3>1. k \in 1 .. l /\ k - 1 \in 0 .. l /\ k - 1 \in Nat /\ k - 1 < l /\ (k - 1) + 1 = k /\ k \in 0 .. l
      BY <1>1, <2>2
    <3>2. u[k] = t[k] /\ t[k] \in Nat /\ t[k] > 0
      BY <1>1, <1>6, <3>1
    <3>3. r[k - 1] = s[k - 1] /\ s[k - 1] \in Nat
      BY <1>3, <1>4, <3>1
    <3>4. s[k - 1] + t[k] <= Len(cells)
      <4>1. s[k] = s[k - 1] + t[k]
        BY <1>5, <3>1
      <4>2. s[k] <= s[l]
        BY <1>4, <3>1
      <4> QED
        BY <1>6, <4>1, <4>2
    <3>5. ASSUME NEW m \in 1 .. u[k] PROVE v[r[k - 1] + m] = <<k - 1, m, u[k]>>
      <4>1. m \in 1 .. t[k]
        BY <3>2
      <4>2. s[k - 1] + m \in 1 .. Len(cells)
        <5>1. Len(cells) \in Nat
          OBVIOUS
        <5> QED
          BY <3>2, <3>3, <3>4, <4>1, <5>1
      <4>3. cells[s[k - 1] + m] = <<k - 1, m, t[k]>>
        BY <1>6, <3>1, <4>1
      <4> QED
        BY <1>7, <3>2, <3>3, <4>2, <4>3
    <3> QED
      BY <3>2, <3>5
  <2> QED
    BY <2>1, <2>2
<1>9. Len(v) = r[Len(u)]
  BY <1>1, <1>3, <1>6, <1>7
<1>10. Packed(u, v)
  BY <1>1, <1>8, <1>9 DEF Packed, r
<1> QED
  BY <1>7, <1>10 DEF v, u, c, l

LEMMA InflatePacked ==
    ASSUME NEW f \in Files, NEW d, NEW t \in Seq(Nat), NEW n \in Nat, n < Len(t),
           d.cells \in Seq(Cells), Packed(t, d.cells),
           d.offsets[n + 1] = HeaderLength(f) + Sums(t)[n], d.chunks[n + 1] = t[n + 1]
    PROVE  InflateChunk(d, f, n) = ChunkText(f, n)
<1> DEFINE h == HeaderLength(f)
           o == Sums(t)[n]
           x == t[n + 1]
           s == CellsAt(d, f, d.offsets[n + 1], d.chunks[n + 1])
<1>1. h \in Int
  <2>1. NameLength[f] \in Nat /\ Chunks(f) \in Nat
    BY Lengths, ChunksIs
  <2> QED
    BY <2>1 DEF HeaderLength, Extra
<1>2. n + 1 \in 1 .. Len(t) /\ n \in 0 .. Len(t) /\ (n + 1) - 1 = n
  OBVIOUS
<1>3. o \in Nat /\ x \in Nat /\ x > 0
  BY <1>2, SumsType DEF Packed
<1>4. \A m \in 1 .. x : d.cells[o + m] = <<n, m, x>>
  BY <1>2 DEF Packed
<1>5. s = SubSeq(d.cells, (h + o) + 1 - h, (h + o) + x - h)
  BY DEF CellsAt
<1> HIDE DEF h, o, x, s
<1>6. (h + o) + 1 - h = o + 1 /\ (h + o) + x - h = o + x
  BY <1>1, <1>3
<1>7. s = [m \in 1 .. x |-> d.cells[o + m]]
  <2>1. s = SubSeq(d.cells, o + 1, o + x)
    BY <1>5, <1>6
  <2> QED
    BY <1>3, <2>1
<1>8. s = Compressed(n, x)
  BY <1>4, <1>7 DEF Compressed
<1>9. s # <<>> /\ s[1] = <<n, 1, x>>
  <2>1. Len(s) = x /\ s \in Seq(Cells) /\ 1 \in 1 .. x
    BY <1>3, <1>8, CompressedIs
  <2>2. s # <<>>
    BY <1>3, <2>1
  <2> QED
    BY <1>3, <1>8, <2>1, <2>2, CompressedIs
<1>10. s[1][1] = n /\ s[1][3] = x
  BY <1>9
<1>11. Inflate(f, s) = ChunkText(f, n)
  BY <1>8, <1>9, <1>10 DEF Inflate
<1> QED
  BY <1>11 DEF InflateChunk, s

LEMMA InflateNothing ==
    ASSUME NEW f \in Files, NEW d, NEW n \in Nat, d.offsets[n + 1] \in Int, d.chunks[n + 1] = 0
    PROVE  InflateChunk(d, f, n) = <<>>
<1>1. HeaderLength(f) \in Int
  <2>1. NameLength[f] \in Nat /\ Chunks(f) \in Nat
    BY Lengths, ChunksIs
  <2> QED
    BY <2>1 DEF HeaderLength, Extra
<1> DEFINE o == d.offsets[n + 1] - HeaderLength(f)
           s == CellsAt(d, f, d.offsets[n + 1], d.chunks[n + 1])
<1>2. o \in Int /\ d.offsets[n + 1] + 1 - HeaderLength(f) = o + 1 /\ d.offsets[n + 1] + 0 - HeaderLength(f) = o
  BY <1>1
<1>3. s = SubSeq(d.cells, o + 1, o)
  BY <1>2 DEF CellsAt
<1> HIDE DEF o
<1>4. SubSeq(d.cells, o + 1, o) = <<>>
  BY <1>2
<1>5. Inflate(f, s) = <<>>
  BY <1>3, <1>4 DEF Inflate
<1> QED
  BY <1>5 DEF InflateChunk


-----------------------------------------------------------------------------
(* The header of a compressed file.                                        *)
LEMMA Small ==
    ASSUME NEW a \in Nat, NEW c \in Nat, a < c
    PROVE  a % c = a
<1>1. c \in Nat \ {0} /\ 0 \in Nat /\ 0 * c = 0
  OBVIOUS
<1>2. a \div c = 0
  BY <1>1, DivisionOnly
<1>3. a % c = a - (a \div c) * c
  BY <1>1, Division
<1> QED
  BY <1>1, <1>2, <1>3

LEMMA HeaderIs ==
    ASSUME NEW f \in Files, NEW t \in Seq(Nat)
    PROVE  /\ Header(f, t) = [xlen |-> Extra(f), chlen |-> ChunkLength, chcnt |-> Chunks(f), table |-> t]
           /\ Header(f, t) \in Heads /\ Header(f, t).table = t
           /\ Extra(f) \in Nat
<1>1. Chunks(f) \in Nat /\ ChunkLength \in Nat /\ Word \in Nat /\ Extra(f) < Word /\ ChunkLength < Word
  BY Lengths, ChunksIs
<1>2. Extra(f) \in Nat /\ Chunks(f) < Word
  BY <1>1 DEF Extra
<1>3. Extra(f) % Word = Extra(f) /\ ChunkLength % Word = ChunkLength /\ Chunks(f) % Word = Chunks(f)
  BY <1>1, <1>2, Small
<1> QED
  BY <1>1, <1>2, <1>3 DEF Header, Heads

LEMMA ZerosIs ==
    ASSUME NEW f \in Files
    PROVE  Zeros(f) \in Seq(Nat) /\ Len(Zeros(f)) = Chunks(f) /\ \A k \in 1 .. Chunks(f) : Zeros(f)[k] = 0
<1>1. Chunks(f) \in Nat
  BY ChunksIs
<1>2. Zeros(f) \in [1 .. Chunks(f) -> Nat] /\ \A k \in 1 .. Chunks(f) : Zeros(f)[k] = 0
  BY DEF Zeros
<1> QED
  BY <1>1, <1>2, SeqOfLength

(* A file that dictzip has finished gives back its chunks; one that was    *)
(* not finished gives nothing, never a wrong text.                         *)
LEMMA ReadHeaderIs ==
    ASSUME NEW f \in Files, f \notin Texts, dz[f] \in Zipped, ZipInv(f)
    PROVE  /\ ReadHeader(f) \in OpenZip
           /\ ReadHeader(f).chunkLength = ChunkLength
           /\ Len(ReadHeader(f).offsets) = Len(ReadHeader(f).chunks)
           /\ \A n \in 0 .. Chunks(f) - 1 : InflateChunk(ReadHeader(f), f, n) \in {<<>>, ChunkText(f, n)}
           /\ Packed(Table(f), dz[f].cells) =>
                  \A n \in 0 .. Chunks(f) - 1 : InflateChunk(ReadHeader(f), f, n) = ChunkText(f, n)
<1> DEFINE t == Table(f)
           d == ReadHeader(f)
           c == dz[f].cells
           o == [n \in 1 .. Chunks(f) |-> HeaderLength(f) + Sums(t)[n - 1]]
<1>1. dz[f] # None
  <2>1. dz[f].none = FALSE
    BY DEF Zipped
  <2>2. None.none = TRUE
    BY DEF None
  <2> QED
    BY <2>1, <2>2
<1>2. dz[f].head \in Heads /\ c \in Seq(Cells) /\ t \in Seq(Nat)
  BY DEF Zipped, Heads, Table
<1>3. /\ dz[f].head = Header(f, t) /\ Len(t) = Chunks(f)
      /\ t = Zeros(f) \/ Packed(t, c)
  BY <1>1 DEF ZipInv, Headed
<1> HIDE DEF t
<1>4. /\ dz[f].head = [xlen |-> Extra(f), chlen |-> ChunkLength, chcnt |-> Chunks(f), table |-> t]
      /\ Extra(f) \in Nat
  BY <1>2, <1>3, HeaderIs
<1>5. Chunks(f) \in Nat /\ NameLength[f] \in Nat /\ ChunkLength \in Nat
  BY ChunksIs, Lengths
<1>6. HeaderLength(f) = 13 + Extra(f) + NameLength[f] /\ HeaderLength(f) \in Nat
  BY <1>4, <1>5 DEF HeaderLength
<1>7. \A n \in 1 .. Chunks(f) : Sums(t)[n - 1] \in Nat
  <2>1. \A n \in 1 .. Chunks(f) : n - 1 \in 0 .. Len(t)
    BY <1>3, <1>5
  <2> QED
    BY <1>2, <2>1, SumsType
<1>8. \A n \in 1 .. Chunks(f) : Offset(dz[f], f, n - 1) = o[n] /\ o[n] \in Int
  <2> SUFFICES ASSUME NEW n \in 1 .. Chunks(f)
               PROVE  Offset(dz[f], f, n - 1) = HeaderLength(f) + Sums(t)[n - 1]
                      /\ HeaderLength(f) + Sums(t)[n - 1] \in Int
    OBVIOUS
  <2>1. Offset(dz[f], f, n - 1) = 9 + Extra(f) + 2 + NameLength[f] + 1 + 1 + Sums(t)[n - 1]
    BY <1>4 DEF Offset
  <2>2. Sums(t)[n - 1] \in Nat
    BY <1>7
  <2> QED
    BY <1>4, <1>5, <1>6, <2>1, <2>2
<1>9. d = [none |-> FALSE, type |-> "dzip", chunkLength |-> ChunkLength, chunks |-> t,
           offsets |-> [n \in 1 .. Chunks(f) |-> Offset(dz[f], f, n - 1)], cells |-> c]
  BY <1>4 DEF ReadHeader
<1>10. [n \in 1 .. Chunks(f) |-> Offset(dz[f], f, n - 1)] = o
  BY <1>8
<1>11. d = [none |-> FALSE, type |-> "dzip", chunkLength |-> ChunkLength, chunks |-> t, offsets |-> o, cells |-> c]
  BY <1>9, <1>10
<1>12. o \in Seq(Int) /\ Len(o) = Chunks(f)
  <2>1. o \in [1 .. Chunks(f) -> Int]
    BY <1>8
  <2> QED
    BY <1>5, <2>1, SeqOfLength
<1> DEFINE H == HeaderLength(f)
<1>13. \A n \in 1 .. Chunks(f) : o[n] = H + Sums(t)[n - 1]
  OBVIOUS
<1> HIDE DEF o, c, d, H
<1>14. /\ d \in OpenZip /\ d.chunkLength = ChunkLength /\ Len(d.offsets) = Len(d.chunks)
       /\ d.chunks = t /\ d.offsets = o /\ d.cells = c
  <2>1. d \in OpenZip
    BY <1>2, <1>11, <1>12 DEF OpenZip
  <2> QED
    BY <1>3, <1>11, <1>12, <2>1
<1>15. ASSUME Packed(t, c), NEW n \in 0 .. Chunks(f) - 1 PROVE InflateChunk(d, f, n) = ChunkText(f, n)
  <2>1. n \in Nat /\ n < Len(t) /\ n + 1 \in 1 .. Chunks(f) /\ (n + 1) - 1 = n
    BY <1>3, <1>5
  <2>2. d.offsets[n + 1] = HeaderLength(f) + Sums(t)[n] /\ d.chunks[n + 1] = t[n + 1]
    BY <1>13, <1>14, <2>1 DEF H
  <2>3. d.cells \in Seq(Cells) /\ Packed(t, d.cells)
    BY <1>2, <1>14, <1>15
  <2> QED
    BY <1>2, <2>1, <2>2, <2>3, InflatePacked
<1>16. ASSUME t = Zeros(f), NEW n \in 0 .. Chunks(f) - 1 PROVE InflateChunk(d, f, n) = <<>>
  <2>1. n \in Nat /\ n + 1 \in 1 .. Chunks(f)
    BY <1>5
  <2>2. d.offsets[n + 1] \in Int /\ d.chunks[n + 1] = 0
    BY <1>12, <1>14, <1>16, <2>1, ZerosIs
  <2> QED
    BY <2>1, <2>2, InflateNothing
<1> QED
  BY <1>3, <1>14, <1>15, <1>16 DEF d, t, c


-----------------------------------------------------------------------------
(* What a step of dictzip keeps.                                           *)
LEMMA NoneIs ==
    /\ \A z \in Zipped : z # None
    /\ \A d \in OpenText \cup OpenZip : d # None
<1>1. None.none = TRUE
  BY DEF None
<1>2. \A z \in Zipped : z.none = FALSE
  BY DEF Zipped
<1>3. \A d \in OpenText \cup OpenZip : d.none = FALSE
  BY DEF OpenText, OpenZip
<1>4. \A z \in Zipped : z # None
  BY <1>1, <1>2
<1> QED
  BY <1>1, <1>3, <1>4

(* A compressed file that a step leaves alone.                             *)
LEMMA FileKept ==
    ASSUME NEW f, dz'[f] = dz[f]
    PROVE  ZipInv(f)' = ZipInv(f) /\ Complete(f)' = Complete(f) /\ Table(f)' = Table(f)
  BY DEF ZipInv, Complete, Table, Headed

(* A part of the text, and the part after it.                              *)
LEMMA TextJoin ==
    ASSUME NEW f \in Files, NEW a \in Nat, NEW b \in Nat, NEW c \in Nat, a <= b, b <= c, c <= LengthOf[f]
    PROVE  SubSeq(Text(f), a + 1, b) \o SubSeq(Text(f), b + 1, c) = SubSeq(Text(f), a + 1, c)
<1> DEFINE s == SubSeq(Text(f), a + 1, b)
           t == SubSeq(Text(f), b + 1, c)
           u == SubSeq(Text(f), a + 1, c)
           v == s \o t
<1>1. b <= LengthOf[f] /\ a <= c
  BY Lengths
<1>2. s \in Seq(Bytes(f)) /\ Len(s) = b - a /\ \A k \in 1 .. b - a : s[k] = a + k - 1
  BY <1>1, PartIs
<1>3. t \in Seq(Bytes(f)) /\ Len(t) = c - b /\ \A k \in 1 .. c - b : t[k] = b + k - 1
  BY <1>1, PartIs
<1>4. u \in Seq(Bytes(f)) /\ Len(u) = c - a /\ \A k \in 1 .. c - a : u[k] = a + k - 1
  BY <1>1, PartIs
<1> HIDE DEF s, t, u
<1>5. /\ v \in Seq(Bytes(f)) /\ Len(v) = Len(s) + Len(t)
      /\ \A k \in 1 .. Len(s) + Len(t) : v[k] = IF k <= Len(s) THEN s[k] ELSE t[k - Len(s)]
  BY <1>2, <1>3, ConcatProperties
<1> HIDE DEF v
<1>6. Len(v) = c - a
  BY <1>2, <1>3, <1>5
<1>7. ASSUME NEW k \in 1 .. c - a PROVE v[k] = u[k]
  <2>1. k \in 1 .. Len(s) + Len(t)
    BY <1>2, <1>3
  <2>2. v[k] = IF k <= Len(s) THEN s[k] ELSE t[k - Len(s)]
    BY <1>5, <2>1
  <2>3. u[k] = a + k - 1
    BY <1>4
  <2>4. CASE k <= b - a
    <3>1. k \in 1 .. b - a
      BY <2>4
    <3>2. s[k] = a + k - 1
      BY <1>2, <3>1
    <3> QED
      BY <1>2, <2>2, <2>3, <2>4, <3>2
  <2>5. CASE ~(k <= b - a)
    <3>1. k - (b - a) \in 1 .. c - b
      BY <2>5
    <3>2. t[k - (b - a)] = b + (k - (b - a)) - 1
      BY <1>3, <3>1
    <3>3. b + (k - (b - a)) - 1 = a + k - 1
      OBVIOUS
    <3> QED
      BY <1>2, <2>2, <2>3, <2>5, <3>2, <3>3
  <2> QED
    BY <2>4, <2>5
<1>8. v = u
  BY <1>4, <1>5, <1>6, <1>7, SeqEqual
<1> QED
  BY <1>8 DEF s, t, u, v

LEMMA TextWhole ==
    ASSUME NEW f \in Files
    PROVE  SubSeq(Text(f), 1, LengthOf[f]) = Text(f) /\ SubSeq(Text(f), 1, 0) = <<>> /\ Text(f) # <<>>
<1> DEFINE s == SubSeq(Text(f), 0 + 1, LengthOf[f])
           t == Text(f)
<1>1. LengthOf[f] \in Nat \ {0}
  BY Lengths
<1>2. /\ s \in Seq(Bytes(f)) /\ Len(s) = LengthOf[f] - 0
      /\ \A k \in 1 .. LengthOf[f] - 0 : s[k] = 0 + k - 1
  <2> DEFINE l == LengthOf[f]
             z == 0
             r == SubSeq(Text(f), z + 1, l)
  <2>1. z \in Nat /\ l \in Nat /\ z <= l /\ l <= LengthOf[f]
    BY <1>1
  <2> HIDE DEF z, l
  <2>2. r \in Seq(Bytes(f)) /\ Len(r) = l - z /\ \A k \in 1 .. l - z : r[k] = z + k - 1
    BY <2>1, PartIs
  <2> QED
    BY <2>2 DEF z, l
<1>3. t \in Seq(Bytes(f)) /\ Len(t) = LengthOf[f] /\ \A k \in 1 .. LengthOf[f] : t[k] = k - 1
  BY TextIs
<1>4. SubSeq(t, 1, 0) = <<>>
  OBVIOUS
<1> HIDE DEF s, t
<1>5. s = t
  BY <1>1, <1>2, <1>3, SeqEqual
<1>6. t # <<>>
  BY <1>1, <1>3
<1> QED
  BY <1>4, <1>5, <1>6 DEF s, t


(* dictzip writes a header over what an earlier run left.                  *)
LEMMA ZipStartsKeeps ==
    ASSUME NEW f \in Files, ToolInv, ZipStarts(f)
    PROVE  ToolInv'
<1> DEFINE z == Written(f, Zeros(f), <<>>, -1)
<1>1. /\ orig \in [Files -> Seq(Nat)] /\ (\A g \in Files : orig[g] \in Seq(Bytes(g)))
      /\ dz \in [Files -> {None} \cup Zipped] /\ runs \in 0 .. MaxRuns
      /\ (\A g \in Files : ZipInv(g)) /\ (\A g \in Files : orig[g] = Text(g) \/ Complete(g))
  BY DEF ToolInv
<1>2. /\ runs < MaxRuns /\ f \notin Texts /\ orig[f] = Text(f)
      /\ dz' = [dz EXCEPT ![f] = z] /\ orig' = orig /\ runs' = runs + 1
      /\ tool' = [op |-> "zip", file |-> f, at |-> 0, table |-> <<>>]
  BY DEF ZipStarts
<1>3. Zeros(f) \in Seq(Nat) /\ Len(Zeros(f)) = Chunks(f) /\ Chunks(f) \in Nat /\ MaxRuns \in Nat
  BY ZerosIs, ChunksIs, Lengths
<1>4. /\ Header(f, Zeros(f)) \in Heads /\ Header(f, Zeros(f)).table = Zeros(f)
  BY <1>3, HeaderIs
<1>5. z = [none |-> FALSE, head |-> Header(f, Zeros(f)), cells |-> <<>>, tail |-> -1]
  BY DEF Written
<1>6. z \in Zipped /\ z # None
  <2> DEFINE e == <<>>
             h == Header(f, Zeros(f))
  <2>1. e \in Seq(Cells) /\ h \in Heads /\ -1 \in Int
    BY <1>4
  <2> HIDE DEF e, h
  <2>2. [none |-> FALSE, head |-> h, cells |-> e, tail |-> -1] \in Zipped
    BY <2>1 DEF Zipped
  <2>3. z \in Zipped
    BY <1>5, <2>2 DEF e, h
  <2> QED
    BY <2>3, NoneIs
<1>7. z.head = Header(f, z.head.table) /\ z.head.table = Zeros(f) /\ z.cells = <<>>
  BY <1>4, <1>5
<1> HIDE DEF z
<1>8. dz' \in [Files -> {None} \cup Zipped] /\ dz'[f] = z /\ \A g \in Files : g # f => dz'[g] = dz[g]
  BY <1>1, <1>2, <1>6
<1>9. Table(f)' = Zeros(f) /\ ZipInv(f)'
  <2>1. Table(f)' = Zeros(f)
    BY <1>7, <1>8 DEF Table
  <2> QED
    BY <1>2, <1>3, <1>7, <1>8, <2>1 DEF ZipInv, Headed
<1>10. \A g \in Files : ZipInv(g)'
  <2>1. \A g \in Files : g # f => ZipInv(g)' = ZipInv(g)
    BY <1>8, FileKept
  <2> QED
    BY <1>1, <1>9, <2>1
<1>11. \A g \in Files : orig'[g] = Text(g) \/ Complete(g)'
  <2>1. \A g \in Files : g # f => Complete(g)' = Complete(g)
    BY <1>8, FileKept
  <2> QED
    BY <1>1, <1>2, <2>1
<1>12. tool' \in Zipping
  BY <1>2 DEF Zipping
<1>13. ZippingInv'
  <2>1. /\ tool'.op = "zip" /\ tool'.file = f /\ tool'.at = 0 /\ tool'.table = <<>> /\ Len(<<>>) = 0
    BY <1>2
  <2>2. dz'[f].cells = <<>>
    BY <1>7, <1>8
  <2>3. Packed(<<>>, dz'[f].cells)
    BY <2>2, PackedNothing
  <2> QED
    BY <1>2, <1>3, <1>6, <1>8, <1>9, <2>1, <2>3 DEF ZippingInv
<1>14. UnzippingInv'
  BY <1>2 DEF UnzippingInv
<1>15. runs' \in 0 .. MaxRuns
  BY <1>1, <1>2, <1>3
<1> QED
  BY <1>1, <1>2, <1>8, <1>10, <1>11, <1>12, <1>13, <1>14, <1>15 DEF ToolInv

(* One that works on a compressed file, which it changes.                  *)
LEMMA Rewritten ==
    ASSUME NEW f \in Files, ToolInv, orig[f] = Text(f), NEW z \in Zipped,
           dz' = [dz EXCEPT ![f] = z], UNCHANGED <<orig, runs>>,
           z.head = Header(f, z.head.table), Len(z.head.table) = Chunks(f), f \notin Texts,
           z.head.table = Zeros(f) \/ Packed(z.head.table, z.cells)
    PROVE  /\ orig' \in [Files -> Seq(Nat)] /\ (\A g \in Files : orig'[g] \in Seq(Bytes(g)))
           /\ dz' \in [Files -> {None} \cup Zipped] /\ dz'[f] = z /\ z # None /\ runs' \in 0 .. MaxRuns
           /\ (\A g \in Files : ZipInv(g)') /\ (\A g \in Files : orig'[g] = Text(g) \/ Complete(g)')
           /\ Table(f)' = z.head.table
<1>1. /\ orig \in [Files -> Seq(Nat)] /\ (\A g \in Files : orig[g] \in Seq(Bytes(g)))
      /\ dz \in [Files -> {None} \cup Zipped] /\ runs \in 0 .. MaxRuns
      /\ (\A g \in Files : ZipInv(g)) /\ (\A g \in Files : orig[g] = Text(g) \/ Complete(g))
  BY DEF ToolInv
<1>2. dz' \in [Files -> {None} \cup Zipped] /\ dz'[f] = z /\ \A g \in Files : g # f => dz'[g] = dz[g]
  BY <1>1
<1>3. z # None
  BY NoneIs
<1>4. Table(f)' = z.head.table
  BY <1>2 DEF Table
<1>5. ZipInv(f)'
  BY <1>2, <1>3, <1>4 DEF ZipInv, Headed
<1>6. \A g \in Files : ZipInv(g)'
  <2>1. \A g \in Files : g # f => ZipInv(g)' = ZipInv(g)
    BY <1>2, FileKept
  <2> QED
    BY <1>1, <1>5, <2>1
<1>7. \A g \in Files : orig'[g] = Text(g) \/ Complete(g)'
  <2>1. \A g \in Files : g # f => Complete(g)' = Complete(g)
    BY <1>2, FileKept
  <2> QED
    BY <1>1, <2>1
<1> QED
  BY <1>1, <1>2, <1>3, <1>4, <1>6, <1>7


LEMMA ToolIs ==
    ASSUME ToolInv
    PROVE  /\ tool.op \in {"zip", "table", "unlink"} =>
                  tool \in Zipping /\ tool.file \in Files /\ tool.file \notin Texts
                  /\ dz[tool.file] \in Zipped /\ Headed(tool.file) /\ tool.at \in Nat /\ tool.table \in Seq(Nat)
           /\ tool.op = "unzip" =>
                  tool \in Unzipping /\ tool.file \in Files /\ tool.file \notin Texts
                  /\ dz[tool.file] \in Zipped /\ tool.at \in Nat
           /\ tool.op \in {"idle", "zip", "table", "unlink", "unzip"}
<1>1. tool \in {Idle} \cup Zipping \cup Unzipping /\ dz \in [Files -> {None} \cup Zipped]
  BY DEF ToolInv
<1>2. /\ Idle.op = "idle"
      /\ \A t \in Zipping : t.op \in {"zip", "table", "unlink"} /\ t.file \in Files \ Texts /\ t.at \in Nat
                            /\ t.table \in Seq(Nat)
      /\ \A t \in Unzipping : t.op = "unzip" /\ t.file \in Files \ Texts /\ t.at \in Nat
  BY DEF Idle, Zipping, Unzipping
<1>3. ASSUME tool.op \in {"zip", "table", "unlink"}
      PROVE  tool \in Zipping /\ dz[tool.file] \in Zipped /\ Headed(tool.file)
  <2>1. tool \in Zipping
    BY <1>1, <1>2, <1>3
  <2>2. tool.file \in Files /\ dz[tool.file] # None
    BY <1>2, <1>3, <2>1 DEF ToolInv, ZippingInv
  <2>3. dz[tool.file] \in Zipped
    BY <1>1, <2>2
  <2>4. Headed(tool.file)
    BY <2>2 DEF ToolInv, ZipInv
  <2> QED
    BY <2>1, <2>3, <2>4
<1>4. ASSUME tool.op = "unzip"
      PROVE  tool \in Unzipping /\ dz[tool.file] \in Zipped
  <2>1. tool \in Unzipping
    BY <1>1, <1>2, <1>4
  <2>2. tool.file \in Files /\ dz[tool.file] # None
    BY <1>2, <1>4, <2>1 DEF ToolInv, UnzippingInv, Complete
  <2> QED
    BY <1>1, <2>1, <2>2
<1> QED
  BY <1>1, <1>2, <1>3, <1>4

LEMMA ZipChunkKeeps ==
    ASSUME ToolInv, ZipChunk
    PROVE  ToolInv'
<1>1. tool.op = "zip" /\ tool \in Zipping /\ tool.file \in Files /\ tool.at \in Nat
  BY ToolIs DEF ZipChunk
<1> PICK f \in Files, n \in Nat : f = tool.file /\ n = tool.at
  BY <1>1
<1> DEFINE x == SizeOf[f][n + 1]
           z == [dz[f] EXCEPT !.cells = @ \o Compressed(n, x)]
<1>2. tool.op = "zip" /\ n < Chunks(f) /\ orig' = orig /\ runs' = runs /\ UNCHANGED <<orig, runs>>
  BY DEF ZipChunk
<1>3. /\ tool \in Zipping /\ f \in Files /\ f \notin Texts /\ dz[f] \in Zipped /\ Headed(f)
      /\ n \in Nat /\ tool.table \in Seq(Nat)
  BY <1>2, ToolIs
<1>4. /\ orig[f] = Text(f) /\ Len(tool.table) = n /\ Packed(tool.table, dz[f].cells)
      /\ Table(f) = Zeros(f)
  BY <1>2 DEF ToolInv, ZippingInv
<1>5. x \in Nat \ {0}
  <2>1. Chunks(f) \in Nat /\ Word \in Nat /\ SizeOf[f] \in [1 .. Chunks(f) -> 1 .. Word - 1]
    BY <1>3, ChunksIs, Lengths
  <2>2. n + 1 \in 1 .. Chunks(f)
    BY <1>2, <1>3, <2>1
  <2>3. x \in 1 .. Word - 1
    BY <2>1, <2>2
  <2> QED
    BY <2>1, <2>3
<1>6. /\ dz[f].head \in Heads /\ dz[f].cells \in Seq(Cells)
      /\ dz[f].tail \in Int /\ dz[f].none \in {FALSE}
  BY <1>3 DEF Zipped
<1>7. tool' = [tool EXCEPT !.at = @ + 1, !.table = Append(@, x)]
  BY DEF ZipChunk
<1>8. dz' = [dz EXCEPT ![f] = z]
  BY DEF ZipChunk
<1>9. /\ dz[f].cells \o Compressed(n, x) \in Seq(Cells)
      /\ Packed(Append(tool.table, x), dz[f].cells \o Compressed(n, x))
  BY <1>3, <1>4, <1>5, <1>6, PackedMore
<1>10. /\ z \in Zipped /\ z.head = dz[f].head /\ z.tail = dz[f].tail
      /\ z.cells = dz[f].cells \o Compressed(n, x)
  BY <1>3, <1>6, <1>9 DEF Zipped
<1> HIDE DEF z
<1>11. z.head = Header(f, z.head.table) /\ Len(z.head.table) = Chunks(f) /\ z.head.table = Zeros(f)
  BY <1>3, <1>4, <1>10 DEF Headed, Table
<1> HIDE DEF x
<1>12. /\ tool'.op = "zip" /\ tool'.file = f /\ tool'.at = n + 1 /\ tool'.table = Append(tool.table, x)
       /\ tool' \in Zipping /\ Len(Append(tool.table, x)) = n + 1
  <2>1. Append(tool.table, x) \in Seq(Nat) /\ Len(Append(tool.table, x)) = n + 1
    BY <1>3, <1>4, <1>5
  <2>2. tool' = [op |-> "zip", file |-> f, at |-> n + 1, table |-> Append(tool.table, x)]
    BY <1>2, <1>3, <1>7 DEF Zipping
  <2> QED
    BY <1>3, <2>1, <2>2 DEF Zipping
<1>13. /\ orig' \in [Files -> Seq(Nat)] /\ (\A g \in Files : orig'[g] \in Seq(Bytes(g)))
       /\ dz' \in [Files -> {None} \cup Zipped] /\ dz'[f] = z /\ z # None /\ runs' \in 0 .. MaxRuns
       /\ (\A g \in Files : ZipInv(g)') /\ (\A g \in Files : orig'[g] = Text(g) \/ Complete(g)')
       /\ Table(f)' = z.head.table
  BY <1>2, <1>3, <1>4, <1>8, <1>10, <1>11, Rewritten
<1>14. ZippingInv'
  <2>1. orig'[f] = Text(f) /\ dz'[f] # None /\ Table(f)' = Zeros(f)
    BY <1>2, <1>4, <1>11, <1>13
  <2>2. Len(tool'.table) = tool'.at /\ tool'.at <= Chunks(f)
    <3>1. Chunks(f) \in Nat
      BY <1>3, ChunksIs
    <3> QED
      BY <1>2, <1>3, <1>12, <3>1
  <2>3. Packed(tool'.table, dz'[f].cells)
    BY <1>9, <1>10, <1>12, <1>13
  <2> QED
    BY <1>12, <2>1, <2>2, <2>3 DEF ZippingInv
<1>15. UnzippingInv'
  BY <1>12 DEF UnzippingInv
<1> QED
  BY <1>12, <1>13, <1>14, <1>15 DEF ToolInv


LEMMA ZipTailKeeps ==
    ASSUME ToolInv, ZipTail
    PROVE  ToolInv'
<1>1. tool.op = "zip" /\ tool \in Zipping /\ tool.file \in Files /\ tool.at \in Nat
  BY ToolIs DEF ZipTail
<1> PICK f \in Files : f = tool.file
  BY <1>1
<1> DEFINE z == [dz[f] EXCEPT !.tail = Len(orig[f])]
<1>2. /\ tool.op = "zip" /\ tool.at = Chunks(f) /\ orig' = orig /\ UNCHANGED <<orig, runs>>
      /\ tool' = [tool EXCEPT !.op = "table"] /\ dz' = [dz EXCEPT ![f] = z]
  BY DEF ZipTail
<1>3. /\ tool \in Zipping /\ f \notin Texts /\ dz[f] \in Zipped /\ Headed(f) /\ tool.table \in Seq(Nat)
  BY <1>2, ToolIs
<1>4. /\ orig[f] = Text(f) /\ Len(tool.table) = tool.at /\ Packed(tool.table, dz[f].cells)
      /\ Table(f) = Zeros(f)
  BY <1>2 DEF ToolInv, ZippingInv
<1>5. Len(orig[f]) = LengthOf[f] /\ LengthOf[f] \in Int /\ Chunks(f) \in Nat
  BY <1>4, TextIs, Lengths, ChunksIs
<1>6. z \in Zipped /\ z.head = dz[f].head /\ z.tail = LengthOf[f] /\ z.cells = dz[f].cells
  BY <1>3, <1>5 DEF Zipped
<1> HIDE DEF z
<1>7. z.head = Header(f, z.head.table) /\ Len(z.head.table) = Chunks(f) /\ z.head.table = Zeros(f)
  BY <1>3, <1>4, <1>6 DEF Headed, Table
<1>8. /\ tool'.op = "table" /\ tool'.file = f /\ tool'.at = Chunks(f) /\ tool'.table = tool.table
      /\ tool' \in Zipping
  BY <1>2, <1>3 DEF Zipping
<1>9. /\ orig' \in [Files -> Seq(Nat)] /\ (\A g \in Files : orig'[g] \in Seq(Bytes(g)))
      /\ dz' \in [Files -> {None} \cup Zipped] /\ dz'[f] = z /\ z # None /\ runs' \in 0 .. MaxRuns
      /\ (\A g \in Files : ZipInv(g)') /\ (\A g \in Files : orig'[g] = Text(g) \/ Complete(g)')
      /\ Table(f)' = z.head.table
  BY <1>2, <1>3, <1>4, <1>6, <1>7, Rewritten
<1>10. ZippingInv'
  <2>1. orig'[f] = Text(f) /\ dz'[f] # None /\ Table(f)' = Zeros(f)
    BY <1>2, <1>4, <1>7, <1>9
  <2>2. Len(tool'.table) = tool'.at /\ tool'.at <= Chunks(f)
    BY <1>2, <1>4, <1>5, <1>8
  <2>3. Packed(tool'.table, dz'[f].cells) /\ dz'[f].tail = LengthOf[f]
    BY <1>4, <1>6, <1>8, <1>9
  <2> QED
    BY <1>8, <2>1, <2>2, <2>3 DEF ZippingInv
<1>11. UnzippingInv'
  BY <1>8 DEF UnzippingInv
<1> QED
  BY <1>8, <1>9, <1>10, <1>11 DEF ToolInv

LEMMA ZipTableKeeps ==
    ASSUME ToolInv, ZipTable
    PROVE  ToolInv'
<1>1. tool.op = "table" /\ tool \in Zipping /\ tool.file \in Files /\ tool.at \in Nat
  BY ToolIs DEF ZipTable
<1> PICK f \in Files : f = tool.file
  BY <1>1
<1> DEFINE t == tool.table
           z == [dz[f] EXCEPT !.head = Header(f, t)]
<1>2. /\ tool.op = "table" /\ orig' = orig /\ UNCHANGED <<orig, runs>>
      /\ tool' = [tool EXCEPT !.op = "unlink"] /\ dz' = [dz EXCEPT ![f] = z]
  BY DEF ZipTable
<1>3. /\ tool \in Zipping /\ f \notin Texts /\ dz[f] \in Zipped /\ t \in Seq(Nat)
  BY <1>2, ToolIs
<1>4. /\ orig[f] = Text(f) /\ Len(t) = tool.at /\ Packed(t, dz[f].cells)
      /\ tool.at = Chunks(f) /\ dz[f].tail = LengthOf[f]
  BY <1>2 DEF ToolInv, ZippingInv
<1>5. Header(f, t) \in Heads /\ Header(f, t).table = t /\ Chunks(f) \in Nat
  BY <1>3, HeaderIs, ChunksIs
<1>6. z \in Zipped /\ z.head = Header(f, t) /\ z.tail = LengthOf[f] /\ z.cells = dz[f].cells
  BY <1>3, <1>4, <1>5 DEF Zipped
<1> HIDE DEF z
<1>7. z.head = Header(f, z.head.table) /\ Len(z.head.table) = Chunks(f) /\ z.head.table = t
  BY <1>4, <1>5, <1>6
<1>8. Packed(z.head.table, z.cells)
  BY <1>4, <1>6, <1>7
<1>9. /\ tool'.op = "unlink" /\ tool'.file = f /\ tool'.at = Chunks(f) /\ tool'.table = tool.table
      /\ tool' \in Zipping
  BY <1>2, <1>3, <1>4 DEF Zipping
<1> HIDE DEF t
<1>10. /\ orig' \in [Files -> Seq(Nat)] /\ (\A g \in Files : orig'[g] \in Seq(Bytes(g)))
      /\ dz' \in [Files -> {None} \cup Zipped] /\ dz'[f] = z /\ z # None /\ runs' \in 0 .. MaxRuns
      /\ (\A g \in Files : ZipInv(g)') /\ (\A g \in Files : orig'[g] = Text(g) \/ Complete(g)')
      /\ Table(f)' = z.head.table
  BY <1>2, <1>3, <1>4, <1>6, <1>7, <1>8, Rewritten
<1>11. ZippingInv'
  <2>1. orig'[f] = Text(f) /\ dz'[f] # None /\ Table(f)' = tool'.table
    BY <1>2, <1>4, <1>7, <1>9, <1>10 DEF t
  <2>2. Len(tool'.table) = tool'.at /\ tool'.at <= Chunks(f)
    BY <1>4, <1>5, <1>9 DEF t
  <2>3. Packed(tool'.table, dz'[f].cells) /\ dz'[f].tail = LengthOf[f]
    BY <1>4, <1>6, <1>9, <1>10 DEF t
  <2> QED
    BY <1>9, <2>1, <2>2, <2>3 DEF ZippingInv
<1>12. UnzippingInv'
  BY <1>9 DEF UnzippingInv
<1> QED
  BY <1>9, <1>10, <1>11, <1>12 DEF ToolInv

(* The tool has ended, or was killed.                                      *)
LEMMA IdleKeeps ==
    ASSUME ToolInv, tool' = Idle, UNCHANGED <<dz, runs>>,
           orig' \in [Files -> Seq(Nat)], \A g \in Files : orig'[g] \in Seq(Bytes(g)),
           \A g \in Files : orig'[g] = Text(g) \/ Complete(g)
    PROVE  ToolInv'
<1>1. dz \in [Files -> {None} \cup Zipped] /\ runs \in 0 .. MaxRuns /\ \A g \in Files : ZipInv(g)
  BY DEF ToolInv
<1>2. \A g \in Files : ZipInv(g)' = ZipInv(g) /\ Complete(g)' = Complete(g)
  <2>1. \A g \in Files : dz'[g] = dz[g]
    OBVIOUS
  <2> QED
    BY <2>1, FileKept
<1>3. tool'.op = "idle"
  BY DEF Idle
<1>4. ZippingInv' /\ UnzippingInv'
  BY <1>3 DEF ZippingInv, UnzippingInv
<1> QED
  BY <1>1, <1>2, <1>4 DEF ToolInv

LEMMA ZipUnlinksKeeps ==
    ASSUME ToolInv, ZipUnlinks
    PROVE  ToolInv'
<1>1. tool.op = "unlink" /\ tool \in Zipping /\ tool.file \in Files
  BY ToolIs DEF ZipUnlinks
<1> PICK f \in Files : f = tool.file
  BY <1>1
<1>2. /\ tool' = Idle /\ UNCHANGED <<dz, runs>>
      /\ orig' = [orig EXCEPT ![f] = <<>>] \/ orig' = orig
  BY DEF ZipUnlinks
<1>3. /\ orig \in [Files -> Seq(Nat)] /\ (\A g \in Files : orig[g] \in Seq(Bytes(g)))
      /\ (\A g \in Files : orig[g] = Text(g) \/ Complete(g))
  BY DEF ToolInv
<1>4. Complete(f)
  BY <1>1 DEF ToolInv, ZippingInv, Complete
<1>5. CASE orig' = orig
  BY <1>2, <1>3, <1>5, IdleKeeps
<1>6. CASE orig' = [orig EXCEPT ![f] = <<>>]
  <2>1. /\ orig' \in [Files -> Seq(Nat)] /\ orig'[f] = <<>>
        /\ \A g \in Files : g # f => orig'[g] = orig[g]
    BY <1>3, <1>6
  <2>2. <<>> \in Seq(Bytes(f))
    OBVIOUS
  <2>3. \A g \in Files : orig'[g] \in Seq(Bytes(g))
    BY <1>3, <2>1, <2>2
  <2>4. \A g \in Files : orig'[g] = Text(g) \/ Complete(g)
    BY <1>3, <1>4, <2>1
  <2> QED
    BY <1>2, <2>1, <2>3, <2>4, IdleKeeps
<1> QED
  BY <1>2, <1>5, <1>6

LEMMA ToolKilledKeeps ==
    ASSUME ToolInv, ToolKilled
    PROVE  ToolInv'
<1>1. /\ tool' = Idle /\ UNCHANGED <<dz, runs>> /\ orig' = orig
  BY DEF ToolKilled
<1>2. /\ orig \in [Files -> Seq(Nat)] /\ (\A g \in Files : orig[g] \in Seq(Bytes(g)))
      /\ (\A g \in Files : orig[g] = Text(g) \/ Complete(g))
  BY DEF ToolInv
<1> QED
  BY <1>1, <1>2, IdleKeeps


LEMMA UnzipStartsKeeps ==
    ASSUME NEW f \in Files, ToolInv, UnzipStarts(f)
    PROVE  ToolInv'
<1>1. /\ runs < MaxRuns /\ orig[f] = <<>> /\ tool' = [op |-> "unzip", file |-> f, at |-> 0]
      /\ runs' = runs + 1 /\ orig' = orig /\ dz' = dz
  BY DEF UnzipStarts
<1>2. /\ orig \in [Files -> Seq(Nat)] /\ (\A g \in Files : orig[g] \in Seq(Bytes(g)))
      /\ dz \in [Files -> {None} \cup Zipped] /\ runs \in 0 .. MaxRuns
      /\ (\A g \in Files : ZipInv(g)) /\ (\A g \in Files : orig[g] = Text(g) \/ Complete(g))
  BY DEF ToolInv
<1>3. Complete(f) /\ f \notin Texts
  <2>1. orig[f] # Text(f)
    BY <1>1, TextWhole
  <2>2. Complete(f)
    BY <1>2, <2>1
  <2> QED
    BY <1>2, <2>2 DEF Complete, ZipInv
<1>4. \A g \in Files : ZipInv(g)' = ZipInv(g) /\ Complete(g)' = Complete(g)
  <2>1. \A g \in Files : dz'[g] = dz[g]
    BY <1>1
  <2> QED
    BY <2>1, FileKept
<1>5. tool' \in Unzipping /\ tool'.op = "unzip" /\ tool'.file = f /\ tool'.at = 0
  BY <1>1, <1>3 DEF Unzipping
<1>6. runs' \in 0 .. MaxRuns
  <2>1. MaxRuns \in Nat
    BY Lengths
  <2> QED
    BY <1>1, <1>2, <2>1
<1>7. ZippingInv'
  BY <1>5 DEF ZippingInv
<1>8. UnzippingInv'
  <2>1. Complete(f)'
    BY <1>3, <1>4
  <2>2. Begun(f, 0)'
    <3>1. orig'[f] = SubSeq(Text(f), 1, 0)
      BY <1>1, TextWhole
    <3>2. 0 <= LengthOf[f]
      BY Lengths
    <3> QED
      BY <3>1, <3>2 DEF Begun
  <2>3. \E q \in Nat : 0 = q * ChunkLength
    <3>1. 0 \in Nat /\ 0 = 0 * ChunkLength
      BY Lengths
    <3> QED
      BY <3>1
  <2>4. Begun(tool.file, tool.at)'
    BY <1>5, <2>2 DEF Begun
  <2>5. Complete(tool.file)'
    BY <1>5, <2>1 DEF Complete, Table
  <2> QED
    BY <1>5, <2>3, <2>4, <2>5 DEF UnzippingInv
<1> QED
  BY <1>1, <1>2, <1>4, <1>5, <1>6, <1>7, <1>8 DEF ToolInv

LEMMA UnzipPartKeeps ==
    ASSUME ToolInv, UnzipPart
    PROVE  ToolInv'
<1>1. tool.op = "unzip" /\ tool \in Unzipping /\ tool.file \in Files /\ tool.at \in Nat
  BY ToolIs DEF UnzipPart
<1>2. PICK f \in Files, a \in Nat : f = tool.file /\ a = tool.at
  BY <1>1
<1> DEFINE d == ReadHeader(f)
           c == ChunkLength
           n == a \div c
           len == IF a + c >= LengthOf[f] THEN LengthOf[f] - a ELSE c
           text == ChunkText(f, n)
<1>3. dz[f] \in Zipped /\ f \notin Texts
  BY <1>1, <1>2, ToolIs
<1>4. Complete(f) /\ Begun(f, a) /\ (a = LengthOf[f] \/ \E q \in Nat : a = q * ChunkLength)
  BY <1>1, <1>2 DEF ToolInv, UnzippingInv
<1>5. dz[f].tail = LengthOf[f] /\ Packed(Table(f), dz[f].cells)
  BY <1>4 DEF Complete
<1>6. LengthOf[f] \in Nat \ {0} /\ c \in Nat \ {0} /\ Chunks(f) \in Nat
  BY Lengths, ChunksIs
<1>7. a < LengthOf[f]
  BY <1>2, <1>5 DEF UnzipPart
<1>8. PICK q \in Nat : a = q * c
  BY <1>4, <1>6, <1>7
<1>9. n \in Nat /\ n < Chunks(f) /\ Before(n) = a
  <2>1. q * c \in Nat /\ q * c <= a /\ a < q * c + c
    BY <1>6, <1>8
  <2>2. n = q
    BY <1>6, <2>1, DivisionOnly
  <2>3. q < Chunks(f)
    BY <1>7, <1>8, ChunksIs
  <2> QED
    BY <1>8, <2>2, <2>3 DEF Before
<1>10. d.chunkLength = c /\ InflateChunk(d, f, n) = text
  <2>1. ZipInv(f)
    BY DEF ToolInv
  <2>2. n \in 0 .. Chunks(f) - 1
    BY <1>6, <1>9
  <2> QED
    BY <1>3, <1>5, <2>1, <2>2, ReadHeaderIs
<1>11. /\ text # <<>> /\ Len(text) = len /\ text = SubSeq(Text(f), a + 1, a + len)
      /\ len \in Nat /\ a + len <= LengthOf[f] /\ len > 0
  <2> DEFINE b == IF a + c < LengthOf[f] THEN a + c ELSE LengthOf[f]
  <2>1. text # <<>> /\ Len(text) = b - a /\ text = SubSeq(Text(f), a + 1, b)
    <3> DEFINE m == n
    <3>1. m \in Nat /\ m < Chunks(f) /\ Before(m) = a
      BY <1>9
    <3> HIDE DEF m
    <3>2. LET e == IF Before(m) + c < LengthOf[f] THEN Before(m) + c ELSE LengthOf[f]
          IN  /\ ChunkText(f, m) # <<>> /\ Len(ChunkText(f, m)) = e - Before(m)
              /\ ChunkText(f, m) = SubSeq(Text(f), Before(m) + 1, e)
      BY <3>1, ChunkIs
    <3> QED
      BY <3>1, <3>2 DEF m
  <2>2. b - a = len /\ b = a + len /\ len \in Nat /\ a + len <= LengthOf[f] /\ len > 0
    BY <1>6, <1>7
  <2> QED
    BY <2>1, <2>2
<1>12. /\ orig' = [orig EXCEPT ![f] = @ \o SubSeq(text, 1, len)]
       /\ tool' = [tool EXCEPT !.at = @ + len]
       /\ dz' = dz /\ runs' = runs
  <2>1. len = IF tool.at + d.chunkLength >= dz[tool.file].tail
              THEN dz[tool.file].tail - tool.at ELSE d.chunkLength
    BY <1>2, <1>5, <1>10
  <2>2. text = InflateChunk(d, tool.file, tool.at \div d.chunkLength)
    BY <1>2, <1>10
  <2> HIDE DEF text, len, d
  <2> QED
    BY <1>2, <1>11, <2>1, <2>2 DEF UnzipPart, d
<1>13. SubSeq(text, 1, len) = SubSeq(Text(f), a + 1, a + len)
  <2> DEFINE z == 0
             b == a + len
  <2>1. /\ z \in Nat /\ z <= len /\ len <= b - a /\ b \in Nat /\ a <= b /\ b <= LengthOf[f] /\ len \in Nat
        /\ z + 1 = 1 /\ a + z + 1 = a + 1
    BY <1>11
  <2> HIDE DEF z, b, len, text
  <2>2. SubSeq(SubSeq(Text(f), a + 1, b), z + 1, len) = SubSeq(Text(f), a + z + 1, a + len)
    BY <2>1, PartOfPart
  <2> QED
    BY <1>11, <2>1, <2>2 DEF b
<1> HIDE DEF n, d, len, text
<1>14. /\ orig \in [Files -> Seq(Nat)] /\ (\A g \in Files : orig[g] \in Seq(Bytes(g)))
       /\ dz \in [Files -> {None} \cup Zipped] /\ runs \in 0 .. MaxRuns
       /\ (\A g \in Files : ZipInv(g)) /\ (\A g \in Files : orig[g] = Text(g) \/ Complete(g))
  BY DEF ToolInv
<1>15. orig'[f] = SubSeq(Text(f), 1, a + len)
  <2>1. orig'[f] = orig[f] \o SubSeq(text, 1, len)
    BY <1>12, <1>14
  <2>2. orig[f] = SubSeq(Text(f), 1, a)
    BY <1>4 DEF Begun
  <2> DEFINE z == 0
             e == a + len
  <2>3. z \in Nat /\ z <= a /\ e \in Nat /\ a <= e /\ e <= LengthOf[f]
    BY <1>11
  <2> HIDE DEF z, e
  <2>4. SubSeq(Text(f), z + 1, a) \o SubSeq(Text(f), a + 1, e) = SubSeq(Text(f), z + 1, e)
    BY <2>3, TextJoin
  <2>5. z + 1 = 1
    BY DEF z
  <2> QED
    BY <1>13, <2>1, <2>2, <2>4, <2>5 DEF e
<1>16. orig'[f] \in Seq(Bytes(f)) /\ orig'[f] \in Seq(Nat)
  <2> DEFINE z == 0
             e == a + len
  <2>1. z \in Nat /\ z <= e /\ e \in Nat /\ e <= LengthOf[f]
    BY <1>11
  <2> HIDE DEF z, e
  <2>2. SubSeq(Text(f), z + 1, e) \in Seq(Bytes(f))
    BY <2>1, PartIs
  <2>3. orig'[f] \in Seq(Bytes(f))
    BY <1>15, <2>2 DEF z, e
  <2>4. Bytes(f) \subseteq Nat
    BY <1>6 DEF Bytes
  <2> QED
    BY <2>3, <2>4, SeqMonotonic
<1>17. /\ orig' \in [Files -> Seq(Nat)] /\ (\A g \in Files : orig'[g] \in Seq(Bytes(g)))
       /\ \A g \in Files : g # f => orig'[g] = orig[g]
  <2>1. /\ \A g \in Files : g # f => orig'[g] = orig[g]
        /\ orig' = [g \in Files |-> orig'[g]]
    BY <1>12, <1>14
  <2>2. \A g \in Files : orig'[g] \in Seq(Nat) /\ orig'[g] \in Seq(Bytes(g))
    BY <1>14, <1>16, <2>1
  <2> QED
    BY <2>1, <2>2
<1>18. \A g \in Files : ZipInv(g)' = ZipInv(g) /\ Complete(g)' = Complete(g)
  <2>1. \A g \in Files : dz'[g] = dz[g]
    BY <1>12
  <2> QED
    BY <2>1, FileKept
<1>19. \A g \in Files : orig'[g] = Text(g) \/ Complete(g)'
  BY <1>4, <1>14, <1>17, <1>18
<1>20. tool' \in Unzipping /\ tool'.op = "unzip" /\ tool'.file = f /\ tool'.at = a + len
  <2>1. a + len \in Nat
    BY <1>11
  <2> QED
    BY <1>1, <1>2, <1>12, <2>1 DEF Unzipping
<1>21. ZippingInv'
  BY <1>20 DEF ZippingInv
<1>22. UnzippingInv'
  <2>1. Complete(tool.file)'
    BY <1>4, <1>18, <1>20 DEF Complete, Table
  <2>2. Begun(tool.file, tool.at)'
    BY <1>11, <1>15, <1>20 DEF Begun
  <2>3. a + len = LengthOf[f] \/ \E r \in Nat : a + len = r * ChunkLength
    <3>1. CASE a + c >= LengthOf[f]
      BY <1>6, <3>1 DEF len
    <3>2. CASE ~(a + c >= LengthOf[f])
      <4>1. a + len = (q + 1) * c /\ q + 1 \in Nat
        BY <1>6, <1>8, <3>2, Times DEF len
      <4> QED
        BY <4>1
    <3> QED
      BY <3>1, <3>2
  <2> QED
    BY <1>20, <2>1, <2>2, <2>3 DEF UnzippingInv
<1> QED
  BY <1>12, <1>14, <1>17, <1>18, <1>19, <1>20, <1>21, <1>22 DEF ToolInv

LEMMA UnzipUnlinksKeeps ==
    ASSUME ToolInv, UnzipUnlinks
    PROVE  ToolInv'
<1>1. tool.op = "unzip" /\ tool \in Unzipping /\ tool.file \in Files /\ tool.at \in Nat
  BY ToolIs DEF UnzipUnlinks
<1> PICK f \in Files : f = tool.file
  BY <1>1
<1>2. /\ tool' = Idle /\ orig' = orig /\ runs' = runs /\ tool.at >= dz[f].tail
      /\ dz' = [dz EXCEPT ![f] = None] \/ dz' = dz
  BY DEF UnzipUnlinks
<1>3. /\ orig \in [Files -> Seq(Nat)] /\ (\A g \in Files : orig[g] \in Seq(Bytes(g)))
      /\ dz \in [Files -> {None} \cup Zipped] /\ runs \in 0 .. MaxRuns
      /\ (\A g \in Files : ZipInv(g)) /\ (\A g \in Files : orig[g] = Text(g) \/ Complete(g))
  BY DEF ToolInv
<1>4. orig[f] = Text(f)
  <2>1. Complete(f) /\ Begun(f, tool.at)
    BY <1>1 DEF ToolInv, UnzippingInv
  <2>2. tool.at = LengthOf[f]
    BY <1>1, <1>2, <2>1, Lengths DEF Begun, Complete
  <2> QED
    BY <2>1, <2>2, TextWhole DEF Begun
<1>5. CASE dz' = dz
  BY <1>2, <1>3, <1>5, IdleKeeps
<1>6. CASE dz' = [dz EXCEPT ![f] = None]
  <2>1. dz' \in [Files -> {None} \cup Zipped] /\ dz'[f] = None /\ \A g \in Files : g # f => dz'[g] = dz[g]
    BY <1>3, <1>6
  <2>2. \A g \in Files : ZipInv(g)'
    <3>1. \A g \in Files : g # f => ZipInv(g)' = ZipInv(g)
      BY <2>1, FileKept
    <3>2. ZipInv(f)'
      BY <2>1 DEF ZipInv
    <3> QED
      BY <1>3, <3>1, <3>2
  <2>3. \A g \in Files : orig'[g] = Text(g) \/ Complete(g)'
    <3>1. \A g \in Files : g # f => Complete(g)' = Complete(g)
      BY <2>1, FileKept
    <3> QED
      BY <1>2, <1>3, <1>4, <3>1
  <2>4. tool'.op = "idle"
    BY <1>2 DEF Idle
  <2>5. ZippingInv' /\ UnzippingInv'
    BY <2>4 DEF ZippingInv, UnzippingInv
  <2> QED
    BY <1>2, <1>3, <2>1, <2>2, <2>3, <2>5 DEF ToolInv
<1> QED
  BY <1>2, <1>5, <1>6


LEMMA ToolStep ==
    ASSUME ToolInv, Tool
    PROVE  ToolInv' /\ UNCHANGED dictdVars
<1>1. ASSUME NEW f \in Files, ZipStarts(f) \/ UnzipStarts(f) PROVE ToolInv' /\ UNCHANGED dictdVars
  <2>1. ToolInv'
    BY <1>1, ZipStartsKeeps, UnzipStartsKeeps
  <2>2. UNCHANGED dictdVars
    BY <1>1 DEF ZipStarts, UnzipStarts
  <2> QED
    BY <2>1, <2>2
<1>2. CASE ZipChunk
  BY <1>2, ZipChunkKeeps DEF ZipChunk
<1>3. CASE ZipTail
  BY <1>3, ZipTailKeeps DEF ZipTail
<1>4. CASE ZipTable
  BY <1>4, ZipTableKeeps DEF ZipTable
<1>5. CASE ZipUnlinks
  BY <1>5, ZipUnlinksKeeps DEF ZipUnlinks
<1>6. CASE UnzipPart
  BY <1>6, UnzipPartKeeps DEF UnzipPart
<1>7. CASE UnzipUnlinks
  BY <1>7, UnzipUnlinksKeeps DEF UnzipUnlinks
<1>8. CASE ToolKilled
  BY <1>8, ToolKilledKeeps DEF ToolKilled
<1> QED
  BY <1>1, <1>2, <1>3, <1>4, <1>5, <1>6, <1>7, <1>8 DEF Tool

LEMMA ToolUnchanged ==
    ASSUME ToolInv, UNCHANGED toolVars
    PROVE  ToolInv'
<1>1. UNCHANGED <<orig, dz, tool, runs>>
  BY DEF toolVars
<1>2. \A g \in Files : ZipInv(g)' = ZipInv(g) /\ Complete(g)' = Complete(g)
  <2>1. \A g \in Files : dz'[g] = dz[g]
    BY <1>1
  <2> QED
    BY <2>1, FileKept
<1>3. ZippingInv' = ZippingInv /\ UnzippingInv' = UnzippingInv
  BY <1>1 DEF ZippingInv, UnzippingInv, Complete, Table, Begun
<1> QED
  BY <1>1, <1>2, <1>3 DEF ToolInv

-----------------------------------------------------------------------------
(* What dictd has open.                                                    *)
LEMMA HeaderOpens ==
    ASSUME NEW f \in Files, ToolInv, f \in Texts \/ dz[f] # None
    PROVE  Opened(f, ReadHeader(f)) /\ ReadHeader(f) \in OpenText \cup OpenZip
<1>1. CASE f \in Texts
  <2>1. ReadHeader(f) \in OpenText
    BY <1>1 DEF ReadHeader, OpenText
  <2> QED
    BY <1>1, <2>1 DEF Opened
<1>2. CASE f \notin Texts
  <2>1. dz[f] \in Zipped /\ ZipInv(f)
    BY <1>2 DEF ToolInv
  <2>2. /\ ReadHeader(f) \in OpenZip
        /\ Len(ReadHeader(f).offsets) = Len(ReadHeader(f).chunks)
        /\ \A n \in 0 .. Chunks(f) - 1 : InflateChunk(ReadHeader(f), f, n) \in {<<>>, ChunkText(f, n)}
    BY <1>2, <2>1, ReadHeaderIs
  <2> QED
    BY <1>2, <2>2 DEF Opened
<1> QED
  BY <1>1, <1>2

LEMMA OpenUnchanged ==
    ASSUME OpenInv, UNCHANGED data
    PROVE  OpenInv'
<1>1. \A f \in Files : data'[f] = data[f]
  OBVIOUS
<1> QED
  BY <1>1 DEF OpenInv

LEMMA OpenKeepsOpen ==
    ASSUME NEW f \in Files, ToolInv, OpenInv, Open(f) \/ CloseData(f)
    PROVE  OpenInv'
<1>1. data \in [Files -> {None} \cup OpenText \cup OpenZip] /\ \A g \in Files : data[g] # None => Opened(g, data[g])
  BY DEF OpenInv
<1>2. CASE Open(f)
  <2> DEFINE d == ReadHeader(f)
  <2>1. data' = [data EXCEPT ![f] = d] /\ (f \in Texts \/ dz[f] # None)
    BY <1>2 DEF Open
  <2>2. Opened(f, d) /\ d \in OpenText \cup OpenZip
    BY <2>1, HeaderOpens
  <2> HIDE DEF d
  <2>3. /\ data' \in [Files -> {None} \cup OpenText \cup OpenZip]
        /\ data'[f] = d /\ \A g \in Files : g # f => data'[g] = data[g]
    BY <1>1, <2>1, <2>2
  <2>4. \A g \in Files : data'[g] # None => Opened(g, data'[g])
    BY <1>1, <2>2, <2>3
  <2> QED
    BY <2>3, <2>4 DEF OpenInv, Opened
<1>3. CASE CloseData(f)
  <2>1. data' = [data EXCEPT ![f] = None]
    BY <1>3 DEF CloseData
  <2>2. /\ data' \in [Files -> {None} \cup OpenText \cup OpenZip]
        /\ data'[f] = None /\ \A g \in Files : g # f => data'[g] = data[g]
    BY <1>1, <2>1
  <2>3. \A g \in Files : data'[g] # None => Opened(g, data'[g])
    BY <1>1, <2>2
  <2> QED
    BY <2>2, <2>3 DEF OpenInv, Opened
<1> QED
  BY <1>2, <1>3

-----------------------------------------------------------------------------
(* An empty cache, and a cache that changes.                               *)
LEMMA EmptyIs ==
    ASSUME NEW f \in Files
    PROVE  SlotsInv(f, EmptyCache, 0) /\ Lru(EmptyCache, <<>>)
<1>1. /\ Slots \in Nat /\ Chunks(f) \in Nat
  BY Lengths, ChunksIs
<1>2. <<>> \in Seq(Nat) /\ Len(<<>>) = 0
  OBVIOUS
<1>3. \A s \in 1 .. Slots : /\ EmptyCache[s].chunk = -1 /\ EmptyCache[s].stamp = -1 /\ EmptyCache[s].text = <<>>
                            /\ EmptyCache[s] \in Slot
  <2> DEFINE e == <<>>
  <2>1. e \in Seq(Nat)
    OBVIOUS
  <2>2. \A s \in 1 .. Slots : EmptyCache[s] = [chunk |-> -1, stamp |-> -1, text |-> e]
    BY DEF EmptyCache
  <2> HIDE DEF e
  <2>3. \A s \in 1 .. Slots : EmptyCache[s].chunk = -1 /\ EmptyCache[s].stamp = -1 /\ EmptyCache[s].text = e
                              /\ EmptyCache[s] \in Slot
    BY <2>1, <2>2 DEF Slot
  <2> QED
    BY <2>3 DEF e
<1>4. EmptyCache \in [1 .. Slots -> Slot]
  BY <1>3 DEF EmptyCache
<1>5. Filled(EmptyCache) = {}
  BY <1>3 DEF Filled
<1>6. Cardinality({}) = 0
  BY FS_EmptySet
<1>7. SlotsInv(f, EmptyCache, 0)
  BY <1>1, <1>3, <1>4 DEF SlotsInv
<1>8. Lru(EmptyCache, <<>>)
  BY <1>2, <1>5, <1>6 DEF Lru
<1> QED
  BY <1>7, <1>8

LEMMA SlotsLater ==
    ASSUME NEW f \in Files, NEW c, NEW m \in Int, NEW n \in Int, m <= n, SlotsInv(f, c, m)
    PROVE  SlotsInv(f, c, n)
<1>1. \A s \in 1 .. Slots : c[s].stamp \in -1 .. n
  BY DEF SlotsInv
<1> QED
  BY <1>1, Zenon DEF SlotsInv

LEMMA CacheKept ==
    ASSUME CacheInv, stamp' \in stamp .. MaxStamp, UNCHANGED <<cache, recent>>
    PROVE  CacheInv'
<1>1. /\ cache \in [Files -> [1 .. Slots -> Slot]] /\ recent \in [Files -> Seq(Nat)] /\ stamp \in 0 .. MaxStamp
      /\ \A f \in Files : SlotsInv(f, cache[f], stamp) /\ Lru(cache[f], recent[f])
  BY DEF CacheInv
<1>2. stamp' \in 0 .. MaxStamp /\ stamp \in Int /\ stamp' \in Int /\ stamp <= stamp'
  BY <1>1
<1>3. \A f \in Files : SlotsInv(f, cache[f], stamp')
  BY <1>1, <1>2, SlotsLater
<1>4. \A f \in Files : SlotsInv(f, cache'[f], stamp') /\ Lru(cache'[f], recent'[f])
  BY <1>1, <1>3
<1> QED
  BY <1>1, <1>2, <1>4 DEF CacheInv, SlotsInv, Lru, Filled

LEMMA CacheChanged ==
    ASSUME CacheInv, NEW f \in Files, NEW c, NEW old,
           cache' = [cache EXCEPT ![f] = c], recent' = [recent EXCEPT ![f] = old],
           stamp' \in stamp .. MaxStamp, SlotsInv(f, c, stamp'), Lru(c, old)
    PROVE  CacheInv'
<1>1. /\ cache \in [Files -> [1 .. Slots -> Slot]] /\ recent \in [Files -> Seq(Nat)] /\ stamp \in 0 .. MaxStamp
      /\ \A g \in Files : SlotsInv(g, cache[g], stamp) /\ Lru(cache[g], recent[g])
  BY DEF CacheInv
<1>2. stamp' \in 0 .. MaxStamp /\ stamp \in Int /\ stamp' \in Int /\ stamp <= stamp'
  BY <1>1
<1>3. c \in [1 .. Slots -> Slot] /\ old \in Seq(Nat)
  BY DEF SlotsInv, Lru
<1>4. /\ cache' \in [Files -> [1 .. Slots -> Slot]] /\ recent' \in [Files -> Seq(Nat)]
      /\ cache'[f] = c /\ recent'[f] = old
      /\ \A g \in Files : g # f => cache'[g] = cache[g] /\ recent'[g] = recent[g]
  BY <1>1, <1>3
<1>5. \A g \in Files : SlotsInv(g, cache[g], stamp')
  BY <1>1, <1>2, SlotsLater
<1>6. \A g \in Files : SlotsInv(g, cache'[g], stamp') /\ Lru(cache'[g], recent'[g])
  BY <1>1, <1>4, <1>5
<1> QED
  BY <1>2, <1>4, <1>6 DEF CacheInv, SlotsInv, Lru, Filled

LEMMA OpenKeepsCache ==
    ASSUME NEW f \in Files, CacheInv, Open(f) \/ CloseData(f)
    PROVE  CacheInv'
<1>1. cache' = [cache EXCEPT ![f] = EmptyCache] /\ recent' = [recent EXCEPT ![f] = <<>>] /\ stamp' = stamp
  BY DEF Open, CloseData
<1>2. stamp \in 0 .. MaxStamp
  BY DEF CacheInv
<1>3. stamp' \in stamp .. MaxStamp /\ stamp' \in Int /\ 0 \in Int /\ 0 <= stamp'
  BY <1>1, <1>2, Lengths
<1>4. SlotsInv(f, EmptyCache, stamp') /\ Lru(EmptyCache, <<>>)
  BY <1>3, EmptyIs, SlotsLater
<1> QED
  BY <1>1, <1>3, <1>4, CacheChanged


-----------------------------------------------------------------------------
(* The chunks of a part of a file.                                         *)
LEMMA BeforeIs ==
    ASSUME NEW n \in Nat
    PROVE  Before(n) \in Nat /\ Before(n + 1) = Before(n) + ChunkLength /\ Before(0) = 0
  BY Times, DataAssumption DEF Before

LEMMA BeforeLess ==
    ASSUME NEW m \in Nat, NEW n \in Nat, m < n
    PROVE  Before(m) + ChunkLength <= Before(n)
  BY TimesLess, DataAssumption DEF Before

LEMMA QuotientIs ==
    ASSUME NEW a \in Nat
    PROVE  LET q == a \div ChunkLength
           IN  q \in Nat /\ Before(q) <= a /\ a < Before(q) + ChunkLength
  BY Division, DataAssumption DEF Before

LEMMA FirstIs ==
    ASSUME NEW s \in Nat
    PROVE  LET first == FirstChunk(s)
           IN  first \in Nat /\ Before(first) <= s /\ s < Before(first) + ChunkLength
  BY QuotientIs DEF FirstChunk

LEMMA LastIs ==
    ASSUME NEW s \in Nat, NEW z \in Nat, s + z >= 1
    PROVE  LET last == LastChunk(s, z)
           IN  /\ last \in Nat /\ FirstChunk(s) <= last
               /\ Before(last) <= s \/ Before(last) < s + z
               /\ Before(last) <= s + z /\ s + z <= Before(last) + ChunkLength
<1> DEFINE a == s + z - 1
           q == a \div ChunkLength
           p == FirstChunk(s)
           b == Before(p)
           e == Before(q)
           c == ChunkLength
<1>1. a \in Nat /\ a = s + z - 1 /\ c \in Nat
  BY DataAssumption
<1>2. LastChunk(s, z) = IF q < p THEN p ELSE q
  BY DEF LastChunk
<1> HIDE DEF a
<1>3. q \in Nat /\ e <= a /\ a < e + c
  BY <1>1, QuotientIs
<1>4. p \in Nat /\ b <= s /\ s < b + c
  BY FirstIs
<1> HIDE DEF p, q
<1>5. b \in Nat /\ e \in Nat
  BY <1>3, <1>4, BeforeIs
<1>6. CASE q < p
  <2>1. e + c <= b
    BY <1>3, <1>4, <1>6, BeforeLess
  <2>2. LastChunk(s, z) = p
    BY <1>2, <1>6
  <2> HIDE DEF b, e, c
  <2>3. b <= s + z /\ s + z <= b + c
    BY <1>1, <1>3, <1>4, <1>5, <2>1
  <2> QED
    BY <1>4, <2>2, <2>3 DEF b, c, p
<1>7. CASE ~(q < p)
  <2>1. LastChunk(s, z) = q /\ p <= q
    BY <1>2, <1>3, <1>4, <1>7
  <2> HIDE DEF b, e, c
  <2>2. e < s + z /\ e <= s + z /\ s + z <= e + c
    BY <1>1, <1>3, <1>5
  <2> QED
    BY <1>3, <2>1, <2>2 DEF e, c, p
<1> QED
  BY <1>6, <1>7

LEMMA ChunkInFile ==
    ASSUME NEW f \in Files, NEW s \in Nat, NEW z \in Nat, s < LengthOf[f], s + z \in 1 .. LengthOf[f],
           NEW n \in Nat, n <= LastChunk(s, z)
    PROVE  n < Chunks(f)
<1> DEFINE l == LastChunk(s, z)
           b == Before(n)
           e == Before(l)
<1>1. LengthOf[f] \in Nat /\ ChunkLength \in Nat /\ s + z >= 1 /\ s + z <= LengthOf[f]
  BY Lengths
<1>2. l \in Nat /\ (e <= s \/ e < s + z)
  BY <1>1, LastIs
<1>3. n = l \/ n < l
  BY <1>2
<1> HIDE DEF l
<1>4. b \in Nat /\ e \in Nat /\ (n = l => b = e) /\ (n < l => b + ChunkLength <= e)
  BY <1>2, BeforeIs, BeforeLess
<1>5. b < LengthOf[f]
  <2> HIDE DEF b, e
  <2> QED
    BY <1>1, <1>2, <1>3, <1>4
<1> QED
  BY <1>5, ChunksIs DEF Before

(* What a read of z bytes from s on copies of chunk n.                     *)
Copies(f, s, z, n, from, to) ==
    /\ s < LengthOf[f] /\ s + z \in 1 .. LengthOf[f]
    /\ FirstChunk(s) <= n /\ n <= LastChunk(s, z)
    /\ n = FirstChunk(s) => from = s - Before(n)
    /\ n # FirstChunk(s) => from = 0
    /\ n = LastChunk(s, z) => to = s + z - Before(n)
    /\ n # LastChunk(s, z) => to = ChunkLength
    /\ n < LastChunk(s, z) => Len(ChunkText(f, n)) = ChunkLength

(* The part of a chunk that is copied follows what was copied before.      *)
Follows(f, s, n, from, to) ==
    SubSeq(Text(f), s + 1, Before(n) + from) \o SubSeq(ChunkText(f, n), from + 1, to)
      = SubSeq(Text(f), s + 1, Before(n) + to)

LEMMA PartFollows ==
    ASSUME NEW f \in Files, NEW s \in Nat, NEW z \in Nat, NEW n \in Nat, NEW from, NEW to,
           Copies(f, s, z, n, from, to)
    PROVE  /\ from \in Nat /\ to \in Nat
           /\ s <= Before(n) + from /\ from <= to /\ Before(n) + to <= LengthOf[f]
           /\ Before(n) + to <= s + z
           /\ Follows(f, s, n, from, to)
<1> DEFINE p == FirstChunk(s)
           l == LastChunk(s, z)
           b == Before(n)
           c == ChunkLength
           L == LengthOf[f]
           e == IF b + c < L THEN b + c ELSE L
           t == ChunkText(f, n)
<1>1. /\ s < LengthOf[f] /\ s + z \in 1 .. LengthOf[f]
      /\ FirstChunk(s) <= n /\ n <= LastChunk(s, z)
  BY DEF Copies
<1>2. L \in Nat /\ c \in Nat /\ s < L /\ s + z >= 1 /\ s + z <= L
  BY <1>1, Lengths
<1>3. p \in Nat /\ Before(p) <= s /\ s < Before(p) + c
  BY FirstIs
<1>4. l \in Nat /\ p <= l /\ Before(l) <= s + z /\ s + z <= Before(l) + c
  BY <1>2, LastIs
<1>5. p <= n /\ n <= l
  BY <1>1
<1>6. n < Chunks(f)
  BY <1>1, ChunkInFile
<1>7. /\ b \in Nat /\ e \in Nat /\ b < e /\ e <= L /\ t = SubSeq(Text(f), b + 1, e) /\ Len(t) = e - b
  BY <1>6, ChunkIs
<1>8. (n < l => Len(t) = c) /\ e <= b + c /\ (e = L \/ e = b + c)
  <2>1. n < l => Len(t) = c
    BY DEF Copies
  <2>2. b \in Nat /\ c \in Nat /\ L \in Nat
    BY <1>2, <1>7
  <2> HIDE DEF b, c, L, t
  <2>3. e <= b + c /\ (e = L \/ e = b + c)
    BY <2>2
  <2> QED
    BY <2>1, <2>3
<1>9. from = (IF n = p THEN s - b ELSE 0) /\ to = IF n = l THEN s + z - b ELSE c
  BY DEF Copies
<1>10. /\ (n = p => b = Before(p)) /\ (p < n => Before(p) + c <= b)
      /\ (n = l => b = Before(l)) /\ (n < l => b + c <= Before(l))
      /\ Before(p) \in Nat /\ Before(l) \in Nat
  <2> HIDE DEF p, l
  <2> QED
    BY <1>3, <1>4, BeforeIs, BeforeLess
<1> DEFINE bp == Before(p)
           bl == Before(l)
<1> HIDE DEF p, l, b, c, L, e, t
<1> HIDE DEF bp, bl
<1>11. /\ (n = p => b = bp) /\ (p < n => bp + c <= b)
       /\ (n = l => b = bl) /\ (n < l => b + c <= bl) /\ bp \in Nat /\ bl \in Nat
       /\ bp <= s /\ s < bp + c /\ bl <= s + z /\ s + z <= bl + c
  BY <1>3, <1>4, <1>10 DEF bp, bl
<1>12. from \in Nat /\ s <= b + from /\ from <= c
  BY <1>2, <1>3, <1>5, <1>7, <1>9, <1>11
<1>13. to \in Nat /\ from <= to /\ to <= e - b /\ b + to <= s + z
  <2>1. CASE n = l
    <3>1. to = s + z - b /\ b <= s + z /\ s + z <= b + c
      BY <1>9, <1>11, <2>1
    <3>2. from <= to
      BY <1>2, <1>7, <1>9, <3>1
    <3>3. s + z <= e
      BY <1>2, <1>7, <1>8, <3>1
    <3> QED
      BY <1>2, <1>7, <3>1, <3>2, <3>3
  <2>2. CASE n # l
    <3>1. n < l
      BY <1>4, <1>5, <2>2
    <3>2. to = c /\ e - b = c /\ b + c <= bl /\ bl <= s + z
      BY <1>7, <1>8, <1>9, <1>11, <3>1, <2>2
    <3> QED
      BY <1>2, <1>7, <1>11, <1>12, <3>2
  <2> QED
    BY <2>1, <2>2
<1> DEFINE u == b + from
           v == b + to
<1>14. u \in Nat /\ v \in Nat /\ s <= u /\ u <= v /\ v <= L /\ b + to <= L
  BY <1>2, <1>7, <1>12, <1>13
<1>15. SubSeq(t, from + 1, to) = SubSeq(Text(f), u + 1, v)
  <2>1. b <= e /\ e <= LengthOf[f]
    BY <1>7 DEF L
  <2>2. SubSeq(SubSeq(Text(f), b + 1, e), from + 1, to) = SubSeq(Text(f), b + from + 1, b + to)
    BY <1>7, <1>12, <1>13, <2>1, PartOfPart
  <2> QED
    BY <1>7, <2>2
<1> HIDE DEF u, v
<1>16. SubSeq(Text(f), s + 1, u) \o SubSeq(Text(f), u + 1, v) = SubSeq(Text(f), s + 1, v)
  <2>1. v <= LengthOf[f]
    BY <1>14 DEF L
  <2> QED
    BY <1>14, <2>1, TextJoin
<1> QED
  BY <1>12, <1>13, <1>14, <1>15, <1>16 DEF b, L, t, u, v, Follows


-----------------------------------------------------------------------------
(* The slots of a cache.                                                   *)
LEMMA FilledIs ==
    ASSUME NEW c
    PROVE  /\ Slots \in Nat /\ IsFiniteSet(Filled(c)) /\ Cardinality(Filled(c)) \in Nat
           /\ Cardinality(Filled(c)) <= Slots
           /\ Cardinality(Filled(c)) = Slots => Filled(c) = 1 .. Slots
<1>1. Slots \in Nat \ {0}
  BY DataAssumption
<1>2. IsFiniteSet(1 .. Slots) /\ Cardinality(1 .. Slots) = Slots
  <2>1. 1 \in Int /\ Slots \in Int /\ ~(1 > Slots) /\ Slots - 1 + 1 = Slots
    BY <1>1
  <2> QED
    BY <2>1, FS_Interval
<1>3. Filled(c) \in SUBSET (1 .. Slots)
  BY DEF Filled
<1>4. IsFiniteSet(Filled(c)) /\ Cardinality(Filled(c)) <= Slots /\ (Slots = Cardinality(Filled(c)) => 1 .. Slots = Filled(c))
  BY <1>2, <1>3, FS_Subset
<1>5. Cardinality(Filled(c)) \in Nat
  BY <1>4, FS_CardinalityType
<1> QED
  BY <1>1, <1>4, <1>5

LEMMA TargetIs ==
    ASSUME NEW c \in [1 .. Slots -> Slot], NEW n, \A s \in 1 .. Slots : c[s].stamp >= -1
    PROVE  LET slot == Target(c, n)
           IN  /\ slot \in 1 .. Slots
               /\ c[slot].chunk = n \/ \A s \in 1 .. Slots : c[s].chunk # n
               /\ c[slot].chunk = n \/ \A s \in 1 .. Slots : c[slot].stamp <= c[s].stamp
<1> DEFINE holding == {s \in 1 .. Slots : c[s].chunk = n}
           oldest == {s \in 1 .. Slots : \A t \in 1 .. Slots : c[s].stamp <= c[t].stamp}
           W == IF holding # {} THEN holding ELSE oldest
           slot == CHOOSE s \in W : \A t \in W : s <= t
<1>1. Slots \in Nat \ {0} /\ \A s \in 1 .. Slots : c[s].stamp \in Int
  BY DataAssumption DEF Slot
<1>2. oldest # {}
  <2> DEFINE T == {c[s].stamp + 1 : s \in 1 .. Slots}
  <2>1. T \in SUBSET Nat /\ T # {}
    <3>1. 1 \in 1 .. Slots
      BY <1>1
    <3>2. \A s \in 1 .. Slots : c[s].stamp + 1 \in Nat
      BY <1>1
    <3> QED
      BY <3>1, <3>2
  <2>2. PICK i \in T : \A j \in T : i <= j
    BY <2>1, LeastNumber
  <2>3. PICK s \in 1 .. Slots : i = c[s].stamp + 1
    BY <2>2
  <2>4. ASSUME NEW t \in 1 .. Slots PROVE c[s].stamp <= c[t].stamp
    <3>1. c[t].stamp + 1 \in T
      OBVIOUS
    <3>2. c[s].stamp + 1 <= c[t].stamp + 1
      BY <2>2, <2>3, <3>1
    <3> QED
      BY <1>1, <3>2
  <2>5. s \in oldest
    BY <2>4
  <2> QED
    BY <2>5
<1>3. W # {} /\ W \in SUBSET Nat /\ W \subseteq 1 .. Slots
  <2>1. holding \subseteq 1 .. Slots /\ oldest \subseteq 1 .. Slots
    OBVIOUS
  <2> HIDE DEF holding, oldest
  <2>2. W \subseteq 1 .. Slots /\ W # {}
    BY <1>2, <2>1
  <2>3. 1 .. Slots \subseteq Nat
    BY <1>1
  <2> QED
    BY <2>2, <2>3
<1>4. slot \in W
  <2> HIDE DEF W
  <2>1. \E s \in W : \A t \in W : s <= t
    BY <1>3, LeastNumber
  <2> QED
    BY <2>1, Zenon
<1>5. Target(c, n) = slot
  BY Zenon DEF Target
<1> HIDE DEF slot
<1>6. slot \in 1 .. Slots
  BY <1>3, <1>4
<1>7. CASE holding # {}
  BY <1>4, <1>5, <1>6, <1>7
<1>8. CASE holding = {}
  <2>1. slot \in oldest
    BY <1>4, <1>8
  <2> QED
    BY <1>5, <1>6, <1>8, <2>1
<1> QED
  BY <1>7, <1>8

(* The chunks used last, when one is used again, or takes the place of the *)
(* last, or of nothing: p is the place it leaves.                          *)
Moves(c, now, old, n, slot, p, u) ==
    /\ \A s \in 1 .. Slots : c[s].stamp <= now
    /\ \/ p \in 1 .. Len(old) /\ Len(u) = Len(old) /\ c[slot].chunk = old[p]
       \/ p = Len(old) + 1 /\ Len(u) = Len(old) + 1 /\ c[slot].chunk = -1
    /\ \A k \in 1 .. Len(old) : k # p => old[k] # n
    /\ \A s \in 1 .. Slots : s # slot => c[s].chunk # n
    /\ \A k \in 1 .. Len(u) : u[k] = IF k = 1 THEN n ELSE IF k <= p THEN old[k - 1] ELSE old[k]

LEMMA LruUsed ==
    ASSUME NEW c \in [1 .. Slots -> Slot], NEW old, Lru(c, old), NEW n \in Nat, NEW now \in Int,
           NEW slot \in 1 .. Slots, NEW text, NEW p \in Nat, NEW u \in Seq(Nat),
           Moves(c, now, old, n, slot, p, u),
           NEW d, d = [c EXCEPT ![slot] = [chunk |-> n, stamp |-> now + 1, text |-> text]]
    PROVE  Lru(d, u)
<1> DEFINE m == Len(old)
<1>1. /\ \A s \in 1 .. Slots : c[s].stamp <= now
      /\ \/ p \in 1 .. m /\ Len(u) = m /\ c[slot].chunk = old[p]
         \/ p = m + 1 /\ Len(u) = m + 1 /\ c[slot].chunk = -1
      /\ \A k \in 1 .. m : k # p => old[k] # n
      /\ \A s \in 1 .. Slots : s # slot => c[s].chunk # n
      /\ \A k \in 1 .. Len(u) : u[k] = IF k = 1 THEN n ELSE IF k <= p THEN old[k - 1] ELSE old[k]
  BY DEF Moves
<1>2. /\ old \in Seq(Nat) /\ m \in Nat /\ \A k \in 1 .. m : old[k] \in Nat
      /\ \A i, j \in 1 .. m : old[i] = old[j] => i = j
      /\ Cardinality(Filled(c)) = m
      /\ \A k \in 1 .. m : \E s \in 1 .. Slots : c[s].chunk = old[k]
      /\ \A s \in Filled(c) : \E k \in 1 .. m : old[k] = c[s].chunk
      /\ \A s, t \in Filled(c) : c[s].chunk = c[t].chunk => s = t
      /\ \A s, t \in Filled(c) : \A i, j \in 1 .. m :
             c[s].chunk = old[i] /\ c[t].chunk = old[j] /\ i < j => c[s].stamp > c[t].stamp
  BY DEF Lru
<1>3. \A s \in 1 .. Slots : c[s].stamp \in Int /\ c[s].chunk \in Int
  BY DEF Slot
<1>4. /\ Len(u) \in Nat \ {0} /\ p \in 1 .. Len(u) /\ (p <= m => Len(u) = m) /\ (p = m + 1 \/ p <= m)
      /\ p \in 1 .. m => c[slot].chunk = old[p]
  <2>1. \/ p \in 1 .. m /\ Len(u) = m /\ c[slot].chunk = old[p]
        \/ p = m + 1 /\ Len(u) = m + 1 /\ c[slot].chunk = -1
    BY <1>1
  <2>2. m \in Nat
    BY <1>2
  <2> HIDE DEF m
  <2> QED
    BY <2>1, <2>2
<1> DEFINE J(k) == IF k <= p THEN k - 1 ELSE k
<1>5. \A k \in 2 .. Len(u) : J(k) \in 1 .. m /\ J(k) # p
  <2>1. m \in Nat /\ (Len(u) = m \/ (p = m + 1 /\ Len(u) = m + 1))
    BY <1>1, <1>2
  <2> HIDE DEF m
  <2> QED
    BY <1>4, <2>1
<1>6. \A i, k \in 2 .. Len(u) : i < k => J(i) < J(k)
  BY <1>4
<1>7. u[1] = n /\ \A k \in 2 .. Len(u) : u[k] = old[J(k)]
  <2>1. 1 \in 1 .. Len(u) /\ \A k \in 2 .. Len(u) : k \in 1 .. Len(u) /\ k # 1
    BY <1>4
  <2> QED
    BY <1>1, <2>1
<1>8. /\ d[slot].chunk = n /\ d[slot].stamp = now + 1
      /\ \A s \in 1 .. Slots : s # slot => d[s] = c[s]
  OBVIOUS
<1> HIDE DEF J
<1>9. \A k \in 1 .. m : k # p => old[k] # c[slot].chunk
  <2>1. ASSUME p \in 1 .. m, c[slot].chunk = old[p], NEW k \in 1 .. m, k # p PROVE old[k] # c[slot].chunk
    BY <1>2, <2>1
  <2>2. ASSUME c[slot].chunk = -1, NEW k \in 1 .. m PROVE old[k] # c[slot].chunk
    <3>1. old[k] \in Nat
      BY <1>2
    <3> QED
      BY <2>2, <3>1
  <2> QED
    BY <1>1, <2>1, <2>2, Zenon
<1>10. n # -1
  OBVIOUS
<1>11. Filled(d) = Filled(c) \cup {slot} /\ Filled(d) \subseteq 1 .. Slots
  BY <1>8, <1>10 DEF Filled
<1>12. \A i, j \in 1 .. Len(u) : u[i] = u[j] => i = j
  <2>1. ASSUME NEW i \in 1 .. Len(u), NEW j \in 1 .. Len(u), i < j, u[i] = u[j] PROVE FALSE
    <3>1. j \in 2 .. Len(u) /\ u[j] = old[J(j)] /\ J(j) \in 1 .. m /\ J(j) # p
      <4>1. j \in 2 .. Len(u)
        BY <1>4, <2>1
      <4> QED
        BY <1>5, <1>7, <4>1
    <3>2. CASE i = 1
      BY <1>1, <1>7, <2>1, <3>1, <3>2
    <3>3. CASE i # 1
      <4>1. i \in 2 .. Len(u)
        BY <3>3
      <4>2. u[i] = old[J(i)] /\ J(i) \in 1 .. m /\ J(i) < J(j)
        BY <1>5, <1>6, <1>7, <2>1, <3>1, <4>1
      <4> QED
        BY <1>2, <2>1, <3>1, <4>2
    <3> QED
      BY <3>2, <3>3
  <2> SUFFICES ASSUME NEW i \in 1 .. Len(u), NEW j \in 1 .. Len(u), u[i] = u[j] PROVE i = j
    OBVIOUS
  <2>2. i < j \/ j < i \/ i = j
    BY <1>4
  <2> QED
    BY <2>1, <2>2
<1>13. Cardinality(Filled(d)) = Len(u)
  <2>1. IsFiniteSet(Filled(c)) /\ Cardinality(Filled(c)) = m
    BY <1>2, FilledIs
  <2> DEFINE F == Filled(c)
  <2>2. Cardinality(Filled(c) \cup {slot}) = IF slot \in Filled(c) THEN m ELSE m + 1
    <3> HIDE DEF F
    <3>1. IsFiniteSet(F)
      BY <2>1 DEF F
    <3>2. Cardinality(F \cup {slot}) = IF slot \in F THEN Cardinality(F) ELSE Cardinality(F) + 1
      BY <3>1, FS_AddElement
    <3> QED
      BY <2>1, <3>2 DEF F
  <2>3. slot \in Filled(c) <=> c[slot].chunk # -1
    BY DEF Filled
  <2>4. CASE p \in 1 .. m /\ Len(u) = m /\ c[slot].chunk = old[p]
    <3>1. c[slot].chunk # -1
      BY <1>2, <2>4
    <3> QED
      BY <1>11, <2>2, <2>3, <2>4, <3>1
  <2>5. CASE p = m + 1 /\ Len(u) = m + 1 /\ c[slot].chunk = -1
    BY <1>11, <2>2, <2>3, <2>5
  <2> QED
    BY <1>1, <2>4, <2>5
<1>14. \A k \in 1 .. Len(u) : \E s \in 1 .. Slots : d[s].chunk = u[k]
  <2> SUFFICES ASSUME NEW k \in 1 .. Len(u) PROVE \E s \in 1 .. Slots : d[s].chunk = u[k]
    OBVIOUS
  <2>1. CASE k = 1
    BY <1>7, <1>8, <2>1
  <2>2. CASE k # 1
    <3>1. k \in 2 .. Len(u)
      BY <2>2
    <3>2. u[k] = old[J(k)] /\ J(k) \in 1 .. m /\ J(k) # p
      BY <1>5, <1>7, <3>1
    <3>3. PICK s \in 1 .. Slots : c[s].chunk = old[J(k)]
      BY <1>2, <3>2
    <3>4. s # slot
      BY <1>9, <3>2, <3>3
    <3> QED
      BY <1>8, <3>2, <3>3, <3>4
  <2> QED
    BY <2>1, <2>2
<1>15. \A s \in Filled(d) : s = slot \/ (s # slot /\ s \in Filled(c) /\ s \in 1 .. Slots /\ d[s] = c[s] /\ d[s].chunk # n)
  BY <1>1, <1>8, <1>11
<1>16. \A s \in Filled(d) : s # slot => \A k \in 1 .. m : old[k] = c[s].chunk => k # p
  <2> SUFFICES ASSUME NEW s \in Filled(d), s # slot, NEW k \in 1 .. m, old[k] = c[s].chunk, k = p PROVE FALSE
    OBVIOUS
  <2>1. s \in Filled(c) /\ p \in 1 .. m /\ c[slot].chunk = old[p]
    <3>1. s \in Filled(c)
      BY <1>15
    <3>2. p \in 1 .. m
      OBVIOUS
    <3> QED
      BY <1>4, <3>1, <3>2
  <2>2. c[slot].chunk # -1
    BY <1>2, <2>1
  <2>3. slot \in Filled(c)
    BY <2>2 DEF Filled
  <2> QED
    BY <1>2, <2>1, <2>3
<1>17. \A s \in Filled(d) : \E k \in 1 .. Len(u) : u[k] = d[s].chunk
  <2> SUFFICES ASSUME NEW s \in Filled(d) PROVE \E k \in 1 .. Len(u) : u[k] = d[s].chunk
    OBVIOUS
  <2>1. CASE s = slot
    BY <1>4, <1>7, <1>8, <2>1
  <2>2. CASE s # slot
    <3>1. s \in Filled(c) /\ d[s] = c[s]
      BY <1>15, <2>2
    <3>2. PICK k \in 1 .. m : old[k] = c[s].chunk
      BY <1>2, <3>1
    <3>3. k # p
      BY <1>16, <2>2, <3>2
    <3> DEFINE i == IF k < p THEN k + 1 ELSE k
    <3>4. i \in 2 .. Len(u) /\ J(i) = k
      <4>1. m \in Nat
        BY <1>2
      <4> HIDE DEF m
      <4> QED
        BY <1>4, <3>3, <4>1 DEF J
    <3> HIDE DEF i
    <3>5. u[i] = d[s].chunk /\ i \in 1 .. Len(u)
      <4>1. u[i] = old[J(i)]
        BY <1>7, <3>4
      <4>2. i \in 1 .. Len(u)
        BY <3>4
      <4> QED
        BY <3>1, <3>2, <3>4, <4>1, <4>2, Zenon
    <3> QED
      BY <3>5
  <2> QED
    BY <2>1, <2>2
<1>18. \A s, t \in Filled(d) : d[s].chunk = d[t].chunk => s = t
  <2> SUFFICES ASSUME NEW s \in Filled(d), NEW t \in Filled(d), d[s].chunk = d[t].chunk PROVE s = t
    OBVIOUS
  <2>1. CASE s = slot \/ t = slot
    BY <1>8, <1>15, <2>1
  <2>2. CASE s # slot /\ t # slot
    <3>1. s \in Filled(c) /\ t \in Filled(c) /\ d[s] = c[s] /\ d[t] = c[t]
      BY <1>15, <2>2
    <3> QED
      BY <1>2, <3>1
  <2> QED
    BY <2>1, <2>2
<1>19. \A s, t \in Filled(d) : \A i, j \in 1 .. Len(u) :
          d[s].chunk = u[i] /\ d[t].chunk = u[j] /\ i < j => d[s].stamp > d[t].stamp
  <2> SUFFICES ASSUME NEW s \in Filled(d), NEW t \in Filled(d), NEW i \in 1 .. Len(u), NEW j \in 1 .. Len(u),
                      d[s].chunk = u[i], d[t].chunk = u[j], i < j
               PROVE  d[s].stamp > d[t].stamp
    OBVIOUS
  <2>1. j \in 2 .. Len(u)
    BY <1>4
  <2>2. d[t].chunk = old[J(j)] /\ J(j) \in 1 .. m /\ d[t].chunk # n
    <3>1. 1 \in 1 .. Len(u) /\ j # 1
      BY <1>4, <2>1
    <3>2. u[j] # u[1]
      BY <1>12, <3>1
    <3> QED
      BY <1>5, <1>7, <2>1, <3>2
  <2>3. t # slot
    BY <1>8, <2>2
  <2>4. t \in Filled(c) /\ t \in 1 .. Slots /\ d[t] = c[t]
    BY <1>15, <2>3
  <2>5. CASE i = 1
    <3>1. s = slot
      BY <1>7, <1>15, <2>5
    <3>2. d[s].stamp = now + 1 /\ d[t].stamp <= now /\ d[t].stamp \in Int
      BY <1>1, <1>3, <1>8, <2>4, <3>1
    <3> QED
      BY <3>2
  <2>6. CASE i # 1
    <3>1. i \in 2 .. Len(u)
      BY <2>6
    <3>2. d[s].chunk = old[J(i)] /\ J(i) \in 1 .. m /\ J(i) < J(j)
      BY <1>5, <1>6, <1>7, <2>1, <3>1
    <3>3. s # slot
      <4>1. 1 \in 1 .. Len(u)
        BY <1>4
      <4>2. u[i] # u[1]
        BY <1>12, <2>6, <4>1
      <4> QED
        BY <1>7, <1>8, <4>2
    <3>4. s \in Filled(c) /\ d[s] = c[s]
      BY <1>15, <3>3
    <3> QED
      BY <1>2, <2>2, <2>4, <3>2, <3>4
  <2> QED
    BY <2>5, <2>6
<1> QED
  BY <1>12, <1>13, <1>14, <1>17, <1>18, <1>19, Zenon DEF Lru


LEMMA UsedIs ==
    ASSUME NEW old \in Seq(Nat), NEW n \in Nat, Len(old) <= Slots, NEW p \in Nat, NEW size \in Nat,
           \/ p \in 1 .. Len(old) /\ size = Len(old) /\ old[p] = n /\ \A k \in 1 .. Len(old) : old[k] = n => k = p
           \/ /\ p = IF Len(old) < Slots THEN Len(old) + 1 ELSE Slots
              /\ size = p /\ \A k \in 1 .. Len(old) : old[k] # n
    PROVE  /\ Used(old, n) \in Seq(Nat) /\ Len(Used(old, n)) = size
           /\ \A k \in 1 .. size :
                  Used(old, n)[k] = IF k = 1 THEN n ELSE IF k <= p THEN old[k - 1] ELSE old[k]
<1> DEFINE w == [k \in 1 .. size |-> IF k = 1 THEN n ELSE IF k <= p THEN old[k - 1] ELSE old[k]]
<1>1. Slots \in Nat \ {0} /\ Len(old) \in Nat /\ \A k \in 1 .. Len(old) : old[k] \in Nat
  BY DataAssumption
<1>2. ToSet(old) = {old[k] : k \in 1 .. Len(old)}
  BY DEF ToSet
<1>3. Used(old, n) = w
  <2>1. CASE p \in 1 .. Len(old) /\ size = Len(old) /\ old[p] = n /\ \A k \in 1 .. Len(old) : old[k] = n => k = p
    <3>1. n \in ToSet(old)
      BY <1>2, <2>1
    <3>2. (CHOOSE k \in 1 .. Len(old) : old[k] = n) = p
      BY <2>1
    <3> QED
      BY <2>1, <3>1, <3>2, Zenon DEF Used
  <2>2. CASE /\ p = IF Len(old) < Slots THEN Len(old) + 1 ELSE Slots
             /\ size = p /\ \A k \in 1 .. Len(old) : old[k] # n
    <3>1. n \notin ToSet(old)
      BY <1>2, <2>2
    <3> QED
      BY <2>2, <3>1, Zenon DEF Used
  <2> QED
    BY <2>1, <2>2
<1>4. /\ size <= Slots /\ size <= Len(old) + 1 /\ p <= Len(old) + 1
      /\ p <= size /\ (p < size => size <= Len(old))
  BY <1>1
<1>5. \A k \in 1 .. size : k # 1 => /\ k <= p => k - 1 \in 1 .. Len(old)
                                    /\ ~(k <= p) => k \in 1 .. Len(old)
  BY <1>1, <1>4
<1>6. w \in [1 .. size -> Nat]
  <2>1. \A k \in 1 .. size : (IF k = 1 THEN n ELSE IF k <= p THEN old[k - 1] ELSE old[k]) \in Nat
    BY <1>1, <1>5
  <2> QED
    BY <2>1
<1>7. \A k \in 1 .. size : w[k] = IF k = 1 THEN n ELSE IF k <= p THEN old[k - 1] ELSE old[k]
  OBVIOUS
<1> HIDE DEF w
<1>8. w \in Seq(Nat) /\ Len(w) = size
  BY <1>6, SeqOfLength
<1> QED
  BY <1>3, <1>7, <1>8

(* What reading a chunk makes of the cache.                                *)
LEMMA CacheUsed ==
    ASSUME NEW f \in Files, NEW c, NEW now \in Nat, SlotsInv(f, c, now), NEW old, Lru(c, old),
           NEW n \in Nat, n < Chunks(f)
    PROVE  LET slot == Target(c, n)
               d == [c EXCEPT ![slot] = [chunk |-> n, stamp |-> now + 1, text |-> ChunkText(f, n)]]
           IN  /\ slot \in 1 .. Slots
               /\ c[slot].chunk = n => c[slot].text = ChunkText(f, n)
               /\ SlotsInv(f, d, now + 1) /\ Lru(d, Used(old, n))
<1> DEFINE slot == Target(c, n)
           t == ChunkText(f, n)
           e == [chunk |-> n, stamp |-> now + 1, text |-> t]
           d == [c EXCEPT ![slot] = e]
           m == Len(old)
<1>1. /\ c \in [1 .. Slots -> Slot]
      /\ \A s \in 1 .. Slots : /\ c[s].chunk \in -1 .. Chunks(f) - 1 /\ c[s].stamp \in -1 .. now
                               /\ c[s].text = IF c[s].chunk = -1 THEN <<>> ELSE ChunkText(f, c[s].chunk)
                               /\ c[s].chunk = -1 <=> c[s].stamp = -1
  BY DEF SlotsInv
<1>2. \A s \in 1 .. Slots : c[s].stamp >= -1 /\ c[s].stamp <= now /\ c[s].stamp \in Int
  BY <1>1
<1>3. /\ slot \in 1 .. Slots
      /\ c[slot].chunk = n \/ \A s \in 1 .. Slots : c[s].chunk # n
      /\ c[slot].chunk = n \/ \A s \in 1 .. Slots : c[slot].stamp <= c[s].stamp
  BY <1>1, <1>2, TargetIs
<1> HIDE DEF slot
<1>4. Chunks(f) \in Nat
  BY ChunksIs
<1>5. c[slot].chunk = n => c[slot].text = t
  BY <1>1, <1>3
<1>6. t \in Seq(Nat)
  <2>1. t \in Seq(Bytes(f))
    BY ChunkIs
  <2>2. LengthOf[f] \in Nat
    BY Lengths
  <2>3. Bytes(f) \subseteq Nat
    BY <2>2 DEF Bytes
  <2> QED
    BY <2>1, <2>3, SeqMonotonic
<1> HIDE DEF t
<1>7. e \in Slot /\ e.chunk = n /\ e.stamp = now + 1 /\ e.text = t
  BY <1>6 DEF Slot
<1> HIDE DEF e
<1>8. d \in [1 .. Slots -> Slot] /\ d[slot] = e /\ \A s \in 1 .. Slots : s # slot => d[s] = c[s]
  BY <1>1, <1>3, <1>7
<1>9. SlotsInv(f, d, now + 1)
  <2>1. ASSUME NEW s \in 1 .. Slots, s # slot
        PROVE  /\ d[s].chunk \in -1 .. Chunks(f) - 1 /\ d[s].stamp \in -1 .. now + 1
               /\ d[s].text = IF d[s].chunk = -1 THEN <<>> ELSE ChunkText(f, d[s].chunk)
               /\ d[s].chunk = -1 <=> d[s].stamp = -1
    <3>1. d[s] = c[s]
      BY <1>8, <2>1
    <3>2. c[s].stamp \in -1 .. now + 1
      BY <1>1
    <3> HIDE DEF d
    <3> QED
      BY <1>1, <3>1, <3>2
  <2> HIDE DEF d
  <2>2. /\ d[slot].chunk \in -1 .. Chunks(f) - 1 /\ d[slot].stamp \in -1 .. now + 1
        /\ d[slot].text = IF d[slot].chunk = -1 THEN <<>> ELSE ChunkText(f, d[slot].chunk)
        /\ d[slot].chunk = -1 <=> d[slot].stamp = -1
    <3>1. n \in -1 .. Chunks(f) - 1 /\ now + 1 \in -1 .. now + 1 /\ n # -1 /\ now + 1 # -1
      BY <1>4
    <3>2. d[slot].chunk = n /\ d[slot].stamp = now + 1 /\ d[slot].text = t
      BY <1>7, <1>8
    <3> QED
      BY <3>1, <3>2 DEF t
  <2> QED
    BY <1>8, <2>1, <2>2, Zenon DEF SlotsInv
<1>10. /\ old \in Seq(Nat) /\ m \in Nat /\ \A k \in 1 .. m : old[k] \in Nat
       /\ \A i, j \in 1 .. m : old[i] = old[j] => i = j
       /\ Cardinality(Filled(c)) = m
       /\ \A k \in 1 .. m : \E s \in 1 .. Slots : c[s].chunk = old[k]
       /\ \A s \in Filled(c) : \E k \in 1 .. m : old[k] = c[s].chunk
       /\ \A s, r \in Filled(c) : c[s].chunk = c[r].chunk => s = r
       /\ \A s, r \in Filled(c) : \A i, j \in 1 .. m :
              c[s].chunk = old[i] /\ c[r].chunk = old[j] /\ i < j => c[s].stamp > c[r].stamp
  BY DEF Lru
<1>11. Slots \in Nat /\ m <= Slots /\ (m = Slots => Filled(c) = 1 .. Slots)
  BY <1>10, FilledIs
<1> DEFINE Place(p, size) ==
        /\ \/ p \in 1 .. m /\ size = m /\ c[slot].chunk = old[p]
           \/ p = m + 1 /\ size = m + 1 /\ c[slot].chunk = -1
        /\ \A k \in 1 .. m : k # p => old[k] # n
        /\ \A s \in 1 .. Slots : s # slot => c[s].chunk # n
        /\ \/ p \in 1 .. m /\ size = m /\ old[p] = n /\ \A k \in 1 .. m : old[k] = n => k = p
           \/ /\ p = IF m < Slots THEN m + 1 ELSE Slots
              /\ size = p /\ \A k \in 1 .. m : old[k] # n
<1>12. \E p, size \in Nat : Place(p, size)
  <2> HIDE DEF d
  <2>1. n # -1
    OBVIOUS
  <2>2. CASE c[slot].chunk = n
    <3>1. slot \in Filled(c)
      BY <1>3, <2>1, <2>2 DEF Filled
    <3>2. PICK p \in 1 .. m : old[p] = n
      BY <1>10, <2>2, <3>1
    <3>3. \A k \in 1 .. m : old[k] = n => k = p
      BY <1>10, <3>2
    <3>4. \A s \in 1 .. Slots : s # slot => c[s].chunk # n
      <4>1. \A s \in 1 .. Slots : c[s].chunk = n => s \in Filled(c)
        BY <2>1 DEF Filled
      <4> QED
        BY <1>10, <2>2, <3>1, <4>1
    <3>5. \A k \in 1 .. m : k # p => old[k] # n
      BY <3>3
    <3>6. p \in 1 .. m /\ m = m /\ c[slot].chunk = old[p] /\ p \in Nat
      BY <1>10, <2>2, <3>2
    <3>7. Place(p, m)
      BY <3>2, <3>3, <3>4, <3>5, <3>6, Zenon
    <3> QED
      BY <1>10, <3>6, <3>7
  <2>3. CASE c[slot].chunk # n
    <3>1. /\ \A s \in 1 .. Slots : c[s].chunk # n
          /\ \A s \in 1 .. Slots : c[slot].stamp <= c[s].stamp
      BY <1>3, <2>3
    <3>2. \A k \in 1 .. m : old[k] # n
      BY <1>10, <3>1
    <3>3. CASE m < Slots
      <4>1. PICK s \in 1 .. Slots : s \notin Filled(c)
        <5>1. Filled(c) # 1 .. Slots
          <6>1. Cardinality(1 .. Slots) = Slots
            <7>1. 1 \in Int /\ Slots \in Int /\ ~(1 > Slots) /\ Slots - 1 + 1 = Slots
              BY <1>10, <1>11, <3>3
            <7> QED
              BY <7>1, FS_Interval
          <6> QED
            BY <1>10, <3>3, <6>1
        <5> QED
          BY <5>1 DEF Filled
      <4>2. c[s].chunk = -1
        BY <4>1 DEF Filled
      <4>3. c[s].stamp = -1
        BY <1>1, <4>2
      <4>4. c[slot].stamp = -1
        BY <1>2, <1>3, <3>1, <4>3
      <4>5. c[slot].chunk = -1
        BY <1>1, <1>3, <4>4
      <4>6. m + 1 \in Nat /\ Place(m + 1, m + 1)
        BY <1>10, <3>1, <3>2, <3>3, <4>5
      <4> QED
        BY <4>6
    <3>4. CASE m = Slots
      <4>1. Filled(c) = 1 .. Slots
        BY <1>11, <3>4
      <4>2. PICK k \in 1 .. m : old[k] = c[slot].chunk
        BY <1>3, <1>10, <4>1
      <4>3. k = m
        <5> SUFFICES ASSUME k # m PROVE FALSE
          OBVIOUS
        <5>1. m \in 1 .. m /\ k < m
          BY <1>10
        <5>2. PICK s \in 1 .. Slots : c[s].chunk = old[m]
          BY <1>10, <5>1
        <5>3. c[slot].stamp > c[s].stamp
          <6>1. slot \in Filled(c) /\ s \in Filled(c)
            BY <1>3, <4>1
          <6> QED
            BY <1>10, <4>2, <5>1, <5>2, <6>1
        <5>4. c[slot].stamp <= c[s].stamp /\ c[slot].stamp \in Int /\ c[s].stamp \in Int
          BY <1>2, <1>3, <3>1
        <5> QED
          BY <5>3, <5>4
      <4>4. m \in 1 .. m /\ m = IF m < Slots THEN m + 1 ELSE Slots
        <5>1. m \in Nat /\ m >= 1
          BY <1>10
        <5> HIDE DEF m
        <5> QED
          BY <1>11, <3>4, <5>1
      <4>5. c[slot].chunk = old[m]
        BY <4>2, <4>3
      <4>6. Place(m, m)
        BY <3>1, <3>2, <4>4, <4>5, Zenon
      <4> QED
        BY <1>10, <4>6
    <3>5. m \in Nat /\ Slots \in Nat /\ m <= Slots
      BY <1>10, <1>11
    <3>6. m < Slots \/ m = Slots
      <4> HIDE DEF m
      <4> QED
        BY <3>5
    <3> QED
      BY <3>3, <3>4, <3>6, Zenon
  <2> QED
    BY <2>2, <2>3
<1>13. PICK p \in Nat, size \in Nat : Place(p, size)
  BY <1>12
<1> DEFINE u == Used(old, n)
<1>14. /\ u \in Seq(Nat) /\ Len(u) = size
       /\ \A k \in 1 .. size : u[k] = IF k = 1 THEN n ELSE IF k <= p THEN old[k - 1] ELSE old[k]
  <2>1. old \in Seq(Nat) /\ Len(old) <= Slots
    BY <1>10, <1>11
  <2>2. \/ /\ p \in 1 .. Len(old) /\ size = Len(old) /\ old[p] = n
           /\ \A k \in 1 .. Len(old) : old[k] = n => k = p
        \/ /\ p = IF Len(old) < Slots THEN Len(old) + 1 ELSE Slots
           /\ size = p /\ \A k \in 1 .. Len(old) : old[k] # n
    BY <1>13, Zenon
  <2> QED
    BY <2>1, <2>2, UsedIs
<1> HIDE DEF u
<1>15. Lru(d, u)
  <2>1. \A s \in 1 .. Slots : c[s].stamp <= now
    BY <1>2
  <2>2. \/ p \in 1 .. m /\ Len(u) = m /\ c[slot].chunk = old[p]
        \/ p = m + 1 /\ Len(u) = m + 1 /\ c[slot].chunk = -1
    BY <1>13, <1>14
  <2>3. /\ \A k \in 1 .. m : k # p => old[k] # n
        /\ \A s \in 1 .. Slots : s # slot => c[s].chunk # n
    BY <1>13
  <2>4. \A k \in 1 .. Len(u) : u[k] = IF k = 1 THEN n ELSE IF k <= p THEN old[k - 1] ELSE old[k]
    BY <1>14
  <2>5. u \in Seq(Nat) /\ now \in Int
    BY <1>14
  <2>6. d = [c EXCEPT ![slot] = [chunk |-> n, stamp |-> now + 1, text |-> t]]
    BY DEF e
  <2>7. Moves(c, now, old, n, slot, p, u)
    BY <2>1, <2>2, <2>3, <2>4, Zenon DEF Moves
  <2> HIDE DEF d, Place
  <2> QED
    BY <1>1, <1>3, <2>5, <2>6, <2>7, LruUsed
<1> QED
  BY <1>3, <1>5, <1>9, <1>15 DEF slot, u, d, e, t


-----------------------------------------------------------------------------
(* A read.                                                                 *)
LEMMA DictdUnchanged ==
    ASSUME OpenInv, CacheInv, ReadInv, UNCHANGED dictdVars
    PROVE  OpenInv' /\ CacheInv' /\ ReadInv'
<1>1. UNCHANGED <<data, cache, stamp, rd, recent>>
  BY DEF dictdVars
<1>2. OpenInv'
  BY <1>1, OpenUnchanged
<1>3. CacheInv'
  <2>1. stamp \in 0 .. MaxStamp
    BY DEF CacheInv
  <2>2. stamp' \in stamp .. MaxStamp
    BY <1>1, <2>1, DataAssumption
  <2> QED
    BY <1>1, <2>2, CacheKept
<1>4. ReadInv'
  BY <1>1 DEF ReadInv, Reading, Copied
<1> QED
  BY <1>2, <1>3, <1>4

LEMMA ReadIs ==
    ASSUME ReadInv, rd.op = "read"
    PROVE  /\ rd \in Reads /\ data[rd.file] # None /\ Reading(rd)
           /\ rd.file \in Files /\ rd.start \in Nat /\ rd.size \in Nat /\ rd.at \in Nat /\ rd.last \in Nat
           /\ rd.out \in Seq(Nat)
           /\ rd = [op |-> "read", file |-> rd.file, start |-> rd.start, size |-> rd.size, at |-> rd.at,
                    last |-> rd.last, out |-> rd.out]
<1>1. Idle.op = "idle" /\ Dead.op = "dead"
  BY DEF Idle, Dead
<1>2. rd \in Reads
  BY <1>1 DEF ReadInv
<1> QED
  BY <1>2 DEF ReadInv, Reads

LEMMA NotReading ==
    ASSUME rd' \in {Idle, Dead}
    PROVE  ReadInv'
<1>1. Idle.op = "idle" /\ Dead.op = "dead"
  BY DEF Idle, Dead
<1>2. rd'.op # "read"
  BY <1>1
<1> QED
  BY <1>2 DEF ReadInv

LEMMA OpenedIs ==
    ASSUME OpenInv, NEW f \in Files, data[f] # None
    PROVE  /\ Opened(f, data[f]) /\ data[f] \in OpenText \cup OpenZip
           /\ f \in Texts <=> data[f].type = "text"
<1>1. Opened(f, data[f]) /\ data[f] \in OpenText \cup OpenZip
  BY DEF OpenInv
<1>2. (\A d \in OpenText : d.type = "text") /\ (\A d \in OpenZip : d.type = "dzip")
  BY DEF OpenText, OpenZip
<1>3. f \in Texts => data[f] \in OpenText
  BY <1>1 DEF Opened
<1>4. f \notin Texts => data[f] \in OpenZip
  BY <1>1 DEF Opened
<1> QED
  BY <1>1, <1>2, <1>3, <1>4

LEMMA PartOfText ==
    ASSUME NEW f \in Files, NEW a \in Nat, NEW z \in Nat, a + z <= LengthOf[f]
    PROVE  SubSeq(Text(f), a + 1, a + z) \in Seq(Bytes(f)) /\ SubSeq(Text(f), a + 1, a + z) \in Seq(Nat)
<1> DEFINE b == a + z
<1>1. b \in Nat /\ a <= b /\ b <= LengthOf[f]
  OBVIOUS
<1> HIDE DEF b
<1>2. SubSeq(Text(f), a + 1, b) \in Seq(Bytes(f))
  BY <1>1, PartIs
<1>3. Bytes(f) \subseteq Nat
  <2>1. LengthOf[f] \in Nat
    BY Lengths
  <2> QED
    BY <2>1 DEF Bytes
<1>4. SubSeq(Text(f), a + 1, b) \in Seq(Nat)
  BY <1>2, <1>3, SeqMonotonic
<1> QED
  BY <1>2, <1>4 DEF b

LEMMA ReadStartsKeeps ==
    ASSUME OpenInv, NEW f \in Files, NEW start \in 0 .. LengthOf[f], NEW size \in 0 .. LengthOf[f],
           ReadStarts(f, start, size)
    PROVE  ReadInv'
<1>1. /\ data[f] # None /\ start < LengthOf[f] /\ start + size \in 1 .. LengthOf[f] /\ data' = data
      /\ LengthOf[f] \in Nat /\ start \in Nat /\ size \in Nat /\ start + size <= LengthOf[f]
  BY Lengths DEF ReadStarts
<1>2. CASE f \in Texts
  <2> DEFINE out == SubSeq(Text(f), start + 1, start + size)
             r == [op |-> "read", file |-> f, start |-> start, size |-> size, at |-> 1, last |-> 0, out |-> out]
  <2>1. rd' = r
    <3>1. data[f].type = "text"
      BY <1>1, <1>2, OpenedIs
    <3> QED
      BY <3>1 DEF ReadStarts
  <2>2. out \in Seq(Nat)
    BY <1>1, PartOfText
  <2> HIDE DEF out
  <2>3. r \in Reads
    BY <1>1, <2>2 DEF Reads
  <2>4. Copied(r) = size
    BY DEF Copied
  <2>5. Reading(r)
    <3>1. size \in 0 .. size
      BY <1>1
    <3> QED
      BY <1>1, <1>2, <2>4, <3>1 DEF Reading, out
  <2>6. r.file = f
    OBVIOUS
  <2> HIDE DEF r
  <2> QED
    BY <1>1, <2>1, <2>3, <2>5, <2>6 DEF ReadInv, Reading, Copied
<1>3. CASE f \notin Texts
  <2> DEFINE p == FirstChunk(start)
             l == LastChunk(start, size)
             r == [op |-> "read", file |-> f, start |-> start, size |-> size, at |-> p, last |-> l, out |-> <<>>]
  <2>1. rd' = r
    <3>1. data[f].type # "text"
      BY <1>1, <1>3, OpenedIs
    <3> QED
      BY <3>1 DEF ReadStarts
  <2>2. p \in Nat /\ l \in Nat /\ p <= l
    BY <1>1, FirstIs, LastIs
  <2>3. <<>> \in Seq(Nat) /\ SubSeq(Text(f), start + 1, start + 0) = <<>>
    BY <1>1
  <2>4. p \in p .. l + 1 /\ ~(p > l) /\ 0 \in 0 .. size
    BY <1>1, <2>2
  <2> HIDE DEF p, l
  <2>5. r \in Reads
    BY <1>1, <2>2, <2>3 DEF Reads
  <2>6. Copied(r) = 0
    BY <2>4 DEF Copied, p
  <2>7. Reading(r)
    BY <1>1, <1>3, <2>3, <2>4, <2>6 DEF Reading, p, l
  <2>8. r.file = f
    OBVIOUS
  <2> HIDE DEF r
  <2> QED
    BY <1>1, <2>1, <2>5, <2>7, <2>8 DEF ReadInv, Reading, Copied
<1> QED
  BY <1>2, <1>3


Read(f, s, z, n, l, out) ==
    [op |-> "read", file |-> f, start |-> s, size |-> z, at |-> n, last |-> l, out |-> out]

LEMMA ReadingGoesOn ==
    ASSUME NEW r \in Reads, Reading(r), r.at <= r.last
    PROVE  /\ r.file \notin Texts /\ r.at < Chunks(r.file)
           /\ Whole(r, ChunkText(r.file, r.at)) =>
                  LET q == [r EXCEPT !.out = @ \o Part(r, ChunkText(r.file, r.at)), !.at = @ + 1]
                  IN  q \in Reads /\ Reading(q) /\ q.file = r.file
<1>1. PICK f \in Files, s \in Nat, z \in Nat, n \in Nat, l \in Nat, out \in Seq(Nat) :
          /\ r.file = f /\ r.start = s /\ r.size = z /\ r.at = n /\ r.last = l /\ r.out = out
          /\ r = [op |-> "read", file |-> f, start |-> s, size |-> z, at |-> n, last |-> l, out |-> out]
  BY DEF Reads
<1>2. r = [op |-> "read", file |-> f, start |-> s, size |-> z, at |-> n, last |-> l, out |-> out]
  BY <1>1
<1>3. f \notin Texts
  <2>1. f \in Texts => n = 1 /\ l = 0
    BY <1>1 DEF Reading
  <2>2. n <= l
    BY <1>1
  <2> QED
    BY <2>1, <2>2
<1>4. l = LastChunk(s, z)
  BY <1>1, <1>3 DEF Reading
<1>5. /\ s < LengthOf[f] /\ s + z \in 1 .. LengthOf[f]
      /\ n \in FirstChunk(s) .. l + 1 /\ n <= l
      /\ Copied(r) \in 0 .. z /\ out = SubSeq(Text(f), s + 1, s + Copied(r))
  BY <1>1, <1>3 DEF Reading
<1> DEFINE p == FirstChunk(s)
           b == Before(n)
           c == ChunkLength
           t == ChunkText(f, n)
           from == IF n = p THEN s - b ELSE 0
           to == IF n = l THEN s + z - b ELSE c
<1>6. Copied(r) = IF n = p THEN 0 ELSE b - s
  <2>1. ~(n > l)
    BY <1>5
  <2> QED
    BY <1>1, <2>1 DEF Copied
<1>7. Part(r, t) = SubSeq(t, from + 1, to)
  <2>1. b = n * c
    BY DEF Before
  <2> HIDE DEF b, t
  <2> QED
    BY <1>1, <2>1 DEF Part
<1>8. n < Chunks(f) /\ b \in Nat /\ Before(n + 1) = b + c /\ p \in Nat /\ p <= n /\ c \in Nat /\ LengthOf[f] \in Nat
  <2>1. n <= LastChunk(s, z) /\ p \in Nat /\ p <= n
    <3>1. p \in Nat
      BY FirstIs
    <3> HIDE DEF p
    <3>2. n \in p .. l + 1 /\ n <= l
      BY <1>5 DEF p
    <3>3. p <= n
      BY <3>1, <3>2
    <3> QED
      BY <1>4, <3>1, <3>2, <3>3
  <2>2. n < Chunks(f)
    BY <1>5, <2>1, ChunkInFile
  <2> QED
    BY <2>1, <2>2, BeforeIs, Lengths
<1> HIDE DEF p
<1>9. ASSUME Whole(r, t)
      PROVE  /\ from \in Nat /\ to \in Nat
             /\ s <= b + from /\ from <= to /\ b + to <= LengthOf[f] /\ b + to <= s + z
             /\ SubSeq(Text(f), s + 1, b + from) \o SubSeq(t, from + 1, to) = SubSeq(Text(f), s + 1, b + to)
  <2>1. n < LastChunk(s, z) => Len(ChunkText(f, n)) = ChunkLength
    BY <1>1, <1>4, <1>9 DEF Whole
  <2>2. n <= LastChunk(s, z) /\ FirstChunk(s) <= n
    BY <1>5, <1>4, <1>8 DEF p
  <2>3. /\ n = FirstChunk(s) => from = s - Before(n)
        /\ n # FirstChunk(s) => from = 0
        /\ n = LastChunk(s, z) => to = s + z - Before(n)
        /\ n # LastChunk(s, z) => to = ChunkLength
    BY <1>4 DEF p
  <2>4. s < LengthOf[f] /\ s + z \in 1 .. LengthOf[f]
    BY <1>5
  <2> HIDE DEF from, to, t, b
  <2>5. /\ from \in Nat /\ to \in Nat
        /\ s <= Before(n) + from /\ from <= to /\ Before(n) + to <= LengthOf[f]
        /\ Before(n) + to <= s + z
        /\ Follows(f, s, n, from, to)
    <3>1. Copies(f, s, z, n, from, to)
      BY <2>1, <2>2, <2>3, <2>4 DEF Copies
    <3> QED
      BY <3>1, PartFollows
  <2> QED
    BY <2>5 DEF t, b, Follows
<1> DEFINE v == Part(r, t)
           o == out \o v
           q == [r EXCEPT !.out = @ \o v, !.at = @ + 1]
<1>10. ASSUME Whole(r, t) PROVE q \in Reads /\ Reading(q) /\ q.file = f
  <2>1. q = [op |-> "read", file |-> f, start |-> s, size |-> z, at |-> n + 1, last |-> l, out |-> o]
    <3> DEFINE a == Read(f, s, z, n, l, out)
               d == Read(f, s, z, n, l, o)
               m == n + 1
    <3>1. r.out = out /\ r.at = n /\ r = a
      BY <1>2, <1>1 DEF Read
    <3> HIDE DEF v
    <3>2. r.out \o v = o /\ r.at + 1 = m
      BY <3>1
    <3> HIDE DEF o, m
    <3>3. [a EXCEPT !.out = o] = d
      BY SMT DEF Read
    <3>4. [d EXCEPT !.at = m] = Read(f, s, z, m, l, o)
      BY SMT DEF Read
    <3> HIDE DEF a
    <3>5. q = [[a EXCEPT !.out = o] EXCEPT !.at = m]
      BY <3>1, <3>2, Zenon
    <3>6. q = Read(f, s, z, m, l, o)
      BY <3>3, <3>4, <3>5, Zenon
    <3> QED
      BY <3>6, Zenon DEF Read, m
  <2>2. /\ q.file = f /\ q.start = s /\ q.size = z /\ q.at = n + 1 /\ q.last = l /\ q.out = o
    BY <2>1
  <2>3. Copied(q) = IF n + 1 > l THEN z ELSE IF n + 1 = p THEN 0 ELSE b + c - s
    <3>1. Before(n + 1) = b + c /\ b \in Nat /\ c \in Nat
      BY <1>8
    <3> HIDE DEF q, b, c
    <3>2. Copied(q) = IF q.at > q.last THEN q.size
                      ELSE IF q.at = FirstChunk(q.start) THEN 0 ELSE Before(q.at) - q.start
      BY Zenon DEF Copied
    <3>3. Copied(q) = IF n + 1 > l THEN z ELSE IF n + 1 = FirstChunk(s) THEN 0 ELSE Before(n + 1) - s
      BY <2>2, <3>2, Zenon
    <3>4. CASE n + 1 > l
      BY <3>3, <3>4
    <3>5. CASE ~(n + 1 > l) /\ n + 1 = p
      BY <3>3, <3>5 DEF p
    <3>6. CASE ~(n + 1 > l) /\ n + 1 # p
      BY <1>8, <3>1, <3>3, <3>6 DEF p
    <3> QED
      BY <3>4, <3>5, <3>6
  <2>4. s + Copied(q) = b + to /\ Copied(q) \in 0 .. z
    <3>1. /\ b + to <= s + z /\ s <= b + from /\ from <= to /\ from \in Nat /\ to \in Nat
      BY <1>9, <1>10
    <3>2. n + 1 # p /\ (n + 1 > l <=> n = l)
      BY <1>5, <1>8
    <3> HIDE DEF q, from, b
    <3>3. s + Copied(q) = b + to
      BY <1>8, <2>3, <3>2
    <3>4. Copied(q) \in Int
      BY <1>8, <2>3
    <3> HIDE DEF to
    <3> QED
      BY <1>8, <3>1, <3>3, <3>4
  <2>5. s + Copied(r) = b + from
    BY <1>6, <1>8
  <2>6. o = SubSeq(Text(f), s + 1, b + to)
    <3>1. out = SubSeq(Text(f), s + 1, b + from)
      BY <1>5, <2>5
    <3> HIDE DEF from, to, b, t
    <3> QED
      BY <1>7, <1>9, <1>10, <3>1 DEF v
  <2>7. o = SubSeq(Text(f), s + 1, s + Copied(q))
    BY <2>4, <2>6
  <2> HIDE DEF from, to, b, t, v, q
  <2>8. o \in Seq(Nat)
    <3> DEFINE k == Copied(q)
    <3>1. k \in Nat /\ s + k <= LengthOf[f]
      <4>1. k \in 0 .. z
        BY <2>4
      <4>2. LengthOf[f] \in Nat /\ s + z <= LengthOf[f]
        BY <1>5, <1>8
      <4> HIDE DEF k
      <4> QED
        BY <4>1, <4>2
    <3> HIDE DEF k
    <3>2. SubSeq(Text(f), s + 1, s + k) \in Seq(Nat)
      BY <3>1, PartOfText
    <3> QED
      BY <2>7, <3>2 DEF k
  <2> HIDE DEF o, q
  <2>9. q \in Reads
    BY <2>1, <2>8 DEF Reads
  <2>10. n + 1 \in FirstChunk(s) .. l + 1
    BY <1>5, <1>8 DEF p
  <2>11. Reading(q)
    BY <1>3, <1>5, <1>4, <2>4, <2>7, <2>10, <2>2 DEF Reading
  <2> QED
    BY <2>9, <2>2, <2>11
<1> QED
  BY <1>1, <1>3, <1>8, <1>10 DEF t, q, v


LEMMA ReadChunkKeeps ==
    ASSUME DataInv, ReadChunk
    PROVE  OpenInv' /\ CacheInv' /\ ReadInv'
<1>1. OpenInv /\ CacheInv /\ ReadInv
  BY DEF DataInv
<1>2. rd.op = "read" /\ rd.at <= rd.last /\ stamp < MaxStamp /\ data' = data
  BY DEF ReadChunk
<1>3. rd \in Reads /\ data[rd.file] # None /\ Reading(rd) /\ rd.file \in Files /\ rd.at \in Nat
  BY <1>1, <1>2, ReadIs
<1>4. /\ rd.file \notin Texts /\ rd.at < Chunks(rd.file)
      /\ Whole(rd, ChunkText(rd.file, rd.at)) =>
             LET q == [rd EXCEPT !.out = @ \o Part(rd, ChunkText(rd.file, rd.at)), !.at = @ + 1]
             IN  q \in Reads /\ Reading(q) /\ q.file = rd.file
  BY <1>2, <1>3, ReadingGoesOn
<1>5. PICK f \in Files, n \in Nat : rd.file = f /\ rd.at = n
  BY <1>3
<1> DEFINE c == cache[f]
           old == recent[f]
           slot == Target(c, n)
           found == c[slot].chunk = n
           t == ChunkText(f, n)
           text == IF found THEN c[slot].text ELSE InflateChunk(data[f], f, n)
           now == stamp + 1
           d == [c EXCEPT ![slot] = [chunk |-> n, stamp |-> now, text |-> t]]
           q == [rd EXCEPT !.out = @ \o Part(rd, t), !.at = @ + 1]
<1>6. /\ f \notin Texts /\ n < Chunks(f) /\ data[f] # None
      /\ Whole(rd, t) => q \in Reads /\ Reading(q) /\ q.file = f
  BY <1>3, <1>4, <1>5
<1>7. stamp \in Nat /\ now \in stamp .. MaxStamp /\ stamp' = now
  <2>1. stamp \in 0 .. MaxStamp
    BY <1>1 DEF CacheInv
  <2>2. stamp' = stamp + 1
    BY DEF ReadChunk
  <2> QED
    BY <1>2, <2>1, <2>2, DataAssumption
<1>8. (found => c[slot].text = t) /\ SlotsInv(f, d, now) /\ Lru(d, Used(old, n))
  <2>1. SlotsInv(f, c, stamp) /\ Lru(c, old)
    BY <1>1 DEF CacheInv
  <2> QED
    BY <1>6, <1>7, <2>1, CacheUsed
<1>9. text \in {<<>>, t}
  <2>1. n \in 0 .. Chunks(f) - 1
    BY <1>6, ChunksIs
  <2>2. InflateChunk(data[f], f, n) \in {<<>>, t}
    BY <1>1, <1>6, <2>1, OpenedIs DEF Opened
  <2> QED
    BY <1>8, <2>2
<1>10. IF text = <<>> \/ ~Whole(rd, text)
       THEN rd' = Dead /\ UNCHANGED <<cache, recent>>
       ELSE /\ cache' = [cache EXCEPT ![f][slot] = [chunk |-> n, stamp |-> now, text |-> text]]
            /\ recent' = [recent EXCEPT ![f] = Used(old, n)]
            /\ rd' = [rd EXCEPT !.out = @ \o Part(rd, text), !.at = @ + 1]
  BY <1>5 DEF ReadChunk, Stamp
<1>11. OpenInv'
  BY <1>1, <1>2, OpenUnchanged
<1>12. CASE text = <<>> \/ ~Whole(rd, text)
  <2>1. rd' = Dead /\ UNCHANGED <<cache, recent>>
    BY <1>10, <1>12
  <2>2. CacheInv'
    BY <1>1, <1>7, <2>1, CacheKept
  <2>3. ReadInv'
    BY <2>1, NotReading
  <2> QED
    BY <1>11, <2>2, <2>3
<1>13. CASE ~(text = <<>> \/ ~Whole(rd, text))
  <2>1. text = t /\ Whole(rd, t)
    BY <1>9, <1>13
  <2>2. cache' = [cache EXCEPT ![f] = d] /\ recent' = [recent EXCEPT ![f] = Used(old, n)] /\ rd' = q
    BY <1>10, <1>13, <2>1
  <2>3. CacheInv'
    <3> HIDE DEF d, old, now
    <3> QED
      BY <1>1, <1>7, <1>8, <2>2, CacheChanged
  <2>4. q \in Reads /\ Reading(q) /\ q.file = f
    BY <1>6, <2>1
  <2> HIDE DEF q
  <2>5. ReadInv'
    BY <1>2, <1>6, <2>2, <2>4 DEF ReadInv, Reading, Copied
  <2> QED
    BY <1>11, <2>3, <2>5
<1> QED
  BY <1>12, <1>13

(* Each step of dictd.                                                     *)
LEMMA DictdStep ==
    ASSUME DataInv, Dictd
    PROVE  DataInv'
<1>1. ToolInv /\ OpenInv /\ CacheInv /\ ReadInv
  BY DEF DataInv
<1>2. UNCHANGED toolVars
  BY DEF Dictd, Open, CloseData, ReadStarts, ReadChunk, ReadEnds
<1>3. ToolInv'
  BY <1>1, <1>2, ToolUnchanged
<1>4. ASSUME NEW f \in Files, Open(f) \/ CloseData(f) PROVE OpenInv' /\ CacheInv' /\ ReadInv'
  <2>1. OpenInv' /\ CacheInv'
    BY <1>1, <1>4, OpenKeepsOpen, OpenKeepsCache
  <2>2. rd' = Idle
    BY <1>4 DEF Open, CloseData
  <2>3. ReadInv'
    BY <2>2, NotReading
  <2> QED
    BY <2>1, <2>3
<1>5. ASSUME NEW f \in Files, NEW start \in 0 .. LengthOf[f], NEW size \in 0 .. LengthOf[f],
             ReadStarts(f, start, size)
      PROVE  OpenInv' /\ CacheInv' /\ ReadInv'
  <2>1. UNCHANGED <<data, cache, stamp, recent>>
    BY <1>5 DEF ReadStarts
  <2>2. OpenInv' /\ ReadInv'
    BY <1>1, <1>5, <2>1, OpenUnchanged, ReadStartsKeeps
  <2>3. stamp' \in stamp .. MaxStamp
    BY <1>1, <2>1, DataAssumption DEF CacheInv
  <2> QED
    BY <1>1, <2>1, <2>2, <2>3, CacheKept
<1>6. ASSUME ReadChunk PROVE OpenInv' /\ CacheInv' /\ ReadInv'
  BY <1>6, ReadChunkKeeps
<1>7. ASSUME ReadEnds PROVE OpenInv' /\ CacheInv' /\ ReadInv'
  <2>1. UNCHANGED <<data, cache, stamp, recent>> /\ rd' = Idle
    BY <1>7 DEF ReadEnds
  <2>2. OpenInv' /\ ReadInv'
    BY <1>1, <2>1, OpenUnchanged, NotReading
  <2>3. stamp' \in stamp .. MaxStamp
    BY <1>1, <2>1, DataAssumption DEF CacheInv
  <2> QED
    BY <1>1, <2>1, <2>2, <2>3, CacheKept
<1>8. OpenInv' /\ CacheInv' /\ ReadInv'
  BY <1>4, <1>5, <1>6, <1>7 DEF Dictd
<1> QED
  BY <1>3, <1>8 DEF DataInv

-----------------------------------------------------------------------------
(* The invariant.                                                          *)
LEMMA DataInvInit ==
    ASSUME Init
    PROVE  DataInv
<1>1. \A f \in Files : Text(f) \in Seq(Nat) /\ Text(f) \in Seq(Bytes(f))
  BY TextIs
<1>2. ToolInv
  <2>1. orig \in [Files -> Seq(Nat)] /\ \A f \in Files : orig[f] \in Seq(Bytes(f)) /\ orig[f] = Text(f)
    BY <1>1 DEF Init
  <2>2. dz \in [Files -> {None} \cup Zipped] /\ \A f \in Files : dz[f] = None
    BY DEF Init
  <2>3. tool = Idle /\ tool.op = "idle"
    BY DEF Init, Idle
  <2>4. runs \in 0 .. MaxRuns
    BY DataAssumption DEF Init
  <2>5. ZippingInv /\ UnzippingInv
    BY <2>3 DEF ZippingInv, UnzippingInv
  <2>6. \A f \in Files : ZipInv(f)
    BY <2>2 DEF ZipInv
  <2> QED
    BY <2>1, <2>2, <2>3, <2>4, <2>5, <2>6 DEF ToolInv
<1>3. OpenInv
  <2>1. data \in [Files -> {None} \cup OpenText \cup OpenZip] /\ \A f \in Files : data[f] = None
    BY DEF Init
  <2> QED
    BY <2>1 DEF OpenInv
<1>4. CacheInv
  <2>1. \A f \in Files : /\ cache[f] = EmptyCache /\ recent[f] = <<>>
                         /\ SlotsInv(f, EmptyCache, 0) /\ Lru(EmptyCache, <<>>)
    BY EmptyIs DEF Init
  <2>2. cache = [f \in Files |-> EmptyCache] /\ recent = [f \in Files |-> <<>>] /\ stamp = 0
    BY DEF Init
  <2>3. \A f \in Files : EmptyCache \in [1 .. Slots -> Slot] /\ <<>> \in Seq(Nat)
    BY <2>1 DEF SlotsInv, Lru
  <2>4. cache \in [Files -> [1 .. Slots -> Slot]] /\ recent \in [Files -> Seq(Nat)]
    <3> HIDE DEF EmptyCache
    <3> QED
      BY <2>2, <2>3
  <2>5. stamp \in 0 .. MaxStamp
    BY <2>2, DataAssumption
  <2> QED
    BY <2>1, <2>2, <2>4, <2>5 DEF CacheInv
<1>5. ReadInv
  <2>1. rd = Idle /\ rd.op # "read"
    BY DEF Init, Idle
  <2> QED
    BY <2>1 DEF ReadInv
<1> QED
  BY <1>2, <1>3, <1>4, <1>5 DEF DataInv

LEMMA DataInvStep ==
    ASSUME DataInv, [Next]_vars
    PROVE  DataInv'
<1>1. CASE Tool
  <2>1. ToolInv' /\ UNCHANGED dictdVars
    BY <1>1, ToolStep DEF DataInv
  <2>2. OpenInv' /\ CacheInv' /\ ReadInv'
    BY <2>1, DictdUnchanged DEF DataInv
  <2> QED
    BY <2>1, <2>2 DEF DataInv
<1>2. CASE Dictd
  BY <1>2, DictdStep
<1>3. CASE UNCHANGED vars
  <2>1. UNCHANGED toolVars /\ UNCHANGED dictdVars
    BY <1>3 DEF vars
  <2>2. ToolInv' /\ OpenInv' /\ CacheInv' /\ ReadInv'
    BY <2>1, ToolUnchanged, DictdUnchanged DEF DataInv
  <2> QED
    BY <2>2 DEF DataInv
<1> QED
  BY <1>1, <1>2, <1>3 DEF Next

LEMMA DataInvAlways == Spec => []DataInv
<1>1. Init => DataInv
  BY DataInvInit
<1>2. DataInv /\ [Next]_vars => DataInv'
  BY DataInvStep
<1> QED
  BY <1>1, <1>2, PTL DEF Spec


-----------------------------------------------------------------------------
(* The chunks of a file, one after the other, are its text.                *)
End(f, n) == IF Before(n) + ChunkLength < LengthOf[f] THEN Before(n) + ChunkLength ELSE LengthOf[f]
Start(f, m) == SubSeq(Text(f), 1, m)

LEMMA StartJoin ==
    ASSUME NEW f \in Files, NEW b \in Nat, NEW c \in Nat, b <= c, c <= LengthOf[f]
    PROVE  Start(f, b) \o SubSeq(Text(f), b + 1, c) = Start(f, c)
<1> DEFINE a == 0
<1>1. a \in Nat /\ a <= b /\ a + 1 = 1
  OBVIOUS
<1> HIDE DEF a
<1>2. SubSeq(Text(f), a + 1, b) \o SubSeq(Text(f), b + 1, c) = SubSeq(Text(f), a + 1, c)
  BY <1>1, TextJoin
<1> QED
  BY <1>1, <1>2, Zenon DEF Start

LEMMA EndIs ==
    ASSUME NEW f \in Files, NEW n \in Nat, n < Chunks(f)
    PROVE  /\ End(f, n) \in Nat /\ End(f, n) <= LengthOf[f] /\ Before(n) <= End(f, n)
           /\ ChunkText(f, n) = SubSeq(Text(f), Before(n) + 1, End(f, n))
           /\ n + 1 < Chunks(f) => End(f, n) = Before(n + 1)
           /\ n + 1 = Chunks(f) => End(f, n) = LengthOf[f]
<1>1. /\ Before(n) \in Nat /\ End(f, n) \in Nat /\ Before(n) < End(f, n) /\ End(f, n) <= LengthOf[f]
      /\ ChunkText(f, n) = SubSeq(Text(f), Before(n) + 1, End(f, n))
  BY ChunkIs DEF End
<1>2. LengthOf[f] \in Nat /\ ChunkLength \in Nat /\ Chunks(f) \in Nat
  BY Lengths, ChunksIs
<1>3. n + 1 < Chunks(f) <=> Before(n + 1) < LengthOf[f]
  <2>1. n + 1 \in Nat
    OBVIOUS
  <2> QED
    BY <2>1, ChunksIs DEF Before
<1>4. Before(n + 1) = Before(n) + ChunkLength /\ Before(n + 1) \in Nat
  BY <1>1, <1>2, BeforeIs
<1>5. End(f, n) = IF n + 1 < Chunks(f) THEN Before(n + 1) ELSE LengthOf[f]
  BY <1>3, <1>4, Zenon DEF End
<1> QED
  BY <1>1, <1>2, <1>5

LEMMA ChunksJoin ==
    ASSUME NEW f \in Files
    PROVE  FlattenSeq([n \in 1 .. Chunks(f) |-> ChunkText(f, n - 1)]) = Text(f)
<1> DEFINE ss == [n \in 1 .. Chunks(f) |-> ChunkText(f, n - 1)]
           m == Chunks(f)
           flat == Flat(ss)
           N == {k \in Nat : k + 1 <= m => flat[k + 1] = Start(f, End(f, k))}
<1>1. m \in Nat \ {0}
  BY ChunksIs
<1>2. \A k \in 1 .. m : ChunkText(f, k - 1) \in Seq(Nat)
  <2>1. ASSUME NEW k \in 1 .. m PROVE ChunkText(f, k - 1) \in Seq(Nat)
    <3>1. k - 1 \in Nat /\ k - 1 < Chunks(f)
      BY <1>1
    <3>2. ChunkText(f, k - 1) \in Seq(Bytes(f))
      BY <3>1, ChunkIs
    <3>3. Bytes(f) \subseteq Nat
      BY Lengths DEF Bytes
    <3> QED
      BY <3>2, <3>3, SeqMonotonic
  <2> QED
    BY <2>1
<1>3. ss \in Seq(Seq(Nat)) /\ Len(ss) = m /\ \A k \in 1 .. m : ss[k] = ChunkText(f, k - 1)
  <2>1. m \in Nat /\ ss \in [1 .. m -> Seq(Nat)]
    BY <1>1, <1>2
  <2> HIDE DEF m
  <2>2. ss \in Seq(Seq(Nat)) /\ Len(ss) = m
    <3> HIDE DEF ss
    <3> QED
      BY <2>1, SeqOfLength
  <2> QED
    BY <2>2 DEF m
<1>4. Len(ss) # 0
  BY <1>1, <1>3
<1>5. FlattenSeq(ss) = flat[m]
  <2>1. FlattenSeq(ss) = flat[Len(ss)]
    <3> HIDE DEF ss
    <3> QED
      BY <1>4, Zenon DEF FlattenSeq, Flat
  <2> QED
    BY <1>3, <2>1
<1> HIDE DEF ss
<1>6. flat[1] = ss[1] /\ \A i \in 1 .. m : i # 1 => flat[i] = flat[i - 1] \o ss[i]
  BY <1>3, <1>4, FlatStep
<1> HIDE DEF flat, m
<1>7. 0 \in N
  <2>1. 0 \in Nat /\ 0 < Chunks(f) /\ 1 \in 1 .. m /\ 1 - 1 = 0 /\ 0 + 1 = 1
    BY <1>1 DEF m
  <2>2. ss[1] = ChunkText(f, 0)
    BY <1>3, <2>1
  <2>3. ChunkText(f, 0) = SubSeq(Text(f), Before(0) + 1, End(f, 0)) /\ Before(0) = 0
    BY <2>1, EndIs, BeforeIs
  <2>4. flat[0 + 1] = Start(f, End(f, 0))
    BY <1>6, <2>1, <2>2, <2>3, Zenon DEF Start
  <2> QED
    BY <2>4
<1>8. ASSUME NEW k \in Nat, k \in N PROVE k + 1 \in N
  <2>1. ASSUME (k + 1) + 1 <= m PROVE flat[(k + 1) + 1] = Start(f, End(f, k + 1))
    <3> DEFINE j == k + 1
    <3>1. /\ j \in Nat /\ j + 1 \in 1 .. m /\ j + 1 # 1 /\ (j + 1) - 1 = j
          /\ k < Chunks(f) /\ j < Chunks(f) /\ k + 1 < Chunks(f) /\ k + 1 <= m
      BY <1>1, <2>1 DEF m
    <3>2. flat[k + 1] = Start(f, End(f, k))
      BY <1>8, <3>1
    <3>3. End(f, k) = Before(j) /\ End(f, k) \in Nat
      BY <3>1, EndIs
    <3> HIDE DEF j
    <3>4. flat[j + 1] = flat[j] \o ChunkText(f, j)
      BY <1>3, <1>6, <3>1
    <3>5. /\ End(f, j) \in Nat /\ End(f, j) <= LengthOf[f] /\ Before(j) <= End(f, j)
          /\ ChunkText(f, j) = SubSeq(Text(f), Before(j) + 1, End(f, j))
      BY <3>1, EndIs
    <3>6. Start(f, Before(j)) \o SubSeq(Text(f), Before(j) + 1, End(f, j)) = Start(f, End(f, j))
      BY <3>3, <3>5, StartJoin
    <3>7. flat[j] = Start(f, Before(j))
      BY <3>2, <3>3 DEF j
    <3>8. flat[j + 1] = Start(f, End(f, j))
      BY <3>4, <3>5, <3>6, <3>7, Zenon
    <3> QED
      BY <3>8 DEF j
  <2> QED
    BY <2>1
<1>9. Nat \subseteq N
  <2> HIDE DEF N
  <2> QED
    BY <1>7, <1>8, AllNumbers
<1>10. flat[m] = Text(f)
  <2> DEFINE k == m - 1
  <2>1. k \in Nat /\ k + 1 = m /\ k < Chunks(f) /\ k + 1 = Chunks(f) /\ k + 1 <= m
    BY <1>1 DEF m
  <2> HIDE DEF k
  <2>2. flat[k + 1] = Start(f, End(f, k))
    BY <1>9, <2>1
  <2>3. End(f, k) = LengthOf[f]
    BY <2>1, EndIs
  <2>4. Start(f, LengthOf[f]) = Text(f)
    BY TextWhole DEF Start
  <2> QED
    BY <2>1, <2>2, <2>3, <2>4, Zenon
<1> QED
  BY <1>5, <1>10 DEF ss

LEMMA CompleteGivesBack ==
    ASSUME ToolInv, NEW f \in Files, Complete(f)
    PROVE  GivesBack(f)
<1>1. dz[f] \in Zipped /\ ZipInv(f) /\ dz[f] # None /\ f \notin Texts
  <2>1. dz[f] # None /\ dz[f] \in {None} \cup Zipped /\ ZipInv(f)
    BY DEF ToolInv, Complete
  <2> QED
    BY <2>1 DEF ZipInv
<1> DEFINE d == ReadHeader(f)
           m == Chunks(f)
<1>2. \A n \in 0 .. m - 1 : InflateChunk(d, f, n) = ChunkText(f, n)
  BY <1>1, ReadHeaderIs DEF Complete
<1> HIDE DEF d
<1>3. ASSUME NEW n \in 1 .. m PROVE InflateChunk(d, f, n - 1) = ChunkText(f, n - 1)
  <2>1. m \in Nat
    BY ChunksIs
  <2> HIDE DEF m
  <2>2. n - 1 \in 0 .. m - 1
    BY <2>1
  <2> QED
    BY <1>2, <2>2
<1>4. [n \in 1 .. m |-> InflateChunk(d, f, n - 1)] = [n \in 1 .. m |-> ChunkText(f, n - 1)]
  BY <1>3, Zenon
<1>5. FlattenSeq([n \in 1 .. m |-> InflateChunk(d, f, n - 1)]) = Text(f)
  BY <1>4, ChunksJoin, Zenon
<1> QED
  BY <1>1, <1>5 DEF GivesBack, Complete, d

-----------------------------------------------------------------------------
(* dict_data_read_ returns what an entry of the index asks for, whatever   *)
(* the length of the file and of its chunks, wherever the part begins and  *)
(* ends in them, and whatever is in the cache.                             *)
THEOREM ReadsStayExact == Spec => []ReadsExact
<1>1. DataInv => ReadsExact
  <2> SUFFICES ASSUME DataInv, rd.op = "read", rd.at > rd.last
               PROVE  rd.out = SubSeq(Text(rd.file), rd.start + 1, rd.start + rd.size)
    BY DEF ReadsExact
  <2>1. Reading(rd)
    BY ReadIs DEF DataInv
  <2>2. Copied(rd) = rd.size
    BY DEF Copied
  <2> QED
    BY <2>1, <2>2 DEF Reading
<1> QED
  BY <1>1, DataInvAlways, PTL

(* Whenever dictzip or dictunzip is killed, what was in the file is there, *)
(* or in a compressed file whose chunks, where dict_read_header finds      *)
(* them, are the file: dictzip.c removes neither before the other is whole.*)
THEOREM NothingIsLost == Spec => []NothingLost
<1>1. DataInv => NothingLost
  <2> SUFFICES ASSUME DataInv, NEW f \in Files PROVE orig[f] = Text(f) \/ GivesBack(f)
    BY DEF NothingLost
  <2>1. ToolInv
    BY DEF DataInv
  <2>2. orig[f] = Text(f) \/ Complete(f)
    BY <2>1 DEF ToolInv
  <2> QED
    BY <2>1, <2>2, CompleteGivesBack
<1> QED
  BY <1>1, DataInvAlways, PTL

LEMMA OldIsOfFile ==
    ASSUME NEW f \in Files, NEW c, NEW now, SlotsInv(f, c, now), NEW old, Lru(c, old)
    PROVE  /\ old \in Seq(0 .. Chunks(f) - 1)
           /\ {c[s].chunk : s \in 1 .. Slots} \ {-1} = ToSet(old)
<1>1. /\ old \in Seq(Nat)
      /\ \A k \in 1 .. Len(old) : \E s \in 1 .. Slots : c[s].chunk = old[k]
      /\ \A s \in Filled(c) : \E k \in 1 .. Len(old) : old[k] = c[s].chunk
  BY DEF Lru
<1>2. \A s \in 1 .. Slots : c[s].chunk \in -1 .. Chunks(f) - 1
  BY DEF SlotsInv
<1>3. Chunks(f) \in Nat
  BY ChunksIs
<1>4. Len(old) \in Nat /\ \A k \in 1 .. Len(old) : old[k] \in Nat
  BY <1>1
<1>5. ASSUME NEW k \in 1 .. Len(old) PROVE old[k] \in 0 .. Chunks(f) - 1
  <2>1. PICK s \in 1 .. Slots : c[s].chunk = old[k]
    BY <1>1
  <2>2. old[k] \in -1 .. Chunks(f) - 1 /\ old[k] \in Nat
    BY <1>2, <1>4, <2>1
  <2> QED
    BY <1>3, <2>2
<1>6. old \in Seq(0 .. Chunks(f) - 1)
  <2>1. old = [k \in 1 .. Len(old) |-> old[k]]
    BY <1>1
  <2>2. old \in [1 .. Len(old) -> 0 .. Chunks(f) - 1]
    BY <1>5, <2>1
  <2> QED
    BY <1>4, <2>2, SeqOfLength
<1>7. ToSet(old) = {old[k] : k \in 1 .. Len(old)}
  BY <1>1 DEF ToSet
<1>8. ASSUME NEW s \in 1 .. Slots, c[s].chunk # -1 PROVE \E k \in 1 .. Len(old) : old[k] = c[s].chunk
  <2>1. s \in Filled(c)
    BY <1>8 DEF Filled
  <2> QED
    BY <1>1, <2>1
<1>9. \A k \in 1 .. Len(old) : old[k] # -1
  BY <1>4
<1>10. ASSUME NEW x PROVE x \in {c[s].chunk : s \in 1 .. Slots} \ {-1} <=> x \in {old[k] : k \in 1 .. Len(old)}
  <2>1. ASSUME NEW s \in 1 .. Slots, x = c[s].chunk, x # -1 PROVE \E k \in 1 .. Len(old) : x = old[k]
    BY <1>8, <2>1
  <2>2. ASSUME NEW k \in 1 .. Len(old), x = old[k] PROVE x # -1 /\ \E s \in 1 .. Slots : x = c[s].chunk
    BY <1>1, <1>9, <2>2
  <2> QED
    BY <2>1, <2>2
<1> QED
  BY <1>6, <1>7, <1>10

LEMMA TypesAre ==
    ASSUME DataInv
    PROVE  TypeOK
<1>1. ToolInv /\ OpenInv /\ CacheInv /\ ReadInv
  BY DEF DataInv
<1>2. orig \in [Files -> Seq(Nat)] /\ (\A f \in Files : orig[f] \in Seq(Bytes(f))) /\ runs \in 0 .. MaxRuns
  BY <1>1 DEF ToolInv
<1>3. tool.op \in {"idle", "zip", "table", "unlink", "unzip"}
  BY <1>1 DEF ToolInv, Idle, Zipping, Unzipping
<1>4. stamp \in 0 .. MaxStamp
  BY <1>1 DEF CacheInv
<1>5. rd.op \in {"idle", "read", "dead"}
  BY <1>1 DEF ReadInv, Idle, Dead, Reads
<1>6. ASSUME rd.op = "read"
      PROVE  /\ rd.file \in Files
             /\ rd.out \in Seq(Bytes(rd.file))
             /\ rd.last < Chunks(rd.file)
             /\ rd.at <= rd.last + 1
  <2>1. /\ Reading(rd) /\ rd.file \in Files /\ rd.start \in Nat /\ rd.size \in Nat /\ rd.at \in Nat
        /\ rd.last \in Nat
    BY <1>1, <1>6, ReadIs
  <2>2. PICK f \in Files, s \in Nat, z \in Nat, n \in Nat, l \in Nat :
           rd.file = f /\ rd.start = s /\ rd.size = z /\ rd.at = n /\ rd.last = l
    BY <2>1
  <2>3. PICK k \in 0 .. z : k = Copied(rd) /\ rd.out = SubSeq(Text(f), s + 1, s + k)
    BY <2>1, <2>2 DEF Reading
  <2>4. s < LengthOf[f] /\ s + z \in 1 .. LengthOf[f]
    BY <2>1, <2>2 DEF Reading
  <2>5. rd.out \in Seq(Bytes(f))
    <3>1. k \in Nat /\ s + k <= LengthOf[f]
      BY <2>4, Lengths
    <3>2. SubSeq(Text(f), s + 1, s + k) \in Seq(Bytes(f))
      BY <3>1, PartOfText
    <3> QED
      BY <2>3, <3>2
  <2>6. l < Chunks(f) /\ n <= l + 1
    <3>1. CASE f \in Texts
      <4>1. n = 1 /\ l = 0
        BY <2>1, <2>2, <3>1 DEF Reading
      <4> QED
        BY <4>1, ChunksIs
    <3>2. CASE f \notin Texts
      <4>1. l = LastChunk(s, z) /\ n \in FirstChunk(s) .. l + 1
        BY <2>1, <2>2, <3>2 DEF Reading
      <4>2. n <= l + 1
        BY <4>1, FirstIs
      <4>3. l <= LastChunk(s, z)
        BY <4>1
      <4>4. l < Chunks(f)
        BY <2>4, <4>3, ChunkInFile
      <4> QED
        BY <4>2, <4>4
    <3> QED
      BY <3>1, <3>2
  <2> QED
    BY <2>2, <2>5, <2>6
<1>7. ASSUME NEW f \in Files
      PROVE  /\ data[f] # None /\ f \notin Texts => Len(data[f].offsets) = Len(data[f].chunks)
             /\ \A s \in 1 .. Slots : /\ cache[f][s].chunk \in -1 .. Chunks(f) - 1
                                      /\ cache[f][s].stamp \in -1 .. stamp
                                      /\ cache[f][s].text \in Seq(Bytes(f))
             /\ recent[f] \in Seq(0 .. Chunks(f) - 1)
  <2>1. data[f] # None /\ f \notin Texts => Len(data[f].offsets) = Len(data[f].chunks)
    BY <1>1, OpenedIs DEF Opened
  <2>2. SlotsInv(f, cache[f], stamp) /\ Lru(cache[f], recent[f])
    BY <1>1 DEF CacheInv
  <2>3. recent[f] \in Seq(0 .. Chunks(f) - 1)
    BY <2>2, OldIsOfFile
  <2>4. ASSUME NEW s \in 1 .. Slots
        PROVE  /\ cache[f][s].chunk \in -1 .. Chunks(f) - 1
               /\ cache[f][s].stamp \in -1 .. stamp
               /\ cache[f][s].text \in Seq(Bytes(f))
    <3>1. /\ cache[f][s].chunk \in -1 .. Chunks(f) - 1
          /\ cache[f][s].stamp \in -1 .. stamp
          /\ cache[f][s].text = IF cache[f][s].chunk = -1 THEN <<>> ELSE ChunkText(f, cache[f][s].chunk)
      BY <2>2 DEF SlotsInv
    <3> DEFINE n == cache[f][s].chunk
    <3>2. CASE n = -1
      <4>1. <<>> \in Seq(Bytes(f))
        OBVIOUS
      <4> QED
        BY <3>1, <3>2, <4>1
    <3>3. CASE n # -1
      <4>1. n \in Nat /\ n < Chunks(f)
        BY <3>1, <3>3, ChunksIs
      <4>2. ChunkText(f, n) \in Seq(Bytes(f))
        BY <4>1, ChunkIs
      <4> QED
        BY <3>1, <3>3, <4>2
    <3> QED
      BY <3>2, <3>3
  <2> QED
    BY <2>1, <2>3, <2>4
<1> QED
  BY <1>2, <1>3, <1>4, <1>5, <1>6, <1>7 DEF TypeOK

(* The cache of dict_data_read_ holds the chunks that were used last, each *)
(* with its text, and no chunk twice, however many slots it has: the       *)
(* stamps, of one counter for all files, order the slots of each file by   *)
(* their use.                                                              *)
THEOREM CacheStaysLru == Spec => []CacheIsLru
<1>1. DataInv => CacheIsLru
  <2> SUFFICES ASSUME DataInv PROVE CacheIsLru
    OBVIOUS
  <2>1. TypeOK
    BY TypesAre
  <2>2. ASSUME NEW f \in Files
        PROVE  /\ {cache[f][s].chunk : s \in 1 .. Slots} \ {-1} = ToSet(recent[f])
               /\ \A s, t \in 1 .. Slots :
                     cache[f][s].chunk = cache[f][t].chunk /\ cache[f][s].chunk # -1 => s = t
               /\ \A s \in 1 .. Slots : cache[f][s].chunk # -1 =>
                     cache[f][s].text = ChunkText(f, cache[f][s].chunk)
    <3>1. SlotsInv(f, cache[f], stamp) /\ Lru(cache[f], recent[f])
      BY DEF DataInv, CacheInv
    <3>2. {cache[f][s].chunk : s \in 1 .. Slots} \ {-1} = ToSet(recent[f])
      BY <3>1, OldIsOfFile
    <3>3. \A s, t \in 1 .. Slots :
             cache[f][s].chunk = cache[f][t].chunk /\ cache[f][s].chunk # -1 => s = t
      <4>1. \A s \in 1 .. Slots : cache[f][s].chunk # -1 => s \in Filled(cache[f])
        BY DEF Filled
      <4>2. \A s, t \in Filled(cache[f]) : cache[f][s].chunk = cache[f][t].chunk => s = t
        BY <3>1 DEF Lru
      <4> QED
        BY <4>1, <4>2
    <3>4. \A s \in 1 .. Slots : cache[f][s].chunk # -1 =>
             cache[f][s].text = ChunkText(f, cache[f][s].chunk)
      BY <3>1 DEF SlotsInv
    <3> QED
      BY <3>2, <3>3, <3>4
  <2> QED
    BY <2>1, <2>2 DEF CacheIsLru
<1> QED
  BY <1>1, DataInvAlways, PTL

=============================================================================
