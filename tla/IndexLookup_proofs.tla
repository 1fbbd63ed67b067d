------------------------- MODULE IndexLookup_proofs -------------------------
(***************************************************************************)
(* Theorems about IndexLookup, for every index and every request: the      *)
(* table of first characters never points behind a line it should lead to, *)
(* the binary search never passes one, and so the strategies that read on  *)
(* from there find every line that is wanted.                              *)
(***************************************************************************)
EXTENDS IndexLookup, TLAPS

(* Where a search may be: at a line, or at the end of the file.            *)
Places == Lines(idx) \cup {idx.size}

(* What FindsEveryLine is claimed for.                                     *)
Claimed == fast \/ ~idx.casesensitive

(* All lines before p are too low for the word w.                          *)
LowBefore(w, p) == \A l \in Lines(idx) : l < p => CompareLine(idx, w, l) = 1

(* The types, with start, end and the entries of the table at lines.       *)
PlacesOK ==
    /\ TypeOK
    /\ pc \notin OtherScans
    /\ start \in Places /\ end \in Places
    /\ \A c \in Char \cup {0} : opt[c] \in Places
    /\ pc = "fill" => \E c \in TableChars : key = <<c>>

(* No entry of the table leads behind a line that begins with its          *)
(* character or a later one; the empty word has none.                      *)
TableOK ==
    /\ opt[0] = 0
    /\ \A c \in Char \ Upper : LowBefore(<<c>>, opt[c])

(* The request that is carried out is one that was made, and as much of    *)
(* the lines to skip and of the list is left as was given.                 *)
RequestOK ==
    /\ pc \in {"search", "linear", "scan", "done"} =>
          /\ query \in Queries
          /\ query.op \in Ops
          /\ Fits(idx, query)
          /\ key = query.word
    /\ pc \in {"search", "linear"} => skip = query.skip
    /\ pc \in {"search", "linear"} => found = <<>>
    /\ previous = NoLine

(* The search has passed no line that is not too low.                      *)
SearchOK ==
    /\ pc = "fill" => LowBefore(key, start)
    /\ pc \in {"search", "linear"} /\ Claimed => LowBefore(key, start)

(* What has been found by a scan that is at start.                         *)
ListOK ==
    pc \in {"scan", "done"} =>
        /\ \A n \in 1 .. Len(found) : Wanted(query, found[n])
        /\ \A n \in 1 .. Len(found) : pc = "scan" => found[n] < start
        /\ \A n \in 1 .. Len(found) - 1 : found[n] < found[n + 1]

ScanOK ==
    /\ pc = "scan" /\ Claimed =>
          /\ start < idx.size => CompareLine(idx, key, start) # 1
          /\ query.skip = 0 =>
                /\ skip = 0
                /\ \A l \in Lines(idx) : l < start /\ Wanted(query, l) => l \in Found
    /\ pc = "done" /\ Claimed /\ ~Full /\ query.skip = 0 /\ (query.op # "exact" => item > 0) =>
          \A l \in Lines(idx) : Wanted(query, l) => l \in Found

LookupInv ==
    /\ PlacesOK
    /\ TableOK
    /\ RequestOK
    /\ SearchOK
    /\ ListOK
    /\ ScanOK
----------------------------------------------------------------------------
LEMMA IndexFacts ==
    ASSUME idx \in Indexes
    PROVE  /\ idx.size \in Nat
           /\ Lines(idx) \subseteq 0 .. idx.size - 1
           /\ Places \subseteq 0 .. idx.size
           /\ 0 \in Places
           /\ \A l \in Lines(idx) : Kept(idx, idx.head[l]) \in Seq(Char)
<1>1. IndexType(idx)
  BY LookupAssumption
<1> QED
  BY <1>1 DEF IndexType, Places

LEMMA CompareValues ==
    ASSUME NEW i, NEW w, NEW s
    PROVE  Compare(i, w, s) \in {-2, -1, 0, 1}
BY DEF Compare

(* A line too low for the first character of a word is too low for it.     *)
LEMMA FirstCharEnough ==
    ASSUME idx \in Indexes, NEW l \in Lines(idx),
           NEW w \in Seq(Char), w # <<>>,
           CompareLine(idx, <<w[1]>>, l) = 1
    PROVE  CompareLine(idx, w, l) = 1
<1> DEFINE k == Kept(idx, idx.head[l])
           one == {n \in 1 .. 1 : n <= Len(k) /\ ~Same(idx, w[1], k[n])}
           all == {n \in 1 .. Len(w) : n <= Len(k) /\ ~Same(idx, w[n], k[n])}
<1>1. Len(k) \in Nat /\ Len(w) \in Nat /\ Len(w) >= 1
  BY IndexFacts
<1>2. Compare(idx, <<w[1]>>, idx.head[l]) = 1
  BY DEF CompareLine
<1>3. CASE 1 <= Len(k) /\ ~Same(idx, w[1], k[1])
  <2>1. ~Below(idx, w[1], k[1])
    BY <1>2, <1>3 DEF Compare
  <2>2. 1 \in all
    BY <1>1, <1>3
  <2>3. ~\E n \in all : (\A m \in all : n <= m) /\ Below(idx, w[n], k[n])
    BY <2>1, <2>2, <1>1
  <2> QED
    BY <2>2, <2>3 DEF Compare, CompareLine
<1>4. CASE ~(1 <= Len(k) /\ ~Same(idx, w[1], k[1]))
  <2>1. Len(k) = 0
    BY <1>1, <1>2, <1>4 DEF Compare
  <2>2. all = {}
    BY <2>1, <1>1
  <2> QED
    BY <2>1, <2>2, <1>1 DEF Compare, CompareLine
<1> QED
  BY <1>3, <1>4

(* FIND_NEXT leaves no line between.                                       *)
LEMMA NextLine ==
    ASSUME idx \in Indexes, NEW p \in Places, NEW end0 \in Places, NEW q,
           FindNext(idx, p, end0, q)
    PROVE  /\ q \in Places
           /\ p < q
           /\ \A l \in Lines(idx) : l < q => l <= p
BY IndexFacts DEF FindNext, Places

(* A line that is too low has only such lines before it.                   *)
LEMMA LowSpreads ==
    ASSUME idx \in Indexes, NEW w, SortedFor(idx, w),
           NEW p \in Lines(idx), CompareLine(idx, w, p) = 1
    PROVE  \A l \in Lines(idx) : l <= p => CompareLine(idx, w, l) = 1
<1> SUFFICES ASSUME NEW l \in Lines(idx), l <= p PROVE CompareLine(idx, w, l) = 1
  OBVIOUS
<1>1. l \in Int /\ p \in Int
  BY IndexFacts
<1>2. l = p \/ CompareLine(idx, w, p) <= CompareLine(idx, w, l)
  BY <1>1 DEF SortedFor
<1>3. CompareLine(idx, w, l) \in {-2, -1, 0, 1}
  BY CompareValues DEF CompareLine
<1> QED
  BY <1>2, <1>3

(* The index is sorted for whatever is looked for.                         *)
LEMMA SortedForKey ==
    ASSUME PlacesOK, RequestOK
    PROVE  pc \in {"fill", "search", "linear", "scan", "done"} => SortedFor(idx, key)
BY LookupAssumption DEF PlacesOK, TypeOK, RequestOK
----------------------------------------------------------------------------
LEMMA PlacesInductive ==
    ASSUME PlacesOK, [Next]_vars
    PROVE  PlacesOK'
<1> USE IndexFacts DEF PlacesOK, TypeOK, Places, Lines, OtherScans
<1>0. TableChars \subseteq Char /\ 0 \notin Char
  BY LookupAssumption DEF TableChars, Char
<1>1. CASE UNCHANGED vars
  BY <1>1 DEF vars
<1>2. CASE OpenTable
  BY <1>2, <1>0 DEF OpenTable, static
<1>3. CASE TableDone
  BY <1>3 DEF TableDone, static
<1>4. CASE FillEntry
  <2>1. opt' \in [Char \cup {0} -> Lines(idx) \cup {idx.size}]
    BY <1>4 DEF FillEntry
  <2> QED
    BY <1>4, <2>1 DEF FillEntry
<1>5. CASE NarrowLeft
  BY <1>5 DEF NarrowLeft, static
<1>6. CASE NarrowRight
  BY <1>6 DEF NarrowRight, static
<1>7. CASE SearchEnds
  BY <1>7 DEF SearchEnds, static
<1>8. CASE LinearSkip
  BY <1>8 DEF LinearSkip, Advance, static
<1>9. CASE LinearEnds
  BY <1>9 DEF LinearEnds, static
<1>10. CASE ScanPass
  <2>1. start \in Lines(idx)
    BY <1>10 DEF ScanPass, AtMatch
  <2>2. skip' \in Nat
    BY <1>10 DEF ScanPass, Taken
  <2> QED
    BY <1>10, <2>1, <2>2 DEF ScanPass, Advance, Remember, static, AtMatch
<1>11. CASE ScanTake
  <2>1. start \in Lines(idx)
    BY <1>11 DEF ScanTake, Taken, AtMatch
  <2>2. item' \in Nat
    BY <1>11 DEF ScanTake, Taken, AtMatch
  <2> QED
    BY <1>11, <2>1, <2>2 DEF ScanTake, Advance, Remember, static
<1>12. CASE ScanEnds
  BY <1>12 DEF ScanEnds, static
<1>13. CASE Return
  BY <1>13 DEF Return
<1>14. ASSUME NEW q \in Queries, Ask(q) PROVE PlacesOK'
  <2>1. q.word \in Seq(Char) /\ q.skip \in Nat /\ q.item \in Nat
    BY LookupAssumption DEF QueryType
  <2>2. FirstChar(q.word) \in Char \cup {0}
    BY <2>1 DEF FirstChar
  <2>3. Follower(FirstChar(q.word)) \in Char \cup {0}
    BY <2>2 DEF Follower
  <2>4. /\ start' \in Places /\ start' \in 0 .. idx.size
        /\ end' \in Places /\ end' \in 0 .. idx.size
    BY <1>14, <2>2, <2>3 DEF Ask, RangeStart, RangeEnd
  <2>5. UNCHANGED <<idx, fast, opt, todo>> /\ pc' = "search" /\ query' = q /\ key' = q.word
    BY <1>14 DEF Ask
  <2>6. skip' = q.skip /\ item' = q.item /\ previous' = NoLine /\ found' = <<>>
    BY <1>14 DEF Ask
  <2> QED
    BY <2>1, <2>4, <2>5, <2>6
<1> QED
  BY <1>1, <1>2, <1>3, <1>4, <1>5, <1>6, <1>7, <1>8, <1>9, <1>10, <1>11, <1>12, <1>13, <1>14
     DEF Next

LEMMA TableInductive ==
    ASSUME PlacesOK, TableOK, SearchOK, [Next]_vars
    PROVE  TableOK'
<1> USE DEF TableOK, LowBefore, Lines
<1>1. CASE UNCHANGED <<idx, opt>>
  BY <1>1
<1>2. CASE FillEntry
  <2>1. PICK c \in TableChars : key = <<c>>
    BY <1>2 DEF FillEntry, PlacesOK
  <2>2. /\ opt'[0] = opt[0]
        /\ \A d \in Char \ Upper : opt'[d] = IF d = c THEN start ELSE opt[d]
    BY <1>2, <2>1, LookupAssumption DEF FillEntry, PlacesOK, TypeOK, TableChars, Char
  <2>3. \A l \in Lines(idx) : l < start => CompareLine(idx, <<c>>, l) = 1
    BY <1>2, <2>1 DEF FillEntry, SearchOK
  <2>4. idx' = idx
    BY <1>2 DEF FillEntry
  <2> QED
    BY <2>2, <2>3, <2>4
<1>3. Next => FillEntry \/ UNCHANGED <<idx, opt>>
  BY DEF Next, OpenTable, TableDone, NarrowLeft, NarrowRight, SearchEnds, LinearSkip, LinearEnds,
         ScanPass, ScanTake, ScanEnds, Return, Ask, static
<1> QED
  BY <1>1, <1>2, <1>3 DEF vars

LEMMA RequestInductive ==
    ASSUME PlacesOK, RequestOK, [Next]_vars
    PROVE  RequestOK'
<1> USE DEF RequestOK, static
<1>1. CASE UNCHANGED vars
  BY <1>1 DEF vars
<1>2. ASSUME NEW q \in Queries, Ask(q) PROVE RequestOK'
  BY <1>2 DEF Ask
<1>3. CASE OpenTable \/ TableDone \/ FillEntry
  BY <1>3 DEF OpenTable, TableDone, FillEntry
<1>4. CASE NarrowLeft \/ NarrowRight \/ SearchEnds
  BY <1>4 DEF NarrowLeft, NarrowRight, SearchEnds
<1>5. CASE LinearSkip \/ LinearEnds
  BY <1>5 DEF LinearSkip, LinearEnds, Advance
<1>6. CASE ScanPass \/ ScanTake \/ ScanEnds
  BY <1>6 DEF ScanPass, ScanTake, ScanEnds, Advance, Remember, AtMatch, Taken
<1>7. CASE Return
  BY <1>7 DEF Return
<1> QED
  BY <1>1, <1>2, <1>3, <1>4, <1>5, <1>6, <1>7 DEF Next

(* What the table gives for a request lies behind no line that is wanted.  *)
LEMMA RangeStartLow ==
    ASSUME PlacesOK, TableOK, Claimed, NEW q \in Queries, Fits(idx, q)
    PROVE  LowBefore(q.word, RangeStart(FirstChar(q.word)))
<1> DEFINE w == q.word
<1>1. w \in Seq(Char)
  BY LookupAssumption DEF QueryType
<1>2. idx \in Indexes
  BY DEF PlacesOK, TypeOK
<1>3. CASE fast
  BY <1>2, <1>3, IndexFacts DEF RangeStart, LowBefore
<1>4. CASE ~fast /\ w = <<>>
  BY <1>2, <1>4, IndexFacts DEF RangeStart, FirstChar, LowBefore, TableOK
<1>5. CASE ~fast /\ w # <<>>
  <2>1. w[1] \in Char /\ w[1] \notin Upper
    <3>1. 1 \in 1 .. Len(w)
      BY <1>1, <1>5
    <3> QED
      BY <1>1, <1>5, <3>1 DEF Fits, Claimed
  <2>2. LowBefore(<<w[1]>>, opt[w[1]])
    BY <2>1 DEF TableOK
  <2>3. ASSUME NEW l \in Lines(idx), l < opt[w[1]] PROVE CompareLine(idx, w, l) = 1
    <3>1. CompareLine(idx, <<w[1]>>, l) = 1
      BY <2>2, <2>3 DEF LowBefore
    <3> QED
      BY <1>1, <1>2, <1>5, <3>1, FirstCharEnough
  <2> QED
    BY <1>5, <2>3 DEF RangeStart, FirstChar, LowBefore
<1> QED
  BY <1>3, <1>4, <1>5

LEMMA SearchInductive ==
    ASSUME PlacesOK, TableOK, RequestOK, SearchOK, [Next]_vars
    PROVE  SearchOK'
<1> USE DEF SearchOK, static, Claimed
<1>0. idx \in Indexes
  BY DEF PlacesOK, TypeOK
<1>1. CASE UNCHANGED vars
  BY <1>1 DEF vars, LowBefore, Lines
<1>2. ASSUME NEW q \in Queries, Ask(q) PROVE SearchOK'
  BY <1>2, RangeStartLow DEF Ask, LowBefore, Lines
<1>3. CASE OpenTable
  BY <1>3, <1>0, IndexFacts DEF OpenTable, LowBefore, Lines
<1>4. CASE TableDone \/ FillEntry
  BY <1>4 DEF TableDone, FillEntry
<1>5. CASE NarrowLeft \/ SearchEnds
  BY <1>5 DEF NarrowLeft, SearchEnds, LowBefore, Lines
<1>6. CASE NarrowRight
  <2>1. PICK p \in Lines(idx), q \in Lines(idx) \cup {end} :
             /\ CompareLine(idx, key, p) = 1
             /\ FindNext(idx, p, end, q)
             /\ start' = q
    BY <1>6 DEF NarrowRight
  <2>2. \A l \in Lines(idx) : l < q => l <= p
    BY <1>0, <2>1, NextLine DEF PlacesOK, Places
  <2>3. SortedFor(idx, key)
    BY <1>6, SortedForKey DEF NarrowRight
  <2>4. \A l \in Lines(idx) : l < q => CompareLine(idx, key, l) = 1
    BY <1>0, <2>1, <2>2, <2>3, LowSpreads
  <2> QED
    BY <1>6, <2>1, <2>4 DEF NarrowRight, LowBefore, Lines
<1>7. CASE LinearSkip
  <2>1. PICK q : FindNext(idx, start, idx.size, q) /\ start' = q
    BY <1>7 DEF LinearSkip, Advance
  <2>2. \A l \in Lines(idx) : l < q => l <= start
    BY <1>0, <2>1, NextLine DEF PlacesOK, Places
  <2>3. \A l \in Lines(idx) : l \in Int /\ start \in Int
    BY <1>0, IndexFacts DEF PlacesOK
  <2> QED
    BY <1>7, <2>1, <2>2, <2>3 DEF LinearSkip, LowBefore, Lines
<1>8. CASE LinearEnds
  BY <1>8 DEF LinearEnds
<1>9. CASE ScanPass \/ ScanTake \/ ScanEnds \/ Return
  BY <1>9 DEF ScanPass, ScanTake, ScanEnds, Return, AtMatch, Taken
<1> QED
  BY <1>1, <1>2, <1>3, <1>4, <1>5, <1>6, <1>7, <1>8, <1>9 DEF Next

(* What a scan adds to the list.                                           *)
LEMMA TakeAppends ==
    ASSUME PlacesOK, ScanTake
    PROVE  /\ start \in Lines(idx)
           /\ found \in Seq(Lines(idx))
           /\ Len(found') = Len(found) + 1
           /\ \A n \in 1 .. Len(found) : found'[n] = found[n]
           /\ found'[Len(found) + 1] = start
           /\ Found' = Found \cup {start}
<1>1. start \in Lines(idx)
  BY IndexFacts DEF ScanTake, Taken, AtMatch, PlacesOK, TypeOK, Places
<1>2. found \in Seq(Lines(idx)) /\ found' = Append(found, start)
  BY DEF ScanTake, PlacesOK, TypeOK
<1>3. /\ Len(found') = Len(found) + 1
      /\ \A n \in 1 .. Len(found) : found'[n] = found[n]
      /\ found'[Len(found) + 1] = start
  BY <1>1, <1>2
<1>4. Found' = Found \cup {start}
  <2>1. Len(found) \in Nat
    BY <1>2
  <2> QED
    BY <1>3, <2>1 DEF Found
<1> QED
  BY <1>1, <1>2, <1>3, <1>4

(* A step of a scan passes the line it is at and no other.                 *)
LEMMA ScanAdvances ==
    ASSUME PlacesOK, pc = "scan", Advance
    PROVE  /\ start < start'
           /\ start' \in Places
           /\ \A l \in Lines(idx) : l < start' => l <= start
<1>1. PICK q : FindNext(idx, start, idx.size, q) /\ start' = q
  BY DEF Advance
<1> QED
  BY <1>1, NextLine DEF PlacesOK, TypeOK, Places

LEMMA ListInductive ==
    ASSUME PlacesOK, RequestOK, ListOK, [Next]_vars
    PROVE  ListOK'
<1> USE DEF ListOK, static
<1>0. idx \in Indexes /\ found \in Seq(Lines(idx))
  BY DEF PlacesOK, TypeOK
<1>1. CASE UNCHANGED vars
  BY <1>1 DEF vars, Wanted, Matches, WholeWord, CompareLine
<1>2. CASE LinearEnds
  BY <1>2 DEF LinearEnds, RequestOK
<1>3. CASE ScanTake
  <2>1. /\ start \in Lines(idx)
        /\ Len(found') = Len(found) + 1 /\ Len(found) \in Nat
        /\ \A n \in 1 .. Len(found) : found'[n] = found[n]
        /\ found'[Len(found) + 1] = start
    BY <1>0, <1>3, TakeAppends
  <2>2. pc = "scan" /\ start < start' /\ Wanted(query, start) /\ query' = query /\ idx' = idx
    BY <1>3, ScanAdvances DEF ScanTake, Taken, AtMatch
  <2>3. start \in Int /\ start' \in Int
    BY <1>0, <2>1, <2>2, <1>3, ScanAdvances, IndexFacts DEF ScanTake
  <2>4. \A n \in 1 .. Len(found) : Wanted(query, found[n]) /\ found[n] \in Int /\ found[n] < start
    BY <1>0, <2>2, IndexFacts
  <2>5. \A n \in 1 .. Len(found') : Wanted(query, found'[n]) /\ found'[n] < start'
    BY <2>1, <2>2, <2>3, <2>4
  <2>6. \A n \in 1 .. Len(found') - 1 : found'[n] < found'[n + 1]
    BY <2>1, <2>2, <2>4
  <2> QED
    BY <2>2, <2>5, <2>6 DEF Wanted, Matches, WholeWord, CompareLine
<1>4. CASE ScanPass
  <2>1. /\ pc = "scan" /\ start < start' /\ start \in Int /\ start' \in Int
        /\ query' = query /\ idx' = idx /\ found' = found /\ pc' = pc
    BY <1>0, <1>4, ScanAdvances, IndexFacts DEF ScanPass, AtMatch, PlacesOK
  <2>2. \A n \in 1 .. Len(found) : found[n] \in Int
    BY <1>0, IndexFacts
  <2> QED
    BY <2>1, <2>2 DEF Wanted, Matches, WholeWord, CompareLine
<1>5. CASE ScanEnds
  BY <1>5 DEF ScanEnds, Wanted, Matches, WholeWord, CompareLine
<1>6. CASE OpenTable \/ TableDone \/ FillEntry \/ NarrowLeft \/ NarrowRight \/ SearchEnds
           \/ LinearSkip \/ Return
  BY <1>6 DEF OpenTable, TableDone, FillEntry, NarrowLeft, NarrowRight, SearchEnds, LinearSkip,
              Return
<1>7. ASSUME NEW q \in Queries, Ask(q) PROVE ListOK'
  BY <1>7 DEF Ask
<1> QED
  BY <1>1, <1>2, <1>3, <1>4, <1>5, <1>6, <1>7 DEF Next

(* A line that is lower than another is not wanted when that one does not  *)
(* match (and is not too low).                                             *)
LEMMA NothingWantedBeyond ==
    ASSUME idx \in Indexes, query \in Queries, query.op \in Ops, Fits(idx, query),
           start \in Lines(idx),
           CompareLine(idx, query.word, start) # 1,
           ~Matches(query, start)
    PROVE  \A l \in Lines(idx) : l >= start => ~Wanted(query, l)
<1> SUFFICES ASSUME NEW l \in Lines(idx), l >= start PROVE ~Wanted(query, l)
  OBVIOUS
<1>1. SortedFor(idx, query.word)
  BY LookupAssumption
<1>2. CompareLine(idx, query.word, l) <= CompareLine(idx, query.word, start)
  <2>1. l \in Int /\ start \in Int
    BY IndexFacts
  <2>2. CompareLine(idx, query.word, start) \in Int
    BY CompareValues DEF CompareLine
  <2> QED
    BY <1>1, <2>1, <2>2 DEF SortedFor
<1>3. /\ CompareLine(idx, query.word, l) \in {-2, -1, 0, 1}
      /\ CompareLine(idx, query.word, start) \in {-2, -1, 0, 1}
  BY CompareValues DEF CompareLine
<1> QED
  BY <1>2, <1>3 DEF Wanted, Matches

(* A line that is too low is not wanted.                                   *)
LEMMA LowNotWanted ==
    ASSUME NEW q, NEW l, CompareLine(idx, q.word, l) = 1
    PROVE  ~Wanted(q, l)
BY DEF Wanted, Matches

(* After a step of the scan the next line is not too low either.           *)
LEMMA NeverTooLow ==
    ASSUME PlacesOK, RequestOK, pc = "scan", Advance, start \in Lines(idx),
           CompareLine(idx, key, start) # 1
    PROVE  start' < idx.size => CompareLine(idx, key, start') # 1
<1> SUFFICES ASSUME start' < idx.size, CompareLine(idx, key, start') = 1 PROVE FALSE
  OBVIOUS
<1>1. idx \in Indexes
  BY DEF PlacesOK, TypeOK
<1>2. start < start' /\ start' \in Lines(idx) /\ start \in Int /\ start' \in Int
  BY <1>1, ScanAdvances, IndexFacts DEF Places
<1>3. SortedFor(idx, key)
  BY SortedForKey
<1> QED
  BY <1>1, <1>2, <1>3, LowSpreads

(* The line search leaves the scan with everything before it too low, or   *)
(* ends where nothing is wanted.                                           *)
LEMMA ScanBegins ==
    ASSUME PlacesOK, RequestOK, SearchOK, LinearEnds
    PROVE  ScanOK'
<1> USE DEF LinearEnds, static
<1>1. /\ idx \in Indexes /\ pc = "linear" /\ UNCHANGED <<idx, fast, query, key, start, skip, found>>
      /\ query \in Queries /\ query.op \in Ops /\ Fits(idx, query) /\ key = query.word
      /\ skip = query.skip /\ start \in Places
  BY DEF PlacesOK, TypeOK, RequestOK
<1>2. ASSUME Claimed PROVE \A l \in Lines(idx) : l < start => ~Wanted(query, l)
  BY <1>1, <1>2, LowNotWanted DEF SearchOK, LowBefore
<1>3. ASSUME Claimed, pc' = "done" PROVE \A l \in Lines(idx) : ~Wanted(query, l)
  <2>1. /\ idx.size \in Int /\ start \in Int
        /\ \A l \in Lines(idx) : l \in Int /\ l < idx.size
    BY <1>1, IndexFacts
  <2>2. CASE start >= idx.size
    BY <1>2, <1>3, <2>1, <2>2
  <2>3. CASE start < idx.size
    <3>1. start \in Lines(idx)
      BY <1>1, <2>1, <2>3 DEF Places
    <3>2. CompareLine(idx, query.word, start) = -2
      BY <1>1, <1>3, <2>3
    <3>3. ~Matches(query, start)
      BY <3>2 DEF Matches
    <3>4. \A l \in Lines(idx) : l >= start => ~Wanted(query, l)
      BY <1>1, <3>1, <3>2, <3>3, NothingWantedBeyond
    <3> QED
      BY <1>2, <1>3, <2>1, <3>4
  <2> QED
    BY <2>1, <2>2, <2>3
<1>4. CASE pc' = "scan"
  <2>1. Claimed => \A l \in Lines(idx) : l < start => ~Wanted(query, l)
    BY <1>2
  <2> QED
    BY <1>1, <1>4, <2>1 DEF ScanOK, Claimed, Wanted, Matches, WholeWord, CompareLine, Lines
<1>5. CASE pc' = "done"
  <2>1. Claimed => \A l \in Lines(idx) : ~Wanted(query, l)
    BY <1>3, <1>5
  <2> QED
    BY <1>1, <1>5, <2>1 DEF ScanOK, Claimed, Wanted, Matches, WholeWord, CompareLine, Lines
<1> QED
  BY <1>4, <1>5

LEMMA ScanGoesOn ==
    ASSUME PlacesOK, RequestOK, ScanOK, ScanPass \/ ScanTake
    PROVE  ScanOK'
<1>1. /\ idx \in Indexes /\ pc = "scan" /\ start \in Lines(idx) /\ Advance
      /\ UNCHANGED <<idx, fast, query, key>>
      /\ Unlike(start) /\ key = query.word
  BY IndexFacts DEF ScanPass, ScanTake, Taken, AtMatch, PlacesOK, TypeOK, Places, RequestOK,
     Unlike, static
<1>2. /\ start < start' /\ start \in Int /\ start' \in Int
      /\ \A l \in Lines(idx) : l < start' => l <= start
      /\ \A l \in Lines(idx) : l \in Int
  BY <1>1, ScanAdvances, IndexFacts DEF Places
<1>3. Claimed => (start' < idx.size => CompareLine(idx, key, start') # 1)
  <2>1. start < idx.size
    BY <1>1, IndexFacts
  <2> QED
    BY <1>1, <2>1, NeverTooLow DEF ScanOK
<1>4. CASE ScanPass
  <2>1. ASSUME Claimed, query.skip = 0 PROVE skip' = 0 /\ ~Wanted(query, start)
    BY <1>1, <1>4, <2>1 DEF ScanPass, Taken, AtMatch, ScanOK
  <2>2. pc' = "scan" /\ found' = found
    BY <1>1, <1>4 DEF ScanPass
  <2>3. ASSUME Claimed, query.skip = 0
        PROVE  \A l \in Lines(idx) : l < start' /\ Wanted(query, l) => l \in Found
    BY <1>1, <1>2, <2>1, <2>3 DEF ScanOK
  <2> QED
    BY <1>1, <1>3, <2>1, <2>2, <2>3
       DEF ScanOK, Claimed, Wanted, Matches, WholeWord, CompareLine, Lines, Found
<1>5. CASE ScanTake
  <2>1. Found' = Found \cup {start} /\ skip' = skip
    BY <1>5, TakeAppends DEF ScanTake
  <2>2. pc' = "scan" \/ (pc' = "done" /\ query.op # "exact" /\ item' = 0)
    BY <1>5 DEF ScanTake
  <2>3. ASSUME Claimed, query.skip = 0
        PROVE  \A l \in Lines(idx) : l < start' /\ Wanted(query, l) => l \in Found'
    BY <1>1, <1>2, <2>1, <2>3 DEF ScanOK
  <2> HIDE DEF Found
  <2>4. CASE pc' = "scan"
    BY <1>1, <1>3, <2>1, <2>3, <2>4
       DEF ScanOK, Claimed, Wanted, Matches, WholeWord, CompareLine, Lines
  <2>5. CASE pc' = "done" /\ query.op # "exact" /\ item' = 0
    BY <1>1, <2>5 DEF ScanOK
  <2> QED
    BY <2>2, <2>4, <2>5
<1> QED
  BY <1>4, <1>5

LEMMA ScanStops ==
    ASSUME PlacesOK, RequestOK, ScanOK, ScanEnds
    PROVE  ScanOK'
<1>1. /\ idx \in Indexes /\ pc = "scan" /\ pc' = "done"
      /\ UNCHANGED <<idx, fast, query, key, start, item, found>>
      /\ query \in Queries /\ query.op \in Ops /\ Fits(idx, query) /\ key = query.word
      /\ start \in Places /\ item \in Nat
  BY DEF ScanEnds, PlacesOK, TypeOK, RequestOK, static
<1>2. \A l \in Lines(idx) : l \in Int /\ l < idx.size /\ idx.size \in Int /\ start \in Int
  BY <1>1, IndexFacts
<1>3. ASSUME Claimed, ~Full, query.skip = 0, query.op # "exact" => item > 0, NEW l \in Lines(idx),
             Wanted(query, l)
      PROVE  l \in Found
  <2>1. ~AtMatch
    BY <1>3 DEF ScanEnds
  <2>2. start < idx.size => ~Matches(query, start)
    BY <1>1, <1>3, <2>1 DEF AtMatch
  <2>3. l < start
    <3>1. CASE start >= idx.size
      BY <1>2, <3>1
    <3>2. CASE start < idx.size
      <4>1. start \in Lines(idx) /\ CompareLine(idx, query.word, start) # 1
        BY <1>1, <1>2, <1>3, <3>2 DEF ScanOK, Places
      <4> QED
        BY <1>1, <1>2, <1>3, <2>2, <3>2, <4>1, NothingWantedBeyond
    <3> QED
      BY <1>2, <3>1, <3>2
  <2> QED
    BY <1>1, <1>3, <2>3 DEF ScanOK
<1>4. Claimed /\ ~Full /\ query.skip = 0 /\ (query.op # "exact" => item > 0) =>
          \A l \in Lines(idx) : Wanted(query, l) => l \in Found
  BY <1>3
<1> QED
  BY <1>1, <1>4
     DEF ScanOK, Claimed, Wanted, Matches, WholeWord, CompareLine, Lines, Found, Full

LEMMA ScanInductive ==
    ASSUME PlacesOK, RequestOK, SearchOK, ScanOK, [Next]_vars
    PROVE  ScanOK'
<1>1. CASE UNCHANGED vars
  BY <1>1 DEF vars, ScanOK, Claimed, Wanted, Matches, WholeWord, CompareLine, Lines, Found, Full
<1>2. CASE LinearEnds
  BY <1>2, ScanBegins
<1>3. CASE ScanPass \/ ScanTake
  BY <1>3, ScanGoesOn
<1>4. CASE ScanEnds
  BY <1>4, ScanStops
<1>5. CASE OpenTable \/ TableDone \/ FillEntry \/ NarrowLeft \/ NarrowRight \/ SearchEnds
           \/ LinearSkip \/ Return
  BY <1>5 DEF OpenTable, TableDone, FillEntry, NarrowLeft, NarrowRight, SearchEnds, LinearSkip,
              Return, static, ScanOK
<1>6. ASSUME NEW q \in Queries, Ask(q) PROVE ScanOK'
  BY <1>6 DEF Ask, ScanOK
<1> QED
  BY <1>1, <1>2, <1>3, <1>4, <1>5, <1>6 DEF Next
----------------------------------------------------------------------------
LEMMA LookupInvInit == Init => LookupInv
<1> SUFFICES ASSUME Init PROVE LookupInv
  OBVIOUS
<1>1. idx \in Indexes
  BY DEF Init
<1>2. 0 \in Char \cup {0} /\ TableChars \subseteq Char
  BY DEF TableChars, Char
<1>3. PlacesOK
  <2>1. TypeOK
    BY <1>1, <1>2, IndexFacts DEF Init, TypeOK, Places
  <2> QED
    BY <1>1, <1>2, <2>1, IndexFacts DEF Init, PlacesOK, OtherScans
<1>4. TableOK
  BY <1>1, <1>2, IndexFacts DEF Init, TableOK, LowBefore
<1> QED
  BY <1>3, <1>4 DEF Init, LookupInv, RequestOK, SearchOK, ListOK, ScanOK

LEMMA LookupInvStep == LookupInv /\ [Next]_vars => LookupInv'
BY PlacesInductive, TableInductive, RequestInductive, SearchInductive, ListInductive,
   ScanInductive DEF LookupInv

(* The state keeps its types: no search leaves the file, and the list has  *)
(* only lines of it.                                                       *)
THEOREM LookupTypeCorrect == Spec => []TypeOK
<1>1. LookupInv => TypeOK
  BY DEF LookupInv, PlacesOK
<1> QED
  BY <1>1, LookupInvInit, LookupInvStep, PTL DEF Spec

(* dict_index_search finds every line it should and no other, whatever the *)
(* lengths of the lines and however many are equal: with fast_start for    *)
(* every index, and with the table for every one that is not case          *)
(* sensitive.                                                              *)
THEOREM LinesFound == Spec => []FindsEveryLine
<1>1. LookupInv => FindsEveryLine
  <2> SUFFICES ASSUME LookupInv, Claimed, pc = "done", query.op \in Ops
               PROVE  AnswerRight
    BY DEF FindsEveryLine, Claimed, AnswerRight
  <2>1. /\ \A n \in 1 .. Len(found) : Wanted(query, found[n])
        /\ \A n \in 1 .. Len(found) - 1 : found[n] < found[n + 1]
    BY DEF LookupInv, ListOK
  <2>2. ~Full /\ query.skip = 0 /\ (query.op # "exact" => item > 0) =>
           \A l \in Lines(idx) : Wanted(query, l) => l \in Found
    BY DEF LookupInv, ScanOK
  <2> QED
    BY <2>1, <2>2 DEF AnswerRight
<1> QED
  BY <1>1, LookupInvInit, LookupInvStep, PTL DEF Spec

(* Every turn of the binary search leaves a smaller range, though          *)
(* FIND_PREV may go back to its beginning and FIND_NEXT up to its end.     *)
THEOREM SearchNarrows == Spec => SearchShrinks
<1> DEFINE Shrinks == (pc \in {"fill", "search"} /\ pc' = pc) => end' - start' < end - start
<1>1. ASSUME LookupInv, [Next]_vars PROVE [Shrinks]_vars
  <2> SUFFICES ASSUME Next, pc \in {"fill", "search"}, pc' = pc
               PROVE  end' - start' < end - start
    BY <1>1
  <2>1. idx \in Indexes /\ start \in Int /\ end \in Int
    BY <1>1, IndexFacts DEF LookupInv, PlacesOK, TypeOK
  <2>2. NarrowLeft \/ NarrowRight
    BY DEF Next, OpenTable, TableDone, FillEntry, SearchEnds, LinearSkip, LinearEnds, ScanPass,
           ScanTake, ScanEnds, Return, Ask, AtMatch, Taken
  <2>3. CASE NarrowLeft
    <3>1. PICK p \in Lines(idx) : Probe(p) /\ end' = p /\ start' = start /\ start < end
      BY <2>3 DEF NarrowLeft
    <3>2. p <= start + (end - start) \div 2 /\ p \in Int
      BY <2>1, <3>1, IndexFacts DEF Probe, FindPrev
    <3>3. start + (end - start) \div 2 < end
      BY <2>1, <3>1
    <3> QED
      BY <2>1, <3>1, <3>2, <3>3
  <2>4. CASE NarrowRight
    <3>1. PICK p \in Lines(idx), q \in Lines(idx) \cup {end} :
             Probe(p) /\ FindNext(idx, p, end, q) /\ start' = q /\ end' = end
      BY <2>4 DEF NarrowRight
    <3>2. start <= p /\ p < q /\ p \in Int /\ q \in Int
      BY <2>1, <3>1, IndexFacts DEF Probe, FindPrev, FindNext
    <3> QED
      BY <2>1, <3>1, <3>2
  <2> QED
    BY <2>2, <2>3, <2>4
<1> QED
  BY <1>1, LookupInvInit, LookupInvStep, PTL DEF Spec, SearchShrinks
=============================================================================
