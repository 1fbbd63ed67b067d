---------------------------- MODULE IndexSearch ----------------------------
(***************************************************************************)
(* The strategies of libdictd/index.c that read through an index instead   *)
(* of looking a word up in it: substring, suffix, word and last (one       *)
(* character at a time for short words, Boyer-Moore-Horspool for long      *)
(* ones), re, regexp and soundex over the range of one first character,    *)
(* and lev, which looks up every word one edit away (lev.h).               *)
(*                                                                         *)
(* They work on the bytes of the file: idx.text has the characters of the  *)
(* headwords, of the other columns, the tabs and the newlines.             *)
(***************************************************************************)
EXTENDS IndexLookup, FiniteSets

CONSTANTS
    Tab, NewLine,   \* the bytes between columns and between lines
    Threshold       \* BMH_THRESHOLD

ScanOps  == {"substring", "suffix", "word", "last"}
RangeOps == {"re", "soundex"}

(* The text holds the headwords, each with a tab behind it, and begins     *)
(* with a character that counts ("00database...").                         *)
TextType(i) ==
    /\ \A p \in 0 .. i.size - 1 : i.text[p] \in Char \cup {Tab, NewLine}
    /\ \A l \in Lines(i) : /\ \A n \in 1 .. Len(i.head[l]) : i.text[l + n - 1] = i.head[l][n]
                           /\ i.text[l + Len(i.head[l])] = Tab
    /\ \A p \in 0 .. i.size - 1 : i.text[p] = NewLine <=> p + 1 \in Lines(i) \cup {i.size}

(* Only a word, regular expressions aside, that has something to search.   *)
ScanType(q) ==
    /\ q.op \in ScanOps \cup {"lev"} => q.word # <<>>
    /\ q.op \in RangeOps => q.first \in Char \cup {0}

ASSUME ScanAssumption ==
    /\ Threshold \in Nat \ {0}
    /\ {Tab, NewLine} \cap (Char \cup {0}) = {}
    /\ \A i \in Indexes : TextType(i) /\ (i.size > 0 => i.allchars \/ IsSpaceAlnum(i.text[0]))
    /\ \A q \in Queries : ScanType(q)

(* dbindex->isspacealnum, and tolowertab unless case matters.              *)
Counts(c) == c \notin {Tab, NewLine} /\ (idx.allchars \/ IsSpaceAlnum(c))
FoldIn(c) == IF idx.casesensitive THEN c ELSE Fold(c)

LineOf(p) == CHOOSE l \in Lines(idx) : l <= p /\ \A m \in Lines(idx) : m <= p => m <= l

Ends(p) == p >= idx.size \/ IsSpacePunct(idx.text[p]) \/ idx.text[p] \in {Tab, NewLine}
Begins(p) == p = 0 \/ Ends(p - 1)

InHeadword(p) == \A m \in LineOf(p) .. p : idx.text[m] # Tab

(* A position after the end of the file is as good as the end.             *)
UpTo(p) == IF p > idx.size THEN idx.size ELSE p

Beyond(p) == CHOOSE q \in Lines(idx) \cup {idx.size} : FindNext(idx, p, idx.size, q)
----------------------------------------------------------------------------
AskScan(q) ==
    /\ pc = "ready"
    /\ q.op \in ScanOps
    /\ Fits(idx, q)
    /\ query' = q
    /\ pc' = IF Len(q.word) < Threshold THEN "brute" ELSE "bmh"
    /\ start' = IF Len(q.word) < Threshold THEN 0 ELSE UpTo(Len(q.word) - 1)
    /\ UNCHANGED <<idx, fast, opt, todo, key, end, previous, skip, item, found>>

(* A hit is added, or ends the search when the list is full; next is where *)
(* it goes on.                                                             *)
AddOrStop(line, next) ==
    IF Full THEN pc' = "done" /\ UNCHANGED <<start, found>>
    ELSE /\ found' = Append(found, line)
         /\ start' = next
         /\ UNCHANGED pc

(* dict_search_brute: what compare() says of the rest of the headword.     *)
Rest(p) == LET n == CHOOSE m \in p .. idx.size - 1 : /\ idx.text[m] \in {Tab, NewLine}
                                                     /\ \A k \in p .. m - 1 : idx.text[k] \notin {Tab, NewLine}
           IN  [k \in 1 .. n - p |-> idx.text[p + k - 1]]

BruteHit(p) ==
    LET result == Compare(idx, query.word, Rest(p))
    IN  /\ FoldIn(idx.text[p]) = query.word[1]
        /\ result \in {-1, 0}
        /\ query.op \in {"suffix", "last"} => result = 0
        /\ query.op \in {"word", "last"} => Begins(p)
        /\ query.op = "word" => Ends(p + Len(query.word))
        /\ InHeadword(p)

(* At a tab the rest of the line is left out, and what does not count at   *)
(* the beginning of the next.                                              *)
SkipToWord(p) == CHOOSE q \in p .. idx.size : /\ \A k \in p .. q - 1 : ~Counts(idx.text[k])
                                              /\ q < idx.size => Counts(idx.text[q])

Brute ==
    /\ pc = "brute"
    /\ LET p == IF start < idx.size /\ idx.text[start] = Tab
                THEN SkipToWord(Beyond(start)) ELSE start
       IN  IF p >= idx.size THEN pc' = "done" /\ UNCHANGED <<start, found>>
           ELSE IF BruteHit(p) THEN AddOrStop(LineOf(p), Beyond(p))
           ELSE start' = p + 1 /\ UNCHANGED <<pc, found>>
    /\ UNCHANGED <<static, key, end, previous, skip, item>>

(* dict_search_bmh: the n last characters that count up to p, compared     *)
(* from the last to the first; the position before them, or -2.            *)
RECURSIVE Backwards(_, _)
Backwards(n, p) ==
    IF n = 0 THEN p
    ELSE IF p < 0 \/ idx.text[p] \in {Tab, NewLine} THEN -2
    ELSE IF ~Counts(idx.text[p]) THEN Backwards(n, p - 1)
    ELSE IF FoldIn(idx.text[p]) = query.word[n] THEN Backwards(n - 1, p - 1)
    ELSE -2

(* Mutant for EveryStrategyRight: the first place of a character counts.   *)
ShiftByFirst(c) ==
    LET n  == Len(query.word)
        at == {k \in 1 .. n - 1 : query.word[k] = c}
    IN  IF at # {} THEN n - (CHOOSE k \in at : \A m \in at : k <= m)
        ELSE IF Counts(c) THEN n ELSE 1

(* skip[]: how far the word may move when it does not end at a character.  *)
Shift(c) ==
    LET n  == Len(query.word)
        at == {k \in 1 .. n - 1 : query.word[k] = c}
    IN  IF at # {} THEN n - (CHOOSE k \in at : \A m \in at : m <= k)
        ELSE IF Counts(c) THEN n ELSE 1

BmhHit(p) ==
    LET before == Backwards(Len(query.word), p)
        first  == p - Len(query.word) + 1
    IN  /\ before # -2
        /\ query.op \in {"suffix", "last"} => idx.text[p + 1] = Tab
        /\ query.op \in {"word", "last"} => first <= 0 \/ Ends(first - 1)
        /\ query.op = "word" => Ends(p + 1)
        /\ InHeadword(before + 1)

(* Where the word can end first in the line after p.                       *)
NextEnd(p) == UpTo(Beyond(p) + Len(query.word) - 1)

Bmh ==
    /\ pc = "bmh"
    /\ IF start >= idx.size THEN pc' = "done" /\ UNCHANGED <<start, found>>
       ELSE IF idx.text[start] = Tab THEN start' = NextEnd(start) /\ UNCHANGED <<pc, found>>
       ELSE IF BmhHit(start) THEN AddOrStop(LineOf(start), NextEnd(start))
       ELSE start' = UpTo(start + Shift(FoldIn(idx.text[start]))) /\ UNCHANGED <<pc, found>>
    /\ UNCHANGED <<static, key, end, previous, skip, item>>
----------------------------------------------------------------------------
(* dict_search_regexpr and dict_search_soundex: the lines of the table's   *)
(* range for q.first, or all of them when an expression has no first       *)
(* character that counts; q.hits is what regexec() or the soundex code     *)
(* accepts.                                                                *)
AskRange(q) ==
    /\ pc = "ready"
    /\ q.op \in RangeOps
    /\ q.op = "re" => q.first = 0 \/ Counts(q.first)
    /\ query' = q
    /\ start' = IF q.first = 0 THEN 0 ELSE RangeStart(q.first)
    /\ end' = IF q.first = 0 THEN idx.size ELSE RangeEnd(q.first)
    /\ pc' = "range"
    /\ UNCHANGED <<idx, fast, opt, todo, key, previous, skip, item, found>>

RangeStep ==
    /\ pc = "range"
    /\ IF start >= end THEN pc' = "done" /\ UNCHANGED <<start, found>>
       ELSE IF idx.head[start] \in query.hits THEN AddOrStop(start, Beyond(start))
       ELSE start' = Beyond(start) /\ UNCHANGED <<pc, found>>
    /\ UNCHANGED <<static, key, end, previous, skip, item>>
----------------------------------------------------------------------------
(* lev.h: the words one edit away.  The 8-bit version does not put a       *)
(* character in place of itself, the UTF-8 version does.                   *)
Delete(w, k)    == SubSeq(w, 1, k - 1) \o SubSeq(w, k + 1, Len(w))
Insert(w, k, c) == SubSeq(w, 1, k) \o <<c>> \o SubSeq(w, k + 1, Len(w))
Swap(w, k)      == [w EXCEPT ![k - 1] = w[k], ![k] = w[k - 1]]

Edits(w, alphabet) ==
    {Delete(w, k) : k \in 1 .. Len(w)}
    \cup {Swap(w, k) : k \in 2 .. Len(w)}
    \cup {Insert(w, k, c) : k \in 0 .. Len(w), c \in alphabet}
    \cup {[w EXCEPT ![x[1]] = x[2]] :
             x \in {x \in (1 .. Len(w)) \X alphabet : idx.utf8 \/ w[x[1]] # x[2]}}

(* The CHECK of lev.h: the line dict_index_search finds for a word (with   *)
(* fast_start, or for an index that is not case sensitive), if it is equal.*)
FirstEqual(w) == {l \in Lines(idx) : /\ CompareLine(idx, w, l) = 0
                                     /\ \A m \in Lines(idx) : CompareLine(idx, w, m) = 0 => l <= m}

RECURSIVE InOrder(_)
InOrder(S) == IF S = {} THEN <<>>
              ELSE LET l == CHOOSE l \in S : \A m \in S : l <= m IN <<l>> \o InOrder(S \ {l})

(* In the order of the file, which is not the order of the edits.          *)
Lev(q) ==
    /\ pc = "ready"
    /\ q.op = "lev"
    /\ Fits(idx, q)
    /\ fast \/ ~idx.casesensitive
    /\ LET hits == UNION {FirstEqual(w) : w \in Edits(q.word, q.hits)}
           room == IF q.limit = 0 THEN Cardinality(hits)
                   ELSE IF q.had >= q.limit THEN 0 ELSE q.limit - q.had
       IN  \E S \in SUBSET hits :
              /\ Cardinality(S) = IF Cardinality(hits) <= room THEN Cardinality(hits) ELSE room
              /\ found' = InOrder(S)
    /\ query' = q
    /\ pc' = "done"
    /\ UNCHANGED <<idx, fast, opt, todo, key, start, end, previous, skip, item>>

SearchNext ==
    \/ Next
    \/ Brute \/ Bmh \/ RangeStep
    \/ \E q \in Queries : AskScan(q) \/ AskRange(q) \/ Lev(q)

(* A search is one call: it goes on until it has returned, while nobody    *)
(* has to ask for another.                                                 *)
Running == pc # "ready" /\ SearchNext

SearchSpec == Init /\ [][SearchNext]_vars /\ WF_vars(Running)
----------------------------------------------------------------------------
(* Headwords all of whose characters count, as dictfmt writes them.        *)
Plain(h) == \A n \in 1 .. Len(h) : Counts(h[n])

At(h, k) == /\ k + Len(query.word) - 1 <= Len(h)
            /\ \A n \in 1 .. Len(query.word) : FoldIn(h[k + n - 1]) = query.word[n]
Bound(h, k) == k \notin 1 .. Len(h) \/ IsSpacePunct(h[k])

(* The definition the searches are held against: the word stands somewhere *)
(* in the headword, at its end, between two bounds, or both.               *)
Contains(h) ==
    \E k \in 1 .. Len(h) :
        /\ At(h, k)
        /\ query.op \in {"suffix", "last"} => k + Len(query.word) - 1 = Len(h)
        /\ query.op \in {"word", "last"} => Bound(h, k - 1)
        /\ query.op = "word" => Bound(h, k + Len(query.word))

(* A substring, suffix, word or last search finds the headwords the        *)
(* definition says, each once and in order: no shift of the word jumps     *)
(* over an occurrence or over the beginning of a line, and nothing is      *)
(* found in the other columns of the file, which look like words.          *)
ScanFindsEveryLine ==
    pc = "done" /\ query.op \in ScanOps =>
        /\ \A n \in 1 .. Len(found) - 1 : found[n] < found[n + 1]
        /\ \A l \in Found : Plain(idx.head[l]) => Contains(idx.head[l])
        /\ ~Full => \A l \in Lines(idx) :
              Plain(idx.head[l]) /\ Contains(idx.head[l]) => l \in Found

(* The range of a first character leaves out no line an expression or a    *)
(* soundex code accepts, when all it accepts begins with the character,    *)
(* the table has an entry for it, and also for the next character unless a *)
(* line ("00database...") comes before the range.                          *)
RangeKeepsHits ==
    /\ pc = "done"
    /\ query.op \in RangeOps
    /\ ~Full
    /\ fast \/ query.first = 0 \/
          /\ ~idx.casesensitive
          /\ query.first \in TableChars \cup Upper
          /\ Follower(query.first) \in TableChars \/ opt[query.first] > 0
          /\ \A h \in query.hits : h # <<>> /\ Fold(h[1]) = Fold(query.first)
    => \A l \in Lines(idx) : idx.head[l] \in query.hits => l \in Found

(* dictd.8 says of the table that it is there "to make the search faster": *)
(* expressions and soundex leave nothing out of an index that is not case  *)
(* sensitive, whatever character all they accept begins with.              *)
RangeOnlySpeeds ==
    /\ pc = "done"
    /\ query.op \in RangeOps
    /\ ~Full /\ ~idx.casesensitive
    /\ query.first = 0 \/ \A h \in query.hits : h # <<>> /\ Fold(h[1]) = Fold(query.first)
    => \A l \in Lines(idx) : idx.head[l] \in query.hits => l \in Found

(* One edit, as a relation between two words of the alphabet.              *)
Shorter(w, h) == Len(w) = Len(h) + 1 /\ \E k \in 1 .. Len(w) : Delete(w, k) = h
OneEdit(w, h) ==
    \/ Shorter(w, h)
    \/ Shorter(h, w)
    \/ Len(w) = Len(h) /\ Cardinality({n \in 1 .. Len(w) : w[n] # h[n]}) = 1
    \/ /\ Len(w) = Len(h)
       /\ \E k \in 2 .. Len(w) : /\ w[k] = h[k - 1] /\ w[k - 1] = h[k]
                                 /\ \A n \in (1 .. Len(w)) \ {k, k - 1} : w[n] = h[n]

(* lev finds every headword one edit away, and nothing farther away than   *)
(* one edit.                                                               *)
Normal(l) == LET h == Kept(idx, idx.head[l]) IN [n \in 1 .. Len(h) |-> FoldIn(h[n])]

LevFindsNeighbours ==
    pc = "done" /\ query.op = "lev" =>
        /\ \A l \in Found : OneEdit(query.word, Normal(l)) \/ query.word = Normal(l)
        /\ ~Full => \A l \in Lines(idx) :
              /\ OneEdit(query.word, Normal(l))
              /\ \A n \in 1 .. Len(Normal(l)) : Normal(l)[n] \in query.hits
              => \E m \in Found : Normal(m) = Normal(l)

(* Every search ends, whatever the index and the word: no loop stays at a  *)
(* line or a byte, and neither does the filling of the table.              *)
EverySearchEnds == pc # "ready" ~> pc = "ready"

(* nprefix cuts a window out of the lines prefix finds: skip_count of them *)
(* are left out, item_count given, whatever lies between.                  *)
WantedBefore(l) == {m \in Lines(idx) : m < l /\ Wanted(query, m)}

WindowRight ==
    pc = "done" /\ query.op = "prefix" /\ ~Full /\ (fast \/ ~idx.casesensitive) =>
        Found = {l \in Lines(idx) : /\ Wanted(query, l)
                                    /\ Cardinality(WantedBefore(l)) >= query.skip
                                    /\ Cardinality(WantedBefore(l)) < query.skip + query.item}

(* Every strategy that reads on from a line, or through the whole index,   *)
(* finds what the headwords read one by one say.                           *)
EveryStrategyRight == /\ ScanFindsEveryLine
                      /\ RangeKeepsHits
                      /\ LevFindsNeighbours
                      /\ WindowRight
=============================================================================
