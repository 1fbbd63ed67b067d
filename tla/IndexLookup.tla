---------------------------- MODULE IndexLookup ----------------------------
(***************************************************************************)
(* The search of a sorted index file (libdictd/index.c): the table of      *)
(* first characters that dict_index_open builds, the binary search over    *)
(* byte positions, the linear search after it, and the exact, prefix,      *)
(* nprefix and first strategies that read on from the line it finds.       *)
(*                                                                         *)
(* An index is the set of byte positions at which its lines begin, with    *)
(* the headword and the other columns of each.  FIND_PREV and FIND_NEXT,   *)
(* which walk over bytes to the beginning of a line, are relations between *)
(* the position before and the position after.  Characters are numbers in  *)
(* byte order.                                                             *)
(***************************************************************************)
EXTENDS Integers, Sequences

CONSTANTS
    Space, Digits, Lower, Upper, Punct, High,   \* characters, by class
    LowerOf,        \* tolower() of capitals
    Indexes,        \* the index files
    Queries         \* normalised requests

Char == Space \cup Digits \cup Lower \cup Upper \cup Punct \cup High

NoLine   == -1      \* a null pointer
NoColumn == <<-1>>  \* a line of three columns

(* dict_table_init: isspacealnumtab and tolowertab (in UTF-8 mode bytes    *)
(* above 127 are kept as they are).                                        *)
IsSpaceAlnum(c) == c \in Space \cup Digits \cup Lower \cup Upper \cup High
IsSpacePunct(c) == c \in Space \cup Punct
Fold(c) == IF c \in Upper THEN LowerOf[c] ELSE c

(* char2indextab: capitals have no place in it, they are all 0; the others *)
(* keep their order.                                                       *)
Rank(c) == IF c \in Upper THEN 0 ELSE c

(* i2c(c2i(c)+1): the next character that is no capital, or NUL.           *)
Follower(c) ==
    LET later == {d \in Char \ Upper : d > c}
    IN  IF c \in Upper \/ c = 0 \/ later = {} THEN 0
        ELSE CHOOSE d \in later : \A e \in later : d <= e

(* The characters dict_index_open enters into optStart.                    *)
TableChars == Space \cup Lower \cup High \cup Digits

Lines(i) == DOMAIN i.head

(* compare(): whole bytes for UTF-8 and all-characters indexes, and        *)
(* otherwise only letters, digits and blanks of the entry.                 *)
ByBytes(i) == i.allchars \/ i.utf8

Kept(i, s) == IF ByBytes(i) THEN s ELSE SelectSeq(s, IsSpaceAlnum)

Same(i, c, d) == IF ByBytes(i) \/ i.casesensitive THEN c = d ELSE Fold(c) = Fold(d)

Below(i, c, d) ==
    IF ByBytes(i) THEN c < d
    ELSE IF i.casesensitive THEN Rank(c) < Rank(d)
    ELSE Rank(Fold(c)) < Rank(Fold(d))

(* -2: w is less than s; -1: w is a proper prefix of s; 0: equal; 1: w is  *)
(* greater.                                                                *)
Compare(i, w, s) ==
    LET k == Kept(i, s)
        differ == {n \in 1 .. Len(w) : n <= Len(k) /\ ~Same(i, w[n], k[n])}
    IN  IF differ # {}
        THEN IF \E n \in differ : (\A m \in differ : n <= m) /\ Below(i, w[n], k[n])
             THEN -2 ELSE 1
        ELSE IF Len(w) > Len(k) THEN 1
        ELSE IF Len(w) < Len(k) THEN -1
        ELSE 0

CompareLine(i, w, l) == Compare(i, w, i.head[l])

(* compare_1or4: of a line of four columns it takes the third.             *)
Column1or4(i, l) == IF i.fourth[l] # NoColumn THEN i.third[l] ELSE i.head[l]

(* What a line answers: its fourth column, or its first (dict_word_create).*)
Answer(i, l) == IF i.fourth[l] # NoColumn THEN i.fourth[l] ELSE i.head[l]

(* FIND_PREV(begin, p) stops at q, and FIND_NEXT(p, end) stops at q.       *)
FindPrev(i, begin, p, q) ==
    /\ q \in begin .. p
    /\ q = begin \/ q \in Lines(i)
    /\ \A l \in Lines(i) : ~(q < l /\ l <= p)

FindNext(i, p, end, q) ==
    /\ q \in p + 1 .. end
    /\ q = end \/ q \in Lines(i)
    /\ \A l \in Lines(i) : ~(p < l /\ l < q)

(* An index file: lines in one piece, sorted for the comparison that       *)
(* searches it ("sort -df" or byte order, as dictfmt leaves it).  What is  *)
(* kept of a word is always a word; it is said here for the proofs, which  *)
(* cannot look into SelectSeq.                                             *)
IndexType(i) ==
    /\ i.size \in Nat
    /\ {i.allchars, i.utf8, i.casesensitive} \subseteq BOOLEAN
    /\ Lines(i) \subseteq 0 .. i.size - 1
    /\ i.size > 0 => 0 \in Lines(i)
    /\ \A l \in Lines(i) : i.head[l] \in Seq(Char) /\ Kept(i, i.head[l]) \in Seq(Char)

SortedFor(i, w) == \A l, m \in Lines(i) : l < m => CompareLine(i, w, m) <= CompareLine(i, w, l)

Ops == {"exact", "prefix", "first"}

QueryType(q) ==
    /\ q.word \in Seq(Char)
    /\ q.uniq \in BOOLEAN
    /\ {q.skip, q.item, q.limit, q.had} \subseteq Nat

(* tolower_alnumspace leaves no capital in a word unless the index is case *)
(* sensitive.                                                              *)
Fits(i, q) == i.casesensitive \/ \A n \in 1 .. Len(q.word) : q.word[n] \notin Upper

ASSUME LookupAssumption ==
    /\ Char \subseteq Nat \ {0}
    /\ Upper \cap TableChars = {}
    /\ \A c \in Upper : LowerOf[c] \in Lower
    /\ \A i \in Indexes : IndexType(i)
    /\ \A q \in Queries : QueryType(q)
    /\ \A i \in Indexes, q \in Queries : q.op \in Ops /\ Fits(i, q) => SortedFor(i, q.word)
    /\ \A i \in Indexes, c \in TableChars : SortedFor(i, <<c>>)

VARIABLES
    idx,            \* the index
    fast,           \* fast_start: optStart_mode is off
    opt,            \* idx->optStart
    todo,           \* characters still to enter into it
    pc,             \* where the search is
    query,          \* the request
    key,            \* the word the binary search looks for
    start, end,     \* the bounds of the search, then the line it is at
    previous,       \* the column of the match before
    skip, item,     \* skip_count and item_count
    found           \* the list of lines

vars == <<idx, fast, opt, todo, pc, query, key, start, end, previous, skip, item, found>>
static == <<idx, fast, opt, todo, query>>
----------------------------------------------------------------------------
(* Loops of the strategies that do not look a word up (module IndexSearch).*)
OtherScans == {"brute", "bmh", "range"}

NoQuery == [op |-> "none", word |-> <<>>, uniq |-> FALSE, skip |-> 0, item |-> 0,
            limit |-> 0, had |-> 0]

(* dict_index_open: every entry of the table starts at the beginning.      *)
Init ==
    /\ idx \in Indexes
    /\ fast \in BOOLEAN
    /\ opt = [c \in Char \cup {0} |-> 0]
    /\ todo = IF fast THEN {} ELSE TableChars
    /\ pc = "open"
    /\ query = NoQuery
    /\ key = <<>>
    /\ start = 0 /\ end = 0
    /\ previous = NoLine
    /\ skip = 0 /\ item = 0
    /\ found = <<>>

(* binary_search_8bit for one character after the other.                   *)
OpenTable ==
    /\ pc = "open"
    /\ \E c \in todo :
          /\ \A d \in todo : c <= d
          /\ key' = <<c>>
    /\ pc' = "fill"
    /\ start' = 0
    /\ end' = idx.size
    /\ UNCHANGED <<static, previous, skip, item, found>>

TableDone ==
    /\ pc = "open"
    /\ todo = {}
    /\ pc' = "ready"
    /\ UNCHANGED <<static, key, start, end, previous, skip, item, found>>

(* The line the next comparison is with.                                   *)
Probe(p) == FindPrev(idx, start, start + (end - start) \div 2, p)

(* Mutant for TypeOK: the range ends before the byte of the line.          *)
NarrowLeftBefore ==
    /\ pc \in {"fill", "search"}
    /\ start < end
    /\ \E p \in Lines(idx) : /\ Probe(p)
                             /\ CompareLine(idx, key, p) # 1
                             /\ end' = p - 1
    /\ UNCHANGED <<static, pc, key, start, previous, skip, item, found>>

(* Mutant for FindsEveryLine: an equal line ends the search.               *)
NarrowLeftAtEqual ==
    /\ pc \in {"fill", "search"}
    /\ start < end
    /\ \E p \in Lines(idx) : /\ Probe(p)
                             /\ CompareLine(idx, key, p) # 1
                             /\ end' = p
                             /\ start' = IF CompareLine(idx, key, p) = 0 THEN p ELSE start
    /\ UNCHANGED <<static, pc, key, previous, skip, item, found>>

(* One turn of the loop of binary_search and binary_search_8bit.           *)
NarrowLeft ==
    /\ pc \in {"fill", "search"}
    /\ start < end
    /\ \E p \in Lines(idx) : /\ Probe(p)
                             /\ CompareLine(idx, key, p) # 1
                             /\ end' = p
    /\ UNCHANGED <<static, pc, key, start, previous, skip, item, found>>

(* Mutant for EverySearchEnds: the line compared stays in the range.       *)
NarrowRightTo ==
    /\ pc \in {"fill", "search"}
    /\ start < end
    /\ \E p \in Lines(idx) : /\ Probe(p)
                             /\ CompareLine(idx, key, p) = 1
                             /\ start' = p
    /\ UNCHANGED <<static, pc, key, end, previous, skip, item, found>>

NarrowRight ==
    /\ pc \in {"fill", "search"}
    /\ start < end
    /\ \E p \in Lines(idx), q \in Lines(idx) \cup {end} :
          /\ Probe(p)
          /\ CompareLine(idx, key, p) = 1
          /\ FindNext(idx, p, end, q)
          /\ start' = q
    /\ UNCHANGED <<static, pc, key, end, previous, skip, item, found>>

(* The result is entered for the character and its capital.                *)
FillEntry ==
    /\ pc = "fill"
    /\ start >= end
    /\ opt' = [c \in DOMAIN opt |->
                  IF c = key[1] \/ (c \in Upper /\ Fold(c) = key[1]) THEN start ELSE opt[c]]
    /\ todo' = todo \ {key[1]}
    /\ pc' = "open"
    /\ UNCHANGED <<idx, fast, query, key, start, end, previous, skip, item, found>>

(* dict_index_search: the range between two entries of the table.          *)
FirstChar(w) == IF w = <<>> THEN 0 ELSE w[1]

RangeStart(c) == IF fast THEN 0 ELSE opt[c]
RangeEnd(c) ==
    IF fast \/ opt[Follower(c)] < opt[c] THEN idx.size ELSE opt[Follower(c)]

Ask(q) ==
    /\ pc = "ready"
    /\ q.op \in Ops
    /\ Fits(idx, q)
    /\ query' = q
    /\ key' = q.word
    /\ start' = RangeStart(FirstChar(q.word))
    /\ end' = RangeEnd(FirstChar(q.word))
    /\ skip' = q.skip
    /\ item' = q.item
    /\ previous' = NoLine
    /\ found' = <<>>
    /\ pc' = "search"
    /\ UNCHANGED <<idx, fast, opt, todo>>

SearchEnds ==
    /\ pc = "search"
    /\ start >= end
    /\ pc' = "linear"
    /\ UNCHANGED <<static, key, start, end, previous, skip, item, found>>

(* linear_search, always up to the end of the index.                       *)
Advance == \E q \in Lines(idx) \cup {idx.size} : FindNext(idx, start, idx.size, q) /\ start' = q

LinearSkip ==
    /\ pc = "linear"
    /\ start < idx.size
    /\ CompareLine(idx, key, start) = 1
    /\ Advance
    /\ UNCHANGED <<static, pc, key, end, previous, skip, item, found>>

LinearEnds ==
    /\ pc = "linear"
    /\ pc' = IF start < idx.size /\ CompareLine(idx, key, start) # -2 THEN "scan" ELSE "done"
    /\ start < idx.size => CompareLine(idx, key, start) # 1
    /\ UNCHANGED <<static, key, start, end, previous, skip, item, found>>

(* What the loops of dict_search_exact and dict_search_prefix_first go on  *)
(* for, and the limit in dict_add_word_to_list.                            *)
Matches(q, l) ==
    CompareLine(idx, q.word, l) \in IF q.op = "exact" THEN {0} ELSE {-1, 0}

Full == query.limit > 0 /\ query.had + Len(found) >= query.limit

(* The line is not like the one before.  previous is only written by the   *)
(* comparison that its being null prevents.                                *)
Unlike(l) ==
    \/ query.op = "exact" /\ ~query.uniq
    \/ previous # NoLine => Compare(idx, Column1or4(idx, previous), Column1or4(idx, l)) # 0

(* BMH_FIRST: the byte after as many bytes as the word has.                *)
WholeWord(q, l) ==
    Len(idx.head[l]) > Len(q.word) => IsSpacePunct(idx.head[l][Len(q.word) + 1])

Wanted(q, l) == Matches(q, l) /\ (q.op = "first" => WholeWord(q, l))

Remember(l) ==
    previous' = IF previous # NoLine /\ (query.op # "exact" \/ query.uniq) THEN l ELSE previous

AtMatch ==
    /\ pc = "scan"
    /\ query.op # "exact" => item > 0
    /\ start < idx.size
    /\ Matches(query, start)

Taken == AtMatch /\ Unlike(start) /\ Wanted(query, start) /\ (query.op = "exact" \/ skip = 0)

(* A line that is passed over: like the one before, not a whole word, or   *)
(* one of those to skip.                                                   *)
ScanPass ==
    /\ AtMatch
    /\ ~Taken
    /\ skip' = IF Unlike(start) /\ Wanted(query, start) /\ query.op # "exact"
               THEN skip - 1 ELSE skip
    /\ Remember(start)
    /\ Advance
    /\ UNCHANGED <<static, pc, key, end, item, found>>

(* A line that is added; the last one that was asked for ends the search.  *)
ScanTake ==
    /\ Taken
    /\ ~Full
    /\ found' = Append(found, start)
    /\ item' = IF query.op = "exact" THEN item ELSE item - 1
    /\ Remember(start)
    /\ pc' = IF query.op # "exact" /\ item = 1 THEN "done" ELSE "scan"
    /\ Advance
    /\ UNCHANGED <<static, key, end, skip>>

(* The limit, the end of the index, a line that does not match, or nothing *)
(* asked for.                                                              *)
ScanEnds ==
    /\ pc = "scan"
    /\ ~AtMatch \/ (Taken /\ Full)
    /\ pc' = "done"
    /\ UNCHANGED <<static, key, start, end, previous, skip, item, found>>

(* The list goes to the caller.                                            *)
Return ==
    /\ pc = "done"
    /\ pc' = "ready"
    /\ query' = NoQuery
    /\ key' = <<>>
    /\ start' = 0 /\ end' = 0
    /\ previous' = NoLine
    /\ skip' = 0 /\ item' = 0
    /\ found' = <<>>
    /\ UNCHANGED <<idx, fast, opt, todo>>

Next ==
    \/ OpenTable \/ TableDone \/ FillEntry
    \/ NarrowLeft \/ NarrowRight \/ SearchEnds
    \/ LinearSkip \/ LinearEnds
    \/ ScanPass \/ ScanTake \/ ScanEnds
    \/ Return
    \/ \E q \in Queries : Ask(q)

Spec == Init /\ [][Next]_vars
----------------------------------------------------------------------------
TypeOK ==
    /\ idx \in Indexes
    /\ fast \in BOOLEAN
    /\ opt \in [Char \cup {0} -> 0 .. idx.size]
    /\ todo \subseteq TableChars
    /\ pc \in {"open", "fill", "ready", "search", "linear", "scan", "done"} \cup OtherScans
    /\ query \in Queries \cup {NoQuery}
    /\ key \in Seq(Char)
    /\ start \in 0 .. idx.size
    /\ end \in 0 .. idx.size
    /\ previous \in Lines(idx) \cup {NoLine}
    /\ skip \in Nat
    /\ item \in Nat
    /\ found \in Seq(Lines(idx))

Found == {found[n] : n \in 1 .. Len(found)}

(* When a search is done, the lines in the list are wanted, each is there  *)
(* once and in the order of the file, and unless lines were to be skipped, *)
(* a limit was reached or as many as were asked for are found, none that   *)
(* is wanted is missing - wherever the byte in the middle fell, however    *)
(* long the lines are, and however many of them are equal.                 *)
AnswerRight ==
    pc = "done" /\ query.op \in Ops =>
        /\ \A n \in 1 .. Len(found) : Wanted(query, found[n])
        /\ \A n \in 1 .. Len(found) - 1 : found[n] < found[n + 1]
        /\ ~Full /\ query.skip = 0 /\ (query.op # "exact" => item > 0) =>
              \A l \in Lines(idx) : Wanted(query, l) => l \in Found

(* The answer is right with fast_start, and with the table of first        *)
(* characters when the index is not case sensitive (dict_index_search).    *)
FindsEveryLine == fast \/ ~idx.casesensitive => AnswerRight

(* dictd.8 says of the table that it is there "to make the search faster": *)
(* what is found with it is what is found without, for every index.        *)
TableOnlySpeeds == AnswerRight

(* NEWS says of a MATCH that the unicity of the fourth column is checked   *)
(* if there is one, and of the first otherwise: of matches next to each    *)
(* other no two answer the same.                                           *)
MatchesUnique ==
    pc = "done" /\ query.uniq /\ query.op \in Ops =>
        \A n \in 1 .. Len(found) - 1 : Answer(idx, found[n]) # Answer(idx, found[n + 1])

(* The binary search ends: every turn of its loop leaves a smaller range,  *)
(* though FIND_PREV may go back to its beginning and FIND_NEXT up to its   *)
(* end.                                                                    *)
SearchShrinks ==
    [][(pc \in {"fill", "search"} /\ pc' = pc) => end' - start' < end - start]_vars
=============================================================================
