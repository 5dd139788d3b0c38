------------------------------ MODULE FindStr ------------------------------
(***************************************************************************)
(* src/item/findStrFromMat/src/findstr.cpp: is a word spelled by a chain   *)
(* of horizontally and vertically adjacent cells of a letter matrix, no    *)
(* cell twice?  recursion() is a depth-first search that marks the cells   *)
(* it enters (setUsed) and never unmarks one.  Its call is the operator of *)
(* that name, with the marks threaded through; one step answers one word.  *)
(***************************************************************************)
EXTENDS Integers, Sequences, SequencesExt

CONSTANTS
    Letters,
    GridRow, GridCol,   \* the matrix; with two rows no cell has four neighbours
    MaxWord             \* bound: the length of a word

VARIABLES
    grid,       \* pchar
    word,       \* curstr
    ret         \* what findSingleStr returned: 0 found, 1 not; -1 before

fsvars == <<grid, word, ret>>

Cells == (0..GridRow - 1) \X (0..GridCol - 1)
Words == UNION {[1..n -> Letters] : n \in 1..MaxWord}

FindInit(grids, words) == grid \in grids /\ word \in words /\ ret = -1

(* Mutant: notUsed does not look at the mark.                              *)
mut_notUsed(used, c) == c \in Cells

(* notUsed: outside the matrix it is 0, as after an unsigned wrap.         *)
notUsed(used, c) == c \in Cells /\ c \notin used

(* The four calls of checkPos: right, left, up, down.                      *)
checkPos(used, c, ch) ==
    SelectSeq(<< <<c[1], c[2] + 1>>, <<c[1], c[2] - 1>>,
                 <<c[1] - 1, c[2]>>, <<c[1] + 1, c[2]>> >>,
              LAMBDA d : notUsed(used, d) /\ grid[d] = ch)

(* recursion(c, w): [ret, used], the result and the marks it leaves.  The  *)
(* candidates are computed before the loop and not looked at again.        *)
RECURSIVE recursion(_, _, _), try(_, _, _)
recursion(used, c, w) ==
    LET pos == checkPos(used, c, Head(w))
    IN  IF pos # <<>> /\ Len(w) = 1 THEN [ret |-> 0, used |-> used]
        ELSE try(used, pos, w)

(* The loop over the candidates.                                           *)
try(used, pos, w) ==
    IF pos = <<>> THEN [ret |-> 1, used |-> used]
    ELSE LET r == recursion(used \cup {Head(pos)}, Head(pos), Tail(w))
         IN  IF r.ret = 0 THEN r ELSE try(r.used, Tail(pos), w)

start(c) == grid[c] = word[1]

findSingleStr ==
    /\ ret = -1
    /\ ret' = IF \E c \in Cells :
                    /\ start(c)
                    /\ Len(word) = 1 \/ recursion({c}, c, Tail(word)).ret = 0
              THEN 0 ELSE 1
    /\ UNCHANGED <<grid, word>>

FindNext == findSingleStr

FindSpec == FindInit([Cells -> Letters], Words) /\ [][FindNext]_fsvars

(* The two rules of readme.md, by an exhaustive search.                    *)
Adjacent(c, d) ==
    \/ c[1] = d[1] /\ c[2] - d[2] \in {-1, 1}
    \/ c[2] = d[2] /\ c[1] - d[1] \in {-1, 1}

RECURSIVE ChainFrom(_, _, _)
ChainFrom(c, w, used) ==
    w = <<>> \/ \E d \in Cells \ used :
                    /\ Adjacent(c, d) /\ grid[d] = Head(w)
                    /\ ChainFrom(d, Tail(w), used \cup {d})

InMatrix == \E c \in Cells : grid[c] = word[1] /\ ChainFrom(c, Tail(word), {c})

(* A word findSingleStr reports is in the matrix under the rules of        *)
(* readme.md: adjacent cells, none used twice.                             *)
FoundIsThere == ret = 0 => InMatrix

(* A word of up to four letters that is in the matrix is found, although   *)
(* the marks of a failed branch stay: only from the fifth letter on can    *)
(* they hide a chain.                                                      *)
ShortWordsFound == (ret = 1 /\ Len(word) <= 4) => ~InMatrix

(* What readme.md asks: a word that is in the matrix is found.             *)
WordsFound == ret = 1 => ~InMatrix

\* findSingleStr reports only words that are in the matrix, and all of them that
\* have up to four letters.
FindSafe == FoundIsThere /\ ShortWordsFound
=============================================================================
