-------------------------- MODULE RangesDifference --------------------------
(***************************************************************************)
(* ranges_difference of axplat/src/mem.rs, one step per loop iteration:    *)
(* first check_sorted_ranges_overlap on `exclude`, then for each range of  *)
(* `from` a pass over `exclude` that reports what is left of it.           *)
(*                                                                         *)
(* A range is a pair <<start, size>> of machine words.  Words are the      *)
(* naturals below W and the sum of two of them wraps around, as it does    *)
(* in a release build.                                                     *)
(***************************************************************************)
EXTENDS Integers, Sequences

CONSTANTS W,            \* the number of words, 2^64 on the real machines
          FROM,         \* the lists of ranges passed as `from`
          EXCLUDE       \* the lists of ranges passed as `exclude`

Word == 0 .. W - 1

RawRange == Word \X Word

ASSUME WAssumption == W \in Nat \ {0}
ASSUME InputAssumption == FROM \subseteq Seq(RawRange) /\ EXCLUDE \subseteq Seq(RawRange)

VARIABLES
    from, exclude,  \* the arguments
    pc,             \* "check", "from" and "exclude" are the heads of the loops
    k,              \* the next range of `from`
    j,              \* the next range of `exclude`
    start, end,     \* what is left of from[k]
    out             \* the ranges passed to result_op so far

input == <<from, exclude>>
vars == <<from, exclude, pc, k, j, start, end, out>>

\* start + size, in usize.
Add(a, b) == IF a + b < W THEN a + b ELSE a + b - W

RangeEnd(r) == Add(r[1], r[2])

Init == /\ from \in FROM
        /\ exclude \in EXCLUDE
        /\ pc = "check"
        /\ k = 1
        /\ j = 1
        /\ start = 0
        /\ end = 0
        /\ out = << >>

-----------------------------------------------------------------------------
(* check_sorted_ranges_overlap(exclude)                                    *)

\* prev.end; prev is 0..0 at first.
PrevEnd == IF j = 1 THEN 0 ELSE RangeEnd(exclude[j - 1])

\* Mutant: two ranges are compared by their starts only.
OverlapsStarts == j > 1 /\ exclude[j - 1][1] > exclude[j][1]

\* `prev.end > start`
Overlaps == PrevEnd > exclude[j][1]

CheckNext == /\ pc = "check"
             /\ j <= Len(exclude)
             /\ ~Overlaps
             /\ j' = j + 1
             /\ UNCHANGED <<input, pc, k, start, end, out>>

CheckErr == /\ pc = "check"
            /\ j <= Len(exclude)
            /\ Overlaps
            /\ pc' = "err"
            /\ UNCHANGED <<input, k, j, start, end, out>>

CheckOk == /\ pc = "check"
           /\ j > Len(exclude)
           /\ pc' = "from"
           /\ UNCHANGED <<input, k, j, start, end, out>>

-----------------------------------------------------------------------------
(* The loops over `from` and `exclude`.                                    *)

NextFrom == /\ pc = "from"
            /\ k <= Len(from)
            /\ start' = from[k][1]
            /\ end' = RangeEnd(from[k])
            /\ j' = 1
            /\ pc' = "exclude"
            /\ UNCHANGED <<input, k, out>>

exclude_start == exclude[j][1]
exclude_end == RangeEnd(exclude[j])

\* The test of the `break`.
PastEnd == exclude_start >= end

\* The range ends before what is left of from[k]: `continue`.
SkipExclude == /\ pc = "exclude"
               /\ j <= Len(exclude)
               /\ exclude_end <= start
               /\ j' = j + 1
               /\ UNCHANGED <<input, pc, k, start, end, out>>

\* Mutant: what is left starts at the end of the excluded range only if a piece
\* before that range was reported.
CarveForgetsStart ==
    /\ pc = "exclude"
    /\ j <= Len(exclude)
    /\ exclude_end > start
    /\ ~PastEnd
    /\ IF exclude_start > start
       THEN out' = Append(out, <<start, exclude_start - start>>) /\ start' = exclude_end
       ELSE UNCHANGED <<out, start>>
    /\ j' = j + 1
    /\ UNCHANGED <<input, pc, k, end>>

\* Mutant: an empty piece is reported too.
CarveReportsEmpty ==
    /\ pc = "exclude"
    /\ j <= Len(exclude)
    /\ exclude_end > start
    /\ ~PastEnd
    /\ out' = IF exclude_start >= start
              THEN Append(out, <<start, exclude_start - start>>) ELSE out
    /\ start' = exclude_end
    /\ j' = j + 1
    /\ UNCHANGED <<input, pc, k, end>>

\* The range cuts what is left of from[k]: the piece before it is reported,
\* unless it is empty, and the piece after it is left.
Carve == /\ pc = "exclude"
         /\ j <= Len(exclude)
         /\ exclude_end > start
         /\ ~PastEnd
         /\ out' = IF exclude_start > start
                   THEN Append(out, <<start, exclude_start - start>>) ELSE out
         /\ start' = exclude_end
         /\ j' = j + 1
         /\ UNCHANGED <<input, pc, k, end>>

\* The inner loop is over, by its `break` or at the end of `exclude`; the piece
\* that is left is reported, unless it is empty.
EndFrom == /\ pc = "exclude"
           /\ j <= Len(exclude) => exclude_end > start /\ PastEnd
           /\ out' = IF start < end THEN Append(out, <<start, end - start>>) ELSE out
           /\ k' = k + 1
           /\ pc' = "from"
           /\ UNCHANGED <<input, j, start, end>>

Return == /\ pc = "from"
          /\ k > Len(from)
          /\ pc' = "done"
          /\ UNCHANGED <<input, k, j, start, end, out>>

-----------------------------------------------------------------------------
Next == \/ CheckNext \/ CheckErr \/ CheckOk
        \/ NextFrom \/ SkipExclude \/ Carve \/ EndFrom \/ Return

Spec == Init /\ [][Next]_vars

-----------------------------------------------------------------------------
(* Properties.                                                             *)

\* Every variable has its type; indices stay within their lists (used by the
\* proofs).
TypeOK == /\ from \in Seq(RawRange)
          /\ exclude \in Seq(RawRange)
          /\ pc \in {"check", "from", "exclude", "done", "err"}
          /\ k \in 1 .. Len(from) + 1
          /\ j \in 1 .. Len(exclude) + 1
          /\ start \in Word
          /\ end \in Word
          /\ out \in Seq(RawRange)

\* The addresses of a range, without wrapping, and those of a list of ranges.
Cells(r) == {a \in Word : r[1] <= a /\ a < r[1] + r[2]}

Covered(s) == {a \in Word : \E n \in DOMAIN s : a \in Cells(s[n])}

\* Every end of a range is a word.
Fits(s) == \A n \in DOMAIN s : s[n][1] + s[n][2] < W

\* Sorted by the start and without overlaps.
SortedDisjoint(s) ==
    \A m, n \in DOMAIN s : m < n => s[m][1] + s[m][2] <= s[n][1]

\* The result covers exactly the addresses of `from` that are not in `exclude`
\* (mem.rs:234-236), for all ranges whose ends are representable.
Difference ==
    Fits(from) /\ Fits(exclude) /\ pc = "done"
        => Covered(out) = Covered(from) \ Covered(exclude)

\* The call is refused exactly when `exclude` is not sorted and free of
\* overlaps (mem.rs:230-232): comparing neighbours is enough.
RefusesUnsorted ==
    Fits(exclude) => /\ pc = "err" => ~SortedDisjoint(exclude)
                     /\ pc = "done" => SortedDisjoint(exclude)

\* If `from` is sorted and free of overlaps, so is the result, and no range of
\* it is empty: it can be excluded in turn (mem.rs:267-274).
ResultSorted ==
    /\ Fits(from) /\ Fits(exclude) /\ SortedDisjoint(from) => SortedDisjoint(out)
    /\ \A n \in DOMAIN out : out[n][2] > 0
=============================================================================
