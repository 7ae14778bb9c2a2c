----------------------- MODULE RangesDifferenceProofs -----------------------
(***************************************************************************)
(* ranges_difference computes the difference of two sets of addresses, for *)
(* lists of ranges of any length and words of any width, as long as the    *)
(* ends of all ranges are words.                                           *)
(***************************************************************************)
EXTENDS RangesDifference, TLAPS

\* The addresses of from[1], ..., from[k - 1], and the part of from[k] before
\* `start`: what the loops have been through.
Passed == {a \in Word :
             \/ \E n \in DOMAIN from : n < k /\ a \in Cells(from[n])
             \/ pc = "exclude" /\ from[k][1] <= a /\ a < start /\ a < end}

\* check_sorted_ranges_overlap: the ranges before exclude[j] are in order; if
\* it fails, two neighbours are not.
Checked ==
    Fits(exclude) =>
        /\ pc = "check" =>
             \A m, n \in DOMAIN exclude :
                m < n /\ n < j => exclude[m][1] + exclude[m][2] <= exclude[n][1]
        /\ pc = "err" =>
             \E m, n \in DOMAIN exclude :
                m < n /\ exclude[m][1] + exclude[m][2] > exclude[n][1]
        /\ pc \in {"from", "exclude", "done"} => SortedDisjoint(exclude)

\* The inner loop: the excluded ranges it is past end before what is left.
Inner ==
    Fits(from) /\ Fits(exclude) /\ pc = "exclude" =>
        /\ from[k][1] <= start
        /\ end = from[k][1] + from[k][2]
        /\ \A n \in DOMAIN exclude : n < j => exclude[n][1] + exclude[n][2] <= start

\* The result so far.
Result ==
    Fits(from) /\ Fits(exclude) =>
        /\ pc = "check" => k = 1 /\ out = << >>
        /\ pc = "done" => k = Len(from) + 1
        /\ pc \in {"from", "exclude", "done"} => Covered(out) = Passed \ Covered(exclude)

\* The result so far ends before everything that is still to come.
Ordered ==
    Fits(from) /\ Fits(exclude) /\ SortedDisjoint(from) =>
        /\ SortedDisjoint(out)
        /\ \A n \in DOMAIN out :
             /\ pc = "exclude" => out[n][1] + out[n][2] <= start
             /\ \A m \in DOMAIN from : m > k \/ (m = k /\ pc = "from")
                    => out[n][1] + out[n][2] <= from[m][1]

NonEmpty == \A n \in DOMAIN out : out[n][2] > 0

IInv == /\ TypeOK
        /\ pc = "check" => out = << >>
        /\ pc = "exclude" => k \in DOMAIN from
        /\ Checked
        /\ Inner
        /\ Result
        /\ Ordered
        /\ NonEmpty

-----------------------------------------------------------------------------
\* The sum of two words is a word (mem.rs:259, 262: `start + size`), and it is
\* the sum of the numbers if that is a word.
LEMMA AddWord ==
    ASSUME NEW a \in Word, NEW b \in Word
    PROVE  /\ Add(a, b) \in Word
           /\ a + b < W => Add(a, b) = a + b
BY WAssumption DEF Add, Word

\* Reporting a range adds its addresses to the result (mem.rs:268, 273).
LEMMA AppendCovers ==
    ASSUME NEW s \in Seq(RawRange), NEW r \in RawRange
    PROVE  Covered(Append(s, r)) = Covered(s) \cup Cells(r)
<1>. DEFINE t == Append(s, r)
<1>1. /\ DOMAIN t = 1 .. Len(s) + 1
      /\ DOMAIN s = 1 .. Len(s)
      /\ Len(s) \in Nat
      /\ \A n \in DOMAIN s : t[n] = s[n]
      /\ t[Len(s) + 1] = r
  OBVIOUS
<1>2. Cells(r) \subseteq Word
  BY DEF Cells
<1>. QED  BY <1>1, <1>2 DEF Covered

\* A range that begins after the end of all others can be appended to a sorted
\* list (mem.rs:268, 273).
LEMMA AppendSorted ==
    ASSUME NEW s \in Seq(RawRange), NEW r \in RawRange,
           SortedDisjoint(s),
           \A n \in DOMAIN s : s[n][1] + s[n][2] <= r[1]
    PROVE  SortedDisjoint(Append(s, r))
<1>. DEFINE t == Append(s, r)
<1>1. /\ DOMAIN t = 1 .. Len(s) + 1
      /\ DOMAIN s = 1 .. Len(s)
      /\ Len(s) \in Nat
      /\ \A n \in DOMAIN s : t[n] = s[n]
      /\ t[Len(s) + 1] = r
  OBVIOUS
<1>. SUFFICES ASSUME NEW m \in DOMAIN t, NEW n \in DOMAIN t, m < n
              PROVE  t[m][1] + t[m][2] <= t[n][1]
  BY DEF SortedDisjoint
<1>. QED  BY <1>1 DEF SortedDisjoint

\* The elements of a list of ranges are pairs of words.
LEMMA Elements ==
    ASSUME NEW s \in Seq(RawRange), NEW n \in DOMAIN s
    PROVE  s[n][1] \in Word /\ s[n][2] \in Word
BY DEF RawRange

-----------------------------------------------------------------------------
\* The invariant holds when the function is called (mem.rs:247-255).
LEMMA InitIInv == Init => IInv
<1>. SUFFICES ASSUME Init PROVE IInv
  OBVIOUS
<1>1. from \in Seq(RawRange) /\ exclude \in Seq(RawRange)
  BY InputAssumption DEF Init
<1>2. Len(from) \in Nat /\ Len(exclude) \in Nat
  BY <1>1
<1>3. TypeOK
  BY <1>1, <1>2, WAssumption DEF Init, TypeOK, Word
<1>4. Checked
  BY <1>1, <1>2 DEF Init, Checked
<1>5. Inner /\ Result /\ Ordered /\ NonEmpty
  BY DEF Init, Inner, Result, Ordered, NonEmpty, SortedDisjoint
<1>. QED  BY <1>3, <1>4, <1>5 DEF IInv, Init

-----------------------------------------------------------------------------
\* The check keeps the invariant (mem.rs:215-226).
LEMMA CheckIInv ==
    ASSUME IInv, CheckNext \/ CheckErr \/ CheckOk
    PROVE  IInv'
<1>. USE DEF IInv
<1>p. /\ pc = "check" /\ from' = from /\ exclude' = exclude /\ k' = k
      /\ start' = start /\ end' = end /\ out' = out
      /\ from \in Seq(RawRange) /\ exclude \in Seq(RawRange)
      /\ Len(exclude) \in Nat /\ j \in 1 .. Len(exclude) + 1
      /\ DOMAIN exclude = 1 .. Len(exclude)
  BY DEF CheckNext, CheckErr, CheckOk, input, TypeOK
<1>e. Fits(exclude)' = Fits(exclude) /\ Fits(from)' = Fits(from)
  BY <1>p DEF Fits
<1>w. \A n \in DOMAIN exclude : exclude[n][1] \in Word /\ exclude[n][2] \in Word
  BY <1>p, Elements
<1>1. TypeOK'
  BY <1>p DEF TypeOK, CheckNext, CheckErr, CheckOk
<1>2. Checked'
  <2>. SUFFICES ASSUME Fits(exclude) PROVE Checked'
    BY <1>e DEF Checked
  <2>f. \A n \in DOMAIN exclude : RangeEnd(exclude[n]) = exclude[n][1] + exclude[n][2]
    BY <1>w, AddWord DEF Fits, RangeEnd
  <2>c. \A m, n \in DOMAIN exclude :
          m < n /\ n < j => exclude[m][1] + exclude[m][2] <= exclude[n][1]
    BY <1>p DEF Checked
  <2>1. CASE CheckNext
    <3>1. j \in DOMAIN exclude /\ j' = j + 1 /\ pc' = "check" /\ ~Overlaps
      BY <2>1, <1>p DEF CheckNext
    <3>2. ASSUME NEW m \in DOMAIN exclude, m < j
          PROVE  exclude[m][1] + exclude[m][2] <= exclude[j][1]
      <4>1. j - 1 \in DOMAIN exclude /\ m <= j - 1
        BY <1>p, <3>1, <3>2
      <4>2. exclude[j - 1][1] + exclude[j - 1][2] <= exclude[j][1]
        BY <3>1, <4>1, <2>f, <1>w, <1>p DEF Overlaps, PrevEnd, Word
      <4>3. CASE m = j - 1
        BY <4>2, <4>3
      <4>4. CASE m < j - 1
        <5>1. exclude[m][1] + exclude[m][2] <= exclude[j - 1][1]
          BY <4>1, <4>4, <2>c, <1>p
        <5>. QED  BY <5>1, <4>1, <4>2, <3>1, <1>w, WAssumption DEF Word
      <4>. QED  BY <4>1, <4>3, <4>4, <1>p
    <3>3. ASSUME NEW m \in DOMAIN exclude, NEW n \in DOMAIN exclude, m < n, n < j'
          PROVE  exclude[m][1] + exclude[m][2] <= exclude[n][1]
      BY <3>1, <3>2, <3>3, <2>c, <1>p
    <3>. QED  BY <3>1, <3>3, <1>p DEF Checked
  <2>2. CASE CheckErr
    <3>1. j \in DOMAIN exclude /\ pc' = "err" /\ Overlaps
      BY <2>2, <1>p DEF CheckErr
    <3>2. j # 1 /\ j - 1 \in DOMAIN exclude
      BY <3>1, <1>p, <1>w, WAssumption DEF Overlaps, PrevEnd, Word
    <3>3. exclude[j - 1][1] + exclude[j - 1][2] > exclude[j][1]
      BY <3>1, <3>2, <2>f DEF Overlaps, PrevEnd
    <3>. QED  BY <3>1, <3>2, <3>3, <1>p DEF Checked
  <2>3. CASE CheckOk
    <3>1. pc' = "from" /\ j > Len(exclude)
      BY <2>3, <1>p DEF CheckOk
    <3>2. SortedDisjoint(exclude)
      BY <3>1, <2>c, <1>p DEF SortedDisjoint
    <3>. QED  BY <3>1, <3>2, <1>p DEF Checked, SortedDisjoint
  <2>. QED  BY <2>1, <2>2, <2>3
<1>3. out = << >>
  BY <1>p
<1>4. Result'
  <2>. SUFFICES ASSUME Fits(from), Fits(exclude) PROVE Result'
    BY <1>e DEF Result
  <2>1. k = 1 /\ pc' \in {"check", "err", "from"}
    BY <1>p DEF Result, CheckNext, CheckErr, CheckOk
  <2>2. Covered(out)' = {} /\ Passed' = {}
    BY <2>1, <1>3, <1>p DEF Covered, Passed
  <2>. QED  BY <2>1, <2>2, <1>3, <1>p DEF Result
<1>5. pc' # "exclude"
  BY <1>p DEF CheckNext, CheckErr, CheckOk
<1>6. Inner' /\ Ordered' /\ NonEmpty'
  BY <1>5, <1>3, <1>p DEF Inner, Ordered, NonEmpty, SortedDisjoint
<1>. QED  BY <1>1, <1>2, <1>3, <1>4, <1>5, <1>6, <1>p

-----------------------------------------------------------------------------
\* Starting with a range of `from`, or returning after the last one, keeps the
\* invariant (mem.rs:257-259, 276).
LEMMA OuterIInv ==
    ASSUME IInv, NextFrom \/ Return
    PROVE  IInv'
<1>. USE DEF IInv
<1>p. /\ pc = "from" /\ from' = from /\ exclude' = exclude /\ k' = k /\ out' = out
      /\ from \in Seq(RawRange) /\ exclude \in Seq(RawRange)
      /\ Len(exclude) \in Nat /\ Len(from) \in Nat
      /\ k \in 1 .. Len(from) + 1 /\ DOMAIN from = 1 .. Len(from)
      /\ j \in 1 .. Len(exclude) + 1 /\ start \in Word /\ end \in Word
      /\ out \in Seq(RawRange)
  BY DEF NextFrom, Return, input, TypeOK
<1>n. NextFrom => /\ k \in DOMAIN from /\ start' = from[k][1] /\ end' = RangeEnd(from[k])
                  /\ from[k][1] \in Word /\ from[k][2] \in Word
                  /\ j' = 1 /\ pc' = "exclude"
  BY <1>p, Elements DEF NextFrom
<1>r. Return => k = Len(from) + 1 /\ pc' = "done" /\ UNCHANGED <<j, start, end>>
  BY <1>p DEF Return
<1>e. Fits(exclude)' = Fits(exclude) /\ Fits(from)' = Fits(from)
  BY <1>p DEF Fits
<1>1. TypeOK'
  <2>1. CASE NextFrom
    BY <2>1, <1>n, <1>p, AddWord DEF TypeOK, RangeEnd
  <2>2. CASE Return
    BY <2>2, <1>r, <1>p DEF TypeOK
  <2>. QED  BY <2>1, <2>2
<1>2. Checked'
  BY <1>n, <1>r, <1>p, <1>e DEF Checked, SortedDisjoint
<1>3. Inner'
  <2>. SUFFICES ASSUME Fits(from), Fits(exclude), pc' = "exclude" PROVE Inner'
    BY <1>e DEF Inner
  <2>1. end' = from[k][1] + from[k][2]
    BY <1>n, <1>r, AddWord DEF RangeEnd, Fits
  <2>2. start' = from[k][1] /\ j' = 1 /\ k \in DOMAIN from /\ start' \in Word
    BY <1>n, <1>r
  <2>3. start' <= start'
    BY <2>2, WAssumption DEF Word
  <2>. QED  BY <2>1, <2>2, <2>3, <1>p DEF Inner
<1>4. Result'
  <2>. SUFFICES ASSUME Fits(from), Fits(exclude) PROVE Result'
    BY <1>e DEF Result
  <2>1. Passed' = Passed
    BY <1>n, <1>r, <1>p, WAssumption DEF Passed, Cells, Word
  <2>2. Covered(out)' = Covered(out) /\ Covered(exclude)' = Covered(exclude)
    BY <1>p DEF Covered, Cells
  <2>. QED  BY <2>1, <2>2, <1>n, <1>r, <1>p DEF Result
<1>5. Ordered'
  <2>. SUFFICES ASSUME Fits(from), Fits(exclude), SortedDisjoint(from) PROVE Ordered'
    BY <1>e, <1>p DEF Ordered, SortedDisjoint
  <2>1. SortedDisjoint(out)'
    BY <1>p DEF Ordered, SortedDisjoint
  <2>2. ASSUME NEW n \in DOMAIN out
        PROVE  \A m \in DOMAIN from : m > k \/ m = k => out[n][1] + out[n][2] <= from[m][1]
    BY <1>p DEF Ordered
  <2>3. CASE NextFrom
    BY <2>1, <2>2, <2>3, <1>n, <1>p DEF Ordered
  <2>4. CASE Return
    BY <2>1, <2>2, <2>4, <1>r, <1>p DEF Ordered
  <2>. QED  BY <2>3, <2>4
<1>6. NonEmpty'
  BY <1>p DEF NonEmpty
<1>7. pc' # "check" /\ (pc' = "exclude" => k' \in DOMAIN from')
  BY <1>n, <1>r, <1>p
<1>. QED  BY <1>1, <1>2, <1>3, <1>4, <1>5, <1>6, <1>7

\* Going past a range of `exclude`, with or without a cut, keeps the invariant
\* (mem.rs:261-270).
LEMMA InnerIInv ==
    ASSUME IInv, SkipExclude \/ Carve
    PROVE  IInv'
<1>. USE DEF IInv
<1>p. /\ pc = "exclude" /\ pc' = "exclude" /\ from' = from /\ exclude' = exclude
      /\ k' = k /\ end' = end /\ j' = j + 1
      /\ from \in Seq(RawRange) /\ exclude \in Seq(RawRange)
      /\ Len(exclude) \in Nat /\ Len(from) \in Nat
      /\ k \in 1 .. Len(from) + 1 /\ DOMAIN from = 1 .. Len(from)
      /\ j \in 1 .. Len(exclude) /\ DOMAIN exclude = 1 .. Len(exclude)
      /\ start \in Word /\ end \in Word /\ out \in Seq(RawRange)
  BY DEF SkipExclude, Carve, input, TypeOK
<1>w. /\ \A n \in DOMAIN exclude : exclude[n][1] \in Word /\ exclude[n][2] \in Word
      /\ \A n \in DOMAIN from : from[n][1] \in Word /\ from[n][2] \in Word
      /\ \A n \in DOMAIN out : out[n][1] \in Word /\ out[n][2] \in Word
  BY <1>p, Elements
<1>e. Fits(exclude)' = Fits(exclude) /\ Fits(from)' = Fits(from)
  BY <1>p DEF Fits
<1>d. exclude_start \in Word /\ exclude_end \in Word
  BY <1>p, <1>w, AddWord DEF exclude_start, exclude_end, RangeEnd
<1>s. SkipExclude => exclude_end <= start /\ start' = start /\ out' = out
  BY DEF SkipExclude
<1>c. Carve => /\ exclude_end > start /\ exclude_start < end /\ start' = exclude_end
               /\ \/ exclude_start <= start /\ out' = out
                  \/ /\ exclude_start > start
                     /\ out' = Append(out, <<start, exclude_start - start>>)
  BY <1>d, <1>p, WAssumption DEF Carve, PastEnd, Word
<1>a. exclude_start > start => /\ <<start, exclude_start - start>> \in RawRange
                               /\ Append(out, <<start, exclude_start - start>>) \in Seq(RawRange)
  <2>1. start \in 0 .. W - 1 /\ exclude_start \in 0 .. W - 1 /\ W \in Nat
    BY <1>d, <1>p, WAssumption DEF Word
  <2>2. exclude_start > start => exclude_start - start \in Word
    BY <2>1 DEF Word
  <2>3. exclude_start > start => <<start, exclude_start - start>> \in RawRange
    BY <2>2, <1>p DEF RawRange
  <2>. QED  BY <2>3, <1>p
<1>1. TypeOK'
  <2>1. start' \in Word /\ out' \in Seq(RawRange)
    BY <1>s, <1>c, <1>a, <1>d, <1>p
  <2>. QED  BY <2>1, <1>p DEF TypeOK
<1>2. Checked'
  BY <1>p, <1>e DEF Checked, SortedDisjoint
<1>f. ASSUME Fits(from), Fits(exclude)
      PROVE  /\ exclude_end = exclude[j][1] + exclude[j][2]
             /\ exclude_start = exclude[j][1]
             /\ SortedDisjoint(exclude)
             /\ k \in DOMAIN from /\ from[k][1] <= start /\ end = from[k][1] + from[k][2]
             /\ \A n \in DOMAIN exclude : n < j => exclude[n][1] + exclude[n][2] <= start
  BY <1>f, <1>p, <1>w, AddWord DEF exclude_end, exclude_start, RangeEnd, Fits, Checked, Inner
<1>i. /\ start \in Int /\ end \in Int /\ exclude_start \in Int /\ exclude_end \in Int
      /\ \A a \in Word : a \in Int
  BY <1>d, <1>p DEF Word
<1>g. ASSUME Fits(from), Fits(exclude)
      PROVE  exclude_start <= exclude_end /\ from[k][1] \in Int /\ from[k][1] <= start
  <2>1. exclude[j][1] \in Nat /\ exclude[j][2] \in Nat
    BY <1>p, <1>w DEF Word
  <2>2. exclude_start <= exclude_end
    BY <2>1, <1>f, <1>g
  <2>. QED  BY <2>2, <1>f, <1>g, <1>w, <1>i
<1>3. Inner'
  <2>. SUFFICES ASSUME Fits(from), Fits(exclude) PROVE Inner'
    BY <1>e DEF Inner
  <2>1. start <= start' /\ exclude[j][1] + exclude[j][2] <= start' /\ start' \in Word
    <3>1. exclude[j][1] + exclude[j][2] = exclude_end
      BY <1>f
    <3>2. start <= start' /\ exclude_end <= start' /\ start' \in Word
      BY <1>s, <1>c, <1>d, <1>i, <1>p
    <3>. QED  BY <3>1, <3>2
  <2>2. from[k][1] <= start'
    BY <2>1, <1>g, <1>i
  <2>3. ASSUME NEW n \in DOMAIN exclude, n < j + 1
        PROVE  exclude[n][1] + exclude[n][2] <= start'
    <3>1. CASE n = j
      BY <3>1, <2>1
    <3>2. CASE n < j
      <4>1. exclude[n][1] + exclude[n][2] <= start
        BY <3>2, <2>3, <1>f
      <4>2. exclude[n][1] + exclude[n][2] \in Int
        BY <2>3, <1>w DEF Word
      <4>3. start' \in Int
        BY <2>1, <1>i
      <4>. QED  BY <4>1, <4>2, <4>3, <2>1, <1>i
    <3>. QED  BY <3>1, <3>2, <2>3, <1>p
  <2>. QED  BY <2>2, <2>3, <1>f, <1>p DEF Inner
<1>4. Result'
  <2>. SUFFICES ASSUME Fits(from), Fits(exclude) PROVE Result'
    BY <1>e DEF Result
  <2>1. Covered(out) = Passed \ Covered(exclude)
    BY <1>p DEF Result
  <2>2. Covered(exclude)' = Covered(exclude)
    BY <1>p DEF Covered, Cells
  <2>3. ASSUME NEW a \in Word
        PROVE  a \in Passed' <=> \/ a \in Passed
                                 \/ from[k][1] <= a /\ a < start' /\ a < end
    BY <1>s, <1>c, <1>f, <1>p, <1>d, <1>w, WAssumption DEF Passed, Cells, Word
  <2>. DEFINE Cut == {a \in Word : start <= a /\ a < exclude_start}
  <2>4. Covered(out)' = IF Carve /\ exclude_start > start THEN Covered(out) \cup Cut
                                                         ELSE Covered(out)
    <3>1. CASE Carve /\ exclude_start > start
      <4>1. out' = Append(out, <<start, exclude_start - start>>)
        BY <3>1, <1>c, <1>d, <1>p, WAssumption DEF Word
      <4>2. Cells(<<start, exclude_start - start>>) = Cut
        BY <1>d, <1>p, WAssumption DEF Cells, Word
      <4>3. Covered(Append(out, <<start, exclude_start - start>>)) = Covered(out) \cup Cut
        BY <4>2, <3>1, <1>a, <1>p, AppendCovers
      <4>4. Covered(out)' = Covered(Append(out, <<start, exclude_start - start>>))
        BY <4>1 DEF Covered, Cells
      <4>. QED  BY <3>1, <4>3, <4>4
    <3>2. CASE ~(Carve /\ exclude_start > start)
      <4>1. out' = out
        BY <3>2, <1>s, <1>c
      <4>. QED  BY <3>2, <4>1 DEF Covered, Cells
    <3>. QED  BY <3>1, <3>2
  <2>5. ASSUME NEW a \in Word, a \in Cut, Carve
        PROVE  a \notin Covered(exclude) /\ a < start' /\ a < end /\ from[k][1] <= a
    <3>0. start <= a /\ a < exclude_start /\ exclude_start = exclude[j][1] /\ a \in Int
      BY <2>5, <1>f, <1>i
    <3>1. ASSUME NEW n \in DOMAIN exclude PROVE a \notin Cells(exclude[n])
      <4>0. exclude[n][1] \in Nat /\ exclude[n][2] \in Nat
        BY <1>w DEF Word
      <4>1. CASE n < j
        <5>1. exclude[n][1] + exclude[n][2] <= start
          BY <4>1, <1>f
        <5>. QED  BY <5>1, <3>0, <4>0, <1>i DEF Cells
      <4>2. CASE n = j
        BY <4>2, <3>0, <4>0 DEF Cells
      <4>3. CASE n > j
        <5>1. exclude[j][1] + exclude[j][2] <= exclude[n][1]
          BY <4>3, <1>f, <1>p DEF SortedDisjoint
        <5>2. exclude[j][1] <= exclude[n][1]
          BY <5>1, <4>0, <1>g, <1>f, <1>i
        <5>3. exclude_start <= exclude[n][1] /\ exclude_start \in Int
          BY <5>2, <3>0, <1>i
        <5>4. a < exclude[n][1]
          BY <5>3, <3>0, <4>0
        <5>. QED  BY <5>4, <3>0, <4>0 DEF Cells
      <4>. QED  BY <4>1, <4>2, <4>3, <1>p
    <3>2. a \notin Covered(exclude)
      BY <3>1 DEF Covered
    <3>3. a < start' /\ a < end
      BY <2>5, <1>c, <1>g, <1>i
    <3>4. from[k][1] <= a
      BY <2>5, <1>g, <1>i
    <3>. QED  BY <3>2, <3>3, <3>4
  <2>6. ASSUME NEW a \in Word, a \notin Covered(exclude),
               start <= a, a < start', a < end
        PROVE  Carve /\ exclude_start > start /\ a \in Cut
    <3>1. Carve
      BY <2>6, <1>s, <1>p, WAssumption DEF Word
    <3>2. a < exclude_end
      BY <2>6, <3>1, <1>c
    <3>3. a < exclude_start
      <4>1. a \in Int /\ exclude_start \in Int
        BY <2>6, <1>i
      <4>2. exclude_start = exclude[j][1] /\ exclude_end = exclude[j][1] + exclude[j][2]
        BY <1>f
      <4>3. exclude_start <= a => a \in Cells(exclude[j])
        BY <4>2, <3>2, <2>6 DEF Cells
      <4>4. a \notin Cells(exclude[j])
        BY <2>6, <1>p DEF Covered
      <4>. QED  BY <4>1, <4>3, <4>4
    <3>. QED  BY <2>6, <3>1, <3>3, <1>p, <1>d, WAssumption DEF Word
  <2>7. ASSUME NEW a \in Word
        PROVE  a \in Covered(out)' <=> a \in Passed' /\ a \notin Covered(exclude)
    <3>1. CASE a \in Cut /\ Carve
      <4>1. exclude_start > start
        BY <3>1, <1>d, <1>p, WAssumption DEF Word
      <4>. QED  BY <3>1, <4>1, <2>3, <2>4, <2>5
    <3>2. CASE ~(a \in Cut /\ Carve)
      <4>1. a \in Covered(out)' <=> a \in Covered(out)
        BY <3>2, <2>4
      <4>2. ASSUME a \notin Covered(exclude), from[k][1] <= a, a < start', a < end
            PROVE  a \in Passed
        <5>1. a < start
          BY <4>2, <3>2, <2>6, <1>p, WAssumption DEF Word
        <5>. QED  BY <4>2, <5>1, <1>p DEF Passed
      <4>. QED  BY <4>1, <4>2, <2>1, <2>3
    <3>. QED  BY <3>1, <3>2
  <2>8. Covered(out)' \subseteq Word /\ Passed' \subseteq Word
    BY DEF Covered, Passed, Word
  <2>9. Covered(out)' = Passed' \ Covered(exclude)
    BY <2>7, <2>8
  <2>. QED  BY <2>2, <2>9, <1>p DEF Result
<1>5. Ordered'
  <2>. SUFFICES ASSUME Fits(from), Fits(exclude), SortedDisjoint(from) PROVE Ordered'
    BY <1>e, <1>p DEF Ordered, SortedDisjoint
  <2>1. /\ SortedDisjoint(out)
        /\ \A n \in DOMAIN out :
             /\ out[n][1] + out[n][2] <= start
             /\ \A m \in DOMAIN from : m > k => out[n][1] + out[n][2] <= from[m][1]
    BY <1>p DEF Ordered
  <2>2. start <= start'
    BY <1>s, <1>c, <1>d, <1>p, WAssumption DEF Word
  <2>3. start' \in Word
    BY <1>1 DEF TypeOK
  <2>4. CASE out' = out
    <3>1. \A n \in DOMAIN out : out[n][1] + out[n][2] <= start'
      BY <2>1, <2>2, <2>3, <1>w, <1>p, WAssumption DEF Word
    <3>. QED  BY <2>1, <2>4, <3>1, <1>p DEF Ordered, SortedDisjoint
  <2>5. CASE out' # out
    <3>. DEFINE r == <<start, exclude_start - start>>
    <3>1. Carve /\ exclude_start > start /\ out' = Append(out, r) /\ r \in RawRange
      BY <2>5, <1>s, <1>c, <1>a
    <3>2. SortedDisjoint(Append(out, r))
      BY <3>1, <2>1, <1>p, AppendSorted
    <3>3. SortedDisjoint(out)'
      BY <3>1, <3>2 DEF SortedDisjoint
    <3>4. r[1] + r[2] = exclude_start
      BY <1>d, <1>p, WAssumption DEF Word
    <3>5. exclude_start <= start'
      BY <3>1, <1>c, <1>g
    <3>6. \A m \in DOMAIN from : m > k => exclude_start <= from[m][1]
      <4>1. \A m \in DOMAIN from : m > k => end <= from[m][1]
        BY <1>f, <1>p DEF SortedDisjoint
      <4>. QED  BY <4>1, <3>1, <1>c, <1>d, <1>w, <1>p, WAssumption DEF Word
    <3>7. ASSUME NEW n \in DOMAIN out'
          PROVE  /\ out'[n][1] + out'[n][2] <= start'
                 /\ \A m \in DOMAIN from : m > k => out'[n][1] + out'[n][2] <= from[m][1]
      <4>1. /\ DOMAIN out = 1 .. Len(out) /\ DOMAIN out' = 1 .. Len(out) + 1
            /\ Len(out) \in Nat
            /\ out'[Len(out) + 1] = r
            /\ \A l \in DOMAIN out : out'[l] = out[l]
        BY <3>1, <1>p
      <4>2. CASE n = Len(out) + 1
        BY <4>1, <4>2, <3>4, <3>5, <3>6
      <4>3. CASE n \in DOMAIN out
        <5>1. out'[n] = out[n]
          BY <4>1, <4>3
        <5>2. /\ out[n][1] + out[n][2] <= start
              /\ \A m \in DOMAIN from : m > k => out[n][1] + out[n][2] <= from[m][1]
          BY <4>3, <2>1
        <5>3. out[n][1] + out[n][2] \in Int
          BY <4>3, <1>w DEF Word
        <5>4. start' \in Int
          BY <2>3, <1>i
        <5>. QED  BY <5>1, <5>2, <5>3, <5>4, <2>2, <1>i
      <4>. QED  BY <4>1, <4>2, <4>3
    <3>. QED  BY <3>3, <3>7, <1>p DEF Ordered
  <2>. QED  BY <2>4, <2>5
<1>6. NonEmpty'
  <2>1. CASE out' = out
    BY <2>1 DEF NonEmpty
  <2>2. CASE out' # out
    <3>. DEFINE r == <<start, exclude_start - start>>
    <3>1. exclude_start > start /\ out' = Append(out, r) /\ r \in RawRange
      BY <2>2, <1>s, <1>c, <1>a
    <3>2. r[2] > 0
      BY <3>1, <1>i
    <3>3. /\ DOMAIN out' = 1 .. Len(out) + 1 /\ DOMAIN out = 1 .. Len(out) /\ Len(out) \in Nat
          /\ out'[Len(out) + 1] = r
          /\ \A l \in DOMAIN out : out'[l] = out[l]
      BY <3>1, <1>p
    <3>4. \A n \in DOMAIN out' : n = Len(out) + 1 \/ n \in DOMAIN out
      BY <3>3
    <3>. QED  BY <3>2, <3>3, <3>4 DEF NonEmpty
  <2>. QED  BY <2>1, <2>2
<1>. QED  BY <1>1, <1>2, <1>3, <1>4, <1>5, <1>6, <1>p

\* Reporting the last piece of a range of `from` keeps the invariant
\* (mem.rs:272-274).
LEMMA EndIInv ==
    ASSUME IInv, EndFrom
    PROVE  IInv'
<1>. USE DEF IInv
<1>. DEFINE r == <<start, end - start>>
<1>p. /\ pc = "exclude" /\ pc' = "from" /\ from' = from /\ exclude' = exclude
      /\ k' = k + 1 /\ j' = j /\ start' = start /\ end' = end
      /\ out' = IF start < end THEN Append(out, r) ELSE out
      /\ from \in Seq(RawRange) /\ exclude \in Seq(RawRange)
      /\ Len(exclude) \in Nat /\ Len(from) \in Nat
      /\ k \in 1 .. Len(from) + 1 /\ DOMAIN from = 1 .. Len(from)
      /\ j \in 1 .. Len(exclude) + 1 /\ DOMAIN exclude = 1 .. Len(exclude)
      /\ j > Len(exclude) \/ (j \in DOMAIN exclude /\ exclude_start >= end)
      /\ start \in Word /\ end \in Word /\ out \in Seq(RawRange)
  BY DEF EndFrom, input, TypeOK, PastEnd
<1>w. /\ \A n \in DOMAIN exclude : exclude[n][1] \in Nat /\ exclude[n][2] \in Nat
      /\ \A n \in DOMAIN from : from[n][1] \in Nat /\ from[n][2] \in Nat
      /\ \A n \in DOMAIN out : out[n][1] \in Nat /\ out[n][2] \in Nat
  BY <1>p, Elements DEF Word
<1>e. Fits(exclude)' = Fits(exclude) /\ Fits(from)' = Fits(from)
  BY <1>p DEF Fits
<1>i. start \in Int /\ end \in Int /\ \A a \in Word : a \in Int
  BY <1>p DEF Word
<1>a. start < end => r \in RawRange /\ Append(out, r) \in Seq(RawRange)
  <2>1. start \in 0 .. W - 1 /\ end \in 0 .. W - 1 /\ W \in Nat
    BY <1>p, WAssumption DEF Word
  <2>2. start < end => end - start \in Word
    BY <2>1 DEF Word
  <2>3. start < end => r \in RawRange
    BY <2>2, <1>p DEF RawRange
  <2>. QED  BY <2>3, <1>p
<1>1. TypeOK'
  <2>1. out' \in Seq(RawRange)
    BY <1>p, <1>a
  <2>2. k' \in 1 .. Len(from) + 1
    <3>1. k \in DOMAIN from
      BY <1>p DEF TypeOK, EndFrom
    <3>. QED  BY <3>1, <1>p
  <2>. QED  BY <2>1, <2>2, <1>p DEF TypeOK
<1>2. Checked'
  BY <1>p, <1>e DEF Checked, SortedDisjoint
<1>3. Inner'
  BY <1>p DEF Inner
<1>f. ASSUME Fits(from), Fits(exclude)
      PROVE  /\ SortedDisjoint(exclude)
             /\ k \in DOMAIN from /\ from[k][1] <= start /\ end = from[k][1] + from[k][2]
             /\ \A n \in DOMAIN exclude : n < j => exclude[n][1] + exclude[n][2] <= start
             /\ Covered(out) = Passed \ Covered(exclude)
  BY <1>f, <1>p DEF Checked, Inner, Result
<1>4. Result'
  <2>. SUFFICES ASSUME Fits(from), Fits(exclude) PROVE Result'
    BY <1>e DEF Result
  <2>. DEFINE Rest == {a \in Word : start <= a /\ a < end}
  <2>1. Covered(exclude)' = Covered(exclude)
    BY <1>p DEF Covered, Cells
  <2>2. Covered(out)' = Covered(out) \cup Rest
    <3>1. CASE start < end
      <4>1. Cells(r) = Rest
        BY <3>1, <1>i DEF Cells
      <4>2. Covered(Append(out, r)) = Covered(out) \cup Rest
        BY <3>1, <4>1, <1>a, <1>p, AppendCovers
      <4>3. Covered(out)' = Covered(Append(out, r))
        BY <3>1, <1>p DEF Covered, Cells
      <4>. QED  BY <4>2, <4>3
    <3>2. CASE ~(start < end)
      <4>1. Rest = {}
        BY <3>2, <1>i
      <4>. QED  BY <3>2, <4>1, <1>p DEF Covered, Cells
    <3>. QED  BY <3>1, <3>2
  <2>3. ASSUME NEW a \in Word
        PROVE  a \in Passed' <=> a \in Passed \/ a \in Rest
    <3>1. \A n \in DOMAIN from : n < k + 1 <=> n < k \/ n = k
      BY <1>p
    <3>2. a \in Cells(from[k]) <=> from[k][1] <= a /\ a < end
      BY <1>f DEF Cells
    <3>3. from[k][1] <= a /\ a < end <=> (from[k][1] <= a /\ a < start /\ a < end) \/ a \in Rest
      <4>1. from[k][1] \in Int /\ a \in Int /\ from[k][1] <= start
        BY <1>f, <1>w, <1>i
      <4>. QED  BY <4>1, <1>i
    <3>4. a \in Passed' <=> \E n \in DOMAIN from : n < k + 1 /\ a \in Cells(from[n])
      BY <1>p DEF Passed, Cells
    <3>5. a \in Passed <=> \/ \E n \in DOMAIN from : n < k /\ a \in Cells(from[n])
                           \/ from[k][1] <= a /\ a < start /\ a < end
      BY <1>p DEF Passed
    <3>6. k \in DOMAIN from
      BY <1>f
    <3>. QED  BY <3>1, <3>2, <3>3, <3>4, <3>5, <3>6
  <2>4. ASSUME NEW a \in Rest PROVE a \notin Covered(exclude)
    <3>0. start <= a /\ a < end /\ a \in Int
      BY <2>4, <1>i
    <3>1. ASSUME NEW n \in DOMAIN exclude PROVE a \notin Cells(exclude[n])
      <4>0. exclude[n][1] \in Nat /\ exclude[n][2] \in Nat /\ n \in Int /\ j \in Int
        BY <1>w, <1>p
      <4>1. CASE n < j
        <5>1. exclude[n][1] + exclude[n][2] <= start
          BY <4>1, <1>f
        <5>. QED  BY <5>1, <3>0, <4>0, <1>i DEF Cells
      <4>2. CASE n >= j
        <5>1. j \in DOMAIN exclude /\ exclude[j][1] >= end
          BY <4>2, <1>p DEF exclude_start
        <5>2. exclude[j][1] \in Nat /\ exclude[j][2] \in Nat
          BY <5>1, <1>w
        <5>3. n > j => exclude[j][1] + exclude[j][2] <= exclude[n][1]
          BY <5>1, <1>f, <1>p DEF SortedDisjoint
        <5>4. exclude[j][1] <= exclude[n][1]
          BY <5>2, <5>3, <4>0, <4>2
        <5>5. a < exclude[n][1]
          BY <5>1, <5>2, <5>4, <4>0, <3>0, <1>i
        <5>. QED  BY <5>5, <3>0, <4>0 DEF Cells
      <4>. QED  BY <4>0, <4>1, <4>2
    <3>. QED  BY <3>1 DEF Covered
  <2>5. Covered(out)' = Passed' \ Covered(exclude)
    <3>1. Covered(out)' \subseteq Word /\ Passed' \subseteq Word /\ Rest \subseteq Word
      BY DEF Covered, Passed, Word
    <3>. QED  BY <3>1, <2>2, <2>3, <2>4, <1>f
  <2>. QED  BY <2>1, <2>5, <1>p DEF Result
<1>5. Ordered'
  <2>. SUFFICES ASSUME Fits(from), Fits(exclude), SortedDisjoint(from) PROVE Ordered'
    BY <1>e, <1>p DEF Ordered, SortedDisjoint
  <2>1. /\ SortedDisjoint(out)
        /\ \A n \in DOMAIN out :
             /\ out[n][1] + out[n][2] <= start
             /\ \A m \in DOMAIN from : m > k => out[n][1] + out[n][2] <= from[m][1]
    BY <1>p DEF Ordered
  <2>2. \A m \in DOMAIN from : m > k + 1 \/ m = k + 1 => m > k
    BY <1>p
  <2>3. CASE ~(start < end)
    BY <2>1, <2>2, <2>3, <1>p DEF Ordered, SortedDisjoint
  <2>4. CASE start < end
    <3>1. out' = Append(out, r) /\ r \in RawRange /\ r[1] = start /\ r[1] + r[2] = end
      BY <2>4, <1>a, <1>i, <1>p
    <3>2. SortedDisjoint(Append(out, r))
      BY <3>1, <2>1, <1>p, AppendSorted
    <3>3. SortedDisjoint(out)'
      BY <3>1, <3>2 DEF SortedDisjoint
    <3>4. \A m \in DOMAIN from : m > k => end <= from[m][1]
      BY <1>f, <1>p DEF SortedDisjoint
    <3>5. ASSUME NEW n \in DOMAIN out'
          PROVE  \A m \in DOMAIN from : m > k => out'[n][1] + out'[n][2] <= from[m][1]
      <4>1. /\ DOMAIN out = 1 .. Len(out) /\ DOMAIN out' = 1 .. Len(out) + 1
            /\ Len(out) \in Nat
            /\ out'[Len(out) + 1] = r
            /\ \A l \in DOMAIN out : out'[l] = out[l]
        BY <3>1, <1>p
      <4>2. CASE n = Len(out) + 1
        BY <4>1, <4>2, <3>1, <3>4
      <4>3. CASE n \in DOMAIN out
        BY <4>1, <4>3, <2>1
      <4>. QED  BY <4>1, <4>2, <4>3
    <3>. QED  BY <3>3, <3>5, <2>2, <1>p DEF Ordered
  <2>. QED  BY <2>3, <2>4
<1>6. NonEmpty'
  <2>1. CASE ~(start < end)
    BY <2>1, <1>p DEF NonEmpty
  <2>2. CASE start < end
    <3>1. out' = Append(out, r) /\ r[2] > 0
      BY <2>2, <1>i, <1>p
    <3>2. /\ DOMAIN out' = 1 .. Len(out) + 1 /\ DOMAIN out = 1 .. Len(out) /\ Len(out) \in Nat
          /\ out'[Len(out) + 1] = r
          /\ \A l \in DOMAIN out : out'[l] = out[l]
      BY <3>1, <1>p
    <3>3. \A n \in DOMAIN out' : n = Len(out) + 1 \/ n \in DOMAIN out
      BY <3>2
    <3>. QED  BY <3>1, <3>2, <3>3 DEF NonEmpty
  <2>. QED  BY <2>1, <2>2
<1>. QED  BY <1>1, <1>2, <1>3, <1>4, <1>5, <1>6, <1>p

-----------------------------------------------------------------------------
\* The invariant holds whatever the arguments.
THEOREM Invariance == Spec => []IInv
<1>1. IInv /\ [Next]_vars => IInv'
  <2>. SUFFICES ASSUME IInv, [Next]_vars PROVE IInv'
    OBVIOUS
  <2>1. CASE CheckNext \/ CheckErr \/ CheckOk
    BY <2>1, CheckIInv
  <2>2. CASE NextFrom \/ Return
    BY <2>2, OuterIInv
  <2>3. CASE SkipExclude \/ Carve
    BY <2>3, InnerIInv
  <2>4. CASE EndFrom
    BY <2>4, EndIInv
  <2>5. CASE UNCHANGED vars
    BY <2>5 DEF vars, input, IInv, TypeOK, Checked, Inner, Result, Ordered, NonEmpty,
                Passed, Covered, Cells, SortedDisjoint, Fits
  <2>. QED  BY <2>1, <2>2, <2>3, <2>4, <2>5 DEF Next
<1>. QED  BY <1>1, InitIInv, PTL DEF Spec

\* The result is the set difference (mem.rs:234-236), for lists of any length.
THEOREM ComputesDifference == Spec => []Difference
<1>1. IInv => Difference
  <2>. SUFFICES ASSUME IInv, Fits(from), Fits(exclude), pc = "done"
                PROVE  Covered(out) = Covered(from) \ Covered(exclude)
    BY DEF Difference
  <2>1. k = Len(from) + 1 /\ Covered(out) = Passed \ Covered(exclude)
    BY DEF IInv, Result
  <2>2. \A n \in DOMAIN from : n < k
    BY <2>1 DEF IInv, TypeOK
  <2>3. Passed = Covered(from)
    BY <2>2 DEF Passed, Covered
  <2>. QED  BY <2>1, <2>3
<1>. QED  BY <1>1, Invariance, PTL

\* The call is refused exactly when `exclude` is not sorted without overlaps
\* (mem.rs:230-232).
THEOREM RefusesExactlyUnsorted == Spec => []RefusesUnsorted
<1>1. IInv => RefusesUnsorted
  <2>. SUFFICES ASSUME IInv, Fits(exclude),
                       NEW m \in DOMAIN exclude, NEW n \in DOMAIN exclude,
                       m < n, exclude[m][1] + exclude[m][2] > exclude[n][1]
                PROVE  ~SortedDisjoint(exclude)
    BY DEF IInv, Checked, RefusesUnsorted
  <2>1. exclude[m][1] \in Nat /\ exclude[m][2] \in Nat /\ exclude[n][1] \in Nat
    BY Elements DEF IInv, TypeOK, Word
  <2>. QED  BY <2>1 DEF SortedDisjoint
<1>. QED  BY <1>1, Invariance, PTL

\* The result of a sorted `from` can be passed as `exclude` (mem.rs:267-274).
THEOREM ResultIsSorted == Spec => []ResultSorted
<1>1. IInv => ResultSorted
  BY DEF IInv, Ordered, NonEmpty, ResultSorted
<1>. QED  BY <1>1, Invariance, PTL
=============================================================================
