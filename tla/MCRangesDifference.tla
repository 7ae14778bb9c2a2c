------------------------- MODULE MCRangesDifference -------------------------
(***************************************************************************)
(* Inputs of ranges_difference for TLC.                                    *)
(***************************************************************************)
EXTENDS RangesDifference

\* The ranges whose end is a word.
Fitting == {r \in RawRange : r[1] + r[2] < W}

UpToTwo(R) == {<< >>} \cup {<<r>> : r \in R} \cup {<<q, r>> : q, r \in R}

\* One range of any kind; and two that are disjoint, adjacent, overlapping or
\* out of order.
FromFitting == {<<r>> : r \in Fitting} \cup UpToTwo({<<0, 2>>, <<1, 3>>, <<3, 2>>})

ExcludeFitting == UpToTwo(Fitting)
=============================================================================
