-------------------------------- MODULE Gaps --------------------------------
(***************************************************************************)
(* What is on disk and what is downloaded when days are missing: the runs  *)
(* of days of the coverage index (coverage_index.py), the gaps of a        *)
(* window, and ensure_coverage (coverage_utils.py), which the routes that  *)
(* fill gaps and retry a download (routes/data.py) and the backtests call. *)
(* A day is a number; those of Weekend are no business days.               *)
(***************************************************************************)
EXTENDS Integers, FiniteSets, SequencesExt

CONSTANTS
  Days,         \* 1..Days
  Weekend,
  Threshold     \* _GAP_THRESHOLD_BDAYS

VARIABLES
  minutes,      \* the days of the file of 1-minute bars
  dailies,      \* the days of the file of daily bars
  request,      \* the window that was asked for: [tf, from, to, downloads]
  windows,      \* the downloads it created that are under way
  failed,       \* those that failed or were cancelled, and were not retried
  skipped       \* nothing was to be downloaded for it

vars == <<minutes, dailies, request, windows, failed, skipped>>

Business == (1..Days) \ Weekend
Between(a, b) == {d \in Business : a < d /\ d < b}

(* Two days are in one run if fewer than Threshold business days lie between. *)
(* Mutant: a hole of the threshold is still bridged. *)
Bridged(a, b) == Cardinality(Between(a, b)) > Threshold
Apart(a, b)   == Cardinality(Between(a, b)) >= Threshold

Ranges(dates) ==
  LET before(d) == {e \in dates : e < d}
      starts == {d \in dates : \A e \in before(d) : Apart(e, d)}
      run(s) == {d \in dates : d >= s /\ \A t \in starts : t <= s \/ t > d}
  IN {[lo |-> s, hi |-> CHOOSE d \in run(s) : \A e \in run(s) : e <= d] : s \in starts}

(* CoverageIndex._scan: the minute bars, if there are any. *)
Scanned == IF minutes # {} THEN minutes ELSE dailies

InOrder(ranges) == SetToSortSeq(ranges, LAMBDA r, q : r.lo < q.lo)

(* The walk of get_gaps over the runs, from a cursor to the end of the window. *)
Smaller(a, b) == IF a < b THEN a ELSE b
(* Mutant: the cursor goes to the end of a run, not past it. *)
AtItsEnd(r) == r.hi
PastIt(r) == r.hi + 1

Gaps(ranges, from, to) ==
  LET seq == InOrder(ranges)
      walk[i \in 0..Len(seq)] ==
        IF i = 0 THEN [cursor |-> from, gaps |-> {}]
        ELSE LET was == walk[i - 1]
                 r == seq[i]
             IN IF was.cursor > to \/ r.hi < was.cursor \/ r.lo > to THEN was
                ELSE [cursor |-> PastIt(r),
                      gaps |-> IF r.lo > was.cursor
                               THEN was.gaps \cup {[lo |-> was.cursor, hi |-> Smaller(r.lo - 1, to)]}
                               ELSE was.gaps]
      end == walk[Len(seq)]
  IN IF end.cursor <= to THEN end.gaps \cup {[lo |-> end.cursor, hi |-> to]} ELSE end.gaps

Init ==
  /\ minutes \in SUBSET Business /\ dailies \in {{}, Business}
  /\ request = [tf |-> "none", from |-> 1, to |-> 1, downloads |-> FALSE]
  /\ windows = {} /\ failed = {} /\ skipped = FALSE

(* Each gap is asked for with a day more on either side.  The days outside   *)
(* 1..Days have no bars: one of them on either side stands for all.          *)
Larger(a, b) == IF a < b THEN b ELSE a
Widened(gap) == [lo |-> Larger(gap.lo - 1, 0), hi |-> Smaller(gap.hi + 1, Days + 1)]

(* A provider of live data has nothing to download. *)
EnsureCoverage(downloads, from, to) ==
  LET gaps == IF downloads THEN Gaps(Ranges(Scanned), from, to) ELSE {} IN
  /\ windows' = windows \cup {Widened(g) : g \in gaps} /\ skipped' = (gaps = {})
  /\ UNCHANGED <<minutes, dailies>>

FillGaps ==
  /\ request.tf = "none" /\ UNCHANGED failed
  /\ \E tf \in {"1min", "1day"}, from, to \in 1..Days, downloads \in BOOLEAN :
       /\ from <= to /\ EnsureCoverage(downloads, from, to)
       /\ request' = [tf |-> tf, from |-> from, to |-> to, downloads |-> downloads]

(* Retrying a download asks for its window, if it is not on disk by now. *)
Retry(w) ==
  /\ w \in failed /\ failed' = failed \ {w} /\ UNCHANGED request
  /\ EnsureCoverage(TRUE, w.lo, w.hi)

Land(w) ==
  LET days == {d \in Business : w.lo <= d /\ d <= w.hi} IN
  /\ w \in windows /\ windows' = windows \ {w}
  /\ minutes' = IF request.tf = "1min" THEN minutes \cup days ELSE minutes
  /\ dailies' = IF request.tf = "1day" THEN dailies \cup days ELSE dailies
  /\ UNCHANGED <<request, failed, skipped>>

Fail(w) ==
  /\ w \in windows /\ windows' = windows \ {w} /\ failed' = failed \cup {w}
  /\ UNCHANGED <<minutes, dailies, request, skipped>>

Next == FillGaps \/ (\E w \in failed : Retry(w)) \/ (\E w \in windows : Land(w) \/ Fail(w))

-----------------------------------------------------------------------------

TypeOK ==
  /\ minutes \subseteq Business /\ dailies \subseteq Business
  /\ request \in [tf : {"none", "1min", "1day"}, from : 1..Days, to : 1..Days,
                 downloads : BOOLEAN]
  /\ windows \subseteq [lo : 0..Days, hi : 1..(Days + 1)]
  /\ failed \subseteq [lo : 0..Days, hi : 1..(Days + 1)] /\ skipped \in BOOLEAN

DaysOf(ranges) == UNION {r.lo..r.hi : r \in ranges}

(* The gaps of a window are exactly the days of it that no run covers, and    *)
(* two gaps have a covered day between them.                                  *)
GapsAreTheRest ==
  \A from, to \in 1..Days : from <= to =>
    LET ranges == Ranges(Scanned)
        gaps == Gaps(ranges, from, to)
    IN /\ DaysOf(gaps) = (from..to) \ DaysOf(ranges)
       /\ \A g, h \in gaps : g # h => (g.hi + 1 < h.lo \/ h.hi + 1 < g.lo)

(* Once all that was asked for is on disk, a day of the window of 1-minute    *)
(* bars is missing only in a hole shorter than the threshold.                 *)
FilledUpToHoles ==
  (request.tf = "1min" /\ minutes # {} /\ windows \cup failed = {} /\ request.downloads) =>
    \A d \in Business : (request.from <= d /\ d <= request.to /\ d \notin minutes) =>
      \E a, b \in minutes : /\ a < d /\ d < b
                            /\ Between(a, b) \cap minutes = {}
                            /\ Cardinality(Between(a, b)) < Threshold

(* Not so: what is skipped as "already complete" is on disk (a hole is kept,  *)
(* the gaps are those of the minute bars whatever is asked for, and a         *)
(* provider of live data downloads nothing).                                  *)
SkippedIsComplete ==
  skipped => \A d \in Business :
    (request.from <= d /\ d <= request.to) =>
      d \in (IF request.tf = "1min" THEN minutes ELSE dailies)

=============================================================================
