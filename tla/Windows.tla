------------------------------- MODULE Windows ------------------------------
(***************************************************************************)
(* The windows of cross-validation.  A CPCV cuts the days into groups,     *)
(* tests every choice of k of them, trains each on the longest run of the  *)
(* others with a purge and an embargo, and joins the tests into paths.  A  *)
(* walk-forward rolls a train window and the test after it over the days,  *)
(* and joins the curves of the tests.  Both ends of a window are in it.    *)
(***************************************************************************)
EXTENDS Integers, Sequences, FiniteSets, SequencesExt

CONSTANTS
  Days,       \* the lengths of the range
  Groups,     \* n_groups
  Purges,     \* purge_horizon, in days
  Embargoes,
  Lengths     \* of the train and test windows and the step, in days, of walk-forwards

ConstantsAssumption ==
  /\ Days \cup Groups \cup Purges \cup Embargoes \cup Lengths \subseteq Nat
  /\ 0 \notin Lengths \cup Groups

VARIABLES
  request,   \* a CPCV, a walk-forward, or None
  train,     \* the train windows of the splits that were processed
  folds,     \* compute_folds: so far
  cursor,
  joined     \* paths of the tests, or the days of the joined curve with the fold each is of

vars == <<request, train, folds, cursor, joined>>

None == [kind |-> "none"]

Init == request = None /\ train = <<>> /\ folds = <<>> /\ cursor = 0 /\ joined = {}

-----------------------------------------------------------------------------
(* compute_groups, and compute_cpcv_splits in the order of combinations. *)

DaysIn(i) == request.days \div request.n + IF i < request.days % request.n THEN 1 ELSE 0

(* Mutant: the extra days are given out and not counted. *)
Unshifted(i) == i * (request.days \div request.n)
Start(i) == LET at[j \in 0..i] == IF j = 0 THEN 0 ELSE at[j - 1] + DaysIn(j - 1) IN at[i]
End(i)   == Start(i) + DaysIn(i) - 1
GroupDays(i) == Start(i)..End(i)
AllGroups == 0..request.n - 1

Before(S, T) == LET m == CHOOSE x \in (S \ T) \cup (T \ S) : \A y \in (S \ T) \cup (T \ S) : x <= y IN m \in S
Combinations == {S \in SUBSET AllGroups : Cardinality(S) = request.k}
Splits == [i \in 1..Cardinality(Combinations) |->
             CHOOSE S \in Combinations : Cardinality({T \in Combinations : S # T /\ Before(T, S)}) = i - 1]

(* _longest_contiguous_train_run, group by group.  Mutant: a run that is as *)
(* long as the best replaces it.                                            *)
AsLong(a, b) == a.last - a.first >= b.last - b.first
Longer(a, b) == a.last - a.first > b.last - b.first
LongestRun(S) ==
  LET groups == SetToSortSeq(S, <)
      step(s, g) == IF g = s.cur.last + 1 THEN [s EXCEPT !.cur.last = g]
                    ELSE [best |-> IF Longer(s.cur, s.best) THEN s.cur ELSE s.best,
                          cur  |-> [first |-> g, last |-> g]]
      one == [first |-> groups[1], last |-> groups[1]]
      end == FoldLeft(step, [best |-> one, cur |-> one], Tail(groups))
  IN IF Longer(end.cur, end.best) THEN end.cur ELSE end.best

(* Mutant: the embargo is left out. *)
PurgesOnly(run, S)  == IF run.first - 1 \in S THEN request.purge ELSE 0
PushedBy(run, S)    == IF run.first - 1 \in S THEN request.purge + request.embargo ELSE 0
PulledBy(run, S)    == IF run.last + 1 \in S THEN request.purge ELSE 0

TrainWindow(S) ==
  LET run   == LongestRun(AllGroups \ S)
      first == Start(run.first) + PushedBy(run, S)
      last  == End(run.last) - PulledBy(run, S)
  IN [first |-> first, last |-> IF last < first THEN first ELSE last]

(* run_cpcv *)
AsksCPCV ==
  /\ request = None
  /\ \E d \in Days, n \in Groups, p \in Purges, e \in Embargoes : \E k \in 1..n \div 2 :
       request' = [kind |-> "cpcv", days |-> d, n |-> n, k |-> k, purge |-> p, embargo |-> e]
  /\ UNCHANGED <<train, folds, cursor, joined>>

ProcessesSplit ==
  /\ request.kind = "cpcv" /\ Len(train) < Len(Splits)
  /\ train' = Append(train, TrainWindow(Splits[Len(train) + 1]))
  /\ UNCHANGED <<request, folds, cursor, joined>>

(* reconstruct_paths *)
SplitsOf(g) == SelectSeq([i \in DOMAIN Splits |-> i], LAMBDA i : g \in Splits[i])
NPaths == Len(SplitsOf(0))

(* Mutant: each group takes its tests by the number of the split. *)
ByNumber(g, j) == j
ChosenSplit(g, j) == SplitsOf(g)[j]

Reconstructs ==
  /\ request.kind = "cpcv" /\ Len(train) = Len(Splits) /\ joined = {}
  /\ joined' = {[path |-> j, group |-> g, split |-> ChosenSplit(g, j)] : j \in 1..NPaths, g \in AllGroups}
  /\ UNCHANGED <<request, train, folds, cursor>>

-----------------------------------------------------------------------------
(* run_walk_forward *)
AsksWalk ==
  /\ request = None
  /\ \E d \in Days, a, b, s \in Lengths :
       request' = [kind |-> "walk", days |-> d, train |-> a, test |-> b, step |-> s]
  /\ UNCHANGED <<train, folds, cursor, joined>>

(* Mutant: a last fold whose test ends after the range. *)
StartsInRange(fold) == fold.first <= request.days
Fits(fold)          == fold.last <= request.days

NextFold == [train |-> cursor, first |-> cursor + request.train,
             last |-> cursor + request.train + request.test]

AddsFold ==
  /\ request.kind = "walk" /\ Fits(NextFold) /\ joined = {}
  /\ folds' = Append(folds, NextFold) /\ cursor' = cursor + request.step
  /\ UNCHANGED <<request, train, joined>>

(* concatenate_oos_curves: a fold gives the days after the last of those     *)
(* before it.                                                                *)
Latest(S) == CHOOSE x \in S \cup {[day |-> -1, fold |-> 0]} : \A y \in S : x.day >= y.day

(* Mutant: it gives all of its days. *)
Overlapping(i, S) == folds[i].first..folds[i].last
Given(i, S) == {d \in folds[i].first..folds[i].last : d > Latest(S).day}

Joins ==
  /\ request.kind = "walk" /\ ~Fits(NextFold) /\ folds # <<>> /\ joined = {}
  /\ joined' = FoldLeft(LAMBDA S, i : S \cup {[day |-> d, fold |-> i] : d \in Given(i, S)}, {},
                        [i \in DOMAIN folds |-> i])
  /\ UNCHANGED <<request, train, folds, cursor>>

Next == AsksCPCV \/ ProcessesSplit \/ Reconstructs \/ AsksWalk \/ AddsFold \/ Joins

Spec == Init /\ [][Next]_vars

-----------------------------------------------------------------------------
TypeOK ==
  /\ request.kind \in {"none", "cpcv", "walk"} /\ cursor \in Nat
  /\ \A i \in DOMAIN train : train[i].first <= train[i].last
  /\ \A i \in DOMAIN folds : folds[i].train < folds[i].first

(* The groups are the days, each once, and differ by a day at most. *)
GroupsCutTheDays ==
  request.kind = "cpcv" =>
    /\ \A d \in 0..request.days - 1 : Cardinality({g \in AllGroups : d \in GroupDays(g)}) = 1
    /\ \A g, h \in AllGroups : DaysIn(g) - DaysIn(h) <= 1

(* The run of a split is a run of its train groups, none is longer, and one *)
(* as long is later.                                                        *)
RunIsLongest ==
  request.kind = "cpcv" => \A i \in DOMAIN train :
    LET free == AllGroups \ Splits[i]
        runs == {r \in [first : free, last : free] : r.first <= r.last /\ r.first..r.last \subseteq free}
        best == LongestRun(free)
    IN best \in runs /\ \A r \in runs :
         r.last - r.first <= best.last - best.first /\ (r.last - r.first = best.last - best.first => best.first <= r.first)

(* No day of training is in a test group, within the purge before one or    *)
(* within the purge and the embargo after one, if the run of train groups   *)
(* is longer than the days cut from it.                                     *)
TestDays(S) == UNION {GroupDays(g) : g \in S}
Exposed(i) ==
  {d \in train[i].first..train[i].last :
     \E t \in TestDays(Splits[i]) : t - request.purge <= d /\ d <= t + request.purge + request.embargo}
RunDays(i) == LET r == LongestRun(AllGroups \ Splits[i]) IN End(r.last) - Start(r.first) + 1

TrainAvoidsTest ==
  request.kind = "cpcv" => \A i \in DOMAIN train :
    RunDays(i) > 2 * request.purge + request.embargo => Exposed(i) = {}

(* Every test of a group in a split is on one path, and a path has every    *)
(* group.                                                                   *)
PathsUseEachTestOnce ==
  request.kind = "cpcv" /\ joined # {} =>
    /\ \A i \in DOMAIN Splits : \A g \in Splits[i] : Cardinality({x \in joined : x.group = g /\ x.split = i}) = 1
    /\ \A x \in joined : x.group \in Splits[x.split]
    /\ \A g, h \in AllGroups : Len(SplitsOf(g)) = Len(SplitsOf(h))

(* A fold is within the range and its test begins on the last day of its    *)
(* training; the joined curve has a day once, and every day that was tested.*)
FoldsRollOn ==
  request.kind = "walk" =>
    /\ \A i \in DOMAIN folds : folds[i].last <= request.days
    /\ \A i \in DOMAIN folds : i > 1 => folds[i].train = folds[i - 1].train + request.step
    /\ joined # {} => \A d \in 0..request.days :
         Cardinality({x \in joined : x.day = d})
           = IF \E i \in DOMAIN folds : d \in folds[i].first..folds[i].last THEN 1 ELSE 0

(* Not so: a run that is shorter than what is cut from it trains on a day   *)
(* after its end, which may be of a test group.                             *)
NeverExposed == request.kind = "cpcv" => \A i \in DOMAIN train : Exposed(i) = {}

(* Not so: the last day of training is the first of the test. *)
TestIsUnseen == \A i \in DOMAIN folds : folds[i].first > folds[i].train + request.train

(* Not so: on the days of two folds the earlier one's curve is kept. *)
LaterFoldWins ==
  request.kind = "walk" => \A x \in joined : \A i \in DOMAIN folds :
    x.day \in folds[i].first..folds[i].last => i <= x.fold
=============================================================================
