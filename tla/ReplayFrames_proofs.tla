------------------------- MODULE ReplayFrames_proofs -------------------------
(***************************************************************************)
(* Lemmas about minute series, for every timeline: minima and maxima of    *)
(* sets of minutes, the types of what MinuteSeries computes, how series    *)
(* grow and how the day cutoff treats a series and its prefixes.           *)
(*                                                                         *)
(* Then what a run of the engine computes, for every engine and series:    *)
(* the recursive function ReplayFrom unfolds to the steps of the engine,   *)
(* and frames that are resumed from a settled state are replays from       *)
(* scratch.                                                                *)
(*                                                                         *)
(* Induction over the timeline is by the least minute at which a claim     *)
(* fails (MinOfBounded).                                                   *)
(***************************************************************************)
EXTENDS ReplayFrames, FiniteSetTheorems, WellFoundedInduction, TLAPS

(***************************************************************************)
(* A non-empty set of minutes has a least one, which Min chooses           *)
(* (EarliestRetro, _has_source_history_expansion).                         *)
(***************************************************************************)
LEMMA MinOfBounded ==
  ASSUME NEW N \in Nat, NEW S \in SUBSET (0 .. N), S # {}
  PROVE  Min(S) \in S /\ \A y \in S : Min(S) <= y
<1> DEFINE Segments == {0 .. x : x \in S}
<1>1. IsFiniteSet(0 .. N)
  BY FS_Interval
<1>2. \A x \in S : x \in 0 .. N /\ 0 .. x \in SUBSET (0 .. N)
  <2> SUFFICES ASSUME NEW x \in S PROVE x \in 0 .. N /\ 0 .. x \subseteq 0 .. N
    BY Zenon
  <2> x \in 0 .. N BY Zenon
  <2> QED BY SMT
<1>3. Segments \subseteq SUBSET (0 .. N)
  BY <1>2, Zenon
<1>4. Segments # {}
  BY Zenon
<1>5. IsWellFoundedOn(StrictSubsetOrdering(0 .. N), SUBSET (0 .. N))
  BY <1>1, FS_StrictSubsetOrderingWellFounded, FS_FiniteSubsetsOfFinite, Zenon
<1>6. \E s \in Segments : \A r \in Segments : ~ (<<r, s>> \in StrictSubsetOrdering(0 .. N))
  <2> HIDE DEF Segments
  <2> QED BY <1>3, <1>4, <1>5, WFMin, Zenon
<1>7. PICK s \in Segments : \A r \in Segments : ~ (<<r, s>> \in StrictSubsetOrdering(0 .. N))
  BY <1>6, Zenon
<1>8. PICK x \in S : s = 0 .. x
  BY <1>7, Zenon
<1>9. ASSUME NEW y \in S, ~ (x <= y) PROVE FALSE
  <2>1. x \in 0 .. N /\ y \in 0 .. N
    BY <1>2
  <2>2. 0 .. y \subseteq 0 .. x 
    BY <1>9, <2>1
  <2>3. x \in 0 .. x /\ ~ (x \in 0 .. y)
    BY <1>9, <2>1
  <2>4. <<0 .. y, 0 .. x>> \in StrictSubsetOrdering(0 .. N)
    BY <2>2, <2>3, <1>2, Zenon DEF StrictSubsetOrdering
  <2> QED BY <2>4, <1>7, <1>8, Zenon
<1>10. \A y \in S : x <= y
  BY <1>9, <1>2
<1> QED BY <1>10, Zenon DEF Min

(***************************************************************************)
(* A non-empty set of minutes has a greatest one, which Max chooses        *)
(* (max_exec_ts, _load_nearest_checkpoint).                                *)
(***************************************************************************)
LEMMA MaxOfBounded ==
  ASSUME NEW N \in Nat, NEW S \in SUBSET (0 .. N), S # {}
  PROVE  Max(S) \in S /\ \A y \in S : y <= Max(S)
<1> DEFINE R == {N - y : y \in S}
<1>1. \A x \in S : x \in 0 .. N /\ N - x \in 0 .. N
  OBVIOUS
<1>2. R \subseteq (0 .. N) /\ R # {}
  BY <1>1, Zenon
<1>3. Min(R) \in R /\ \A r \in R : Min(R) <= r
  <2> HIDE DEF R
  <2> QED BY <1>2, MinOfBounded
<1>4. PICK x \in S : N - x = Min(R)
  BY <1>3, Zenon
<1>5. \A y \in S : N - x <= N - y
  BY <1>3, <1>4, Zenon
<1>6. \A y \in S : x >= y
  BY <1>1, <1>5
<1>7. Max(S) \in S /\ \A y \in S : Max(S) >= y
  BY <1>6, Zenon DEF Max
<1> QED BY <1>1, <1>7
(***************************************************************************)
(* The last minute of a series: 0 exactly when the series has no row, and  *)
(* otherwise a row with no row after it (max_exec_ts of a watermark).      *)
(***************************************************************************)
LEMMA LastTsFacts ==
  ASSUME NEW s \in Series
  PROVE  /\ LastTs(s) \in 0 .. MaxTs
         /\ LastTs(s) = 0 <=> Times(s) = {}
         /\ LastTs(s) # 0 => LastTs(s) \in Times(s)
         /\ \A t \in Times(s) : t <= LastTs(s)
<1>1. MaxTs \in Nat
  BY SeriesAssumption
<1>2. Times(s) \in SUBSET (0 .. MaxTs) /\ \A t \in Times(s) : t # 0
  BY <1>1 DEF Times, Ts
<1>3. CASE Times(s) = {}
  BY <1>1, <1>3 DEF LastTs
<1>4. CASE Times(s) # {}
  <2>1. LastTs(s) \in Times(s) /\ \A t \in Times(s) : t <= LastTs(s)
    BY <1>1, <1>2, <1>4, MaxOfBounded DEF LastTs
  <2> QED BY <2>1, <1>2, <1>4
<1> QED BY <1>3, <1>4

(***************************************************************************)
(* Every operator on series returns what TypeOK of the refresh expects.    *)
(***************************************************************************)
LEMMA SeriesTypes ==
  ASSUME NEW s \in Series, NEW u \in Series
  PROVE  /\ EmptySeries \in Series
         /\ \A n : Upto(s, n) \in Series
         /\ \A d : Fetch(s, d) \in Series
         /\ Upsert(s, u) \in Series
         /\ Eligible(s) \in Series
         /\ Watermark(s) \in Watermarks
         /\ EarliestRetro(s, u) \in 0 .. MaxTs
<1>1. EmptySeries \in Series
  BY DEF EmptySeries, Series
<1>2. \A n : Upto(s, n) \in Series
  BY DEF Upto, Series
<1>3. \A d : Fetch(s, d) \in Series
  BY DEF Fetch, Series
<1>4. Upsert(s, u) \in Series
  BY DEF Upsert, Series
<1>5. Eligible(s) \in Series
  BY DEF Eligible, Series
<1>6. Watermark(s) \in Watermarks
  <2>1. [t \in Ts |-> IF InTail(s, t) THEN s[t] ELSE NoBar] \in Series
    BY DEF Series
  <2> QED BY <2>1, LastTsFacts DEF Watermark, Watermarks
<1>7. EarliestRetro(s, u) \in 0 .. MaxTs
  <2>1. MaxTs \in Nat
    BY SeriesAssumption
  <2>2. RetroTs(s, u) \in SUBSET (0 .. MaxTs)
    BY <2>1 DEF RetroTs, ChangedTs, Times, Ts
  <2>3. CASE RetroTs(s, u) = {}
    BY <2>1, <2>3 DEF EarliestRetro
  <2>4. CASE RetroTs(s, u) # {}
    <3>1. Min(RetroTs(s, u)) \in RetroTs(s, u)
      BY <2>1, <2>2, <2>4, MinOfBounded
    <3> QED BY <3>1, <2>2, <2>4 DEF EarliestRetro
  <2> QED BY <2>3, <2>4
<1> QED BY <1>1, <1>2, <1>3, <1>4, <1>5, <1>6, <1>7

-----------------------------------------------------------------------------
(***************************************************************************)
(* A store that is only appended to: w is s, with rows after its last.     *)
(***************************************************************************)
Grows(s, w) == \A t \in Ts : t <= LastTs(s) => w[t] = s[t]

LEMMA AfterLast ==
  ASSUME NEW s \in Series, NEW t \in Ts, t > LastTs(s)
  PROVE  s[t] = NoBar
<1>1. MaxTs \in Nat /\ LastTs(s) \in 0 .. MaxTs
  BY LastTsFacts, SeriesAssumption
<1> QED BY <1>1, LastTsFacts DEF Times, Ts

LEMMA GrowsFacts ==
  ASSUME NEW s \in Series, NEW w \in Series, Grows(s, w)
  PROVE  /\ LastTs(s) <= LastTs(w)
         /\ Times(s) \subseteq Times(w)
         /\ s = Upto(w, LastTs(s))
<1>1. MaxTs \in Nat /\ LastTs(s) \in 0 .. MaxTs /\ LastTs(w) \in 0 .. MaxTs
  BY LastTsFacts, SeriesAssumption
<1>2. Times(s) \subseteq Times(w)
  BY LastTsFacts DEF Grows, Times
<1>3. LastTs(s) <= LastTs(w)
  <2>1. CASE LastTs(s) = 0
    BY <1>1, <2>1
  <2>2. CASE LastTs(s) # 0
    BY <1>2, <2>2, LastTsFacts
  <2> QED BY <2>1, <2>2
<1>4. \A t \in Ts : s[t] = IF t <= LastTs(s) THEN w[t] ELSE NoBar
  <2>1. \A t \in Ts : t \in Int
    BY <1>1 DEF Ts
  <2> QED BY <1>1, <2>1, AfterLast DEF Grows
<1> QED BY <1>2, <1>3, <1>4 DEF Upto, Series

LEMMA GrowsTransitive ==
  ASSUME NEW r \in Series, NEW s \in Series, NEW w \in Series,
         Grows(r, s), Grows(s, w)
  PROVE  Grows(r, w)
<1>1. MaxTs \in Nat /\ LastTs(r) \in 0 .. MaxTs /\ LastTs(s) \in 0 .. MaxTs
      /\ LastTs(r) <= LastTs(s)
  BY LastTsFacts, SeriesAssumption, GrowsFacts
<1> QED BY <1>1 DEF Grows, Ts

LEMMA GrowsSelf == \A s \in Series : Grows(s, s)
  BY DEF Grows

\* Two earlier stores with the same last minute are the same.
LEMMA SameLast ==
  ASSUME NEW r \in Series, NEW s \in Series, NEW w \in Series,
         Grows(r, w), Grows(s, w), LastTs(r) = LastTs(s)
  PROVE  r = s
<1>1. r = Upto(w, LastTs(r)) /\ s = Upto(w, LastTs(s))
  BY GrowsFacts
<1> QED BY <1>1

\* One watermark, one store (compute_watermark).
LEMMA SameWatermark ==
  ASSUME NEW r \in Series, NEW s \in Series, NEW w \in Series,
         Grows(r, w), Grows(s, w), Watermark(r) = Watermark(s)
  PROVE  r = s
<1>1. LastTs(r) = LastTs(s)
  BY DEF Watermark
<1> QED BY <1>1, SameLast

(***************************************************************************)
(* What the cutoff keeps of a store that grew has grown: the rows of a day *)
(* that were kept are kept, and no row before them is added                *)
(* (apply_day_cutoff).                                                     *)
(***************************************************************************)
LEMMA EligibleGrows ==
  ASSUME NEW s \in Series, NEW w \in Series, Grows(s, w)
  PROVE  Grows(Eligible(s), Eligible(w))
<1> DEFINE L == LastTs(Eligible(s))
<1>1. /\ MaxTs \in Nat /\ Cutoff \in Nat
      /\ LastTs(s) \in 0 .. MaxTs
      /\ L \in 0 .. MaxTs
      /\ \A t \in Ts : t \in Nat /\ t # 0 /\ Day[t] \in Nat
      /\ Eligible(s) \in Series
  BY LastTsFacts, SeriesTypes, SeriesAssumption DEF Ts
<1>2. SUFFICES ASSUME NEW t \in Ts, t <= L
               PROVE  /\ Kept(s, t) <=> Kept(w, t)
                      /\ s[t] = w[t]
  BY DEF Grows, Eligible
<1>3. L \in Ts /\ Kept(s, L)
  <2>1. L # 0
    BY <1>1, <1>2
  <2>2. L \in Times(Eligible(s))
    BY <1>1, <2>1, LastTsFacts
  <2> HIDE DEF L
  <2> QED BY <2>2 DEF Times, Eligible
<1>4. PICK u \in Times(s) : Day[u] = Day[L] /\ L + Cutoff <= u
  BY <1>3 DEF Kept
<1>5. u \in Ts /\ u <= LastTs(s) /\ u \in Times(w) /\ t + Cutoff <= u
  <2>1. u \in Ts /\ u <= LastTs(s) /\ u \in Times(w)
    BY <1>4, LastTsFacts, GrowsFacts DEF Times
  <2> HIDE DEF L
  <2> QED BY <1>1, <1>2, <1>3, <1>4, <2>1
<1> HIDE DEF L
<1>6. s[t] = w[t]
  <2>1. t <= LastTs(s)
    BY <1>1, <1>5
  <2> QED BY <2>1 DEF Grows
<1>7. Kept(s, t) => Kept(w, t)
  BY <1>6, GrowsFacts DEF Kept
<1>8. ASSUME Kept(w, t) PROVE Kept(s, t)
  <2>1. PICK v \in Times(w) : Day[v] = Day[t] /\ t + Cutoff <= v
    BY <1>8 DEF Kept
  <2>2. v \in Ts
    BY <2>1 DEF Times
  <2>3. CASE v <= LastTs(s)
    <3>1. v \in Times(s)
      BY <2>1, <2>2, <2>3 DEF Grows, Times
    <3> QED BY <1>6, <1>8, <2>1, <3>1 DEF Kept
  <2>4. CASE ~ (v <= LastTs(s))
    <3>1. u <= v
      BY <1>1, <1>5, <2>2, <2>4
    <3>2. Day[t] <= Day[L] /\ Day[u] <= Day[v]
      BY <1>2, <1>3, <1>5, <2>2, <3>1, SeriesAssumption
    <3>3. Day[u] = Day[t]
      BY <1>1, <1>3, <1>4, <1>5, <2>1, <2>2, <3>2
    <3> QED BY <1>4, <1>5, <1>6, <1>8, <3>3 DEF Kept
  <2> QED BY <2>3, <2>4
<1> QED BY <1>6, <1>7, <1>8

-----------------------------------------------------------------------------
(* Replay frames.                                                          *)

LEMMA TimelineInduction ==
  ASSUME NEW a \in 0 .. MaxTs, NEW S, a \in S,
         \A t \in a + 1 .. MaxTs : t - 1 \in S => t \in S
  PROVE  a .. MaxTs \subseteq S
<1>1. MaxTs \in Nat
  BY SeriesAssumption
<1> DEFINE Bad == {t \in a .. MaxTs : t \notin S}
<1>2. SUFFICES ASSUME Bad # {} PROVE FALSE
  OBVIOUS
<1>3. Bad \in SUBSET (0 .. MaxTs)
  BY <1>1
<1>4. Min(Bad) \in Bad /\ \A t \in Bad : Min(Bad) <= t
  <2> HIDE DEF Bad
  <2> QED BY <1>1, <1>2, <1>3, MinOfBounded
<1> DEFINE m == Min(Bad)
<1>5. m \in a .. MaxTs /\ m \notin S /\ m # a
  BY <1>4
<1>6. m - 1 \in a .. MaxTs /\ m - 1 \notin Bad /\ m \in a + 1 .. MaxTs
  <2>1. m - 1 \notin Bad
    BY <1>4, <1>5
  <2> HIDE DEF Bad, m
  <2> QED BY <1>1, <1>5, <2>1
<1> QED BY <1>5, <1>6

LEMMA AdvanceType ==
  ASSUME NEW e \in Engines, NEW s \in Series, NEW st \in States, NEW t \in Ts
  PROVE  /\ Advance(e, st, t, s[t]) \in States
         /\ SignalTs(Advance(e, st, t, s[t])) \in {0, t, SignalTs(st)}
<1>1. s[t] = NoBar \/ s[t] \in Bars
  BY DEF Series
<1> QED BY <1>1, EngineAssumption DEF Advance

(***************************************************************************)
(* There is a run: by induction, one up to every minute.                   *)
(***************************************************************************)
RunStep(e, s, st, a, r, t) ==
  r[t] = IF t <= a THEN st ELSE Advance(e, r[t - 1], t, s[t])

IsRun(e, s, st, a, r, n) ==
  /\ r \in [0 .. n -> States]
  /\ \A t \in 0 .. n : RunStep(e, s, st, a, r, t)

LEMMA RunExists ==
  ASSUME NEW e \in Engines, NEW s \in Series, NEW st \in States, NEW a \in 0 .. MaxTs
  PROVE  \E r : IsRun(e, s, st, a, r, MaxTs)
<1> DEFINE S == {n \in 0 .. MaxTs : \E r : IsRun(e, s, st, a, r, n)}
<1>1. MaxTs \in Nat
  BY SeriesAssumption
<1>2. 0 \in S
  <2>1. IsRun(e, s, st, a, [t \in 0 .. 0 |-> st], 0)
    BY DEF IsRun, RunStep
  <2> QED BY <1>1, <2>1
<1>3. ASSUME NEW n \in 0 + 1 .. MaxTs, n - 1 \in S PROVE n \in S
  <2>1. PICK r : IsRun(e, s, st, a, r, n - 1)
    BY <1>3
  <2>2. r \in [0 .. n - 1 -> States] /\ n \in Ts /\ n - 1 \in 0 .. n - 1
    BY <1>1, <2>1 DEF IsRun, Ts
  <2> DEFINE last == IF n <= a THEN st ELSE Advance(e, r[n - 1], n, s[n])
             q == [t \in 0 .. n |-> IF t = n THEN last ELSE r[t]]
  <2>3. last \in States
    <3>1. r[n - 1] \in States
      BY <2>2
    <3> QED BY <2>2, <3>1, AdvanceType
  <2> HIDE DEF last
  <2>4. q \in [0 .. n -> States]
    BY <1>1, <2>2, <2>3
  <2>5. ASSUME NEW t \in 0 .. n PROVE RunStep(e, s, st, a, q, t)
    <3>1. CASE t = n
      <4>1. q[n] = last /\ q[n - 1] = r[n - 1]
        BY <2>2
      <4> QED BY <3>1, <4>1 DEF RunStep, last
    <3>2. CASE t # n
      <4>1. t \in 0 .. n - 1 /\ q[t] = r[t] /\ RunStep(e, s, st, a, r, t)
        BY <1>1, <2>1, <3>2 DEF IsRun
      <4>2. t # 0 => q[t - 1] = r[t - 1]
        BY <1>1, <3>2
      <4>3. t = 0 => t <= a
        BY <1>1
      <4> QED BY <4>1, <4>2, <4>3 DEF RunStep
    <3> QED BY <3>1, <3>2
  <2> HIDE DEF q
  <2>6. IsRun(e, s, st, a, q, n)
    BY <2>4, <2>5 DEF IsRun
  <2> QED BY <1>1, <2>6
<1> HIDE DEF S
<1>4. MaxTs \in S
  BY <1>1, <1>2, <1>3, TimelineInduction
<1> QED BY <1>4 DEF S

(***************************************************************************)
(* A run of the engine (one pass of _apply_spread_carry_signals): it keeps *)
(* its first state up to minute a, and takes a step in every minute after. *)
(***************************************************************************)
LEMMA RunUnfolds ==
  ASSUME NEW e \in Engines, NEW s \in Series, NEW st \in States, NEW a \in 0 .. MaxTs
  PROVE  LET run == ReplayFrom(e, s, st, a)
         IN  /\ run \in [0 .. MaxTs -> States]
             /\ \A t \in 0 .. a : run[t] = st
             /\ \A t \in a + 1 .. MaxTs : run[t] = Advance(e, run[t - 1], t, s[t])
<1> DEFINE Def(r) ==
      [t \in 0 .. MaxTs |-> IF t <= a THEN st ELSE Advance(e, r[t - 1], t, s[t])]
           run == ReplayFrom(e, s, st, a)
<1>1. MaxTs \in Nat
  BY SeriesAssumption
<1>2. PICK r : IsRun(e, s, st, a, r, MaxTs)
  BY RunExists
<1>3. r = Def(r)
  BY <1>2 DEF IsRun, RunStep
<1>4. run = CHOOSE q : q = Def(q)
  BY Zenon DEF ReplayFrom
<1>5. run = Def(run)
  <2> HIDE DEF Def, run
  <2> QED BY <1>3, <1>4
<1>6. /\ run = [t \in 0 .. MaxTs |-> run[t]]
      /\ \A t \in 0 .. MaxTs :
           run[t] = IF t <= a THEN st ELSE Advance(e, run[t - 1], t, s[t])
  <2> HIDE DEF run
  <2> QED BY <1>5
<1> HIDE DEF run, Def
<1> DEFINE S == {t \in 0 .. MaxTs : run[t] \in States}
<1>7. 0 .. MaxTs \subseteq S
  <2>1. 0 \in S
    BY <1>1, <1>6
  <2>2. ASSUME NEW t \in 0 + 1 .. MaxTs, t - 1 \in S PROVE t \in S
    <3>1. t \in Ts /\ t \in 0 .. MaxTs /\ run[t - 1] \in States
      BY <1>1, <2>2 DEF Ts
    <3> QED BY <1>6, <3>1, AdvanceType
  <2>3. 0 \in 0 .. MaxTs
    BY <1>1
  <2> HIDE DEF S
  <2> QED BY <2>1, <2>2, <2>3, TimelineInduction
<1>8. run \in [0 .. MaxTs -> States]
  BY <1>6, <1>7
<1>9. \A t \in 0 .. a : run[t] = st
  <2>1. \A t \in 0 .. a : t \in 0 .. MaxTs /\ t <= a
    BY <1>1
  <2> QED BY <1>6, <2>1
<1>10. \A t \in a + 1 .. MaxTs : run[t] = Advance(e, run[t - 1], t, s[t])
  <2>1. \A t \in a + 1 .. MaxTs : t \in 0 .. MaxTs /\ ~ (t <= a)
    BY <1>1
  <2> QED BY <1>6, <2>1
<1> QED BY <1>8, <1>9, <1>10 DEF run

(***************************************************************************)
(* From a state without a pending signal on, every pending signal is of a  *)
(* later minute.                                                           *)
(***************************************************************************)
LEMMA PendingIsLater ==
  ASSUME NEW e \in Engines, NEW s \in Series, NEW run \in [0 .. MaxTs -> States],
         NEW b \in 0 .. MaxTs, SignalTs(run[b]) = 0,
         \A t \in b + 1 .. MaxTs : run[t] = Advance(e, run[t - 1], t, s[t])
  PROVE  \A c \in b .. MaxTs : SignalTs(run[c]) = 0 \/ SignalTs(run[c]) > b
<1> DEFINE S == {c \in 0 .. MaxTs : SignalTs(run[c]) = 0 \/ SignalTs(run[c]) > b}
<1>1. MaxTs \in Nat
  BY SeriesAssumption
<1>2. b \in S
  OBVIOUS
<1>3. ASSUME NEW t \in b + 1 .. MaxTs, t - 1 \in S PROVE t \in S
  <2>1. t \in Ts /\ t \in 0 .. MaxTs /\ t > b /\ run[t - 1] \in States
    BY <1>1, <1>3 DEF Ts
  <2>2. SignalTs(run[t]) \in {0, t, SignalTs(run[t - 1])}
    BY <1>3, <2>1, AdvanceType
  <2> QED BY <1>3, <2>1, <2>2
<1> HIDE DEF S
<1>4. b .. MaxTs \subseteq S
  BY <1>2, <1>3, TimelineInduction
<1> QED BY <1>4 DEF S

(***************************************************************************)
(* All of the above of a run, as the refresh uses it.                      *)
(***************************************************************************)
Unfolds(e, s, st, a, run) ==
  /\ run \in [0 .. MaxTs -> States]
  /\ run[a] = st
  /\ \A t \in a + 1 .. MaxTs : run[t] = Advance(e, run[t - 1], t, s[t])

LEMMA ReplayUnfolds ==
  ASSUME NEW e \in Engines, NEW s \in Series, NEW st \in States, NEW a \in 0 .. MaxTs
  PROVE  Unfolds(e, s, st, a, ReplayFrom(e, s, st, a))
<1> DEFINE run == ReplayFrom(e, s, st, a)
<1>1. /\ run \in [0 .. MaxTs -> States]
      /\ \A t \in 0 .. a : run[t] = st
      /\ \A t \in a + 1 .. MaxTs : run[t] = Advance(e, run[t - 1], t, s[t])
  BY RunUnfolds
<1>2. a \in 0 .. a
  OBVIOUS
<1> HIDE DEF run
<1>3. /\ run \in [0 .. MaxTs -> States]
      /\ run[a] = st
      /\ \A t \in a + 1 .. MaxTs : run[t] = Advance(e, run[t - 1], t, s[t])
  BY <1>1, <1>2
<1> QED BY <1>3 DEF run, Unfolds

(***************************************************************************)
(* What a replay from scratch says of the minutes up to t: the rows up to  *)
(* there determine the states.                                             *)
(***************************************************************************)
LEMMA ReplayIsDetermined ==
  ASSUME NEW e \in Engines, NEW f \in Frames, NEW g \in Frames,
         NEW r \in Series, NEW s \in Series,
         IsReplayOf(f, e, r), IsReplayOf(g, e, s),
         NEW n \in 0 .. MaxTs, \A t \in Ts : t <= n => r[t] = s[t]
  PROVE  \A t \in 0 .. n : f.trace[t] = g.trace[t]
<1> DEFINE S == {t \in 0 .. MaxTs : t <= n => f.trace[t] = g.trace[t]}
<1>1. MaxTs \in Nat /\ 0 \in 0 .. MaxTs
  BY SeriesAssumption
<1>2. 0 \in S
  BY <1>1 DEF IsReplayOf
<1>3. ASSUME NEW t \in 0 + 1 .. MaxTs, t - 1 \in S PROVE t \in S
  <2>1. t \in Ts /\ t \in 0 .. MaxTs /\ (t <= n => t - 1 <= n)
    BY <1>1 DEF Ts
  <2> QED BY <1>3, <2>1 DEF IsReplayOf
<1> HIDE DEF S
<1>4. 0 .. MaxTs \subseteq S
  BY <1>1, <1>2, <1>3, TimelineInduction
<1>5. \A t \in 0 .. n : t \in 0 .. MaxTs /\ t <= n
  BY <1>1
<1> QED BY <1>4, <1>5 DEF S

(***************************************************************************)
(* A replay from scratch is one (_apply_spread_carry_signals without a     *)
(* resume state).                                                          *)
(***************************************************************************)
LEMMA FullIsReplay ==
  ASSUME NEW e \in Engines, NEW s \in Series
  PROVE  IsReplayOf(FullReplay(e, s), e, s)
<1> DEFINE run == ReplayFrom(e, s, Start, 0)
<1>1. MaxTs \in Nat /\ 0 \in 0 .. MaxTs /\ MaxTs \in 0 .. MaxTs /\ Start \in States
  BY SeriesAssumption, EngineAssumption
<1>2. /\ run \in [0 .. MaxTs -> States]
      /\ run[0] = Start
      /\ \A t \in 0 + 1 .. MaxTs : run[t] = Advance(e, run[t - 1], t, s[t])
  <2>1. Unfolds(e, s, Start, 0, run)
    BY <1>1, ReplayUnfolds
  <2> HIDE DEF run
  <2> QED BY <2>1 DEF Unfolds
<1>3. FullReplay(e, s) =
        [rows     |-> [t \in Ts |-> IF t <= 0 THEN EmptyFrame.rows[t] ELSE s[t]],
         trace    |-> [t \in 0 .. MaxTs |-> IF t <= 0 THEN EmptyFrame.trace[t] ELSE run[t]],
         unfilled |-> (EmptyFrame.unfilled \cap 1 .. 0) \cup PendingMark(run[MaxTs])]
  BY Zenon DEF FullReplay, Extend
<1> HIDE DEF run
<1>4. FullReplay(e, s).rows = s
  BY <1>3 DEF Ts, Series
<1>5. FullReplay(e, s).trace = run
  BY <1>1, <1>2, <1>3 DEF EmptyFrame
<1>6. FullReplay(e, s).unfilled = PendingMark(run[MaxTs])
  BY <1>3
<1> QED BY <1>2, <1>4, <1>5, <1>6 DEF IsReplayOf, Ts

(***************************************************************************)
(* Where no signal is in flight after minute k, no row up to k is marked   *)
(* unfilled.                                                               *)
(***************************************************************************)
LEMMA NoneUnfilled ==
  ASSUME NEW e \in Engines, NEW f \in Frames, NEW s \in Series,
         IsReplayOf(f, e, s), NEW k \in 0 .. MaxTs, SignalTs(f.trace[k]) = 0
  PROVE  f.unfilled \cap 1 .. k = {}
<1>1. MaxTs \in Nat /\ f.trace \in [0 .. MaxTs -> States] /\ MaxTs \in k .. MaxTs
  BY SeriesAssumption DEF Frames
<1>2. \A t \in k + 1 .. MaxTs : f.trace[t] = Advance(e, f.trace[t - 1], t, s[t])
  BY <1>1 DEF IsReplayOf, Ts
<1>3. \A c \in k .. MaxTs : SignalTs(f.trace[c]) = 0 \/ SignalTs(f.trace[c]) > k
  BY <1>1, <1>2, PendingIsLater
<1> QED BY <1>1, <1>3 DEF IsReplayOf, PendingMark

(***************************************************************************)
(* After the last row the state stays what it is.                          *)
(***************************************************************************)
LEMMA QuietTail ==
  ASSUME NEW e \in Engines, NEW f \in Frames, NEW s \in Series, IsReplayOf(f, e, s),
         NEW k \in 0 .. MaxTs, \A t \in Ts : t > k => s[t] = NoBar
  PROVE  \A t \in k .. MaxTs : f.trace[t] = f.trace[k]
<1> DEFINE S == {t \in 0 .. MaxTs : f.trace[t] = f.trace[k]}
<1>1. MaxTs \in Nat
  BY SeriesAssumption
<1>2. k \in S
  OBVIOUS
<1>3. ASSUME NEW t \in k + 1 .. MaxTs, t - 1 \in S PROVE t \in S
  <2>1. t \in Ts /\ t \in 0 .. MaxTs /\ t > k
    BY <1>1 DEF Ts
  <2>2. f.trace[t] = f.trace[t - 1]
    BY <2>1 DEF IsReplayOf, Advance
  <2> QED BY <1>3, <2>1, <2>2
<1> HIDE DEF S
<1>4. k .. MaxTs \subseteq S
  BY <1>2, <1>3, TimelineInduction
<1> QED BY <1>4 DEF S

(***************************************************************************)
(* A replay that resumes in the state after minute k of an older replay,   *)
(* over a series that has not changed up to k, is a replay from scratch,   *)
(* if no signal is in flight after k (run_true_incremental_replay).        *)
(***************************************************************************)
LEMMA ResumedIsReplay ==
  ASSUME NEW e \in Engines, NEW f \in Frames, NEW old \in Series, NEW s \in Series,
         IsReplayOf(f, e, old), NEW k \in 0 .. MaxTs,
         \A t \in Ts : t <= k => old[t] = s[t],
         NEW st \in States, st = f.trace[k], SignalTs(st) = 0
  PROVE  IsReplayOf(Extend(e, Prefix(f, k), k, s, st), e, s)
<1> DEFINE run == ReplayFrom(e, s, st, k)
           base == Prefix(f, k)
           g == Extend(e, base, k, s, st)
<1>1. MaxTs \in Nat /\ 0 \in 0 .. MaxTs /\ MaxTs \in 0 .. MaxTs
      /\ f.trace \in [0 .. MaxTs -> States]
  BY SeriesAssumption DEF Frames
<1>2. /\ run \in [0 .. MaxTs -> States]
      /\ run[k] = st
      /\ \A t \in k + 1 .. MaxTs : run[t] = Advance(e, run[t - 1], t, s[t])
  <2>1. Unfolds(e, s, st, k, run)
    BY ReplayUnfolds
  <2> HIDE DEF run
  <2> QED BY <2>1 DEF Unfolds
<1>3. g = [rows     |-> [t \in Ts |-> IF t <= k THEN base.rows[t] ELSE s[t]],
           trace    |-> [t \in 0 .. MaxTs |-> IF t <= k THEN base.trace[t] ELSE run[t]],
           unfilled |-> (base.unfilled \cap 1 .. k) \cup PendingMark(run[MaxTs])]
  BY Zenon DEF Extend
<1>4. /\ \A t \in Ts : t <= k => base.rows[t] = f.rows[t]
      /\ \A t \in 0 .. MaxTs : t <= k => base.trace[t] = f.trace[t]
      /\ base.unfilled \subseteq f.unfilled
  BY DEF Prefix, Upto
<1>5. f.rows = old /\ f.unfilled = PendingMark(f.trace[MaxTs])
  BY DEF IsReplayOf
<1> HIDE DEF run, base, g
<1>6. g.rows = s
  BY <1>3, <1>4, <1>5 DEF Series
<1>7. /\ g.trace \in [0 .. MaxTs -> States]
      /\ \A t \in 0 .. MaxTs : t <= k => g.trace[t] = f.trace[t]
      /\ \A t \in k .. MaxTs : g.trace[t] = run[t]
  BY <1>1, <1>2, <1>3, <1>4
<1>8. g.trace[0] = Start
  BY <1>1, <1>7 DEF IsReplayOf
<1>9. ASSUME NEW t \in Ts PROVE g.trace[t] = Advance(e, g.trace[t - 1], t, s[t])
  <2>1. t \in 0 .. MaxTs /\ t - 1 \in 0 .. MaxTs
    BY <1>1 DEF Ts
  <2>2. CASE t <= k
    <3>1. t - 1 <= k
      BY <2>1, <2>2
    <3>2. f.trace[t] = Advance(e, f.trace[t - 1], t, old[t]) /\ old[t] = s[t]
      BY <2>2 DEF IsReplayOf
    <3> QED BY <1>7, <2>1, <2>2, <3>1, <3>2
  <2>3. CASE t > k
    <3>1. t \in k + 1 .. MaxTs /\ t - 1 \in k .. MaxTs /\ t \in k .. MaxTs
      BY <2>1, <2>3
    <3> QED BY <1>2, <1>7, <3>1
  <2> QED BY <2>1, <2>2, <2>3
<1>10. base.unfilled \cap 1 .. k = {}
  <2>1. f.unfilled \cap 1 .. k = {}
    BY NoneUnfilled
  <2> QED BY <1>4, <2>1
<1>11. g.unfilled = PendingMark(g.trace[MaxTs])
  BY <1>1, <1>3, <1>7, <1>10
<1> QED BY <1>6, <1>8, <1>9, <1>11 DEF IsReplayOf, g, base

(***************************************************************************)
(* The rows of an older replay up to minute k are a replay from scratch of *)
(* a series that ends at k and has not changed before.                     *)
(***************************************************************************)
LEMMA PrefixIsReplay ==
  ASSUME NEW e \in Engines, NEW f \in Frames, NEW old \in Series, NEW s \in Series,
         IsReplayOf(f, e, old), NEW k \in 0 .. MaxTs,
         \A t \in Ts : s[t] = IF t <= k THEN old[t] ELSE NoBar,
         SignalTs(f.trace[k]) = 0
  PROVE  IsReplayOf(Prefix(f, k), e, s)
<1> DEFINE g == Prefix(f, k)
<1>1. MaxTs \in Nat /\ 0 \in 0 .. MaxTs /\ MaxTs \in 0 .. MaxTs
  BY SeriesAssumption
<1>2. /\ g.rows = Upto(old, k)
      /\ \A t \in 0 .. MaxTs : g.trace[t] = f.trace[IF t <= k THEN t ELSE k]
      /\ g.unfilled = f.unfilled \cap 1 .. k
  BY DEF Prefix, IsReplayOf
<1> HIDE DEF g
<1>3. g.rows = s
  BY <1>2 DEF Upto, Series
<1>4. g.trace[0] = Start
  BY <1>1, <1>2 DEF IsReplayOf
<1>5. ASSUME NEW t \in Ts PROVE g.trace[t] = Advance(e, g.trace[t - 1], t, s[t])
  <2>1. t \in 0 .. MaxTs /\ t - 1 \in 0 .. MaxTs
    BY <1>1 DEF Ts
  <2>2. CASE t <= k
    <3>1. t - 1 <= k
      BY <2>1, <2>2
    <3>2. f.trace[t] = Advance(e, f.trace[t - 1], t, old[t]) /\ old[t] = s[t]
      BY <2>2 DEF IsReplayOf
    <3> QED BY <1>2, <2>1, <2>2, <3>1, <3>2
  <2>3. CASE ~ (t <= k)
    <3>1. g.trace[t] = f.trace[k] /\ s[t] = NoBar
      BY <1>2, <2>1, <2>3
    <3>2. g.trace[t - 1] = f.trace[k]
      <4>1. t - 1 <= k => t - 1 = k
        BY <2>1, <2>3
      <4> QED BY <1>2, <2>1, <4>1
    <3> QED BY <3>1, <3>2 DEF Advance
  <2> QED BY <2>2, <2>3
<1>6. g.unfilled = PendingMark(g.trace[MaxTs])
  <2>1. g.trace[MaxTs] = f.trace[k]
    <3>1. MaxTs <= k => MaxTs = k
      BY <1>1
    <3> QED BY <1>1, <1>2, <3>1
  <2>2. f.unfilled \cap 1 .. k = {}
    BY NoneUnfilled
  <2> QED BY <1>2, <2>1, <2>2 DEF PendingMark
<1> QED BY <1>3, <1>4, <1>5, <1>6 DEF IsReplayOf, g

\* The frame without rows is the replay of the store without rows.
LEMMA EmptyIsReplay ==
  ASSUME NEW e \in Engines
  PROVE  IsReplayOf(EmptyFrame, e, Eligible(EmptySeries))
<1>1. MaxTs \in Nat /\ MaxTs \in 0 .. MaxTs /\ 0 \in 0 .. MaxTs
  BY SeriesAssumption
<1>2. Eligible(EmptySeries) = EmptySeries
  BY DEF Eligible, EmptySeries, Kept
<1>3. \A t \in Ts : t \in 0 .. MaxTs /\ t - 1 \in 0 .. MaxTs
  BY <1>1 DEF Ts
<1> QED BY <1>1, <1>2, <1>3, EngineAssumption
        DEF EmptyFrame, EmptySeries, IsReplayOf, Advance, PendingMark

-----------------------------------------------------------------------------
(***************************************************************************)
(* Two runs that meet at a minute stay together over the same rows.        *)
(***************************************************************************)
\* From minute a on, the states x are those of a run over the rows s.
RunsAfter(e, s, x, a) ==
  /\ x \in [0 .. MaxTs -> States]
  /\ \A t \in a + 1 .. MaxTs : x[t] = Advance(e, x[t - 1], t, s[t])

SameRows(r, s, a, n) == \A t \in a + 1 .. n : r[t] = s[t]

LEMMA RunsAgree ==
  ASSUME NEW e \in Engines, NEW r \in Series, NEW s \in Series, NEW x, NEW y,
         NEW a \in 0 .. MaxTs, NEW n \in 0 .. MaxTs, x[a] = y[a],
         RunsAfter(e, r, x, a), RunsAfter(e, s, y, a), SameRows(r, s, a, n)
  PROVE  \A t \in a .. n : x[t] = y[t]
<1> DEFINE S == {t \in 0 .. MaxTs : t <= n => x[t] = y[t]}
<1>1. MaxTs \in Nat
  BY SeriesAssumption
<1>2. a \in S
  OBVIOUS
<1>3. ASSUME NEW t \in a + 1 .. MaxTs, t - 1 \in S PROVE t \in S
  <2>1. t \in 0 .. MaxTs /\ (t <= n => t - 1 <= n)
    BY <1>1
  <2>2. ASSUME t <= n PROVE x[t] = y[t]
    <3>1. t \in a + 1 .. n /\ x[t - 1] = y[t - 1]
      BY <1>1, <1>3, <2>1, <2>2
    <3>2. r[t] = s[t]
      BY <3>1 DEF SameRows
    <3> QED BY <1>3, <3>1, <3>2 DEF RunsAfter
  <2> QED BY <2>1, <2>2
<1>4. a .. MaxTs \subseteq S
  <2> HIDE DEF S
  <2> QED BY <1>2, <1>3, TimelineInduction
<1> QED BY <1>1, <1>4

\* The states of a replay from scratch of the rows s.
RunOf(e, s) == ReplayFrom(e, s, Start, 0)

LEMMA RunOfUnfolds ==
  ASSUME NEW e \in Engines, NEW s \in Series
  PROVE  RunOf(e, s)[0] = Start /\ RunsAfter(e, s, RunOf(e, s), 0)
<1> DEFINE run == ReplayFrom(e, s, Start, 0)
<1>1. MaxTs \in Nat /\ 0 \in 0 .. MaxTs /\ Start \in States
  BY SeriesAssumption, EngineAssumption
<1>2. /\ run \in [0 .. MaxTs -> States]
      /\ run[0] = Start
      /\ \A t \in 0 + 1 .. MaxTs : run[t] = Advance(e, run[t - 1], t, s[t])
  <2>1. Unfolds(e, s, Start, 0, run)
    BY <1>1, ReplayUnfolds
  <2> HIDE DEF run
  <2> QED BY <2>1 DEF Unfolds
<1>3. RunOf(e, s) = run
  BY DEF RunOf
<1> HIDE DEF run
<1> QED BY <1>2, <1>3 DEF RunsAfter

(***************************************************************************)
(* The states of a replay from scratch up to the last row do not depend on *)
(* the rows that come later, and stay what they are after it.              *)
(***************************************************************************)
LEMMA RunGrows ==
  ASSUME NEW e \in Engines, NEW s \in Series, NEW w \in Series, Grows(s, w)
  PROVE  /\ \A k \in 0 .. LastTs(s) : RunOf(e, w)[k] = RunOf(e, s)[k]
         /\ \A k \in LastTs(s) .. MaxTs : RunOf(e, s)[k] = RunOf(e, s)[LastTs(s)]
<1> DEFINE z == [t \in 0 .. MaxTs |-> RunOf(e, s)[LastTs(s)]]
<1>1. /\ MaxTs \in Nat /\ 0 \in 0 .. MaxTs /\ LastTs(s) \in 0 .. MaxTs
      /\ MaxTs \in 0 .. MaxTs
  BY SeriesAssumption, LastTsFacts
<1>2. /\ RunOf(e, s)[0] = Start /\ RunOf(e, w)[0] = Start
      /\ RunsAfter(e, s, RunOf(e, s), 0) /\ RunsAfter(e, w, RunOf(e, w), 0)
  BY RunOfUnfolds
<1>3. \A t \in 0 .. LastTs(s) : RunOf(e, w)[t] = RunOf(e, s)[t]
  <2>1. SameRows(w, s, 0, LastTs(s))
    BY <1>1 DEF Grows, SameRows, Ts
  <2> QED BY <1>1, <1>2, <2>1, RunsAgree
<1>4. RunsAfter(e, s, RunOf(e, s), LastTs(s))
  BY <1>1, <1>2 DEF RunsAfter
<1>5. RunsAfter(e, s, z, LastTs(s))
  <2>1. z \in [0 .. MaxTs -> States]
    BY <1>1, <1>2 DEF RunsAfter
  <2>2. ASSUME NEW t \in LastTs(s) + 1 .. MaxTs
        PROVE  z[t] = Advance(e, z[t - 1], t, s[t])
    <3>1. t \in Ts /\ t > LastTs(s) /\ t \in 0 .. MaxTs /\ t - 1 \in 0 .. MaxTs
      BY <1>1 DEF Ts
    <3>2. s[t] = NoBar
      BY <3>1, AfterLast
    <3> QED BY <3>1, <3>2 DEF Advance
  <2> HIDE DEF z
  <2> QED BY <2>1, <2>2 DEF RunsAfter
<1>6. RunOf(e, s)[LastTs(s)] = z[LastTs(s)]
  BY <1>1
<1>7. \A t \in LastTs(s) .. MaxTs : z[t] = RunOf(e, s)[LastTs(s)]
  BY <1>1
<1> HIDE DEF z
<1>8. \A t \in LastTs(s) .. MaxTs : RunOf(e, s)[t] = z[t]
  <2>1. SameRows(s, s, LastTs(s), MaxTs)
    BY DEF SameRows
  <2> QED BY <1>1, <1>4, <1>5, <1>6, <2>1, RunsAgree
<1> QED BY <1>3, <1>7, <1>8

(***************************************************************************)
(* A run resumed at a minute in the state a replay from scratch has there  *)
(* is that replay from there on.                                           *)
(***************************************************************************)
LEMMA ResumedRun ==
  ASSUME NEW e \in Engines, NEW s \in Series, NEW k \in 0 .. MaxTs,
         NEW st \in States, st = RunOf(e, s)[k]
  PROVE  \A t \in k .. MaxTs : ReplayFrom(e, s, st, k)[t] = RunOf(e, s)[t]
<1> DEFINE x == ReplayFrom(e, s, st, k)
<1>1. MaxTs \in Nat /\ MaxTs \in 0 .. MaxTs
  BY SeriesAssumption
<1>2. x[k] = st /\ RunsAfter(e, s, x, k)
  <2>1. Unfolds(e, s, st, k, x)
    BY ReplayUnfolds
  <2> HIDE DEF x
  <2> QED BY <2>1 DEF Unfolds, RunsAfter
<1>3. RunsAfter(e, s, RunOf(e, s), k)
  BY <1>1, RunOfUnfolds DEF RunsAfter
<1>4. x[k] = RunOf(e, s)[k]
  BY <1>2
<1>5. SameRows(s, s, k, MaxTs)
  BY DEF SameRows
<1> HIDE DEF x
<1>6. \A t \in k .. MaxTs : x[t] = RunOf(e, s)[t]
  BY <1>1, <1>2, <1>3, <1>4, <1>5, RunsAgree
<1> QED BY <1>6 DEF x

(***************************************************************************)
(* The states of a frame that is a replay are those of the run.            *)
(***************************************************************************)
LEMMA ReplayIsRun ==
  ASSUME NEW e \in Engines, NEW s \in Series, NEW f \in Frames, IsReplayOf(f, e, s)
  PROVE  \A t \in 0 .. MaxTs : f.trace[t] = RunOf(e, s)[t]
<1>1. MaxTs \in Nat /\ 0 \in 0 .. MaxTs /\ MaxTs \in 0 .. MaxTs
  BY SeriesAssumption
<1>2. RunsAfter(e, s, f.trace, 0)
  BY DEF RunsAfter, IsReplayOf, Frames, Ts
<1>3. f.trace[0] = RunOf(e, s)[0] /\ RunsAfter(e, s, RunOf(e, s), 0)
  BY RunOfUnfolds DEF IsReplayOf
<1>4. SameRows(s, s, 0, MaxTs)
  BY DEF SameRows
<1> QED BY <1>1, <1>2, <1>3, <1>4, RunsAgree

(***************************************************************************)
(* The rows of the output file up to the minute a replay resumes after are *)
(* a frame.                                                                *)
(***************************************************************************)
LEMMA PrefixType ==
  ASSUME NEW f \in Frames, NEW k \in 0 .. MaxTs
  PROVE  Prefix(f, k) \in Frames
<1>1. Upto(f.rows, k) \in Series
  BY SeriesTypes DEF Frames
<1>2. [t \in 0 .. MaxTs |-> f.trace[IF t <= k THEN t ELSE k]]
        \in [0 .. MaxTs -> States]
  BY DEF Frames
<1>3. f.unfilled \cap 1 .. k \in SUBSET Ts
  BY DEF Frames
<1> QED BY <1>1, <1>2, <1>3 DEF Prefix, Frames

(***************************************************************************)
(* A base frame extended by a run of the engine over the tail is a frame.  *)
(***************************************************************************)
LEMMA ExtendType ==
  ASSUME NEW e \in Engines, NEW f \in Frames, NEW k \in 0 .. MaxTs,
         NEW s \in Series, NEW st \in States
  PROVE  Extend(e, f, k, s, st) \in Frames
<1> DEFINE run == ReplayFrom(e, s, st, k)
<1>1. run \in [0 .. MaxTs -> States]
  <2>1. Unfolds(e, s, st, k, run)
    BY ReplayUnfolds
  <2> HIDE DEF run
  <2> QED BY <2>1 DEF Unfolds
<1>2. MaxTs \in Nat
  BY SeriesAssumption
<1>3. [t \in Ts |-> IF t <= k THEN f.rows[t] ELSE s[t]] \in Series
  BY DEF Frames, Series
<1>4. [t \in 0 .. MaxTs |-> IF t <= k THEN f.trace[t] ELSE run[t]]
        \in [0 .. MaxTs -> States]
  <2> HIDE DEF run
  <2> QED BY <1>1 DEF Frames
<1>5. run[MaxTs] \in States
  <2> HIDE DEF run
  <2> QED BY <1>1, <1>2
<1>6. PendingMark(run[MaxTs]) \in SUBSET Ts
  <2> HIDE DEF run
  <2>1. SignalTs(run[MaxTs]) \in 0 .. MaxTs
    BY <1>5, EngineAssumption
  <2> QED BY <2>1, <1>2 DEF PendingMark, Ts
<1>7. (f.unfilled \cap 1 .. k) \cup PendingMark(run[MaxTs]) \in SUBSET Ts
  <2> HIDE DEF run
  <2> QED BY <1>6 DEF Frames
<1>8. Extend(e, f, k, s, st) =
        [rows     |-> [t \in Ts |-> IF t <= k THEN f.rows[t] ELSE s[t]],
         trace    |-> [t \in 0 .. MaxTs |-> IF t <= k THEN f.trace[t] ELSE run[t]],
         unfilled |-> (f.unfilled \cap 1 .. k) \cup PendingMark(run[MaxTs])]
  BY Zenon DEF Extend
<1> HIDE DEF run
<1> QED BY <1>3, <1>4, <1>7, <1>8 DEF Frames

(***************************************************************************)
(* A missing output file counts as the frame without rows.                 *)
(***************************************************************************)
LEMMA EmptyFrameType == EmptyFrame \in Frames
<1>1. EmptySeries \in Series
  BY DEF EmptySeries, Series
<1> QED BY <1>1, EngineAssumption DEF EmptyFrame, Frames

-----------------------------------------------------------------------------
(* States on the run of a store.                                           *)

OnRun(e, s, k, st) == k <= LastTs(s) /\ st = RunOf(e, s)[k]

(***************************************************************************)
(* Later rows do not change a state of a run.                              *)
(***************************************************************************)
LEMMA OnRunGrows ==
  ASSUME NEW e \in Engines, NEW s \in Series, NEW w \in Series, Grows(s, w),
         NEW k \in 0 .. MaxTs, NEW st, OnRun(e, s, k, st)
  PROVE  OnRun(e, w, k, st)
<1>1. /\ LastTs(s) \in 0 .. MaxTs /\ LastTs(w) \in 0 .. MaxTs
      /\ LastTs(s) <= LastTs(w) /\ MaxTs \in Nat
  BY GrowsFacts, LastTsFacts, SeriesAssumption
<1>2. k \in 0 .. LastTs(s)
  BY <1>1 DEF OnRun
<1>3. RunOf(e, w)[k] = RunOf(e, s)[k]
  BY <1>2, RunGrows
<1> QED BY <1>1, <1>3 DEF OnRun

(***************************************************************************)
(* A run over the rows s, resumed from a state of the run of a later store *)
(* w, ends in the state that run has at the last row of s, whatever frame  *)
(* it extends.                                                             *)
(***************************************************************************)
LEMMA ExtendOnRun ==
  ASSUME NEW e \in Engines, NEW f \in Frames, NEW s \in Series, NEW w \in Series,
         Grows(s, w), NEW k \in 0 .. MaxTs, k < LastTs(s),
         NEW st \in States, OnRun(e, w, k, st)
  PROVE  OnRun(e, w, LastTs(s), Extend(e, f, k, s, st).trace[MaxTs])
<1> DEFINE run == ReplayFrom(e, s, st, k)
           g   == Extend(e, f, k, s, st)
<1>1. /\ MaxTs \in Nat /\ MaxTs \in 0 .. MaxTs
      /\ LastTs(s) \in 0 .. MaxTs /\ LastTs(w) \in 0 .. MaxTs
      /\ LastTs(s) <= LastTs(w)
  BY SeriesAssumption, LastTsFacts, GrowsFacts
<1>2. g = [rows     |-> [t \in Ts |-> IF t <= k THEN f.rows[t] ELSE s[t]],
           trace    |-> [t \in 0 .. MaxTs |-> IF t <= k THEN f.trace[t] ELSE run[t]],
           unfilled |-> (f.unfilled \cap 1 .. k) \cup PendingMark(run[MaxTs])]
  BY Zenon DEF Extend
<1> HIDE DEF g, run
<1>3. g.trace[MaxTs] = run[MaxTs]
  BY <1>1, <1>2
<1>4. st = RunOf(e, s)[k]
  <2>1. k \in 0 .. LastTs(s)
    BY <1>1
  <2>2. RunOf(e, w)[k] = RunOf(e, s)[k]
    BY <2>1, RunGrows
  <2> QED BY <2>2 DEF OnRun
<1>5. run[MaxTs] = RunOf(e, s)[MaxTs]
  <2>1. MaxTs \in k .. MaxTs
    BY <1>1
  <2> QED BY <1>4, <2>1, ResumedRun DEF run
<1>6. RunOf(e, s)[MaxTs] = RunOf(e, s)[LastTs(s)]
  <2>1. MaxTs \in LastTs(s) .. MaxTs /\ Grows(s, s)
    BY <1>1, GrowsSelf
  <2> QED BY <2>1, RunGrows
<1>7. RunOf(e, w)[LastTs(s)] = RunOf(e, s)[LastTs(s)]
  <2>1. LastTs(s) \in 0 .. LastTs(s)
    BY <1>1
  <2> QED BY <2>1, RunGrows
<1> QED BY <1>1, <1>3, <1>5, <1>6, <1>7 DEF OnRun, g
=============================================================================
