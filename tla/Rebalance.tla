------------------------------ MODULE Rebalance ------------------------------
(***************************************************************************)
(* The portfolio rebalance controller (portfolio/rebalance_controller.py,  *)
(* allocation.py, turnover.py) as the forward paper engine uses it: from   *)
(* the positions and one snapshot of every pair to the orders of the next  *)
(* open.  A position is a number of contracts: Mult shares bought for each *)
(* future sold.                                                            *)
(*                                                                         *)
(* The snapshots of the forward engine carry no score and the portfolio no *)
(* cooldown, so what the controller would do with them (thresholds, soft   *)
(* exits, rotation, cooldown) never happens, every allocation method gives *)
(* each target the same weight, and candidates enter in the order of the   *)
(* pairs.  Prices are integers, percentages whole; a price of 0 is none.   *)
(***************************************************************************)
EXTENDS Integers, FiniteSets, Functions

CONSTANTS
  Pairs,         \* numbered in the order of the universe
  Mult,          \* shares of a contract
  Expiry,        \* day of expiry
  MaxPairs,      \* max_pairs_held
  SoftDays,      \* days of the soft rebalance
  MinDte,        \* enter_min_DTE
  CloseBuffer,   \* close_buffer_days
  HoldDays,      \* h_max_days
  StopLoss, TakeProfit,  \* SL_pct, TP_pct
  LiqStreak,     \* liquidity_exit_streak
  MaxContracts,  \* max_contracts_per_pair
  Band           \* rebalance_band

ASSUME RebalanceAssumption ==
  /\ Pairs \subseteq Nat /\ IsFiniteSet(Pairs)
  /\ Mult \in [Pairs -> Nat \ {0}]
  /\ Expiry \in [Pairs -> Nat]
  /\ SoftDays \subseteq Nat
  /\ {MaxPairs, MinDte, CloseBuffer, HoldDays, StopLoss, TakeProfit,
      LiqStreak, MaxContracts, Band} \subseteq Nat

-----------------------------------------------------------------------------
Never == -1
Legs  == {"stock", "fut"}

Snapshots == [stock : Nat, fut : Nat, floor : BOOLEAN, liquid : BOOLEAN]

\* listed: the portfolio has the position, if only with no quantity.  cost is
\* quantity times entry price.  entry (entry_spread_exec_pct, none or one) and
\* failed (liq_fail_streak) are what the exits read.
Positions ==
  [listed : BOOLEAN, stock : Int, fut : Int, cost : [Legs -> Int], realized : Int,
   since : Nat \cup {Never}, entry : SUBSET Int, failed : Nat]

\* What a rebalance sees: positions, snapshots and their day, the date of the
\* portfolio, its equity, and the turnover limit in percent of it, or Never.
Views ==
  [pos : [Pairs -> Positions], snaps : [Pairs -> Snapshots], day : Nat, asOf : Nat,
   equity : Int, limit : Nat \cup {Never}]

Abs(x) == IF x < 0 THEN -x ELSE x
Positive(x) == IF x < 0 THEN 0 ELSE x
AtMost(x, y) == IF x < y THEN x ELSE y

Quoted(q) == q.stock # 0 /\ q.fut # 0
Spread(stock, fut) == ((stock - fut) * 100) \div stock
Dte(v, p) == Expiry[p] - v.day

-----------------------------------------------------------------------------
(* Exits and entries.                                                      *)

Gain(v, p) ==
  LET q == v.snaps[p]
  IN  {Spread(q.stock, q.fut) - e : e \in IF Quoted(q) THEN v.pos[p].entry ELSE {}}

\* _evaluate_hard_exit as configured by default: every day
\* (hard_checks_frequency), with exit_on_floor_fail, without kill_switch and
\* trailing_stop_pct.  The round trip costs of tp_net are part of TakeProfit.
HardExit(v, p) ==
  \/ Dte(v, p) <= CloseBuffer
  \/ \E x \in Gain(v, p) : x <= -StopLoss \/ x >= TakeProfit
  \/ LiqStreak > 0 /\ ~v.snaps[p].liquid /\ v.pos[p].failed + 1 >= LiqStreak
  \/ ~v.snaps[p].floor
  \/ v.pos[p].since # Never /\ HoldDays > 0 /\ v.asOf - v.pos[p].since >= HoldDays

Listed(v)    == {p \in Pairs : v.pos[p].listed}
HardExits(v) == {p \in Listed(v) : HardExit(v, p)}
Kept(v)      == Listed(v) \ HardExits(v)
IsSoft(v)    == v.asOf \in SoftDays

PassesEntryGates(v, p) ==
  v.snaps[p].floor /\ v.snaps[p].liquid /\ Dte(v, p) >= MinDte

\* Who gets a free slot; also a pair that is just being closed may.
Entering(v) ==
  LET candidates == {p \in Pairs \ Kept(v) : PassesEntryGates(v, p)}
      slots == MaxPairs - Cardinality(Kept(v))
  IN  {p \in candidates : Cardinality({r \in candidates : r < p}) < slots}

TargetPairs(v) == IF IsSoft(v) THEN Kept(v) \cup Entering(v) ELSE Kept(v)

-----------------------------------------------------------------------------
(* Contracts.                                                              *)

\* A lone short leg counts, a lone long one does not.
CurrentContracts(v, p) == Abs(v.pos[p].fut)

\* _contracts_for_pair, over an equal share of the equity.
ContractsForPair(v, p) ==
  LET n == Cardinality(TargetPairs(v))
      price == v.snaps[p].stock
  IN  IF price = 0 THEN 0
      ELSE AtMost(MaxContracts, Positive(v.equity \div (n * price * Mult[p])))

\* _apply_band_rebalance
Banded(v, p) ==
  LET current == CurrentContracts(v, p)
      target  == ContractsForPair(v, p)
  IN  IF current # 0 /\ Abs(current - target) * 100 < Band * current THEN current ELSE target

Planned(v) == Listed(v) \cup TargetPairs(v)

TargetContracts(v) ==
  [p \in Planned(v) |->
     IF p \in HardExits(v) THEN 0
     ELSE IF IsSoft(v) THEN Banded(v, p) ELSE CurrentContracts(v, p)]

-----------------------------------------------------------------------------
(* apply_turnover_cap                                                      *)

PerContractNotional(v, p) == (v.snaps[p].stock + v.snaps[p].fut) * Mult[p]

Limit(v) == (v.equity * v.limit) \div 100

\* Turnover of the pairs of S towards the given contracts.
Turnover(v, contracts, S) ==
  SumFunction([p \in S |-> Abs(contracts[p] - CurrentContracts(v, p)) * PerContractNotional(v, p)])

Growing(v, contracts) == {p \in DOMAIN contracts : contracts[p] > CurrentContracts(v, p)}

Remaining(v, contracts) ==
  Positive(Limit(v) - Turnover(v, contracts, DOMAIN contracts \ Growing(v, contracts)))

\* Mutant: rounded up.
ScaledUp(delta, remaining, increase) == (delta * remaining + increase - 1) \div increase

Scaled(delta, remaining, increase) == (delta * remaining) \div increase

\* Only increases give way.
Capped(v, contracts) ==
  LET growing  == Growing(v, contracts)
      increase == Turnover(v, contracts, growing)
      remaining == Remaining(v, contracts)
      current(p) == CurrentContracts(v, p)
  IN  IF Limit(v) <= 0
      THEN [p \in DOMAIN contracts |-> IF p \in growing THEN current(p) ELSE contracts[p]]
      ELSE IF increase <= remaining THEN contracts
      ELSE [p \in DOMAIN contracts |->
              IF p \in growing
              THEN current(p) + Scaled(contracts[p] - current(p), remaining, increase)
              ELSE contracts[p]]

FinalContracts(v) ==
  IF v.limit = Never THEN TargetContracts(v) ELSE Capped(v, TargetContracts(v))

-----------------------------------------------------------------------------
(* Quantities and orders.                                                  *)

\* _resolve_direction after a fill; a new position is default_direction, which
\* is taken to be cash_and_carry, the default.
Direction(pos) == IF pos.stock >= 0 /\ pos.fut <= 0 THEN "cash_and_carry" ELSE "reverse"

\* Mutant: shares without the multiplier.
QuantitiesFlat(contracts, direction, mult) ==
  IF direction = "reverse" THEN [stock |-> -contracts, fut |-> contracts]
  ELSE [stock |-> contracts, fut |-> -contracts]

Quantities(contracts, direction, mult) ==
  IF direction = "reverse" THEN [stock |-> -contracts * mult, fut |-> contracts]
  ELSE [stock |-> contracts * mult, fut |-> -contracts]

\* Without a soft rebalance, a hard exit or a limit, targets are the positions
\* as they are, hedged or not.
IsRefreshed(v) == IsSoft(v) \/ HardExits(v) # {} \/ v.limit # Never

TargetQuantities(v, p) ==
  IF p \notin Planned(v) \/ ~IsRefreshed(v)
  THEN [stock |-> v.pos[p].stock, fut |-> v.pos[p].fut]
  ELSE Quantities(FinalContracts(v)[p], Direction(v.pos[p]), Mult[p])

\* Signed quantities; 0 is no order.
Orders(v) ==
  [p \in Pairs |->
     LET target == TargetQuantities(v, p)
     IN  [leg \in Legs |-> target[leg] - v.pos[p][leg]]]
=============================================================================
