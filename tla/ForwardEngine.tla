---------------------------- MODULE ForwardEngine ----------------------------
(***************************************************************************)
(* The forward paper test (forward/engine.py, broker.py, store.py): every  *)
(* trading day it plans orders at the close, fills them at an open and     *)
(* marks the portfolio to market.  Each phase loads the state, works on    *)
(* it in memory, appends lines to the logs of trades, equity and alerts    *)
(* and only then writes state.json, in place: a process that dies on the   *)
(* way leaves logs and state apart, and may leave half a file.             *)
(*                                                                         *)
(* Who calls the phases is external, and so is the market: a phase may run *)
(* at any time of a day, be repeated or left out, in one process or in     *)
(* several.  An error of a log or of the state file ends the process, as   *)
(* the crash does.  The new portfolio is planned by Rebalance.             *)
(***************************************************************************)
EXTENDS Rebalance, SequencesExt

CONSTANTS
  Quotes,        \* external: snapshots each pair may have
  Limits,        \* turnover limits, in percent of the equity, or Never
  Cash,          \* initial_cash
  MaxDrawdown,   \* max_drawdown_pct
  MaxDay, MaxCalls, MaxFaults   \* bounds

ASSUME ForwardAssumption ==
  /\ Quotes \in [Pairs -> SUBSET Snapshots]
  /\ Limits \subseteq Nat \cup {Never}
  /\ {Cash, MaxDrawdown, MaxDay, MaxCalls, MaxFaults} \subseteq Nat

VARIABLES
  day,      \* the trading day
  limit,    \* the turnover limit of this run
  mem,      \* self._state: none or one
  disk,     \* state.json: none or one
  torn,     \* state.json cannot be parsed
  pc,       \* "idle" or "write"
  lines,    \* lines this phase still has to append
  trades, curve, alerts,   \* trades.jsonl, equity.jsonl, alerts.jsonl
  calls, faults,
  view      \* history: what the last planning saw, until the next open

logs == <<trades, curve, alerts>>
vars == <<day, limit, mem, disk, torn, pc, lines, logs, calls, faults, view>>

-----------------------------------------------------------------------------
Days == 0 .. MaxDay

Fills == [pair : Pairs, leg : Legs, qty : Int, price : Nat, plan : Nat, day : Days]

\* plan stands for the ids of the orders at hand.
States ==
  [cash : Int, equity : Int, high : Int, asOf : Days, pos : [Pairs -> Positions],
   orders : [Pairs -> [Legs -> Int]], plan : Nat, fills : Seq(Fills),
   closed : Days \cup {Never}]

Lines == [log : {"trades"}, line : Fills] \cup [log : {"curve"}, line : Days \X Int]
           \cup [log : {"alerts"}, line : {"missing", "drawdown"} \X Days]

Market == {m \in [Pairs -> UNION {Quotes[p] : p \in Pairs}] : \A p \in Pairs : m[p] \in Quotes[p]}

NoOrders == [p \in Pairs |-> [leg \in Legs |-> 0]]

NoPosition ==
  [listed |-> FALSE, stock |-> 0, fut |-> 0, cost |-> [leg \in Legs |-> 0],
   realized |-> 0, since |-> Never, entry |-> {}, failed |-> 0]

Fresh ==
  [cash |-> Cash, equity |-> Cash, high |-> Cash, asOf |-> day,
   pos |-> [p \in Pairs |-> NoPosition], orders |-> NoOrders, plan |-> 0,
   fills |-> <<>>, closed |-> Never]

Init ==
  /\ day = 0 /\ limit \in Limits
  /\ mem = {} /\ disk = {} /\ torn = FALSE
  /\ pc = "idle" /\ lines = <<>>
  /\ trades = <<>> /\ curve = <<>> /\ alerts = {}
  /\ calls = 0 /\ faults = 0
  /\ view = {}

Tick ==
  /\ pc = "idle" /\ day < MaxDay
  /\ day' = day + 1
  /\ UNCHANGED <<limit, mem, disk, torn, pc, lines, logs, calls, faults, view>>

\* The process ends; the next phase runs in another.
Exit ==
  /\ pc = "idle" /\ mem # {}
  /\ mem' = {}
  /\ UNCHANGED <<day, limit, disk, torn, pc, lines, logs, calls, faults, view>>

-----------------------------------------------------------------------------
(* _load_state and the end of every phase.                                 *)

\* A fresh state is saved at once.
Loaded == IF mem # {} THEN mem ELSE IF disk # {} THEN disk ELSE {Fresh}

Call ==
  /\ pc = "idle" /\ ~torn /\ calls < MaxCalls
  /\ calls' = calls + 1
  /\ disk' = IF disk = {} THEN {Fresh} ELSE disk
  /\ UNCHANGED <<day, limit, torn, logs, faults>>

\* The phase is done in memory and has this to append.
Leave(state, output) ==
  /\ mem' = {state}
  /\ pc' = "write" /\ lines' = output

LinesOf(log, seq) == [i \in DOMAIN seq |-> [log |-> log, line |-> seq[i]]]

\* Mutant: dated the next day.
MissingAlertNext(snaps) ==
  IF \E p \in Pairs : ~Quoted(snaps[p]) THEN LinesOf("alerts", << <<"missing", day + 1>> >>) ELSE <<>>

MissingAlert(snaps) ==
  IF \E p \in Pairs : ~Quoted(snaps[p]) THEN LinesOf("alerts", << <<"missing", day>> >>) ELSE <<>>

AppendLine ==
  /\ pc = "write" /\ lines # <<>>
  /\ LET head == Head(lines) IN
       /\ trades' = IF head.log = "trades" THEN Append(trades, head.line) ELSE trades
       /\ curve'  = IF head.log = "curve" THEN Append(curve, head.line) ELSE curve
       /\ alerts' = IF head.log = "alerts" THEN alerts \cup {head.line} ELSE alerts
  /\ lines' = Tail(lines)
  /\ UNCHANGED <<day, limit, mem, disk, torn, pc, calls, faults, view>>

\* Mutant: the state is saved before the logs.
WrittenAny == TRUE

Written == lines = <<>>

Save ==
  /\ pc = "write" /\ Written
  /\ disk' = mem
  /\ pc' = "idle" /\ lines' = <<>>
  /\ UNCHANGED <<day, limit, mem, torn, logs, calls, faults, view>>

\* The process dies; in the middle of a save, also of the first one of a fresh
\* state, half a file is left.
Crash ==
  /\ pc = "write" \/ (mem = {} /\ disk = {})
  /\ ~torn /\ faults < MaxFaults
  /\ faults' = faults + 1
  /\ torn' \in IF lines = <<>> THEN BOOLEAN ELSE {FALSE}
  /\ disk' = IF torn' THEN {} ELSE disk
  /\ mem' = {} /\ pc' = "idle" /\ lines' = <<>> /\ view' = {}
  /\ UNCHANGED <<day, limit, logs, calls>>

-----------------------------------------------------------------------------
(* run_eod                                                                 *)

ViewOf(s, snaps) ==
  [pos |-> s.pos, snaps |-> snaps, day |-> day, asOf |-> s.asOf, equity |-> s.equity,
   limit |-> limit]

\* New orders take the place of those that were not filled.  The planning
\* takes the portfolio's date, which is set to this day only afterwards.
RunEod ==
  /\ Call
  /\ \E s \in Loaded, snaps \in Market :
       /\ Leave([s EXCEPT !.orders = Orders(ViewOf(s, snaps)), !.plan = @ + 1, !.asOf = day],
                MissingAlert(snaps))
       /\ view' = {ViewOf(s, snaps)}

-----------------------------------------------------------------------------
(* run_open                                                                *)

\* Orders of S, in a fixed sequence, at the snapshots' prices.  The fill is of
\* the plan at hand: an order id has a counter that starts anew with every
\* process, and only the orders at hand are looked up by it.
FillsOf(s, snaps, S) ==
  LET seq == SetToSeq(S)
  IN  [i \in DOMAIN seq |->
         LET p == seq[i][1]
             leg == seq[i][2]
         IN  [pair |-> p, leg |-> leg, qty |-> s.orders[p][leg], price |-> snaps[p][leg],
              plan |-> s.plan, day |-> day]]

Fillable(s, snaps) ==
  {o \in Pairs \X Legs : s.orders[o[1]][o[2]] # 0 /\ snaps[o[1]][o[2]] # 0}

Sign(x) == IF x < 0 THEN -1 ELSE 1

\* Mutant: the cost of what was closed stays.
CostKept(qty, cost, delta, price) ==
  LET new == qty + delta
  IN  IF new = 0 THEN 0
      ELSE IF qty = 0 \/ qty * delta > 0 THEN cost + delta * price
      ELSE IF Abs(delta) > Abs(qty) THEN new * price
      ELSE cost

\* _update_entry_price, times the (signed) quantity.
CostAfter(qty, cost, delta, price) ==
  LET new == qty + delta
  IN  IF new = 0 THEN 0
      ELSE IF qty = 0 \/ qty * delta > 0 THEN cost + delta * price
      ELSE IF Abs(delta) > Abs(qty) THEN new * price
      ELSE (cost * Abs(new)) \div Abs(qty)

\* _realized_pnl_delta
RealizedDelta(qty, cost, delta, price) ==
  IF qty * delta >= 0 THEN 0
  ELSE ((price * qty - cost) * AtMost(Abs(delta), Abs(qty))) \div Abs(qty)

LegMult(p, leg) == IF leg = "fut" THEN Mult[p] ELSE 1

\* _apply_leg_fill.  The day of the first entry is never taken back.
Filled(pos, p, leg, delta, price) ==
  IF delta = 0 THEN pos
  ELSE LET qty  == pos[leg]
           cost == pos.cost[leg]
           new  == qty + delta
       IN  [pos EXCEPT
              !.listed = TRUE,
              ![leg] = new,
              !.cost[leg] = CostAfter(qty, cost, delta, price),
              !.realized = @ + RealizedDelta(qty, cost, delta, price) * LegMult(p, leg),
              !.since = IF @ = Never /\ new # 0 THEN day ELSE @]

\* Mutant: filled orders stay open.
OpenAfterAll(s, S) == s.orders

OpenAfter(s, S) ==
  [p \in Pairs |-> [leg \in Legs |-> IF <<p, leg>> \in S THEN 0 ELSE s.orders[p][leg]]]

\* apply_fills.  Only shares are paid for.
Applied(s, snaps, S) ==
  LET amount(p, leg) == IF <<p, leg>> \in S THEN s.orders[p][leg] ELSE 0
  IN  [s EXCEPT
         !.pos = [p \in Pairs |->
                    Filled(Filled(s.pos[p], p, "stock", amount(p, "stock"), snaps[p].stock),
                           p, "fut", amount(p, "fut"), snaps[p].fut)],
         !.cash = @ - SumFunction([p \in Pairs |-> amount(p, "stock") * snaps[p].stock]),
         !.orders = OpenAfter(s, S),
         !.fills = @ \o FillsOf(s, snaps, S),
         !.asOf = day]

\* Mutant: alerts are kept only when nothing was filled.
OpenLinesEither(fills, alert) == IF fills = <<>> THEN alert ELSE LinesOf("trades", fills)

OpenLines(fills, alert) == LinesOf("trades", fills) \o alert

\* Also when a fill lacks a price, which a snapshot without a quote implies.
RunOpen ==
  /\ Call
  /\ \E s \in Loaded :
       \/ /\ s.orders = NoOrders
          /\ mem' = {s}
          /\ UNCHANGED <<pc, lines, view>>
       \/ /\ s.orders # NoOrders
          /\ \E snaps \in Market :
               LET S == Fillable(s, snaps)
               IN  Leave(Applied(s, snaps, S), OpenLines(FillsOf(s, snaps, S), MissingAlert(snaps)))
          /\ view' = {}

-----------------------------------------------------------------------------
(* run_after_close                                                         *)

\* A leg without a price is left out.  What closed futures brought is too.
Marked(s, snaps) ==
  s.cash + SumFunction(
    [p \in Pairs |->
       LET q == snaps[p]
           pos == s.pos[p]
       IN  pos.stock * q.stock
             + IF q.fut = 0 THEN 0 ELSE (q.fut * pos.fut - pos.cost["fut"]) * Mult[p]])

Highest(x, y) == IF x < y THEN y ELSE x

RunAfterClose ==
  /\ Call
  /\ \E s \in Loaded, snaps \in Market :
       LET equity == Marked(s, snaps)
           high   == Highest(s.high, equity)
           deep   == high # 0 /\ (high - equity) * 100 >= MaxDrawdown * high
       IN  Leave([s EXCEPT !.equity = equity, !.high = high, !.asOf = day, !.closed = day],
                 LinesOf("curve", << <<day, equity>> >>) \o MissingAlert(snaps)
                   \o IF deep THEN LinesOf("alerts", << <<"drawdown", day>> >>) ELSE <<>>)
  /\ UNCHANGED view

-----------------------------------------------------------------------------
Next ==
  \/ Tick \/ Exit
  \/ RunEod \/ RunOpen \/ RunAfterClose
  \/ AppendLine \/ Save
  \/ Crash

Spec == Init /\ [][Next]_vars

-----------------------------------------------------------------------------
\* Every variable has its type; alerts are dated on days that were.
TypeOK ==
  /\ day \in Days /\ limit \in Limits
  /\ mem \subseteq States /\ disk \subseteq States
  /\ Cardinality(mem) <= 1 /\ Cardinality(disk) <= 1
  /\ torn \in BOOLEAN
  /\ pc \in {"idle", "write"}
  /\ lines \in Seq(Lines)
  /\ trades \in Seq(Fills) /\ curve \in Seq(Days \X Int)
  /\ alerts \subseteq {"missing", "drawdown"} \X Days
  /\ calls \in 0 .. MaxCalls /\ faults \in 0 .. MaxFaults
  /\ view \subseteq Views

\* What the fills of a leg bought, and paid.
FillsOfLeg(fills, p, leg) == {i \in DOMAIN fills : fills[i].pair = p /\ fills[i].leg = leg}

Bought(fills, p, leg) == SumFunction([i \in FillsOfLeg(fills, p, leg) |-> fills[i].qty])

Paid(fills, p, leg) ==
  SumFunction([i \in FillsOfLeg(fills, p, leg) |-> fills[i].qty * fills[i].price])

\* The state on disk adds up, however many opens, restarts and partial fills
\* it has behind it: every leg is what its fills bought, cash is what they
\* left of the initial sum, and cost and realized result of a position account
\* for all that was paid.
BooksAgree ==
  \A s \in disk :
    /\ \A p \in Pairs :
         /\ \A leg \in Legs : s.pos[p][leg] = Bought(s.fills, p, leg)
         /\ s.pos[p].realized =
              SumFunction(
                [leg \in Legs |-> (s.pos[p].cost[leg] - Paid(s.fills, p, leg)) * LegMult(p, leg)])
    /\ s.cash = Cash - SumFunction([p \in Pairs |-> Paid(s.fills, p, "stock")])

\* The logs never lag behind the state: every fill of it has its trade, and
\* the day it was last marked its point of the curve, whenever the process died.
LogsAreAhead ==
  \A s \in disk :
    /\ \A i \in DOMAIN s.fills : \E j \in DOMAIN trades : trades[j] = s.fills[i]
    /\ s.closed # Never => \E i \in DOMAIN curve : curve[i][1] = s.closed

\* An order is filled at most once, also when a day is opened again, or after
\* a crash between its trades and the state.
EachOrderOnce ==
  \A s \in disk : \A i, j \in DOMAIN s.fills :
    s.fills[i].plan = s.fills[j].plan /\ s.fills[i].pair = s.fills[j].pair
      /\ s.fills[i].leg = s.fills[j].leg => i = j

\* A carry is never turned around: whatever part of the orders is filled, and
\* whenever plans are made anew, no shares are sold short and no futures held.
NeverShort ==
  \A s \in mem \cup disk : \A p \in Pairs :
    /\ s.pos[p].stock >= 0 /\ s.pos[p].fut <= 0
    /\ s.pos[p].stock + s.orders[p]["stock"] >= 0
    /\ s.pos[p].fut + s.orders[p]["fut"] <= 0

\* What a pair will be when all orders are filled.
Target(s, p, leg) == s.pos[p][leg] + s.orders[p][leg]

\* A soft rebalance repairs every hedge that partial fills broke.
HedgeRestored ==
  \A v \in view : \A s \in mem : IsSoft(v) =>
    \A p \in Listed(v) \cup TargetPairs(v) :
      Target(s, p, "stock") = -Mult[p] * Target(s, p, "fut")

\* Under a turnover limit what the futures grow by costs no more than the
\* limit leaves after all reductions.
TurnoverHeld ==
  \A v \in view : \A s \in mem :
    limit # Never =>
      LET grown(p)  == Positive(Abs(Target(s, p, "fut")) - Abs(v.pos[p].fut))
          shrunk(p) == Positive(Abs(v.pos[p].fut) - Abs(Target(s, p, "fut")))
          cost(f(_)) == SumFunction([p \in Pairs |-> f(p) * PerContractNotional(v, p)])
      IN  cost(grown) <= Positive(Limit(v) - cost(shrunk))

\* A hedge that an open left broken was reported on that day: a saved position
\* whose legs do not match has a missing-quotes alert on the day of its last fill.
UnhedgedIsAlerted ==
  \A s \in disk : \A p \in Pairs :
    s.pos[p].stock # -Mult[p] * s.pos[p].fut =>
      \E i \in DOMAIN s.fills :
        /\ s.fills[i].pair = p
        /\ \A j \in DOMAIN s.fills : s.fills[j].pair = p => j <= i
        /\ <<"missing", s.fills[i].day>> \in alerts

\* The controller is documented to close a position at its stop loss.  (The
\* paper broker never records the spread at entry, which the exit reads.)
StopLossExits ==
  \A v \in view : \A s \in mem : \A p \in Listed(v) :
    LET pos == v.pos[p]
        q == v.snaps[p]
    IN  /\ Quoted(q) /\ pos.stock > 0 /\ pos.fut < 0
        /\ Spread(q.stock, q.fut)
             - Spread(pos.cost["stock"] \div pos.stock, (-pos.cost["fut"]) \div (-pos.fut)) <= -StopLoss
        => Target(s, p, "stock") = 0 /\ Target(s, p, "fut") = 0
=============================================================================
