----------------------------- MODULE TailRound ------------------------------
(* The decision of one market's round: _run_twap_tail_round waits for the    *)
(* feature cutoff and evaluates, up to the allowed lateness after it, the    *)
(* quotes and the Binance tape as they are then, with evaluate_tail_decision *)
(* and _path_gate of twap_tail.py. Messages go on arriving meanwhile. Prices *)
(* are positive integers, bids are in cents with 0 for None, and basis       *)
(* points are compared by cross-multiplication.                              *)
EXTENDS BinanceProxy, FiniteSets, SequencesExt

CONSTANTS
  Round,     \* start of the round's candle
  Anchor30,  \* its end less 30 s
  Anchor20,  \* its end less 20 s
  Target,    \* its end less decision_lead_s
  Cutoff,    \* Target and max_decision_lateness_s
  QuoteAge,  \* pm_quote_max_age_s
  TradeAge,  \* binance_max_trade_age_s
  LeaderBid, \* leader_bid_threshold
  WeakBps,   \* weak_candle_abs_move_bps
  BackBps,   \* weak_path_reversal_bps
  BidPairs,  \* best bids <<yes, no>> the market may show
  DequeCap   \* maxlen of the observations

ASSUME TailRoundAssumption ==
  /\ {Round, Anchor30, Anchor20, Target, Cutoff} \subseteq Nat
  /\ Round <= Anchor30 /\ Anchor30 <= Anchor20 /\ Anchor20 <= Target
  /\ Target <= Cutoff /\ Target < Round + Window /\ Cutoff <= Round + Keep
  /\ Round \in Keys
  /\ {QuoteAge, TradeAge, LeaderBid, WeakBps, BackBps} \subseteq Nat
  /\ BidPairs \subseteq Nat \X Nat
  /\ DequeCap \in Nat \ {0}

VARIABLES
  quotes,   \* the deque of observations: when, and the two best bids
  paired,   \* MarketBookStream.ready
  decision, \* the decision of the round
  decided,  \* when it was made
  frozen    \* what the same rules say at the end of Target (history)

tailVars == <<quotes, paired, decision, decided, frozen>>

Hold == "hold"
Pending == "pending"
Decisions == {Pending, Hold, "YES", "NO"}
Quote == [at : 0 .. LastTime, bids : BidPairs]

TailRoundTypeOK ==
  /\ quotes \in Seq(Quote)
  /\ paired \in BOOLEAN
  /\ decision \in Decisions /\ frozen \in Decisions
  /\ decided \in 0 .. LastTime

TailRoundInit ==
  /\ BinanceProxyInit
  /\ quotes = <<>> /\ paired = FALSE
  /\ decision = Pending /\ frozen = Pending
  /\ decided = 0

-----------------------------------------------------------------------------
(* evaluate_tail_decision, of a quote, the open of the candle and a tape     *)

Valid(bid) == 0 < bid /\ bid < 100
Leader(bids) ==
  IF Valid(bids[1]) /\ (~Valid(bids[2]) \/ bids[1] > bids[2]) THEN "YES"
  ELSE "NO"
HasLeader(bids) ==
  /\ Valid(bids[1]) \/ Valid(bids[2])
  /\ ~(Valid(bids[1]) /\ Valid(bids[2]) /\ bids[1] = bids[2])
  /\ bids[IF Leader(bids) = "YES" THEN 1 ELSE 2] >= LeaderBid

QuoteQualifies(quote) == Target - quote.at <= QuoteAge /\ HasLeader(quote.bids)

\* Order of (trade_ms, received_ms); a stable sort keeps the arrival order.
Before(x, y) ==
  \/ x.trade < y.trade
  \/ x.trade = y.trade /\ x.received < y.received
Latest(tape, S) ==
  {i \in S : \A j \in S : ~Before(tape[i], tape[j])}
\* _latest_at_or_before: max takes the first of equals.
KnownBy(tape, t) ==
  {i \in DOMAIN tape : tape[i].trade <= t /\ tape[i].received <= t}
PriceAt(tape, t) == tape[Min(Latest(tape, KnownBy(tape, t)))].price

\* Mutation: no test of the age of the last trade.
TapeHasAnchors(tape) ==
  KnownBy(tape, Anchor30) # {} /\ KnownBy(tape, Anchor20) # {}

TapeQualifies(tape) ==
  /\ KnownBy(tape, Anchor30) # {} /\ KnownBy(tape, Anchor20) # {}
  /\ \E i \in DOMAIN tape : Target - tape[i].trade <= TradeAge

\* The move from price x to price y, in the direction of the side.
Move(side, x, y) == IF side = "YES" THEN y - x ELSE x - y
TailTrades(tape) == {i \in DOMAIN tape : tape[i].trade > Anchor30}
TailPrices(tape) ==
  {PriceAt(tape, Anchor30)} \cup {tape[i].price : i \in TailTrades(tape)}

\* The last of tail_prices: of equals the one that came last, and the price at
\* the anchor when nothing came after it.
LastTailPrice(tape) ==
  IF TailTrades(tape) = {} THEN PriceAt(tape, Anchor30)
  ELSE tape[Max(Latest(tape, TailTrades(tape)))].price

\* _path_gate: a weak candle must not turn back at its end.
PathGate(side, open, tape) ==
  LET last == PriceAt(tape, Target) IN
  /\ Move(side, open, last) > 0
  /\ \/ Move(side, open, last) * 10000 > WeakBps * open
     \/ /\ Move(side, PriceAt(tape, Anchor30), last) > 0
        /\ Move(side, PriceAt(tape, Anchor20), last) > 0
        /\ \A p \in TailPrices(tape) :
             -Move(side, p, LastTailPrice(tape)) * 10000 <= BackBps * p

EvaluateTailDecision(quote, open, tape) ==
  IF /\ QuoteQualifies(quote) /\ TapeQualifies(tape)
     /\ PathGate(Leader(quote.bids), open, tape)
    THEN Leader(quote.bids)
    ELSE Hold

-----------------------------------------------------------------------------
(* What it is given                                                          *)

\* The newest quote of the target, wherever the deque stands by then.
Newest(S) == CHOOSE q \in S : \A r \in S : q.at >= r.at
TargetQuotes == {q \in ToSet(quotes) : q.at <= Target}
TargetQuote == Newest(TargetQuotes)

\* Mutation: trades are taken by exchange time, however late they came in.
TapeByExchangeTime ==
  LET trades == candles[Round].trades IN
  [i \in {j \in DOMAIN trades : trades[j].trade \in Round .. Target}
     |-> trades[i]]

\* The part of the tape that was made and received by the target.
Tape ==
  LET trades == candles[Round].trades IN
  [i \in {j \in DOMAIN trades : /\ trades[j].trade \in Round .. Target
                                /\ trades[j].received <= Target}
     |-> trades[i]]

\* The open is known, from a kline event that came in by the target.
OpenKnown ==
  candles[Round].open # 0 /\ candles[Round].openReceived <= Target

Evaluate ==
  IF paired /\ Covered(Round) /\ TargetQuotes # {} /\ OpenKnown
    THEN EvaluateTailDecision(TargetQuote, candles[Round].open, Tape)
    ELSE Hold

-----------------------------------------------------------------------------
(* The round                                                                 *)

\* The tape of the round may still be complete when it is read.
MayCover == CanCover(Round) \/ (connected = Never /\ now <= Round)

\* The market's stream lives from the start of the round to its decision; what
\* comes after the cutoff, or once the decision can only be HOLD, no longer
\* matters.
Listening ==
  decision = Pending /\ now \in Round .. Cutoff /\ MayCover

\* record_book at most once at a time, see MarketStream.
RecordQuote ==
  /\ Listening
  /\ quotes # <<>> => now > Last(quotes).at
  /\ \E bids \in BidPairs :
       quotes' = Append(IF Len(quotes) < DequeCap THEN quotes ELSE Tail(quotes),
                        [at |-> now, bids |-> bids])
  /\ paired' = TRUE
  /\ UNCHANGED <<proxyVars, decision, decided, frozen>>

ResetQuotes ==
  /\ Listening
  /\ paired
  /\ quotes' = <<>>
  /\ paired' = FALSE
  /\ UNCHANGED <<proxyVars, decision, decided, frozen>>

\* One evaluation per round, and none after the cutoff.
Decide ==
  /\ decision = Pending
  /\ now >= Target
  /\ decision' = IF now > Cutoff THEN Hold ELSE Evaluate
  /\ decided' = now
  /\ UNCHANGED <<proxyVars, quotes, paired, frozen>>

\* The tape of this round, until its decision. Once the tape may not be complete
\* the decision is HOLD, and its further course, which the quotes have no part
\* in, is followed without them. Other candles are the business of
\* BinanceProxySpec.
ProxyStep ==
  /\ decision = Pending /\ now <= Cutoff
  /\ MayCover \/ quotes = <<>>
  /\ OnOpen \/ Break \/ OnClose \/ ProxyMessage
  /\ DOMAIN candles' \subseteq {Round}
  /\ UNCHANGED tailVars

\* Nothing that arrives after the last instant of Target counts as known.
TimePasses ==
  /\ ClockTick
  /\ frozen' = IF now = Target THEN Evaluate ELSE frozen
  /\ UNCHANGED <<quotes, paired, decision, decided>>

TailRoundNext ==
  RecordQuote \/ ResetQuotes \/ Decide \/ ProxyStep \/ TimePasses

TailRoundSpec == TailRoundInit /\ [][TailRoundNext]_<<proxyVars, tailVars>>

\* A late scheduler never enters on what it could not have known: an entry
\* decided after the target is the entry of the target, for the same side,
\* whatever trades, quotes and reconnects come in between.
LateEntryWasDue ==
  decision \in {"YES", "NO"} /\ decided > Target => decision = frozen

\* An entry never rests on a tape that had already broken off, unnoticed, more
\* than TradeAge before the target: what the coverage flag cannot know of a
\* connection that looks alive, the age of the last trade makes up for.
EntryTapeUnbroken ==
  decision \in {"YES", "NO"} /\ lost[Round] # Never =>
    lost[Round] >= Target - TradeAge

\* evaluate_tail_decision: "the quote and Spot tape are always evaluated at the
\* target itself". A decision in time, with the tape complete and the stream
\* paired as at the target, is the decision of the target.
FrozenAtTarget ==
  [][decision = Pending /\ decision' # Pending
       /\ Target < now /\ now <= Cutoff /\ paired /\ Covered(Round)
     => decision' = frozen]_<<proxyVars, tailVars>>
=============================================================================
