---------------------------- MODULE BinanceProxy ----------------------------
(* BinanceFiveMinuteProxy of binance_proxy.py for one asset: the websocket   *)
(* callbacks collect the trades and the kline open of every candle and mark  *)
(* a candle incomplete when the stream was down during it. A connection      *)
(* breaks some time before the program hears of it (run_forever pings every  *)
(* 20 s and waits 10 s), and what is in flight is lost with it. Exchange     *)
(* times are on the local clock: an event is received at most MaxDelay steps *)
(* after it was made.                                                        *)
EXTENDS Integers, Sequences

CONSTANTS
  Window,       \* WINDOW_MS in steps of the clock
  MaxTrades,    \* MAX_TRADES_PER_CANDLE
  CleanupEvery, \* 3 600 000 ms in steps
  Keep,         \* 7 200 000 ms in steps
  Prices,       \* prices of trades
  OpenPrice,    \* the price in the kline events of a candle
  MaxDelay,     \* bound: delay of an event
  StartTimes,   \* when the process may start
  LastTime      \* bound: last step of the clock

ASSUME BinanceProxyAssumption ==
  /\ Window \in Nat \ {0} /\ MaxTrades \in Nat
  /\ CleanupEvery \in Nat /\ Keep \in Nat
  /\ Prices \subseteq Nat \ {0} /\ OpenPrice \in Nat \ {0}
  /\ MaxDelay \in Nat /\ LastTime \in Nat
  /\ StartTimes \subseteq 0 .. LastTime

VARIABLES
  now,         \* the clock
  link,        \* the stream's events do arrive
  connected,   \* _connected_since_ms, or Never
  candles,     \* _candles, a partial function of the candles' starts
  invalid,     \* the keys of _invalid
  lastCleanup, \* _last_cleanup_ms
  lost         \* when an event of a candle was first lost, or Never (history)

proxyVars == <<now, link, connected, candles, invalid, lastCleanup, lost>>

Never == -1
CandleOf(t) == (t \div Window) * Window
Keys == {CandleOf(t) : t \in 0 .. LastTime}
Trade == [trade : 0 .. LastTime, received : 0 .. LastTime, price : Prices]
Candle == [complete : BOOLEAN, trades : Seq(Trade), open : {0, OpenPrice},
           openReceived : 0 .. LastTime]

BinanceProxyTypeOK ==
  /\ now \in 0 .. LastTime /\ link \in BOOLEAN
  /\ connected \in {Never} \cup 0 .. LastTime
  /\ DOMAIN candles \subseteq Keys
  /\ \A k \in DOMAIN candles : candles[k] \in Candle
  /\ invalid \subseteq Keys
  /\ lost \in [Keys -> {Never} \cup 0 .. LastTime]
  /\ lastCleanup \in 0 .. LastTime

BinanceProxyInit ==
  /\ now \in StartTimes
  /\ link = FALSE /\ connected = Never
  /\ candles = [k \in {} |-> {}]
  /\ invalid = {} /\ lost = [k \in Keys |-> Never]
  /\ lastCleanup = 0

-----------------------------------------------------------------------------
\* _candle_locked: a candle is complete when the connection is older than it.
CandleAt(key) ==
  IF key \in DOMAIN candles THEN candles[key]
  ELSE [complete |-> connected # Never /\ connected <= key /\ key \notin invalid,
        trades |-> <<>>, open |-> 0, openReceived |-> 0]

With(key, candle) ==
  [k \in DOMAIN candles \cup {key} |-> IF k = key THEN candle ELSE candles[k]]

\* _cleanup_locked on the tables that the handler has just written.
Cleanup(table, marks, t) ==
  IF t - lastCleanup < CleanupEvery
    THEN candles' = table /\ invalid' = marks /\ UNCHANGED lastCleanup
    ELSE /\ candles' = [k \in {j \in DOMAIN table : j >= t - Keep} |-> table[k]]
         /\ invalid' = {k \in marks : k >= t - Keep}
         /\ lastCleanup' = t

\* The exchange times of what may arrive now.
EventTimes == {t \in (now - MaxDelay) .. now : t >= 0}

\* Events of these candles are lost now.
Lose(keys) ==
  lost' = [k \in Keys |->
             IF k \in keys /\ lost[k] = Never THEN now ELSE lost[k]]

OnOpen ==
  /\ connected = Never
  /\ connected' = now /\ link' = TRUE
  /\ UNCHANGED <<now, candles, invalid, lastCleanup, lost>>

\* The connection breaks, with whatever is in flight; no callback runs.
Break ==
  /\ link
  /\ link' = FALSE
  /\ Lose({CandleOf(t) : t \in EventTimes})
  /\ UNCHANGED <<now, connected, candles, invalid, lastCleanup>>

\* A kline event made at t: each one rewrites the time the open was received.
OnKline(t) ==
  /\ link
  /\ LET key == CandleOf(t) IN
     Cleanup(With(key, [CandleAt(key) EXCEPT !.open = OpenPrice,
                                             !.openReceived = now]),
             invalid, now)
  /\ UNCHANGED <<now, link, connected, lost>>

\* An aggTrade of exchange time t; a full buffer makes the candle invalid.
OnTrade(t, p) ==
  /\ link
  /\ LET key == CandleOf(t)
         candle == CandleAt(key) IN
     IF Len(candle.trades) >= MaxTrades
       THEN /\ Cleanup(With(key, [candle EXCEPT !.complete = FALSE]),
                       invalid \cup {key}, t)
            /\ Lose({key})
       ELSE /\ Cleanup(With(key, [candle EXCEPT !.trades =
                         Append(@, [trade |-> t, received |-> now,
                                    price |-> p])]), invalid, t)
            /\ UNCHANGED lost
  /\ UNCHANGED <<now, link, connected>>

\* Mutation: only the candles to come lose their coverage.
OnCloseForgets ==
  /\ ~link
  /\ connected' = Never
  /\ UNCHANGED <<now, link, candles, invalid, lastCleanup, lost>>

\* _on_close, when the break is noticed or an attempt to connect has failed:
\* the candle active by then is invalid, later ones begin unconnected.
OnClose ==
  /\ ~link
  /\ LET key == CandleOf(now) IN
     /\ invalid' = invalid \cup {key}
     /\ candles' = [k \in DOMAIN candles |->
                      IF k = key THEN [candles[k] EXCEPT !.complete = FALSE]
                      ELSE candles[k]]
  /\ connected' = Never
  /\ UNCHANGED <<now, link, lastCleanup, lost>>

\* Time passes; while nothing arrives the candle loses a part of its tape.
ClockTick ==
  /\ now < LastTime
  /\ now' = now + 1
  /\ IF link THEN UNCHANGED lost ELSE Lose({CandleOf(now)})
  /\ UNCHANGED <<link, connected, candles, invalid, lastCleanup>>

ProxyMessage ==
  \E t \in EventTimes : OnKline(t) \/ \E p \in Prices : OnTrade(t, p)

BinanceProxyNext == OnOpen \/ Break \/ OnClose \/ ProxyMessage \/ ClockTick

BinanceProxySpec == BinanceProxyInit /\ [][BinanceProxyNext]_proxyVars

\* tail_input: coverage is what the candle says and no mark against its key.
Covered(key) ==
  key \in DOMAIN candles /\ candles[key].complete /\ key \notin invalid

\* can_cover_candle, asked when the round of a candle is chosen.
CanCover(key) ==
  connected # Never /\ connected <= key /\ key \notin invalid

Lossy(key) == key >= now - Keep /\ lost[key] # Never

HoleAtEnd(key) ==
  /\ Covered(key) /\ now < key + Window => ~link
  /\ CanCover(key) => ~link
  /\ Covered(key) => \A i \in DOMAIN candles[key].trades :
       \/ candles[key].trades[i].received <= lost[key]
       \/ candles[key].trades[i].received >= key + Window

\* During its candle, a tape counts as complete after a loss only as long as
\* the break is unnoticed and nothing arrives any more; no candle that has lost
\* something is joined either. So whatever the order of trades, breaks, closes,
\* reconnects and cleanups, the hole of a tape that counts as complete is at its
\* end: what it received during the candle came before the first loss.
CoverageSound == \A key \in Keys : Lossy(key) => HoleAtEnd(key)
=============================================================================
