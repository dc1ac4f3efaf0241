----------------------------- MODULE FeedProofs ------------------------------
(* What holds of the two feeds an entry is decided on and of the decision:   *)
(* the market stream for any tokens, levels and number of connections, the   *)
(* Binance tape and the decision that reads it for any candle length, buffer *)
(* size, delay, thresholds and prices.                                       *)
EXTENDS MarketStream, TailRound, TLAPS

-----------------------------------------------------------------------------
(* The stream. The books lag behind the venue by the messages on the wire:   *)
(* there is a history of the venue's paired books, one for every prefix of   *)
(* the wire, that begins with the books as they are (for the tokens that are *)
(* initialized), ends with the venue as it is, and moves by one message at a *)
(* time (LagsBy). Processing a message is to drop the first of them, so the  *)
(* pair that is built is always one that stood at the venue.                 *)

\* The message m leads from the paired books p to the paired books q.
Leads(p, m, q) ==
  /\ \A t \in Tokens \ {m.token} : q[t] = p[t]
  /\ m.kind = "book" => q[m.token] = m.levels
  /\ m.kind = "price_change" =>
       q[m.token] = IF m.size = 0 THEN p[m.token] \ {m.level}
                    ELSE p[m.token] \cup {m.level}

\* History h of the venue explains the books and the wire.
LagsBy(h) ==
  /\ h \in [0 .. Len(wire) -> seen]
  /\ h[Len(wire)] = venue
  /\ \A k \in 1 .. Len(wire) : Leads(h[k - 1], wire[k], h[k])
  /\ \A t \in Tokens : books[t].initialized => books[t].levels = h[0][t]

AllInitialized == \A t \in Tokens : books[t].initialized

StreamInv ==
  /\ MarketStreamTypeOK
  /\ QuotesFromOneConnection
  /\ Connected => \E h \in [0 .. Len(wire) -> seen] : LagsBy(h)
  /\ Connected /\ ready => AllInitialized
  /\ at = "on_book" => snapshot.pair \in seen
  /\ at \in {"on_reset", "connect"} =>
       ~ready /\ \A t \in Tokens : ~books[t].initialized
  /\ at = "connect" => observations = <<>>

USE MarketStreamAssumption

LEMMA StreamInit == MarketStreamInit => StreamInv
<1> SUFFICES ASSUME MarketStreamInit PROVE StreamInv
  OBVIOUS
<1>1. /\ <<>> \in Seq(StreamMessage) /\ <<>> \in Seq(Observation)
      /\ Empty \in TokenBook
      /\ [t \in Tokens |-> {}] \in Paired
  BY DEF Empty, TokenBook, Paired
<1>2. [observed |-> 0, pair |-> [t \in Tokens |-> {}]] \in Observation
  BY <1>1 DEF Observation
<1>3. MarketStreamTypeOK
  BY <1>1, <1>2 DEF MarketStreamInit, MarketStreamTypeOK
<1>4. QuotesFromOneConnection
  BY DEF MarketStreamInit, QuotesFromOneConnection
<1> QED
  BY <1>3, <1>4 DEF MarketStreamInit, StreamInv, Connected

\* What is on the wire and in the books has the tokens' types.
LEMMA StreamTypes ==
  ASSUME MarketStreamTypeOK
  PROVE  /\ Books \in Paired
         /\ \A p \in seen : p \in Paired
         /\ Len(wire) \in Nat
         /\ \A k \in 1 .. Len(wire) : wire[k] \in StreamMessage
BY DEF MarketStreamTypeOK, Books, Paired, TokenBook

\* A paired book the messages explain is the paired book of the venue then.
LEMMA InitializedPair ==
  ASSUME StreamInv, Connected, AllInitialized
  PROVE  Books \in seen
<1>1. PICK h \in [0 .. Len(wire) -> seen] : LagsBy(h)
  BY DEF StreamInv
<1>2. h[0] \in seen /\ h[0] \in Paired
  BY StreamTypes DEF StreamInv
<1>3. \A t \in Tokens : Books[t] = h[0][t]
  BY <1>1 DEF LagsBy, AllInitialized, Books
<1>4. Books = h[0]
  BY <1>2, <1>3 DEF Books, Paired
<1> QED
  BY <1>2, <1>4

\* Steps that leave the venue, the wire and the books alone keep the history.
LEMMA HistoryKept ==
  ASSUME UNCHANGED <<venue, seen, wire, books>>
  PROVE  (\E h \in [0 .. Len(wire) -> seen] : LagsBy(h)) =>
           (\E h \in [0 .. Len(wire) -> seen] : LagsBy(h))'
<1> SUFFICES ASSUME NEW h \in [0 .. Len(wire) -> seen], LagsBy(h)
             PROVE  (\E g \in [0 .. Len(wire) -> seen] : LagsBy(g))'
  OBVIOUS
<1>1. h \in [0 .. Len(wire') -> seen'] /\ LagsBy(h)'
  BY DEF LagsBy
<1> QED
  BY <1>1

\* The venue sends message m and stands at p after it.
LEMMA HistoryGrows ==
  ASSUME StreamInv, Connected, NEW m \in StreamMessage, NEW p,
         Leads(venue, m, p), venue' = p, p \in seen', seen \subseteq seen',
         wire' = Append(wire, m), books' = books
  PROVE  (\E h \in [0 .. Len(wire) -> seen] : LagsBy(h))'
<1> DEFINE n == Len(wire)
<1>1. PICK h \in [0 .. n -> seen] : LagsBy(h)
  BY DEF StreamInv
<1>2. n \in Nat /\ wire \in Seq(StreamMessage)
  BY StreamTypes DEF StreamInv, MarketStreamTypeOK
<1>3. Len(wire') = n + 1 /\ wire'[n + 1] = m
      /\ \A k \in 1 .. n : wire'[k] = wire[k]
  BY <1>2
<1>g. PICK g : g = [k \in 0 .. n + 1 |-> IF k = n + 1 THEN p ELSE h[k]]
  OBVIOUS
<1>4. g \in [0 .. n + 1 -> seen']
  BY <1>g, <1>2
<1>5. g[n + 1] = p /\ g[n] = venue /\ g[0] = h[0]
  BY <1>g, <1>1, <1>2 DEF LagsBy
<1>6. ASSUME NEW k \in 1 .. n + 1 PROVE Leads(g[k - 1], wire'[k], g[k])
  <2>1. CASE k = n + 1
    BY <1>2, <1>3, <1>5, <2>1
  <2>2. CASE k # n + 1
    <3>1. k \in 1 .. n /\ k - 1 \in 0 .. n /\ k - 1 # n + 1
      BY <1>2, <2>2
    <3>2. g[k] = h[k] /\ g[k - 1] = h[k - 1]
      BY <1>g, <1>2, <2>2, <3>1
    <3>3. Leads(h[k - 1], wire[k], h[k])
      BY <1>1, <3>1 DEF LagsBy
    <3> QED
      BY <1>3, <3>1, <3>2, <3>3
  <2> QED
    BY <2>1, <2>2
<1>7. LagsBy(g)'
  <2>1. g \in [0 .. Len(wire') -> seen']
    BY <1>3, <1>4
  <2>2. g[Len(wire')] = venue'
    BY <1>3, <1>5
  <2>3. \A k \in 1 .. Len(wire') : Leads(g[k - 1], wire'[k], g[k])
    BY <1>3, <1>6
  <2>4. \A t \in Tokens : books'[t].initialized => books'[t].levels = g[0][t]
    BY <1>1, <1>5 DEF LagsBy
  <2> QED
    BY <2>1, <2>2, <2>3, <2>4 DEF LagsBy, Leads
<1> QED
  BY <1>3, <1>4, <1>7

\* The stream thread applies the oldest message.
LEMMA HistoryShrinks ==
  ASSUME StreamInv, Connected, wire # <<>>, wire' = Tail(wire),
         books' = [books EXCEPT ![Head(wire).token] = Applied(Head(wire))],
         UNCHANGED <<venue, seen>>
  PROVE  /\ (\E h \in [0 .. Len(wire) -> seen] : LagsBy(h))'
         /\ AllInitialized => AllInitialized'
<1> DEFINE n == Len(wire)
           m == Head(wire)
<1>1. PICK h \in [0 .. n -> seen] : LagsBy(h)
  BY DEF StreamInv
<1>2. n \in Nat /\ n > 0 /\ wire \in Seq(StreamMessage)
  BY StreamTypes DEF StreamInv, MarketStreamTypeOK
<1>3. Len(wire') = n - 1 /\ m = wire[1] /\ m \in StreamMessage
      /\ \A k \in 1 .. n - 1 : wire'[k] = wire[k + 1]
  BY <1>2
<1>g. PICK g : g = [k \in 0 .. n - 1 |-> h[k + 1]]
  OBVIOUS
<1>4. g \in [0 .. n - 1 -> seen']
  BY <1>g, <1>2
<1>5. g[n - 1] = venue' /\ g[0] = h[1]
  BY <1>g, <1>1, <1>2 DEF LagsBy
<1>6. ASSUME NEW k \in 1 .. n - 1 PROVE Leads(g[k - 1], wire'[k], g[k])
  <2>1. g[k - 1] = h[k] /\ g[k] = h[k + 1] /\ k + 1 \in 1 .. n
    BY <1>g, <1>2
  <2>2. Leads(h[(k + 1) - 1], wire[k + 1], h[k + 1])
    BY <1>1, <2>1 DEF LagsBy
  <2>3. (k + 1) - 1 = k
    BY <1>2
  <2> QED
    BY <1>3, <2>1, <2>2, <2>3
<1>7. Leads(h[0], m, h[1])
  <2>1. 1 \in 1 .. n /\ 1 - 1 = 0
    BY <1>2
  <2>2. Leads(h[1 - 1], wire[1], h[1])
    BY <1>1, <2>1 DEF LagsBy
  <2> QED
    BY <1>3, <2>1, <2>2
<1>8. m.token \in Tokens /\ m.kind \in {"book", "price_change"}
  BY <1>3 DEF StreamMessage
<1>9. books \in [Tokens -> TokenBook]
  BY DEF StreamInv, MarketStreamTypeOK
<1>10. Applied(m).initialized = (m.kind = "book" \/ books[m.token].initialized)
  BY <1>8, <1>9 DEF Applied, TokenBook
<1>11. ASSUME Applied(m).initialized PROVE Applied(m).levels = h[1][m.token]
  <2>1. CASE m.kind = "book"
    BY <1>7, <2>1 DEF Applied, Leads
  <2>2. CASE m.kind = "price_change"
    <3>1. books[m.token].initialized
      BY <1>10, <1>11, <2>2
    <3>2. books[m.token].levels = h[0][m.token]
      BY <1>1, <1>8, <3>1 DEF LagsBy
    <3>3. Applied(m).levels = IF m.size = 0 THEN h[0][m.token] \ {m.level}
                              ELSE h[0][m.token] \cup {m.level}
      BY <1>8, <1>9, <2>2, <3>2 DEF Applied, TokenBook
    <3> QED
      BY <1>7, <2>2, <3>3 DEF Leads
  <2> QED
    BY <1>8, <2>1, <2>2
<1>12. ASSUME NEW t \in Tokens, books'[t].initialized
       PROVE  books'[t].levels = h[1][t]
  <2>1. CASE t = m.token
    BY <1>9, <1>11, <1>12, <2>1
  <2>2. CASE t # m.token
    <3>1. books'[t] = books[t]
      BY <1>9, <2>2
    <3>2. books[t].levels = h[0][t]
      BY <1>1, <1>12, <3>1 DEF LagsBy
    <3> QED
      BY <1>7, <2>2, <3>1, <3>2 DEF Leads
  <2> QED
    BY <2>1, <2>2
<1>13. AllInitialized => AllInitialized'
  <2> SUFFICES ASSUME AllInitialized, NEW t \in Tokens
               PROVE  books'[t].initialized
    BY DEF AllInitialized
  <2>1. CASE t = m.token
    BY <1>8, <1>9, <1>10, <2>1 DEF AllInitialized
  <2>2. CASE t # m.token
    BY <1>9, <2>2 DEF AllInitialized
  <2> QED
    BY <2>1, <2>2
<1>14. LagsBy(g)'
  <2>1. g \in [0 .. Len(wire') -> seen']
    BY <1>3, <1>4
  <2>2. g[Len(wire')] = venue'
    BY <1>3, <1>5
  <2>3. \A k \in 1 .. Len(wire') : Leads(g[k - 1], wire'[k], g[k])
    BY <1>3, <1>6
  <2>4. \A t \in Tokens : books'[t].initialized => books'[t].levels = g[0][t]
    BY <1>5, <1>12
  <2> QED
    BY <2>1, <2>2, <2>3, <2>4 DEF LagsBy, Leads
<1> QED
  BY <1>3, <1>4, <1>13, <1>14

-----------------------------------------------------------------------------
LEMMA StreamStep == StreamInv /\ [MarketStreamNext]_streamVars => StreamInv'
<1> SUFFICES ASSUME StreamInv, [MarketStreamNext]_streamVars PROVE StreamInv'
  OBVIOUS
<1> DEFINE Explained == \E h \in [0 .. Len(wire) -> seen] : LagsBy(h)
<1>0. MarketStreamTypeOK /\ QuotesFromOneConnection
  BY DEF StreamInv
<1>1. CASE ResetBooks
  <2>1. Empty \in TokenBook /\ ~Empty.initialized
    BY DEF Empty, TokenBook
  <2>2. MarketStreamTypeOK'
    BY <1>0, <1>1, <2>1 DEF ResetBooks, MarketStreamTypeOK
  <2>3. QuotesFromOneConnection'
    BY <1>0, <1>1 DEF ResetBooks, QuotesFromOneConnection
  <2> QED
    BY <1>1, <2>1, <2>2, <2>3 DEF ResetBooks, StreamInv, Connected
<1>2. CASE OnReset
  <2>1. <<>> \in Seq(Observation)
    OBVIOUS
  <2>2. MarketStreamTypeOK'
    BY <1>0, <1>2, <2>1 DEF OnReset, MarketStreamTypeOK
  <2>3. QuotesFromOneConnection'
    BY <1>2 DEF OnReset, QuotesFromOneConnection, StreamInv
  <2> QED
    BY <1>2, <2>2, <2>3 DEF OnReset, StreamInv, Connected
<1>3. CASE Connect
  <2>1. /\ wire' = <<>> /\ seen' = {venue} /\ venue' = venue /\ at' = "receive"
        /\ books' = books /\ ready' = FALSE /\ observations' = <<>>
        /\ \A t \in Tokens : ~books[t].initialized
    BY <1>0, <1>3 DEF Connect, StreamInv, MarketStreamTypeOK
  <2>2. MarketStreamTypeOK'
    <3>1. <<>> \in Seq(StreamMessage)
      OBVIOUS
    <3>2. sockets' \in Nat
      BY <1>0, <1>3 DEF Connect, MarketStreamTypeOK
    <3> QED
      BY <1>0, <1>3, <2>1, <3>1, <3>2 DEF Connect, MarketStreamTypeOK
  <2>3. Explained'
    <3>1. PICK h : h = [k \in {0} |-> venue]
      OBVIOUS
    <3>2. Len(wire') = 0 /\ 0 .. 0 = {0} /\ 1 .. 0 = {}
      BY <2>1
    <3>3. h \in [0 .. Len(wire') -> seen'] /\ h[Len(wire')] = venue'
      BY <2>1, <3>1, <3>2
    <3>4. \A k \in 1 .. Len(wire') : Leads(h[k - 1], wire'[k], h[k])
      BY <3>2
    <3>5. LagsBy(h)'
      BY <2>1, <3>3, <3>4 DEF LagsBy, Leads
    <3> QED
      BY <3>3, <3>5
  <2>4. QuotesFromOneConnection'
    BY <2>1 DEF QuotesFromOneConnection
  <2> QED
    BY <2>1, <2>2, <2>3, <2>4 DEF StreamInv
<1>4. CASE Disconnect
  <2>1. MarketStreamTypeOK'
    BY <1>0, <1>4 DEF Disconnect, MarketStreamTypeOK
  <2>2. QuotesFromOneConnection'
    BY <1>0, <1>4 DEF Disconnect, QuotesFromOneConnection, Books
  <2> QED
    BY <1>4, <2>1, <2>2 DEF Disconnect, StreamInv, Connected
<1>5. CASE EndStream
  <2>1. MarketStreamTypeOK'
    BY <1>0, <1>5 DEF EndStream, MarketStreamTypeOK
  <2>2. QuotesFromOneConnection'
    BY <1>0, <1>5 DEF EndStream, QuotesFromOneConnection, Books
  <2> QED
    BY <1>5, <2>1, <2>2 DEF EndStream, StreamInv, Connected
<1>6. CASE ProcessMessage
  <2> DEFINE m == Head(wire)
             pair == [t \in Tokens |-> books'[t].levels]
  <2>1. Connected /\ at = "receive" /\ wire # <<>>
    BY <1>6 DEF ProcessMessage, Connected
  <2>2. /\ wire' = Tail(wire) /\ UNCHANGED <<venue, seen, owed, observations,
             clock, stopping, sockets, changes>>
        /\ books' = [books EXCEPT ![m.token] = Applied(m)]
    BY <1>6 DEF ProcessMessage
  <2>3. Explained' /\ (AllInitialized => AllInitialized')
    BY <2>1, <2>2, HistoryShrinks
  <2>4. m \in StreamMessage /\ Tail(wire) \in Seq(StreamMessage)
    BY <1>0, <2>1 DEF MarketStreamTypeOK
  <2>5. books' \in [Tokens -> TokenBook]
    <3>1. Applied(m) \in TokenBook
      <4>1. m.token \in Tokens /\ books[m.token] \in TokenBook
        BY <1>0, <2>4 DEF MarketStreamTypeOK, StreamMessage
      <4>2. CASE m.kind = "book"
        <5>1. m.levels \in SUBSET Levels
          BY <2>4, <4>2 DEF StreamMessage
        <5> QED
          BY <4>2, <5>1 DEF Applied, TokenBook
      <4>3. CASE m.kind = "price_change"
        <5>1. m.level \in Levels
          BY <2>4, <4>3 DEF StreamMessage
        <5> QED
          BY <4>1, <4>3, <5>1 DEF Applied, TokenBook
      <4> QED
        BY <2>4, <4>2, <4>3 DEF StreamMessage
    <3> QED
      BY <1>0, <2>2, <3>1 DEF MarketStreamTypeOK
  <2>6. pair \in Paired
    BY <2>5 DEF Paired, TokenBook
  <2>7. CASE AllInitialized'
    <3>1. /\ ready' = TRUE /\ at' = "on_book"
          /\ snapshot' = [observed |-> clock, pair |-> pair]
      BY <1>6, <2>7 DEF ProcessMessage, AllInitialized
    <3>2. MarketStreamTypeOK'
      <4>1. snapshot' \in Observation
        BY <1>0, <2>6, <3>1 DEF MarketStreamTypeOK, Observation
      <4> QED
        BY <1>0, <2>2, <2>4, <2>5, <3>1, <4>1 DEF MarketStreamTypeOK
    <3>3. pair \in seen'
      <4>1. PICK h \in [0 .. Len(wire') -> seen'] : LagsBy(h)'
        BY <2>3
      <4>2. h[0] \in seen' /\ h[0] \in Paired
        BY <1>0, <2>2, <2>4, StreamTypes
      <4>3. \A t \in Tokens : pair[t] = h[0][t]
        BY <2>7, <4>1 DEF LagsBy, AllInitialized
      <4>4. pair = h[0]
        BY <4>2, <4>3 DEF Paired
      <4> QED
        BY <4>2, <4>4
    <3>4. QuotesFromOneConnection'
      BY <1>0, <2>2, <3>3 DEF QuotesFromOneConnection, Books
    <3>5. snapshot'.pair = pair
      BY <3>1
    <3> QED
      BY <2>3, <2>7, <3>1, <3>2, <3>3, <3>4, <3>5 DEF StreamInv
  <2>8. CASE ~AllInitialized'
    <3>1. /\ ready' = ready /\ at' = at /\ snapshot' = snapshot
      BY <1>6, <2>8 DEF ProcessMessage, AllInitialized
    <3>2. ~ready
      BY <2>1, <2>3, <2>8 DEF StreamInv
    <3>3. MarketStreamTypeOK'
      BY <1>0, <2>2, <2>4, <2>5, <3>1 DEF MarketStreamTypeOK
    <3>4. QuotesFromOneConnection'
      BY <1>0, <2>2, <3>1, <3>2 DEF QuotesFromOneConnection
    <3> QED
      BY <2>1, <2>3, <3>1, <3>2, <3>3, <3>4 DEF StreamInv
  <2> QED
    BY <2>7, <2>8
<1>7. CASE RecordBook
  <2>1. UNCHANGED <<venue, seen, wire, owed, books, ready, snapshot, clock,
                    stopping, sockets, changes>> /\ at' = "receive"
        /\ Connected /\ at = "on_book"
    BY <1>7 DEF RecordBook, Connected
  <2>2. Explained'
    BY <2>1, HistoryKept DEF StreamInv
  <2>3. /\ observations' \in Seq(Observation)
        /\ \A k \in DOMAIN observations' : observations'[k].pair \in seen
    <3>1. /\ observations \in Seq(Observation) /\ snapshot \in Observation
          /\ snapshot.pair \in seen
          /\ \A k \in DOMAIN observations : observations[k].pair \in seen
      BY <1>0, <2>1 DEF StreamInv, MarketStreamTypeOK, QuotesFromOneConnection
    <3>2. CASE ~Newer
      BY <1>7, <3>1, <3>2 DEF RecordBook
    <3>3. CASE Newer /\ Len(observations) < ObsCap
      <4>1. observations' = Append(observations, snapshot)
        BY <1>7, <3>3 DEF RecordBook
      <4> QED
        BY <3>1, <4>1
    <3>4. CASE Newer /\ ~(Len(observations) < ObsCap)
      <4>1. observations' = Append(Tail(observations), snapshot)
        BY <1>7, <3>4 DEF RecordBook
      <4>2. observations # <<>>
        BY <3>1, <3>4
      <4>3. /\ Tail(observations) \in Seq(Observation)
            /\ Len(Tail(observations)) = Len(observations) - 1
            /\ \A k \in 1 .. Len(observations) - 1 :
                 Tail(observations)[k] = observations[k + 1]
        BY <3>1, <4>2
      <4>4. \A k \in 1 .. Len(observations) - 1 : Tail(observations)[k].pair \in seen
        BY <3>1, <4>3
      <4> QED
        BY <3>1, <4>1, <4>3, <4>4
    <3> QED
      BY <3>2, <3>3, <3>4
  <2>4. MarketStreamTypeOK'
    BY <1>0, <2>1, <2>3 DEF MarketStreamTypeOK
  <2>5. QuotesFromOneConnection'
    BY <1>0, <2>1, <2>3 DEF QuotesFromOneConnection, Books
  <2> QED
    BY <2>1, <2>2, <2>4, <2>5 DEF StreamInv, Connected, AllInitialized
<1>8. CASE CloseStream
  <2>1. UNCHANGED <<venue, seen, wire, owed, at, books, ready, snapshot,
                    observations, clock, sockets, changes>> /\ stopping' = TRUE
    BY <1>8 DEF CloseStream
  <2>2. MarketStreamTypeOK'
    BY <1>0, <2>1 DEF MarketStreamTypeOK
  <2>3. QuotesFromOneConnection'
    BY <1>0, <2>1 DEF QuotesFromOneConnection, Books
  <2>4. Connected => Explained'
    BY <2>1, HistoryKept DEF StreamInv
  <2> QED
    BY <2>1, <2>2, <2>3, <2>4 DEF StreamInv, Connected, AllInitialized
<1>9. ASSUME NEW t \in Tokens, VenueChanges(t) PROVE StreamInv'
  <2>1. PICK l \in Levels, size \in {0, 1} :
          /\ venue' = [venue EXCEPT ![t] =
                         IF size = 0 THEN @ \ {l} ELSE @ \cup {l}]
          /\ wire' = IF Connected
                       THEN Append(wire, [kind |-> "price_change", token |-> t,
                                          level |-> l, size |-> size])
                       ELSE wire
    BY <1>9 DEF VenueChanges
  <2> DEFINE m == [kind |-> "price_change", token |-> t, level |-> l,
                   size |-> size]
  <2>2. /\ seen' = seen \cup {venue'} /\ changes' = changes + 1
        /\ UNCHANGED <<owed, at, books, ready, snapshot, observations, clock,
                       stopping, sockets>>
    BY <1>9 DEF VenueChanges
  <2>3. m \in StreamMessage
    BY DEF StreamMessage
  <2>4. venue \in Paired /\ venue' \in Paired
    BY <1>0, <2>1 DEF MarketStreamTypeOK, Paired
  <2>5. Leads(venue, m, venue')
    BY <2>1, <2>4 DEF Leads, Paired
  <2>6. MarketStreamTypeOK'
    <3>1. wire' \in Seq(StreamMessage)
      BY <1>0, <2>1, <2>3 DEF MarketStreamTypeOK
    <3>2. seen' \subseteq Paired /\ changes' \in Nat
      BY <1>0, <2>2, <2>4 DEF MarketStreamTypeOK
    <3> QED
      BY <1>0, <2>2, <2>4, <3>1, <3>2 DEF MarketStreamTypeOK
  <2>7. QuotesFromOneConnection'
    BY <1>0, <2>2 DEF QuotesFromOneConnection, Books
  <2>8. Connected => Explained'
    <3> SUFFICES ASSUME Connected PROVE Explained'
      OBVIOUS
    <3>1. wire' = Append(wire, m)
      BY <2>1
    <3> HIDE DEF m
    <3> QED
      BY <2>2, <2>3, <2>5, <3>1, HistoryGrows
  <2> QED
    BY <2>2, <2>6, <2>7, <2>8 DEF StreamInv, Connected, AllInitialized
<1>10. ASSUME NEW t \in Tokens, VenueSnapshot(t) PROVE StreamInv'
  <2> DEFINE m == [kind |-> "book", token |-> t, levels |-> venue[t]]
  <2>1. /\ Connected /\ wire' = Append(wire, m) /\ owed' = owed \ {t}
        /\ UNCHANGED <<venue, seen, at, books, ready, snapshot, observations,
                       clock, stopping, sockets, changes>>
    BY <1>10 DEF VenueSnapshot
  <2>2. m \in StreamMessage
    BY <1>0 DEF StreamMessage, MarketStreamTypeOK, Paired
  <2>3. Leads(venue, m, venue)
    BY DEF Leads
  <2>4. venue \in seen
    <3>1. PICK h \in [0 .. Len(wire) -> seen] : LagsBy(h)
      BY <2>1 DEF StreamInv
    <3>2. Len(wire) \in 0 .. Len(wire)
      BY <1>0, StreamTypes
    <3> QED
      BY <3>1, <3>2 DEF LagsBy
  <2>5. MarketStreamTypeOK'
    <3>1. wire' \in Seq(StreamMessage)
      BY <1>0, <2>1, <2>2 DEF MarketStreamTypeOK
    <3> QED
      BY <1>0, <2>1, <3>1 DEF MarketStreamTypeOK
  <2>6. QuotesFromOneConnection'
    BY <1>0, <2>1 DEF QuotesFromOneConnection, Books
  <2> HIDE DEF m
  <2>7. Explained'
    BY <2>1, <2>2, <2>3, <2>4, HistoryGrows
  <2> QED
    BY <2>1, <2>5, <2>6, <2>7 DEF StreamInv, Connected, AllInitialized
<1>11. CASE StreamTick
  <2>1. UNCHANGED <<venue, seen, wire, owed, at, books, ready, snapshot,
                    observations, stopping, sockets, changes>> /\ clock' \in Nat
    BY <1>0, <1>11 DEF StreamTick, MarketStreamTypeOK
  <2>2. MarketStreamTypeOK'
    BY <1>0, <2>1 DEF MarketStreamTypeOK
  <2>3. QuotesFromOneConnection'
    BY <1>0, <2>1 DEF QuotesFromOneConnection, Books
  <2>4. Connected => Explained'
    BY <2>1, HistoryKept DEF StreamInv
  <2> QED
    BY <2>1, <2>2, <2>3, <2>4 DEF StreamInv, Connected, AllInitialized
<1>12. CASE UNCHANGED streamVars
  <2>1. UNCHANGED <<venue, seen, wire, owed, at, books, ready, snapshot,
                    observations, clock, stopping, sockets, changes>>
    BY <1>12 DEF streamVars
  <2>2. MarketStreamTypeOK'
    BY <1>0, <2>1 DEF MarketStreamTypeOK
  <2>3. QuotesFromOneConnection'
    BY <1>0, <2>1 DEF QuotesFromOneConnection, Books
  <2>4. Connected => Explained'
    BY <2>1, HistoryKept DEF StreamInv
  <2> QED
    BY <2>1, <2>2, <2>3, <2>4 DEF StreamInv, Connected, AllInitialized
<1> QED
  BY <1>1, <1>2, <1>3, <1>4, <1>5, <1>6, <1>7, <1>8, <1>9, <1>10, <1>11, <1>12
     DEF MarketStreamNext

\* The inductive invariant of the stream: the books lag behind the venue by
\* the messages on the wire.
THEOREM StreamInvariant == MarketStreamSpec => []StreamInv
BY StreamInit, StreamStep, PTL DEF MarketStreamSpec

\* The observations of a round, and books that are ready, are pairs that stood
\* at the venue during the connection they belong to (_reset_books, on_reset
\* and process_message), for any number of reconnects.
THEOREM QuotesAreOfOneConnection == MarketStreamSpec => []QuotesFromOneConnection
<1>1. StreamInv => QuotesFromOneConnection
  BY DEF StreamInv
<1> QED
  BY <1>1, StreamInvariant, PTL

-----------------------------------------------------------------------------
(* The tape. ProxyInv adds to CoverageSound what is known while the program  *)
(* is disconnected: no candle that is still open counts as complete, and one *)
(* that begins now is marked if it has lost something. For the decision, no  *)
(* step after the target can turn what the rules say into anything but HOLD  *)
(* (RecordAfterTarget, TableAfterTarget), so the decision of a late          *)
(* scheduler is the frozen one or HOLD; and the trade that makes an entry's  *)
(* tape recent enough came before the first loss.                            *)

HIDE MarketStreamAssumption
USE BinanceProxyAssumption

\* The start of a candle.
LEMMA CandleStarts ==
  ASSUME NEW t \in Nat, NEW u \in Nat, t <= u
  PROVE  /\ CandleOf(t) \in Nat /\ CandleOf(t) <= t
         /\ CandleOf(t) <= CandleOf(u)
<1> DEFINE a == t \div Window
           b == u \div Window
<1>1. a \in Nat /\ b \in Nat
  OBVIOUS
<1>2. a * Window <= t /\ t < a * Window + Window
  OBVIOUS
<1>3. b * Window <= u /\ u < b * Window + Window
  OBVIOUS
<1>4. a <= b
  <2>1. SUFFICES ASSUME a >= b + 1 PROVE FALSE
    BY <1>1
  <2> HIDE DEF a, b
  <2>2. a * Window >= (b + 1) * Window
    BY <1>1, <2>1
  <2>3. (b + 1) * Window = b * Window + Window
    BY <1>1
  <2> QED
    BY <1>1, <1>2, <1>3, <2>2, <2>3
<1>5. a * Window <= b * Window /\ a * Window \in Nat
  <2> HIDE DEF a, b
  <2> QED
    BY <1>1, <1>4
<1> QED
  BY <1>2, <1>5 DEF CandleOf

\* The keys of the tables are starts of candles.
LEMMA KeysAreNat == Keys \subseteq Nat
<1> SUFFICES ASSUME NEW k \in Keys PROVE k \in Nat
  OBVIOUS
<1>1. PICK t \in 0 .. LastTime : k = CandleOf(t)
  BY DEF Keys
<1> QED
  BY <1>1, CandleStarts

\* Where a time stands in the candles.
LEMMA KeyOrder ==
  ASSUME NEW k \in Keys, NEW t \in Nat
  PROVE  /\ k \in Nat
         /\ k <= t => k <= CandleOf(t)
         /\ k <= t /\ k # CandleOf(t) => k + Window <= t
<1>1. PICK u \in 0 .. LastTime : k = CandleOf(u)
  BY DEF Keys
<1> DEFINE a == u \div Window
           b == t \div Window
<1>2. a \in Nat /\ b \in Nat
  OBVIOUS
<1>3. k = a * Window /\ CandleOf(t) = b * Window
  BY <1>1 DEF CandleOf
<1>4. b * Window <= t /\ t < b * Window + Window
  OBVIOUS
<1> HIDE DEF a, b
<1>5. \A c \in Nat : c > b => c * Window > t
  <2> SUFFICES ASSUME NEW c \in Nat, c > b PROVE c * Window > t
    OBVIOUS
  <2>1. c * Window >= (b + 1) * Window
    BY <1>2
  <2>2. (b + 1) * Window = b * Window + Window
    BY <1>2
  <2>3. b * Window \in Nat /\ c * Window \in Nat
    BY <1>2
  <2> QED
    BY <1>4, <2>1, <2>2, <2>3
<1>6. k \in Nat /\ b * Window \in Nat
  BY <1>2, <1>3
<1>7. k <= t => a <= b
  BY <1>2, <1>3, <1>5, <1>6
<1>8. a <= b => a * Window <= b * Window
  BY <1>2
<1>9. a < b => a * Window + Window <= b * Window
  <2>1. a < b => (a + 1) * Window <= b * Window
    BY <1>2
  <2>2. (a + 1) * Window = a * Window + Window
    BY <1>2
  <2> QED
    BY <2>1, <2>2
<1>10. k <= t => k <= CandleOf(t)
  BY <1>3, <1>7, <1>8
<1>11. ASSUME k <= t, k # CandleOf(t) PROVE k + Window <= t
  <2>1. a < b
    BY <1>2, <1>3, <1>7, <1>11
  <2>2. k + Window <= b * Window
    BY <1>3, <1>9, <2>1
  <2> QED
    BY <1>4, <1>6, <2>2
<1> QED
  BY <1>6, <1>10, <1>11

\* The trades of a tape were made before they were received.
TradesInv ==
  \A k \in DOMAIN candles : \A i \in DOMAIN candles[k].trades :
    /\ candles[k].trades[i].trade <= candles[k].trades[i].received
    /\ candles[k].trades[i].received <= now

\* While the program is disconnected, no candle that is still open counts as
\* complete, and one that only begins is marked if it has lost something.
DisconnectedInv ==
  connected = Never => \A k \in Keys :
    /\ Covered(k) => k + Window <= now
    /\ Lossy(k) /\ k >= now => k \in invalid

ProxyInv ==
  /\ BinanceProxyTypeOK
  /\ link => connected # Never
  /\ \A k \in Keys : lost[k] # Never => k <= now
  /\ \A k \in DOMAIN candles : k <= now
  /\ TradesInv
  /\ DisconnectedInv
  /\ CoverageSound

LEMMA ProxyStart == BinanceProxyInit => ProxyInv
<1> SUFFICES ASSUME BinanceProxyInit PROVE ProxyInv
  OBVIOUS
<1>1. /\ DOMAIN candles = {} /\ invalid = {} /\ connected = Never
      /\ link = FALSE /\ now \in 0 .. LastTime
      /\ lost = [k \in Keys |-> Never] /\ lastCleanup = 0
  BY DEF BinanceProxyInit
<1>2. \A k \in Keys : lost[k] = Never /\ ~Covered(k)
  BY <1>1 DEF Covered
<1>3. BinanceProxyTypeOK
  <2>1. lost \in [Keys -> {Never} \cup 0 .. LastTime]
    BY <1>1
  <2>2. 0 \in 0 .. LastTime
    OBVIOUS
  <2> QED
    BY <1>1, <2>1, <2>2 DEF BinanceProxyTypeOK
<1> QED
  BY <1>1, <1>2, <1>3
     DEF ProxyInv, TradesInv, DisconnectedInv, CoverageSound, Lossy

\* What the tables are after a message wrote row under the candle of t.
LEMMA MessageTables ==
  ASSUME BinanceProxyTypeOK, NEW t \in EventTimes, NEW row \in Candle,
         NEW u \in {t, now}, NEW marks \in SUBSET Keys,
         Cleanup(With(CandleOf(t), row), marks, u)
  PROVE  /\ DOMAIN candles' \subseteq DOMAIN candles \cup {CandleOf(t)}
         /\ \A k \in DOMAIN candles' :
              candles'[k] = IF k = CandleOf(t) THEN row ELSE candles[k]
         /\ invalid' \subseteq marks
         /\ \A k \in marks : k >= now - Keep => k \in invalid'
         /\ lastCleanup' \in 0 .. LastTime
         /\ CandleOf(t) \in Keys /\ t \in 0 .. LastTime /\ t <= now
<1> DEFINE table == With(CandleOf(t), row)
<1>1. t \in 0 .. LastTime /\ t <= now /\ now \in 0 .. LastTime
  BY DEF EventTimes, BinanceProxyTypeOK
<1>2. CandleOf(t) \in Keys
  BY <1>1 DEF Keys
<1>3. /\ DOMAIN table = DOMAIN candles \cup {CandleOf(t)}
      /\ \A k \in DOMAIN table :
           table[k] = IF k = CandleOf(t) THEN row ELSE candles[k]
  BY DEF With
<1>4. u \in 0 .. LastTime /\ u <= now
  BY <1>1
<1> HIDE DEF table
<1>5. CASE u - lastCleanup < CleanupEvery
  BY <1>1, <1>2, <1>3, <1>5 DEF Cleanup, table, BinanceProxyTypeOK
<1>6. CASE ~(u - lastCleanup < CleanupEvery)
  <2>1. /\ candles' = [k \in {j \in DOMAIN table : j >= u - Keep} |-> table[k]]
        /\ invalid' = {k \in marks : k >= u - Keep}
        /\ lastCleanup' = u
    BY <1>6 DEF Cleanup, table
  <2>2. \A k \in Nat : k >= now - Keep => k >= u - Keep
    BY <1>1, <1>4
  <2> QED
    BY <1>1, <1>2, <1>3, <1>4, <2>1, <2>2, KeysAreNat
<1> QED
  BY <1>5, <1>6

\* The trades of a row are those of the candle, and perhaps one received now.
Extends(row, candle) ==
  \A i \in DOMAIN row.trades :
    \/ i \in DOMAIN candle.trades /\ row.trades[i] = candle.trades[i]
    \/ row.trades[i].trade <= now /\ row.trades[i].received = now

\* A message that writes a candle no more complete than it was, and marks the
\* candle if it lost a trade, keeps the invariant.
LEMMA MessageKeeps ==
  ASSUME ProxyInv, link, NEW t \in EventTimes, NEW row \in Candle,
         row.complete => CandleAt(CandleOf(t)).complete,
         Extends(row, CandleAt(CandleOf(t))),
         NEW u \in {t, now}, NEW marks \in SUBSET Keys, invalid \subseteq marks,
         Cleanup(With(CandleOf(t), row), marks, u),
         \/ lost' = lost
         \/ Lose({CandleOf(t)}) /\ CandleOf(t) \in marks,
         UNCHANGED <<now, link, connected>>
  PROVE  ProxyInv'
<1> DEFINE key == CandleOf(t)
<1>0. BinanceProxyTypeOK /\ connected # Never
  BY DEF ProxyInv
<1>1. /\ DOMAIN candles' \subseteq DOMAIN candles \cup {key}
      /\ \A k \in DOMAIN candles' :
           candles'[k] = IF k = key THEN row ELSE candles[k]
      /\ invalid' \subseteq marks
      /\ \A k \in marks : k >= now - Keep => k \in invalid'
      /\ lastCleanup' \in 0 .. LastTime
      /\ key \in Keys /\ t \in 0 .. LastTime /\ t <= now
  BY <1>0, MessageTables
<1>2. key <= now /\ key \in Nat /\ now \in Nat /\ now \in 0 .. LastTime
  BY <1>0, <1>1, CandleStarts DEF BinanceProxyTypeOK
<1>3. /\ \A k \in Keys : k # key => lost'[k] = lost[k]
      /\ lost'[key] = lost[key] \/ (lost'[key] = now /\ key \in marks)
      /\ lost' \in [Keys -> {Never} \cup 0 .. LastTime]
  BY <1>0, <1>1, <1>2 DEF Lose, BinanceProxyTypeOK
<1>4. key \in DOMAIN candles => CandleAt(key) = candles[key]
  BY DEF CandleAt
<1>5. key \notin DOMAIN candles =>
        /\ CandleAt(key).complete => CanCover(key)
        /\ CandleAt(key).trades = <<>>
  BY DEF CandleAt, CanCover
<1>6. row.complete => CandleAt(key).complete
  OBVIOUS
<1>7. Extends(row, CandleAt(key))
  OBVIOUS
<1> HIDE DEF key
<1>8. BinanceProxyTypeOK'
  <2>1. \A k \in DOMAIN candles' : candles'[k] \in Candle
    BY <1>0, <1>1 DEF BinanceProxyTypeOK
  <2> QED
    BY <1>0, <1>1, <1>3, <2>1 DEF BinanceProxyTypeOK
<1>9. \A k \in Keys : lost'[k] # Never => k <= now
  BY <1>2, <1>3 DEF ProxyInv
<1>10. \A k \in DOMAIN candles' : k <= now
  BY <1>1, <1>2 DEF ProxyInv
<1>11. TradesInv'
  <2> SUFFICES ASSUME NEW k \in DOMAIN candles',
                      NEW i \in DOMAIN candles'[k].trades
               PROVE  /\ candles'[k].trades[i].trade
                            <= candles'[k].trades[i].received
                      /\ candles'[k].trades[i].received <= now
    BY DEF TradesInv
  <2>1. CASE k # key
    <3>1. k \in DOMAIN candles /\ candles'[k] = candles[k]
      BY <1>1, <2>1
    <3> QED
      BY <3>1 DEF ProxyInv, TradesInv
  <2>2. CASE k = key
    <3>1. candles'[k] = row /\ i \in DOMAIN row.trades
      BY <1>1, <2>2
    <3>2. CASE i \in DOMAIN CandleAt(key).trades
               /\ row.trades[i] = CandleAt(key).trades[i]
      <4>1. key \in DOMAIN candles
        <5>1. DOMAIN <<>> = {}
          OBVIOUS
        <5> QED
          BY <1>5, <3>2, <5>1
      <4> QED
        BY <1>4, <3>1, <3>2, <4>1 DEF ProxyInv, TradesInv
    <3>3. CASE row.trades[i].trade <= now /\ row.trades[i].received = now
      BY <1>2, <3>1, <3>3
    <3> QED
      BY <1>7, <3>1, <3>2, <3>3 DEF Extends
  <2> QED
    BY <2>1, <2>2
<1>12. DisconnectedInv'
  BY <1>0 DEF DisconnectedInv
<1>13. ASSUME NEW k \in Keys, Lossy(k)' PROVE HoleAtEnd(k)'
  <2>0. k >= now - Keep /\ lost'[k] # Never
    BY <1>13 DEF Lossy
  <2>1. CASE k \in marks
    <3>1. ~Covered(k)' /\ ~CanCover(k)'
      BY <1>1, <2>0, <2>1 DEF Covered, CanCover
    <3> QED
      BY <3>1 DEF HoleAtEnd
  <2>2. CASE k \notin marks
    <3>1. lost'[k] = lost[k] /\ k \notin invalid /\ Lossy(k)
      BY <1>3, <2>0, <2>2 DEF Lossy
    <3>2. HoleAtEnd(k)
      BY <3>1 DEF ProxyInv, CoverageSound
    <3>3. ~CanCover(k)
      BY <3>2 DEF HoleAtEnd
    <3>4. ~CanCover(k)'
      BY <1>0, <3>1, <3>3 DEF CanCover
    <3>5. ASSUME Covered(k)' PROVE Covered(k)
      <4>1. k \in DOMAIN candles' /\ candles'[k].complete
        BY <3>5 DEF Covered
      <4>2. CASE k # key
        BY <1>1, <3>1, <4>1, <4>2 DEF Covered
      <4>3. CASE k = key
        <5>1. CandleAt(k).complete
          BY <1>1, <1>6, <4>1, <4>3
        <5> QED
          BY <1>4, <1>5, <3>1, <3>3, <4>3, <5>1 DEF Covered
      <4> QED
        BY <4>2, <4>3
    <3>6. ASSUME Covered(k)' PROVE ~(now < k + Window)
      BY <3>2, <3>5, <3>6 DEF HoleAtEnd
    <3>7. ASSUME Covered(k)', NEW i \in DOMAIN candles'[k].trades
          PROVE  \/ candles'[k].trades[i].received <= lost[k]
                 \/ candles'[k].trades[i].received >= k + Window
      <4>1. k \in DOMAIN candles' /\ k \in DOMAIN candles /\ Covered(k)
        BY <3>5, <3>7 DEF Covered
      <4>2. CASE candles'[k].trades[i].received = now
        <5>1. now >= k + Window
          <6>1. k \in Nat /\ Window \in Nat
            BY KeysAreNat
          <6> QED
            BY <1>2, <3>6, <3>7, <6>1
        <5> QED
          BY <4>2, <5>1
      <4>3. CASE i \in DOMAIN candles[k].trades
                 /\ candles'[k].trades[i] = candles[k].trades[i]
        BY <3>2, <4>1, <4>3 DEF HoleAtEnd
      <4>4. CASE k # key
        BY <1>1, <3>7, <4>1, <4>3, <4>4
      <4>5. CASE k = key
        BY <1>1, <1>4, <1>7, <3>7, <4>1, <4>2, <4>3, <4>5 DEF Extends
      <4> QED
        BY <4>4, <4>5
    <3> QED
      BY <3>1, <3>4, <3>6, <3>7 DEF HoleAtEnd
  <2> QED
    BY <2>1, <2>2
<1>14. CoverageSound'
  BY <1>13 DEF CoverageSound
<1> QED
  BY <1>0, <1>8, <1>9, <1>10, <1>11, <1>12, <1>14 DEF ProxyInv

\* What CandleAt gives, and what the handlers make of it, are candles.
LEMMA CandleAtType ==
  ASSUME BinanceProxyTypeOK, NEW key \in Keys
  PROVE  CandleAt(key) \in Candle
<1>1. CASE key \in DOMAIN candles
  BY <1>1 DEF CandleAt, BinanceProxyTypeOK
<1>2. CASE key \notin DOMAIN candles
  <2>1. <<>> \in Seq(Trade) /\ 0 \in 0 .. LastTime
    OBVIOUS
  <2>2. (connected # Never /\ connected <= key /\ key \notin invalid) \in BOOLEAN
    OBVIOUS
  <2>3. CandleAt(key) =
          [complete |-> (connected # Never /\ connected <= key
                           /\ key \notin invalid),
           trades |-> <<>>, open |-> 0, openReceived |-> 0]
    BY <1>2 DEF CandleAt
  <2> QED
    BY <2>1, <2>2, <2>3 DEF Candle
<1> QED
  BY <1>1, <1>2

LEMMA KlineKeeps ==
  ASSUME ProxyInv, NEW t \in EventTimes, OnKline(t)
  PROVE  ProxyInv'
<1> DEFINE key == CandleOf(t)
           row == [CandleAt(key) EXCEPT !.open = OpenPrice, !.openReceived = now]
<1>1. BinanceProxyTypeOK /\ t \in 0 .. LastTime /\ key \in Keys
  BY DEF ProxyInv, EventTimes, BinanceProxyTypeOK, Keys
<1>2. CandleAt(key) \in Candle
  BY <1>1, CandleAtType
<1>3. row \in Candle /\ row.complete = CandleAt(key).complete
      /\ row.trades = CandleAt(key).trades
  BY <1>1, <1>2 DEF Candle, BinanceProxyTypeOK
<1>4. Cleanup(With(key, row), invalid, now) /\ link
      /\ UNCHANGED <<now, link, connected, lost>>
  BY DEF OnKline
<1>5. invalid \in SUBSET Keys
  BY <1>1 DEF BinanceProxyTypeOK
<1> HIDE DEF row
<1>6. Extends(row, CandleAt(key))
  BY <1>3 DEF Extends
<1> QED
  BY <1>3, <1>4, <1>5, <1>6, MessageKeeps

LEMMA TradeKeeps ==
  ASSUME ProxyInv, NEW t \in EventTimes, NEW p \in Prices, OnTrade(t, p)
  PROVE  ProxyInv'
<1> DEFINE key == CandleOf(t)
           candle == CandleAt(key)
           full == [candle EXCEPT !.complete = FALSE]
           trade == [trade |-> t, received |-> now, price |-> p]
           more == [candle EXCEPT !.trades = Append(@, trade)]
<1>1. /\ BinanceProxyTypeOK /\ t \in 0 .. LastTime /\ key \in Keys
      /\ now \in 0 .. LastTime /\ invalid \in SUBSET Keys
  BY DEF ProxyInv, EventTimes, BinanceProxyTypeOK, Keys
<1>2. candle \in Candle
  BY <1>1, CandleAtType
<1>3. /\ full \in Candle /\ full.complete = FALSE
      /\ Extends(full, candle)
  BY <1>2 DEF Candle, Extends
<1>4. /\ more \in Candle /\ more.complete = candle.complete
      /\ Extends(more, candle)
  <2>1. trade \in Trade
    BY <1>1 DEF Trade
  <2>2. candle.trades \in Seq(Trade)
    BY <1>2 DEF Candle
  <2>3. Append(candle.trades, trade) \in Seq(Trade)
    BY <2>1, <2>2
  <2>4. trade.received = now /\ trade.trade <= now
    BY <1>1 DEF EventTimes
  <2> HIDE DEF candle, trade
  <2>5. /\ more \in Candle /\ more.complete = candle.complete
        /\ more.trades = Append(candle.trades, trade)
    BY <1>2, <2>3 DEF Candle
  <2> HIDE DEF more
  <2>6. \A i \in DOMAIN Append(candle.trades, trade) :
          \/ /\ i \in DOMAIN candle.trades
             /\ Append(candle.trades, trade)[i] = candle.trades[i]
          \/ Append(candle.trades, trade)[i] = trade
    BY <2>1, <2>2
  <2>7. Extends(more, candle)
    BY <2>4, <2>5, <2>6 DEF Extends
  <2> QED
    BY <2>5, <2>7
<1>5. link /\ UNCHANGED <<now, link, connected>>
  BY DEF OnTrade
<1>6. CASE Len(candle.trades) >= MaxTrades
  <2>1. /\ Cleanup(With(key, full), invalid \cup {key}, t)
        /\ Lose({key})
    BY <1>6 DEF OnTrade
  <2>2. invalid \cup {key} \in SUBSET Keys
    BY <1>1
  <2> HIDE DEF full
  <2> QED
    BY <1>3, <1>5, <2>1, <2>2, MessageKeeps
<1>7. CASE ~(Len(candle.trades) >= MaxTrades)
  <2>1. Cleanup(With(key, more), invalid, t) /\ UNCHANGED lost
    BY <1>7 DEF OnTrade
  <2> HIDE DEF more
  <2> QED
    BY <1>1, <1>4, <1>5, <2>1, MessageKeeps
<1> QED
  BY <1>6, <1>7

\* A loss recorded now in a candle that has begun, or none.
LEMMA NewLoss ==
  ASSUME BinanceProxyTypeOK, NEW keys, \A k \in keys : k <= now,
         lost' = lost \/ Lose(keys)
  PROVE  /\ lost' \in [Keys -> {Never} \cup 0 .. LastTime]
         /\ \A k \in Keys : lost[k] # Never => lost'[k] = lost[k]
         /\ \A k \in Keys : lost[k] = Never /\ lost'[k] # Never =>
              k <= now /\ lost'[k] = now /\ Lose(keys)
BY DEF Lose, BinanceProxyTypeOK

LEMMA BreakKeeps == ASSUME ProxyInv, Break PROVE ProxyInv'
<1>0. BinanceProxyTypeOK /\ connected # Never /\ now \in 0 .. LastTime
  BY DEF ProxyInv, Break, BinanceProxyTypeOK
<1> DEFINE keys == {CandleOf(t) : t \in EventTimes}
<1>1. /\ link' = FALSE /\ Lose(keys)
      /\ UNCHANGED <<now, connected, candles, invalid, lastCleanup>>
  BY DEF Break
<1>2. \A k \in keys : k <= now
  <2> SUFFICES ASSUME NEW t \in EventTimes PROVE CandleOf(t) <= now
    OBVIOUS
  <2>1. t \in Nat /\ t <= now /\ now \in Nat
    BY <1>0 DEF EventTimes
  <2> QED
    BY <2>1, CandleStarts
<1> HIDE DEF keys
<1>3. /\ lost' \in [Keys -> {Never} \cup 0 .. LastTime]
      /\ \A k \in Keys : lost[k] # Never => lost'[k] = lost[k]
      /\ \A k \in Keys : lost[k] = Never /\ lost'[k] # Never =>
           k <= now /\ lost'[k] = now
  BY <1>0, <1>1, <1>2, NewLoss
<1>4. BinanceProxyTypeOK'
  BY <1>0, <1>1, <1>3 DEF BinanceProxyTypeOK
<1>5. TradesInv' /\ DisconnectedInv'
  BY <1>0, <1>1 DEF ProxyInv, TradesInv, DisconnectedInv
<1>6. \A k \in Keys : Covered(k)' = Covered(k)
  BY <1>1 DEF Covered
<1>7. ASSUME NEW k \in Keys, Lossy(k)' PROVE HoleAtEnd(k)'
  <2>1. ASSUME Covered(k)', NEW i \in DOMAIN candles'[k].trades
        PROVE  \/ candles'[k].trades[i].received <= lost'[k]
               \/ candles'[k].trades[i].received >= k + Window
    <3>1. Covered(k) /\ k \in DOMAIN candles /\ i \in DOMAIN candles[k].trades
      BY <1>1, <1>6, <2>1 DEF Covered
    <3>2. CASE lost[k] = Never
      BY <1>1, <1>3, <1>7, <3>1, <3>2 DEF Lossy, ProxyInv, TradesInv
    <3>3. CASE lost[k] # Never
      <4>1. Lossy(k) /\ lost'[k] = lost[k]
        BY <1>1, <1>3, <1>7, <3>3 DEF Lossy
      <4>2. HoleAtEnd(k)
        BY <4>1 DEF ProxyInv, CoverageSound
      <4> QED
        BY <1>1, <3>1, <4>1, <4>2 DEF HoleAtEnd
    <3> QED
      BY <3>2, <3>3
  <2> QED
    BY <1>1, <2>1 DEF HoleAtEnd
<1>8. \A k \in Keys : lost'[k] # Never => k <= now
  BY <1>3 DEF ProxyInv
<1> QED
  BY <1>1, <1>4, <1>5, <1>7, <1>8 DEF ProxyInv, CoverageSound

LEMMA CloseKeeps == ASSUME ProxyInv, OnClose PROVE ProxyInv'
<1>0. BinanceProxyTypeOK /\ now \in Nat
  BY DEF ProxyInv, BinanceProxyTypeOK
<1>1. /\ ~link /\ invalid' = invalid \cup {CandleOf(now)}
      /\ connected' = Never /\ DOMAIN candles' = DOMAIN candles
      /\ \A k \in DOMAIN candles :
           candles'[k] = IF k = CandleOf(now)
                           THEN [candles[k] EXCEPT !.complete = FALSE]
                           ELSE candles[k]
      /\ UNCHANGED <<now, link, lastCleanup, lost>>
  BY DEF OnClose
<1>2. CandleOf(now) \in Keys /\ CandleOf(now) <= now /\ CandleOf(now) \in Nat
  BY <1>0, CandleStarts DEF BinanceProxyTypeOK, Keys
<1>3. \A k \in DOMAIN candles :
        /\ candles'[k] \in Candle
        /\ candles'[k].trades = candles[k].trades
  <2> SUFFICES ASSUME NEW k \in DOMAIN candles
               PROVE  /\ candles'[k] \in Candle
                      /\ candles'[k].trades = candles[k].trades
    OBVIOUS
  <2>1. candles[k] \in Candle
    BY <1>0 DEF BinanceProxyTypeOK
  <2>2. /\ [candles[k] EXCEPT !.complete = FALSE] \in Candle
        /\ [candles[k] EXCEPT !.complete = FALSE].trades = candles[k].trades
    BY <2>1 DEF Candle
  <2> QED
    BY <1>1, <2>1, <2>2
<1>4. BinanceProxyTypeOK'
  BY <1>0, <1>1, <1>2, <1>3 DEF BinanceProxyTypeOK
<1>5. ASSUME NEW k \in Keys, Covered(k)'
      PROVE  /\ k # CandleOf(now) /\ k \in DOMAIN candles
             /\ Covered(k) /\ candles'[k] = candles[k]
  BY <1>1, <1>5 DEF Covered
<1>6. TradesInv'
  BY <1>1, <1>3 DEF ProxyInv, TradesInv
<1>7. ASSUME NEW k \in Keys PROVE /\ Covered(k)' => k + Window <= now
                                  /\ Lossy(k)' /\ k >= now => k \in invalid'
  <2>1. Covered(k)' => k <= now
    BY <1>5 DEF ProxyInv
  <2>2. Lossy(k)' => k <= now
    BY <1>1 DEF ProxyInv, Lossy
  <2>3. k \in Nat /\ (k <= now => k <= CandleOf(now))
        /\ (k <= now /\ k # CandleOf(now) => k + Window <= now)
    BY <1>0, KeyOrder
  <2>4. k <= now /\ k >= now => k = CandleOf(now)
    BY <1>0, <1>2, <2>3
  <2> QED
    BY <1>1, <1>5, <2>1, <2>2, <2>3, <2>4
<1>8. ASSUME NEW k \in Keys, Lossy(k)' PROVE HoleAtEnd(k)'
  <2>1. HoleAtEnd(k)
    BY <1>1, <1>8 DEF ProxyInv, CoverageSound, Lossy
  <2>2. Covered(k)' => \A i \in DOMAIN candles'[k].trades :
          \/ candles'[k].trades[i].received <= lost[k]
          \/ candles'[k].trades[i].received >= k + Window
    BY <1>5, <2>1 DEF HoleAtEnd
  <2> QED
    BY <1>1, <2>2 DEF HoleAtEnd
<1> QED
  BY <1>1, <1>4, <1>6, <1>7, <1>8
     DEF ProxyInv, DisconnectedInv, CoverageSound

LEMMA OpenKeeps == ASSUME ProxyInv, OnOpen PROVE ProxyInv'
<1>1. /\ connected = Never /\ connected' = now /\ link' = TRUE
      /\ UNCHANGED <<now, candles, invalid, lastCleanup, lost>>
  BY DEF OnOpen
<1>2. BinanceProxyTypeOK' /\ now # Never /\ now \in Nat
  BY <1>1 DEF ProxyInv, BinanceProxyTypeOK, Never
<1>3. ASSUME NEW k \in Keys, Lossy(k)' PROVE HoleAtEnd(k)'
  <2>1. Lossy(k) /\ (Covered(k)' <=> Covered(k)) /\ k \in Nat
    BY <1>1, <1>3, KeysAreNat DEF Lossy, Covered
  <2>2. HoleAtEnd(k)
    BY <2>1 DEF ProxyInv, CoverageSound
  <2>3. (Covered(k) => k + Window <= now) /\ (k >= now => k \in invalid)
    BY <1>1, <2>1 DEF ProxyInv, DisconnectedInv
  <2>4. ~CanCover(k)'
    BY <1>1, <1>2, <2>1, <2>3 DEF CanCover
  <2>5. ~(Covered(k)' /\ now < k + Window)
    BY <1>2, <2>1, <2>3
  <2>6. Covered(k)' => \A i \in DOMAIN candles'[k].trades :
          \/ candles'[k].trades[i].received <= lost'[k]
          \/ candles'[k].trades[i].received >= k + Window
    BY <1>1, <2>1, <2>2 DEF HoleAtEnd
  <2> QED
    BY <1>1, <2>4, <2>5, <2>6 DEF HoleAtEnd
<1>4. TradesInv' /\ DisconnectedInv'
  BY <1>1, <1>2 DEF ProxyInv, TradesInv, DisconnectedInv
<1> QED
  BY <1>1, <1>2, <1>3, <1>4 DEF ProxyInv, CoverageSound

LEMMA TickKeeps == ASSUME ProxyInv, ClockTick PROVE ProxyInv'
<1>0. /\ BinanceProxyTypeOK /\ now \in Nat /\ now \in 0 .. LastTime
      /\ CandleOf(now) <= now
  BY CandleStarts DEF ProxyInv, BinanceProxyTypeOK
<1>1. /\ now' = now + 1 /\ now < LastTime
      /\ UNCHANGED <<link, connected, candles, invalid, lastCleanup>>
      /\ (link => lost' = lost) /\ (~link => Lose({CandleOf(now)}))
  BY DEF ClockTick
<1>2. /\ lost' \in [Keys -> {Never} \cup 0 .. LastTime]
      /\ \A k \in Keys : lost[k] # Never => lost'[k] = lost[k]
      /\ \A k \in Keys : lost[k] = Never /\ lost'[k] # Never =>
           k <= now /\ lost'[k] = now
  <2>1. \A k \in {CandleOf(now)} : k <= now
    BY <1>0
  <2>2. lost' = lost \/ Lose({CandleOf(now)})
    BY <1>1
  <2> QED
    BY <1>0, <2>1, <2>2, NewLoss
<1>3. \A k \in Keys : lost[k] = Never /\ lost'[k] # Never => ~link
  BY <1>1
<1>4. BinanceProxyTypeOK'
  BY <1>0, <1>1, <1>2 DEF BinanceProxyTypeOK
<1>5. \A k \in Keys : lost'[k] # Never => k <= now
  BY <1>2 DEF ProxyInv
<1>6. \A k \in Keys : k <= now => k <= now + 1 /\ ~(k >= now + 1)
  BY <1>0, KeysAreNat
<1>7. \A k \in DOMAIN candles' : k <= now + 1
  BY <1>0, <1>1, <1>6 DEF ProxyInv, BinanceProxyTypeOK
<1>8. TradesInv'
  <2> SUFFICES ASSUME NEW k \in DOMAIN candles,
                      NEW i \in DOMAIN candles[k].trades
               PROVE  /\ candles[k].trades[i].trade
                            <= candles[k].trades[i].received
                      /\ candles[k].trades[i].received <= now + 1
    BY <1>1 DEF TradesInv
  <2>1. candles[k].trades \in Seq(Trade)
    BY <1>0 DEF BinanceProxyTypeOK, Candle
  <2>2. candles[k].trades[i] \in Trade
    BY <2>1
  <2>3. candles[k].trades[i].received \in Nat
    BY <2>2 DEF Trade
  <2>4. /\ candles[k].trades[i].trade <= candles[k].trades[i].received
        /\ candles[k].trades[i].received <= now
    BY DEF ProxyInv, TradesInv
  <2> QED
    BY <1>0, <2>3, <2>4
<1>9. \A k \in Keys : Covered(k)' = Covered(k) /\ CanCover(k)' = CanCover(k)
  BY <1>1 DEF Covered, CanCover
<1>10. \A k \in Keys : k \in Nat /\ (k + Window <= now => k + Window <= now + 1)
         /\ (now + 1 < k + Window => now < k + Window)
         /\ (k >= (now + 1) - Keep => k >= now - Keep)
  BY <1>0, KeysAreNat
<1>11. DisconnectedInv'
  <2> SUFFICES ASSUME connected = Never, NEW k \in Keys
               PROVE  /\ Covered(k)' => k + Window <= now + 1
                      /\ ~(Lossy(k)' /\ k >= now + 1)
    BY <1>1 DEF DisconnectedInv
  <2>1. Covered(k)' => k + Window <= now + 1
    BY <1>9, <1>10 DEF ProxyInv, DisconnectedInv
  <2>2. Lossy(k)' => ~(k >= now + 1)
    BY <1>5, <1>6 DEF Lossy
  <2> QED
    BY <2>1, <2>2
<1>12. ASSUME NEW k \in Keys, Lossy(k)' PROVE HoleAtEnd(k)'
  <2>1. k >= (now + 1) - Keep /\ lost'[k] # Never
    BY <1>1, <1>12 DEF Lossy
  <2>2. CASE lost[k] = Never
    <3>1. ~link' /\ lost'[k] = now
      BY <1>1, <1>2, <1>3, <2>1, <2>2
    <3>2. Covered(k)' => \A i \in DOMAIN candles'[k].trades :
            candles'[k].trades[i].received <= lost'[k]
      BY <1>1, <3>1 DEF Covered, ProxyInv, TradesInv
    <3> QED
      BY <3>1, <3>2 DEF HoleAtEnd
  <2>3. CASE lost[k] # Never
    <3>1. Lossy(k) /\ lost'[k] = lost[k]
      BY <1>2, <1>10, <2>1, <2>3 DEF Lossy
    <3>2. HoleAtEnd(k)
      BY <3>1 DEF ProxyInv, CoverageSound
    <3>3. /\ Covered(k)' /\ now + 1 < k + Window => ~link'
          /\ CanCover(k)' => ~link'
      BY <1>1, <1>9, <1>10, <3>2 DEF HoleAtEnd
    <3>4. Covered(k)' => \A i \in DOMAIN candles'[k].trades :
            \/ candles'[k].trades[i].received <= lost'[k]
            \/ candles'[k].trades[i].received >= k + Window
      BY <1>1, <1>9, <3>1, <3>2 DEF HoleAtEnd
    <3> QED
      BY <1>1, <3>3, <3>4 DEF HoleAtEnd
  <2> QED
    BY <2>2, <2>3
<1>13. \A k \in Keys : lost'[k] # Never => k <= now + 1
  BY <1>5, <1>6
<1> QED
  BY <1>1, <1>4, <1>7, <1>8, <1>11, <1>12, <1>13 DEF ProxyInv, CoverageSound

LEMMA ProxyKeeps == ProxyInv /\ [BinanceProxyNext]_proxyVars => ProxyInv'
<1> SUFFICES ASSUME ProxyInv, [BinanceProxyNext]_proxyVars PROVE ProxyInv'
  OBVIOUS
<1>1. CASE ProxyMessage
  BY <1>1, KlineKeeps, TradeKeeps DEF ProxyMessage
<1>2. CASE UNCHANGED proxyVars
  <2>1. UNCHANGED <<now, link, connected, candles, invalid, lastCleanup, lost>>
    BY <1>2 DEF proxyVars
  <2>2. BinanceProxyTypeOK'
    BY <2>1 DEF ProxyInv, BinanceProxyTypeOK
  <2>3. \A k : /\ Lossy(k)' <=> Lossy(k)
               /\ Covered(k)' <=> Covered(k)
               /\ HoleAtEnd(k)' <=> HoleAtEnd(k)
    BY <2>1 DEF Lossy, Covered, CanCover, HoleAtEnd
  <2>4. TradesInv' /\ DisconnectedInv' /\ CoverageSound'
    BY <2>1, <2>3 DEF ProxyInv, TradesInv, DisconnectedInv, CoverageSound
  <2> QED
    BY <2>1, <2>2, <2>4 DEF ProxyInv
<1> QED
  BY <1>1, <1>2, OpenKeeps, BreakKeeps, CloseKeeps, TickKeeps
     DEF BinanceProxyNext

\* The inductive invariant of the tape: what a candle has lost is known, or is
\* the end of what it received.
THEOREM ProxyInvariant == BinanceProxySpec => []ProxyInv
BY ProxyStart, ProxyKeeps, PTL DEF BinanceProxySpec

\* The hole of a tape that counts as complete is at its end, and it is joined
\* by nobody who could know of it (binance_proxy.py: _on_close, tail_input,
\* can_cover_candle), in any order of trades, breaks, closes and cleanups.
THEOREM CoverageIsSound == BinanceProxySpec => []CoverageSound
<1>1. ProxyInv => CoverageSound
  BY DEF ProxyInv
<1> QED
  BY <1>1, ProxyInvariant, PTL

-----------------------------------------------------------------------------
(* The decision                                                              *)

\* The observations are in the order of their times, none is of the future,
\* and a stream that is not paired has none.
QuotesInv ==
  /\ \A i, j \in DOMAIN quotes : i < j => quotes[i].at < quotes[j].at
  /\ \A i \in DOMAIN quotes : quotes[i].at <= now
  /\ ~paired => quotes = <<>>

TailInv ==
  /\ ProxyInv
  /\ TailRoundTypeOK
  /\ QuotesInv
  /\ decided <= now
  /\ decision # Pending => now >= Target
  /\ now > Target => Evaluate \in {Hold, frozen}
  /\ LateEntryWasDue
  /\ EntryTapeUnbroken

HIDE BinanceProxyAssumption

LEMMA SidesAreDecisions ==
  /\ \A bids : Leader(bids) \in {"YES", "NO"}
  /\ \A q, o, t : EvaluateTailDecision(q, o, t) \in {"YES", "NO", Hold}
  /\ Evaluate \in {"YES", "NO", Hold}
  /\ Evaluate \in Decisions
<1>1. \A bids : Leader(bids) \in {"YES", "NO"}
  BY DEF Leader
<1>2. \A q, o, t : EvaluateTailDecision(q, o, t) \in {"YES", "NO", Hold}
  BY <1>1 DEF EvaluateTailDecision
<1>3. Evaluate \in {"YES", "NO", Hold}
  BY <1>2 DEF Evaluate
<1> QED
  BY <1>1, <1>2, <1>3 DEF Decisions

\* Evaluate depends on what it is given.
LEMMA SameGivens ==
  ASSUME paired' = paired \/ TargetQuotes = {},
         Covered(Round)' /\ OpenKnown' =>
           /\ Covered(Round) /\ OpenKnown
           /\ candles'[Round].open = candles[Round].open
           /\ Tape' = Tape,
         TargetQuotes' # {} => TargetQuotes # {} /\ TargetQuote' = TargetQuote
  PROVE  Evaluate' \in {Hold, Evaluate}
<1>1. CASE paired' /\ Covered(Round)' /\ TargetQuotes' # {} /\ OpenKnown'
  <2>1. /\ paired /\ Covered(Round) /\ TargetQuotes # {} /\ OpenKnown
        /\ TargetQuote' = TargetQuote /\ Tape' = Tape
        /\ candles'[Round].open = candles[Round].open
    BY <1>1
  <2>2. Evaluate = EvaluateTailDecision(TargetQuote, candles[Round].open, Tape)
    BY <2>1 DEF Evaluate
  <2>3. Evaluate' =
          EvaluateTailDecision(TargetQuote', candles'[Round].open, Tape')
    BY <1>1 DEF Evaluate
  <2> QED
    BY <2>1, <2>2, <2>3
<1>2. CASE ~(paired' /\ Covered(Round)' /\ TargetQuotes' # {} /\ OpenKnown')
  BY <1>2 DEF Evaluate
<1> QED
  BY <1>1, <1>2

\* The same tables are the same givens.
LEMMA SameTables ==
  ASSUME UNCHANGED <<candles, invalid>>
  PROVE  /\ Covered(Round)' = Covered(Round) /\ OpenKnown' = OpenKnown
         /\ Tape' = Tape
BY DEF Covered, OpenKnown, Tape

LEMMA SameQuotes ==
  ASSUME quotes' = quotes
  PROVE  TargetQuotes' = TargetQuotes /\ TargetQuote' = TargetQuote
<1>1. TargetQuotes' = TargetQuotes
  BY DEF TargetQuotes
<1> QED
  BY <1>1 DEF TargetQuote

\* The newest of a set is the newest after anything older than all of the rest
\* is taken away.
LEMMA OlderIsIrrelevant ==
  ASSUME NEW S, NEW h, S \ {h} # {}, \A q \in S : q.at \in Nat,
         \A q \in S \ {h} : h.at < q.at, h.at \in Nat
  PROVE  Newest(S \ {h}) = Newest(S)
<1>1. \A q : (q \in S /\ \A r \in S : q.at >= r.at) <=>
             (q \in S \ {h} /\ \A r \in S \ {h} : q.at >= r.at)
  OBVIOUS
<1> QED
  BY <1>1, Zenon DEF Newest

\* The tail of a sequence.
LEMMA TailOf ==
  ASSUME NEW S, NEW s \in Seq(S), s # <<>>
  PROVE  /\ Tail(s) \in Seq(S) /\ Len(Tail(s)) = Len(s) - 1
         /\ DOMAIN Tail(s) \subseteq Nat
         /\ \A i \in DOMAIN Tail(s) : Tail(s)[i] = s[i + 1] /\ i + 1 \in DOMAIN s
<1>1. /\ Len(s) \in Nat /\ Len(s) > 0 /\ DOMAIN s = 1 .. Len(s)
  OBVIOUS
<1>2. Tail(s) \in Seq(S) /\ Len(Tail(s)) = Len(s) - 1
  OBVIOUS
<1>3. DOMAIN Tail(s) = 1 .. Len(s) - 1
  BY <1>2
<1>4. \A i \in 1 .. Len(s) - 1 : Tail(s)[i] = s[i + 1]
  OBVIOUS
<1>5. \A i \in 1 .. Len(s) - 1 : i + 1 \in 1 .. Len(s) /\ i \in Nat
  BY <1>1
<1> QED
  BY <1>1, <1>2, <1>3, <1>4, <1>5

\* The deque with one more observation: what it was, perhaps without its
\* oldest, in the same order, and the new one at the end.
LEMMA Recorded ==
  ASSUME TailInv, RecordQuote
  PROVE  \E base \in Seq(Quote), q \in Quote :
           /\ quotes' = Append(base, q) /\ q.at = now
           /\ \/ base = quotes
              \/ quotes # <<>> /\ base = Tail(quotes)
           /\ \A i \in DOMAIN base : base[i].at < now
           /\ \A i, j \in DOMAIN base : i < j => base[i].at < base[j].at
<1>1. quotes \in Seq(Quote) /\ now \in 0 .. LastTime
  BY DEF TailInv, TailRoundTypeOK, ProxyInv, BinanceProxyTypeOK
<1>2. PICK bids \in BidPairs :
        quotes' = Append(IF Len(quotes) < DequeCap THEN quotes ELSE Tail(quotes),
                         [at |-> now, bids |-> bids])
  BY DEF RecordQuote
<1> DEFINE q == [at |-> now, bids |-> bids]
<1>3. q \in Quote /\ q.at = now
  BY <1>1 DEF Quote
<1> HIDE DEF q
<1>4. \A i \in DOMAIN quotes : quotes[i].at < now
  <2> SUFFICES ASSUME NEW i \in DOMAIN quotes PROVE quotes[i].at < now
    OBVIOUS
  <2>1. quotes # <<>> /\ Len(quotes) \in DOMAIN quotes /\ i <= Len(quotes)
    BY <1>1
  <2>2. Last(quotes) = quotes[Len(quotes)] /\ now > Last(quotes).at
    BY <2>1 DEF RecordQuote, Last
  <2>3. quotes[i] \in Quote /\ quotes[Len(quotes)] \in Quote
    BY <1>1, <2>1
  <2>4. PICK a \in Nat, b \in Nat : a = quotes[i].at /\ b = quotes[Len(quotes)].at
    <3>1. \A r \in Quote : r.at \in Nat
      BY DEF Quote
    <3> QED
      BY <2>3, <3>1
  <2>5. i \in Nat /\ Len(quotes) \in Nat /\ now \in Nat
    BY <1>1
  <2>6. a <= b
    <3>1. CASE i = Len(quotes)
      BY <2>4, <3>1
    <3>2. CASE i < Len(quotes)
      <4>1. a < b
        BY <2>1, <2>4, <3>2 DEF TailInv, QuotesInv
      <4> QED
        BY <4>1
    <3> QED
      BY <2>1, <2>5, <3>1, <3>2
  <2>7. now > b
    BY <2>2, <2>4
  <2>8. a < now
    BY <2>5, <2>6, <2>7
  <2> QED
    BY <2>4, <2>8
<1>5. \A i, j \in DOMAIN quotes : i < j => quotes[i].at < quotes[j].at
  BY DEF TailInv, QuotesInv
<1>6. CASE Len(quotes) < DequeCap
  <2>1. quotes' = Append(quotes, q)
    BY <1>2, <1>6 DEF q
  <2> QED
    BY <1>1, <1>3, <1>4, <1>5, <2>1
<1>7. CASE ~(Len(quotes) < DequeCap)
  <2>1. quotes # <<>>
    <3>1. DequeCap \in Nat /\ DequeCap > 0
      BY TailRoundAssumption
    <3>2. Len(quotes) # 0
      BY <1>1, <1>7, <3>1
    <3> QED
      BY <3>2
  <2>2. /\ Tail(quotes) \in Seq(Quote)
        /\ Len(Tail(quotes)) = Len(quotes) - 1
        /\ \A i \in DOMAIN Tail(quotes) :
             Tail(quotes)[i] = quotes[i + 1] /\ i + 1 \in DOMAIN quotes
        /\ DOMAIN Tail(quotes) \subseteq Nat
    BY <1>1, <2>1, TailOf
  <2>3. \A i \in DOMAIN Tail(quotes) : Tail(quotes)[i].at < now
    BY <1>4, <2>2
  <2>4. \A i, j \in DOMAIN Tail(quotes) :
          i < j => Tail(quotes)[i].at < Tail(quotes)[j].at
    <3> SUFFICES ASSUME NEW i \in DOMAIN Tail(quotes),
                        NEW j \in DOMAIN Tail(quotes), i < j
                 PROVE  Tail(quotes)[i].at < Tail(quotes)[j].at
      OBVIOUS
    <3>1. i + 1 < j + 1
      BY <2>2
    <3>2. quotes[i + 1].at < quotes[j + 1].at
      BY <1>5, <2>2, <3>1
    <3> QED
      BY <2>2, <3>2
  <2>5. quotes' = Append(Tail(quotes), q)
    BY <1>2, <1>7 DEF q
  <2>6. Tail(quotes) \in Seq(Quote)
    BY <2>2
  <2> DEFINE rest == Tail(quotes)
  <2> HIDE DEF rest
  <2>7. rest \in Seq(Quote) /\ rest = Tail(quotes) /\ quotes' = Append(rest, q)
    BY <2>5, <2>6 DEF rest
  <2>8. /\ \A i \in DOMAIN rest : rest[i].at < now
        /\ \A i, j \in DOMAIN rest : i < j => rest[i].at < rest[j].at
    BY <2>3, <2>4 DEF rest
  <2> QED
    BY <1>3, <2>1, <2>7, <2>8
<1> QED
  BY <1>6, <1>7

\* An observation that comes after the target changes no decision but to HOLD.
LEMMA RecordAfterTarget ==
  ASSUME TailInv, RecordQuote, now > Target
  PROVE  Evaluate' \in {Hold, Evaluate}
<1>1. PICK base \in Seq(Quote), q \in Quote :
        /\ quotes' = Append(base, q) /\ q.at = now
        /\ \/ base = quotes
           \/ quotes # <<>> /\ base = Tail(quotes)
  BY Recorded
<1>2. quotes \in Seq(Quote) /\ now \in 0 .. LastTime
  BY DEF TailInv, TailRoundTypeOK, ProxyInv, BinanceProxyTypeOK
<1>3. TargetQuotes' = {r \in ToSet(base) : r.at <= Target}
  <2>1. ToSet(quotes') = ToSet(base) \cup {q}
    <3>1. /\ DOMAIN quotes' = 1 .. Len(base) + 1 /\ DOMAIN base = 1 .. Len(base)
          /\ Len(base) \in Nat
          /\ \A i \in 1 .. Len(base) : quotes'[i] = base[i]
          /\ quotes'[Len(base) + 1] = q
      BY <1>1
    <3> QED
      BY <3>1 DEF ToSet
  <2>2. ~(q.at <= Target)
    BY <1>1, <1>2, TailRoundAssumption
  <2> QED
    BY <2>1, <2>2 DEF TargetQuotes
<1>4. TargetQuotes' # {} => TargetQuotes # {} /\ TargetQuote' = TargetQuote
  <2>1. CASE base = quotes
    <3>1. TargetQuotes' = TargetQuotes
      BY <1>3, <2>1 DEF TargetQuotes
    <3> QED
      BY <3>1 DEF TargetQuote
  <2>2. CASE quotes # <<>> /\ base = Tail(quotes)
    <3> DEFINE h == quotes[1]
    <3>1. /\ DOMAIN quotes = 1 .. Len(quotes) /\ Len(quotes) \in Nat
          /\ Len(quotes) > 0 /\ 1 \in DOMAIN quotes
          /\ DOMAIN base = 1 .. Len(quotes) - 1
          /\ \A i \in 1 .. Len(quotes) - 1 : base[i] = quotes[i + 1]
          /\ \A i \in DOMAIN quotes : quotes[i] \in Quote
      BY <1>2, <2>2
    <3>2. \A i \in DOMAIN quotes : quotes[i].at \in Nat
      BY <3>1 DEF Quote
    <3>3. \A i \in DOMAIN quotes : i # 1 => h.at < quotes[i].at
      <4>1. ASSUME NEW i \in DOMAIN quotes, i # 1 PROVE 1 < i
        BY <3>1, <4>1
      <4>2. \A i, j \in DOMAIN quotes : i < j => quotes[i].at < quotes[j].at
        BY DEF TailInv, QuotesInv
      <4> QED
        BY <3>1, <4>1, <4>2
    <3>4. ToSet(base) = ToSet(quotes) \ {h}
      <4>1. ASSUME NEW r \in ToSet(base) PROVE r \in ToSet(quotes) \ {h}
        <5>1. PICK i \in 1 .. Len(quotes) - 1 : r = quotes[i + 1]
          BY <3>1, <4>1 DEF ToSet
        <5>2. i + 1 \in DOMAIN quotes /\ i + 1 # 1
          BY <3>1
        <5>3. h.at < r.at /\ h.at \in Nat
          BY <3>1, <3>2, <3>3, <5>1, <5>2
        <5> QED
          BY <5>1, <5>2, <5>3 DEF ToSet
      <4>2. ASSUME NEW r \in ToSet(quotes) \ {h} PROVE r \in ToSet(base)
        <5>1. PICK i \in DOMAIN quotes : r = quotes[i] /\ i # 1
          BY <4>2 DEF ToSet
        <5>2. i - 1 \in 1 .. Len(quotes) - 1 /\ (i - 1) + 1 = i
          BY <3>1, <5>1
        <5> QED
          BY <3>1, <5>1, <5>2 DEF ToSet
      <4> QED
        BY <4>1, <4>2
    <3>5. TargetQuotes' = TargetQuotes \ {h}
      BY <1>3, <3>4 DEF TargetQuotes
    <3>6. ASSUME TargetQuotes' # {} PROVE TargetQuote' = TargetQuote
      <4>1. \A r \in TargetQuotes : r.at \in Nat
        BY <3>2 DEF TargetQuotes, ToSet
      <4>2. \A r \in TargetQuotes \ {h} : h.at < r.at
        BY <3>3 DEF TargetQuotes, ToSet
      <4>3. Newest(TargetQuotes \ {h}) = Newest(TargetQuotes)
        BY <3>1, <3>2, <3>5, <3>6, <4>1, <4>2, OlderIsIrrelevant
      <4> QED
        BY <3>5, <4>3 DEF TargetQuote
    <3> QED
      BY <3>5, <3>6
  <2> QED
    BY <1>1, <2>1, <2>2
<1>5. UNCHANGED <<candles, invalid>> /\ paired' = TRUE
  BY DEF RecordQuote, proxyVars
<1>6. paired' = paired \/ TargetQuotes = {}
  <2>1. CASE paired
    BY <1>5, <2>1 DEF TailInv, TailRoundTypeOK
  <2>2. CASE ~paired
    <3>1. quotes = <<>>
      BY <2>2 DEF TailInv, QuotesInv
    <3>2. ToSet(quotes) = {}
      BY <3>1 DEF ToSet
    <3> QED
      BY <3>2 DEF TargetQuotes
  <2> QED
    BY <2>1, <2>2
<1>7. /\ Covered(Round)' = Covered(Round) /\ OpenKnown' = OpenKnown
      /\ Tape' = Tape /\ candles'[Round].open = candles[Round].open
  BY <1>5, SameTables
<1> QED
  BY <1>4, <1>6, <1>7, SameGivens

\* What a message of the Binance stream writes after the target is no part of
\* the tape, and an open it writes is not known at the target.
LEMMA TableAfterTarget ==
  ASSUME BinanceProxyTypeOK, now > Target, NEW t \in EventTimes,
         NEW row \in Candle, NEW u \in {t, now}, NEW marks \in SUBSET Keys,
         Cleanup(With(CandleOf(t), row), marks, u), Round \notin invalid,
         UNCHANGED <<now, quotes, paired>>,
         CandleOf(t) = Round =>
           \/ ~row.complete
           \/ row.open = 0 \/ row.openReceived > Target
           \/ /\ Round \in DOMAIN candles
              /\ row.complete = candles[Round].complete
              /\ row.open = candles[Round].open
              /\ row.openReceived = candles[Round].openReceived
              /\ \E trade \in Trade :
                   /\ trade.received > Target
                   /\ row.trades = Append(candles[Round].trades, trade)
  PROVE  Evaluate' \in {Hold, Evaluate}
<1>1. /\ DOMAIN candles' \subseteq DOMAIN candles \cup {CandleOf(t)}
      /\ \A k \in DOMAIN candles' :
           candles'[k] = IF k = CandleOf(t) THEN row ELSE candles[k]
  BY MessageTables
<1>2. TargetQuotes' = TargetQuotes /\ TargetQuote' = TargetQuote
  BY SameQuotes
<1>3. ASSUME Covered(Round)', OpenKnown'
      PROVE  /\ Covered(Round) /\ OpenKnown /\ Tape' = Tape
             /\ candles'[Round].open = candles[Round].open
  <2>1. /\ Round \in DOMAIN candles' /\ candles'[Round].complete
        /\ candles'[Round].open # 0 /\ candles'[Round].openReceived <= Target
    BY <1>3 DEF Covered, OpenKnown
  <2>2. CASE CandleOf(t) # Round
    <3>1. Round \in DOMAIN candles /\ candles'[Round] = candles[Round]
      BY <1>1, <2>1, <2>2
    <3> QED
      BY <2>1, <3>1 DEF Covered, OpenKnown, Tape
  <2>3. CASE CandleOf(t) = Round
    <3>1. candles'[Round] = row
      BY <1>1, <2>1, <2>3
    <3>2. row.openReceived \in 0 .. LastTime /\ Target \in Nat
      BY TailRoundAssumption DEF Candle
    <3>3. ~(row.openReceived > Target)
      BY <2>1, <3>1, <3>2
    <3>4. PICK trade \in Trade :
            /\ Round \in DOMAIN candles
            /\ row.complete = candles[Round].complete
            /\ row.open = candles[Round].open
            /\ row.openReceived = candles[Round].openReceived
            /\ trade.received > Target
            /\ row.trades = Append(candles[Round].trades, trade)
      BY <2>1, <2>3, <3>1, <3>3
    <3>5. Covered(Round) /\ OpenKnown
      BY <2>1, <3>1, <3>4 DEF Covered, OpenKnown
    <3>6. candles[Round].trades \in Seq(Trade)
      BY <3>4 DEF BinanceProxyTypeOK, Candle
    <3> DEFINE old == candles[Round].trades
               new == row.trades
               known(s) == {j \in DOMAIN s : /\ s[j].trade \in Round .. Target
                                             /\ s[j].received <= Target}
    <3>7. /\ DOMAIN new = 1 .. Len(old) + 1 /\ DOMAIN old = 1 .. Len(old)
          /\ Len(old) \in Nat
          /\ \A j \in 1 .. Len(old) : new[j] = old[j]
          /\ new[Len(old) + 1] = trade
      BY <3>4, <3>6
    <3>8. trade.received \in 0 .. LastTime /\ ~(trade.received <= Target)
      BY <3>2, <3>4 DEF Trade
    <3>9. known(new) = known(old)
      <4>1. \A j \in DOMAIN new : j \in DOMAIN old \/ new[j] = trade
        <5>1. \A n \in Nat : \A j \in 1 .. n + 1 : j \in 1 .. n \/ j = n + 1
          OBVIOUS
        <5>2. \A j \in 1 .. Len(old) + 1 :
                j \in 1 .. Len(old) \/ j = Len(old) + 1
          BY <3>7, <5>1
        <5> HIDE DEF old, new
        <5> QED
          BY <3>7, <5>2
      <4>2. DOMAIN old \subseteq DOMAIN new
        BY <3>7
      <4>3. \A j \in DOMAIN old : new[j] = old[j]
        BY <3>7
      <4> HIDE DEF old, new
      <4> QED
        BY <3>8, <4>1, <4>2, <4>3
    <3>10. \A j \in known(old) : new[j] = old[j]
      BY <3>7
    <3>11. Tape = [j \in known(old) |-> old[j]]
      BY DEF Tape
    <3>12. Tape' = [j \in known(new) |-> new[j]]
      BY <3>1 DEF Tape
    <3> HIDE DEF known
    <3>13. Tape' = Tape
      BY <3>9, <3>10, <3>11, <3>12
    <3> QED
      BY <3>1, <3>4, <3>5, <3>13
  <2> QED
    BY <2>2, <2>3
<1> QED
  BY <1>2, <1>3, SameGivens

LEMMA MessageAfterTarget ==
  ASSUME TailInv, ProxyMessage, now > Target, Round \notin invalid,
         UNCHANGED <<quotes, paired>>
  PROVE  Evaluate' \in {Hold, Evaluate}
<1>0. /\ ProxyInv /\ BinanceProxyTypeOK /\ now \in 0 .. LastTime
      /\ invalid \in SUBSET Keys /\ UNCHANGED <<now, quotes, paired>>
  BY DEF TailInv, ProxyInv, BinanceProxyTypeOK, ProxyMessage, OnKline, OnTrade
<1>1. PICK t \in EventTimes : OnKline(t) \/ \E p \in Prices : OnTrade(t, p)
  BY DEF ProxyMessage
<1> DEFINE key == CandleOf(t)
           candle == CandleAt(key)
<1>2. t \in 0 .. LastTime /\ key \in Keys
  BY <1>0, BinanceProxyAssumption DEF EventTimes, Keys
<1>3. candle \in Candle
  BY <1>0, <1>2, CandleAtType
<1>4. CASE OnKline(t)
  <2> DEFINE row == [candle EXCEPT !.open = OpenPrice, !.openReceived = now]
  <2>1. row \in Candle /\ row.openReceived = now
    BY <1>0, <1>3 DEF Candle
  <2>2. Cleanup(With(key, row), invalid, now)
    BY <1>4 DEF OnKline
  <2> HIDE DEF row
  <2> QED
    BY <1>0, <2>1, <2>2, TableAfterTarget
<1>5. ASSUME NEW p \in Prices, OnTrade(t, p) PROVE Evaluate' \in {Hold, Evaluate}
  <2> DEFINE full == [candle EXCEPT !.complete = FALSE]
             trade == [trade |-> t, received |-> now, price |-> p]
             more == [candle EXCEPT !.trades = Append(@, trade)]
  <2>1. CASE Len(candle.trades) >= MaxTrades
    <3>1. full \in Candle /\ ~full.complete
      BY <1>3 DEF Candle
    <3>2. Cleanup(With(key, full), invalid \cup {key}, t)
      BY <1>5, <2>1 DEF OnTrade
    <3>3. invalid \cup {key} \in SUBSET Keys
      BY <1>0, <1>2
    <3> HIDE DEF full
    <3> QED
      BY <1>0, <3>1, <3>2, <3>3, TableAfterTarget
  <2>2. CASE ~(Len(candle.trades) >= MaxTrades)
    <3>1. trade \in Trade /\ trade.received = now
      BY <1>0, <1>2 DEF Trade
    <3>2. candle.trades \in Seq(Trade)
      BY <1>3 DEF Candle
    <3>3. Append(candle.trades, trade) \in Seq(Trade)
      BY <3>1, <3>2
    <3>4. Cleanup(With(key, more), invalid, t)
      BY <1>5, <2>2 DEF OnTrade
    <3> HIDE DEF trade, candle
    <3>5. /\ more \in Candle /\ more.complete = candle.complete
          /\ more.open = candle.open
          /\ more.openReceived = candle.openReceived
          /\ more.trades = Append(candle.trades, trade)
      BY <1>3, <3>3 DEF Candle
    <3> HIDE DEF more
    <3>6. key \in DOMAIN candles => candle = candles[key]
      BY DEF candle, CandleAt
    <3>7. key \notin DOMAIN candles => candle.open = 0
      BY DEF candle, CandleAt
    <3>8. key = Round =>
            \/ more.open = 0
            \/ /\ Round \in DOMAIN candles
               /\ more.complete = candles[Round].complete
               /\ more.open = candles[Round].open
               /\ more.openReceived = candles[Round].openReceived
               /\ more.trades = Append(candles[Round].trades, trade)
      BY <3>5, <3>6, <3>7
    <3> QED
      BY <1>0, <3>1, <3>4, <3>5, <3>8, TableAfterTarget
  <2> QED
    BY <2>1, <2>2
<1> QED
  BY <1>1, <1>4, <1>5

\* A reconnect adds no candle, nor does a break, and a close makes one
\* incomplete.
LEMMA ConnectionAfterTarget ==
  ASSUME OnOpen \/ Break \/ OnClose, UNCHANGED <<quotes, paired>>
  PROVE  Evaluate' \in {Hold, Evaluate}
<1>1. TargetQuotes' = TargetQuotes /\ TargetQuote' = TargetQuote
  BY SameQuotes
<1>2. CASE OnOpen \/ Break
  <2>1. UNCHANGED <<candles, invalid>>
    BY <1>2 DEF OnOpen, Break
  <2>2. /\ Covered(Round)' = Covered(Round) /\ OpenKnown' = OpenKnown
        /\ Tape' = Tape /\ candles'[Round].open = candles[Round].open
    BY <2>1, SameTables
  <2> QED
    BY <1>1, <2>2, SameGivens
<1>3. CASE OnClose
  <2>1. ASSUME Covered(Round)', OpenKnown'
        PROVE  /\ Covered(Round) /\ OpenKnown /\ Tape' = Tape
               /\ candles'[Round].open = candles[Round].open
    <3>1. /\ Round # CandleOf(now) /\ Round \notin invalid
          /\ Round \in DOMAIN candles /\ candles'[Round] = candles[Round]
          /\ candles'[Round].complete
      BY <1>3, <2>1 DEF OnClose, Covered
    <3> QED
      BY <2>1, <3>1 DEF Covered, OpenKnown, Tape
  <2> QED
    BY <1>1, <2>1, SameGivens
<1> QED
  BY <1>2, <1>3

\* Nothing but the clock has moved, or not even that.
LEMMA SameAll ==
  ASSUME UNCHANGED <<candles, invalid, quotes, paired>>
  PROVE  Evaluate' = Evaluate
<1>1. TargetQuotes' = TargetQuotes /\ TargetQuote' = TargetQuote
  BY SameQuotes
<1>2. /\ Covered(Round)' = Covered(Round) /\ OpenKnown' = OpenKnown
      /\ Tape' = Tape
  BY SameTables
<1> QED
  BY <1>1, <1>2 DEF Evaluate

LEMMA TailStart == TailRoundInit => TailInv
<1> SUFFICES ASSUME TailRoundInit PROVE TailInv
  OBVIOUS
<1>1. /\ BinanceProxyInit /\ quotes = <<>> /\ paired = FALSE
      /\ decision = Pending /\ frozen = Pending /\ decided = 0
  BY DEF TailRoundInit
<1>2. ProxyInv /\ now \in 0 .. LastTime
  BY <1>1, ProxyStart DEF ProxyInv, BinanceProxyTypeOK
<1>3. quotes \in Seq(Quote) /\ 0 \in 0 .. LastTime /\ decided <= now
  BY <1>1, <1>2, BinanceProxyAssumption
<1>4. TailRoundTypeOK
  BY <1>1, <1>3 DEF TailRoundTypeOK, Decisions
<1>5. QuotesInv
  <2>1. DOMAIN quotes = {}
    BY <1>1
  <2> QED
    BY <1>1, <2>1 DEF QuotesInv
<1>6. Evaluate = Hold
  BY <1>1 DEF Evaluate
<1>7. LateEntryWasDue /\ EntryTapeUnbroken
  BY <1>1 DEF LateEntryWasDue, EntryTapeUnbroken, Pending
<1> QED
  BY <1>1, <1>2, <1>3, <1>4, <1>5, <1>6, <1>7 DEF TailInv

\* A step that is not a decision, with the clock still, keeps the invariant if
\* it keeps the observations in order and says nothing new after the target.
LEMMA QuietStep ==
  ASSUME TailInv, ProxyInv', QuotesInv', quotes' \in Seq(Quote),
         paired' \in BOOLEAN, now > Target => Evaluate' \in {Hold, Evaluate},
         lost' = lost \/ decision = Pending,
         UNCHANGED <<now, decision, decided, frozen>>
  PROVE  TailInv'
<1>1. TailRoundTypeOK'
  BY DEF TailInv, TailRoundTypeOK
<1>2. LateEntryWasDue' /\ (decided <= now)'
  BY DEF TailInv, LateEntryWasDue
<1>3. (now > Target => Evaluate \in {Hold, frozen})'
  BY DEF TailInv
<1>4. EntryTapeUnbroken' /\ (decision # Pending => now >= Target)'
  BY DEF TailInv, EntryTapeUnbroken, Pending
<1> QED
  BY <1>1, <1>2, <1>3, <1>4 DEF TailInv

LEMMA RecordKeeps == ASSUME TailInv, RecordQuote PROVE TailInv'
<1>1. PICK base \in Seq(Quote), q \in Quote :
        /\ quotes' = Append(base, q) /\ q.at = now
        /\ \A i \in DOMAIN base : base[i].at < now
        /\ \A i, j \in DOMAIN base : i < j => base[i].at < base[j].at
  BY Recorded
<1>2. UNCHANGED <<proxyVars, decision, decided, frozen>> /\ paired' = TRUE
  BY DEF RecordQuote
<1>3. UNCHANGED <<now, lost>> /\ now \in 0 .. LastTime
  BY <1>2 DEF proxyVars, TailInv, ProxyInv, BinanceProxyTypeOK
<1>4. ProxyInv'
  BY <1>2, ProxyKeeps DEF TailInv
<1>5. quotes' \in Seq(Quote)
  BY <1>1
<1>6. QuotesInv'
  <2> DEFINE n == Len(base)
  <2>1. /\ n \in Nat /\ DOMAIN base = 1 .. n /\ DOMAIN quotes' = 1 .. n + 1
        /\ \A i \in 1 .. n : quotes'[i] = base[i]
        /\ quotes'[n + 1] = q
    BY <1>1
  <2> HIDE DEF n
  <2>2. \A i \in 1 .. n + 1 : i \in 1 .. n \/ i = n + 1
    BY <2>1
  <2>3. \A i \in 1 .. n : quotes'[i].at < now /\ base[i].at \in Nat
    <3>1. \A i \in 1 .. n : base[i] \in Quote
      BY <2>1
    <3>2. \A u \in Quote : u.at \in Nat
      BY DEF Quote
    <3>3. \A i \in 1 .. n : base[i].at \in Nat
      BY <3>1, <3>2
    <3> QED
      BY <1>1, <2>1, <3>3
  <2>4. \A i \in DOMAIN quotes' : quotes'[i].at <= now
    BY <1>1, <1>3, <2>1, <2>2, <2>3
  <2>5. ASSUME NEW i \in DOMAIN quotes', NEW j \in DOMAIN quotes', i < j
        PROVE  quotes'[i].at < quotes'[j].at
    <3>1. i \in 1 .. n
      BY <2>1, <2>2, <2>5
    <3>2. CASE j \in 1 .. n
      BY <1>1, <2>1, <2>5, <3>1, <3>2
    <3>3. CASE j = n + 1
      BY <1>1, <2>1, <2>3, <3>1, <3>3
    <3> QED
      BY <2>1, <2>2, <3>2, <3>3
  <2> QED
    BY <1>2, <1>3, <2>4, <2>5 DEF QuotesInv
<1> QED
  BY <1>2, <1>3, <1>4, <1>5, <1>6, RecordAfterTarget, QuietStep

LEMMA ResetKeeps == ASSUME TailInv, ResetQuotes PROVE TailInv'
<1>1. /\ quotes' = <<>> /\ paired' = FALSE
      /\ UNCHANGED <<proxyVars, decision, decided, frozen>>
  BY DEF ResetQuotes
<1>2. ProxyInv' /\ UNCHANGED <<now, lost>>
  BY <1>1, ProxyKeeps DEF TailInv, proxyVars
<1>3. QuotesInv' /\ quotes' \in Seq(Quote)
  <2>1. DOMAIN quotes' = {}
    BY <1>1
  <2> QED
    BY <1>1, <2>1 DEF QuotesInv
<1>4. Evaluate' = Hold
  BY <1>1 DEF Evaluate
<1> QED
  BY <1>1, <1>2, <1>3, <1>4, QuietStep

LEMMA ProxyStepKeeps == ASSUME TailInv, ProxyStep PROVE TailInv'
<1>1. /\ OnOpen \/ Break \/ OnClose \/ ProxyMessage
      /\ MayCover \/ quotes = <<>>
      /\ decision = Pending
      /\ UNCHANGED <<quotes, paired, decision, decided, frozen>>
  BY DEF ProxyStep, tailVars
<1>2. UNCHANGED now /\ now \in Nat
  <2>1. now \in Nat
    BY DEF TailInv, ProxyInv, BinanceProxyTypeOK
  <2>2. ProxyMessage => UNCHANGED now
    BY DEF ProxyMessage, OnKline, OnTrade
  <2> QED
    BY <1>1, <2>1, <2>2 DEF OnOpen, Break, OnClose
<1>3. ProxyInv'
  BY <1>1, ProxyKeeps DEF TailInv, BinanceProxyNext
<1>4. QuotesInv' /\ quotes' \in Seq(Quote) /\ paired' \in BOOLEAN
  BY <1>1, <1>2 DEF TailInv, TailRoundTypeOK, QuotesInv
<1>5. now > Target /\ MayCover => Round \notin invalid
  <2>1. now > Target => ~(now <= Round)
    BY <1>2, TailRoundAssumption
  <2> QED
    BY <2>1 DEF MayCover, CanCover
<1>6. now > Target /\ MayCover => Evaluate' \in {Hold, Evaluate}
  BY <1>1, <1>5, MessageAfterTarget, ConnectionAfterTarget
<1>7. quotes = <<>> => Evaluate' = Hold
  <2>1. quotes = <<>> => TargetQuotes' = {}
    BY <1>1 DEF TargetQuotes, ToSet
  <2> QED
    BY <2>1 DEF Evaluate
<1>8. now > Target => Evaluate' \in {Hold, Evaluate}
  BY <1>1, <1>6, <1>7
<1> QED
  BY <1>1, <1>2, <1>3, <1>4, <1>8, QuietStep

\* An entry rests on a trade that came before the first loss.
LEMMA EntryIsUnbroken ==
  ASSUME TailInv, now <= Cutoff, Evaluate # Hold, lost[Round] # Never
  PROVE  lost[Round] >= Target - TradeAge
<1>1. /\ {Round, Target, Cutoff, TradeAge} \subseteq Nat /\ Round \in Keys
      /\ Target < Round + Window /\ Cutoff <= Round + Keep
  BY TailRoundAssumption
<1>2. ProxyInv /\ BinanceProxyTypeOK /\ now \in Nat
  BY DEF TailInv, ProxyInv, BinanceProxyTypeOK
<1>3. Keep \in Nat /\ Window \in Nat
  BY BinanceProxyAssumption
<1>4. Covered(Round) /\ TapeQualifies(Tape)
  BY DEF Evaluate, EvaluateTailDecision
<1>5. PICK i \in DOMAIN Tape : Target - Tape[i].trade <= TradeAge
  BY <1>4 DEF TapeQualifies
<1> DEFINE trade == candles[Round].trades[i]
<1>6. /\ i \in DOMAIN candles[Round].trades /\ Tape[i] = trade
      /\ trade.received <= Target
  BY DEF Tape
<1>7. candles[Round].trades \in Seq(Trade) /\ Round \in DOMAIN candles
  BY <1>2, <1>4 DEF Covered, BinanceProxyTypeOK, Candle
<1>8. trade \in Trade
  BY <1>6, <1>7
<1>9. trade.trade \in Nat /\ trade.received \in Nat
  BY <1>8 DEF Trade
<1>10. trade.trade <= trade.received
  BY <1>2, <1>6, <1>7 DEF ProxyInv, TradesInv
<1>11. Lossy(Round)
  BY <1>1, <1>2, <1>3 DEF Lossy
<1>12. trade.received <= lost[Round] \/ trade.received >= Round + Window
  BY <1>1, <1>2, <1>4, <1>6, <1>11 DEF ProxyInv, CoverageSound, HoleAtEnd
<1>13. lost[Round] \in Nat
  BY <1>1, <1>2 DEF BinanceProxyTypeOK
<1>14. Target - trade.trade <= TradeAge
  BY <1>5, <1>6
<1> HIDE DEF trade
<1>15. ~(trade.received >= Round + Window)
  BY <1>1, <1>3, <1>6, <1>9
<1> QED
  BY <1>1, <1>9, <1>10, <1>12, <1>13, <1>14, <1>15

LEMMA DecideKeeps == ASSUME TailInv, Decide PROVE TailInv'
<1>1. /\ now >= Target /\ decided' = now
      /\ decision' = IF now > Cutoff THEN Hold ELSE Evaluate
      /\ UNCHANGED <<proxyVars, quotes, paired, frozen>>
  BY DEF Decide
<1>2. ProxyInv' /\ UNCHANGED <<now, candles, invalid, lost>>
  BY <1>1, ProxyKeeps DEF TailInv, proxyVars
<1>3. now \in 0 .. LastTime
  BY DEF TailInv, ProxyInv, BinanceProxyTypeOK
<1>4. Evaluate' = Evaluate
  BY <1>1, <1>2, SameAll
<1>5. TailRoundTypeOK'
  BY <1>1, <1>3, SidesAreDecisions DEF TailInv, TailRoundTypeOK, Decisions
<1>6. QuotesInv'
  BY <1>1, <1>2 DEF TailInv, QuotesInv
<1>7. LateEntryWasDue'
  <2> SUFFICES ASSUME decision' \in {"YES", "NO"}, now > Target
               PROVE  decision' = frozen
    BY <1>1 DEF LateEntryWasDue
  <2>1. decision' = Evaluate /\ decision' # Hold
    BY <1>1 DEF Hold
  <2> QED
    BY <2>1 DEF TailInv
<1>8. /\ (now > Target => Evaluate \in {Hold, frozen})' /\ (decided <= now)'
      /\ (decision # Pending => now >= Target)'
  BY <1>1, <1>2, <1>3, <1>4 DEF TailInv
<1>9. EntryTapeUnbroken'
  <2> SUFFICES ASSUME decision' \in {"YES", "NO"}, lost[Round] # Never
               PROVE  lost[Round] >= Target - TradeAge
    BY <1>2 DEF EntryTapeUnbroken
  <2>1. now <= Cutoff /\ Evaluate # Hold
    BY <1>1, <1>3, TailRoundAssumption DEF Hold
  <2> QED
    BY <2>1, EntryIsUnbroken
<1> QED
  BY <1>2, <1>5, <1>6, <1>7, <1>8, <1>9 DEF TailInv

LEMMA TimeKeeps == ASSUME TailInv, TimePasses PROVE TailInv'
<1>1. /\ ClockTick /\ frozen' = IF now = Target THEN Evaluate ELSE frozen
      /\ UNCHANGED <<quotes, paired, decision, decided>>
  BY DEF TimePasses
<1>2. now' = now + 1 /\ UNCHANGED <<candles, invalid>> /\ now \in Nat
      /\ Target \in Nat /\ decided \in Nat /\ decided <= now
  BY <1>1, TailRoundAssumption
     DEF ClockTick, TailInv, TailRoundTypeOK, ProxyInv, BinanceProxyTypeOK
<1>3. ProxyInv'
  BY <1>1, ProxyKeeps DEF TailInv, BinanceProxyNext
<1>4. Evaluate' = Evaluate
  BY <1>1, <1>2, SameAll
<1>5. TailRoundTypeOK'
  BY <1>1, SidesAreDecisions DEF TailInv, TailRoundTypeOK
<1>6. QuotesInv'
  <2>1. \A i \in DOMAIN quotes : quotes[i] \in Quote
    BY DEF TailInv, TailRoundTypeOK
  <2>2. \A i \in DOMAIN quotes : quotes[i].at \in Nat
    BY <2>1 DEF Quote
  <2>3. \A i \in DOMAIN quotes : quotes[i].at <= now
    BY DEF TailInv, QuotesInv
  <2>4. \A i \in DOMAIN quotes : quotes[i].at <= now + 1
    BY <1>2, <2>2, <2>3
  <2> QED
    BY <1>1, <1>2, <2>4 DEF TailInv, QuotesInv
<1>9. /\ EntryTapeUnbroken' /\ (decision # Pending => now >= Target)'
  <2>1. Round \in Keys /\ TradeAge \in Nat
    BY TailRoundAssumption
  <2>2. lost'[Round] = lost[Round] \/ lost'[Round] = now
    BY <1>1, <2>1 DEF ClockTick, Lose
  <2>3. decision # Pending => now >= Target
    BY DEF TailInv
  <2>4. decision # Pending => now + 1 >= Target /\ now >= Target - TradeAge
    BY <1>2, <2>1, <2>3
  <2>5. EntryTapeUnbroken'
    BY <1>1, <2>2, <2>4 DEF TailInv, EntryTapeUnbroken, Pending
  <2> QED
    BY <1>1, <1>2, <2>4, <2>5
<1>7. CASE now = Target
  <2>1. ~(decided > Target) /\ frozen' = Evaluate
    BY <1>1, <1>2, <1>7
  <2>2. LateEntryWasDue'
    BY <1>1, <2>1 DEF LateEntryWasDue
  <2>3. (now > Target => Evaluate \in {Hold, frozen})' /\ (decided <= now)'
    BY <1>1, <1>2, <1>4, <2>1
  <2> QED
    BY <1>3, <1>5, <1>6, <1>9, <2>2, <2>3 DEF TailInv
<1>8. CASE now # Target
  <2>1. now + 1 > Target => now > Target
    BY <1>2, <1>8
  <2>2. UNCHANGED frozen
    BY <1>1, <1>8
  <2>3. (now > Target => Evaluate \in {Hold, frozen})' /\ (decided <= now)'
    BY <1>1, <1>2, <1>4, <2>1, <2>2 DEF TailInv
  <2>4. LateEntryWasDue'
    BY <1>1, <2>2 DEF TailInv, LateEntryWasDue
  <2> QED
    BY <1>3, <1>5, <1>6, <1>9, <2>3, <2>4 DEF TailInv
<1> QED
  BY <1>7, <1>8

LEMMA TailStep ==
  TailInv /\ [TailRoundNext]_<<proxyVars, tailVars>> => TailInv'
<1> SUFFICES ASSUME TailInv, [TailRoundNext]_<<proxyVars, tailVars>>
             PROVE  TailInv'
  OBVIOUS
<1>1. CASE UNCHANGED <<proxyVars, tailVars>>
  <2>1. UNCHANGED <<now, candles, invalid, lost, quotes, paired, decision,
                    decided, frozen>>
    BY <1>1 DEF proxyVars, tailVars
  <2>2. ProxyInv'
    BY <1>1, ProxyKeeps DEF TailInv
  <2>3. Evaluate' = Evaluate
    BY <2>1, SameAll
  <2>4. QuotesInv' /\ quotes' \in Seq(Quote) /\ paired' \in BOOLEAN
    BY <2>1 DEF TailInv, TailRoundTypeOK, QuotesInv
  <2> QED
    BY <2>1, <2>2, <2>3, <2>4, QuietStep
<1> QED
  BY <1>1, RecordKeeps, ResetKeeps, DecideKeeps, ProxyStepKeeps, TimeKeeps
  DEF TailRoundNext

\* The inductive invariant of the decision and the tape it reads.
THEOREM TailInvariant == TailRoundSpec => []TailInv
BY TailStart, TailStep, PTL DEF TailRoundSpec

\* An entry decided by a late scheduler (runner.py: _run_twap_tail_round, up to
\* max_decision_lateness after the target) is the entry the rules gave at the
\* target, for the same side, whatever trades, klines, quotes, reconnects and
\* cleanups come in between.
THEOREM LateEntriesWereDue == TailRoundSpec => []LateEntryWasDue
<1>1. TailInv => LateEntryWasDue
  BY DEF TailInv
<1> QED
  BY <1>1, TailInvariant, PTL

\* An entry never rests on a tape that had broken off more than TradeAge before
\* the target (binance_max_trade_age_s in twap_tail.py), although a connection
\* that is dead and not yet closed leaves the tape marked complete
\* (binance_proxy.py: _on_close).
THEOREM EntryTapesAreUnbroken == TailRoundSpec => []EntryTapeUnbroken
<1>1. TailInv => EntryTapeUnbroken
  BY DEF TailInv
<1> QED
  BY <1>1, TailInvariant, PTL
=============================================================================
