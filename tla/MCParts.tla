------------------------------ MODULE MCParts -------------------------------
(* The components that run beside the lifecycle of an entry, on small        *)
(* instances. They have no state in common, so a behaviour runs one of them, *)
(* chosen at the start, while the others stay where they begin: every        *)
(* interleaving inside a component is explored, and not the product of       *)
(* independent ones. The spot tape runs with the round that reads it.        *)
EXTENDS Heartbeat, ReadProbe, Resolver, Upkeep, MarketStream, TailRound,
        RoundBudget

CONSTANTS btc, eth

VARIABLE part

Parts == {"heartbeat", "probe", "resolver", "upkeep", "stream", "tail",
          "budget"}

MCBids == {<<90, 5>>, <<5, 90>>}
MCFee == [a \in Assets |-> IF a = btc THEN 1 ELSE 0]

tapeVars == <<proxyVars, tailVars>>
vars == <<beatVars, probeVars, resolverVars, upkeepVars, streamVars, tapeVars,
          budgetVars, part>>

Init ==
  /\ HeartbeatInit /\ ReadProbeInit /\ ResolverInit /\ UpkeepInit
  /\ MarketStreamInit /\ TailRoundInit /\ RoundBudgetInit
  /\ part \in Parts

Next ==
  /\ UNCHANGED part
  /\ IF part = "heartbeat" THEN HeartbeatNext ELSE UNCHANGED beatVars
  /\ IF part = "probe" THEN ReadProbeNext ELSE UNCHANGED probeVars
  /\ IF part = "resolver" THEN ResolverNext ELSE UNCHANGED resolverVars
  /\ IF part = "upkeep" THEN UpkeepNext ELSE UNCHANGED upkeepVars
  /\ IF part = "stream" THEN MarketStreamNext ELSE UNCHANGED streamVars
  /\ IF part = "tail" THEN TailRoundNext ELSE UNCHANGED tapeVars
  /\ IF part = "budget" THEN RoundBudgetNext ELSE UNCHANGED budgetVars

Spec == Init /\ [][Next]_vars

PartsTypeOK ==
  /\ HeartbeatTypeOK /\ ReadProbeTypeOK /\ ResolverTypeOK /\ UpkeepTypeOK
  /\ MarketStreamTypeOK /\ BinanceProxyTypeOK /\ TailRoundTypeOK
  /\ RoundBudgetTypeOK
  /\ part \in Parts
=============================================================================
