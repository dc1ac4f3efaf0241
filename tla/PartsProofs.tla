----------------------------- MODULE PartsProofs -----------------------------
(* Running the parts side by side loses and adds nothing: every behaviour of *)
(* MCParts is a behaviour of each component's own specification, so what is  *)
(* proved of the components alone holds of the parts together. The spot tape *)
(* is there twice: by itself, and as what the decision of a round reads.     *)
EXTENDS MCParts, GuardProofs, FeedProofs, BudgetProofs

-----------------------------------------------------------------------------
(* Steps of the parts, seen from each component                              *)

LEMMA TailMovesTape == TailRoundNext => BinanceProxyNext \/ UNCHANGED proxyVars
BY DEF TailRoundNext, RecordQuote, ResetQuotes, Decide, ProxyStep, TimePasses,
       BinanceProxyNext

LEMMA GuardSteps ==
  ASSUME [Next]_vars
  PROVE  /\ [HeartbeatNext]_beatVars
         /\ [ReadProbeNext]_probeVars
         /\ [ResolverNext]_resolverVars
         /\ [UpkeepNext]_upkeepVars
         /\ [MarketStreamNext]_streamVars
         /\ [RoundBudgetNext]_budgetVars
         /\ part' = part
BY Zenon DEF Next, vars

LEMMA TapeSteps ==
  ASSUME [Next]_vars
  PROVE  /\ [TailRoundNext]_<<proxyVars, tailVars>>
         /\ [BinanceProxyNext]_proxyVars
<1>1. CASE UNCHANGED vars
  BY <1>1 DEF vars, tapeVars
<1>2. CASE Next /\ part = "tail"
  <2>1. TailRoundNext
    BY <1>2 DEF Next
  <2> QED
    BY <2>1, TailMovesTape
<1>3. CASE Next /\ part # "tail"
  <2>1. UNCHANGED tapeVars
    BY <1>3 DEF Next
  <2> QED
    BY <2>1 DEF tapeVars
<1> QED
  BY <1>1, <1>2, <1>3

\* Every behaviour of the parts is one of each component that runs beside the
\* lifecycle: heartbeat, probes, resolver, sweeps, stream, tape, decision and
\* budget.
THEOREM PartsAreComponents ==
  Spec => /\ HeartbeatSpec /\ ReadProbeSpec /\ ResolverSpec /\ UpkeepSpec
          /\ MarketStreamSpec /\ BinanceProxySpec /\ TailRoundSpec
          /\ RoundBudgetSpec
<1>1. Init => /\ HeartbeatInit /\ ReadProbeInit /\ ResolverInit /\ UpkeepInit
              /\ MarketStreamInit /\ BinanceProxyInit /\ TailRoundInit
              /\ RoundBudgetInit
  BY DEF Init, TailRoundInit
<1>2. [Next]_vars => /\ [HeartbeatNext]_beatVars
                     /\ [ReadProbeNext]_probeVars
                     /\ [ResolverNext]_resolverVars
                     /\ [UpkeepNext]_upkeepVars
                     /\ [MarketStreamNext]_streamVars
                     /\ [BinanceProxyNext]_proxyVars
                     /\ [TailRoundNext]_<<proxyVars, tailVars>>
                     /\ [RoundBudgetNext]_budgetVars
  BY GuardSteps, TapeSteps
<1> QED
  BY <1>1, <1>2, PTL
     DEF Spec, HeartbeatSpec, ReadProbeSpec, ResolverSpec, UpkeepSpec,
         MarketStreamSpec, BinanceProxySpec, TailRoundSpec, RoundBudgetSpec

\* A part never gives way to another.
LEMMA PartStays ==
  /\ Init => part \in Parts
  /\ part \in Parts /\ [Next]_vars => (part \in Parts)'
BY GuardSteps DEF Init, Parts

-----------------------------------------------------------------------------
(* The theorems                                                              *)

\* The variables of every component keep their types, whichever of them runs.
THEOREM PartsTyped == Spec => []PartsTypeOK
<1>1. /\ BeatInv => HeartbeatTypeOK
      /\ ProbeInv => ReadProbeTypeOK
      /\ ContextInv => ResolverTypeOK
      /\ UpkeepInv => UpkeepTypeOK
      /\ StreamInv => MarketStreamTypeOK
      /\ ProxyInv => BinanceProxyTypeOK
      /\ TailInv => TailRoundTypeOK
      /\ BudgetInv => RoundBudgetTypeOK
  BY DEF BeatInv, ProbeInv, ContextInv, UpkeepInv, StreamInv, ProxyInv, TailInv,
         BudgetInv
<1>2. /\ HeartbeatTypeOK /\ ReadProbeTypeOK /\ ResolverTypeOK /\ UpkeepTypeOK
      /\ MarketStreamTypeOK /\ BinanceProxyTypeOK /\ TailRoundTypeOK
      /\ RoundBudgetTypeOK /\ part \in Parts
      => PartsTypeOK
  BY DEF PartsTypeOK
<1>3. Spec => [](part \in Parts)
  BY PartStays, PTL DEF Spec
<1> QED
  BY <1>1, <1>2, <1>3, PartsAreComponents, BeatInvariant, ProbeInvariant,
     ContextInvariant, UpkeepInvariant, StreamInvariant, ProxyInvariant,
     TailInvariant, BudgetInvariant, PTL

\* What is proved of the components holds while they run side by side.
THEOREM PartsAreSafe ==
  Spec => [](/\ OneHeartbeatInFlight /\ FatalOncePerOutage
             /\ StallFlagNotStuck /\ ResolverScoped
             /\ OneSweep /\ OneAlertPerStall
             /\ QuotesFromOneConnection /\ CoverageSound
             /\ LateEntryWasDue /\ EntryTapeUnbroken
             /\ RiskWithinBudget /\ NoBudgetLeak)
BY PartsAreComponents, NoOverlappingHeartbeats, OneFatalPerOutage, FlagClears,
   ResolverIsScoped, SweepsDoNotOverlap, StallReportedOnce,
   QuotesAreOfOneConnection, CoverageIsSound, LateEntriesWereDue,
   EntryTapesAreUnbroken, RiskStaysInBudget, NoClaimLeaks, PTL
=============================================================================
