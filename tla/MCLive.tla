------------------------------- MODULE MCLive -------------------------------
(* What must happen in the end, on small instances of the two components     *)
(* that retry against the outside: the alerts with Telegram and the          *)
(* heartbeat with the venue. They have no state in common, so a behaviour    *)
(* runs one of them, chosen at the start.                                    *)
EXTENDS MCAlerts, Heartbeat

VARIABLE part

allVars == <<vars, beatVars, part>>

Alerting(A) == part = "alerts" /\ A /\ UNCHANGED <<beatVars, part>>
Beating(A) == part = "heartbeat" /\ A /\ UNCHANGED <<vars, part>>

LiveInit == Init /\ HeartbeatInit /\ part \in {"alerts", "heartbeat"}
LiveNext == Alerting(Next) \/ Beating(HeartbeatNext)

\* The fairness of Alerts, and for the heartbeat: its loop is scheduled and the
\* venue answers in the end.
LiveSpec ==
  /\ LiveInit /\ [][LiveNext]_allVars
  /\ \A t \in Threads : WF_allVars(Alerting(Working(t)))
  /\ WF_allVars(Alerting(Sending)) /\ WF_allVars(Alerting(Waiting))
  /\ WF_allVars(Alerting(MarkAssets)) /\ WF_allVars(Alerting(FinishDiagnostics))
  /\ WF_allVars(Alerting(EmergencyRestart)) /\ WF_allVars(Alerting(Exit))
  /\ WF_allVars(Beating(Post \/ Wait))
  /\ WF_allVars(Beating(Success \/ BootstrapFailure \/ Failure))
  /\ WF_allVars(Beating(VenueAnswers))
=============================================================================
