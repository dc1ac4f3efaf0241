------------------------------ MODULE MCAlerts ------------------------------
(* Alerts on a small instance: the loop and one more thread report the edges *)
(* of a component with a slug, whose rows have another name after a failed   *)
(* transaction, and the supervisor and the loop mark an asset. MCOneReporter *)
(* leaves the loop only the supervisor's diagnostics.                        *)
EXTENDS Alerts

CONSTANTS worker, stream, streamRound, asset

MCThreads == {Loop, worker}
MCDuty == [t \in MCThreads |->
             IF t = Loop THEN {stream, NoComponent} ELSE {stream}]
MCOneReporter == [t \in MCThreads |->
                    IF t = Loop THEN {} ELSE Components]
MCNames == [c \in Components |-> IF c = stream THEN {streamRound} ELSE {c}]
=============================================================================
