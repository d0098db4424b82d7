---------------------------- MODULE MCEventConsumer ----------------------------
(* TLC instance of EventConsumer: two replicas, a healthy, a poison and a      *)
(* corrupt event.                                                               *)
EXTENDS EventConsumer

CONSTANTS r1, r2, good, bad, junk

MCReplicas == {r1, r2}
MCPoison   == {bad}
MCCorrupt  == {junk}
AllMsgs    == {good, bad, junk}
=============================================================================
