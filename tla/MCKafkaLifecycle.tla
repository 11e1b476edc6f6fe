-------------------------- MODULE MCKafkaLifecycle --------------------------
(* One goroutine calls Start up to three times, two others call Close.     *)
EXTENDS KafkaLifecycle

CONSTANTS r1, r2, r3, c1, c2
MCRun == {r1, r2, r3}
MCAfter == [r \in MCRun |-> IF r = r3 THEN r2 ELSE IF r = r2 THEN r1 ELSE Nobody]
MCCloser == {c1, c2}
=============================================================================
