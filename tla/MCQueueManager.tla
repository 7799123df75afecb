--------------------------- MODULE MCQueueManager ---------------------------
(* The queue under model checking: three events, so that two can fill the *)
(* queue while the third is in hand, and two start/stop cycles, so that   *)
(* what one shutdown leaves behind meets the next.                        *)
EXTENDS QueueManager
=============================================================================
