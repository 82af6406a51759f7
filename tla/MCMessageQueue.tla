--------------------------- MODULE MCMessageQueue ---------------------------
(***************************************************************************)
(* A model of MessageQueue for TLC, with the program's own MSG_MAX_MSG_IDS *)
(* and Loop argument: id 1 has two handlers, id 2 (posted by an ISR) one,  *)
(* every other id none, and 26 is the first id that Post refuses.          *)
(***************************************************************************)
EXTENDS MessageQueue

MCTaskIds == {1, 26}
MCIsrIds == {2}
MCHandlers == [id \in MsgIds |-> IF id = 1 THEN 2 ELSE IF id = 2 THEN 1 ELSE 0]
=============================================================================
