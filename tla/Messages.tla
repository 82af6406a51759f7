------------------------------ MODULE Messages ------------------------------
(***************************************************************************)
(* The message ids of the application (msgids.h) and the messages its      *)
(* components post.  The queue is the abstract one that MessageQueue       *)
(* implements: a sequence that Post appends to.                            *)
(***************************************************************************)
EXTENDS Integers, Sequences

MSG_ID_UPDATE_7SEG       == 1
MSG_ID_KEY_PRESSED       == 2
MSG_ID_INIT_COMPLETE     == 4
MSG_ID_NEW_ACTUAL_RPS    == 5
MSG_ID_NEW_RPS_ENTERED   == 7
MSG_ID_DATALOG_LOGEVENT  == 8
MSG_ID_DATALOG_DUMPLOG   == 10

\* What Control's log_message says: two speeds.
NoText == [demand |-> 0, actual |-> 0]

\* The context of a message is an integer cast to a pointer, or NULL.
Message(id, context) == [id |-> id, context |-> context, text |-> NoText]

\* The context of a LOGEVENT points to log_message; text is what log_message
\* said when the message was posted, which no code reads.
LogEvent(text) == [id |-> MSG_ID_DATALOG_LOGEVENT, context |-> 0, text |-> text]
=============================================================================
