----------------------------- MODULE MCLogTask -----------------------------
(***************************************************************************)
(* LogTask on a small ring.  With four pages (three entries and the free   *)
(* page), which come round after four entries, and bytes of two values a   *)
(* bound changes its high byte at every other step and on coming round.    *)
(***************************************************************************)
EXTENDS LogTask

\* An EEPROM whose control page was never written.
Blank == [magic |-> FALSE, number_of_entries |-> LAST + 1,
          oldest_entry |-> LAST + 1, next_free_entry |-> LAST + 1]

EmptyLog == {Empty}
AnyLog == {Empty, Blank}
AllRequests == {"log", "dump", "delete"}
=============================================================================
