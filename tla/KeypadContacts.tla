--------------------------- MODULE KeypadContacts ---------------------------
(***************************************************************************)
(* The keypad with an operator at it, who presses one key at a time.  A    *)
(* contact that closes or opens bounces, for less than the 20 ms of the    *)
(* debounce timer.                                                         *)
(***************************************************************************)
EXTENDS Keypad

CONSTANTS Keys,       \* the keys the operator uses
          Unhurried   \* whether each press and each pause outlasts the bounce,
                      \* the debounce and a poll after each

NoKey == -1

ASSUME KeysAssumption == Keys \subseteq 0..11

VARIABLES press,      \* the key that was pressed last
          down,       \* whether the finger is still on it
          bouncing,   \* whether its contact bounces
          outlasted,  \* whether the debounce timer was set during this bounce
          polled,     \* whether the port was read since the contact settled
          reported    \* auxiliary: the keys posted since the press

contacts == <<press, down, bouncing, outlasted, polled, reported>>
vars == <<keypad, queue, contacts>>

ContactsInit == /\ Init
                /\ queue = <<>>
                /\ press = NoKey /\ down = FALSE
                /\ bouncing = FALSE /\ outlasted = FALSE
                /\ polled = TRUE
                /\ reported = <<>>

-----------------------------------------------------------------------------
(* The operator and the contact.                                           *)

Patience == Unhurried => /\ ~bouncing /\ polled
                         /\ key_state # "KEY_PRESS_DETECTED"
                         /\ queue = <<>>

Press(key) == /\ ~down /\ Patience
              /\ press' = key /\ down' = TRUE
              /\ bouncing' = TRUE /\ outlasted' = FALSE /\ polled' = FALSE
              /\ reported' = <<>>
              /\ UNCHANGED <<keypad, queue>>

Release == /\ down /\ Patience
           /\ down' = FALSE
           /\ bouncing' = TRUE /\ outlasted' = FALSE /\ polled' = FALSE
           /\ UNCHANGED <<keypad, queue, press, reported>>

Settle == /\ bouncing
          /\ bouncing' = FALSE /\ outlasted' = FALSE /\ polled' = FALSE
          /\ UNCHANGED <<keypad, queue, press, down, reported>>

\* A bounce during which the timer was set is over before it expires.
TimerExpires == /\ ~outlasted
                /\ KeyTimerExpires
                /\ UNCHANGED contacts

-----------------------------------------------------------------------------
(* The superloop: TaskLoop reads the port, what it posts is dispatched     *)
(* before the next task is called.                                         *)

\* The keys that may read as closed.
Closed == IF bouncing THEN {{}, {press}} ELSE IF down THEN {{press}} ELSE {{}}

RowsOf(keys) == {r \in 1..4 : KEY_MAP[r][column] \in keys}

Poll == /\ queue = <<>>
        /\ \E keys \in Closed : TaskLoop(Reading(RowsOf(keys), column))
        /\ polled' = TRUE
        /\ outlasted' = IF key_state = "KEY_IDLE" /\ key_state' = "KEY_PRESS_DETECTED"
                          THEN bouncing ELSE outlasted
        /\ UNCHANGED <<press, down, bouncing, reported>>

Dispatch == /\ queue # <<>>
            /\ queue' = Tail(queue)
            /\ reported' = IF Head(queue).id = MSG_ID_KEY_PRESSED
                             THEN Append(reported, Head(queue).context)
                             ELSE reported
            /\ UNCHANGED <<keypad, press, down, bouncing, outlasted, polled>>

ContactsNext == \/ \E key \in Keys : Press(key)
                \/ Release \/ Settle
                \/ TimerExpires
                \/ Poll \/ Dispatch

\* The superloop goes round, contacts settle, time passes. The operator is
\* under no obligation.
Fairness == /\ WF_vars(Poll) /\ WF_vars(Dispatch)
            /\ WF_vars(Settle) /\ WF_vars(TimerExpires)

Spec == ContactsInit /\ [][ContactsNext]_vars /\ Fairness

-----------------------------------------------------------------------------
(* Properties.                                                             *)

\* However its contact bounces when it closes and when it opens, a press is
\* posted at most once, as the key it is.
PostedOnce == reported \in {<<>>, <<press>>}

\* A key that is held down is posted in the end: the scan comes to its column
\* and the debounce comes to an end.
HeldKeyPosted == (down /\ reported = <<>>) ~> (~down \/ reported = <<press>>)

\* README.md: a key is accepted as pressed when the debounce is complete. A key
\* is posted only when it was read as pressed before the timer was set and the
\* timer has expired since.
PostedDebounced ==
  [][\A i \in (Len(queue) + 1)..Len(queue') :
       queue'[i].id = MSG_ID_KEY_PRESSED =>
         /\ key_timer
         /\ \E r \in last_pressed.rows, c \in {last_pressed.column} :
              KEY_MAP[r][c] = queue'[i].context]_vars
=============================================================================
