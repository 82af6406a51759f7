--------------------------- MODULE MCPeripherals ---------------------------
(***************************************************************************)
(* The bus with an EEPROM of eight bytes: four pages of two, of which two  *)
(* are programmed together, and addresses of two bytes of base four.       *)
(***************************************************************************)
EXTENDS Peripherals

Write(page, data) == [op |-> "write", page |-> page, data |-> data, length |-> Len(data)]
Read(page, length) == [op |-> "read", page |-> page, data |-> <<>>, length |-> length]

\* Two pages that are neighbours in the device (the last one, which is the control
\* block's, and the one before), one past its end, one byte too many, and none at all.
MCE2Calls == {Write(2, <<1, 2>>), Write(3, <<2>>), Write(4, <<1>>), Write(2, <<1, 2, 1>>),
              Write(2, <<>>), Read(2, 2), Read(3, 1), Read(2, 0)}

\* A date of two digits everywhere, in a year that is no leap year and in one that is,
\* and two that are refused: a minute that does not exist, and a leap day.
NewYearsEve == [second |-> 45, minute |-> 59, hour |-> 23, date |-> 31, month |-> 12, year |-> 10]
MCDates == {NewYearsEve, [NewYearsEve EXCEPT !.year = 12], [NewYearsEve EXCEPT !.minute = 60],
            [NewYearsEve EXCEPT !.date = 29, !.month = 2, !.year = 12]}
=============================================================================
