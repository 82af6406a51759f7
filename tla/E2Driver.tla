------------------------------ MODULE E2Driver ------------------------------
(***************************************************************************)
(* The EEPROM driver (E2Driver.cpp): pages are written in one transfer,    *)
(* and read in two, one that sets the EEPROM's pointer and one that reads. *)
(* An action begins a transfer or takes its result.                        *)
(***************************************************************************)
EXTENDS IIC

CONSTANTS
  E2_MEMORY_SIZE,   \* 65535
  E2_PAGE_SIZE,     \* 64
  E2_IIC_ADDRESS,
  ByteSize          \* 256; a uint16_t holds ByteSize * ByteSize values

ASSUME E2Assumption == /\ E2_PAGE_SIZE \in Nat \ {0} /\ ByteSize \in Nat \ {0}
                       /\ E2_MEMORY_SIZE \in 0..(ByteSize * ByteSize - 1)

VARIABLES
  e2,           \* the call in progress; op is "none", "write", "point" or "read"
  e2_result     \* what the last call returned, and the data it read

e2_driver == <<e2, e2_result>>

NoCall == [op |-> "none", page |-> 0, data |-> <<>>, length |-> 0]
NoResult == [rc |-> 0, data |-> <<>>]
Failure(r) == [rc |-> r, data |-> <<>>]

E2Init == e2 = NoCall /\ e2_result = NoResult

E2_LAST_ADDRESS == E2_MEMORY_SIZE \div E2_PAGE_SIZE

\* Mutant: a page may be empty.
AcceptableEmpty(page, length) == page <= E2_LAST_ADDRESS /\ length <= E2_PAGE_SIZE

Acceptable(page, length) == /\ length # 0
                            /\ page <= E2_LAST_ADDRESS
                            /\ length <= E2_PAGE_SIZE

\* Mutant: the bytes of the address change places.
page_address_swapped(page) ==
  LET address == (page * E2_PAGE_SIZE) % (ByteSize * ByteSize)
  IN  <<address % ByteSize, address \div ByteSize>>

page_address(page) ==
  LET address == (page * E2_PAGE_SIZE) % (ByteSize * ByteSize)
  IN  <<address \div ByteSize, address % ByteSize>>

E2Refuse(page, length) == /\ ~Acceptable(page, length)
                          /\ e2_result' = Failure(-1)
                          /\ UNCHANGED <<iic, e2>>

memory_write(page, data) ==
  /\ Acceptable(page, Len(data))
  /\ e2' = [op |-> "write", page |-> page, data |-> data, length |-> Len(data)]
  /\ e2_result' = NoResult
  /\ IICWrite(E2_IIC_ADDRESS, page_address(page) \o data)

memory_read(page, length) ==
  /\ Acceptable(page, length)
  /\ e2' = [op |-> "point", page |-> page, data |-> <<>>, length |-> length]
  /\ e2_result' = NoResult
  /\ IICWrite(E2_IIC_ADDRESS, page_address(page))

\* memory_read goes on to its second transfer.
E2ReadOn == /\ e2.op = "read"
            /\ IICRead(E2_IIC_ADDRESS, e2.length)
            /\ UNCHANGED e2_driver

\* A transfer has returned r, and read data.
E2Returns(r, data) ==
  \/ /\ e2.op = "point" /\ r = 0
     /\ e2' = [e2 EXCEPT !.op = "read"]
     /\ UNCHANGED e2_result
  \/ /\ e2.op \in {"point", "read"} /\ r # 0
     /\ e2' = NoCall
     /\ e2_result' = Failure(-1)
  \/ /\ e2.op = "read" /\ r = 0
     /\ e2' = NoCall
     /\ e2_result' = [rc |-> 0, data |-> data]
  \/ /\ e2.op = "write"
     /\ e2' = NoCall
     /\ e2_result' = Failure(r)
=============================================================================
