----------------------------- MODULE PageStore -----------------------------
(***************************************************************************)
(* What the EEPROM driver promises: pages that are written and read.  A    *)
(* write goes on byte by byte from the start of its page, and returns      *)
(* success only if all of it was accepted; a read that succeeds returns    *)
(* what is in the page; nothing else changes a page, unless power is lost  *)
(* before the page that was written last has settled: that one, and its    *)
(* neighbour in the device, may hold anything then.                        *)
(***************************************************************************)
EXTENDS Integers, Sequences

CONSTANTS
  PageCount, PageSize, Bytes,
  PagesPerBlock     \* how many pages the device programs together

Pages == 0..(PageCount - 1)
Contents == [1..PageSize -> Bytes]
NoPage == -1

VARIABLES
  pages,
  call,         \* the call in progress
  accepted,     \* how many bytes of a write were accepted
  unsettled,    \* the page that is being written, or NoPage
  result        \* of the last call: whether it succeeded, and what it read

vars == <<pages, call, accepted, unsettled, result>>

NoCall == [op |-> "none", page |-> 0, data |-> <<>>, length |-> 0]
Failed == [ok |-> FALSE, data |-> <<>>]
Done(data) == [ok |-> TRUE, data |-> data]

Init == /\ pages \in [Pages -> Contents]
        /\ call = NoCall /\ accepted = 0
        /\ unsettled = NoPage
        /\ result = Done(<<>>)

Fits(page, length) == page \in Pages /\ length \in 1..PageSize

Refuse == /\ call = NoCall
          /\ result' = Failed
          /\ UNCHANGED <<pages, call, accepted, unsettled>>

\* What the last call returned is not looked at any more.
Forget == /\ call = NoCall
          /\ result' = Done(<<>>)
          /\ UNCHANGED <<pages, call, accepted, unsettled>>

Begin == /\ call = NoCall
         /\ call'.op \in {"write", "read"}
         /\ Fits(call'.page, call'.length)
         /\ call'.op = "write" => call'.length = Len(call'.data)
         /\ result' = Done(<<>>)
         /\ UNCHANGED <<pages, accepted, unsettled>>

Accept == /\ call.op = "write" /\ accepted < call.length
          /\ unsettled = NoPage \/ accepted > 0
          /\ accepted' = accepted + 1
          /\ unsettled' = call.page
          /\ pages' = [pages EXCEPT ![call.page][accepted + 1] = call.data[accepted + 1]]
          /\ UNCHANGED <<call, result>>

Returns(r) == /\ call' = NoCall /\ accepted' = 0
              /\ result' = r
              /\ UNCHANGED <<pages, unsettled>>

Written == call.op = "write" /\ accepted = call.length /\ Returns(Done(<<>>))
Read == call.op = "read" /\ Returns(Done(SubSeq(pages[call.page], 1, call.length)))
Fail == call # NoCall /\ Returns(Failed)

Settle == /\ accepted = 0
          /\ unsettled' = NoPage
          /\ UNCHANGED <<pages, call, accepted, result>>

Near(p) == unsettled # NoPage /\ p \div PagesPerBlock = unsettled \div PagesPerBlock

PowerLoss == /\ call' = NoCall /\ accepted' = 0
             /\ unsettled' = NoPage
             /\ result' = Done(<<>>)
             /\ LET old == pages
                    new == pages'
                IN  \A p \in Pages : new[p] = old[p] \/ (Near(p) /\ new[p] \in Contents)

Next == \/ Refuse \/ Forget \/ Begin \/ Accept
        \/ Written \/ Read \/ Fail
        \/ Settle \/ PowerLoss

Spec == Init /\ [][Next]_vars
=============================================================================
