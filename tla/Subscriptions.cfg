\* Three receivers, two ids, room for three subscriptions; the lists change while a message is dispatched.
CONSTANTS
  Receiver = {r1, r2, r3}
  Id = {i1, i2}
  Node = {n1, n2, n3}
  Null = Null
SPECIFICATION Spec
INVARIANTS TypeOK ListsSound EachCalledOnce
PROPERTIES WalkEnds
