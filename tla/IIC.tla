-------------------------------- MODULE IIC --------------------------------
(***************************************************************************)
(* The I2C master (kernel/iic.cpp): IICWrite and IICRead, polled, one      *)
(* transfer at a time.  An action is one event the driver waits for.  What *)
(* the slaves do with it is Slave; they are put together in Peripherals.   *)
(***************************************************************************)
EXTENDS Integers, Sequences

VARIABLES
  phase,    \* what the driver waits for: "start", "address", "byte", "stop";
            \* "idle" outside a transfer
  rw,       \* "write" or "read"
  addr,     \* the slave
  bytes,    \* dbytes: what is to be sent, or what was received so far
  n,        \* nToSend or nToRecv
  idx,      \* how many of them are done
  rc        \* what it is going to return

iic == <<phase, rw, addr, bytes, n, idx, rc>>

IICInit == /\ phase = "idle" /\ rw = "write" /\ addr = 0
           /\ bytes = <<>> /\ n = 0 /\ idx = 0 /\ rc = 0

\* The locals of a transfer that has ended, or was never begun.
Ended == /\ phase' = "idle" /\ rw' = "write" /\ addr' = 0
         /\ bytes' = <<>> /\ n' = 0 /\ idx' = 0 /\ rc' = 0

Transfer(direction, slave, data, length) ==
  /\ phase = "idle"
  /\ phase' = "start"
  /\ rw' = direction /\ addr' = slave
  /\ bytes' = data /\ n' = length
  /\ idx' = 0 /\ rc' = 0

IICWrite(slave, data) == Transfer("write", slave, data, Len(data))
IICRead(slave, length) == Transfer("read", slave, <<>>, length)

\* Mutant: the loop goes round once more.
ProceedOnceMore(done) == /\ phase' = IF done <= n THEN "byte" ELSE "stop"
                         /\ idx' = done

\* After the address and after every byte: the next one, or the stop condition.
Proceed(done) == /\ phase' = IF done < n THEN "byte" ELSE "stop"
                 /\ idx' = done

\* Anything else than the status that is expected: stop, and return -2.
Abandon == /\ phase' = "stop"
           /\ rc' = -2
           /\ UNCHANGED <<rw, addr, bytes, n, idx>>

Started == /\ phase = "start"
           /\ phase' = "address"
           /\ UNCHANGED <<rw, addr, bytes, n, idx, rc>>

\* No start condition: -1 is returned, without a stop condition.
StartFails == phase = "start" /\ Ended

AddressAcked == /\ phase = "address"
                /\ Proceed(0)
                /\ UNCHANGED <<rw, addr, bytes, n, rc>>

AddressRefused == phase = "address" /\ Abandon

ByteAcked == /\ phase = "byte" /\ rw = "write"
             /\ Proceed(idx + 1)
             /\ UNCHANGED <<rw, addr, bytes, n, rc>>

ByteRefused == phase = "byte" /\ rw = "write" /\ Abandon

\* Every byte received is acknowledged but the last one.
Acks == idx # n - 1

ByteReceived(b) == /\ phase = "byte" /\ rw = "read"
                   /\ bytes' = Append(bytes, b)
                   /\ Proceed(idx + 1)
                   /\ UNCHANGED <<rw, addr, n, rc>>

ByteLost == phase = "byte" /\ rw = "read" /\ Abandon

\* rc is returned.
Stopped == phase = "stop" /\ Ended
=============================================================================
