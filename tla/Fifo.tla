-------------------------------- MODULE Fifo --------------------------------
(***************************************************************************)
(* What the queues of a session promise to the threads that use them: the  *)
(* messages pushed in a queue are pulled from it once, unaltered and in    *)
(* the order of the pushes.  A flush drops everything that waits.          *)
(***************************************************************************)
EXTENDS Sequences

CONSTANTS Queue, Msg

VARIABLES chan,   \* chan[q]: messages waiting in q, oldest first
          out     \* out[q]: messages pulled from q, oldest first

fvars == <<chan, out>>

FifoInit ==
    /\ chan = [q \in Queue |-> <<>>]
    /\ out = [q \in Queue |-> <<>>]

Put(q, m) ==
    /\ chan' = [chan EXCEPT ![q] = Append(@, m)]
    /\ UNCHANGED out

Get(q) ==
    /\ chan[q] # <<>>
    /\ out' = [out EXCEPT ![q] = Append(@, Head(chan[q]))]
    /\ chan' = [chan EXCEPT ![q] = Tail(@)]

Clear(q) ==
    /\ chan' = [chan EXCEPT ![q] = <<>>]
    /\ UNCHANGED out

FifoNext == \E q \in Queue : (\E m \in Msg : Put(q, m)) \/ Get(q) \/ Clear(q)

FifoSpec == FifoInit /\ [][FifoNext]_fvars
=============================================================================
