------------------------- MODULE MCReliableUdp -------------------------
(* A small instance of ReliableUdp for TLC: a message of two packets.   *)
EXTENDS ReliableUdp, TLC

CONSTANT m1

CallbackSymmetry == Permutations(Callbacks)

One      == {m1 :> 1}
TwoParts == m1 :> 2

\* Bound: what follows a crash of the sender or its Close, after which it only stops, is
\* not explored, nor what follows when a packet has been given up more than once.
SenderGoesOn == ~senderCrashed /\ open /\ \A p \in Packets : givenUp[p] <= 1
========================================================================
