------------------------- MODULE MCMsgReceiver -------------------------
(* Small instances of MsgReceiver for TLC: m1 and m2 are messages of the  *)
(* application, c is a confirmation.                                      *)
EXTENDS MsgReceiver, TLC

CONSTANTS m1, m2, c

CallbackSymmetry == Permutations(Callbacks)

\* Every message has a number of its own, or two senders have chosen the same one.
OwnNumbers  == (m1 :> 1) @@ (m2 :> 2) @@ (c :> 3)
SameNumbers == (m1 :> 1) @@ (m2 :> 1) @@ (c :> 3)
AnyNumbers  == {OwnNumbers, SameNumbers}

ThreeAndTwo == (m1 :> 3) @@ (m2 :> 2) @@ (c :> 1)
FiveOrSix == {c :> 5, c :> 6}
========================================================================
