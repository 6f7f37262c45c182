-------------------------------- MODULE WorkQueue --------------------------------
(***************************************************************************)
(* What QueueServer promises about its items: they wait in the order of    *)
(* their arrival, are taken from the front, each once, and processed; what *)
(* still waits can be thrown away.  Whether several are processed at a     *)
(* time, and by which thread, is not said here.                            *)
(***************************************************************************)
EXTENDS Sequences

CONSTANT Items

VARIABLES
  waiting,    \* items in the order of their arrival
  busy,       \* items that are being processed
  processed   \* items that have been processed

Init == waiting = <<>> /\ busy = {} /\ processed = {}

Put(i) ==
  /\ i \notin busy \cup processed
  /\ \A n \in DOMAIN waiting : waiting[n] # i
  /\ waiting' = Append(waiting, i)
  /\ UNCHANGED <<busy, processed>>

Take ==
  /\ waiting # <<>>
  /\ Head(waiting) \notin busy \cup processed
  /\ waiting' = Tail(waiting)
  /\ busy' = busy \cup {Head(waiting)}
  /\ UNCHANGED processed

Finish(i) ==
  /\ i \in busy
  /\ busy' = busy \ {i}
  /\ processed' = processed \cup {i}
  /\ UNCHANGED waiting

Clear == waiting' = <<>> /\ UNCHANGED <<busy, processed>>

Next == Take \/ Clear \/ \E i \in Items : Put(i) \/ Finish(i)

Spec == Init /\ [][Next]_<<waiting, busy, processed>>
================================================================================
