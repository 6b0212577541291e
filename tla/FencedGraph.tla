---------------------------- MODULE FencedGraph ----------------------------
(***************************************************************************)
(* What the graph lease promises, without rows, revisions or clocks: the   *)
(* effect graph is a document that only its current holder may change, one *)
(* change on top of the other, and no holder comes back after it has been  *)
(* superseded.                                                             *)
(***************************************************************************)
EXTENDS Naturals

CONSTANTS Instances, NoOwner

VARIABLES holder,   \* the instance the document belongs to, or NoOwner
          epoch,    \* how many times it has changed hands
          content   \* how many changes it has seen

Init == holder = NoOwner /\ epoch = 0 /\ content = 0

\* Changing hands always starts a new epoch, also when the same instance
\* takes the document again.
Grant(i) ==
  /\ holder' = i
  /\ epoch' = epoch + 1
  /\ UNCHANGED content

GiveUp(i) ==
  /\ holder = i
  /\ holder' = NoOwner
  /\ UNCHANGED <<epoch, content>>

Change(i) ==
  /\ holder = i
  /\ content' = content + 1
  /\ UNCHANGED <<holder, epoch>>

Next == \E i \in Instances : Grant(i) \/ GiveUp(i) \/ Change(i)

Spec == Init /\ [][Next]_<<holder, epoch, content>>

=============================================================================
