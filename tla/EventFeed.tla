------------------------------ MODULE EventFeed ------------------------------
(***************************************************************************)
(* What StackActivityMonitor promises to whoever watches a deployment: the *)
(* events of the stack, the numbers 1..happened in the order they came     *)
(* about, are queued for display and shown in that order, none of them     *)
(* twice, and nothing is queued or shown any more once the feed is over.   *)
(* It may leave events out.                                                *)
(***************************************************************************)
EXTENDS SequencesExt

VARIABLES
  happened,  \* how many events there are
  queued,    \* those waiting to be shown, one after another
  shown,     \* those that have been
  feed       \* "open", "finished" (the queue was flushed) or "broken"

vars == <<happened, queued, shown, feed>>

\* In the order they happened, each of them once.
InOrder(events) ==
  \A i, j \in DOMAIN events : i < j => events[i] < events[j]

Init ==
  /\ happened \in Nat /\ queued = <<>> /\ shown = <<>>
  /\ feed = "open"

Happen == happened' = happened + 1 /\ UNCHANGED <<queued, shown, feed>>

\* What is shown next, and then, is in order as a whole.
Feeds ==
  /\ feed = "open"
  /\ InOrder(shown' \o queued') /\ Range(shown' \o queued') \subseteq 1..happened
  /\ UNCHANGED happened

\* More events are queued.
Queue ==
  /\ Feeds
  /\ IsPrefix(queued, queued')
  /\ UNCHANGED <<shown, feed>>

\* More events are queued and everything queued is shown.
Flush ==
  /\ Feeds
  /\ IsPrefix(shown \o queued, shown') /\ queued' = <<>>
  /\ feed' \in {"open", "finished"}

Break == feed = "open" /\ feed' = "broken" /\ UNCHANGED <<happened, queued, shown>>

Step == Happen \/ Queue \/ Flush \/ Break

Spec == Init /\ [][Step]_vars

=============================================================================
