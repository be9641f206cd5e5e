---------------------------- MODULE StackMonitor ----------------------------
(***************************************************************************)
(* StackActivityMonitor and its two printers                               *)
(* (aws-cdk/lib/api/util/cloudformation/stack-activity-monitor.ts): a      *)
(* timer polls the events of the stack, page by page and newest first,     *)
(* while the deployment waits; stop() lets the poll in flight finish and   *)
(* polls once more.                                                        *)
(*                                                                         *)
(* The events of the stack are the numbers 1..emitted, in the order they   *)
(* happened.  Both printers are fed the same events one by one: the history *)
(* printer queues them for print().                                        *)
(***************************************************************************)
EXTENDS SequencesExt, Integers

CONSTANTS MaxEvents,   \* bound on the events the service emits
          FirstEvent,  \* the first event not older than startTime
          PageSize,    \* events per page of describeStackEvents
          MaxErrors    \* bound on the calls that fail

ASSUME MonitorAssumption ==
  /\ MaxEvents \in Nat /\ FirstEvent \in Nat \ {0} /\ PageSize \in Nat \ {0}
  /\ MaxErrors \in Nat

Event == 1..MaxEvents

VARIABLES
  emitted,      \* how many events the service has registered
  service,      \* "busy", then "stable" (no more events) or "gone" (stack deleted)
  active,       \* this.active
  timer,        \* a tick is scheduled
  activity,     \* the keys of this.activity
  readPromise,  \* "none", "pending", or "rejected" by a read that is over
  reader,       \* who runs readNewEvents: "none", "tick" or "stop"
  next,         \* newest event of the page to ask for; 0 for the first page
  batch,        \* events collected by the read, newest first, not handed on yet
  printable,    \* the history printer's queue
  printed,      \* what it has printed
  stop,         \* "no", then "waiting", "polling", and "done" or "failed"
  errors,       \* how many calls failed
  errorInStop,  \* history: one of them did after stop() was called
  stableAtStop  \* history: stop() was called on a stack with no more events

serviceVars == <<emitted, service>>
printerVars == <<printable, printed>>
monitorVars == <<emitted, service, active, timer, activity, readPromise, reader, next, batch,
                 printable, printed, stop, errors, errorInStop, stableAtStop>>

MonitorTypeOK ==
  /\ emitted \in 0..MaxEvents
  /\ service \in {"busy", "stable", "gone"}
  /\ active \in BOOLEAN /\ timer \in BOOLEAN
  /\ activity \subseteq Event
  /\ readPromise \in {"none", "pending", "rejected"}
  /\ reader \in {"none", "tick", "stop"}
  /\ next \in 0..MaxEvents
  /\ batch \in Seq(Event)
  /\ printable \in Seq(Event) /\ printed \in Seq(Event)
  /\ stop \in {"no", "waiting", "polling", "done", "failed"}
  /\ errors \in 0..MaxErrors /\ errorInStop \in BOOLEAN
  /\ stableAtStop \in BOOLEAN

\* The deployment has just called start().
MonitorInit ==
  /\ emitted \in {n \in 0..MaxEvents : n < FirstEvent}
  /\ service = "busy"
  /\ active = TRUE /\ timer = TRUE
  /\ activity = {} /\ readPromise = "none" /\ reader = "none" /\ next = 0 /\ batch = <<>>
  /\ printable = <<>> /\ printed = <<>>
  /\ stop = "no"
  /\ errors = 0 /\ errorInStop = FALSE /\ stableAtStop = FALSE

-----------------------------------------------------------------------------
(* The service.                                                            *)

Emit ==
  /\ service = "busy" /\ emitted < MaxEvents
  /\ emitted' = emitted + 1
  /\ UNCHANGED <<service, active, timer, activity, readPromise, reader, next, batch,
                 printerVars, stop, errors, errorInStop, stableAtStop>>

Settle ==
  /\ service = "busy"
  /\ service' \in {"stable", "gone"}
  /\ UNCHANGED <<emitted, active, timer, activity, readPromise, reader, next, batch,
                 printerVars, stop, errors, errorInStop, stableAtStop>>

-----------------------------------------------------------------------------
(* One call of readNewEvents.                                              *)

BeginRead(who) == reader' = who /\ next' = 0 /\ batch' = <<>>

EndRead == reader' = "none" /\ next' = 0 /\ batch' = <<>>

\* The page a call returns: the newest events first.
Newest == IF next = 0 THEN emitted ELSE next
Page ==
  [i \in 1..(IF Newest < PageSize THEN Newest ELSE PageSize) |-> Newest + 1 - i]

\* Mutant: only the start time is looked at, not whether an event is known.
FreshByTime ==
  [i \in {j \in DOMAIN Page : \A k \in 1..j : Page[k] >= FirstEvent} |-> Page[i]]

\* The loop over a page pushes its events up to the first that is too old or known.
Fresh ==
  [i \in {j \in DOMAIN Page : \A k \in 1..j : Page[k] >= FirstEvent /\ Page[k] \notin activity}
     |-> Page[i]]

\* Mutant: a missing NextToken is not noticed.
LastPageByEvents == Fresh # Page

LastPage == Fresh # Page \/ Newest <= PageSize

\* Mutant: the events of a page are handed on before the older pages are read.
ReadPageHandsOn ==
  /\ reader # "none" /\ service # "gone" /\ ~LastPage
  /\ activity' = activity \cup Range(Fresh)
  /\ printable' = printable \o Reverse(Fresh)
  /\ next' = Newest - PageSize
  /\ UNCHANGED <<serviceVars, active, timer, readPromise, reader, batch, printed,
                 stop, errors, errorInStop, stableAtStop>>

\* A page that is not the last: its events are marked as seen at once and kept
\* in the batch until the pages below it have been read.
ReadPage ==
  /\ reader # "none" /\ service # "gone" /\ ~LastPage
  /\ activity' = activity \cup Range(Fresh)
  /\ batch' = batch \o Fresh
  /\ next' = Newest - PageSize
  /\ UNCHANGED <<serviceVars, active, timer, readPromise, reader, printerVars,
                 stop, errors, errorInStop, stableAtStop>>

\* Mutant: what a poll collected is handed on as it was collected.
AsCollected(events) == events

\* events.reverse(): the printer is given what a poll collected oldest first.
OldestFirst(events) == Reverse(events)

\* Mutant: stop() waits for the poll in flight but does not poll again.
ReadReturnsAtOnce(events) ==
  /\ readPromise' = IF reader = "tick" THEN "none" ELSE readPromise
  /\ printed' = printed \o printable \o OldestFirst(events)
  /\ printable' = <<>>
  /\ timer' = (timer \/ (reader = "tick" /\ active))
  /\ EndRead
  /\ stop' = IF active THEN stop ELSE "done"

\* A read came to its end and hands on what it collected.  A tick forgets the
\* promise and, unless stop() was called meanwhile, prints and schedules the
\* next tick; a stop() waiting for it goes on to its own poll, which prints
\* whatever is queued.
ReadReturns(events) ==
  LET queue == printable \o OldestFirst(events) IN
  \/ /\ reader = "tick" /\ active
     /\ printed' = printed \o queue /\ printable' = <<>>
     /\ EndRead
     /\ readPromise' = "none" /\ timer' = TRUE
     /\ UNCHANGED stop
  \/ /\ reader = "tick" /\ ~active
     /\ printable' = queue
     /\ BeginRead("stop")
     /\ readPromise' = "none" /\ stop' = "polling"
     /\ UNCHANGED <<timer, printed>>
  \/ /\ reader = "stop"
     /\ printed' = printed \o queue /\ printable' = <<>>
     /\ EndRead
     /\ stop' = "done"
     /\ UNCHANGED <<readPromise, timer>>

ReadLastPage ==
  /\ reader # "none" /\ service # "gone" /\ LastPage
  /\ activity' = activity \cup Range(Fresh)
  /\ ReadReturns(batch \o Fresh)
  /\ UNCHANGED <<serviceVars, active, errors, errorInStop, stableAtStop>>

\* "Stack [...] does not exist": the read returns without handing anything on.
ReadFindsNoStack ==
  /\ reader # "none" /\ service = "gone"
  /\ ReadReturns(<<>>)
  /\ UNCHANGED <<serviceVars, active, activity, errors, errorInStop, stableAtStop>>

\* Mutant: after an error no further tick is scheduled.
ReadFailsForGood ==
  /\ reader # "none" /\ errors < MaxErrors
  /\ errors' = errors + 1
  /\ errorInStop' = (errorInStop \/ stop # "no")
  /\ EndRead
  /\ readPromise' = IF reader = "tick" THEN "rejected" ELSE readPromise
  /\ stop' = IF active THEN stop ELSE "failed"
  /\ UNCHANGED <<serviceVars, active, timer, activity, printerVars, stableAtStop>>

\* Mutant: the promise stop() waits for is not settled by an error.
ReadFailsSilently ==
  /\ reader # "none" /\ errors < MaxErrors
  /\ errors' = errors + 1
  /\ errorInStop' = (errorInStop \/ stop # "no")
  /\ EndRead
  /\ timer' = (timer \/ (reader = "tick" /\ active))
  /\ stop' = IF reader = "tick" THEN stop ELSE "failed"
  /\ UNCHANGED <<serviceVars, active, activity, readPromise, printerVars, stableAtStop>>

\* Any other error: the read throws.  A tick logs it and schedules the next one,
\* its promise staying behind; stop() passes it on to whoever called it.
ReadFails ==
  /\ reader # "none" /\ errors < MaxErrors
  /\ errors' = errors + 1
  /\ errorInStop' = (errorInStop \/ stop # "no")
  /\ EndRead
  /\ readPromise' = IF reader = "tick" THEN "rejected" ELSE readPromise
  /\ timer' = (timer \/ (reader = "tick" /\ active))
  /\ stop' = IF active THEN stop ELSE "failed"
  /\ UNCHANGED <<serviceVars, active, activity, printerVars, stableAtStop>>

-----------------------------------------------------------------------------
(* The timer and stop().                                                   *)

Tick ==
  /\ timer
  /\ timer' = FALSE
  /\ readPromise' = "pending"
  /\ BeginRead("tick")
  /\ UNCHANGED <<serviceVars, active, activity, printerVars, stop, errors, errorInStop, stableAtStop>>

\* The printer is stopped first, then the timer; finalPollToEnd awaits the
\* promise that is there, whichever read it belongs to.
Stop ==
  /\ stop = "no"
  /\ active' = FALSE
  /\ stableAtStop' = (service = "stable")
  /\ timer' = FALSE
  /\ CASE readPromise = "none"     -> BeginRead("stop") /\ stop' = "polling"
       [] readPromise = "pending"  -> UNCHANGED <<reader, next, batch>> /\ stop' = "waiting"
       [] readPromise = "rejected" -> UNCHANGED <<reader, next, batch>> /\ stop' = "failed"
  /\ UNCHANGED <<serviceVars, activity, readPromise, printerVars, errors, errorInStop>>

Read == ReadPage \/ ReadLastPage \/ ReadFindsNoStack \/ ReadFails

MonitorNext == Emit \/ Settle \/ Read \/ Tick \/ Stop

MonitorSpec == MonitorInit /\ [][MonitorNext]_monitorVars

\* Timers fire and calls are answered; nobody has to call stop().
FairMonitorSpec == MonitorSpec /\ WF_monitorVars(Tick) /\ WF_monitorVars(Read)

-----------------------------------------------------------------------------
(* Properties.                                                             *)

\* The feed as its watchers know it: what waits for the history printer, what has
\* been printed, and whether stop() has returned.
Feed == INSTANCE EventFeed WITH
  happened <- emitted, queued <- printable, shown <- printed,
  feed <- CASE stop = "done" -> "finished" [] stop = "failed" -> "broken" [] OTHER -> "open"

\* The printers show events in the order they happened, across pages and polls,
\* although every page lists the newest first, none of them twice, and none after
\* stop() has returned (readNewEvents, lines 219-266, and stop, lines 154-165).
FedInOrder == Feed!Spec

\* Who is reading, and when: a tick until stop() takes over, and nobody afterwards.
ReaderInv ==
  /\ active <=> stop = "no"
  /\ timer => stop = "no" /\ reader = "none"
  /\ reader = "tick" <=> readPromise = "pending"
  /\ reader = "tick" => stop \in {"no", "waiting"}
  /\ reader = "stop" <=> stop = "polling"
  /\ stop = "waiting" => reader = "tick"
  /\ reader = "none" => batch = <<>> /\ next = 0

\* What the printer has been given, and what it will be when the read is over.
Delivery == printed \o printable
Delivered == Range(Delivery)
Collected == Range(batch)

\* What makes the feed work, for every poll and page of it: whatever is above the
\* page asked for has been collected by this read, so that an event that is found
\* fresh is newer than all that were delivered and older than all that were collected
\* (readNewEvents, lines 219-266).
FeedInv ==
  /\ MonitorTypeOK /\ ReaderInv
  /\ Feed!InOrder(Delivery \o OldestFirst(batch))
  /\ Delivered \cup Collected \subseteq activity
  /\ \A e \in activity : e <= emitted
  /\ next = 0 => batch = <<>>
  /\ next # 0 => /\ next <= emitted
                 /\ \A e \in Collected : e > next
                 /\ \A e \in activity : e > next => e \in Collected

\* The events lost to a read that failed after its first page: those it had marked
\* as seen, and the older ones that are hidden behind them from then on.
MarkedOnly == activity \ (Delivered \cup Collected)
Lost == {e \in Event \ Delivered : \E f \in MarkedOnly : e <= f}

\* When stop() returns, every event of the deployment has been shown, the reason
\* of a failure included, except those: stop() polls once more for that, whatever
\* failed before and whenever it was called (lines 161-164, 268-287).
FinalPollShowsRest ==
  stop = "done" /\ stableAtStop =>
    /\ {e \in 1..emitted : e >= FirstEvent} \subseteq Range(printed) \cup Lost
    /\ errors = 0 => Lost = {}

\* Why: there is no gap below an event that was handed on, or above the page a read
\* asks for next, but what is hidden behind the events of a read that failed.
NoGaps ==
  /\ \A f \in Delivered, e \in Event : FirstEvent <= e /\ e <= f => e \in Delivered \cup Lost
  /\ next # 0 => \A f \in Collected, e \in Event : next < e /\ e <= f => e \in Collected

\* The poll that stop() does on a stable stack starts at its very last event.
RestInv ==
  /\ NoGaps /\ FinalPollShowsRest
  /\ stableAtStop => service = "stable"
  /\ errors = 0 /\ service # "gone" => MarkedOnly = {}
  /\ stop = "polling" /\ stableAtStop /\ next # 0 =>
       \A e \in Event : next < e /\ e <= emitted => e \in Collected

\* stop() always comes to an end (finalPollToEnd, lines 274-287).
StopSettles == stop \in {"waiting", "polling"} ~> stop \in {"done", "failed"}

\* An event is eventually shown, a failed poll being repeated by the next tick,
\* unless it is lost or the stack or the monitor goes first.
EventsAreShown ==
  \A e \in Event :
    e >= FirstEvent /\ e <= emitted ~>
      \/ e \in Range(printed) \cup Lost
      \/ service = "gone" \/ stop \in {"done", "failed"}

\* The monitor keeps up with the stack and lets the deployment go on.
KeepsUp == StopSettles /\ EventsAreShown

=============================================================================
