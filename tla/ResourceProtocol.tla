-------------------------- MODULE ResourceProtocol ---------------------------
(***************************************************************************)
(* The protocol between CloudFormation and whoever provides a custom       *)
(* resource: one request at a time, answered once.  As long as every call  *)
(* that is reported as failed has had no effect (reliable) an answer       *)
(* belongs to the request that is waited for; a call that was lost may be  *)
(* followed by late and by double answers.                                 *)
(***************************************************************************)
EXTENDS Naturals

VARIABLES
  sent,      \* how many requests have been sent
  waiting,   \* whether the last of them is waited for
  answered,  \* the requests that have an answer
  doubled,   \* those with more than one
  reliable   \* no call has been lost so far

vars == <<sent, waiting, answered, doubled, reliable>>

Init ==
  /\ sent = 0 /\ ~waiting
  /\ answered = {} /\ doubled = {}
  /\ reliable = TRUE

Send ==
  /\ ~waiting
  /\ sent' = sent + 1 /\ waiting' = TRUE
  /\ UNCHANGED <<answered, doubled, reliable>>

\* The call that answers may itself be the one that is lost.
Answer(n) ==
  /\ n \notin answered
  /\ reliable => n = sent /\ waiting
  /\ answered' = answered \cup {n}
  /\ reliable' \in {reliable, FALSE}
  /\ UNCHANGED <<sent, waiting, doubled>>

AnswerAgain(n) ==
  /\ ~reliable /\ n \in answered
  /\ doubled' = doubled \cup {n}
  /\ UNCHANGED <<sent, waiting, answered, reliable>>

Receive ==
  /\ waiting /\ sent \in answered
  /\ waiting' = FALSE
  /\ UNCHANGED <<sent, answered, doubled, reliable>>

LoseCall == reliable' = FALSE /\ UNCHANGED <<sent, waiting, answered, doubled>>

Next ==
  \/ Send \/ Receive \/ LoseCall
  \/ \E n \in 1..sent : Answer(n) \/ AnswerAgain(n)

Spec == Init /\ [][Next]_vars

=============================================================================
