---------------------------- MODULE MessageBusMC ----------------------------
(***************************************************************************)
(* Small buses for TLC: a queue with two competing consumers, and a topic  *)
(* with two subscribers next to it.                                        *)
(***************************************************************************)
EXTENDS MessageBus, TLC

CONSTANTS q, t, a, b, producer

Neutral == [drop |-> FALSE, extraDelay |-> 0, additionalCopies |-> 0, copySpacing |-> 0]
Drop    == [Neutral EXCEPT !.drop = TRUE]
Delay   == [Neutral EXCEPT !.extraDelay = 2]
Twice   == [Neutral EXCEPT !.additionalCopies = 1, !.copySpacing = 1]

Move(time, c, s) == [time |-> time, type |-> "lifecycle", component |-> c, next |-> s]
Later(time, c, s) == [Move(time, c, s) EXCEPT !.type = "control"]
Send(time, p) == [time |-> time, type |-> "publish", pub |-> p]
Started == <<Move(0, producer, "RUNNING"), Move(0, a, "RUNNING"), Move(0, b, "RUNNING")>>

\* One task publishes 1 and then 2; a second task publishes 3.
ThreePublications == 1..3
ChainOfTwo == [p \in 1..3 |-> IF p = 1 THEN {2} ELSE {}]
ByProducer == [p \in 1..3 |-> producer]

-----------------------------------------------------------------------------
(* A queue with two consumers and room for two records.                     *)

QueueSubscribers == q :> <<a, b>>
ToQueue == [p \in 1..3 |-> q]
QueueDelay == q :> 1
QueueTimeout == q :> 2
QueueRetry == q :> 0
QueueAttempts == q :> 2
QueueCapacity == q :> 2
QueueFaults == {Neutral, Drop, Twice}
QueueSleeps == {2}

\* Consumer a crashes, between an arrival and its work or while it sleeps,
\* and restarts at once or later; or it pauses.
QueueScripts ==
    {Started \o <<Send(0, 1), Send(0, 3), Later(1, a, "CRASHED"),
                  Later(1, a, "STARTING"), Later(1, a, "RUNNING")>>,
     Started \o <<Send(0, 1), Send(0, 3), Move(2, a, "CRASHED"),
                  Move(3, a, "STARTING"), Move(3, a, "RUNNING")>>,
     Started \o <<Send(0, 1), Send(3, 3), Move(2, a, "PAUSED"), Move(3, a, "RUNNING")>>}

-----------------------------------------------------------------------------
(* A topic with two subscribers, one of which also consumes a queue.  The   *)
(* topic has room for one message and a half.                               *)

TopicSubscribers == (q :> <<a>>) @@ (t :> <<a, b>>)
ToBoth == [p \in 1..3 |-> IF p = 2 THEN q ELSE t]
TopicDelay == (q :> 0) @@ (t :> 1)
TopicTimeout == (q :> 1) @@ (t :> 2)
TopicRetry == (q :> 1) @@ (t :> 0)
TopicAttempts == (q :> 1) @@ (t :> 2)
TopicCapacity == (q :> 1) @@ (t :> 3)
TopicFaults == {Neutral, Delay}
TopicSleeps == {1}

\* The producer crashes between its publication and the admission, or before
\* both; a consumer stops for good; a transition repeats, or is not allowed.
TopicScripts ==
    {Started \o script : script \in
       { <<Send(0, 1), Send(1, 3), Move(1, a, "CRASHED"), Move(2, a, "STARTING"), Move(2, a, "RUNNING")>>,
         <<Send(0, 1), Move(0, producer, "CRASHED"), Send(3, 3)>>,
         <<Move(0, producer, "PAUSED"), Send(0, 1), Move(1, producer, "RUNNING"), Send(1, 3)>>,
         <<Send(0, 1), Move(1, b, "STOPPED"), Move(1, b, "STOPPED"), Send(2, 3)>>,
         <<Send(0, 1), Send(0, 3), Move(2, b, "STARTING")>> }}
=============================================================================
