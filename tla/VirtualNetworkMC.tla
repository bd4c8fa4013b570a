-------------------------- MODULE VirtualNetworkMC --------------------------
(***************************************************************************)
(* A client that calls a gateway and retries once, a gateway that calls a  *)
(* backend to answer, and background work of the gateway that calls an     *)
(* endpoint the backend does not have.                                     *)
(***************************************************************************)
EXTENDS VirtualNetwork, TLC

CONSTANTS client, gateway, backend

\* 3 retries 1, 2 and 4 are the gateway's calls for them; 5 is its own work.
FiveCalls == 1..5
CallSource == <<client, gateway, client, gateway, gateway>>
CallTarget == <<gateway, backend, gateway, backend, backend>>
CallUpstream == <<{}, {1}, {}, {3}, {}>>
CallRetry == <<{3}, {}, {}, {}, {}>>
CallUnknown == {5}

\* The round trip of 2 takes exactly its timeout when nothing is delayed.
CallRequestLatency == <<0, 1, 0, 1, 0>>
CallResponseLatency == <<1, 1, 1, 0, 1>>
CallTimeout == <<3, 2, 3, 2, 2>>
CallJitter == <<0, 0, 0, 1, 0>>
CallFaults == {[drop |-> FALSE, extraDelay |-> 0], [drop |-> FALSE, extraDelay |-> 2]}
CallSleeps == {1, 2}

Move(time, c, s) == [time |-> time, type |-> "lifecycle", component |-> c, next |-> s]
Later(time, c, s) == [Move(time, c, s) EXCEPT !.type = "control"]
Begin(time, p) == [time |-> time, type |-> "start", call |-> p]
Started == <<Move(0, gateway, "RUNNING"), Move(0, backend, "RUNNING")>>

\* Crashes of the gateway or the backend, after a delivery or while a handler
\* is suspended, with a restart; a backend that never starts; a stopped
\* gateway; a transition not allowed.
CallScripts ==
    {Started \o <<Begin(0, 1)>> \o tail : tail \in
        {<<Move(x, c, "CRASHED"), Move(x + 2, c, "STARTING"), Move(x + 2, c, "RUNNING")>> :
            x \in 1..2, c \in {gateway, backend}}
        \cup {<<Later(x, c, "CRASHED"), Later(x, c, "STARTING"), Later(x, c, "RUNNING")>> :
            x \in {0, 1}, c \in {gateway, backend}}}
    \cup {Started \o <<Begin(0, 1), Begin(1, 5), Move(1, gateway, "STOPPED")>>,
          <<Begin(0, 5), Move(0, gateway, "RUNNING"), Move(0, gateway, "RUNNING"), Begin(0, 1)>>,
          Started \o <<Begin(0, 5), Begin(0, 1), Move(3, gateway, "STARTING")>>}
=============================================================================
