------------------------------- MODULE MCSocket -------------------------------
(***************************************************************************)
(* The native socket, and the poll worker that fetches the same rounds     *)
(* over HTTP, each by itself. A behaviour is about the component that      *)
(* subject names; the others stay in their initial states, in which none   *)
(* of their fair actions is enabled.                                       *)
(***************************************************************************)
EXTENDS NativeSocket, Integers

CONSTANTS
    PageSize, ColdMaxPages, WarmMaxPages, CacheCap, RollingCap, MaxRounds, MaxErrors \* of History

ASSUME PagesAssumption == PageSize \in Nat /\ CacheCap \in Nat

VARIABLES
    subject,    \* the component a behaviour is about
    ended, cache, running, cold, errors, fails, histPc, page, unread, batch,
    got, total, rolling, seen, handled, evicted

Hist == INSTANCE History WITH pc <- histPc

histVars == <<ended, cache, running, cold, errors, fails, histPc, page, unread, batch,
    got, total, rolling, seen, handled, evicted>>
socketVars == <<vars, histVars>>

SocketInit == Init /\ Hist!Init

SocketNext ==
    \/ /\ subject = "socket" /\ Next
       /\ UNCHANGED <<subject, histVars>>
    \/ /\ subject = "history" /\ Hist!Next
       /\ UNCHANGED <<subject, vars>>

\* The threads of the component that a behaviour is about run.
SocketFairness ==
    /\ (subject = "socket" => Fairness)
    /\ Hist!Fairness

-----------------------------------------------------------------------------

(* A round that was fetched is handled, although it is cached from then    *)
(* on, and twice only if it fell out of the cache                          *)
(* (PollWorker::fetchAndIngest, RecentRoundCache).                         *)
HandledOnce == Hist!HandledOnce

(* A running poll worker handles the rounds within its reach               *)
(* (PollWorker::loop).                                                     *)
CatchesUp == Hist!CatchesUp

=============================================================================
