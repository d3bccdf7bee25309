----------------------------- MODULE AbortFlood -----------------------------
(***************************************************************************)
(* Calling a query off in the overlay it has spread over (Fanout): the      *)
(* Abort calls of CancelQuery and of the janitor at the portal, and the     *)
(* Abort handler that passes them on to every neighbour but the sender      *)
(* (cpp/src/NodeServer.cpp; python/node_server.py has no janitor and marks  *)
(* its own route before it calls).                                          *)
(*                                                                          *)
(* An Abort call names its request and its sender and nothing else, so the  *)
(* calls under way are a set of pairs: two calls between the same nodes are *)
(* one here.  The handler calls its neighbours one by one and waits for     *)
(* each, 5 s at most; as the wait says nothing about the callee, its calls  *)
(* are all under way at once and reach their handlers in any order.         *)
(*                                                                          *)
(* The canceled flag is one of a RouteState.  A path stands for the         *)
(* RouteState its handler inserted, as in Fanout, so one that is            *)
(* overwritten takes its flag with it.                                      *)
(***************************************************************************)
EXTENDS Fanout

VARIABLES cancel,    \* CancelQuery: "no", "calling", "done"
          expired,   \* the janitor has found the request idle
          aborts,    \* Abort calls under way: <<sender, receiver>>
          flagged    \* RouteStates whose canceled flag is set

floodVars == <<cancel, expired, aborts, flagged>>
allVars == <<vars, floodVars>>

FloodInit ==
  /\ Init
  /\ cancel = "no"
  /\ expired = FALSE
  /\ aborts = {}
  /\ flagged = {}

FanoutStep == Next /\ UNCHANGED floodVars

Calls(n, others) == {<<n, m>> : m \in Peers[n] \ others}
Marked(n) == IF Routed(n) THEN flagged \cup {route[n]} ELSE flagged

(* The client has the request id from SubmitQuery's answer. *)
CancelQuery ==
  /\ cancel = "no" /\ pc[Root] = "accepted"
  /\ cancel' = "calling"
  /\ aborts' = aborts \cup Calls(Portal, {})
  /\ UNCHANGED <<vars, expired, flagged>>

(* The portal's own scan is told after the calls. *)
CancelOwn ==
  /\ cancel = "calling"
  /\ cancel' = "done"
  /\ flagged' = Marked(Portal)
  /\ UNCHANGED <<vars, expired, aborts>>

(* The janitor makes the same calls, and nothing else in the overlay; its   *)
(* ttl is longer than a fan-out takes.                                      *)
Expire ==
  /\ ~expired /\ pc[Root] = "accepted"
  /\ expired' = TRUE
  /\ aborts' = aborts \cup Calls(Portal, {})
  /\ UNCHANGED <<vars, cancel, flagged>>

(* Mutant: the handler marks its route and passes nothing on. *)
AbortHere(from, n) ==
  /\ <<from, n>> \in aborts /\ n \notin Dead
  /\ flagged' = Marked(n)
  /\ aborts' = aborts \ {<<from, n>>}
  /\ UNCHANGED <<vars, cancel, expired>>

(* Abort: mark the route, if there is one yet, and pass the call on in any  *)
(* case, also when the route was marked before.                             *)
Abort(from, n) ==
  /\ <<from, n>> \in aborts /\ n \notin Dead
  /\ flagged' = Marked(n)
  /\ aborts' = (aborts \ {<<from, n>>}) \cup Calls(n, {from})
  /\ UNCHANGED <<vars, cancel, expired>>

(* The call reaches no handler. *)
AbortFails(from, n) ==
  /\ <<from, n>> \in aborts
  /\ n \in Dead \/ DeadlinesExpire
  /\ aborts' = aborts \ {<<from, n>>}
  /\ UNCHANGED <<vars, cancel, expired, flagged>>

FloodNext ==
  \/ FanoutStep
  \/ CancelQuery \/ CancelOwn \/ Expire
  \/ \E e \in aborts : Abort(e[1], e[2]) \/ AbortFails(e[1], e[2])

(* Threads run, and a call to a live node reaches its handler. *)
FloodFairness ==
  /\ WF_allVars(FanoutStep)
  /\ WF_allVars(CancelOwn)
  /\ \A n \in Node \ Dead : \A m \in Peers[n] : WF_allVars(Abort(n, m) \/ AbortFails(n, m))

FloodSpec == FloodInit /\ [][FloodNext]_allVars /\ FloodFairness

-----------------------------------------------------------------------------

(* Types, Fanout's included. *)
FloodTypeOK ==
  /\ TypeOK
  /\ cancel \in {"no", "calling", "done"}
  /\ expired \in BOOLEAN
  /\ aborts \subseteq Node \X Node
  /\ flagged \subseteq calls

(* executeLocal's thread looks its node's RouteState up once, when it       *)
(* starts, and polls the flag of that one (by RouteKept there is no other). *)
Hears(h) == route[Self(h)] \in flagged

(* A query called off by its client has the flag of every scan that was     *)
(* started set in the end, whatever the dead nodes and the order of the     *)
(* calls.  Called off by the janitor it has the same of every scan but the  *)
(* portal's own: janitorLoop does not mark the portal's route, which hears  *)
(* of it only when the flood comes back on a cycle.                         *)
CancelHeard ==
  /\ cancel # "no" ~> \A h \in executed : Hears(h)
  /\ expired ~> \A h \in executed : Self(h) # Portal => Hears(h)

(* "Explicit cancel propagates as Abort downstream in at most diameter-1    *)
(* hops" (docs/REPORT.md:91): a flood of Abort calls comes to its end.      *)
FloodEnds == (cancel # "no") ~> (aborts = {})
=============================================================================
