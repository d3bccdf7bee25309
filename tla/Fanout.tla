------------------------------- MODULE Fanout -------------------------------
(***************************************************************************)
(* How one query spreads over the overlay: the fan-out loop of SubmitQuery  *)
(* at the portal and ForwardQuery at every other node                       *)
(* (cpp/src/NodeServer.cpp; python/node_server.py has the same steps).      *)
(*                                                                          *)
(* ForwardQuery is a synchronous RPC whose handler first recurses into its  *)
(* own neighbours, so a handler is named by the chain of nodes that called  *)
(* it, a path from the portal: a handler calls each neighbour once, hence   *)
(* no two calls have the same path.  The path less its last node is the     *)
(* request's visited list, and the last but one is from_node.               *)
(*                                                                          *)
(* The dedupe look-up and the insert into routes_ are two critical sections *)
(* of routes_mu_, so they are two steps here.  A caller stops waiting when  *)
(* its RPC deadline expires (5 s, PeerClient.cpp) while the handler goes    *)
(* on; that is possible when DeadlinesExpire.  A node in Dead answers       *)
(* nothing, so a call to it fails.                                          *)
(*                                                                          *)
(* One request is modelled: routes_ is keyed by request id and handlers of  *)
(* different requests share nothing else.  The hop TTL is carried by the    *)
(* code and compared with nothing; it is left out.                          *)
(***************************************************************************)
EXTENDS Naturals, Sequences, FiniteSets

CONSTANTS Node, Portal,
          Peers,            \* Peers[n]: the neighbours of n in the config
          Dead,             \* nodes whose process is down
          DeadlinesExpire   \* may an RPC outlive its deadline?

ASSUME FanoutConstants ==
  /\ Portal \in Node
  /\ Peers \in [Node -> SUBSET Node]
  /\ Dead \subseteq Node \ {Portal}
  /\ DeadlinesExpire \in BOOLEAN

VARIABLES calls,      \* the handlers started, each a path
          pc,         \* per handler: where it is
          todo,       \* per handler: neighbours it has still to call
          callee,     \* per handler: the handler whose answer it awaits, <<>> for none
          route,      \* per node: the path whose handler wrote its RouteState, <<>> for none
          doneEarly,  \* peers SubmitQuery marked done because they refused or failed
          executed,   \* the handlers that started executeLocal
          joined,     \* history: the turn in which each node first got a route, 0 before
          clock       \* history: how many nodes have got one

vars == <<calls, pc, todo, callee, route, doneEarly, executed, joined, clock>>

Path == Seq(Node)
Root == <<Portal>>
Self(h) == h[Len(h)]

(* Mutant: visited.back() is taken for the sender after the node itself was *)
(* appended.                                                                *)
FromBack(h) == h[Len(h)]

From(h) == h[Len(h) - 1]
Visited(h) == {h[i] : i \in 1..Len(h)}
Running == {"check", "insert", "fanout", "await"}
Finished == {"accepted", "rejected"}

(* routes_[rid] exists at n, and the peer it names. *)
Routed(n) == route[n] # <<>>
Upstream(n) == From(route[n])

(* SubmitQuery has created the request and its own route, and enters its    *)
(* fan-out loop.                                                            *)
Init ==
  /\ calls = {Root}
  /\ pc = [h \in {Root} |-> "fanout"]
  /\ todo = [h \in {Root} |-> Peers[Portal]]
  /\ callee = [h \in {Root} |-> <<>>]
  /\ route = [n \in Node |-> IF n = Portal THEN Root ELSE <<>>]
  /\ doneEarly = {}
  /\ executed = {}
  /\ joined = [n \in Node |-> IF n = Portal THEN 1 ELSE 0]
  /\ clock = 1

(* peer->forwardQuery: the caller blocks and a handler starts at nb. *)
Call(h, nb) ==
  LET g == Append(h, nb)
  IN  /\ pc[h] = "fanout" /\ nb \in todo[h] /\ nb \notin Dead
      /\ calls' = calls \cup {g}
      /\ pc' = [x \in calls' |-> IF x = g THEN "check" ELSE IF x = h THEN "await" ELSE pc[x]]
      /\ todo' = [x \in calls' |-> IF x = g THEN {} ELSE IF x = h THEN todo[x] \ {nb} ELSE todo[x]]
      /\ callee' = [x \in calls' |-> IF x = g THEN <<>> ELSE IF x = h THEN g ELSE callee[x]]
      /\ UNCHANGED <<route, doneEarly, executed, joined, clock>>

(* The loop of SubmitQuery marks a peer done when its call failed or was    *)
(* refused; ForwardQuery leaves a refusal alone.                            *)
MarkRefused(h, nb) == doneEarly' = IF h = Root THEN doneEarly \cup {nb} ELSE doneEarly

(* The call reaches no handler: the process is down, or the deadline came   *)
(* before the request did.                                                  *)
CallFails(h, nb) ==
  /\ pc[h] = "fanout" /\ nb \in todo[h]
  /\ nb \in Dead \/ DeadlinesExpire
  /\ todo' = [todo EXCEPT ![h] = @ \ {nb}]
  /\ MarkRefused(h, nb)
  /\ UNCHANGED <<calls, pc, callee, route, executed, joined, clock>>

(* Mutant: the dedupe look-up is dropped, only the visited list is tested.  *)
CheckVisitedOnly(h) ==
  /\ pc[h] = "check"
  /\ pc' = [pc EXCEPT ![h] = IF \E i \in 1..(Len(h) - 1) : h[i] = Self(h)
                             THEN "rejected" ELSE "insert"]
  /\ UNCHANGED <<calls, todo, callee, route, doneEarly, executed, joined, clock>>

(* ForwardQuery starts: "loop" when the node is in the visited list, "dup"  *)
(* when routes_ has the request.                                            *)
Check(h) ==
  /\ pc[h] = "check"
  /\ pc' = [pc EXCEPT ![h] = IF (\E i \in 1..(Len(h) - 1) : h[i] = Self(h)) \/ Routed(Self(h))
                             THEN "rejected" ELSE "insert"]
  /\ UNCHANGED <<calls, todo, callee, route, doneEarly, executed, joined, clock>>

(* Mutant: a node fans out to the peers it was not called from only when    *)
(* they are its first ones: the loop stops at the first visited peer.       *)
FanoutSetStops(h) ==
  IF Peers[Self(h)] \cap (Visited(h) \ {From(h)}) = {} THEN Peers[Self(h)] \ Visited(h) ELSE {}

(* The neighbours ForwardQuery does not skip: not from_node, not visited.   *)
FanoutSet(h) == Peers[Self(h)] \ Visited(h)

(* routes_[rid] = route, whatever another handler wrote since the look-up.  *)
Insert(h) ==
  LET n == Self(h)
  IN  /\ pc[h] = "insert"
      /\ route' = [route EXCEPT ![n] = h]
      /\ IF Routed(n)
           THEN UNCHANGED <<joined, clock>>
           ELSE /\ clock' = clock + 1
                /\ joined' = [joined EXCEPT ![n] = clock']
      /\ pc' = [pc EXCEPT ![h] = "fanout"]
      /\ todo' = [todo EXCEPT ![h] = FanoutSet(h)]
      /\ UNCHANGED <<calls, callee, doneEarly, executed>>

(* Mutant: every peer that answered is marked, fa.accepted() is not asked.  *)
AnsweredMarksAll(h) ==
  /\ pc[h] = "await" /\ pc[callee[h]] \in Finished
  /\ pc' = [pc EXCEPT ![h] = "fanout"]
  /\ MarkRefused(h, Self(callee[h]))
  /\ callee' = [callee EXCEPT ![h] = <<>>]
  /\ UNCHANGED <<calls, todo, route, executed, joined, clock>>

(* The awaited handler answered. *)
Answered(h) ==
  /\ pc[h] = "await" /\ pc[callee[h]] \in Finished
  /\ pc' = [pc EXCEPT ![h] = "fanout"]
  /\ IF pc[callee[h]] = "rejected" THEN MarkRefused(h, Self(callee[h])) ELSE UNCHANGED doneEarly
  /\ callee' = [callee EXCEPT ![h] = <<>>]
  /\ UNCHANGED <<calls, todo, route, executed, joined, clock>>

(* The deadline comes first: a failed call to the caller, but the handler   *)
(* at the other end is not stopped.                                         *)
DeadlineExpires(h) ==
  /\ DeadlinesExpire
  /\ pc[h] = "await" /\ pc[callee[h]] \in Running
  /\ pc' = [pc EXCEPT ![h] = "fanout"]
  /\ MarkRefused(h, Self(callee[h]))
  /\ callee' = [callee EXCEPT ![h] = <<>>]
  /\ UNCHANGED <<calls, todo, route, executed, joined, clock>>

(* Mutant: the worker is started in the name of the handler's caller. *)
AcceptForCaller(h) ==
  /\ pc[h] = "fanout" /\ todo[h] = {}
  /\ pc' = [pc EXCEPT ![h] = "accepted"]
  /\ executed' = executed \cup {SubSeq(h, 1, Len(h) - 1)}
  /\ UNCHANGED <<calls, todo, callee, route, doneEarly, joined, clock>>

(* The loop is over: start executeLocal in a thread of its own, answer.     *)
Accept(h) ==
  /\ pc[h] = "fanout" /\ todo[h] = {}
  /\ pc' = [pc EXCEPT ![h] = "accepted"]
  /\ executed' = executed \cup {h}
  /\ UNCHANGED <<calls, todo, callee, route, doneEarly, joined, clock>>

Next ==
  \E h \in calls :
    \/ \E nb \in todo[h] : Call(h, nb) \/ CallFails(h, nb)
    \/ Check(h)
    \/ Insert(h)
    \/ Answered(h)
    \/ DeadlineExpires(h)
    \/ Accept(h)

(* Handler threads run.  Every behaviour has finitely many steps (each path *)
(* is called once), so weak fairness of Next is that of each thread.        *)
Spec == Init /\ [][Next]_vars /\ WF_vars(Next)

-----------------------------------------------------------------------------

(* Types of the handlers' locals, routes_ and the portal's done marks. *)
TypeOK ==
  /\ calls \subseteq Path
  /\ pc \in [calls -> Running \cup Finished]
  /\ todo \in [calls -> SUBSET Node]
  /\ callee \in [calls -> Path]
  /\ route \in [Node -> Path]
  /\ doneEarly \subseteq Node
  /\ executed \subseteq calls
  /\ joined \in [Node -> Nat]
  /\ clock \in Nat

(* The upstream pointers, along which PushChunk relays, lead to the portal: *)
(* every set of other nodes with routes has a member whose upstream is      *)
(* outside of the set and has a route itself.  It must hold even while two  *)
(* handlers at one node overwrite each other's RouteState.                  *)
RoutesLeadToPortal ==
  \A S \in SUBSET {n \in Node \ {Portal} : Routed(n)} :
    S # {} => \E n \in S : Upstream(n) \notin S /\ Routed(Upstream(n))

(* A node executes a query at most once, by whatever paths the overlay's    *)
(* cycles bring it there.                                                   *)
AtMostOneExecution ==
  \A g, h \in executed : Self(g) = Self(h) => g = h

(* A route, once cached for the replies, is never replaced by another: the  *)
(* chunks of one producer take one way.                                     *)
RouteKept == [][\A n \in Node : Routed(n) => route'[n] = route[n]]_vars

(* The nodes a query can get to past the dead ones. *)
Reachable ==
  LET Step(S) == S \cup (UNION {Peers[n] : n \in S} \ Dead)
      reach[k \in 0..Cardinality(Node)] == IF k = 0 THEN {Portal} ELSE Step(reach[k - 1])
  IN  reach[Cardinality(Node)]

(* Every node with a way to the portal past the dead ones executes the      *)
(* query in the end, however the refusals fall.                             *)
ReachableExecute == \A n \in Reachable : <>(\E h \in executed : Self(h) = n)

(* What the portal forgives too early is still part of the query: a live    *)
(* peer marked done without a deadline has a route, by another path.        *)
RefusedPeersAreRouted == \A n \in doneEarly \ Dead : Routed(n) /\ Upstream(n) # Portal
=============================================================================
