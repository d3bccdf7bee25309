---------------------------- MODULE FanoutProofs ----------------------------
(***************************************************************************)
(* What the runs check of Fanout on one overlay, for every overlay:         *)
(* any set of nodes, any edges, any dead nodes.                             *)
(*                                                                          *)
(* The upstream pointers lead to the portal because a node is called only   *)
(* by a node that has a route already, and a handler that gets past the     *)
(* dedupe look-up has seen its own node without one: so a node's upstream   *)
(* got its first route before the node did, and that order, kept in         *)
(* joined, cannot go round in a circle.  Overwriting a route afterwards     *)
(* does not change it.                                                      *)
(***************************************************************************)
EXTENDS Fanout, WellFoundedInduction, SequenceTheorems, TLAPS

Holding == {"fanout", "await", "accepted"}  \* its route is written
Passed == {"insert"} \cup Holding           \* it got past the look-up

(* The shape of the calls: every handler but the portal's was called by a   *)
(* node with a route, and waits only for a handler that exists.             *)
CallShape ==
  /\ Root \in calls /\ pc[Root] \in Holding
  /\ \A h \in calls : Len(h) >= 1
  /\ \A h \in calls \ {Root} : Len(h) >= 2 /\ Routed(From(h))
  /\ \A h \in calls : pc[h] \in Holding => Routed(Self(h))
  /\ \A h \in calls : pc[h] = "await" => callee[h] \in calls

(* joined numbers the nodes with a route. *)
JoinOrder ==
  /\ joined[Portal] = 1 /\ Routed(Portal)
  /\ \A n \in Node : joined[n] <= clock
  /\ \A n \in Node : Routed(n) <=> joined[n] > 0

(* The caller's node joined before the callee's, for the handlers that may  *)
(* yet write a route and for the routes that are written.                   *)
UpstreamFirst ==
  /\ \A h \in calls \ {Root} :
       (pc[h] \in Passed /\ Routed(Self(h))) => joined[From(h)] < joined[Self(h)]
  /\ \A n \in Node \ {Portal} :
       Routed(n) => /\ Len(route[n]) >= 2
                    /\ Routed(Upstream(n))
                    /\ joined[Upstream(n)] < joined[n]

RouteInv == TypeOK /\ CallShape /\ JoinOrder /\ UpstreamFirst

-----------------------------------------------------------------------------

(* The ends of a path of at least one node are nodes. *)
LEMMA PathEnds ==
  ASSUME NEW h \in Path, Len(h) >= 1
  PROVE  /\ Self(h) \in Node
         /\ Len(h) >= 2 => From(h) \in Node
  BY DEF Path, Self, From

(* A call from handler h to nb is named by the longer path. *)
LEMMA CalledPath ==
  ASSUME NEW h \in Path, Len(h) >= 1, NEW nb \in Node
  PROVE  /\ Append(h, nb) \in Path
         /\ Len(Append(h, nb)) = Len(h) + 1
         /\ Self(Append(h, nb)) = nb
         /\ From(Append(h, nb)) = Self(h)
         /\ Append(h, nb) # Root
         /\ Append(h, nb) # h
         /\ Append(h, nb) # <<>>
  BY DEF Path, Self, From, Root

(* The portal's path. *)
LEMMA RootPath ==
  /\ Root \in Path /\ Len(Root) = 1 /\ Self(Root) = Portal /\ Root # <<>> /\ <<>> \in Path
  BY FanoutConstants DEF Root, Path, Self

(* The portal alone has a route, its own. *)
LEMMA InitRouteInv == Init => RouteInv
  <1> SUFFICES ASSUME Init PROVE RouteInv
    OBVIOUS
  <1> USE FanoutConstants, RootPath
  <1>1. TypeOK
    BY DEF Init, TypeOK, Running, Finished
  <1>2. CallShape
    BY DEF Init, CallShape, Holding, Routed
  <1>3. JoinOrder
    BY DEF Init, JoinOrder, Routed
  <1>4. UpstreamFirst
    BY DEF Init, UpstreamFirst, Routed
  <1> QED BY <1>1, <1>2, <1>3, <1>4 DEF RouteInv

(* Steps that only move handlers along, and leave calls and routes alone:   *)
(* what a handler holds or has passed it held or had passed before.         *)
LEMMA StepAlong ==
  ASSUME RouteInv, TypeOK', calls' = calls, UNCHANGED <<route, joined, clock>>,
         \A h \in calls : pc'[h] \in Passed => \/ pc[h] \in Passed
                                               \/ h # Root /\ ~Routed(Self(h)),
         \A h \in calls : pc'[h] \in Holding => pc[h] \in Holding,
         \A h \in calls : pc'[h] = "await" => pc[h] = "await" /\ callee'[h] = callee[h],
         pc[Root] \in Holding => pc'[Root] \in Holding
  PROVE  RouteInv'
  <1>1. CallShape'
    BY DEF RouteInv, CallShape, Routed
  <1>2. JoinOrder'
    BY DEF RouteInv, JoinOrder, Routed
  <1>3. UpstreamFirst'
    BY DEF RouteInv, UpstreamFirst, Routed, Upstream
  <1> QED BY <1>1, <1>2, <1>3 DEF RouteInv

(* A call starts a handler from a node that has a route. *)
LEMMA CallRouteInv ==
  ASSUME RouteInv, NEW h \in calls, NEW nb \in todo[h], Call(h, nb)
  PROVE  RouteInv'
  <1> DEFINE g == Append(h, nb)
  <1>1. /\ h \in Path /\ Len(h) >= 1 /\ nb \in Node /\ Routed(Self(h)) /\ Self(h) \in Node
    BY PathEnds DEF RouteInv, TypeOK, CallShape, Call, Holding
  <1>2. /\ g \in Path /\ Len(g) = Len(h) + 1 /\ Self(g) = nb /\ From(g) = Self(h)
        /\ g # Root /\ g # h
    BY <1>1, CalledPath
  <1>3. /\ calls' = calls \cup {g}
        /\ pc' = [x \in calls' |-> IF x = g THEN "check" ELSE IF x = h THEN "await" ELSE pc[x]]
        /\ callee' = [x \in calls' |-> IF x = g THEN <<>> ELSE IF x = h THEN g ELSE callee[x]]
        /\ UNCHANGED <<route, joined, clock>>
    BY DEF Call
  <1>4. TypeOK'
    BY <1>1, <1>2, RootPath DEF RouteInv, TypeOK, Call, Running
  <1>5. CallShape'
    <2>1. \A x \in calls' : x = g \/ (x = h /\ x # g) \/ (x \in calls /\ x # g /\ x # h)
      BY <1>3
    <2>2. pc'[g] = "check" /\ pc'[h] = "await" /\ callee'[h] = g
      BY <1>2, <1>3
    <2>3. \A x \in calls : x # g /\ x # h => pc'[x] = pc[x] /\ callee'[x] = callee[x]
      BY <1>3
    <2>4. Root \in calls' /\ pc'[Root] \in Holding
      BY <1>2, <1>3, <2>2, <2>3 DEF RouteInv, CallShape, Holding
    <2>5. \A x \in calls' : Len(x) >= 1
      BY <1>1, <1>2, <1>3 DEF RouteInv, CallShape
    <2>6. \A x \in calls' \ {Root} : Len(x) >= 2 /\ Routed(From(x))'
      <3>1. Len(g) >= 2 /\ Routed(From(g))'
        <4>1. Routed(Self(h))'
          BY <1>1, <1>3 DEF Routed
        <4> HIDE DEF g
        <4> QED BY <1>1, <1>2, <4>1 DEF CallShape, RouteInv, TypeOK, Path
      <3>2. \A x \in calls \ {Root} : Len(x) >= 2 /\ Routed(From(x))'
        BY <1>3 DEF RouteInv, CallShape, Routed
      <3> QED BY <1>3, <3>1, <3>2
    <2>7. \A x \in calls' : pc'[x] \in Holding => Routed(Self(x))'
      BY <1>1, <1>3, <2>1, <2>2, <2>3 DEF RouteInv, CallShape, Routed, Holding
    <2>8. \A x \in calls' : pc'[x] = "await" => callee'[x] \in calls'
      BY <1>3, <2>1, <2>2, <2>3 DEF RouteInv, CallShape
    <2> QED BY <2>4, <2>5, <2>6, <2>7, <2>8 DEF CallShape
  <1>6. JoinOrder'
    BY <1>3 DEF RouteInv, JoinOrder, Routed
  <1>7. UpstreamFirst'
    BY <1>2, <1>3 DEF RouteInv, UpstreamFirst, Routed, Upstream, Passed, Holding, Call
  <1> QED BY <1>4, <1>5, <1>6, <1>7 DEF RouteInv

(* A failed call changes no route. *)
LEMMA CallFailsRouteInv ==
  ASSUME RouteInv, NEW h \in calls, NEW nb \in todo[h], CallFails(h, nb)
  PROVE  RouteInv'
  <1>1. TypeOK'
    BY DEF RouteInv, TypeOK, CallFails, MarkRefused
  <1> QED BY <1>1, StepAlong DEF CallFails

(* The look-up changes no route. *)
LEMMA CheckRouteInv ==
  ASSUME RouteInv, NEW h \in calls, Check(h)
  PROVE  RouteInv'
  <1>1. TypeOK'
    BY DEF RouteInv, TypeOK, Check, Running, Finished
  <1>2. h # Root
    BY DEF RouteInv, CallShape, Check, Holding
  <1>3. \A x \in calls : pc'[x] \in Passed => pc[x] \in Passed \/ (x # Root /\ ~Routed(Self(x)))
    BY <1>2 DEF Check, Passed, Holding, RouteInv, TypeOK
  <1>4. /\ \A x \in calls : pc'[x] \in Holding => pc[x] \in Holding
        /\ \A x \in calls : pc'[x] = "await" => pc[x] = "await" /\ callee'[x] = callee[x]
        /\ pc[Root] \in Holding => pc'[Root] \in Holding
    BY <1>2 DEF Check, Holding, RouteInv, TypeOK
  <1> QED BY <1>1, <1>3, <1>4, StepAlong DEF Check

(* An answer, or the deadline in its stead, changes no route. *)
LEMMA AnsweredRouteInv ==
  ASSUME RouteInv, NEW h \in calls, Answered(h) \/ DeadlineExpires(h)
  PROVE  RouteInv'
  <1>1. /\ pc[h] = "await" /\ pc' = [pc EXCEPT ![h] = "fanout"]
        /\ callee' = [callee EXCEPT ![h] = <<>>]
        /\ UNCHANGED <<calls, todo, route, executed, joined, clock>>
    BY DEF Answered, DeadlineExpires
  <1>2. Self(callee[h]) \in Node
    BY <1>1, PathEnds DEF RouteInv, TypeOK, CallShape
  <1>3. TypeOK'
    BY <1>1, <1>2, RootPath
    DEF RouteInv, TypeOK, Answered, DeadlineExpires, MarkRefused, Running
  <1>4. /\ \A x \in calls : pc'[x] \in Passed => pc[x] \in Passed
        /\ \A x \in calls : pc'[x] \in Holding => pc[x] \in Holding
        /\ \A x \in calls : pc'[x] = "await" => pc[x] = "await" /\ callee'[x] = callee[x]
        /\ pc[Root] \in Holding => pc'[Root] \in Holding
    BY <1>1 DEF Passed, Holding, RouteInv, TypeOK, CallShape
  <1> QED BY <1>1, <1>3, <1>4, StepAlong

(* Starting the worker changes no route. *)
LEMMA AcceptRouteInv ==
  ASSUME RouteInv, NEW h \in calls, Accept(h)
  PROVE  RouteInv'
  <1>1. TypeOK'
    BY DEF RouteInv, TypeOK, Accept, Finished
  <1>2. /\ \A x \in calls : pc'[x] \in Passed => pc[x] \in Passed
        /\ \A x \in calls : pc'[x] \in Holding => pc[x] \in Holding
        /\ \A x \in calls : pc'[x] = "await" => pc[x] = "await" /\ callee'[x] = callee[x]
        /\ pc[Root] \in Holding => pc'[Root] \in Holding
    BY DEF Accept, Passed, Holding, RouteInv, TypeOK, CallShape
  <1> QED BY <1>1, <1>2, StepAlong DEF Accept

(* An insert, the first at its node or an overwriting one, points to an earlier node. *)
LEMMA InsertRouteInv ==
  ASSUME RouteInv, NEW h \in calls, Insert(h)
  PROVE  RouteInv'
  <1> DEFINE n == Self(h)
  <1> DEFINE u == From(h)
  <1>1. /\ h # Root /\ h \in Path /\ Len(h) >= 2 /\ n \in Node /\ u \in Node /\ Routed(u)
        /\ pc[h] = "insert" /\ h # <<>>
    <2>1. /\ pc[h] = "insert" /\ h # Root /\ h \in Path
      BY DEF Insert, RouteInv, TypeOK, CallShape, Holding
    <2>2. Len(h) >= 2 /\ Routed(u)
      BY <2>1 DEF RouteInv, CallShape
    <2>3. h # <<>> /\ n \in Node /\ u \in Node
      BY <2>1, <2>2, PathEnds DEF Path
    <2> QED BY <2>1, <2>2, <2>3
  <1>2. /\ route' = [route EXCEPT ![n] = h] /\ pc' = [pc EXCEPT ![h] = "fanout"]
        /\ UNCHANGED <<calls, callee, doneEarly, executed>>
    BY DEF Insert
  <1>3. TypeOK'
    <2>1. FanoutSet(h) \subseteq Node
      BY <1>1, FanoutConstants DEF FanoutSet
    <2>2. clock' \in Nat /\ joined' \in [Node -> Nat]
      <3>1. clock \in Nat /\ joined \in [Node -> Nat]
        BY DEF RouteInv, TypeOK
      <3>2. CASE Routed(n)
        BY <3>1, <3>2 DEF Insert
      <3>3. CASE ~Routed(n)
        <4>1. clock' = clock + 1 /\ joined' = [joined EXCEPT ![n] = clock']
          BY <3>3 DEF Insert
        <4>2. clock' \in Nat
          BY <3>1, <4>1
        <4> QED BY <1>1, <3>1, <4>1, <4>2
      <3> QED BY <3>2, <3>3
    <2>3. pc' \in [calls -> Running \cup Finished] /\ todo' \in [calls -> SUBSET Node]
      <3>1. pc \in [calls -> Running \cup Finished] /\ todo \in [calls -> SUBSET Node]
        BY DEF RouteInv, TypeOK
      <3>2. todo' = [todo EXCEPT ![h] = FanoutSet(h)]
        BY DEF Insert
      <3>3. pc' \in [calls -> Running \cup Finished]
        BY <1>2, <3>1 DEF Running
      <3>4. todo' \in [calls -> SUBSET Node]
        BY <2>1, <3>1, <3>2
      <3> QED BY <3>3, <3>4
    <2>4. route' \in [Node -> Path]
      BY <1>1, <1>2 DEF RouteInv, TypeOK
    <2> QED BY <1>2, <2>2, <2>3, <2>4 DEF RouteInv, TypeOK
  <1>4. \A m \in Node : Routed(m)' <=> (Routed(m) \/ m = n)
    BY <1>1, <1>2 DEF Routed, RouteInv, TypeOK
  <1>5. CASE Routed(n)
    <2>1. UNCHANGED <<joined, clock>>
      BY <1>5 DEF Insert
    <2>2. joined[u] < joined[n]
      BY <1>1, <1>5 DEF RouteInv, UpstreamFirst, Passed
    <2>3. n # Portal
      BY <1>1, <2>2 DEF RouteInv, TypeOK, JoinOrder
    <2>4. CallShape'
      BY <1>1, <1>2, <1>4, <1>5, PathEnds DEF RouteInv, TypeOK, CallShape, Holding
    <2>5. JoinOrder'
      BY <1>4, <1>5, <2>1, FanoutConstants DEF RouteInv, JoinOrder
    <2>6. UpstreamFirst'
      <3>1. \A x \in calls \ {Root} :
              (pc'[x] \in Passed /\ Routed(Self(x))') => joined'[From(x)] < joined'[Self(x)]
        BY <1>1, <1>2, <1>4, <1>5, <2>1, PathEnds
        DEF RouteInv, TypeOK, CallShape, UpstreamFirst, Passed, Holding
      <3>2. \A m \in Node \ {Portal} :
              Routed(m)' => /\ Len(route'[m]) >= 2 /\ Routed(Upstream(m))'
                            /\ joined'[Upstream(m)'] < joined'[m]
        BY <1>1, <1>2, <1>4, <1>5, <2>1, <2>2, PathEnds
        DEF RouteInv, TypeOK, UpstreamFirst, Upstream
      <3> QED BY <1>2, <3>1, <3>2 DEF UpstreamFirst
    <2> QED BY <1>3, <2>4, <2>5, <2>6 DEF RouteInv
  <1>6. CASE ~Routed(n)
    <2>1. clock' = clock + 1 /\ joined' = [joined EXCEPT ![n] = clock + 1]
      BY <1>6 DEF Insert
    <2>2. u # n /\ n # Portal /\ joined[u] <= clock /\ clock \in Nat
      BY <1>1, <1>6 DEF RouteInv, TypeOK, JoinOrder
    <2>3. CallShape'
      BY <1>1, <1>2, <1>4, PathEnds DEF RouteInv, TypeOK, CallShape, Holding
    <2>4. JoinOrder'
      BY <1>1, <1>4, <2>1, <2>2, FanoutConstants DEF RouteInv, TypeOK, JoinOrder
    <2>5. UpstreamFirst'
      <3>1. \A x \in calls \ {Root} :
              (pc'[x] \in Passed /\ Routed(Self(x))') => joined'[From(x)] < joined'[Self(x)]
        <4> SUFFICES ASSUME NEW x \in calls \ {Root}, pc'[x] \in Passed, Routed(Self(x))'
                     PROVE  joined'[From(x)] < joined'[Self(x)]
          OBVIOUS
        <4>1. Routed(From(x)) /\ From(x) \in Node /\ Self(x) \in Node /\ From(x) # n
          BY <1>6, PathEnds DEF RouteInv, TypeOK, CallShape
        <4>2. pc[x] \in Passed
          BY <1>1, <1>2 DEF RouteInv, TypeOK, Passed
        <4>3. CASE Self(x) = n
          BY <2>1, <2>2, <4>1, <4>3, <1>1 DEF RouteInv, TypeOK, JoinOrder
        <4>4. CASE Self(x) # n
          BY <1>4, <2>1, <4>1, <4>2, <4>4 DEF RouteInv, TypeOK, UpstreamFirst
        <4> QED BY <4>3, <4>4
      <3>2. \A m \in Node \ {Portal} :
              Routed(m)' => /\ Len(route'[m]) >= 2 /\ Routed(Upstream(m))'
                            /\ joined'[Upstream(m)'] < joined'[m]
        <4> SUFFICES ASSUME NEW m \in Node \ {Portal}, Routed(m)'
                     PROVE  /\ Len(route'[m]) >= 2 /\ Routed(Upstream(m))'
                            /\ joined'[Upstream(m)'] < joined'[m]
          OBVIOUS
        <4>1. CASE m = n
          <5>1. route'[m] = h /\ Upstream(m)' = u
            BY <1>1, <1>2, <4>1 DEF RouteInv, TypeOK, Upstream
          <5>2. joined'[u] = joined[u] /\ joined'[m] = clock + 1 /\ joined[u] \in Nat
            BY <1>1, <2>1, <2>2, <4>1 DEF RouteInv, TypeOK
          <5>3. Routed(u)'
            BY <1>1, <1>4
          <5>4. Routed(Upstream(m))'
            BY <5>1, <5>3 DEF Routed
          <5> QED BY <1>1, <2>2, <5>1, <5>2, <5>4
        <4>2. CASE m # n
          <5>1. route'[m] = route[m] /\ Upstream(m)' = Upstream(m) /\ Routed(m)
            BY <1>2, <1>4, <4>2 DEF RouteInv, TypeOK, Upstream
          <5>2. Len(route[m]) >= 2 /\ Routed(Upstream(m)) /\ joined[Upstream(m)] < joined[m]
            BY <5>1 DEF RouteInv, UpstreamFirst
          <5>3. Upstream(m) \in Node /\ Upstream(m) # n
            BY <1>6, <5>1, <5>2, PathEnds DEF RouteInv, TypeOK, Upstream
          <5>4. Routed(Upstream(m))'
            BY <1>4, <5>1, <5>2, <5>3 DEF Routed
          <5> QED BY <2>1, <4>2, <5>1, <5>2, <5>3, <5>4 DEF RouteInv, TypeOK
        <4> QED BY <4>1, <4>2
      <3> QED BY <1>2, <3>1, <3>2 DEF UpstreamFirst
    <2> QED BY <1>3, <2>3, <2>4, <2>5 DEF RouteInv
  <1> QED BY <1>5, <1>6

(* Every step keeps the routing invariant ... *)
LEMMA NextRouteInv == RouteInv /\ [Next]_vars => RouteInv'
  <1> SUFFICES ASSUME RouteInv, [Next]_vars PROVE RouteInv'
    OBVIOUS
  <1>1. CASE UNCHANGED vars
    BY <1>1 DEF vars, RouteInv, TypeOK, CallShape, JoinOrder, UpstreamFirst, Routed, Upstream
  <1>2. CASE Next
    BY <1>2, CallRouteInv, CallFailsRouteInv, CheckRouteInv, InsertRouteInv,
       AnsweredRouteInv, AcceptRouteInv DEF Next
  <1> QED BY <1>1, <1>2

(* ... which therefore always holds. *)
LEMMA RouteInvariant == Spec => []RouteInv
  BY InitRouteInv, NextRouteInv, PTL DEF Spec

(* The handlers' locals, routes_ and the portal's done marks keep their     *)
(* types in every overlay.                                                  *)
THEOREM TypeCorrect == Spec => []TypeOK
  BY RouteInvariant, PTL DEF RouteInv

(* A set of nodes with routes has a member that joined first, and the       *)
(* upstream of that one is not in the set.                                  *)
LEMMA RouteInvLeads == RouteInv => RoutesLeadToPortal
  <1> SUFFICES ASSUME RouteInv,
                      NEW S \in SUBSET {n \in Node \ {Portal} : Routed(n)}, S # {}
               PROVE  \E n \in S : Upstream(n) \notin S /\ Routed(Upstream(n))
    BY DEF RoutesLeadToPortal
  <1> DEFINE Turns == {joined[n] : n \in S}
  <1>1. Turns \subseteq Nat /\ Turns # {}
    BY DEF RouteInv, TypeOK
  <1>2. PICK first \in Turns : \A t \in Turns : ~(<<t, first>> \in OpToRel(<, Nat))
    BY <1>1, NatLessThanWellFounded, WFMin
  <1>3. PICK n \in S : joined[n] = first
    OBVIOUS
  <1>4. Routed(Upstream(n)) /\ joined[Upstream(n)] < joined[n]
    BY DEF RouteInv, UpstreamFirst
  <1>5. Upstream(n) \notin S
    <2> SUFFICES ASSUME Upstream(n) \in S PROVE FALSE
      OBVIOUS
    <2>1. joined[Upstream(n)] \in Turns /\ joined[Upstream(n)] \in Nat /\ first \in Nat
      BY <1>1
    <2>2. <<joined[Upstream(n)], first>> \in OpToRel(<, Nat)
      BY <1>3, <1>4, <2>1 DEF OpToRel
    <2> QED BY <1>2, <2>1, <2>2
  <1> QED BY <1>4, <1>5

(* In every overlay, whatever deadlines expire and handlers overwrite each  *)
(* other's RouteState, the upstream pointers lead to the portal.            *)
THEOREM UpstreamReachesPortal == Spec => []RoutesLeadToPortal
  BY RouteInvariant, RouteInvLeads, PTL

-----------------------------------------------------------------------------
(***************************************************************************)
(* Without expiring deadlines ForwardQuery is one long nested call, so one  *)
(* handler moves at a time and nothing comes between the dedupe look-up and *)
(* the insert.                                                              *)
(***************************************************************************)

(* h can take a step *)
Live(h) == \/ pc[h] \in {"check", "insert", "fanout"}
           \/ pc[h] = "await" /\ pc[callee[h]] \in Finished

(* One handler moves, and a handler answers one caller. *)
OneThread ==
  /\ \A g, h \in calls : Live(g) /\ Live(h) => g = h
  /\ \A g, h \in calls : (pc[g] = "await" /\ pc[h] = "await" /\ callee[g] = callee[h]) => g = h

(* Calls form a tree, and what is to be called has not been. *)
CallTree ==
  /\ \A h \in Path, nb \in Node : (h # <<>> /\ Append(h, nb) \in calls) => h \in calls
  /\ \A h \in calls : \A nb \in todo[h] : Append(h, nb) \notin calls
  /\ \A h \in calls : pc[h] \in {"check", "insert"} => \A nb \in Node : Append(h, nb) \notin calls

(* The look-up is still true at the insert, and a route is never another    *)
(* handler's.                                                               *)
OwnRoute ==
  /\ \A h \in calls : pc[h] = "insert" => ~Routed(Self(h))
  /\ \A h \in calls : pc[h] \in Holding => route[Self(h)] = h
  /\ \A h \in executed : pc[h] = "accepted"

SyncInv == RouteInv /\ OneThread /\ CallTree /\ OwnRoute

(* SubmitQuery is the only thread at the start. *)
LEMMA InitSyncInv == Init => SyncInv
  <1> SUFFICES ASSUME Init PROVE SyncInv
    OBVIOUS
  <1>1. RouteInv
    BY InitRouteInv
  <1>2. calls = {Root} /\ pc[Root] = "fanout" /\ route[Portal] = Root /\ executed = {}
    BY FanoutConstants DEF Init
  <1>3. \A h \in Path, nb \in Node : h # <<>> => Append(h, nb) # Root
    BY AppendProperties DEF Path, Root
  <1>4. OneThread
    BY <1>2 DEF OneThread
  <1>5. CallTree
    BY <1>1, <1>2, <1>3, RootPath DEF CallTree, RouteInv, TypeOK
  <1>6. OwnRoute
    BY <1>2, RootPath DEF OwnRoute
  <1> QED BY <1>1, <1>4, <1>5, <1>6 DEF SyncInv

(* A handler that could move and stays able to: no other one could. *)
LEMMA StaysLive ==
  ASSUME SyncInv, NEW h \in calls, Live(h), pc[h] \notin Finished, pc'[h] \notin Finished \cup {"await"},
         calls' = calls, \A x \in calls \ {h} : pc'[x] = pc[x] /\ callee'[x] = callee[x]
  PROVE  OneThread'
  <1>1. \A x \in calls \ {h} : ~Live(x)
    BY DEF SyncInv, OneThread
  <1>2. \A x \in calls \ {h} : ~Live(x)'
    <2> SUFFICES ASSUME NEW x \in calls \ {h}, Live(x)' PROVE FALSE
      OBVIOUS
    <2>1. pc[x] = "await" /\ callee[x] \in calls /\ pc'[callee[x]] \in Finished
      BY <1>1 DEF Live, SyncInv, RouteInv, CallShape
    <2>2. pc[callee[x]] \in Finished
      BY <2>1
    <2> QED BY <1>1, <2>1, <2>2 DEF Live
  <1>3. \A x, y \in calls : Live(x)' /\ Live(y)' => x = y
    BY <1>2
  <1>4. \A x, y \in calls : (pc'[x] = "await" /\ pc'[y] = "await" /\ callee'[x] = callee'[y]) => x = y
    BY DEF SyncInv, OneThread
  <1> QED BY <1>3, <1>4 DEF OneThread

(* A handler that finishes: now its caller can move, and no other. *)
LEMMA FinishedNow ==
  ASSUME SyncInv, NEW h \in calls, Live(h), pc[h] # "await", pc'[h] \in Finished,
         calls' = calls, callee' = callee, \A x \in calls \ {h} : pc'[x] = pc[x]
  PROVE  OneThread'
  <1>1. \A x \in calls \ {h} : ~Live(x)
    BY DEF SyncInv, OneThread
  <1>2. \A x \in calls : Live(x)' => pc[x] = "await" /\ callee[x] = h
    <2> SUFFICES ASSUME NEW x \in calls, Live(x)' PROVE pc[x] = "await" /\ callee[x] = h
      OBVIOUS
    <2>1. x # h
      BY DEF Live, Finished
    <2>2. pc[x] = "await" /\ callee[x] \in calls /\ pc'[callee[x]] \in Finished
      BY <1>1, <2>1 DEF Live, SyncInv, RouteInv, CallShape
    <2>3. callee[x] # h => pc[callee[x]] \in Finished
      BY <2>2
    <2> QED BY <1>1, <2>1, <2>2, <2>3 DEF Live
  <1>3. \A x, y \in calls : Live(x)' /\ Live(y)' => x = y
    BY <1>2 DEF SyncInv, OneThread
  <1>4. \A x, y \in calls : (pc'[x] = "await" /\ pc'[y] = "await" /\ callee'[x] = callee'[y]) => x = y
    BY DEF SyncInv, OneThread, Finished
  <1> QED BY <1>3, <1>4 DEF OneThread

(* The caller blocks as its callee starts. *)
LEMMA CallSyncInv ==
  ASSUME SyncInv, NEW h \in calls, NEW nb \in todo[h], Call(h, nb)
  PROVE  SyncInv'
  <1> DEFINE g == Append(h, nb)
  <1>0. RouteInv'
    BY CallRouteInv DEF SyncInv
  <1>1. h \in Path /\ h # <<>> /\ nb \in Node /\ g \notin calls /\ g \in Path /\ g # h
        /\ pc[h] = "fanout"
    BY CalledPath, EmptySeq DEF SyncInv, RouteInv, TypeOK, CallShape, CallTree, Call
  <1>2. /\ calls' = calls \cup {g} /\ pc'[g] = "check" /\ pc'[h] = "await" /\ callee'[h] = g
        /\ todo'[g] = {} /\ todo'[h] = todo[h] \ {nb}
        /\ \A x \in calls \ {h} : /\ pc'[x] = pc[x] /\ callee'[x] = callee[x]
                                  /\ todo'[x] = todo[x]
        /\ UNCHANGED <<route, executed>>
    BY <1>1 DEF Call
  <1> HIDE DEF g
  <1>3. OneThread'
    <2>1. \A x \in calls \ {h} : ~Live(x)
      BY <1>1 DEF SyncInv, OneThread, Live
    <2>2. ~Live(h)'
      BY <1>2 DEF Live, Finished
    <2>3. \A x \in calls \ {h} : ~Live(x)'
      <3> SUFFICES ASSUME NEW x \in calls \ {h}, Live(x)' PROVE FALSE
        OBVIOUS
      <3>1. pc[x] = "await" /\ callee[x] \in calls /\ pc'[callee[x]] \in Finished
        BY <1>2, <2>1 DEF Live, SyncInv, RouteInv, CallShape
      <3>2. pc[callee[x]] \in Finished
        BY <1>1, <1>2, <3>1 DEF Finished
      <3> QED BY <2>1, <3>1, <3>2 DEF Live
    <2>4. \A x, y \in calls' : Live(x)' /\ Live(y)' => x = y
      BY <1>2, <2>2, <2>3
    <2>5. \A x, y \in calls' :
            (pc'[x] = "await" /\ pc'[y] = "await" /\ callee'[x] = callee'[y]) => x = y
      <3> SUFFICES ASSUME NEW x \in calls', NEW y \in calls', pc'[x] = "await",
                          pc'[y] = "await", callee'[x] = callee'[y]
                   PROVE  x = y
        OBVIOUS
      <3>1. x # g /\ y # g
        BY <1>2
      <3>2. \A z \in calls \ {h} : pc'[z] = "await" => callee'[z] # g
        BY <1>1, <1>2 DEF SyncInv, RouteInv, CallShape
      <3>3. CASE x = h \/ y = h
        BY <1>2, <3>1, <3>2, <3>3
      <3>4. CASE x # h /\ y # h
        BY <1>2, <3>1, <3>4 DEF SyncInv, OneThread
      <3> QED BY <3>3, <3>4
    <2> QED BY <2>4, <2>5 DEF OneThread
  <1>4. CallTree'
    <2>1. \A x \in Path, m \in Node : Append(x, m) = g => x = h /\ m = nb
      BY <1>1, AppendInjective DEF g, Path
    <2>2. \A x \in Path, m \in Node : (x # <<>> /\ Append(x, m) \in calls') => x \in calls'
      BY <1>1, <1>2, <2>1 DEF SyncInv, CallTree
    <2>3. \A x \in calls' : \A m \in todo'[x] : Append(x, m) \notin calls'
      <3> SUFFICES ASSUME NEW x \in calls', NEW m \in todo'[x] PROVE Append(x, m) \notin calls'
        OBVIOUS
      <3>1. x \in calls /\ x \in Path /\ m \in todo[x] /\ m \in Node /\ (x = h => m # nb)
        BY <1>2 DEF SyncInv, RouteInv, TypeOK
      <3>2. Append(x, m) \notin calls
        BY <3>1 DEF SyncInv, CallTree
      <3> QED BY <1>2, <2>1, <3>1, <3>2
    <2>4. g # <<>>
      BY <1>1, CalledPath DEF g, SyncInv, RouteInv, CallShape
    <2>5. \A x \in calls' :
            pc'[x] \in {"check", "insert"} => \A m \in Node : Append(x, m) \notin calls'
      <3> SUFFICES ASSUME NEW x \in calls', pc'[x] \in {"check", "insert"}, NEW m \in Node
                   PROVE  Append(x, m) \notin calls'
        OBVIOUS
      <3>1. x \in Path /\ x # h
        BY <1>1, <1>2 DEF SyncInv, RouteInv, TypeOK
      <3>2. Append(x, m) # g
        BY <2>1, <3>1
      <3>3. Append(x, m) \notin calls
        <4>1. CASE x = g
          BY <1>1, <2>4, <4>1 DEF SyncInv, CallTree
        <4>2. CASE x # g
          BY <1>2, <3>1, <4>2 DEF SyncInv, CallTree
        <4> QED BY <4>1, <4>2
      <3> QED BY <1>2, <3>2, <3>3
    <2> QED BY <2>2, <2>3, <2>5 DEF CallTree
  <1>5. OwnRoute'
    BY <1>1, <1>2 DEF SyncInv, OwnRoute, Routed, Holding, RouteInv, TypeOK
  <1> QED BY <1>0, <1>3, <1>4, <1>5 DEF SyncInv

(* A failed call starts no thread. *)
LEMMA CallFailsSyncInv ==
  ASSUME SyncInv, NEW h \in calls, NEW nb \in todo[h], CallFails(h, nb)
  PROVE  SyncInv'
  <1>1. RouteInv'
    BY CallFailsRouteInv DEF SyncInv
  <1>2. /\ UNCHANGED <<calls, pc, callee, route, executed>>
        /\ \A x \in calls : todo'[x] \subseteq todo[x]
    BY DEF CallFails, SyncInv, RouteInv, TypeOK
  <1>3. OneThread' /\ OwnRoute'
    BY <1>2 DEF SyncInv, OneThread, OwnRoute, Live, Routed
  <1>4. CallTree'
    BY <1>2 DEF SyncInv, CallTree
  <1> QED BY <1>1, <1>3, <1>4 DEF SyncInv

(* Whoever gets past the look-up is the only one to do so at its node. *)
LEMMA CheckSyncInv ==
  ASSUME SyncInv, NEW h \in calls, Check(h)
  PROVE  SyncInv'
  <1>1. RouteInv'
    BY CheckRouteInv DEF SyncInv
  <1>2. /\ pc[h] = "check" /\ Live(h)
        /\ pc'[h] \in {"rejected", "insert"} /\ (pc'[h] = "insert" => ~Routed(Self(h)))
        /\ \A x \in calls \ {h} : pc'[x] = pc[x]
        /\ UNCHANGED <<calls, todo, callee, route, executed>>
    BY DEF Check, Live, SyncInv, RouteInv, TypeOK
  <1>3. OneThread'
    BY <1>2, StaysLive, FinishedNow DEF Finished
  <1>4. CallTree'
    BY <1>2 DEF SyncInv, CallTree
  <1>5. OwnRoute'
    BY <1>2 DEF SyncInv, OwnRoute, Routed, Holding, RouteInv, TypeOK
  <1> QED BY <1>1, <1>3, <1>4, <1>5 DEF SyncInv

(* So its insert overwrites nothing. *)
LEMMA InsertSyncInv ==
  ASSUME SyncInv, NEW h \in calls, Insert(h)
  PROVE  SyncInv' /\ ~Routed(Self(h))
  <1>1. RouteInv'
    BY InsertRouteInv DEF SyncInv
  <1>2. /\ pc[h] = "insert" /\ Live(h) /\ ~Routed(Self(h)) /\ pc'[h] = "fanout"
        /\ todo'[h] \subseteq Node /\ Self(h) \in Node /\ h # <<>>
        /\ \A x \in calls \ {h} : pc'[x] = pc[x] /\ todo'[x] = todo[x]
        /\ route' = [route EXCEPT ![Self(h)] = h]
        /\ UNCHANGED <<calls, callee, executed>>
    BY <1>1, PathEnds, EmptySeq DEF Insert, Live, SyncInv, RouteInv, TypeOK, OwnRoute, CallShape, Path
  <1>3. OneThread'
    BY <1>2, StaysLive DEF Finished
  <1>4. CallTree'
    BY <1>2 DEF SyncInv, CallTree
  <1>5. OwnRoute'
    <2>1. \A x \in calls \ {h} : pc[x] # "insert"
      BY <1>2 DEF SyncInv, OneThread, Live
    <2>2. \A x \in calls \ {h} : pc[x] \in Holding => Self(x) # Self(h) /\ Self(x) \in Node
      BY <1>2, PathEnds DEF SyncInv, RouteInv, TypeOK, CallShape
    <2>3. \A x \in calls \ {h} : pc[x] \in Holding => route'[Self(x)] = x
      BY <1>2, <2>2 DEF SyncInv, OwnRoute, RouteInv, TypeOK
    <2>4. route'[Self(h)] = h
      BY <1>2 DEF SyncInv, RouteInv, TypeOK
    <2>5. h \notin executed
      BY <1>2 DEF SyncInv, OwnRoute
    <2> QED BY <1>2, <2>1, <2>3, <2>4, <2>5 DEF SyncInv, OwnRoute, RouteInv, TypeOK, Holding
  <1> QED BY <1>1, <1>2, <1>3, <1>4, <1>5 DEF SyncInv

(* The caller goes on when its callee has finished. *)
LEMMA AnsweredSyncInv ==
  ASSUME SyncInv, NEW h \in calls, Answered(h)
  PROVE  SyncInv'
  <1>1. RouteInv'
    BY AnsweredRouteInv DEF SyncInv
  <1>2. /\ pc[h] = "await" /\ Live(h) /\ pc'[h] = "fanout"
        /\ \A x \in calls \ {h} : pc'[x] = pc[x] /\ callee'[x] = callee[x]
        /\ UNCHANGED <<calls, todo, route, executed>>
    BY DEF Answered, Live, SyncInv, RouteInv, TypeOK
  <1>3. OneThread'
    BY <1>2, StaysLive DEF Finished
  <1>4. CallTree'
    BY <1>2 DEF SyncInv, CallTree
  <1>5. OwnRoute'
    BY <1>2 DEF SyncInv, OwnRoute, Routed, Holding, RouteInv, TypeOK
  <1> QED BY <1>1, <1>3, <1>4, <1>5 DEF SyncInv

(* A handler that accepts owns the route of its node. *)
LEMMA AcceptSyncInv ==
  ASSUME SyncInv, NEW h \in calls, Accept(h)
  PROVE  SyncInv'
  <1>1. RouteInv'
    BY AcceptRouteInv DEF SyncInv
  <1>2. /\ pc[h] = "fanout" /\ Live(h) /\ pc'[h] = "accepted" /\ executed' = executed \cup {h}
        /\ \A x \in calls \ {h} : pc'[x] = pc[x]
        /\ UNCHANGED <<calls, todo, callee, route>>
    BY DEF Accept, Live, SyncInv, RouteInv, TypeOK
  <1>3. OneThread'
    BY <1>2, FinishedNow DEF Finished
  <1>4. CallTree'
    BY <1>2 DEF SyncInv, CallTree
  <1>5. OwnRoute'
    BY <1>2 DEF SyncInv, OwnRoute, Routed, Holding, RouteInv, TypeOK
  <1> QED BY <1>1, <1>3, <1>4, <1>5 DEF SyncInv

(* While no deadline expires every step keeps one thread per request ... *)
LEMMA NextSyncInv == DeadlinesExpire = FALSE /\ SyncInv /\ [Next]_vars => SyncInv'
  <1> SUFFICES ASSUME DeadlinesExpire = FALSE, SyncInv, [Next]_vars PROVE SyncInv'
    OBVIOUS
  <1>1. CASE UNCHANGED vars
    <2>1. RouteInv'
      BY <1>1, NextRouteInv DEF SyncInv
    <2>2. OneThread' /\ CallTree' /\ OwnRoute'
      BY <1>1 DEF vars, SyncInv, OneThread, CallTree, OwnRoute, Live, Routed
    <2> QED BY <2>1, <2>2 DEF SyncInv
  <1>2. CASE Next
    BY <1>2, CallSyncInv, CallFailsSyncInv, CheckSyncInv, InsertSyncInv,
       AnsweredSyncInv, AcceptSyncInv DEF Next, DeadlineExpires
  <1> QED BY <1>1, <1>2

(* ... so there is never more than one. *)
LEMMA SyncInvariant == ASSUME DeadlinesExpire = FALSE PROVE Spec => []SyncInv
  BY InitSyncInv, NextSyncInv, PTL DEF Spec

(* While no deadline expires a node executes a query at most once, in every *)
(* overlay, cyclic or not.                                                  *)
THEOREM ExecutesOnce == ASSUME DeadlinesExpire = FALSE PROVE Spec => []AtMostOneExecution
  <1>1. SyncInv => AtMostOneExecution
    BY DEF SyncInv, RouteInv, TypeOK, OwnRoute, Holding, AtMostOneExecution
  <1> QED BY <1>1, SyncInvariant, PTL

(* ... and the route it has cached for the replies is never replaced.       *)
THEOREM RouteIsKept == ASSUME DeadlinesExpire = FALSE PROVE Spec => RouteKept
  <1>1. SyncInv /\ [Next]_vars => [\A n \in Node : Routed(n) => route'[n] = route[n]]_vars
    <2> SUFFICES ASSUME SyncInv, Next, NEW n \in Node, Routed(n) PROVE route'[n] = route[n]
      OBVIOUS
    <2>1. PICK h \in calls : \/ UNCHANGED route
                             \/ Insert(h)
      BY DEF Next, Call, CallFails, Check, Answered, DeadlineExpires, Accept
    <2> QED BY <2>1, InsertSyncInv DEF Insert, SyncInv, RouteInv, TypeOK
  <1> QED BY <1>1, SyncInvariant, PTL DEF Spec, RouteKept

-----------------------------------------------------------------------------
(***************************************************************************)
(* A live peer that refuses the portal has a route already, and not from    *)
(* the portal: no call comes back to the portal, so only the handler it has *)
(* called at a node may write it into that node's route, and this handler   *)
(* has refused.                                                             *)
(***************************************************************************)

(* n has a route, by another way than from the portal itself. *)
RoutedElsewhere(n) == Routed(n) /\ Upstream(n) # Portal

(* A path starts at the portal and never goes through it again. *)
PortalOnlyFirst ==
  /\ \A h \in calls : h[1] = Portal /\ Portal \notin todo[h]
  /\ \A h \in calls \ {Root} : Self(h) # Portal
  /\ \A h \in calls : Len(h) >= 3 => From(h) # Portal

(* A handler waits for one it has called itself, and a route is that of a   *)
(* handler at the node.                                                     *)
OwnCallee ==
  /\ \A h \in calls : pc[h] = "await" => Len(callee[h]) = Len(h) + 1
  /\ \A n \in Node : Routed(n) => /\ route[n] \in calls /\ Self(route[n]) = n
                                  /\ pc[route[n]] \in Holding

(* What the portal called and was refused by, and what it has marked done.  *)
RefusedElsewhere ==
  /\ \A h \in calls : (Len(h) = 2 /\ pc[h] = "rejected") => RoutedElsewhere(Self(h))
  /\ \A n \in doneEarly \ Dead : RoutedElsewhere(n)

RefusalInv == SyncInv /\ PortalOnlyFirst /\ OwnCallee /\ RefusedElsewhere

(* The portal has called nobody, and is not its own neighbour. *)
LEMMA InitRefusalInv == Portal \notin Peers[Portal] /\ Init => RefusalInv
  <1> SUFFICES ASSUME Portal \notin Peers[Portal], Init PROVE RefusalInv
    OBVIOUS
  <1>1. SyncInv
    BY InitSyncInv
  <1>2. /\ calls = {Root} /\ pc[Root] = "fanout" /\ todo[Root] = Peers[Portal] /\ doneEarly = {}
        /\ \A n \in Node : route[n] = IF n = Portal THEN Root ELSE <<>>
    BY DEF Init
  <1>3. Root[1] = Portal /\ Len(Root) = 1
    BY DEF Root
  <1>4. PortalOnlyFirst
    BY <1>2, <1>3 DEF PortalOnlyFirst
  <1>5. OwnCallee
    BY <1>2, RootPath DEF OwnCallee, Routed, Holding
  <1>6. RefusedElsewhere
    BY <1>2, <1>3 DEF RefusedElsewhere
  <1> QED BY <1>1, <1>4, <1>5, <1>6 DEF RefusalInv

(* Steps that leave calls and routes alone and refuse nobody. *)
LEMMA RefusesNobody ==
  ASSUME RefusalInv, SyncInv', UNCHANGED <<calls, route>>,
         \A x \in calls : Portal \notin todo'[x],
         \A x \in calls : pc'[x] = "await" => pc[x] = "await" /\ callee'[x] = callee[x],
         \A x \in calls : pc[x] \in Holding => pc'[x] \in Holding,
         \A x \in calls : pc'[x] = "rejected" /\ Len(x) = 2 =>
                            pc[x] = "rejected" \/ RoutedElsewhere(Self(x)),
         \A n \in doneEarly' \ Dead : n \in doneEarly \/ RoutedElsewhere(n)
  PROVE  RefusalInv'
  <1>1. PortalOnlyFirst'
    BY DEF RefusalInv, PortalOnlyFirst
  <1>2. OwnCallee'
    BY DEF RefusalInv, OwnCallee, Routed
  <1>3. \A n : RoutedElsewhere(n)' <=> RoutedElsewhere(n)
    BY DEF RoutedElsewhere, Routed, Upstream
  <1>4. \A x \in calls : (Len(x) = 2 /\ pc'[x] = "rejected") => RoutedElsewhere(Self(x))
    BY DEF RefusalInv, RefusedElsewhere
  <1>5. \A n \in doneEarly' \ Dead : RoutedElsewhere(n)
    BY DEF RefusalInv, RefusedElsewhere
  <1>6. RefusedElsewhere'
    BY <1>3, <1>4, <1>5 DEF RefusedElsewhere
  <1> QED BY <1>1, <1>2, <1>6 DEF RefusalInv

(* The called node is not the portal. *)
LEMMA CallRefusalInv ==
  ASSUME RefusalInv, NEW h \in calls, NEW nb \in todo[h], Call(h, nb)
  PROVE  RefusalInv'
  <1> DEFINE g == Append(h, nb)
  <1>1. SyncInv'
    BY CallSyncInv DEF RefusalInv
  <1>2. /\ h \in Path /\ Len(h) >= 1 /\ nb \in Node /\ pc[h] = "fanout" /\ h[1] = Portal
        /\ nb # Portal /\ Portal \notin todo[h]
    BY DEF RefusalInv, SyncInv, RouteInv, TypeOK, CallShape, PortalOnlyFirst, Call
  <1>3. /\ g \in Path /\ Len(g) = Len(h) + 1 /\ Self(g) = nb /\ From(g) = Self(h)
        /\ g # Root /\ g # h /\ g \notin calls
    BY <1>2, CalledPath, EmptySeq DEF RefusalInv, SyncInv, CallTree, Path
  <1>4. g[1] = Portal
    BY <1>2 DEF Path
  <1>5. /\ calls' = calls \cup {g} /\ pc'[g] = "check" /\ pc'[h] = "await" /\ callee'[h] = g
        /\ todo'[g] = {} /\ todo'[h] = todo[h] \ {nb}
        /\ \A x \in calls \ {h} : /\ pc'[x] = pc[x] /\ callee'[x] = callee[x]
                                  /\ todo'[x] = todo[x]
        /\ UNCHANGED <<route, doneEarly>>
    BY <1>3 DEF Call
  <1> HIDE DEF g
  <1>6. PortalOnlyFirst'
    <2>1. Len(g) >= 3 => Self(h) # Portal
      <3> SUFFICES ASSUME Len(g) >= 3 PROVE Self(h) # Portal
        OBVIOUS
      <3>1. Len(h) \in Nat
        BY <1>2, LenProperties DEF Path
      <3>2. Len(h) # 1
        <4> SUFFICES ASSUME Len(h) = 1 PROVE FALSE
          OBVIOUS
        <4>1. Len(g) = 2
          BY <1>3
        <4> QED BY <4>1
      <3>3. h # Root
        BY <3>2, RootPath
      <3> QED BY <3>3 DEF RefusalInv, PortalOnlyFirst
    <2>2. \A x \in calls' : x[1] = Portal /\ Portal \notin todo'[x]
      BY <1>2, <1>4, <1>5 DEF RefusalInv, PortalOnlyFirst
    <2>3. \A x \in calls' \ {Root} : Self(x) # Portal
      BY <1>2, <1>3, <1>5 DEF RefusalInv, PortalOnlyFirst
    <2>4. \A x \in calls' : Len(x) >= 3 => From(x) # Portal
      BY <1>3, <1>5, <2>1 DEF RefusalInv, PortalOnlyFirst
    <2> QED BY <2>2, <2>3, <2>4 DEF PortalOnlyFirst
  <1>7. OwnCallee'
    <2>1. \A x \in calls' : pc'[x] = "await" => Len(callee'[x]) = Len(x) + 1
      BY <1>3, <1>5 DEF RefusalInv, OwnCallee
    <2>2. \A n \in Node : Routed(n)' => /\ route'[n] \in calls' /\ Self(route'[n]) = n
                                        /\ pc'[route'[n]] \in Holding
      BY <1>2, <1>3, <1>5 DEF RefusalInv, OwnCallee, Routed, Holding
    <2> QED BY <2>1, <2>2 DEF OwnCallee
  <1>8. RefusedElsewhere'
    BY <1>5 DEF RefusalInv, RefusedElsewhere, RoutedElsewhere, Routed, Upstream
  <1> QED BY <1>1, <1>6, <1>7, <1>8 DEF RefusalInv

(* The portal's call fails only at a dead peer. *)
LEMMA CallFailsRefusalInv ==
  ASSUME DeadlinesExpire = FALSE, RefusalInv, NEW h \in calls, NEW nb \in todo[h],
         CallFails(h, nb)
  PROVE  RefusalInv'
  <1>1. SyncInv'
    BY CallFailsSyncInv DEF RefusalInv
  <1>2. \A x \in calls : Portal \notin todo'[x]
    BY DEF CallFails, RefusalInv, SyncInv, RouteInv, TypeOK, PortalOnlyFirst
  <1>3. \A n \in doneEarly' \ Dead : n \in doneEarly
    BY DEF CallFails, MarkRefused
  <1> QED BY <1>1, <1>2, <1>3, RefusesNobody DEF CallFails

(* The portal's callee refuses because of a route another handler wrote: it *)
(* is not the portal itself, so not in the visited list.                    *)
LEMMA CheckRefusalInv ==
  ASSUME RefusalInv, NEW h \in calls, Check(h)
  PROVE  RefusalInv'
  <1>1. SyncInv'
    BY CheckSyncInv DEF RefusalInv
  <1>2. /\ pc[h] = "check" /\ h # Root /\ h \in Path /\ Len(h) >= 2 /\ h[1] = Portal
        /\ Self(h) \in Node /\ Self(h) # Portal
    <2>1. pc[h] = "check" /\ h # Root /\ h \in Path /\ Len(h) >= 1
      BY DEF Check, RefusalInv, SyncInv, RouteInv, TypeOK, CallShape, Holding
    <2> QED BY <2>1, PathEnds DEF RefusalInv, SyncInv, RouteInv, CallShape, PortalOnlyFirst
  <1>3. ASSUME pc'[h] = "rejected", Len(h) = 2 PROVE RoutedElsewhere(Self(h))
    <2> DEFINE r == route[Self(h)]
    <2>1. ~\E i \in 1..(Len(h) - 1) : h[i] = Self(h)
      BY <1>2, <1>3
    <2>2. Routed(Self(h))
      BY <1>2, <1>3, <2>1 DEF Check, RefusalInv, SyncInv, RouteInv, TypeOK
    <2>3. r \in calls /\ Self(r) = Self(h) /\ pc[r] \in Holding /\ r \in Path
      BY <1>2, <2>2 DEF RefusalInv, OwnCallee, SyncInv, RouteInv, TypeOK
    <2> HIDE DEF r
    <2>4. r # h /\ r # Root /\ Len(r) >= 2 /\ r[1] = Portal
      BY <1>2, <2>3, RootPath DEF Holding, RefusalInv, SyncInv, RouteInv, CallShape, PortalOnlyFirst
    <2>5. Len(r) # 2
      <3> SUFFICES ASSUME Len(r) = 2 PROVE FALSE
        OBVIOUS
      <3>1. r[2] = h[2] /\ r[1] = h[1]
        BY <1>2, <1>3, <2>3, <2>4 DEF Self
      <3> QED BY <1>2, <1>3, <2>3, <2>4, <3>1, SeqEqual DEF Path
    <2>6. From(r) # Portal
      <3>1. Len(r) \in Nat
        BY <2>3, LenProperties DEF Path
      <3>2. Len(r) >= 3
        <4> DEFINE k == Len(r)
        <4>1. k \in Nat /\ k >= 2 /\ k # 2
          BY <2>4, <2>5, <3>1
        <4> HIDE DEF k
        <4>2. k >= 3
          BY <4>1
        <4> QED BY <4>2 DEF k
      <3> QED BY <2>3, <3>2 DEF RefusalInv, PortalOnlyFirst
    <2> QED BY <2>2, <2>6 DEF r, RoutedElsewhere, Upstream
  <1>4. /\ \A x \in calls \ {h} : pc'[x] = pc[x]
        /\ pc'[h] \in {"rejected", "insert"}
    BY DEF Check, RefusalInv, SyncInv, RouteInv, TypeOK
  <1>5. /\ \A x \in calls : Portal \notin todo'[x]
        /\ \A x \in calls : pc'[x] = "await" => pc[x] = "await" /\ callee'[x] = callee[x]
        /\ \A x \in calls : pc[x] \in Holding => pc'[x] \in Holding
    BY <1>2, <1>4 DEF Check, RefusalInv, PortalOnlyFirst, Holding
  <1>6. \A x \in calls : pc'[x] = "rejected" /\ Len(x) = 2 =>
                           pc[x] = "rejected" \/ RoutedElsewhere(Self(x))
    BY <1>3, <1>4
  <1> QED BY <1>1, <1>5, <1>6, RefusesNobody DEF Check

(* A first insert is no refusal of the node's, and takes no route away. *)
LEMMA InsertRefusalInv ==
  ASSUME RefusalInv, NEW h \in calls, Insert(h)
  PROVE  RefusalInv'
  <1> DEFINE n == Self(h)
  <1>1. SyncInv' /\ ~Routed(n)
    BY InsertSyncInv DEF RefusalInv
  <1>2. /\ pc[h] = "insert" /\ n \in Node /\ h # <<>> /\ h \in Path /\ Len(h) >= 1 /\ h[1] = Portal
    BY PathEnds, EmptySeq
    DEF Insert, RefusalInv, SyncInv, RouteInv, TypeOK, CallShape, Path, PortalOnlyFirst
  <1>3. /\ pc'[h] = "fanout" /\ todo'[h] = FanoutSet(h) /\ route'[n] = h
        /\ \A x \in calls \ {h} : pc'[x] = pc[x] /\ todo'[x] = todo[x]
        /\ \A m \in Node \ {n} : route'[m] = route[m]
        /\ UNCHANGED <<calls, callee, doneEarly>>
    BY <1>2 DEF Insert, RefusalInv, SyncInv, RouteInv, TypeOK
  <1>4. PortalOnlyFirst'
    <2>1. Portal \notin FanoutSet(h)
      BY <1>2 DEF FanoutSet, Visited, Path
    <2> QED BY <1>3, <2>1 DEF RefusalInv, PortalOnlyFirst
  <1>5. OwnCallee'
    <2>1. \A x \in calls : pc'[x] = "await" => Len(callee'[x]) = Len(x) + 1
      BY <1>3 DEF RefusalInv, OwnCallee
    <2>2. \A m \in Node : Routed(m)' => /\ route'[m] \in calls /\ Self(route'[m]) = m
                                        /\ pc'[route'[m]] \in Holding
      BY <1>2, <1>3 DEF RefusalInv, OwnCallee, Routed, Holding
    <2> QED BY <1>3, <2>1, <2>2 DEF OwnCallee
  <1>6. \A m \in Node : RoutedElsewhere(m) => RoutedElsewhere(m)'
    BY <1>1, <1>3 DEF RoutedElsewhere, Routed, Upstream
  <1>7. RefusedElsewhere'
    <2>1. \A x \in calls : Self(x) \in Node
      BY PathEnds DEF RefusalInv, SyncInv, RouteInv, TypeOK, CallShape
    <2>2. doneEarly \subseteq Node
      BY DEF RefusalInv, SyncInv, RouteInv, TypeOK
    <2>3. \A x \in calls : (Len(x) = 2 /\ pc'[x] = "rejected") => RoutedElsewhere(Self(x))
      BY <1>3 DEF RefusalInv, RefusedElsewhere
    <2>4. \A m \in doneEarly \ Dead : RoutedElsewhere(m)'
      BY <1>6, <2>2 DEF RefusalInv, RefusedElsewhere
    <2> QED BY <1>3, <1>6, <2>1, <2>3, <2>4 DEF RefusedElsewhere
  <1> QED BY <1>1, <1>4, <1>5, <1>7 DEF RefusalInv

(* The portal marks a peer whose handler, one it called, has refused. *)
LEMMA AnsweredRefusalInv ==
  ASSUME RefusalInv, NEW h \in calls, Answered(h)
  PROVE  RefusalInv'
  <1>1. SyncInv'
    BY AnsweredSyncInv DEF RefusalInv
  <1>2. /\ pc[h] = "await" /\ callee[h] \in calls /\ Len(callee[h]) = Len(h) + 1
        /\ pc'[h] = "fanout"
        /\ \A x \in calls \ {h} : pc'[x] = pc[x] /\ callee'[x] = callee[x]
        /\ UNCHANGED <<calls, todo, route>>
    BY DEF Answered, RefusalInv, OwnCallee, SyncInv, RouteInv, TypeOK, CallShape
  <1>3. /\ \A x \in calls : Portal \notin todo'[x]
        /\ \A x \in calls : pc'[x] = "await" => pc[x] = "await" /\ callee'[x] = callee[x]
        /\ \A x \in calls : pc[x] \in Holding => pc'[x] \in Holding
        /\ \A x \in calls : pc'[x] = "rejected" /\ Len(x) = 2 =>
                              pc[x] = "rejected" \/ RoutedElsewhere(Self(x))
    BY <1>2 DEF RefusalInv, PortalOnlyFirst, Holding
  <1>4. ASSUME NEW n \in doneEarly', n \notin doneEarly PROVE RoutedElsewhere(n)
    <2>1. h = Root /\ pc[callee[h]] = "rejected" /\ n = Self(callee[h])
      BY <1>4 DEF Answered, MarkRefused
    <2>2. Len(callee[h]) = 2
      BY <1>2, <2>1, RootPath
    <2> QED BY <1>2, <2>1, <2>2 DEF RefusalInv, RefusedElsewhere
  <1> QED BY <1>1, <1>2, <1>3, <1>4, RefusesNobody

(* A handler that accepts keeps its route. *)
LEMMA AcceptRefusalInv ==
  ASSUME RefusalInv, NEW h \in calls, Accept(h)
  PROVE  RefusalInv'
  <1>1. SyncInv'
    BY AcceptSyncInv DEF RefusalInv
  <1>2. /\ pc'[h] = "accepted" /\ \A x \in calls \ {h} : pc'[x] = pc[x]
        /\ UNCHANGED <<calls, todo, callee, route, doneEarly>>
    BY DEF Accept, RefusalInv, SyncInv, RouteInv, TypeOK
  <1>3. /\ \A x \in calls : Portal \notin todo'[x]
        /\ \A x \in calls : pc'[x] = "await" => pc[x] = "await" /\ callee'[x] = callee[x]
        /\ \A x \in calls : pc[x] \in Holding => pc'[x] \in Holding
        /\ \A x \in calls : pc'[x] = "rejected" /\ Len(x) = 2 =>
                              pc[x] = "rejected" \/ RoutedElsewhere(Self(x))
    BY <1>2 DEF RefusalInv, PortalOnlyFirst, Holding
  <1> QED BY <1>1, <1>2, <1>3, RefusesNobody

(* Every step keeps the refusals accounted for ... *)
LEMMA NextRefusalInv == DeadlinesExpire = FALSE /\ RefusalInv /\ [Next]_vars => RefusalInv'
  <1> SUFFICES ASSUME DeadlinesExpire = FALSE, RefusalInv, [Next]_vars PROVE RefusalInv'
    OBVIOUS
  <1>1. CASE UNCHANGED vars
    <2>1. SyncInv'
      BY <1>1, NextSyncInv DEF RefusalInv
    <2>2. UNCHANGED <<calls, pc, todo, callee, route, doneEarly>>
      BY <1>1 DEF vars
    <2>3. \A x \in calls : Portal \notin todo'[x]
      BY <2>2 DEF RefusalInv, PortalOnlyFirst
    <2> QED BY <2>1, <2>2, <2>3, RefusesNobody
  <1>2. CASE Next
    BY <1>2, CallRefusalInv, CallFailsRefusalInv, CheckRefusalInv, InsertRefusalInv,
       AnsweredRefusalInv, AcceptRefusalInv DEF Next, DeadlineExpires
  <1> QED BY <1>1, <1>2

(* ... so while no deadline expires, and the portal is not configured as a  *)
(* neighbour of itself, a live peer that SubmitQuery marks done has a route *)
(* by another path: nothing of the query is forgiven that is not on its way.*)
THEOREM RefusedPeersHaveRoutes ==
  ASSUME DeadlinesExpire = FALSE, Portal \notin Peers[Portal]
  PROVE  Spec => []RefusedPeersAreRouted
  <1>1. RefusalInv => RefusedPeersAreRouted
    BY DEF RefusalInv, RefusedElsewhere, RoutedElsewhere, RefusedPeersAreRouted
  <1> QED BY <1>1, InitRefusalInv, NextRefusalInv, PTL DEF Spec
=============================================================================
