-------------------------- MODULE AbortFloodProofs --------------------------
(***************************************************************************)
(* What holds of the fan-out holds of it while the query is being called    *)
(* off: a step of AbortFlood is a step of Fanout or leaves its variables    *)
(* alone, so the invariants of FanoutProofs carry over.  Of the flags only  *)
(* one fact is needed: a route's path names a handler that was started.     *)
(***************************************************************************)
EXTENDS AbortFlood, FanoutProofs

FloodInv == RouteInv /\ FloodTypeOK /\ \A n \in Node : Routed(n) => route[n] \in calls

(* A query that is not yet called off starts as it does in Fanout. *)
LEMMA FloodInitIsInit == FloodInit => Init
  BY DEF FloodInit

(* Every step is one of the fan-out, or changes nothing of it. *)
LEMMA FloodStepIsStep == [FloodNext]_allVars => [Next]_vars
  <1> SUFFICES ASSUME [FloodNext]_allVars PROVE [Next]_vars
    OBVIOUS
  <1>1. CASE UNCHANGED allVars
    BY <1>1 DEF allVars
  <1>2. CASE FanoutStep
    BY <1>2 DEF FanoutStep
  <1>3. CASE CancelQuery \/ CancelOwn \/ Expire
    BY <1>3 DEF CancelQuery, CancelOwn, Expire
  <1>4. ASSUME NEW e \in aborts, Abort(e[1], e[2]) \/ AbortFails(e[1], e[2])
        PROVE  UNCHANGED vars
    BY <1>4 DEF Abort, AbortFails
  <1> QED BY <1>1, <1>2, <1>3, <1>4 DEF FloodNext

(* The calls to the neighbours of a node are calls between nodes. *)
LEMMA CallsAreCalls ==
  ASSUME NEW n \in Node, NEW others
  PROVE  Calls(n, others) \subseteq Node \X Node
  BY FanoutConstants DEF Calls

(* A step of the fan-out only adds handlers, and a route it writes names    *)
(* one of them.                                                             *)
LEMMA FanoutKeepsOwned ==
  ASSUME RouteInv, \A n \in Node : Routed(n) => route[n] \in calls, Next
  PROVE  /\ calls \subseteq calls'
         /\ \A n \in Node : Routed(n)' => route'[n] \in calls'
  <1> PICK h \in calls : \/ \E nb \in todo[h] : Call(h, nb) \/ CallFails(h, nb)
                         \/ Check(h)
                         \/ Insert(h)
                         \/ Answered(h)
                         \/ DeadlineExpires(h)
                         \/ Accept(h)
    BY DEF Next
  <1>1. CASE Insert(h)
    <2>1. calls' = calls /\ route' = [route EXCEPT ![Self(h)] = h]
      BY <1>1 DEF Insert
    <2> QED BY <2>1 DEF RouteInv, TypeOK, Routed
  <1>2. CASE ~Insert(h)
    <2>1. calls \subseteq calls' /\ route' = route
      BY <1>2 DEF Call, CallFails, Check, Answered, DeadlineExpires, Accept
    <2> QED BY <2>1 DEF Routed
  <1> QED BY <1>1, <1>2

(* The invariant holds at first: no call, no flag, no route but the         *)
(* portal's own ...                                                         *)
LEMMA InitFloodInv == FloodInit => FloodInv
  <1> SUFFICES ASSUME FloodInit PROVE FloodInv
    OBVIOUS
  <1>1. RouteInv
    BY InitRouteInv DEF FloodInit
  <1>2. FloodTypeOK
    BY <1>1 DEF FloodInit, FloodTypeOK, RouteInv
  <1>3. \A n \in Node : Routed(n) => route[n] \in calls
    BY DEF FloodInit, Init, Routed
  <1> QED BY <1>1, <1>2, <1>3 DEF FloodInv

(* ... every step keeps it ...                                              *)
LEMMA NextFloodInv == FloodInv /\ [FloodNext]_allVars => FloodInv'
  <1> SUFFICES ASSUME FloodInv, [FloodNext]_allVars PROVE FloodInv'
    OBVIOUS
  <1>1. RouteInv'
    BY FloodStepIsStep, NextRouteInv DEF FloodInv
  <1>2. TypeOK'
    BY <1>1 DEF RouteInv
  <1>3. \A n \in Node : Marked(n) \subseteq calls
    BY DEF FloodInv, FloodTypeOK, Marked
  <1>4. CASE UNCHANGED allVars
    BY <1>1, <1>2, <1>4 DEF FloodInv, FloodTypeOK, allVars, vars, floodVars, Routed
  <1>5. CASE FanoutStep
    <2>1. /\ calls \subseteq calls'
          /\ \A n \in Node : Routed(n)' => route'[n] \in calls'
      BY <1>5, FanoutKeepsOwned DEF FloodInv, FanoutStep
    <2> QED BY <1>1, <1>2, <1>5, <2>1 DEF FloodInv, FloodTypeOK, FanoutStep, floodVars
  <1>6. CASE CancelQuery \/ CancelOwn \/ Expire
    <2>1. Portal \in Node
      BY FanoutConstants
    <2>2. /\ UNCHANGED vars
          /\ aborts' \subseteq Node \X Node
          /\ flagged' \subseteq calls
          /\ cancel' \in {"no", "calling", "done"} /\ expired' \in BOOLEAN
      BY <1>3, <1>6, <2>1, CallsAreCalls
         DEF CancelQuery, CancelOwn, Expire, FloodInv, FloodTypeOK
    <2> QED BY <1>1, <1>2, <2>2 DEF FloodInv, FloodTypeOK, vars, Routed
  <1>7. ASSUME NEW e \in aborts, Abort(e[1], e[2]) \/ AbortFails(e[1], e[2])
        PROVE  FloodInv'
    <2>1. e[2] \in Node /\ aborts \subseteq Node \X Node
      BY DEF FloodInv, FloodTypeOK
    <2>2. /\ UNCHANGED <<vars, cancel, expired>>
          /\ aborts' \subseteq Node \X Node
          /\ flagged' \subseteq calls
      BY <1>3, <1>7, <2>1, CallsAreCalls DEF Abort, AbortFails, FloodInv, FloodTypeOK
    <2> QED BY <1>1, <1>2, <2>2 DEF FloodInv, FloodTypeOK, vars, Routed
  <1> QED BY <1>4, <1>5, <1>6, <1>7 DEF FloodNext

(* ... and so it holds throughout.                                          *)
LEMMA FloodInvariant == FloodSpec => []FloodInv
  BY InitFloodInv, NextFloodInv, PTL DEF FloodSpec

(* The calls that call a query off, and the flags they set, keep to the     *)
(* nodes and handlers there are, in every overlay.                          *)
THEOREM FloodTypeCorrect == FloodSpec => []FloodTypeOK
  BY FloodInvariant, PTL DEF FloodInv

(* Whoever calls a query off and whenever, the upstream pointers lead to    *)
(* the portal.                                                              *)
THEOREM FloodKeepsUpstream == FloodSpec => []RoutesLeadToPortal
  <1>1. FloodInv => RoutesLeadToPortal
    BY RouteInvLeads DEF FloodInv
  <1> QED BY <1>1, FloodInvariant, PTL

(* ... and while no deadline expires no node executes it twice, called off  *)
(* or not.                                                                  *)
THEOREM FloodExecutesOnce ==
  ASSUME DeadlinesExpire = FALSE PROVE FloodSpec => []AtMostOneExecution
  <1>1. SyncInv => AtMostOneExecution
    BY DEF SyncInv, RouteInv, TypeOK, OwnRoute, Holding, AtMostOneExecution
  <1>2. FloodInit => SyncInv
    BY FloodInitIsInit, InitSyncInv
  <1>3. SyncInv /\ [FloodNext]_allVars => SyncInv'
    BY FloodStepIsStep, NextSyncInv
  <1> QED BY <1>1, <1>2, <1>3, PTL DEF FloodSpec

(* ... and a live peer the portal has marked done by itself has a route by  *)
(* another path.                                                            *)
THEOREM FloodRefusedHaveRoutes ==
  ASSUME DeadlinesExpire = FALSE, Portal \notin Peers[Portal]
  PROVE  FloodSpec => []RefusedPeersAreRouted
  <1>1. RefusalInv => RefusedPeersAreRouted
    BY DEF RefusalInv, RefusedElsewhere, RoutedElsewhere, RefusedPeersAreRouted
  <1>2. FloodInit => RefusalInv
    BY FloodInitIsInit, InitRefusalInv
  <1>3. RefusalInv /\ [FloodNext]_allVars => RefusalInv'
    BY FloodStepIsStep, NextRefusalInv
  <1> QED BY <1>1, <1>2, <1>3, PTL DEF FloodSpec
=============================================================================
