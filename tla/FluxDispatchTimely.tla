------------------------- MODULE FluxDispatchTimely -------------------------
(***************************************************************************)
(* Timely, the invariant behind the absence of early timeouts, is kept by  *)
(* every step of FluxDispatch when request ids are used once.              *)
(***************************************************************************)
EXTENDS FluxDispatch, TLAPS

USE ConstTypes, NullsAreNotValues, NoEntryIsNotAnEntry, SMTT(30), ZenonT(30)
USE DEF streamVars, cooldVars, handlerVars, outsideHandler, handedOver,
        outsideStream, dispatchTable, Goto, Return

\* With unique request ids nobody but its own handler, or the sweeper after
\* the timeout, takes away an entry whose handler still waits.
LEMMA TimelyStep == UniqueIds /\ TypeOK /\ Timely /\ [Next]_vars => Timely'
<1> SUFFICES ASSUME UniqueIds, TypeOK, Timely, [Next]_vars PROVE Timely'
    OBVIOUS
<1> USE DEF UniqueIds, TypeOK, Timely, Sinks, RemoveEntry, Entry, Expired, Early
<1>1. ASSUME NEW a \in Attempts, NotConnected(a) PROVE Timely'
  BY <1>1 DEF NotConnected, Enter
<1>2. ASSUME NEW a \in Attempts, NotAuthorized(a) PROVE Timely'
  BY <1>2 DEF NotAuthorized, Enter
<1>3. ASSUME NEW a \in Attempts, SendCoold(a) PROVE Timely'
  BY <1>3 DEF SendCoold, Enter
<1>4. ASSUME NEW a \in Attempts, AtCapacity(a) PROVE Timely'
  BY <1>4 DEF AtCapacity
<1>5. ASSUME NEW a \in Attempts, BelowCapacity(a) PROVE Timely'
  BY <1>5 DEF BelowCapacity
<1>6. ASSUME NEW a \in Attempts, Duplicate(a) PROVE Timely'
  BY <1>6 DEF Duplicate
<1>7. ASSUME NEW a \in Attempts, Inserted(a) PROVE Timely'
  BY <1>7 DEF Inserted
<1>8. ASSUME NEW a \in Attempts, NotFound(a) PROVE Timely'
  BY <1>8 DEF NotFound
<1>9. ASSUME NEW a \in Attempts, AlreadyLanded(a) PROVE Timely'
  BY <1>9 DEF AlreadyLanded
<1>10. ASSUME NEW a \in Attempts, EvictLanded(a) PROVE Timely'
  BY <1>10 DEF EvictLanded
<1>11. ASSUME NEW a \in Attempts, Parked(a) PROVE Timely'
  <2> DEFINE e == [by |-> pending[Rid[a]].by, landed |-> FALSE,
                   sinks |-> pending[Rid[a]].sinks \cup {a}]
  <2>1. /\ pending[Rid[a]] # NoEntry /\ ~pending[Rid[a]].landed
        /\ pending[Rid[a]].by = a
    BY <1>11 DEF Parked
  <2>2. pending' = [pending EXCEPT ![Rid[a]] = e]
    BY <1>11 DEF Parked
  <2>3. e # NoEntry /\ e.by = a /\ e.landed = FALSE /\ e.sinks = {a}
    <3>1. pending[Rid[a]].sinks = {}
      BY <2>1, <1>11 DEF Parked
    <3>2. e \in Entry
      BY <2>1, <3>1
    <3> HIDE DEF Entry, TypeOK, Timely, UniqueIds
    <3> QED
      BY <2>1, <3>1, <3>2
  <2> HIDE DEF e
  <2>4. /\ pending'[Rid[a]] = e
        /\ \A r \in ReqIds : r # Rid[a] => pending'[r] = pending[r]
    BY <2>2
  <2>5. /\ \A b \in Attempts : b # a => pc'[b] = pc[b]
        /\ pc[a] = "inserted" /\ pc'[a] = "parked"
    BY <1>11 DEF Parked
  <2>6. UNCHANGED <<sweep, dropping, closed, late, status>>
    BY <1>11 DEF Parked
  <2>7. \A b \in Attempts : Rid[b] = Rid[a] => b = a
    OBVIOUS
  <2>a. ASSUME NEW r \in ReqIds, pending'[r] # NoEntry
        PROVE  /\ Rid[pending'[r].by] = r
               /\ pending'[r].sinks \subseteq {pending'[r].by}
               /\ pending'[r].landed => pending'[r].sinks = {}
               /\ pc'[pending'[r].by] \notin Early
               /\ pc'[pending'[r].by] = "inserted" => pending'[r].sinks = {}
    <3>1. CASE r = Rid[a]
      BY <3>1, <2>1, <2>3, <2>4, <2>5, <2>6
    <3>2. CASE r # Rid[a]
      <4>1. pending'[r] = pending[r] /\ pending[r] # NoEntry
        BY <3>2, <2>4, <2>a
      <4>2. pending[r].by \in Attempts /\ pending[r].by # a
        BY <3>2, <4>1
      <4> QED
        BY <4>1, <4>2, <2>5, <2>6
    <3> QED
      BY <3>1, <3>2
  <2>b. ASSUME NEW b \in Attempts, pc'[b] \in Early
        PROVE  Rid[b] \notin sweep' /\ \A d \in Conns : dropping'[d] # Rid[b]
    <3>1. b # a /\ pc[b] \in Early
      BY <2>b, <2>1, <2>5, <2>6
    <3>2. Rid[b] # Rid[a] /\ Rid[b] \in ReqIds /\ Rid[b] # NoReq
      BY <3>1
    <3> QED
      BY <3>1, <3>2, <2>5, <2>6
  <2>c. ASSUME NEW r \in sweep', pending'[r] # NoEntry
        PROVE  pending'[r].landed \/ pending'[r].by \in late'
    <3>1. r \in sweep /\ r \in ReqIds
      BY <2>6
    <3>2. CASE r = Rid[a]
      BY <3>1, <3>2, <2>1, <2>3, <2>4, <2>6
    <3>3. CASE r # Rid[a]
      BY <3>1, <3>3, <2>c, <2>4, <2>6
    <3> QED
      BY <3>2, <3>3
  <2>d. ASSUME NEW d \in Conns,
               dropping'[d] # NoReq, pending'[dropping'[d]] # NoEntry
        PROVE  pending'[dropping'[d]].landed
    <3>1. CASE dropping'[d] = Rid[a]
      BY <3>1, <2>1, <2>3, <2>4, <2>5, <2>6
    <3>2. CASE dropping'[d] # Rid[a]
      <4>1. dropping'[d] = dropping[d] /\ dropping[d] \in ReqIds
        BY <3>2, <2>d, <2>5, <2>6
      <4> QED
        BY <3>2, <4>1, <2>d, <2>4
    <3> QED
      BY <3>1, <3>2
  <2>e. ASSUME NEW b \in Attempts, pc'[b] = "evicting", pending'[Rid[b]] # NoEntry
        PROVE  pending'[Rid[b]].landed
    <3>1. CASE b = a
      BY <3>1, <2>e, <2>1, <2>3, <2>4, <2>5, <2>6
    <3>2. CASE b # a
      BY <3>2, <2>e, <2>4, <2>5, <2>6, <2>7
    <3> QED
      BY <3>1, <3>2
  <2>f. /\ \A b \in closed' :
             /\ pc'[b] \notin Early \cup {"inserted"}
             /\ pc'[b] \in {"parked", "sending", "waiting"} => b \in late'
        /\ \A b \in Attempts : status'[b] = 504 => b \in late'
    BY <2>1, <2>3, <2>4, <2>5, <2>6, <2>7
  <2> QED
    BY <2>a, <2>b, <2>c, <2>d, <2>e, <2>f
<1>12. ASSUME NEW a \in Attempts, GetTx(a) PROVE Timely'
  BY <1>12 DEF GetTx
<1>13. ASSUME NEW a \in Attempts, SendFailed(a) PROVE Timely'
  BY <1>13 DEF SendFailed
<1>14. ASSUME NEW a \in Attempts, Sent(a) PROVE Timely'
  BY <1>14 DEF Sent
<1>15. ASSUME NEW a \in Attempts, Cleanup(a) PROVE Timely'
  BY <1>15 DEF Cleanup
<1>16. ASSUME NEW a \in Attempts, Answered(a) PROVE Timely'
  BY <1>16 DEF Answered
<1>17. ASSUME NEW a \in Attempts, TimedOut(a) PROVE Timely'
  BY <1>17 DEF TimedOut
<1>18. ASSUME NEW a \in Attempts, HangUp(a) PROVE Timely'
  BY <1>18 DEF HangUp
<1>19. ASSUME NEW a \in Attempts, TimePasses(a) PROVE Timely'
  BY <1>19 DEF TimePasses
<1>20. ASSUME NEW c \in Conns, Connect(c) PROVE Timely'
  BY <1>20 DEF Connect
<1>21. ASSUME NEW c \in Conns, Teardown(c) PROVE Timely'
  BY <1>21 DEF Teardown
<1>22. ASSUME NEW c \in Conns, CloseOutbound(c) PROVE Timely'
  BY <1>22 DEF CloseOutbound
<1>23. ASSUME NEW c \in Conns, PeerGone(c) PROVE Timely'
  BY <1>23 DEF PeerGone
<1>24. ASSUME NEW c \in Conns, Receive(c) PROVE Timely'
  BY <1>24 DEF Receive
<1>25. ASSUME NEW c \in Conns, LoseAll(c) PROVE Timely'
  BY <1>25 DEF LoseAll
<1>26. ASSUME NEW c \in Conns, LoseReplies(c) PROVE Timely'
  BY <1>26 DEF LoseReplies
<1>27. ASSUME NEW c \in Conns, DropDelivered(c) PROVE Timely'
  BY <1>27 DEF DropDelivered
<1>28. ASSUME NEW c \in Conns, NEW a \in Attempts, Respond(c, a) PROVE Timely'
  BY <1>28 DEF Respond, Executed
<1>29. ASSUME NEW c \in Conns, NEW a \in Attempts, RespondFails(c, a) PROVE Timely'
  BY <1>29 DEF RespondFails, Executed
<1>30. ASSUME NEW c \in Conns, NEW a \in Attempts, UnknownReply(c, a) PROVE Timely'
  BY <1>30 DEF UnknownReply, TakeReply
<1>31. ASSUME NEW c \in Conns, NEW a \in Attempts, Deliver(c, a) PROVE Timely'
  <2> DEFINE e == [by |-> pending[Rid[a]].by, landed |-> TRUE, sinks |-> {}]
  <2>1. /\ pending[Rid[a]] # NoEntry /\ pending[Rid[a]].by = a
        /\ pc[a] \notin Early
    BY <1>31 DEF Deliver, TakeReply
  <2>2. pending' = [pending EXCEPT ![Rid[a]] = e]
    BY <1>31 DEF Deliver
  <2>3. e # NoEntry /\ e.by = a /\ e.landed = TRUE /\ e.sinks = {}
    <3>1. e \in Entry
      BY <2>1
    <3> HIDE DEF Entry, TypeOK, Timely, UniqueIds
    <3> QED
      BY <2>1, <3>1
  <2> HIDE DEF e
  <2>4. /\ pending'[Rid[a]] = e
        /\ \A r \in ReqIds : r # Rid[a] => pending'[r] = pending[r]
    BY <2>2
  <2>5. \A d \in Conns : dropping'[d] \in {dropping[d], NoReq, Rid[a]}
    <3> DEFINE v == IF Sinks(Rid[a]) = {} THEN NoReq ELSE Rid[a]
    <3>1. dropping' = [dropping EXCEPT ![c] = v]
      BY <1>31 DEF Deliver
    <3>2. v \in {NoReq, Rid[a]}
      OBVIOUS
    <3> HIDE DEF v
    <3> QED
      BY <3>1, <3>2
  <2>6. UNCHANGED <<sweep, closed, late, status, pc>>
    BY <1>31 DEF Deliver, TakeReply
  <2>7. \A b \in Attempts : Rid[b] = Rid[a] => b = a
    OBVIOUS
  <2>a. ASSUME NEW r \in ReqIds, pending'[r] # NoEntry
        PROVE  /\ Rid[pending'[r].by] = r
               /\ pending'[r].sinks \subseteq {pending'[r].by}
               /\ pending'[r].landed => pending'[r].sinks = {}
               /\ pc'[pending'[r].by] \notin Early
               /\ pc'[pending'[r].by] = "inserted" => pending'[r].sinks = {}
    <3>1. CASE r = Rid[a]
      BY <3>1, <2>1, <2>3, <2>4, <2>5, <2>6
    <3>2. CASE r # Rid[a]
      <4>1. pending'[r] = pending[r] /\ pending[r] # NoEntry
        BY <3>2, <2>4, <2>a
      <4>2. pending[r].by \in Attempts /\ pending[r].by # a
        BY <3>2, <4>1
      <4> QED
        BY <4>1, <4>2, <2>5, <2>6
    <3> QED
      BY <3>1, <3>2
  <2>b. ASSUME NEW b \in Attempts, pc'[b] \in Early
        PROVE  Rid[b] \notin sweep' /\ \A d \in Conns : dropping'[d] # Rid[b]
    <3>1. b # a /\ pc[b] \in Early
      BY <2>b, <2>1, <2>5, <2>6
    <3>2. Rid[b] # Rid[a] /\ Rid[b] \in ReqIds /\ Rid[b] # NoReq
      BY <3>1
    <3> QED
      BY <3>1, <3>2, <2>5, <2>6
  <2>c. ASSUME NEW r \in sweep', pending'[r] # NoEntry
        PROVE  pending'[r].landed \/ pending'[r].by \in late'
    <3>1. r \in sweep /\ r \in ReqIds
      BY <2>6
    <3>2. CASE r = Rid[a]
      BY <3>1, <3>2, <2>1, <2>3, <2>4, <2>6
    <3>3. CASE r # Rid[a]
      BY <3>1, <3>3, <2>c, <2>4, <2>6
    <3> QED
      BY <3>2, <3>3
  <2>d. ASSUME NEW d \in Conns,
               dropping'[d] # NoReq, pending'[dropping'[d]] # NoEntry
        PROVE  pending'[dropping'[d]].landed
    <3>1. CASE dropping'[d] = Rid[a]
      BY <3>1, <2>1, <2>3, <2>4, <2>5, <2>6
    <3>2. CASE dropping'[d] # Rid[a]
      <4>1. dropping'[d] = dropping[d] /\ dropping[d] \in ReqIds
        BY <3>2, <2>d, <2>5, <2>6
      <4> QED
        BY <3>2, <4>1, <2>d, <2>4
    <3> QED
      BY <3>1, <3>2
  <2>e. ASSUME NEW b \in Attempts, pc'[b] = "evicting", pending'[Rid[b]] # NoEntry
        PROVE  pending'[Rid[b]].landed
    <3>1. CASE b = a
      BY <3>1, <2>e, <2>1, <2>3, <2>4, <2>5, <2>6
    <3>2. CASE b # a
      BY <3>2, <2>e, <2>4, <2>5, <2>6, <2>7
    <3> QED
      BY <3>1, <3>2
  <2>f. /\ \A b \in closed' :
             /\ pc'[b] \notin Early \cup {"inserted"}
             /\ pc'[b] \in {"parked", "sending", "waiting"} => b \in late'
        /\ \A b \in Attempts : status'[b] = 504 => b \in late'
    BY <2>1, <2>3, <2>4, <2>5, <2>6, <2>7
  <2> QED
    BY <2>a, <2>b, <2>c, <2>d, <2>e, <2>f
<1>32. CASE Collect
  BY <1>32 DEF Collect
<1>33. ASSUME NEW r \in ReqIds, SweepOne(r) PROVE Timely'
  BY <1>33 DEF SweepOne
<1>34. CASE UNCHANGED vars
  BY <1>34 DEF vars
<1> HIDE DEF UniqueIds, TypeOK, Timely, Sinks, RemoveEntry, Entry, Expired, Early
<1> QED
  BY <1>1, <1>2, <1>3, <1>4, <1>5, <1>6, <1>7, <1>8, <1>9, <1>10, <1>11,
     <1>12, <1>13, <1>14, <1>15, <1>16, <1>17, <1>18, <1>19, <1>20, <1>21,
     <1>22, <1>23, <1>24, <1>25, <1>26, <1>27, <1>28, <1>29, <1>30, <1>31,
     <1>32, <1>33, <1>34 DEF Next, Handler, Stream
=============================================================================
