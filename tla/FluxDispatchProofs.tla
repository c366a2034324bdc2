------------------------- MODULE FluxDispatchProofs -------------------------
(***************************************************************************)
(* The invariant and the safety theorems of FluxDispatch, for every set of *)
(* attempts, conns, hosts and request ids, every assignment of request ids *)
(* to attempts (retries included) and every capacity.  The step lemmas of  *)
(* the other conjuncts are in FluxDispatchTypes, FluxDispatchCustody and   *)
(* FluxDispatchTimely.                                                     *)
(***************************************************************************)
EXTENDS FluxDispatchTypes, FluxDispatchCustody, FluxDispatchTimely,
        FiniteSetTheorems

USE ConstTypes, NullsAreNotValues, NoEntryIsNotAnEntry, SMTT(30), ZenonT(30)
USE DEF streamVars, cooldVars, handlerVars, outsideHandler, handedOver,
        outsideStream, dispatchTable, Goto, Return

\* The table outgrows PendingMax by less than Workers: a handler between the
\* sample of the length and its insert occupies a worker thread.
LEMMA CapacityStep == TypeOK /\ CapacityInv /\ [Next]_vars => CapacityInv'
<1> SUFFICES ASSUME TypeOK, CapacityInv, [Next]_vars PROVE CapacityInv'
    OBVIOUS
<1> DEFINE W == {b \in Attempts : pc[b] \in OnWorker}
           S == {b \in Attempts : pc[b] = "sampled"}
<1>a. /\ IsFiniteSet(W) /\ IsFiniteSet(S) /\ IsFiniteSet(Live)
      /\ Cardinality(W) \in Nat /\ Cardinality(S) \in Nat
      /\ Cardinality(Live) \in Nat
  BY FiniteAttempts, FS_Subset, FS_CardinalityType DEF Live
<1>b. /\ Cardinality(W) <= Workers
      /\ Cardinality(Live) + Cardinality(S) <= PendingMax + Workers - 1
  BY DEF CapacityInv
<1>c. ASSUME W' \subseteq W, S' \subseteq S, Live' \subseteq Live
      PROVE  CapacityInv'
  <2>1. /\ Cardinality(W') <= Cardinality(W) /\ Cardinality(W') \in Nat
        /\ Cardinality(S') <= Cardinality(S) /\ Cardinality(S') \in Nat
        /\ Cardinality(Live') <= Cardinality(Live) /\ Cardinality(Live') \in Nat
    BY <1>a, <1>c, FS_Subset, FS_CardinalityType
  <2> HIDE DEF W, S
  <2>2. /\ Cardinality(W') <= Workers
        /\ Cardinality(Live') + Cardinality(S') <= PendingMax + Workers - 1
    BY <1>a, <1>b, <2>1
  <2> QED
    BY <2>2 DEF CapacityInv, W, S
<1> USE DEF TypeOK, RemoveEntry, Live, OnWorker
<1>1. ASSUME NEW a \in Attempts, NotConnected(a) PROVE CapacityInv'
  BY <1>1, <1>c DEF NotConnected, Enter
<1>2. ASSUME NEW a \in Attempts, NotAuthorized(a) PROVE CapacityInv'
  BY <1>2, <1>c DEF NotAuthorized, Enter
<1>3. ASSUME NEW a \in Attempts, SendCoold(a) PROVE CapacityInv'
  <2>1. Cardinality(W) < Workers /\ W' \subseteq W \cup {a} /\ S' \subseteq S
    BY <1>3 DEF SendCoold, Enter
  <2>2. Live' = Live
    BY <1>3 DEF SendCoold, Enter
  <2> HIDE DEF W, S, Live, TypeOK, RemoveEntry, OnWorker
  <2>3. IsFiniteSet(W \cup {a}) /\ Cardinality(W \cup {a}) <= Cardinality(W) + 1
    <3>1. /\ IsFiniteSet(W \cup {a})
          /\ Cardinality(W \cup {a})
               = IF a \in W THEN Cardinality(W) ELSE Cardinality(W) + 1
      BY <1>a, FS_AddElement
    <3> QED
      BY <1>a, <3>1
  <2>4. Cardinality(W') <= Cardinality(W) + 1 /\ Cardinality(W') \in Nat
    BY <1>a, <2>1, <2>3, FS_Subset, FS_CardinalityType
  <2>5. Cardinality(S') <= Cardinality(S) /\ Cardinality(S') \in Nat
    BY <1>a, <2>1, FS_Subset, FS_CardinalityType
  <2>6. /\ Cardinality(W') <= Workers
        /\ Cardinality(Live') + Cardinality(S') <= PendingMax + Workers - 1
    BY <1>a, <1>b, <2>1, <2>2, <2>4, <2>5
  <2> QED
    BY <2>6 DEF CapacityInv, W, S
<1>4. ASSUME NEW a \in Attempts, AtCapacity(a) PROVE CapacityInv'
  BY <1>4, <1>c DEF AtCapacity
<1>5. ASSUME NEW a \in Attempts, BelowCapacity(a) PROVE CapacityInv'
  <2>1. Cardinality(Live) < PendingMax /\ W' = W /\ Live' = Live
    BY <1>5 DEF BelowCapacity
  <2>2. S' \subseteq W
    BY <1>5 DEF BelowCapacity
  <2> HIDE DEF W, S, Live, TypeOK, RemoveEntry, OnWorker
  <2>3. Cardinality(S') <= Cardinality(W) /\ Cardinality(S') \in Nat
    BY <1>a, <2>2, FS_Subset, FS_CardinalityType
  <2>4. /\ Cardinality(W') <= Workers
        /\ Cardinality(Live') + Cardinality(S') <= PendingMax + Workers - 1
    BY <1>a, <1>b, <2>1, <2>3
  <2> QED
    BY <2>4 DEF CapacityInv, W, S
<1>6. ASSUME NEW a \in Attempts, Duplicate(a) PROVE CapacityInv'
  BY <1>6, <1>c DEF Duplicate
<1>7. ASSUME NEW a \in Attempts, Inserted(a) PROVE CapacityInv'
  <2>1. W' = W /\ a \in S /\ S' = S \ {a} /\ Live' \subseteq Live \cup {Rid[a]}
    BY <1>7 DEF Inserted
  <2> HIDE DEF W, S, Live, TypeOK, RemoveEntry, OnWorker
  <2>2. Cardinality(S') = Cardinality(S) - 1
    BY <1>a, <2>1, FS_RemoveElement
  <2>3. /\ IsFiniteSet(Live \cup {Rid[a]})
        /\ Cardinality(Live \cup {Rid[a]}) <= Cardinality(Live) + 1
    <3>1. /\ IsFiniteSet(Live \cup {Rid[a]})
          /\ Cardinality(Live \cup {Rid[a]})
               = IF Rid[a] \in Live THEN Cardinality(Live) ELSE Cardinality(Live) + 1
      BY <1>a, FS_AddElement
    <3> QED
      BY <1>a, <3>1
  <2>4. Cardinality(Live') <= Cardinality(Live) + 1 /\ Cardinality(Live') \in Nat
    BY <1>a, <2>1, <2>3, FS_Subset, FS_CardinalityType
  <2>5. /\ Cardinality(W') <= Workers
        /\ Cardinality(Live') + Cardinality(S') <= PendingMax + Workers - 1
    BY <1>a, <1>b, <2>1, <2>2, <2>4
  <2> QED
    BY <2>5 DEF CapacityInv, W, S
<1>8. ASSUME NEW a \in Attempts, NotFound(a) PROVE CapacityInv'
  BY <1>8, <1>c DEF NotFound
<1>9. ASSUME NEW a \in Attempts, AlreadyLanded(a) PROVE CapacityInv'
  BY <1>9, <1>c DEF AlreadyLanded
<1>10. ASSUME NEW a \in Attempts, EvictLanded(a) PROVE CapacityInv'
  BY <1>10, <1>c DEF EvictLanded
<1>11. ASSUME NEW a \in Attempts, Parked(a) PROVE CapacityInv'
  BY <1>11, <1>c DEF Parked
<1>12. ASSUME NEW a \in Attempts, GetTx(a) PROVE CapacityInv'
  BY <1>12, <1>c DEF GetTx
<1>13. ASSUME NEW a \in Attempts, SendFailed(a) PROVE CapacityInv'
  BY <1>13, <1>c DEF SendFailed
<1>14. ASSUME NEW a \in Attempts, Sent(a) PROVE CapacityInv'
  BY <1>14, <1>c DEF Sent
<1>15. ASSUME NEW a \in Attempts, Cleanup(a) PROVE CapacityInv'
  BY <1>15, <1>c DEF Cleanup
<1>16. ASSUME NEW a \in Attempts, Answered(a) PROVE CapacityInv'
  BY <1>16, <1>c DEF Answered
<1>17. ASSUME NEW a \in Attempts, TimedOut(a) PROVE CapacityInv'
  BY <1>17, <1>c DEF TimedOut
<1>18. ASSUME NEW a \in Attempts, HangUp(a) PROVE CapacityInv'
  BY <1>18, <1>c DEF HangUp
<1>19. ASSUME NEW a \in Attempts, TimePasses(a) PROVE CapacityInv'
  BY <1>19, <1>c DEF TimePasses
<1>20. ASSUME NEW c \in Conns, Connect(c) PROVE CapacityInv'
  BY <1>20, <1>c DEF Connect
<1>21. ASSUME NEW c \in Conns, Teardown(c) PROVE CapacityInv'
  BY <1>21, <1>c DEF Teardown
<1>22. ASSUME NEW c \in Conns, CloseOutbound(c) PROVE CapacityInv'
  BY <1>22, <1>c DEF CloseOutbound
<1>23. ASSUME NEW c \in Conns, PeerGone(c) PROVE CapacityInv'
  BY <1>23, <1>c DEF PeerGone
<1>24. ASSUME NEW c \in Conns, Receive(c) PROVE CapacityInv'
  BY <1>24, <1>c DEF Receive
<1>25. ASSUME NEW c \in Conns, LoseAll(c) PROVE CapacityInv'
  BY <1>25, <1>c DEF LoseAll
<1>26. ASSUME NEW c \in Conns, LoseReplies(c) PROVE CapacityInv'
  BY <1>26, <1>c DEF LoseReplies
<1>27. ASSUME NEW c \in Conns, DropDelivered(c) PROVE CapacityInv'
  BY <1>27, <1>c DEF DropDelivered
<1>28. ASSUME NEW c \in Conns, NEW a \in Attempts, Respond(c, a) PROVE CapacityInv'
  BY <1>28, <1>c DEF Respond, Executed
<1>29. ASSUME NEW c \in Conns, NEW a \in Attempts, RespondFails(c, a) PROVE CapacityInv'
  BY <1>29, <1>c DEF RespondFails, Executed
<1>30. ASSUME NEW c \in Conns, NEW a \in Attempts, UnknownReply(c, a) PROVE CapacityInv'
  BY <1>30, <1>c DEF UnknownReply, TakeReply
<1>31. ASSUME NEW c \in Conns, NEW a \in Attempts, Deliver(c, a) PROVE CapacityInv'
  BY <1>31, <1>c DEF Deliver, TakeReply
<1>32. CASE Collect
  BY <1>32, <1>c DEF Collect
<1>33. ASSUME NEW r \in ReqIds, SweepOne(r) PROVE CapacityInv'
  BY <1>33, <1>c DEF SweepOne
<1>34. CASE UNCHANGED vars
  BY <1>34, <1>c DEF vars
<1> HIDE DEF TypeOK, RemoveEntry, Live, OnWorker, W, S
<1> QED
  BY <1>1, <1>2, <1>3, <1>4, <1>5, <1>6, <1>7, <1>8, <1>9, <1>10, <1>11,
     <1>12, <1>13, <1>14, <1>15, <1>16, <1>17, <1>18, <1>19, <1>20, <1>21,
     <1>22, <1>23, <1>24, <1>25, <1>26, <1>27, <1>28, <1>29, <1>30, <1>31,
     <1>32, <1>33, <1>34 DEF Next, Handler, Stream

\* DispatchInv holds when flux starts: no stream, no entry, no dispatch.
LEMMA InvInit == Init => DispatchInv
<1> SUFFICES ASSUME Init PROVE DispatchInv
    OBVIOUS
<1>1. TypeOK
  BY DEF Init, TypeOK, Steps, OnWorker, Codes
<1>2. HandlerInv /\ CustodyInv
  BY DEF Init, HandlerInv, CustodyInv, OnWorker
<1>3. AnswerInv /\ Timely
  BY DEF Init, AnswerInv, Sinks, Timely, Early
<1>4. CapacityInv
  <2>1. Live = {} /\ {a \in Attempts : pc[a] \in OnWorker} = {}
        /\ {a \in Attempts : pc[a] = "sampled"} = {}
    BY DEF Init, Live, OnWorker
  <2>2. Cardinality({}) = 0
    BY FS_EmptySet
  <2>3. /\ Cardinality(Live) = 0
        /\ Cardinality({a \in Attempts : pc[a] \in OnWorker}) = 0
        /\ Cardinality({a \in Attempts : pc[a] = "sampled"}) = 0
    BY <2>1, <2>2, Zenon
  <2>4. 0 <= Workers /\ 0 + 0 <= PendingMax + Workers - 1
    OBVIOUS
  <2> QED
    BY <2>3, <2>4, Zenon DEF CapacityInv
<1> QED
  BY <1>1, <1>2, <1>3, <1>4 DEF DispatchInv

\* Every step preserves DispatchInv: the conjuncts' step lemmas together.
LEMMA InvStep == DispatchInv /\ [Next]_vars => DispatchInv'
<1> SUFFICES ASSUME DispatchInv, [Next]_vars PROVE DispatchInv'
    OBVIOUS
<1>1. TypeOK' /\ HandlerInv' /\ CustodyInv' /\ AnswerInv' /\ CapacityInv'
  BY TypeStep, HandlerStep, CustodyStep, AnswerStep, CapacityStep DEF DispatchInv
<1>2. UniqueIds => Timely'
  BY TimelyStep DEF DispatchInv
<1> QED
  BY <1>1, <1>2 DEF DispatchInv, UniqueIds

\* DispatchInv is an inductive invariant of the dispatch lane.
THEOREM DispatchInvariant == Spec => []DispatchInv
  BY InvInit, InvStep, PTL DEF Spec

\* coold_dispatch: an attempt refused by flux was neither put into a stream's
\* channel nor executed.
THEOREM RefusalsAreSafeToRetry == Spec => []SafeToRetry
<1>1. DispatchInv => SafeToRetry
  <2> SUFFICES ASSUME DispatchInv, NEW a \in Attempts,
                      status[a] \in Codes \ {200, 504}
               PROVE  a \notin forwarded /\ execs[a] = 0
      BY DEF SafeToRetry
  <2>1. pc[a] \in OnWorker \cup {"start", "waiting", "dropped", "done"}
    BY DEF DispatchInv, TypeOK, Steps
  <2>2. a \notin forwarded
    BY <2>1 DEF DispatchInv, HandlerInv, Codes
  <2> QED
    BY <2>2 DEF DispatchInv, CustodyInv
<1> QED
  BY <1>1, DispatchInvariant, PTL

\* deliver_response: with request ids used once, a 200 carries the result of
\* the attempt it answers, and that attempt was executed once.
THEOREM AnswersAreOwn == Spec => []OwnAnswer
<1>1. DispatchInv => OwnAnswer
  BY DEF DispatchInv, TypeOK, AnswerInv, OwnAnswer, UniqueIds
<1> QED
  BY <1>1, DispatchInvariant, PTL

\* drain_expired and deliver: with request ids used once, nobody takes the
\* entry of a handler that still has time, so no 504 comes early.
THEOREM TimeoutsAreTimely == Spec => []NoEarlyTimeout
<1>1. DispatchInv => NoEarlyTimeout
  BY DEF DispatchInv, Timely, NoEarlyTimeout
<1> QED
  BY <1>1, DispatchInvariant, PTL

\* insert_waiting: the table exceeds its cap by less than the number of
\* worker threads.
THEOREM PendingTableBounded == Spec => []OvershootBounded
<1>1. DispatchInv => OvershootBounded
  <2> SUFFICES ASSUME DispatchInv PROVE OvershootBounded
      OBVIOUS
  <2>1. /\ Cardinality(Live) \in Nat
        /\ Cardinality({a \in Attempts : pc[a] = "sampled"}) \in Nat
    BY FiniteAttempts, FS_Subset, FS_CardinalityType DEF Live
  <2> QED
    BY <2>1 DEF DispatchInv, CapacityInv, OvershootBounded
<1> QED
  BY <1>1, DispatchInvariant, PTL
=============================================================================
