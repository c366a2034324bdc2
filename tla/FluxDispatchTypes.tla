------------------------- MODULE FluxDispatchTypes --------------------------
(***************************************************************************)
(* Type correctness of FluxDispatch, and where a handler stands: every     *)
(* step preserves TypeOK and HandlerInv, for every value of the constants. *)
(***************************************************************************)
EXTENDS FluxDispatch, TLAPS

USE ConstTypes, NullsAreNotValues, NoEntryIsNotAnEntry, SMTT(30), ZenonT(30)
USE DEF streamVars, cooldVars, handlerVars, outsideHandler, handedOver,
        outsideStream, dispatchTable, Goto, Return

\* The state variables keep their types under every step of coold_dispatch,
\* the stream tasks, coold and the sweeper.
LEMMA TypeStep == TypeOK /\ [Next]_vars => TypeOK'
<1> SUFFICES ASSUME TypeOK, [Next]_vars PROVE TypeOK'
    OBVIOUS
<1> USE DEF TypeOK, RemoveEntry, Sinks, Entry, Codes, Steps, OnWorker
<1>1. ASSUME NEW a \in Attempts, NotConnected(a) PROVE TypeOK'
  BY <1>1 DEF NotConnected, Enter
<1>2. ASSUME NEW a \in Attempts, NotAuthorized(a) PROVE TypeOK'
  BY <1>2 DEF NotAuthorized, Enter
<1>3. ASSUME NEW a \in Attempts, SendCoold(a) PROVE TypeOK'
  BY <1>3 DEF SendCoold, Enter
<1>4. ASSUME NEW a \in Attempts, AtCapacity(a) PROVE TypeOK'
  BY <1>4 DEF AtCapacity
<1>5. ASSUME NEW a \in Attempts, BelowCapacity(a) PROVE TypeOK'
  BY <1>5 DEF BelowCapacity
<1>6. ASSUME NEW a \in Attempts, Duplicate(a) PROVE TypeOK'
  BY <1>6 DEF Duplicate
<1>7. ASSUME NEW a \in Attempts, Inserted(a) PROVE TypeOK'
  BY <1>7 DEF Inserted
<1>8. ASSUME NEW a \in Attempts, NotFound(a) PROVE TypeOK'
  BY <1>8 DEF NotFound
<1>9. ASSUME NEW a \in Attempts, AlreadyLanded(a) PROVE TypeOK'
  BY <1>9 DEF AlreadyLanded
<1>10. ASSUME NEW a \in Attempts, EvictLanded(a) PROVE TypeOK'
  BY <1>10 DEF EvictLanded
<1>11. ASSUME NEW a \in Attempts, Parked(a) PROVE TypeOK'
  BY <1>11 DEF Parked
<1>12. ASSUME NEW a \in Attempts, GetTx(a) PROVE TypeOK'
  BY <1>12 DEF GetTx
<1>13. ASSUME NEW a \in Attempts, SendFailed(a) PROVE TypeOK'
  BY <1>13 DEF SendFailed
<1>14. ASSUME NEW a \in Attempts, Sent(a) PROVE TypeOK'
  BY <1>14 DEF Sent
<1>15. ASSUME NEW a \in Attempts, Cleanup(a) PROVE TypeOK'
  BY <1>15 DEF Cleanup
<1>16. ASSUME NEW a \in Attempts, Answered(a) PROVE TypeOK'
  BY <1>16 DEF Answered
<1>17. ASSUME NEW a \in Attempts, TimedOut(a) PROVE TypeOK'
  BY <1>17 DEF TimedOut
<1>18. ASSUME NEW a \in Attempts, HangUp(a) PROVE TypeOK'
  BY <1>18 DEF HangUp
<1>19. ASSUME NEW a \in Attempts, TimePasses(a) PROVE TypeOK'
  BY <1>19 DEF TimePasses
<1>20. ASSUME NEW c \in Conns, Connect(c) PROVE TypeOK'
  BY <1>20 DEF Connect
<1>21. ASSUME NEW c \in Conns, Teardown(c) PROVE TypeOK'
  BY <1>21 DEF Teardown
<1>22. ASSUME NEW c \in Conns, CloseOutbound(c) PROVE TypeOK'
  BY <1>22 DEF CloseOutbound
<1>23. ASSUME NEW c \in Conns, PeerGone(c) PROVE TypeOK'
  BY <1>23 DEF PeerGone
<1>24. ASSUME NEW c \in Conns, Receive(c) PROVE TypeOK'
  BY <1>24 DEF Receive
<1>25. ASSUME NEW c \in Conns, LoseAll(c) PROVE TypeOK'
  BY <1>25 DEF LoseAll
<1>26. ASSUME NEW c \in Conns, LoseReplies(c) PROVE TypeOK'
  BY <1>26 DEF LoseReplies
<1>27. ASSUME NEW c \in Conns, DropDelivered(c) PROVE TypeOK'
  BY <1>27 DEF DropDelivered
<1>28. ASSUME NEW c \in Conns, NEW a \in Attempts, Respond(c, a) PROVE TypeOK'
  BY <1>28 DEF Respond, Executed
<1>29. ASSUME NEW c \in Conns, NEW a \in Attempts, RespondFails(c, a) PROVE TypeOK'
  BY <1>29 DEF RespondFails, Executed
<1>30. ASSUME NEW c \in Conns, NEW a \in Attempts, UnknownReply(c, a) PROVE TypeOK'
  BY <1>30 DEF UnknownReply, TakeReply
<1>31. ASSUME NEW c \in Conns, NEW a \in Attempts, Deliver(c, a) PROVE TypeOK'
  BY <1>31 DEF Deliver, TakeReply
<1>32. CASE Collect
  BY <1>32 DEF Collect
<1>33. ASSUME NEW r \in ReqIds, SweepOne(r) PROVE TypeOK'
  BY <1>33 DEF SweepOne
<1>34. CASE UNCHANGED vars
  BY <1>34 DEF vars
<1> HIDE DEF TypeOK, RemoveEntry, Sinks, Entry, Codes, Steps, OnWorker
<1> QED
  BY <1>1, <1>2, <1>3, <1>4, <1>5, <1>6, <1>7, <1>8, <1>9, <1>10, <1>11,
     <1>12, <1>13, <1>14, <1>15, <1>16, <1>17, <1>18, <1>19, <1>20, <1>21,
     <1>22, <1>23, <1>24, <1>25, <1>26, <1>27, <1>28, <1>29, <1>30, <1>31,
     <1>32, <1>33, <1>34 DEF Next, Handler, Stream

\* Every reachable state of the dispatch lane is well typed.
THEOREM TypeCorrect == Spec => []TypeOK
<1>1. Init => TypeOK
  BY DEF Init, TypeOK, Steps, OnWorker, Codes
<1> QED
  BY <1>1, TypeStep, PTL DEF Spec

\* Forwarding and the status a handler returns move together.
LEMMA HandlerStep == TypeOK /\ HandlerInv /\ [Next]_vars => HandlerInv'
<1> SUFFICES ASSUME TypeOK, HandlerInv, [Next]_vars PROVE HandlerInv'
    OBVIOUS
<1> USE DEF TypeOK, HandlerInv, Codes, Steps, OnWorker
<1>1. ASSUME NEW a \in Attempts, NotConnected(a) PROVE HandlerInv'
  BY <1>1 DEF NotConnected, Enter
<1>2. ASSUME NEW a \in Attempts, NotAuthorized(a) PROVE HandlerInv'
  BY <1>2 DEF NotAuthorized, Enter
<1>3. ASSUME NEW a \in Attempts, SendCoold(a) PROVE HandlerInv'
  BY <1>3 DEF SendCoold, Enter
<1>4. ASSUME NEW a \in Attempts, AtCapacity(a) PROVE HandlerInv'
  BY <1>4 DEF AtCapacity
<1>5. ASSUME NEW a \in Attempts, BelowCapacity(a) PROVE HandlerInv'
  BY <1>5 DEF BelowCapacity
<1>6. ASSUME NEW a \in Attempts, Duplicate(a) PROVE HandlerInv'
  BY <1>6 DEF Duplicate
<1>7. ASSUME NEW a \in Attempts, Inserted(a) PROVE HandlerInv'
  BY <1>7 DEF Inserted
<1>8. ASSUME NEW a \in Attempts, NotFound(a) PROVE HandlerInv'
  BY <1>8 DEF NotFound
<1>9. ASSUME NEW a \in Attempts, AlreadyLanded(a) PROVE HandlerInv'
  BY <1>9 DEF AlreadyLanded
<1>10. ASSUME NEW a \in Attempts, EvictLanded(a) PROVE HandlerInv'
  BY <1>10 DEF EvictLanded
<1>11. ASSUME NEW a \in Attempts, Parked(a) PROVE HandlerInv'
  BY <1>11 DEF Parked
<1>12. ASSUME NEW a \in Attempts, GetTx(a) PROVE HandlerInv'
  BY <1>12 DEF GetTx
<1>13. ASSUME NEW a \in Attempts, SendFailed(a) PROVE HandlerInv'
  BY <1>13 DEF SendFailed
<1>14. ASSUME NEW a \in Attempts, Sent(a) PROVE HandlerInv'
  BY <1>14 DEF Sent
<1>15. ASSUME NEW a \in Attempts, Cleanup(a) PROVE HandlerInv'
  BY <1>15 DEF Cleanup
<1>16. ASSUME NEW a \in Attempts, Answered(a) PROVE HandlerInv'
  BY <1>16 DEF Answered
<1>17. ASSUME NEW a \in Attempts, TimedOut(a) PROVE HandlerInv'
  BY <1>17 DEF TimedOut
<1>18. ASSUME NEW a \in Attempts, HangUp(a) PROVE HandlerInv'
  BY <1>18 DEF HangUp
<1>19. ASSUME NEW a \in Attempts, TimePasses(a) PROVE HandlerInv'
  BY <1>19 DEF TimePasses
<1>20. ASSUME NEW c \in Conns, Connect(c) PROVE HandlerInv'
  BY <1>20 DEF Connect
<1>21. ASSUME NEW c \in Conns, Teardown(c) PROVE HandlerInv'
  BY <1>21 DEF Teardown
<1>22. ASSUME NEW c \in Conns, CloseOutbound(c) PROVE HandlerInv'
  BY <1>22 DEF CloseOutbound
<1>23. ASSUME NEW c \in Conns, PeerGone(c) PROVE HandlerInv'
  BY <1>23 DEF PeerGone
<1>24. ASSUME NEW c \in Conns, Receive(c) PROVE HandlerInv'
  BY <1>24 DEF Receive
<1>25. ASSUME NEW c \in Conns, LoseAll(c) PROVE HandlerInv'
  BY <1>25 DEF LoseAll
<1>26. ASSUME NEW c \in Conns, LoseReplies(c) PROVE HandlerInv'
  BY <1>26 DEF LoseReplies
<1>27. ASSUME NEW c \in Conns, DropDelivered(c) PROVE HandlerInv'
  BY <1>27 DEF DropDelivered
<1>28. ASSUME NEW c \in Conns, NEW a \in Attempts, Respond(c, a) PROVE HandlerInv'
  BY <1>28 DEF Respond, Executed
<1>29. ASSUME NEW c \in Conns, NEW a \in Attempts, RespondFails(c, a) PROVE HandlerInv'
  BY <1>29 DEF RespondFails, Executed
<1>30. ASSUME NEW c \in Conns, NEW a \in Attempts, UnknownReply(c, a) PROVE HandlerInv'
  BY <1>30 DEF UnknownReply, TakeReply
<1>31. ASSUME NEW c \in Conns, NEW a \in Attempts, Deliver(c, a) PROVE HandlerInv'
  BY <1>31 DEF Deliver, TakeReply
<1>32. CASE Collect
  BY <1>32 DEF Collect
<1>33. ASSUME NEW r \in ReqIds, SweepOne(r) PROVE HandlerInv'
  BY <1>33 DEF SweepOne
<1>34. CASE UNCHANGED vars
  BY <1>34 DEF vars
<1> HIDE DEF TypeOK, HandlerInv, Codes, Steps, OnWorker
<1> QED
  BY <1>1, <1>2, <1>3, <1>4, <1>5, <1>6, <1>7, <1>8, <1>9, <1>10, <1>11,
     <1>12, <1>13, <1>14, <1>15, <1>16, <1>17, <1>18, <1>19, <1>20, <1>21,
     <1>22, <1>23, <1>24, <1>25, <1>26, <1>27, <1>28, <1>29, <1>30, <1>31,
     <1>32, <1>33, <1>34 DEF Next, Handler, Stream
=============================================================================
