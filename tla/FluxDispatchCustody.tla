------------------------ MODULE FluxDispatchCustody -------------------------
(***************************************************************************)
(* Who holds a command and whose answer a sink gets: CustodyInv and        *)
(* AnswerInv are preserved by every step of FluxDispatch.                  *)
(***************************************************************************)
EXTENDS FluxDispatch, TLAPS

USE ConstTypes, NullsAreNotValues, NoEntryIsNotAnEntry, SMTT(30), ZenonT(30)
USE DEF streamVars, cooldVars, handlerVars, outsideHandler, handedOver,
        outsideStream, dispatchTable, Goto, Return

\* A command is in one place at a time: one position of one channel, one
\* handler of coold, executed once, or lost.
LEMMA CustodyStep ==
  TypeOK /\ HandlerInv /\ CustodyInv /\ [Next]_vars => CustodyInv'
<1> SUFFICES ASSUME TypeOK, HandlerInv, CustodyInv, [Next]_vars PROVE CustodyInv'
    OBVIOUS
<1>0. ASSUME UNCHANGED <<queue, cooldVars, forwarded>> PROVE CustodyInv'
  BY <1>0 DEF CustodyInv
<1>1. ASSUME NEW a \in Attempts, NotConnected(a) PROVE CustodyInv'
  BY <1>1, <1>0 DEF NotConnected, Enter
<1>2. ASSUME NEW a \in Attempts, NotAuthorized(a) PROVE CustodyInv'
  BY <1>2, <1>0 DEF NotAuthorized, Enter
<1>3. ASSUME NEW a \in Attempts, SendCoold(a) PROVE CustodyInv'
  BY <1>3, <1>0 DEF SendCoold, Enter
<1>4. ASSUME NEW a \in Attempts, AtCapacity(a) PROVE CustodyInv'
  BY <1>4, <1>0 DEF AtCapacity
<1>5. ASSUME NEW a \in Attempts, BelowCapacity(a) PROVE CustodyInv'
  BY <1>5, <1>0 DEF BelowCapacity
<1>6. ASSUME NEW a \in Attempts, Duplicate(a) PROVE CustodyInv'
  BY <1>6, <1>0 DEF Duplicate
<1>7. ASSUME NEW a \in Attempts, Inserted(a) PROVE CustodyInv'
  BY <1>7, <1>0 DEF Inserted
<1>8. ASSUME NEW a \in Attempts, NotFound(a) PROVE CustodyInv'
  BY <1>8, <1>0 DEF NotFound
<1>9. ASSUME NEW a \in Attempts, AlreadyLanded(a) PROVE CustodyInv'
  BY <1>9, <1>0 DEF AlreadyLanded
<1>10. ASSUME NEW a \in Attempts, EvictLanded(a) PROVE CustodyInv'
  BY <1>10, <1>0 DEF EvictLanded
<1>11. ASSUME NEW a \in Attempts, Parked(a) PROVE CustodyInv'
  BY <1>11, <1>0 DEF Parked
<1>12. ASSUME NEW a \in Attempts, GetTx(a) PROVE CustodyInv'
  BY <1>12, <1>0 DEF GetTx
<1>13. ASSUME NEW a \in Attempts, SendFailed(a) PROVE CustodyInv'
  BY <1>13, <1>0 DEF SendFailed
<1>14. ASSUME NEW a \in Attempts, Sent(a) PROVE CustodyInv'
  BY <1>14 DEF Sent, TypeOK, HandlerInv, CustodyInv, OnWorker
<1>15. ASSUME NEW a \in Attempts, Cleanup(a) PROVE CustodyInv'
  BY <1>15, <1>0 DEF Cleanup
<1>16. ASSUME NEW a \in Attempts, Answered(a) PROVE CustodyInv'
  BY <1>16, <1>0 DEF Answered
<1>17. ASSUME NEW a \in Attempts, TimedOut(a) PROVE CustodyInv'
  BY <1>17, <1>0 DEF TimedOut
<1>18. ASSUME NEW a \in Attempts, HangUp(a) PROVE CustodyInv'
  BY <1>18, <1>0 DEF HangUp
<1>19. ASSUME NEW a \in Attempts, TimePasses(a) PROVE CustodyInv'
  BY <1>19, <1>0 DEF TimePasses
<1>20. ASSUME NEW c \in Conns, Connect(c) PROVE CustodyInv'
  BY <1>20, <1>0 DEF Connect
<1>21. ASSUME NEW c \in Conns, Teardown(c) PROVE CustodyInv'
  BY <1>21, <1>0 DEF Teardown
<1>22. ASSUME NEW c \in Conns, CloseOutbound(c) PROVE CustodyInv'
  BY <1>22 DEF CloseOutbound, TypeOK, CustodyInv
<1>23. ASSUME NEW c \in Conns, PeerGone(c) PROVE CustodyInv'
  BY <1>23, <1>0 DEF PeerGone
<1>24. ASSUME NEW c \in Conns, Receive(c) PROVE CustodyInv'
  <2> DEFINE b == Head(queue[c])
  <2>1. /\ b = queue[c][1] /\ b \in Attempts /\ Len(queue[c]) \in Nat \ {0}
        /\ Len(queue'[c]) = Len(queue[c]) - 1
        /\ \A i \in 1..Len(queue'[c]) : queue'[c][i] = queue[c][i+1]
    BY <1>24 DEF Receive, TypeOK
  <2>2. \A d \in Conns : d # c => queue'[d] = queue[d] /\ running'[d] = running[d]
    BY <1>24 DEF Receive, TypeOK
  <2>3. running'[c] = running[c] \cup {b} /\ UNCHANGED <<execs, replies, forwarded>>
    BY <1>24 DEF Receive, TypeOK
  <2>4. b \in forwarded /\ execs[b] = 0 /\ \A d \in Conns : b \notin running[d]
    BY <2>1 DEF CustodyInv
  <2>5. \A d \in Conns : \A i \in 1..Len(queue'[d]) :
          \E k \in 1..Len(queue[d]) :
             /\ queue'[d][i] = queue[d][k]
             /\ k = IF d = c THEN i + 1 ELSE i
    BY <2>1, <2>2
  <2>6. \A d \in Conns : \A i \in 1..Len(queue'[d]) : queue'[d][i] # b
    BY <2>1, <2>5 DEF CustodyInv
  <2> HIDE DEF b
  <2>7. ASSUME NEW d \in Conns, NEW i \in 1..Len(queue'[d])
        PROVE  /\ queue'[d][i] \in forwarded
               /\ execs[queue'[d][i]] = 0
               /\ \A e \in Conns : queue'[d][i] \notin running'[e]
    <3>1. PICK k \in 1..Len(queue[d]) : queue'[d][i] = queue[d][k]
      BY <2>5
    <3>2. /\ queue[d][k] \in forwarded
          /\ execs[queue[d][k]] = 0
          /\ \A e \in Conns : queue[d][k] \notin running[e]
      BY DEF CustodyInv
    <3>3. queue[d][k] # b
      BY <3>1, <2>6
    <3> QED
      BY <3>1, <3>2, <3>3, <2>2, <2>3
  <2>8. ASSUME NEW d \in Conns, NEW e \in Conns,
               NEW i \in 1..Len(queue'[d]), NEW j \in 1..Len(queue'[e]),
               queue'[d][i] = queue'[e][j]
        PROVE  d = e /\ i = j
    <3>1. PICK k \in 1..Len(queue[d]) :
            queue'[d][i] = queue[d][k] /\ k = IF d = c THEN i + 1 ELSE i
      BY <2>5
    <3>2. PICK l \in 1..Len(queue[e]) :
            queue'[e][j] = queue[e][l] /\ l = IF e = c THEN j + 1 ELSE j
      BY <2>5
    <3>3. queue[d][k] = queue[e][l]
      BY <2>8, <3>1, <3>2
    <3>4. d = e /\ k = l
      BY <3>3 DEF CustodyInv
    <3> QED
      BY <3>1, <3>2, <3>4
  <2>9. \A d \in Conns : \A a \in running'[d] :
          a \in forwarded /\ execs[a] = 0 /\ \A e \in Conns : a \in running'[e] => d = e
    BY <2>2, <2>3, <2>4 DEF CustodyInv
  <2> QED
    BY <2>3, <2>7, <2>8, <2>9 DEF CustodyInv
<1>25. ASSUME NEW c \in Conns, LoseAll(c) PROVE CustodyInv'
  BY <1>25 DEF LoseAll, TypeOK, CustodyInv
<1>26. ASSUME NEW c \in Conns, LoseReplies(c) PROVE CustodyInv'
  BY <1>26 DEF LoseReplies, TypeOK, CustodyInv
<1>27. ASSUME NEW c \in Conns, DropDelivered(c) PROVE CustodyInv'
  BY <1>27, <1>0 DEF DropDelivered
<1>28. ASSUME NEW c \in Conns, NEW a \in Attempts, Respond(c, a) PROVE CustodyInv'
  BY <1>28 DEF Respond, Executed, TypeOK, CustodyInv
<1>29. ASSUME NEW c \in Conns, NEW a \in Attempts, RespondFails(c, a) PROVE CustodyInv'
  BY <1>29 DEF RespondFails, Executed, TypeOK, CustodyInv
<1>30. ASSUME NEW c \in Conns, NEW a \in Attempts, UnknownReply(c, a) PROVE CustodyInv'
  BY <1>30 DEF UnknownReply, TakeReply, TypeOK, CustodyInv
<1>31. ASSUME NEW c \in Conns, NEW a \in Attempts, Deliver(c, a) PROVE CustodyInv'
  BY <1>31 DEF Deliver, TakeReply, TypeOK, CustodyInv
<1>32. CASE Collect
  BY <1>32, <1>0 DEF Collect
<1>33. ASSUME NEW r \in ReqIds, SweepOne(r) PROVE CustodyInv'
  BY <1>33, <1>0 DEF SweepOne
<1>34. CASE UNCHANGED vars
  BY <1>34, <1>0 DEF vars
<1> QED
  BY <1>1, <1>2, <1>3, <1>4, <1>5, <1>6, <1>7, <1>8, <1>9, <1>10, <1>11,
     <1>12, <1>13, <1>14, <1>15, <1>16, <1>17, <1>18, <1>19, <1>20, <1>21,
     <1>22, <1>23, <1>24, <1>25, <1>26, <1>27, <1>28, <1>29, <1>30, <1>31,
     <1>32, <1>33, <1>34 DEF Next, Handler, Stream

\* A response reaches only handlers parked under its request id.
LEMMA AnswerStep ==
  TypeOK /\ HandlerInv /\ CustodyInv /\ AnswerInv /\ [Next]_vars => AnswerInv'
<1> SUFFICES ASSUME TypeOK, HandlerInv, CustodyInv, AnswerInv, [Next]_vars PROVE AnswerInv'
    OBVIOUS
<1> USE DEF TypeOK, AnswerInv, Sinks, RemoveEntry, Entry, Codes
<1>1. ASSUME NEW a \in Attempts, NotConnected(a) PROVE AnswerInv'
  BY <1>1 DEF NotConnected, Enter
<1>2. ASSUME NEW a \in Attempts, NotAuthorized(a) PROVE AnswerInv'
  BY <1>2 DEF NotAuthorized, Enter
<1>3. ASSUME NEW a \in Attempts, SendCoold(a) PROVE AnswerInv'
  BY <1>3 DEF SendCoold, Enter
<1>4. ASSUME NEW a \in Attempts, AtCapacity(a) PROVE AnswerInv'
  BY <1>4 DEF AtCapacity
<1>5. ASSUME NEW a \in Attempts, BelowCapacity(a) PROVE AnswerInv'
  BY <1>5 DEF BelowCapacity
<1>6. ASSUME NEW a \in Attempts, Duplicate(a) PROVE AnswerInv'
  BY <1>6 DEF Duplicate
<1>7. ASSUME NEW a \in Attempts, Inserted(a) PROVE AnswerInv'
  BY <1>7 DEF Inserted
<1>8. ASSUME NEW a \in Attempts, NotFound(a) PROVE AnswerInv'
  BY <1>8 DEF NotFound
<1>9. ASSUME NEW a \in Attempts, AlreadyLanded(a) PROVE AnswerInv'
  BY <1>9 DEF AlreadyLanded
<1>10. ASSUME NEW a \in Attempts, EvictLanded(a) PROVE AnswerInv'
  BY <1>10 DEF EvictLanded
<1>11. ASSUME NEW a \in Attempts, Parked(a) PROVE AnswerInv'
  BY <1>11 DEF Parked
<1>12. ASSUME NEW a \in Attempts, GetTx(a) PROVE AnswerInv'
  BY <1>12 DEF GetTx
<1>13. ASSUME NEW a \in Attempts, SendFailed(a) PROVE AnswerInv'
  BY <1>13 DEF SendFailed
<1>14. ASSUME NEW a \in Attempts, Sent(a) PROVE AnswerInv'
  BY <1>14 DEF Sent
<1>15. ASSUME NEW a \in Attempts, Cleanup(a) PROVE AnswerInv'
  BY <1>15 DEF Cleanup
<1>16. ASSUME NEW a \in Attempts, Answered(a) PROVE AnswerInv'
  BY <1>16 DEF Answered
<1>17. ASSUME NEW a \in Attempts, TimedOut(a) PROVE AnswerInv'
  BY <1>17 DEF TimedOut
<1>18. ASSUME NEW a \in Attempts, HangUp(a) PROVE AnswerInv'
  BY <1>18 DEF HangUp
<1>19. ASSUME NEW a \in Attempts, TimePasses(a) PROVE AnswerInv'
  BY <1>19 DEF TimePasses
<1>20. ASSUME NEW c \in Conns, Connect(c) PROVE AnswerInv'
  BY <1>20 DEF Connect
<1>21. ASSUME NEW c \in Conns, Teardown(c) PROVE AnswerInv'
  BY <1>21 DEF Teardown
<1>22. ASSUME NEW c \in Conns, CloseOutbound(c) PROVE AnswerInv'
  BY <1>22 DEF CloseOutbound
<1>23. ASSUME NEW c \in Conns, PeerGone(c) PROVE AnswerInv'
  BY <1>23 DEF PeerGone
<1>24. ASSUME NEW c \in Conns, Receive(c) PROVE AnswerInv'
  BY <1>24 DEF Receive
<1>25. ASSUME NEW c \in Conns, LoseAll(c) PROVE AnswerInv'
  BY <1>25 DEF LoseAll
<1>26. ASSUME NEW c \in Conns, LoseReplies(c) PROVE AnswerInv'
  BY <1>26 DEF LoseReplies
<1>27. ASSUME NEW c \in Conns, DropDelivered(c) PROVE AnswerInv'
  BY <1>27 DEF DropDelivered
<1>28. ASSUME NEW c \in Conns, NEW a \in Attempts, Respond(c, a) PROVE AnswerInv'
  BY <1>28 DEF Respond, Executed, CustodyInv, Codes
<1>29. ASSUME NEW c \in Conns, NEW a \in Attempts, RespondFails(c, a) PROVE AnswerInv'
  BY <1>29 DEF RespondFails, Executed, CustodyInv, Codes
<1>30. ASSUME NEW c \in Conns, NEW a \in Attempts, UnknownReply(c, a) PROVE AnswerInv'
  BY <1>30 DEF UnknownReply, TakeReply
<1>31. ASSUME NEW c \in Conns, NEW a \in Attempts, Deliver(c, a) PROVE AnswerInv'
  <2>1. UNCHANGED <<execs, status>>
    BY <1>31 DEF Deliver, TakeReply
  <2>2. \A q \in ReqIds : Sinks(q)' = IF q = Rid[a] THEN {} ELSE Sinks(q)
    BY <1>31 DEF Deliver, TakeReply
  <2>3. \A b \in Attempts : body'[b] = IF b \in Sinks(Rid[a]) THEN a ELSE body[b]
    BY <1>31 DEF Deliver, TakeReply
  <2>4. \A q \in ReqIds : \A b \in Sinks(q) : Rid[b] = q /\ b \in Attempts
    OBVIOUS
  <2> HIDE DEF Sinks, TypeOK, Entry, RemoveEntry, AnswerInv, Codes
  <2>5. execs[a] = 1
    BY <1>31 DEF Deliver, TakeReply, CustodyInv
  <2>6. ASSUME NEW q \in ReqIds, NEW b \in Sinks(q)' PROVE Rid[b] = q
    <3>1. b \in Sinks(q)
      BY <2>2, <2>6
    <3> QED
      BY <2>4, <3>1
  <2>7. ASSUME NEW b \in Attempts
        PROVE  /\ body'[b] # NoBody => Rid[body'[b]] = Rid[b] /\ execs'[body'[b]] = 1
               /\ status'[b] = 200 => body'[b] # NoBody
    <3>1. CASE b \in Sinks(Rid[a])
      BY <2>1, <2>3, <2>4, <2>5, <3>1
    <3>2. CASE b \notin Sinks(Rid[a])
      BY <2>1, <2>3, <3>2 DEF AnswerInv
    <3> QED
      BY <3>1, <3>2
  <2> QED
    BY <2>6, <2>7 DEF AnswerInv
<1>32. CASE Collect
  BY <1>32 DEF Collect
<1>33. ASSUME NEW r \in ReqIds, SweepOne(r) PROVE AnswerInv'
  BY <1>33 DEF SweepOne
<1>34. CASE UNCHANGED vars
  BY <1>34 DEF vars
<1> HIDE DEF TypeOK, AnswerInv, Sinks, RemoveEntry, Entry, Codes
<1> QED
  BY <1>1, <1>2, <1>3, <1>4, <1>5, <1>6, <1>7, <1>8, <1>9, <1>10, <1>11,
     <1>12, <1>13, <1>14, <1>15, <1>16, <1>17, <1>18, <1>19, <1>20, <1>21,
     <1>22, <1>23, <1>24, <1>25, <1>26, <1>27, <1>28, <1>29, <1>30, <1>31,
     <1>32, <1>33, <1>34 DEF Next, Handler, Stream
=============================================================================
