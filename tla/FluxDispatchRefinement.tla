---------------------- MODULE FluxDispatchRefinement ----------------------
(***************************************************************************)
(* The dispatch lane implements AtMostOnceDispatch, for every value of the *)
(* constants: initial states map to initial states and every step, taken   *)
(* from a state of DispatchInv, maps to a step or a stutter.               *)
(***************************************************************************)
EXTENDS FluxDispatchProofs

USE ConstTypes, NullsAreNotValues, NoEntryIsNotAnEntry, SMTT(30), ZenonT(30)
USE DEF streamVars, cooldVars, handlerVars, outsideHandler, handedOver,
        outsideStream, dispatchTable, Goto

AbsStep == [Abs!Next]_(Abs!absVars)

\* What the caller was told depends on the status and on "dropped" alone.
LEMMA SameBar ==
  ASSUME UNCHANGED status,
         \A b \in Attempts : pc[b] = "dropped" <=> pc'[b] = "dropped"
  PROVE  UNCHANGED outcomeBar
<1>1. \A b \in Attempts : Outcome(b)' = Outcome(b)
  BY DEF Outcome
<1> QED
  BY <1>1 DEF outcomeBar

\* A step that forwards, executes and reports nothing is an abstract stutter.
LEMMA SameOutcome ==
  ASSUME UNCHANGED <<forwarded, execs, status>>,
         \A b \in Attempts : pc[b] = "dropped" <=> pc'[b] = "dropped"
  PROVE  AbsStep
<1>1. UNCHANGED outcomeBar
  BY SameBar
<1> QED
  BY <1>1 DEF AbsStep, Abs!absVars

\* A step that ends one attempt changes the abstract outcome of that one only.
LEMMA OneTold ==
  ASSUME NEW a \in Attempts, NEW o, Outcome(a)' = o,
         \A b \in Attempts \ {a} : pc'[b] = pc[b] /\ status'[b] = status[b]
  PROVE  outcomeBar' = [outcomeBar EXCEPT ![a] = o]
<1>1. \A b \in Attempts \ {a} : Outcome(b)' = Outcome(b)
  BY DEF Outcome
<1>2. outcomeBar' = [b \in Attempts |-> Outcome(b)']
  BY DEF outcomeBar
<1>3. outcomeBar = [b \in Attempts |-> Outcome(b)]
  BY DEF outcomeBar
<1> HIDE DEF outcomeBar, Outcome
<1> QED
  BY <1>1, <1>2, <1>3

\* A return with any code but those of await_coold is a refusal.
LEMMA Refusal ==
  ASSUME TypeOK, HandlerInv, NEW a \in Attempts,
         NEW code \in Codes \ {200, 504}, Return(a, code),
         pc[a] \in OnWorker \cup {"start"}, UNCHANGED <<forwarded, execs>>
  PROVE  AbsStep
<1>2. /\ \A b \in Attempts \ {a} : pc'[b] = pc[b] /\ status'[b] = status[b]
      /\ status'[a] = code /\ pc'[a] = "done"
  BY DEF TypeOK, Return
<1>3. a \notin forwarded /\ outcomeBar[a] = "none"
  BY DEF HandlerInv, OnWorker, outcomeBar, Outcome, Codes
<1>4. Outcome(a)' = "refused"
  BY <1>2 DEF Outcome, Codes
<1>5. outcomeBar' = [outcomeBar EXCEPT ![a] = "refused"]
  BY <1>2, <1>4, OneTold
<1>6. Abs!Refuse(a)
  BY <1>3, <1>5 DEF Abs!Refuse, Abs!Tell
<1> QED
  BY <1>6 DEF AbsStep, Abs!Next

\* Every step of the dispatch lane is an abstract step or a stutter.
LEMMA StepSimulation == DispatchInv /\ [Next]_vars => AbsStep
<1> SUFFICES ASSUME DispatchInv, [Next]_vars PROVE AbsStep
    OBVIOUS
<1>a. TypeOK /\ HandlerInv /\ CustodyInv /\ AnswerInv
  BY DEF DispatchInv
<1> USE <1>a DEF TypeOK
<1>1. ASSUME NEW a \in Attempts, NotConnected(a) PROVE AbsStep
  <2>1. Return(a, 404)
    BY <1>1 DEF NotConnected, Enter
  <2>2. pc[a] \in OnWorker \cup {"start"} /\ UNCHANGED <<forwarded, execs>>
    BY <1>1 DEF NotConnected, Enter, OnWorker
  <2> QED
    BY <2>1, <2>2, Refusal DEF Codes
<1>2. ASSUME NEW a \in Attempts, NotAuthorized(a) PROVE AbsStep
  <2>1. Return(a, 403) \/ Return(a, 501)
    BY <1>2 DEF NotAuthorized, Enter
  <2>2. pc[a] \in OnWorker \cup {"start"} /\ UNCHANGED <<forwarded, execs>>
    BY <1>2 DEF NotAuthorized, Enter, OnWorker
  <2> QED
    BY <2>1, <2>2, Refusal DEF Codes
<1>3. ASSUME NEW a \in Attempts, SendCoold(a) PROVE AbsStep
  <2>1. /\ UNCHANGED <<forwarded, execs, status>>
        /\ \A b \in Attempts : pc[b] = "dropped" <=> pc'[b] = "dropped"
    BY <1>3 DEF SendCoold, Enter, Goto
  <2> QED
    BY <2>1, SameOutcome
<1>4. ASSUME NEW a \in Attempts, AtCapacity(a) PROVE AbsStep
  <2>1. Return(a, 503)
    BY <1>4 DEF AtCapacity
  <2>2. pc[a] \in OnWorker \cup {"start"} /\ UNCHANGED <<forwarded, execs>>
    BY <1>4 DEF AtCapacity, OnWorker
  <2> QED
    BY <2>1, <2>2, Refusal DEF Codes
<1>5. ASSUME NEW a \in Attempts, BelowCapacity(a) PROVE AbsStep
  <2>1. /\ UNCHANGED <<forwarded, execs, status>>
        /\ \A b \in Attempts : pc[b] = "dropped" <=> pc'[b] = "dropped"
    BY <1>5 DEF BelowCapacity, Goto
  <2> QED
    BY <2>1, SameOutcome
<1>6. ASSUME NEW a \in Attempts, Duplicate(a) PROVE AbsStep
  <2>1. Return(a, 409)
    BY <1>6 DEF Duplicate
  <2>2. pc[a] \in OnWorker \cup {"start"} /\ UNCHANGED <<forwarded, execs>>
    BY <1>6 DEF Duplicate, OnWorker
  <2> QED
    BY <2>1, <2>2, Refusal DEF Codes
<1>7. ASSUME NEW a \in Attempts, Inserted(a) PROVE AbsStep
  <2>1. /\ UNCHANGED <<forwarded, execs, status>>
        /\ \A b \in Attempts : pc[b] = "dropped" <=> pc'[b] = "dropped"
    BY <1>7 DEF Inserted, Goto
  <2> QED
    BY <2>1, SameOutcome
<1>8. ASSUME NEW a \in Attempts, NotFound(a) PROVE AbsStep
  <2>1. Return(a, 500)
    BY <1>8 DEF NotFound
  <2>2. pc[a] \in OnWorker \cup {"start"} /\ UNCHANGED <<forwarded, execs>>
    BY <1>8 DEF NotFound, OnWorker
  <2> QED
    BY <2>1, <2>2, Refusal DEF Codes
<1>9. ASSUME NEW a \in Attempts, AlreadyLanded(a) PROVE AbsStep
  <2>1. /\ UNCHANGED <<forwarded, execs, status>>
        /\ \A b \in Attempts : pc[b] = "dropped" <=> pc'[b] = "dropped"
    BY <1>9 DEF AlreadyLanded, Goto
  <2> QED
    BY <2>1, SameOutcome
<1>10. ASSUME NEW a \in Attempts, EvictLanded(a) PROVE AbsStep
  <2>1. Return(a, 500)
    BY <1>10 DEF EvictLanded
  <2>2. pc[a] \in OnWorker \cup {"start"} /\ UNCHANGED <<forwarded, execs>>
    BY <1>10 DEF EvictLanded, OnWorker
  <2> QED
    BY <2>1, <2>2, Refusal DEF Codes
<1>11. ASSUME NEW a \in Attempts, Parked(a) PROVE AbsStep
  <2>1. /\ UNCHANGED <<forwarded, execs, status>>
        /\ \A b \in Attempts : pc[b] = "dropped" <=> pc'[b] = "dropped"
    BY <1>11 DEF Parked, Goto
  <2> QED
    BY <2>1, SameOutcome
<1>12. ASSUME NEW a \in Attempts, GetTx(a) PROVE AbsStep
  <2>1. /\ UNCHANGED <<forwarded, execs, status>>
        /\ \A b \in Attempts : pc[b] = "dropped" <=> pc'[b] = "dropped"
    BY <1>12 DEF GetTx, Goto
  <2> QED
    BY <2>1, SameOutcome
<1>13. ASSUME NEW a \in Attempts, SendFailed(a) PROVE AbsStep
  <2>1. /\ UNCHANGED <<forwarded, execs, status>>
        /\ \A b \in Attempts : pc[b] = "dropped" <=> pc'[b] = "dropped"
    BY <1>13 DEF SendFailed, Goto
  <2> QED
    BY <2>1, SameOutcome
<1>14. ASSUME NEW a \in Attempts, Sent(a) PROVE AbsStep
  <2>1. /\ forwarded' = forwarded \cup {a} /\ UNCHANGED <<execs, status>>
        /\ \A b \in Attempts : pc[b] = "dropped" <=> pc'[b] = "dropped"
        /\ pc[a] = "sending"
    BY <1>14 DEF Sent
  <2>2. a \notin forwarded /\ outcomeBar[a] = "none"
    BY <2>1 DEF HandlerInv, OnWorker, outcomeBar, Outcome, Codes
  <2>3. UNCHANGED outcomeBar
    BY <2>1, SameBar
  <2>4. Abs!Send(a)
    BY <2>1, <2>2, <2>3 DEF Abs!Send
  <2> QED
    BY <2>4 DEF AbsStep, Abs!Next
<1>15. ASSUME NEW a \in Attempts, Cleanup(a) PROVE AbsStep
  <2>1. Return(a, 503)
    BY <1>15 DEF Cleanup
  <2>2. pc[a] \in OnWorker \cup {"start"} /\ UNCHANGED <<forwarded, execs>>
    BY <1>15 DEF Cleanup, OnWorker
  <2> QED
    BY <2>1, <2>2, Refusal DEF Codes
<1>16. ASSUME NEW a \in Attempts, Answered(a) PROVE AbsStep
  <2>1. /\ pc[a] = "waiting" /\ UNCHANGED <<forwarded, execs>>
        /\ \A b \in Attempts \ {a} : pc'[b] = pc[b] /\ status'[b] = status[b]
        /\ status'[a] = 200 /\ pc'[a] = "done"
    BY <1>16 DEF Answered, Return
  <2>2. a \in forwarded /\ outcomeBar[a] = "none"
    BY <2>1 DEF HandlerInv, outcomeBar, Outcome, Codes
  <2>3. Outcome(a)' = "answered"
    BY <2>1, <2>2 DEF Outcome, HandlerInv, Codes
  <2>4. outcomeBar' = [outcomeBar EXCEPT ![a] = "answered"]
    BY <2>1, <2>3, OneTold
  <2>5. \E b \in Attempts : execs[b] > 0 /\ Rid[b] = Rid[a]
    BY <1>16 DEF Answered, AnswerInv, TypeOK
  <2>6. Abs!Answer(a)
    BY <2>1, <2>2, <2>4, <2>5 DEF Abs!Answer, Abs!Tell
  <2> QED
    BY <2>6 DEF AbsStep, Abs!Next
<1>17. ASSUME NEW a \in Attempts, TimedOut(a) PROVE AbsStep
  <2>1. /\ pc[a] = "waiting" /\ UNCHANGED <<forwarded, execs>>
        /\ \A b \in Attempts \ {a} : pc'[b] = pc[b] /\ status'[b] = status[b]
        /\ status'[a] = 504 /\ pc'[a] = "done"
    BY <1>17 DEF TimedOut, Return
  <2>2. a \in forwarded /\ outcomeBar[a] = "none"
    BY <2>1 DEF HandlerInv, outcomeBar, Outcome, Codes
  <2>3. Outcome(a)' = "unknown"
    BY <2>1, <2>2 DEF Outcome, HandlerInv, Codes
  <2>4. outcomeBar' = [outcomeBar EXCEPT ![a] = "unknown"]
    BY <2>1, <2>3, OneTold
  <2>6. Abs!GiveUp(a)
    BY <2>1, <2>2, <2>4 DEF Abs!GiveUp, Abs!Tell
  <2> QED
    BY <2>6 DEF AbsStep, Abs!Next
<1>18. ASSUME NEW a \in Attempts, HangUp(a) PROVE AbsStep
  <2>1. /\ pc[a] = "waiting" /\ UNCHANGED <<forwarded, execs>>
        /\ \A b \in Attempts \ {a} : pc'[b] = pc[b] /\ status'[b] = status[b]
        /\ pc'[a] = "dropped" /\ status'[a] = status[a]
    BY <1>18 DEF HangUp, Return
  <2>2. a \in forwarded /\ outcomeBar[a] = "none"
    BY <2>1 DEF HandlerInv, outcomeBar, Outcome, Codes
  <2>3. Outcome(a)' = "unknown"
    BY <2>1, <2>2 DEF Outcome, HandlerInv, Codes
  <2>4. outcomeBar' = [outcomeBar EXCEPT ![a] = "unknown"]
    BY <2>1, <2>3, OneTold
  <2>6. Abs!GiveUp(a)
    BY <2>1, <2>2, <2>4 DEF Abs!GiveUp, Abs!Tell
  <2> QED
    BY <2>6 DEF AbsStep, Abs!Next
<1>19. ASSUME NEW a \in Attempts, TimePasses(a) PROVE AbsStep
  <2>1. UNCHANGED <<forwarded, execs, status, pc>>
    BY <1>19 DEF TimePasses
  <2> QED
    BY <2>1, SameOutcome
<1>20. ASSUME NEW c \in Conns, Connect(c) PROVE AbsStep
  <2>1. UNCHANGED <<forwarded, execs, status, pc>>
    BY <1>20 DEF Connect
  <2> QED
    BY <2>1, SameOutcome
<1>21. ASSUME NEW c \in Conns, Teardown(c) PROVE AbsStep
  <2>1. UNCHANGED <<forwarded, execs, status, pc>>
    BY <1>21 DEF Teardown
  <2> QED
    BY <2>1, SameOutcome
<1>22. ASSUME NEW c \in Conns, CloseOutbound(c) PROVE AbsStep
  <2>1. UNCHANGED <<forwarded, execs, status, pc>>
    BY <1>22 DEF CloseOutbound
  <2> QED
    BY <2>1, SameOutcome
<1>23. ASSUME NEW c \in Conns, PeerGone(c) PROVE AbsStep
  <2>1. UNCHANGED <<forwarded, execs, status, pc>>
    BY <1>23 DEF PeerGone
  <2> QED
    BY <2>1, SameOutcome
<1>24. ASSUME NEW c \in Conns, Receive(c) PROVE AbsStep
  <2>1. UNCHANGED <<forwarded, execs, status, pc>>
    BY <1>24 DEF Receive
  <2> QED
    BY <2>1, SameOutcome
<1>25. ASSUME NEW c \in Conns, LoseAll(c) PROVE AbsStep
  <2>1. UNCHANGED <<forwarded, execs, status, pc>>
    BY <1>25 DEF LoseAll
  <2> QED
    BY <2>1, SameOutcome
<1>26. ASSUME NEW c \in Conns, LoseReplies(c) PROVE AbsStep
  <2>1. UNCHANGED <<forwarded, execs, status, pc>>
    BY <1>26 DEF LoseReplies
  <2> QED
    BY <2>1, SameOutcome
<1>27. ASSUME NEW c \in Conns, DropDelivered(c) PROVE AbsStep
  <2>1. UNCHANGED <<forwarded, execs, status, pc>>
    BY <1>27 DEF DropDelivered, RemoveEntry
  <2> QED
    BY <2>1, SameOutcome
<1>28. ASSUME NEW c \in Conns, NEW a \in Attempts, Respond(c, a) PROVE AbsStep
  <2>1. /\ UNCHANGED <<forwarded, status, pc>>
        /\ a \in running[c] /\ execs' = [execs EXCEPT ![a] = execs[a] + 1]
    BY <1>28 DEF Respond, Executed
  <2>2. a \in forwarded /\ execs[a] = 0
    BY <2>1 DEF CustodyInv
  <2>3. execs' = [execs EXCEPT ![a] = 1]
    BY <2>1, <2>2
  <2>4. UNCHANGED outcomeBar
    BY <2>1, SameBar
  <2>5. Abs!Run(a)
    BY <2>1, <2>2, <2>3, <2>4 DEF Abs!Run
  <2> QED
    BY <2>5 DEF AbsStep, Abs!Next
<1>29. ASSUME NEW c \in Conns, NEW a \in Attempts, RespondFails(c, a) PROVE AbsStep
  <2>1. /\ UNCHANGED <<forwarded, status, pc>>
        /\ a \in running[c] /\ execs' = [execs EXCEPT ![a] = execs[a] + 1]
    BY <1>29 DEF RespondFails, Executed
  <2>2. a \in forwarded /\ execs[a] = 0
    BY <2>1 DEF CustodyInv
  <2>3. execs' = [execs EXCEPT ![a] = 1]
    BY <2>1, <2>2
  <2>4. UNCHANGED outcomeBar
    BY <2>1, SameBar
  <2>5. Abs!Run(a)
    BY <2>1, <2>2, <2>3, <2>4 DEF Abs!Run
  <2> QED
    BY <2>5 DEF AbsStep, Abs!Next
<1>30. ASSUME NEW c \in Conns, NEW a \in Attempts, UnknownReply(c, a) PROVE AbsStep
  <2>1. UNCHANGED <<forwarded, execs, status, pc>>
    BY <1>30 DEF UnknownReply, TakeReply
  <2> QED
    BY <2>1, SameOutcome
<1>31. ASSUME NEW c \in Conns, NEW a \in Attempts, Deliver(c, a) PROVE AbsStep
  <2>1. UNCHANGED <<forwarded, execs, status, pc>>
    BY <1>31 DEF Deliver, TakeReply
  <2> QED
    BY <2>1, SameOutcome
<1>32. CASE Collect
  <2>1. UNCHANGED <<forwarded, execs, status, pc>>
    BY <1>32 DEF Collect
  <2> QED
    BY <2>1, SameOutcome
<1>33. ASSUME NEW r \in ReqIds, SweepOne(r) PROVE AbsStep
  <2>1. UNCHANGED <<forwarded, execs, status, pc>>
    BY <1>33 DEF SweepOne, RemoveEntry
  <2> QED
    BY <2>1, SameOutcome
<1>34. CASE UNCHANGED vars
  <2>1. UNCHANGED <<forwarded, execs, status, pc>>
    BY <1>34 DEF vars
  <2> QED
    BY <2>1, SameOutcome
<1> HIDE DEF TypeOK
<1> QED
  BY <1>1, <1>2, <1>3, <1>4, <1>5, <1>6, <1>7, <1>8, <1>9, <1>10, <1>11,
     <1>12, <1>13, <1>14, <1>15, <1>16, <1>17, <1>18, <1>19, <1>20, <1>21,
     <1>22, <1>23, <1>24, <1>25, <1>26, <1>27, <1>28, <1>29, <1>30, <1>31,
     <1>32, <1>33, <1>34 DEF Next, Handler, Stream

\* flux's dispatch lane keeps its promise to the caller: every attempt is
\* refused and never run, or handed over once, run at most once and answered
\* with a run of its request id, or left unknown.
THEOREM ImplementsAbstractDispatch == Spec => ImplementsAtMostOnce
<1>1. Init => Abs!Init
  BY DEF Init, Abs!Init, outcomeBar, Outcome, Codes
<1>2. DispatchInv /\ [Next]_vars => [Abs!Next]_(Abs!absVars)
  BY StepSimulation DEF AbsStep
<1> QED
  BY <1>1, <1>2, DispatchInvariant, PTL DEF Spec, Abs!Spec, ImplementsAtMostOnce
=============================================================================
