---------------------------- MODULE FluxDispatch ----------------------------
(***************************************************************************)
(* The dispatch lane of flux: the UDS handler `coold_dispatch`, the shared *)
(* maps `Streams` and `Pending`, the gRPC stream tasks that hand responses *)
(* back, the pending sweeper, and coold at the other end of a stream.      *)
(*                                                                         *)
(* An attempt is one POST /v1/coold/dispatch: its request id, its target   *)
(* host and the capability its command needs are constants, so a model can *)
(* give two attempts the same request id (a retry).  A conn is one gRPC    *)
(* stream of a host; a host reconnects by opening another conn.            *)
(*                                                                         *)
(* Every await point, and every place where a lock of a DashMap shard is   *)
(* released and taken again, separates two actions.  Time is abstract:     *)
(* `late` holds the attempts whose dispatch timeout has passed since their *)
(* entry was inserted, and a Landed entry may outlive its TTL at any time. *)
(***************************************************************************)
EXTENDS Naturals, Sequences, FiniteSets

CONSTANTS
  Attempts, Conns, Hosts, ReqIds, Caps,
  Rid,         \* request id of an attempt
  Target,      \* host_id of an attempt
  Need,        \* required_capability of an attempt's command
  HostOf,      \* host_id a conn authenticates as
  Advertised,  \* capabilities in the Hello of a conn
  JwtCaps,     \* caps claim of the token a conn presents
  AllowWildcard, \* COOLIFY_FLUX_ALLOW_WILDCARD_CAPABILITIES
  PendingMax,  \* COOLIFY_FLUX_PENDING_MAX
  QueueCap,    \* capacity of the per-host command channel (64 in the code)
  Workers,     \* runtime worker threads: handlers that run at the same time
  NoConn, NoEntry, NoBody, NoReq

ASSUME ConstTypes ==
  /\ Rid \in [Attempts -> ReqIds]
  /\ Target \in [Attempts -> Hosts]
  /\ Need \in [Attempts -> Caps]
  /\ HostOf \in [Conns -> Hosts]
  /\ Advertised \in [Conns -> SUBSET Caps]
  /\ AllowWildcard \in BOOLEAN
  /\ PendingMax \in Nat \ {0}
  /\ QueueCap \in Nat \ {0}
  /\ Workers \in Nat \ {0}
ASSUME NullsAreNotValues ==
  /\ NoConn \notin Conns
  /\ NoBody \notin Attempts
  /\ NoReq \notin ReqIds
ASSUME FiniteAttempts == IsFiniteSet(Attempts) /\ IsFiniteSet(ReqIds)

Entry == [by : Attempts, landed : BOOLEAN, sinks : SUBSET Attempts]
ASSUME NoEntryIsNotAnEntry == NoEntry \notin Entry

VARIABLES
  streams,    \* Streams: host -> conn whose tx is registered
  task,       \* flux's stream task of a conn: "new", "serving" or "ended"
  peer,       \* coold's end of a conn: "off", "up" or "gone"
  queue,      \* the mpsc channel of a conn
  rxOpen,     \* its receiver (the outbound half of the stream) still exists
  running,    \* commands coold is handling, per conn
  replies,    \* responses on the wire to flux, per conn
  execs,      \* how often an attempt's command was executed
  dropping,   \* id a stream task still has to remove after its fan-out
  pending,    \* Pending: request id -> entry
  pc,         \* where the handler of an attempt stands
  status,     \* the HTTP status it returned, 0 before that
  tx,         \* the sender the handler looked up
  body,       \* response put into its oneshot
  closed,     \* attempts whose oneshot sender was dropped
  late,       \* attempts whose dispatch timeout has passed
  sweep,      \* ids the sweeper has collected and not removed yet
  forwarded   \* history: attempts put into some conn's channel

streamVars == <<streams, task, peer, rxOpen>>
cooldVars == <<running, replies, execs>>
handlerVars == <<pc, status, tx>>
\* What a step of a handler, of a stream and of the sweeper leaves alone.
outsideHandler == <<streamVars, cooldVars, dropping, body, late, sweep>>
handedOver == <<queue, pending, closed, forwarded>>
outsideStream == <<handlerVars, late, sweep, forwarded>>
dispatchTable == <<dropping, pending, body, closed>>
vars == <<streamVars, queue, cooldVars, dropping, pending, handlerVars,
          body, closed, late, sweep, forwarded>>

Codes == {200, 403, 404, 409, 500, 501, 503, 504}
\* The handler runs on a worker thread from its first step to its only await.
OnWorker == {"routed", "sampled", "inserted", "evicting", "parked",
             "sending", "cleanup"}
Steps == OnWorker \cup {"start", "waiting", "done", "dropped"}

\* Type invariant: a handler that sends holds the sender of a stream.
TypeOK ==
  /\ streams \in [Hosts -> Conns \cup {NoConn}]
  /\ task \in [Conns -> {"new", "serving", "ended"}]
  /\ peer \in [Conns -> {"off", "up", "gone"}]
  /\ rxOpen \in [Conns -> BOOLEAN]
  /\ queue \in [Conns -> Seq(Attempts)]
  /\ running \in [Conns -> SUBSET Attempts]
  /\ replies \in [Conns -> SUBSET Attempts]
  /\ execs \in [Attempts -> Nat]
  /\ dropping \in [Conns -> ReqIds \cup {NoReq}]
  /\ pending \in [ReqIds -> Entry \cup {NoEntry}]
  /\ pc \in [Attempts -> Steps]
  /\ status \in [Attempts -> Codes \cup {0}]
  /\ tx \in [Attempts -> Conns \cup {NoConn}]
  /\ \A a \in Attempts : pc[a] = "sending" => tx[a] \in Conns
  /\ body \in [Attempts -> Attempts \cup {NoBody}]
  /\ closed \in SUBSET Attempts
  /\ late \in SUBSET Attempts
  /\ sweep \in SUBSET ReqIds
  /\ forwarded \in SUBSET Attempts

Init ==
  /\ streams = [h \in Hosts |-> NoConn]
  /\ task = [c \in Conns |-> "new"]
  /\ peer = [c \in Conns |-> "off"]
  /\ rxOpen = [c \in Conns |-> FALSE]
  /\ queue = [c \in Conns |-> <<>>]
  /\ running = [c \in Conns |-> {}]
  /\ replies = [c \in Conns |-> {}]
  /\ execs = [a \in Attempts |-> 0]
  /\ dropping = [c \in Conns |-> NoReq]
  /\ pending = [r \in ReqIds |-> NoEntry]
  /\ pc = [a \in Attempts |-> "start"]
  /\ status = [a \in Attempts |-> 0]
  /\ tx = [a \in Attempts |-> NoConn]
  /\ body = [a \in Attempts |-> NoBody]
  /\ closed = {}
  /\ late = {}
  /\ sweep = {}
  /\ forwarded = {}

-----------------------------------------------------------------------------
(* Pending                                                                 *)

Live == {r \in ReqIds : pending[r] # NoEntry}
Sinks(r) == IF pending[r] = NoEntry THEN {} ELSE pending[r].sinks

\* Pending::remove: the entry goes, and with it the senders parked in it, so
\* each of their receivers sees a closed channel.
RemoveEntry(r) ==
  /\ pending' = [pending EXCEPT ![r] = NoEntry]
  /\ closed' = closed \cup Sinks(r)

Goto(a, step) ==
  /\ pc' = [pc EXCEPT ![a] = step]
  /\ UNCHANGED <<status, tx>>
\* Returning drops the handler's clone of the sender.
Return(a, code) ==
  /\ pc' = [pc EXCEPT ![a] = "done"]
  /\ status' = [status EXCEPT ![a] = code]
  /\ tx' = [tx EXCEPT ![a] = NoConn]

-----------------------------------------------------------------------------
(* coold_dispatch                                                          *)

Wildcards == {"*", "host-agent:dev", "host-agent:default"}

\* effective_capabilities: computed once, when the stream is accepted.
EffectiveCaps(c) ==
  IF AllowWildcard /\ JwtCaps[c] \cap Wildcards # {}
  THEN Advertised[c]
  ELSE Advertised[c] \cap JwtCaps[c]

\* route_coold: the host's registered stream and its capabilities.  A handler
\* starts when a worker thread is free.
Enter(a) ==
  /\ pc[a] = "start"
  /\ Cardinality({b \in Attempts : pc[b] \in OnWorker}) < Workers
  /\ UNCHANGED <<outsideHandler, handedOver>>

NotConnected(a) ==
  /\ Enter(a)
  /\ streams[Target[a]] = NoConn
  /\ Return(a, 404)

NotAuthorized(a) ==
  /\ Enter(a)
  /\ streams[Target[a]] # NoConn
  /\ Need[a] \notin EffectiveCaps(streams[Target[a]])
  /\ Return(a, IF Need[a] \in Advertised[streams[Target[a]]] THEN 403 ELSE 501)

SendCoold(a) ==
  /\ Enter(a)
  /\ streams[Target[a]] # NoConn
  /\ Need[a] \in EffectiveCaps(streams[Target[a]])
  /\ Goto(a, "routed")

\* insert_waiting, first half: the length is sampled before the entry lock.
AtCapacity(a) ==
  /\ pc[a] = "routed"
  /\ Cardinality(Live) >= PendingMax
  /\ Return(a, 503)
  /\ UNCHANGED <<outsideHandler, handedOver>>

\* Mutant: the length is compared with > instead of >=.
BelowCapacityOffByOne(a) ==
  /\ pc[a] = "routed"
  /\ Cardinality(Live) <= PendingMax
  /\ Goto(a, "sampled")
  /\ UNCHANGED <<outsideHandler, handedOver>>

BelowCapacity(a) ==
  /\ pc[a] = "routed"
  /\ Cardinality(Live) < PendingMax
  /\ Goto(a, "sampled")
  /\ UNCHANGED <<outsideHandler, handedOver>>

\* insert_waiting, second half: under the lock of the id's shard.
Duplicate(a) ==
  /\ pc[a] = "sampled"
  /\ pending[Rid[a]] # NoEntry
  /\ Return(a, 409)
  /\ UNCHANGED <<outsideHandler, handedOver>>

Inserted(a) ==
  /\ pc[a] = "sampled"
  /\ pending[Rid[a]] = NoEntry
  /\ pending' = [pending EXCEPT
                   ![Rid[a]] = [by |-> a, landed |-> FALSE, sinks |-> {}]]
  /\ Goto(a, "inserted")
  /\ UNCHANGED <<outsideHandler, queue, closed, forwarded>>

\* Pending::park.  A Landed body is cloned under the lock and the entry is
\* removed in a second step; a missing entry is answered at once.
NotFound(a) ==
  /\ pc[a] = "inserted"
  /\ pending[Rid[a]] = NoEntry
  /\ Return(a, 500)
  /\ UNCHANGED <<outsideHandler, handedOver>>

AlreadyLanded(a) ==
  /\ pc[a] = "inserted"
  /\ pending[Rid[a]] # NoEntry
  /\ pending[Rid[a]].landed
  /\ Goto(a, "evicting")
  /\ UNCHANGED <<outsideHandler, handedOver>>

EvictLanded(a) ==
  /\ pc[a] = "evicting"
  /\ RemoveEntry(Rid[a])
  /\ Return(a, 500)
  /\ UNCHANGED <<outsideHandler, queue, forwarded>>

Parked(a) ==
  /\ pc[a] = "inserted"
  /\ pending[Rid[a]] # NoEntry
  /\ ~pending[Rid[a]].landed
  /\ pending' = [pending EXCEPT
                   ![Rid[a]] = [by |-> @.by, landed |-> FALSE, sinks |-> @.sinks \cup {a}]]
  /\ Goto(a, "parked")
  /\ UNCHANGED <<outsideHandler, queue, closed, forwarded>>

\* Mutant: the second lookup is taken to succeed because the first one did.
GetTxUnchecked(a) ==
  /\ pc[a] = "parked"
  /\ tx' = [tx EXCEPT ![a] = streams[Target[a]]]
  /\ pc' = [pc EXCEPT ![a] = "sending"]
  /\ UNCHANGED <<outsideHandler, handedOver, status>>

\* The second lookup of the host: it may find another conn than route_coold
\* did, or none.
GetTx(a) ==
  /\ pc[a] = "parked"
  /\ tx' = [tx EXCEPT ![a] = streams[Target[a]]]
  /\ pc' = [pc EXCEPT ![a] = IF streams[Target[a]] = NoConn THEN "cleanup" ELSE "sending"]
  /\ UNCHANGED <<outsideHandler, handedOver, status>>

\* try_send: Full and Closed go to the same removal and 503.
ChannelTakes(c) == rxOpen[c] /\ Len(queue[c]) < QueueCap

SendFailed(a) ==
  /\ pc[a] = "sending"
  /\ ~ChannelTakes(tx[a])
  /\ Goto(a, "cleanup")
  /\ UNCHANGED <<outsideHandler, handedOver>>

Sent(a) ==
  /\ pc[a] = "sending"
  /\ ChannelTakes(tx[a])
  /\ queue' = [queue EXCEPT ![tx[a]] = Append(@, a)]
  /\ forwarded' = forwarded \cup {a}
  /\ Goto(a, "waiting")
  /\ UNCHANGED <<outsideHandler, pending, closed>>

Cleanup(a) ==
  /\ pc[a] = "cleanup"
  /\ RemoveEntry(Rid[a])
  /\ Return(a, 503)
  /\ UNCHANGED <<outsideHandler, queue, forwarded>>

\* Mutants: an answer that comes after the deadline is ignored; a timeout is
\* reported like a refusal.
AnsweredInTime(a) ==
  /\ pc[a] = "waiting"
  /\ body[a] # NoBody
  /\ a \notin late
  /\ Return(a, 200)
  /\ UNCHANGED <<outsideHandler, handedOver>>

TimedOutAs503(a) ==
  /\ pc[a] = "waiting"
  /\ body[a] = NoBody
  /\ a \in closed \cup late
  /\ Return(a, 503)
  /\ UNCHANGED <<outsideHandler, handedOver>>

\* await_coold: a body, a dropped sink or the handler's own timeout.  The
\* timer starts after the entry's, so it fires only once the entry is late.
Answered(a) ==
  /\ pc[a] = "waiting"
  /\ body[a] # NoBody
  /\ Return(a, 200)
  /\ UNCHANGED <<outsideHandler, handedOver>>

TimedOut(a) ==
  /\ pc[a] = "waiting"
  /\ body[a] = NoBody
  /\ a \in closed \cup late
  /\ Return(a, 504)
  /\ UNCHANGED <<outsideHandler, handedOver>>

\* The caller hangs up: hyper drops the handler at its await point.
HangUp(a) ==
  /\ pc[a] = "waiting"
  /\ pc' = [pc EXCEPT ![a] = "dropped"]
  /\ tx' = [tx EXCEPT ![a] = NoConn]
  /\ UNCHANGED <<outsideHandler, handedOver, status>>

-----------------------------------------------------------------------------
(* Streams and coold                                                       *)

\* `stream`, accepted: the conn replaces whatever entry the host had.  coold
\* keeps one stream at a time.
Connect(c) ==
  /\ task[c] = "new"
  /\ \A d \in Conns : HostOf[d] = HostOf[c] => peer[d] # "up"
  /\ streams' = [streams EXCEPT ![HostOf[c]] = c]
  /\ task' = [task EXCEPT ![c] = "serving"]
  /\ peer' = [peer EXCEPT ![c] = "up"]
  /\ rxOpen' = [rxOpen EXCEPT ![c] = TRUE]
  /\ UNCHANGED <<outsideStream, queue, cooldVars, dispatchTable>>

\* The stream task leaves its loop (end of stream, receive error or token
\* expiry) and removes the entry of its host, whichever conn it belongs to.
Teardown(c) ==
  /\ task[c] = "serving"
  /\ dropping[c] = NoReq
  /\ streams' = [streams EXCEPT ![HostOf[c]] = NoConn]
  /\ task' = [task EXCEPT ![c] = "ended"]
  /\ UNCHANGED <<outsideStream, peer, rxOpen, queue, cooldVars, dispatchTable>>

\* Senders of a conn's channel: the Streams entry and the handlers that
\* hold a clone, which live until the handler returns.
HasSender(c) ==
  \/ streams[HostOf[c]] = c
  \/ \E a \in Attempts : tx[a] = c

\* The outbound half ends: coold is gone, or every sender is and the channel
\* is drained, which coold sees as a clean close.
CloseOutbound(c) ==
  /\ rxOpen[c]
  /\ peer[c] = "gone" \/ (~HasSender(c) /\ queue[c] = <<>>)
  /\ rxOpen' = [rxOpen EXCEPT ![c] = FALSE]
  /\ queue' = [queue EXCEPT ![c] = <<>>]
  /\ peer' = [peer EXCEPT ![c] = "gone"]
  /\ UNCHANGED <<outsideStream, streams, task, cooldVars, dispatchTable>>

\* coold exits, or the network under the stream fails.
PeerGone(c) ==
  /\ peer[c] = "up"
  /\ peer' = [peer EXCEPT ![c] = "gone"]
  /\ UNCHANGED <<outsideStream, streams, task, rxOpen, queue, cooldVars,
                 dispatchTable>>

\* Mutant: the command is handled but stays in the channel.
ReceivePeek(c) ==
  /\ peer[c] = "up"
  /\ queue[c] # <<>>
  /\ running' = [running EXCEPT ![c] = @ \cup {Head(queue[c])}]
  /\ UNCHANGED <<outsideStream, streamVars, queue, replies, execs, dispatchTable>>

\* coold's inbound loop takes a command and spawns its handler.
Receive(c) ==
  /\ peer[c] = "up"
  /\ queue[c] # <<>>
  /\ running' = [running EXCEPT ![c] = @ \cup {Head(queue[c])}]
  /\ queue' = [queue EXCEPT ![c] = Tail(@)]
  /\ UNCHANGED <<outsideStream, streamVars, replies, execs, dispatchTable>>

\* The handler finishes and sends its one response on the stream the command
\* came from; with coold's end of it gone the send may fail (only logged).
Executed(c, a) ==
  /\ a \in running[c]
  /\ running' = [running EXCEPT ![c] = @ \ {a}]
  /\ execs' = [execs EXCEPT ![a] = @ + 1]
  /\ UNCHANGED <<outsideStream, streamVars, queue, dispatchTable>>

Respond(c, a) ==
  /\ Executed(c, a)
  /\ replies' = [replies EXCEPT ![c] = @ \cup {a}]

RespondFails(c, a) ==
  /\ Executed(c, a)
  /\ peer[c] = "gone"
  /\ UNCHANGED replies

\* With coold gone the commands it had not finished and the responses on the
\* wire are lost; with only flux's task ended, the responses are.
LoseAll(c) ==
  /\ peer[c] = "gone"
  /\ running[c] \cup replies[c] # {}
  /\ running' = [running EXCEPT ![c] = {}]
  /\ replies' = [replies EXCEPT ![c] = {}]
  /\ UNCHANGED <<outsideStream, streamVars, queue, execs, dispatchTable>>

LoseReplies(c) ==
  /\ task[c] = "ended"
  /\ replies[c] # {}
  /\ replies' = [replies EXCEPT ![c] = {}]
  /\ UNCHANGED <<outsideStream, streamVars, queue, running, execs, dispatchTable>>

\* deliver_response: the task of the stream takes a response.  The entry is
\* found by request id alone; an unknown id is dropped.
TakeReply(c, a) ==
  /\ task[c] = "serving"
  /\ dropping[c] = NoReq
  /\ a \in replies[c]
  /\ replies' = [replies EXCEPT ![c] = @ \ {a}]
  /\ UNCHANGED <<outsideStream, streamVars, queue, running, execs, closed>>

UnknownReply(c, a) ==
  /\ TakeReply(c, a)
  /\ pending[Rid[a]] = NoEntry
  /\ UNCHANGED <<pending, body, dropping>>

\* Mutants: a response goes to every waiting handler; the sinks it was sent to
\* stay in the entry.
DeliverToAll(c, a) ==
  /\ TakeReply(c, a)
  /\ pending[Rid[a]] # NoEntry
  /\ pending' = [pending EXCEPT
                   ![Rid[a]] = [by |-> @.by, landed |-> TRUE, sinks |-> {}]]
  /\ body' = [b \in Attempts |-> IF \E r \in ReqIds : b \in Sinks(r) THEN a ELSE body[b]]
  /\ dropping' = [dropping EXCEPT
                    ![c] = IF Sinks(Rid[a]) = {} THEN NoReq ELSE Rid[a]]

DeliverKeepsSinks(c, a) ==
  /\ TakeReply(c, a)
  /\ pending[Rid[a]] # NoEntry
  /\ pending' = [pending EXCEPT
                   ![Rid[a]] = [by |-> @.by, landed |-> TRUE, sinks |-> @.sinks]]
  /\ body' = [b \in Attempts |-> IF b \in Sinks(Rid[a]) THEN a ELSE body[b]]
  /\ dropping' = [dropping EXCEPT
                    ![c] = IF Sinks(Rid[a]) = {} THEN NoReq ELSE Rid[a]]

\* Pending::deliver up to the release of the lock.
Deliver(c, a) ==
  /\ TakeReply(c, a)
  /\ pending[Rid[a]] # NoEntry
  /\ pending' = [pending EXCEPT
                   ![Rid[a]] = [by |-> @.by, landed |-> TRUE, sinks |-> {}]]
  /\ body' = [b \in Attempts |-> IF b \in Sinks(Rid[a]) THEN a ELSE body[b]]
  /\ dropping' = [dropping EXCEPT
                    ![c] = IF Sinks(Rid[a]) = {} THEN NoReq ELSE Rid[a]]

\* Pending::deliver after the lock: with sinks served the id is removed.
DropDelivered(c) ==
  /\ dropping[c] # NoReq
  /\ RemoveEntry(dropping[c])
  /\ dropping' = [dropping EXCEPT ![c] = NoReq]
  /\ UNCHANGED <<outsideStream, streamVars, queue, cooldVars, body>>

-----------------------------------------------------------------------------
(* Time and the sweeper                                                    *)

\* dispatch_timeout passes since the entry of an attempt was inserted.
TimePasses(a) ==
  /\ pc[a] \in {"inserted", "parked", "sending", "cleanup", "waiting", "dropped"}
  /\ a \notin late
  /\ late' = late \cup {a}
  /\ UNCHANGED <<streamVars, queue, cooldVars, dispatchTable, handlerVars, sweep,
                 forwarded>>

\* Mutants: the sweeper takes waiting entries whatever their age; it takes
\* Landed entries only.
ExpiredAnyAge(r) == pending[r] # NoEntry
ExpiredLandedOnly(r) == pending[r] # NoEntry /\ pending[r].landed

Expired(r) ==
  /\ pending[r] # NoEntry
  /\ pending[r].landed \/ pending[r].by \in late

\* drain_expired, first pass: collect the ids.
Collect ==
  /\ sweep = {}
  /\ \E r \in ReqIds : Expired(r)
  /\ sweep' = {r \in ReqIds : Expired(r)}
  /\ UNCHANGED <<streamVars, queue, cooldVars, dispatchTable, handlerVars, late,
                 forwarded>>

\* drain_expired, second pass: remove each collected id, whatever it holds.
SweepOne(r) ==
  /\ r \in sweep
  /\ sweep' = sweep \ {r}
  /\ RemoveEntry(r)
  /\ UNCHANGED <<streamVars, queue, cooldVars, dropping, handlerVars, body,
                 late, forwarded>>

-----------------------------------------------------------------------------
Handler(a) ==
  \/ NotConnected(a) \/ NotAuthorized(a) \/ SendCoold(a)
  \/ AtCapacity(a) \/ BelowCapacity(a) \/ Duplicate(a) \/ Inserted(a)
  \/ NotFound(a) \/ AlreadyLanded(a) \/ EvictLanded(a) \/ Parked(a)
  \/ GetTx(a) \/ SendFailed(a) \/ Sent(a) \/ Cleanup(a)
  \/ Answered(a) \/ TimedOut(a) \/ HangUp(a) \/ TimePasses(a)

Stream(c) ==
  \/ Connect(c) \/ Teardown(c) \/ CloseOutbound(c) \/ PeerGone(c)
  \/ Receive(c) \/ LoseAll(c) \/ LoseReplies(c) \/ DropDelivered(c)
  \/ \E a \in Attempts :
       Respond(c, a) \/ RespondFails(c, a) \/ UnknownReply(c, a) \/ Deliver(c, a)

Next ==
  \/ \E a \in Attempts : Handler(a)
  \/ \E c \in Conns : Stream(c)
  \/ Collect
  \/ \E r \in ReqIds : SweepOne(r)

Spec == Init /\ [][Next]_vars

-----------------------------------------------------------------------------
(* Properties                                                              *)

\* A dispatch that flux refuses (404, 403, 501, 409, 503, and the 500 for a
\* lost entry) was never put into a stream's channel and was not executed, so
\* the caller may send it again.  coold_dispatch forwards only as its last
\* step before it waits.
SafeToRetry ==
  \A a \in Attempts :
    status[a] \in Codes \ {200, 504} => a \notin forwarded /\ execs[a] = 0

\* insert_waiting samples the length before it takes the entry's lock.  The
\* map outgrows its cap by less than the number of worker threads, since a
\* handler does not await between the sample and the insert.
OvershootBounded == Cardinality(Live) <= PendingMax + Workers - 1

\* No request id is used twice.
UniqueIds == \A a, b \in Attempts : Rid[a] = Rid[b] => a = b

\* With request ids that are not used twice, a 200 carries the result of the
\* very attempt that is answered, and that attempt was executed.
OwnAnswer ==
  UniqueIds =>
    \A a \in Attempts : status[a] = 200 => body[a] = a /\ execs[a] = 1

\* With request ids that are not used twice, a 504 is returned only after the
\* dispatch timeout: neither the sweeper nor the removal after a fan-out ever
\* drops the sink of a handler that still has time.
NoEarlyTimeout ==
  UniqueIds => \A a \in Attempts : status[a] = 504 => a \in late

\* The dispatch lane implements its abstract promise: refused and never run,
\* or handed over once, run at most once and answered with a run of the same
\* request id, or unknown.
Outcome(a) ==
  CASE status[a] = 200 -> "answered"
    [] status[a] = 504 \/ pc[a] = "dropped" -> "unknown"
    [] status[a] \in Codes \ {200, 504} -> "refused"
    [] OTHER -> "none"
outcomeBar == [a \in Attempts |-> Outcome(a)]

Abs == INSTANCE AtMostOnceDispatch
         WITH sent <- forwarded, ran <- execs, outcome <- outcomeBar

\* The dispatch lane implements the abstract specification: a command runs at most
\* once, and the outcome the caller sees is one the abstract one allows.
ImplementsAtMostOnce == Abs!Spec

\* flux/src/state.rs: "One entry per open gRPC stream".  A stream that coold
\* holds open and that flux's task serves is the one registered for its host.
EntryPerOpenStream ==
  \A c \in Conns :
    peer[c] = "up" /\ task[c] = "serving" => streams[HostOf[c]] = c

-----------------------------------------------------------------------------
(* The inductive invariant behind the properties above                     *)

\* A handler has forwarded its command exactly when it waits, was dropped
\* while it waited, or returned one of the two codes of await_coold.
HandlerInv ==
  \A a \in Attempts :
    /\ pc[a] \in OnWorker \cup {"start"} => a \notin forwarded /\ status[a] = 0
    /\ pc[a] \in {"waiting", "dropped"} => a \in forwarded /\ status[a] = 0
    /\ pc[a] = "done" => /\ status[a] \in Codes
                         /\ a \in forwarded <=> status[a] \in {200, 504}

\* A forwarded command is in one channel position, or with one handler of
\* coold, or executed once, or lost.
CustodyInv ==
  /\ \A a \in Attempts : execs[a] <= 1 /\ (a \notin forwarded => execs[a] = 0)
  /\ \A c \in Conns : \A i \in 1..Len(queue[c]) :
       /\ queue[c][i] \in forwarded
       /\ execs[queue[c][i]] = 0
       /\ \A d \in Conns : queue[c][i] \notin running[d]
       /\ \A d \in Conns : \A j \in 1..Len(queue[d]) :
            queue[c][i] = queue[d][j] => c = d /\ i = j
  /\ \A c \in Conns : \A a \in running[c] :
       /\ a \in forwarded
       /\ execs[a] = 0
       /\ \A d \in Conns : a \in running[d] => c = d
  /\ \A c \in Conns : \A a \in replies[c] : execs[a] = 1

\* A response is only ever handed to handlers parked under its request id.
AnswerInv ==
  /\ \A r \in ReqIds : \A b \in Sinks(r) : Rid[b] = r
  /\ \A b \in Attempts :
       /\ body[b] # NoBody => Rid[body[b]] = Rid[b] /\ execs[body[b]] = 1
       /\ status[b] = 200 => body[b] # NoBody

\* With unique ids an entry is removed only by its own handler, after its
\* timeout, or once its sinks have been served.
Early == {"start", "routed", "sampled"}
Timely ==
  /\ \A r \in ReqIds : pending[r] # NoEntry =>
       /\ Rid[pending[r].by] = r
       /\ pending[r].sinks \subseteq {pending[r].by}
       /\ pending[r].landed => pending[r].sinks = {}
       /\ pc[pending[r].by] \notin Early
       /\ pc[pending[r].by] = "inserted" => pending[r].sinks = {}
  /\ \A a \in Attempts : pc[a] \in Early =>
       /\ Rid[a] \notin sweep
       /\ \A c \in Conns : dropping[c] # Rid[a]
  /\ \A r \in sweep : pending[r] # NoEntry => Expired(r)
  /\ \A c \in Conns : dropping[c] # NoReq /\ pending[dropping[c]] # NoEntry
       => pending[dropping[c]].landed
  /\ \A a \in Attempts : pc[a] = "evicting" /\ pending[Rid[a]] # NoEntry
       => pending[Rid[a]].landed
  /\ \A a \in closed :
       /\ pc[a] \notin Early \cup {"inserted"}
       /\ pc[a] \in {"parked", "sending", "waiting"} => a \in late
  /\ \A a \in Attempts : status[a] = 504 => a \in late

\* Entries and handlers about to insert one, together.
CapacityInv ==
  /\ Cardinality({a \in Attempts : pc[a] \in OnWorker}) <= Workers
  /\ Cardinality(Live) + Cardinality({a \in Attempts : pc[a] = "sampled"})
       <= PendingMax + Workers - 1

\* Inductive: DispatchInvariant in FluxDispatchProofs.
DispatchInv ==
  /\ TypeOK /\ HandlerInv /\ CustodyInv /\ AnswerInv
  /\ CapacityInv
  /\ UniqueIds => Timely

-----------------------------------------------------------------------------
(* Fairness and liveness.  Handlers, stream tasks and the sweeper are      *)
(* tasks of a runtime that polls every ready task; the clock advances.     *)
(* Nothing is assumed of coold or of the network.                          *)

Fairness ==
  /\ \A a \in Attempts :
       /\ WF_vars(pc[a] \in OnWorker /\ Handler(a) /\ pc'[a] # pc[a])
       /\ WF_vars(Answered(a) \/ TimedOut(a))
       /\ WF_vars(TimePasses(a))
  /\ \A c \in Conns : WF_vars(DropDelivered(c))
  /\ WF_vars(Collect)
  /\ \A r \in ReqIds : WF_vars(SweepOne(r))

FairSpec == Spec /\ Fairness

\* Every dispatch that flux accepts for routing is answered or abandoned by
\* its caller, whatever coold and the network do.  (An attempt is made once.)
EveryDispatchEnds ==
  []<>(\A a \in Attempts : pc[a] \in {"start", "done", "dropped"})

\* No pending entry stays for ever: callers that hung up, hosts that never
\* answer and responses nobody waits for leave nothing behind.
EntriesDrain ==
  \A r \in ReqIds : []<>(pending[r] = NoEntry)

\* ARCHITECTURE.md: "Host stream dropped mid-dispatch -> 503".  A dispatch
\* whose stream's task ends while it waits, before its timeout, is answered
\* 503, unless the response still gets through or the caller hangs up.
DroppedStreamIs503 ==
  \A a \in Attempts :
    pc[a] = "waiting" /\ a \notin late /\ task[tx[a]] = "ended"
      ~> status[a] \in {200, 503} \/ pc[a] = "dropped"
=============================================================================
