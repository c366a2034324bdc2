-------------------------- MODULE RevocationStore --------------------------
(***************************************************************************)
(* flux's denylist of token ids (flux/src/revocation.rs): a map in memory  *)
(* behind a RwLock, and a JSON file that `persist` replaces by writing a   *)
(* temporary file of a fixed name and renaming it.  The lock covers the    *)
(* change of the map and the snapshot of it, not the file operations, so   *)
(* requests and the sweeper can be in `persist` at the same time.          *)
(*                                                                         *)
(* std::fs::write opens (and truncates) the temporary file, then writes:   *)
(* two system calls on whatever inode the name then has.  A rename moves   *)
(* the inode, with any descriptor another task still has open on it.       *)
(***************************************************************************)
EXTENDS Integers, FiniteSets

CONSTANTS
  Callers,     \* UDS handlers of /v1/tokens/revoke, one request at a time each
  Sweepers,    \* the revocation sweeper: one task, or none in an instance
  Jtis,
  ExpiresAt,   \* the expires_at Laravel gives for a jti, or Never
  Never,
  MaxTime,     \* bound on the clock
  MaxRestarts, \* bound on restarts of flux
  Inodes,      \* enough for every task's descriptor and the two names
  NoInode, NoJti, Garbled

Tasks == Callers \cup Sweepers

ASSUME StoreConstants ==
  /\ Callers \cap Sweepers = {}
  /\ ExpiresAt \in [Jtis -> Nat \cup {Never}]
  /\ Never \notin Nat
  /\ MaxTime \in Nat /\ MaxRestarts \in Nat
  /\ IsFiniteSet(Tasks) /\ IsFiniteSet(Inodes)
  /\ Cardinality(Inodes) >= Cardinality(Tasks) + 2
  /\ NoInode \notin Inodes /\ NoJti \notin Jtis
  /\ \A S \in SUBSET Jtis : S # Garbled

VARIABLES
  now,        \* unix_now
  mem,        \* RevocationStore::inner
  pc,         \* where a task stands in revoke, unrevoke, prune or persist
  jti,        \* the jti of its request
  adding,     \* the request is a revoke
  sole,       \* history: no request for the same jti has overlapped with it
  snap,       \* entries persist has listed
  fd,         \* inode of the temporary file it has open
  tmp, path,  \* inodes behind revocations.json.tmp and revocations.json
  data,       \* content of an inode: a set of jtis, or not parseable
  confirmed,  \* what Laravel was last told of a jti by a 200
  restarts,
  overlapped  \* history: two tasks have been in persist at the same time

fileVars == <<tmp, path, data>>
taskVars == <<pc, jti, adding, sole, snap, fd>>
storeVars == <<now, mem, taskVars, fileVars, confirmed, restarts, overlapped>>

\* Type invariant: a task of persist has a file open exactly while it writes.
StoreTypeOK ==
  /\ now \in 0..MaxTime
  /\ mem \subseteq Jtis
  /\ pc \in [Tasks -> {"idle", "listing", "opening", "writing", "renaming"}]
  /\ jti \in [Tasks -> Jtis \cup {NoJti}]
  /\ adding \in [Tasks -> BOOLEAN]
  /\ sole \in [Tasks -> BOOLEAN]
  /\ snap \in [Tasks -> SUBSET Jtis]
  /\ fd \in [Tasks -> Inodes \cup {NoInode}]
  /\ \A t \in Tasks : pc[t] = "writing" <=> fd[t] # NoInode
  /\ tmp \in Inodes \cup {NoInode}
  /\ path \in Inodes \cup {NoInode}
  /\ data \in [Inodes -> (SUBSET Jtis) \cup {Garbled}]
  /\ confirmed \in [Jtis -> {"nothing", "revoked", "unrevoked"}]
  /\ restarts \in 0..MaxRestarts
  /\ overlapped \in BOOLEAN

StoreInit ==
  /\ now = 0
  /\ mem = {}
  /\ pc = [t \in Tasks |-> "idle"]
  /\ jti = [t \in Tasks |-> NoJti]
  /\ adding = [t \in Tasks |-> FALSE]
  /\ sole = [t \in Tasks |-> FALSE]
  /\ snap = [t \in Tasks |-> {}]
  /\ fd = [t \in Tasks |-> NoInode]
  /\ tmp = NoInode
  /\ path = NoInode
  /\ data = [i \in Inodes |-> Garbled]
  /\ confirmed = [j \in Jtis |-> "nothing"]
  /\ restarts = 0
  /\ overlapped = FALSE

Past(j) == ExpiresAt[j] # Never /\ ExpiresAt[j] <= now

-----------------------------------------------------------------------------
(* revoke, unrevoke and prune: the change of the map, under the write lock *)

\* A task goes on to persist, whether or not another one is still there.
EnterPersist(t) ==
  /\ pc' = [pc EXCEPT ![t] = "listing"]
  /\ overlapped' = (overlapped \/ \E u \in Tasks : pc[u] # "idle")

Request(t, j, add) ==
  /\ t \in Callers
  /\ pc[t] = "idle"
  /\ EnterPersist(t)
  /\ jti' = [jti EXCEPT ![t] = j]
  /\ adding' = [adding EXCEPT ![t] = add]
  /\ sole' = [u \in Tasks |-> IF u = t THEN \A v \in Tasks : jti[v] # j
                                      ELSE sole[u] /\ jti[u] # j]
  /\ confirmed' = [confirmed EXCEPT ![j] = "nothing"]
  /\ UNCHANGED <<now, snap, fd, fileVars, restarts>>

Revoke(t, j) ==
  /\ Request(t, j, TRUE)
  /\ mem' = mem \cup {j}

Unrevoke(t, j) ==
  /\ Request(t, j, FALSE)
  /\ mem' = mem \ {j}

\* Mutant: prune drops the entries that have not expired.
PruneLive(t) ==
  /\ t \in Sweepers
  /\ pc[t] = "idle"
  /\ \E j \in mem : ~Past(j)
  /\ mem' = {j \in mem : Past(j)}
  /\ EnterPersist(t)
  /\ UNCHANGED <<now, jti, adding, sole, snap, fd, fileVars, confirmed, restarts>>

\* prune persists only if it dropped something.
Prune(t) ==
  /\ t \in Sweepers
  /\ pc[t] = "idle"
  /\ \E j \in mem : Past(j)
  /\ mem' = {j \in mem : ~Past(j)}
  /\ EnterPersist(t)
  /\ UNCHANGED <<now, jti, adding, sole, snap, fd, fileVars, confirmed, restarts>>

-----------------------------------------------------------------------------
(* persist                                                                 *)

\* Mutant: the snapshot is taken before the change of the map was made.
ListStale(t) ==
  /\ pc[t] = "listing"
  /\ snap' = [snap EXCEPT ![t] = IF adding[t] THEN mem \ {jti[t]} ELSE mem]
  /\ pc' = [pc EXCEPT ![t] = "opening"]
  /\ UNCHANGED <<now, mem, jti, adding, sole, fd, fileVars, confirmed, restarts, overlapped>>

\* self.list(), under the read lock.
List(t) ==
  /\ pc[t] = "listing"
  /\ snap' = [snap EXCEPT ![t] = mem]
  /\ pc' = [pc EXCEPT ![t] = "opening"]
  /\ UNCHANGED <<now, mem, jti, adding, sole, fd, fileVars, confirmed, restarts, overlapped>>

InUse == {tmp, path} \cup {fd[t] : t \in Tasks}

\* fs::write, open: create the temporary file, or truncate the one there.
Open(t) ==
  /\ pc[t] = "opening"
  /\ \E i \in Inodes :
       /\ IF tmp = NoInode THEN i = CHOOSE k \in Inodes : k \notin InUse ELSE i = tmp
       /\ tmp' = i
       /\ fd' = [fd EXCEPT ![t] = i]
       /\ data' = [data EXCEPT ![i] = Garbled]
  /\ pc' = [pc EXCEPT ![t] = "writing"]
  /\ UNCHANGED <<now, mem, jti, adding, sole, snap, path, confirmed, restarts, overlapped>>

\* Writing at the start of a file that another task has written meanwhile:
\* the longer content of the other leaves its tail.
Overwrite(old, new) ==
  IF old # Garbled /\ Cardinality(old) > Cardinality(new) THEN Garbled ELSE new

\* fs::write, write and close.
WriteTmp(t) ==
  /\ pc[t] = "writing"
  /\ data' = [data EXCEPT ![fd[t]] = Overwrite(@, snap[t])]
  /\ fd' = [fd EXCEPT ![t] = NoInode]
  /\ pc' = [pc EXCEPT ![t] = "renaming"]
  /\ UNCHANGED <<now, mem, jti, adding, sole, snap, tmp, path, confirmed, restarts, overlapped>>

\* Mutant: the descriptor stays open on an error path.
FinishLeaksFd(t, ok) ==
  /\ pc' = [pc EXCEPT ![t] = "idle"]
  /\ jti' = [jti EXCEPT ![t] = NoJti]
  /\ adding' = [adding EXCEPT ![t] = FALSE]
  /\ sole' = [sole EXCEPT ![t] = FALSE]
  /\ snap' = [snap EXCEPT ![t] = {}]
  /\ UNCHANGED <<fd, confirmed>>

\* The request ends: what Laravel may conclude for its jti, unless another
\* request for the same jti has overlapped with it.
Finish(t, ok) ==
  /\ pc' = [pc EXCEPT ![t] = "idle"]
  /\ jti' = [jti EXCEPT ![t] = NoJti]
  /\ adding' = [adding EXCEPT ![t] = FALSE]
  /\ sole' = [sole EXCEPT ![t] = FALSE]
  /\ snap' = [snap EXCEPT ![t] = {}]
  /\ fd' = [fd EXCEPT ![t] = NoInode]
  /\ confirmed' =
       IF ok /\ sole[t]
       THEN [confirmed EXCEPT ![jti[t]] = IF adding[t] THEN "revoked" ELSE "unrevoked"]
       ELSE confirmed

\* fs::rename succeeds: 200.  The file it replaces goes with its last user.
Rename(t) ==
  /\ pc[t] = "renaming"
  /\ tmp # NoInode
  /\ path' = tmp
  /\ tmp' = NoInode
  /\ data' = [i \in Inodes |-> IF i = path /\ \A u \in Tasks : fd[u] # i
                               THEN Garbled ELSE data[i]]
  /\ Finish(t, TRUE)
  /\ UNCHANGED <<now, mem, restarts, overlapped>>

\* A file operation fails, or the temporary file is gone because another task
\* has renamed it: 500, with the change of the map in place.  A failed write
\* may have written a part.
PersistFails(t) ==
  /\ pc[t] \in {"opening", "writing", "renaming"}
  /\ data' \in {data} \cup {[data EXCEPT ![i] = Garbled] : i \in {fd[t]} \ {NoInode}}
  /\ Finish(t, FALSE)
  /\ UNCHANGED <<now, mem, tmp, path, restarts, overlapped>>

-----------------------------------------------------------------------------
Tick ==
  /\ now < MaxTime
  /\ now' = now + 1
  /\ UNCHANGED <<mem, taskVars, fileVars, confirmed, restarts, overlapped>>

\* load: a missing or malformed file yields an empty store, and entries past
\* their expires_at are left out.
Loaded == IF path = NoInode \/ data[path] = Garbled
          THEN {}
          ELSE {j \in data[path] : ~Past(j)}

\* flux stops at any point and starts again.
Restart ==
  /\ restarts < MaxRestarts
  /\ restarts' = restarts + 1
  /\ mem' = Loaded
  /\ pc' = [t \in Tasks |-> "idle"]
  /\ jti' = [t \in Tasks |-> NoJti]
  /\ adding' = [t \in Tasks |-> FALSE]
  /\ sole' = [t \in Tasks |-> FALSE]
  /\ snap' = [t \in Tasks |-> {}]
  /\ fd' = [t \in Tasks |-> NoInode]
  /\ UNCHANGED <<now, fileVars, confirmed, overlapped>>

StoreNext ==
  \/ \E t \in Tasks, j \in Jtis : Revoke(t, j) \/ Unrevoke(t, j)
  \/ \E t \in Tasks :
       Prune(t) \/ List(t) \/ Open(t) \/ WriteTmp(t) \/ Rename(t) \/ PersistFails(t)
  \/ Tick
  \/ Restart

StoreSpec == StoreInit /\ [][StoreNext]_storeVars

-----------------------------------------------------------------------------
\* What Laravel was told holds across restarts: a confirmed revocation is in
\* force until it expires, and a confirmed removal stays removed, wherever in
\* `persist` flux stopped and whichever file operation failed.
Durable ==
  \A j \in Jtis :
    /\ confirmed[j] = "revoked" /\ ~Past(j) => j \in mem
    /\ confirmed[j] = "unrevoked" => j \notin mem

\* While flux runs, concurrent requests, failed ones included, and the
\* sweeper never take a confirmed revocation out of force before it expires.
InForce ==
  restarts = 0 =>
    \A j \in Jtis : confirmed[j] = "revoked" /\ ~Past(j) => j \in mem

\* What the denylist promises: requests and sweeps that have never been in
\* `persist` at the same time leave a store that survives any restart, and those
\* that have leave one that is right until flux stops.
DenylistAsConfirmed == InForce /\ (~overlapped => Durable)
=============================================================================
