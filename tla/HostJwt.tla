------------------------------ MODULE HostJwt ------------------------------
(***************************************************************************)
(* host.jwt.set (coold/src/grpc/host_jwt.rs): coold checks the pushed      *)
(* token against the installed one and replaces the file by writing a      *)
(* temporary file and renaming it.  Every request runs in its own task     *)
(* (connect_and_serve spawns one per command), and the temporary name is   *)
(* made of the file's name and the process id only.  A file operation is   *)
(* one step; a descriptor stays on its inode when the name moves.          *)
(***************************************************************************)
EXTENDS Integers, FiniteSets

CONSTANTS
  Requests,   \* host.jwt.set commands in coold
  Tokens,     \* tokens Laravel pushes
  Subject, NoSubject, \* their sub claims; NoSubject: the token has none
  Size,       \* their lengths
  First,      \* the token installed at enrolment
  Inodes, NoInode, NoContent,
  AtOnce,     \* how many requests Laravel has outstanding
  MaxFileFaults \* bound on failing file operations and on restarts of coold

ASSUME RotationConstants ==
  /\ First \in Tokens
  /\ Size \in [Tokens -> Nat \ {0}]
  /\ IsFiniteSet(Requests) /\ IsFiniteSet(Inodes)
  /\ Cardinality(Inodes) >= Cardinality(Requests) + 2
  /\ NoInode \notin Inodes /\ NoContent \notin Tokens
  /\ AtOnce \in Nat /\ MaxFileFaults \in Nat

VARIABLES
  step, token, fd,  \* of a request's task; the descriptor lives to the end of its block
  tmp, path,        \* inodes behind the temporary name and host_jwt_path
  data,             \* content of an inode: the token it was written from last,
                    \* how much of it there is, and what an older one left behind it
  fileFaults,
  installed,        \* history: the token of the last rotation reported done,
                    \* or NoContent once a later one has begun
  unchecked,        \* history: the requests whose check had nothing to compare
  owner             \* history: the subject at enrolment, or of the last token
                    \* installed by one of those

fileVars == <<step, token, fd, tmp, path, data, fileFaults, installed, unchecked, owner>>

Empty == [of |-> NoContent, whole |-> TRUE]
Content(t) == [of |-> t, whole |-> TRUE]
Torn(t) == [of |-> t, whole |-> FALSE]

Free == {i \in Inodes : i \notin {tmp, path} /\ \A r \in Requests : fd[r] # i}
\* Inodes are interchangeable, so which one a new file gets makes no difference.
Some(S) == CHOOSE i \in S : TRUE
Running == {r \in Requests : step[r] \notin {"new", "done", "failed"}}

\* Type invariant: a rotation has a file open from its open to the end of its rename,
\* and the temporary name is never the installed file.
FileTypeOK ==
  /\ step \in [Requests -> {"new", "checked", "opened", "written", "renaming", "cleanup",
                          "done", "failed"}]
  /\ token \in [Requests -> Tokens \cup {NoContent}]
  /\ fd \in [Requests -> Inodes \cup {NoInode}]
  /\ \A r \in Requests : fd[r] # NoInode <=> step[r] \in {"opened", "written", "renaming"}
  /\ tmp \in Inodes \cup {NoInode} /\ path \in Inodes /\ tmp # path
  /\ data \in [Inodes -> [of : Tokens \cup {NoContent}, whole : BOOLEAN]]
  /\ fileFaults \in 0..MaxFileFaults /\ installed \in Tokens \cup {NoContent}
  /\ unchecked \subseteq Requests

FileInit ==
  /\ step = [r \in Requests |-> "new"]
  /\ token = [r \in Requests |-> NoContent]
  /\ fd = [r \in Requests |-> NoInode]
  /\ tmp = NoInode
  /\ path = Some(Inodes)
  /\ data = [i \in Inodes |-> IF i = path THEN Content(First) ELSE Empty]
  /\ fileFaults = 0 /\ installed = First /\ unchecked = {} /\ owner = Subject[First]

\* Best effort: a file that cannot be read, or does not parse as a token,
\* has no subject.
current_host_sub(readable) ==
  IF readable /\ data[path].of # NoContent /\ data[path].whole THEN Subject[data[path].of]
                                                               ELSE NoSubject

\* apply_host_jwt up to its write: two known subjects must not differ.
\* Mutant: the subject of the installed token is not looked at.
ApplyUnchecked(r, t) ==
  /\ step[r] = "new" /\ Cardinality(Running) < AtOnce
  /\ token' = [token EXCEPT ![r] = t]
  /\ step' = [step EXCEPT ![r] = "checked"]
  /\ installed' = NoContent
  /\ UNCHANGED <<fd, tmp, path, data, fileFaults, unchecked, owner>>
apply_host_jwt(r, t) ==
  /\ step[r] = "new" /\ Cardinality(Running) < AtOnce
  /\ token' = [token EXCEPT ![r] = t]
  /\ \E readable \in BOOLEAN :
       /\ readable \/ fileFaults < MaxFileFaults
       /\ fileFaults' = IF readable THEN fileFaults ELSE fileFaults + 1
       /\ IF NoSubject \in {Subject[t], current_host_sub(readable)}
          THEN /\ step' = [step EXCEPT ![r] = "checked"] /\ installed' = NoContent
               /\ unchecked' = unchecked \cup {r}
          ELSE /\ IF current_host_sub(readable) = Subject[t]
                  THEN step' = [step EXCEPT ![r] = "checked"] /\ installed' = NoContent
                  ELSE step' = [step EXCEPT ![r] = "failed"] /\ UNCHANGED installed
               /\ UNCHANGED unchecked
  /\ UNCHANGED <<fd, tmp, path, data, owner>>

\* write_host_jwt_atomic: open with create and truncate.  Mutant: the target
\* itself is opened, and the rename is of the file onto itself.
OpenInPlace(r) ==
  /\ step[r] = "checked"
  /\ fd' = [fd EXCEPT ![r] = path] /\ data' = [data EXCEPT ![path] = Empty]
  /\ step' = [step EXCEPT ![r] = "opened"]
  /\ UNCHANGED <<token, tmp, path, fileFaults, installed, unchecked, owner>>
Open(r) ==
  /\ step[r] = "checked"
  /\ tmp' = IF tmp = NoInode THEN Some(Free) ELSE tmp
  /\ fd' = [fd EXCEPT ![r] = tmp'] /\ data' = [data EXCEPT ![tmp'] = Empty]
  /\ step' = [step EXCEPT ![r] = "opened"]
  /\ UNCHANGED <<token, path, fileFaults, installed, unchecked, owner>>

\* write_all at offset 0 of the open inode, then flush: a longer token that
\* another task wrote there meanwhile keeps its tail.
Write(r) ==
  /\ step[r] = "opened"
  /\ LET old == data[fd[r]]
         covers == old.of = NoContent \/ Size[old.of] <= Size[token[r]]
     IN  data' = [data EXCEPT ![fd[r]] = IF covers THEN Content(token[r]) ELSE Torn(token[r])]
  /\ step' = [step EXCEPT ![r] = "written"]
  /\ UNCHANGED <<token, fd, tmp, path, fileFaults, installed, unchecked, owner>>

\* The block ends with an error: the file is closed and the name removed next.
GiveUp(r) == step' = [step EXCEPT ![r] = "cleanup"] /\ fd' = [fd EXCEPT ![r] = NoInode]

\* set_permissions by name: fails when the name is gone.
Chmod(r) ==
  /\ step[r] = "written"
  /\ IF tmp = NoInode THEN GiveUp(r)
                      ELSE step' = [step EXCEPT ![r] = "renaming"] /\ UNCHANGED fd
  /\ UNCHANGED <<token, tmp, path, data, fileFaults, installed, unchecked, owner>>

\* rename by name, the end of the block and the report of success.
Rename(r) ==
  /\ step[r] = "renaming"
  /\ IF tmp = NoInode
     THEN GiveUp(r) /\ UNCHANGED <<tmp, path, installed, owner>>
     ELSE /\ path' = tmp /\ tmp' = NoInode
          /\ step' = [step EXCEPT ![r] = "done"] /\ fd' = [fd EXCEPT ![r] = NoInode]
          /\ installed' = IF Running = {r} THEN token[r] ELSE NoContent
          /\ owner' = IF r \in unchecked THEN Subject[token[r]] ELSE owner
  /\ UNCHANGED <<token, data, fileFaults, unchecked>>

\* A file operation fails; a failed write may leave part of the token.
Fails(r) ==
  /\ fileFaults < MaxFileFaults /\ fileFaults' = fileFaults + 1
  /\ step[r] \in {"checked", "opened", "written", "renaming"}
  /\ GiveUp(r)
  /\ data' = IF step[r] = "opened" THEN [data EXCEPT ![fd[r]] = Torn(token[r])] ELSE data
  /\ UNCHANGED <<token, tmp, path, installed, unchecked, owner>>

\* remove_file by name, whoever's temporary file that is by now.
Cleanup(r) ==
  /\ step[r] = "cleanup"
  /\ tmp' = NoInode /\ step' = [step EXCEPT ![r] = "failed"]
  /\ UNCHANGED <<token, fd, path, data, fileFaults, installed, unchecked, owner>>

\* coold is killed: its tasks are gone, its files stay.  A new process id
\* gives a new temporary name.
Restart ==
  /\ fileFaults < MaxFileFaults /\ fileFaults' = fileFaults + 1
  /\ step' = [r \in Requests |-> IF r \in Running THEN "failed" ELSE step[r]]
  /\ fd' = [r \in Requests |-> NoInode]
  /\ tmp' = NoInode
  /\ UNCHANGED <<token, path, data, installed, unchecked, owner>>

FileNext ==
  \/ \E r \in Requests :
       \/ \E t \in Tokens : apply_host_jwt(r, t)
       \/ Open(r) \/ Write(r) \/ Chmod(r) \/ Rename(r) \/ Fails(r) \/ Cleanup(r)
  \/ Restart

FileSpec == FileInit /\ [][FileNext]_fileVars

----------------------------------------------------------------------------

(* "A reader never observes a half-written token": whatever fails and      *)
(* whenever coold is killed, the token file holds one whole token.         *)
NeverHalfWritten == data[path].of # NoContent /\ data[path].whole

(* The token file stays with its host.  "Prevents installing a token minted  *)
(* for a different host" holds as far as both subjects are known: only a    *)
(* rotation whose check had nothing to compare (a token without a sub, or   *)
(* an installed one that has none or cannot be read) brings another         *)
(* subject.  And a rotation reported done is what the file holds until the  *)
(* next begins.                                                             *)
KeepsItsHost == /\ Subject[data[path].of] = owner
                /\ installed # NoContent => data[path] = Content(installed)

(* Both, and FileTypeOK: what a reader and the next rotation rely on.      *)
TokenFileSound == FileTypeOK /\ NeverHalfWritten /\ KeepsItsHost

=============================================================================
