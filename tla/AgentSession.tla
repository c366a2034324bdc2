---------------------------- MODULE AgentSession ----------------------------
(***************************************************************************)
(* How one coold keeps its stream to flux: coold's dial loop with its      *)
(* backoff (coold/src/grpc/client.rs), the token file it re-reads on every *)
(* attempt, the rotation Laravel pushes over the stream or over SSH        *)
(* (coold/src/grpc/host_jwt.rs), and flux's decision to admit the stream   *)
(* and to drop it when its token expires (flux/src/auth.rs, `stream` in    *)
(* flux/src/main.rs).  A dispatch in flight keeps the sender of the stream *)
(* it went to (flux/src/unix_bridge.rs), so the stream coold reads stays   *)
(* open until that dispatch is over, served or not.                        *)
(*                                                                         *)
(* Time is in units; a call takes no time, so the clock advances only      *)
(* while coold sleeps or serves and no timer of flux is due.  A token is   *)
(* the fields admission looks at: `signed` stands for the header, the key  *)
(* its kid resolves to, the algorithm, the signature and the audience.     *)
(***************************************************************************)
EXTENDS Integers, FiniteSets

CONSTANTS
  Me, Other,   \* host ids: the host's own, and another host's
  NoSub,       \* a token that has no sub claim
  Initial, MaxBackoff, Stable, Permanent,  \* the dial loop's delays
  RestartSec,  \* systemd's delay before it starts coold again
  Leeway,      \* validation.leeway
  DispatchTimeout, \* how long flux waits for an answer
  MaxLife,     \* COOLIFY_FLUX_MAX_TOKEN_LIFETIME_SECS; 0 disables the clamp
  Lives,       \* lifetimes Laravel mints
  Networks,    \* the deployments considered, see Network
  MaxTime, MaxMints, MaxFaults, MaxSilent  \* bounds

\* What does not change while the agent runs.
Network == [https : BOOLEAN,             \* the scheme of the flux URL
            tls : BOOLEAN,               \* flux has a certificate and a key
            pin : {"none", "flux", "old"},
            ids : {"ip", "uuid"},        \* what host ids are
            peer : {Me, Other, "unknown"},  \* the host whose address flux sees
            schema : (1..2) \X (1..2),   \* coold's schema_min and schema_max
            bind : BOOLEAN, team : BOOLEAN] \* flux's require_* settings

ASSUME Delays ==
  /\ {Initial, MaxBackoff, Stable, Permanent, RestartSec} \subseteq Nat \ {0}
  /\ Initial <= MaxBackoff /\ RestartSec <= MaxBackoff /\ MaxBackoff <= Permanent
  /\ {Leeway, DispatchTimeout, MaxLife, MaxTime, MaxMints, MaxFaults, MaxSilent} \subseteq Nat
  /\ Lives \subseteq Nat \ {0} /\ Me # Other /\ NoSub \notin {Me, Other}
  /\ Networks \subseteq Network

VARIABLES
  net,
  now,
  minted,     \* tokens Laravel has minted
  file,       \* what COOLIFY_COOLD_HOST_JWT_PATH holds, or a reason it cannot load
  revoked,    \* jtis of flux's denylist
  up,         \* the flux process
  assigning,  \* Laravel answers flux assignments
  pc, backoff, wake,
  jwt,        \* token of the current attempt
  since,      \* connected_at
  tasks,      \* flux's stream tasks of this host: when admitted, when to drop,
              \* and (history) whether the token had been revoked by then
  handle,     \* admission time of the stream Streams holds, or None
  deaf,       \* the connection is gone and coold has not been told
  held,       \* when the last dispatch in flight to coold's stream gives up, or
              \* was over, or None: until then it holds a sender of the stream
  faults, silent,
  goodSince,  \* history: since when a fresh attempt would be admitted, or None
  idleSince,  \* history: when the host last lost its place in Streams, its
  ended,      \* process or, to a revocation, the token of its attempt; and
              \* which it was
  denied      \* history: jtis Laravel has revoked

agent == <<pc, backoff, wake, jwt, since, idleSince, ended>>
flux == <<tasks, handle, held>>
world == <<net, minted, file, revoked, denied, up, assigning, faults, silent>>
vars == <<agent, flux, world, now, deaf, goodSince>>

None == -1
NoToken == [jti |-> 0, sub |-> NoSub, exp |-> 0, signed |-> FALSE, team |-> FALSE]
Token == [jti : 0..MaxMints, sub : {Me, Other, NoSub}, exp : Nat, signed : BOOLEAN, team : BOOLEAN]
Unloadable == {"missing", "insecure", "empty"}
Loadable == file.kind = "token"
AsFile(t) == [kind |-> "token", token |-> t]
Unusable(why) == [kind |-> why, token |-> NoToken]

----------------------------------------------------------------------------
(* flux: admission.                                                        *)

\* Mutant: the drop timer counts the leeway verification grants.
SecondsUntilLeeway(exp) == IF exp + Leeway > now THEN exp + Leeway - now ELSE 0
seconds_until_expiry(exp) == IF exp > now THEN exp - now ELSE 0

lifetime_within_clamp(exp) == MaxLife = 0 \/ seconds_until_expiry(exp) <= MaxLife

\* A token without a sub does not deserialise.
verify_jwt(t) ==
  /\ t.signed /\ t.sub # NoSub
  /\ t.exp + Leeway >= now
  /\ lifetime_within_clamp(t.exp)
  /\ t.jti \notin revoked

team_id_satisfied(t) == net.team => t.team

schema_overlaps(lo, hi, fluxLo, fluxHi) == lo <= fluxHi /\ hi >= fluxLo

\* The sub is compared with the peer's address, or, when that is unknown or
\* the sub is no address (bind_via_hello), with the id coold advertises, its own.
decide_host_binding(t) ==
  \/ t.sub = IF net.peer = "unknown" \/ net.ids = "uuid" THEN Me ELSE net.peer
  \/ ~net.bind

\* The status `stream` answers, in the order of its checks.
Admission(t) ==
  IF ~verify_jwt(t) \/ ~team_id_satisfied(t) THEN "unauthenticated"
  ELSE IF ~schema_overlaps(net.schema[1], net.schema[2], 1, 1) THEN "failed_precondition"
  ELSE IF ~decide_host_binding(t) THEN "unauthenticated"
  ELSE "ok"

----------------------------------------------------------------------------
(* coold: dialling.                                                        *)

\* flux_tls_config and the handshake: a pin is always used when it is there,
\* and an https URL without one is refused.
require_flux_tls == net.pin # "none"
Connects ==
  /\ require_flux_tls \/ ~net.https
  /\ up
  /\ IF require_flux_tls THEN net.tls /\ net.pin = "flux" ELSE ~net.tls

\* Mutant: the delay doubles without its cap.
DoubleUncapped(delay) == delay * 2
next_backoff_after_delay(delay) == IF delay * 2 < MaxBackoff THEN delay * 2 ELSE MaxBackoff

\* The delay before the next attempt and the backoff after it.
\* Mutant: a stable stream does not reset the backoff.
NeverReset(connected) == <<backoff, next_backoff_after_delay(backoff)>>
backoff_after_clean_stream_close(connected) ==
  IF connected >= Stable THEN <<Initial, Initial>>
                         ELSE <<backoff, next_backoff_after_delay(backoff)>>

\* Mutant: every error counts as a refusal.
AlwaysPermanent(status) == Permanent
retry_delay_for_error(status) ==
  IF status \in {"unauthenticated", "failed_precondition"} THEN Permanent ELSE backoff

Sleep(delay, next) == pc' = "sleep" /\ wake' = now + delay /\ backoff' = next
Retry(delay) == Sleep(delay, next_backoff_after_delay(delay))

\* A fresh attempt would be admitted with time to serve.
Good == /\ Loadable /\ assigning /\ Connects
        /\ Admission(file.token) = "ok" /\ file.token.exp > now

Serving == pc = "serve" /\ handle = since /\ ~deaf

----------------------------------------------------------------------------

\* Type invariant: coold's loop sleeps within its backoff cap, loads and serves only
\* tokens that were minted, and flux's handle is that of a stream task that runs.
TypeOK ==
  /\ net \in Network /\ now \in 0..MaxTime
  /\ minted \subseteq Token /\ revoked \subseteq denied /\ denied \subseteq 1..MaxMints
  /\ file \in [kind : Unloadable \cup {"token"}, token : minted \cup {NoToken}]
  /\ pc \in {"start", "load", "resolve", "dial", "serve", "sleep", "down"}
  /\ backoff \in Initial..MaxBackoff /\ wake \in Nat
  /\ jwt \in minted \cup {NoToken}
  /\ since \in {None} \cup 0..MaxTime /\ idleSince \in {None} \cup 0..MaxTime
  /\ tasks \subseteq [at : 0..MaxTime, drop : Nat, late : BOOLEAN]
  /\ handle \in {None} \cup {t.at : t \in tasks}
  /\ up \in BOOLEAN /\ assigning \in BOOLEAN
  /\ deaf \in BOOLEAN /\ deaf => pc = "serve"
  /\ held \in {None} \cup Nat /\ held <= now + DispatchTimeout

Init ==
  /\ net \in Networks /\ now = 0
  /\ minted = {} /\ revoked = {} /\ denied = {}
  /\ file = Unusable("missing")
  /\ up \in BOOLEAN /\ assigning = TRUE
  /\ pc = "start" /\ backoff = Initial /\ wake = 0 /\ jwt = NoToken
  /\ since = None /\ tasks = {} /\ handle = None /\ held = None /\ deaf = FALSE
  /\ faults = 0 /\ silent = 0
  /\ goodSince = None /\ idleSince = None /\ ended = "no"

\* run: the first load; its failure ends the daemon, and systemd starts it
\* again.
Boot ==
  /\ pc = "start"
  /\ IF Loadable
     THEN pc' = "load" /\ backoff' = Initial /\ UNCHANGED wake
     ELSE pc' = "down" /\ wake' = now + RestartSec /\ UNCHANGED backoff
  /\ UNCHANGED <<jwt, since, idleSince, ended, flux, world, now, deaf>>

Wake ==
  /\ pc \in {"sleep", "down"} /\ now >= wake
  /\ pc' = IF pc = "sleep" THEN "load" ELSE "start"
  /\ UNCHANGED <<backoff, wake, jwt, since, idleSince, ended, flux, world, now, deaf>>

\* The loop's re-read of the token file.
Load ==
  /\ pc = "load"
  /\ IF Loadable
     THEN pc' = "resolve" /\ jwt' = file.token /\ UNCHANGED <<backoff, wake>>
     ELSE Retry(backoff) /\ UNCHANGED jwt
  /\ UNCHANGED <<since, idleSince, ended, flux, world, now, deaf>>

resolve_flux_url ==
  /\ pc = "resolve"
  /\ IF assigning THEN pc' = "dial" /\ UNCHANGED <<backoff, wake>> ELSE Retry(backoff)
  /\ UNCHANGED <<jwt, since, idleSince, ended, flux, world, now, deaf>>

\* connect_and_serve up to the established stream: the connection, the
\* Hello, and flux's `stream`, which inserts the handle (over an older one)
\* and starts the task with its drop timer.
Dial ==
  /\ pc = "dial"
  /\ IF ~Connects
     THEN Retry(retry_delay_for_error("unavailable")) /\ UNCHANGED <<since, flux>>
     ELSE IF Admission(jwt) # "ok"
     THEN Retry(retry_delay_for_error(Admission(jwt))) /\ UNCHANGED <<since, flux>>
     ELSE /\ pc' = "serve" /\ since' = now
          /\ tasks' = tasks \cup {[at |-> now, drop |-> now + seconds_until_expiry(jwt.exp),
                                       late |-> jwt.jti \in denied]}
          /\ handle' = now /\ held' = None
          /\ UNCHANGED <<backoff, wake>>
  /\ UNCHANGED <<jwt, idleSince, ended, world, now, deaf>>

\* coold_dispatch from get_tx to its answer: the handler keeps a clone of the
\* sender while it waits.  Of several the last one to give up counts.
Dispatch ==
  /\ Serving /\ held = None
  /\ held' = now + DispatchTimeout
  /\ UNCHANGED <<agent, tasks, handle, world, now, deaf>>

\* The stream task hands coold's response to the handler.
DispatchAnswered ==
  /\ pc = "serve" /\ ~deaf /\ held > now /\ \E t \in tasks : t.at = since
  /\ held' = IF Serving THEN None ELSE now
  /\ UNCHANGED <<agent, tasks, handle, world, now, deaf>>

\* flux's task of a stream ends: at the drop timer, or when the stream it
\* reads has ended.  It removes whatever handle the host then has.
TaskEnds(t) ==
  /\ t.drop <= now \/ t.at # since \/ pc # "serve" \/ deaf
  /\ tasks' = tasks \ {t} /\ handle' = None
  /\ IF Serving THEN idleSince' = now /\ ended' = "clean" ELSE UNCHANGED <<idleSince, ended>>
  /\ UNCHANGED <<pc, backoff, wake, jwt, since, held, world, now, deaf>>

\* flux has dropped the handle and no dispatch holds a sender any more, so
\* coold's inbound stream ends cleanly.
StreamCloses ==
  /\ pc = "serve" /\ handle # since /\ held <= now /\ ~deaf
  /\ LET b == backoff_after_clean_stream_close(now - since) IN Sleep(b[1], b[2])
  /\ UNCHANGED <<jwt, since, idleSince, ended, flux, world, now, deaf>>

\* The connection breaks and coold sees it; flux's task may not.  A
\* connection that broke silently is seen when coold next sends on it.
StreamBreaks ==
  /\ pc = "serve"
  /\ deaf \/ faults < MaxFaults
  /\ faults' = IF deaf THEN faults ELSE faults + 1
  /\ Retry(retry_delay_for_error("unavailable")) /\ deaf' = FALSE
  /\ idleSince' = now /\ ended' = "error"
  /\ UNCHANGED <<jwt, since, flux, net, minted, file, revoked, denied, up, assigning, silent, now>>

\* The connection breaks while neither side has anything to send: coold has
\* no keepalive and no read timeout.
StreamGoesDeaf ==
  /\ pc = "serve" /\ ~deaf /\ silent < MaxSilent
  /\ deaf' = TRUE /\ silent' = silent + 1
  /\ UNCHANGED <<agent, flux, net, minted, file, revoked, denied, up, assigning, faults, now>>

CooldRestarts ==
  /\ faults < MaxFaults /\ faults' = faults + 1
  /\ pc \notin {"down", "start"}
  /\ pc' = "down" /\ wake' = now + RestartSec /\ deaf' = FALSE
  /\ idleSince' = now /\ ended' = "error"
  /\ UNCHANGED <<backoff, jwt, since, flux, net, minted, file, revoked, denied, up,
                 assigning, silent, now>>

\* flux stops, and its streams break, or comes back.
FluxStops ==
  /\ up /\ faults < MaxFaults /\ faults' = faults + 1
  /\ up' = FALSE /\ tasks' = {} /\ handle' = None /\ held' = None
  /\ IF pc = "serve" /\ ~deaf
     THEN Retry(retry_delay_for_error("unavailable")) /\ idleSince' = now /\ ended' = "error"
     ELSE UNCHANGED <<pc, backoff, wake, idleSince, ended>>
  /\ UNCHANGED <<jwt, since, net, minted, file, revoked, denied, assigning, silent, now, deaf>>

FluxStarts ==
  /\ ~up /\ up' = TRUE
  /\ UNCHANGED <<agent, flux, net, minted, file, revoked, denied, assigning, faults, silent,
                 now, deaf>>

AssignmentFails ==
  /\ assigning /\ faults < MaxFaults /\ faults' = faults + 1 /\ assigning' = FALSE
  /\ UNCHANGED <<agent, flux, net, minted, file, revoked, denied, up, silent, now, deaf>>

AssignmentAnswers ==
  /\ ~assigning /\ assigning' = TRUE
  /\ UNCHANGED <<agent, flux, net, minted, file, revoked, denied, up, faults, silent, now, deaf>>

\* A token Laravel mints now.
Mint == {[jti |-> Cardinality(minted) + 1, sub |-> s, exp |-> now + l, signed |-> TRUE,
          team |-> TRUE] : s \in {Me, Other, NoSub}, l \in Lives}

\* host.jwt.set over the stream: apply_host_jwt refuses a token of another
\* subject than the installed one's, if it can tell both (current_host_sub
\* reads the file whatever its mode, and may fail).
host_jwt_set(t) ==
  /\ Serving /\ Cardinality(minted) < MaxMints
  /\ minted' = minted \cup {t}
  /\ \E readable \in BOOLEAN :
       /\ readable \/ faults < MaxFaults
       /\ faults' = IF readable THEN faults ELSE faults + 1
       /\ file' = IF readable /\ NoSub \notin {t.sub, file.token.sub} /\ file.token.sub # t.sub
                  THEN file ELSE AsFile(t)
  /\ UNCHANGED <<agent, flux, net, revoked, denied, up, assigning, silent, now, deaf>>

\* The SSH fallback, for the right host; or a file left unusable.
DeliverBySsh(t) ==
  /\ t.sub = Me /\ Cardinality(minted) < MaxMints
  /\ minted' = minted \cup {t} /\ file' = AsFile(t)
  /\ UNCHANGED <<agent, flux, net, revoked, denied, up, assigning, faults, silent, now, deaf>>

FileSpoilt(why) ==
  /\ faults < MaxFaults /\ faults' = faults + 1
  /\ file' = IF why = "insecure" THEN [file EXCEPT !.kind = why] ELSE Unusable(why)
  /\ UNCHANGED <<agent, flux, net, minted, revoked, denied, up, assigning, silent, now, deaf>>

\* Laravel revokes a token, with its exp; the sweeper prunes what has expired.
Revoke(t) ==
  /\ faults < MaxFaults /\ faults' = faults + 1
  /\ t.jti \notin denied
  /\ revoked' = revoked \cup {t.jti} /\ denied' = denied \cup {t.jti}
  /\ IF pc \in {"resolve", "dial"} /\ t = jwt
     THEN idleSince' = now /\ ended' = "revoked"
     ELSE UNCHANGED <<idleSince, ended>>
  /\ UNCHANGED <<pc, backoff, wake, jwt, since, flux, net, minted, file, up, assigning, silent, now, deaf>>

Sweep ==
  /\ revoked' = {t.jti : t \in {m \in minted : m.jti \in revoked /\ m.exp > now}}
  /\ revoked' # revoked
  /\ UNCHANGED <<agent, flux, net, minted, file, denied, up, assigning, faults, silent, now, deaf>>

\* A dispatch that waits gives up at its timeout.
Tick ==
  /\ now < MaxTime
  /\ \/ pc \in {"sleep", "down"} /\ wake > now
     \/ pc = "serve" /\ (handle = since \/ deaf \/ held > now)
  /\ \A t \in tasks : t.drop > now
  /\ now' = now + 1
  /\ held' = IF Serving /\ held = now' THEN None ELSE held
  /\ UNCHANGED <<agent, tasks, handle, world, deaf>>

CooldSteps == Boot \/ Wake \/ Load \/ resolve_flux_url \/ Dial \/ StreamCloses
              \/ Dispatch \/ DispatchAnswered
Faults == StreamBreaks \/ StreamGoesDeaf \/ CooldRestarts \/ FluxStops \/ FluxStarts
            \/ AssignmentFails \/ AssignmentAnswers
Laravel == \/ \E t \in Mint : host_jwt_set(t) \/ DeliverBySsh(t)
           \/ \E why \in Unloadable : FileSpoilt(why)
           \/ \E t \in minted : Revoke(t)

Next ==
  /\ CooldSteps \/ Faults \/ Laravel \/ Sweep \/ Tick \/ \E t \in tasks : TaskEnds(t)
  /\ goodSince' = IF ~Good' THEN None ELSE IF goodSince = None THEN now' ELSE goodSince

Spec == Init /\ [][Next]_vars

----------------------------------------------------------------------------

Latest(a, b) == IF a > b THEN a ELSE b

(* While a fresh attempt would be admitted, the host is without a stream    *)
(* flux serves for at most what its loop was left with: the largest backoff *)
(* once it has lost a connection or its process in that time; the dispatch  *)
(* timeout and that backoff once flux has dropped the stream, which coold   *)
(* learns when the dispatches in flight are over; and otherwise the long    *)
(* delay of a refusal.  A revocation may cost that one too: it can hit the  *)
(* token an attempt has read and not yet presented.  (A connection lost     *)
(* without notice is not bounded, see NoticedByExpiry.)                     *)
OutageBounded ==
  (goodSince # None /\ ~Serving /\ ~deaf) =>
     now - Latest(goodSince, idleSince) <=
        IF idleSince <= goodSince \/ ended = "revoked"
        THEN Latest(Permanent, DispatchTimeout + MaxBackoff)
        ELSE IF ended = "clean" THEN DispatchTimeout + MaxBackoff ELSE MaxBackoff

(* Rotation is seamless (host_jwt.rs): when flux drops a stable stream and  *)
(* the file by then holds a token that is good, the host is back after the  *)
(* initial delay, whatever its backoff had grown to before that stream,     *)
(* counted from the drop or from the end of the dispatches then in flight.  *)
SeamlessRotation ==
  (/\ ended = "clean" /\ ~Serving /\ ~deaf /\ idleSince - since >= Stable
   /\ goodSince # None /\ goodSince <= idleSince) =>
     now <= Latest(idleSince, held) + Initial

(* Not an invariant of this code: coold has no deadline on its receive loop, *)
(* so it holds on to a connection lost without notice past the token's exp.  *)
NoticedByExpiry == deaf => now <= jwt.exp

(* A token Laravel has revoked gives no stream that lasts, although the     *)
(* sweeper forgets it at its exp and verification accepts it for the leeway *)
(* beyond: flux drops a stream of a token past its exp at once.             *)
RevokedNeverLasts == \A t \in tasks : t.late => now = t.at

=============================================================================
