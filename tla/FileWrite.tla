------------------------------- MODULE FileWrite -------------------------------
(***************************************************************************)
(* Write-through of one file node: network_fsync (the PUT loop and the     *)
(* follow-up PROPFIND for validators), network_lock (fresh and refresh)    *)
(* and network_unlock, all sent through the transaction/authentication     *)
(* loop of send_transaction and network_fsync: authcache_apply, the one    *)
(* EPIPE retry (retryTransaction), the 401/407 loop and                    *)
(* translate_status_to_error.                                              *)
(*                                                                         *)
(* The server is the environment: it keeps the resource's versions, who    *)
(* wrote each, and its WebDAV lock, and another client writes and locks    *)
(* the resource too.  The server may end this client's lock on its own    *)
(* (the Timeout of the LOCK ran out before a refresh, or the lock was      *)
(* broken), which the node learns only from the next answer.  A request is applied by the server atomically; its   *)
(* response may then be lost on the way back (a transport error).  A       *)
(* validator (Last-Modified or ETag) is modelled as the version it names.  *)
(***************************************************************************)
EXTENDS Integers, WebDAVStatus

CONSTANTS
    MaxVer,         \* the server keeps versions 0..MaxVer
    MaxTok,         \* lock tokens the server may issue to this client
    MaxChallenges,  \* 401 challenges the server sends in one transaction
    OtherWrites,    \* another client writes the resource
    WriteLocked,    \* the node is written only while this client holds a lock
    LockLapses      \* the server may end this client's lock without an UNLOCK

Versions == 0..MaxVer
Tokens == 1..MaxTok

\* The server's lock when no one holds it, and when the other client does.
LockFree == 0
OtherHolds == -1

\* The operations the node's thread runs, each a transaction loop.
Ops == {"put", "propfind", "lock", "refresh", "unlock"}

VARIABLES
    sver,               \* the server's current version of the resource
    author,             \* who wrote each version: "us" or "other"
    slock,              \* the server's lock: LockFree, OtherHolds or our token
    ntok,               \* tokens the server has issued to us
    expired,            \* our tokens whose lock the server ended on its own
    lapsed,             \* our lock ended during the last network_fsync
    putValidators,      \* the server sends Last-Modified/ETag with a PUT
    file_locktoken,     \* node->file_locktoken (0 for NULL)
    file_last_modified, \* node's validator: the version it names, or -1
    lastFsync,          \* what the last network_fsync returned
    pc,                 \* "idle" or the request in flight
    statusCode,         \* the loop's statusCode: 0 or 401
    retryTransaction,   \* the loop's retryTransaction
    challenges,         \* 401s received in this transaction
    result              \* what the last network_* call returned

server == <<sver, author, slock, ntok, putValidators, expired, lapsed>>
node == <<file_locktoken, file_last_modified, lastFsync>>
loop == <<pc, statusCode, retryTransaction, challenges, result>>
vars == <<server, node, loop>>

Errors == {"OK", "EBUSY", "EINVAL", "ENOENT", "ENXIO", "EACCES"}

TypeOK ==
    /\ sver \in Versions
    /\ author \in [Versions -> {"us", "other"}]
    /\ slock \in {LockFree, OtherHolds} \cup Tokens
    /\ ntok \in 0..MaxTok
    /\ expired \subseteq Tokens
    /\ lapsed \in BOOLEAN
    /\ putValidators \in BOOLEAN
    /\ file_locktoken \in {0} \cup Tokens
    /\ file_last_modified \in {-1} \cup Versions
    /\ lastFsync \in {"none"} \cup Errors
    /\ pc \in {"idle"} \cup Ops
    /\ statusCode \in {0, 401}
    /\ retryTransaction \in BOOLEAN
    /\ challenges \in 0..MaxChallenges
    /\ result \in {"none"} \cup Errors

\* The resource exists, written by someone else; the node has no lock and
\* validators from an earlier GET.  The server does or does not send
\* validators in PUT responses.
Init ==
    /\ sver = 0
    /\ author = [v \in Versions |-> "other"]
    /\ slock = LockFree
    /\ ntok = 0
    /\ expired = {} /\ lapsed = FALSE
    /\ putValidators \in BOOLEAN
    /\ file_locktoken = 0
    /\ file_last_modified = 0
    /\ lastFsync = "none"
    /\ pc = "idle"
    /\ statusCode = 0
    /\ retryTransaction = TRUE
    /\ challenges = 0
    /\ result = "none"

-----------------------------------------------------------------------------
(* The node's thread                                                       *)

\* The locals of a new transaction loop: statusCode = 0, auth_generation =
\* 0, retryTransaction = TRUE.
Begin(op) ==
    /\ pc' = op
    /\ statusCode' = 0 /\ retryTransaction' = TRUE /\ challenges' = 0
    /\ UNCHANGED result

\* network_fsync, called by the cache layer on a written file (only while
\* the file is locked, when the mount locks files opened for writing).
StartFsync ==
    /\ pc = "idle" /\ (WriteLocked => file_locktoken # 0)
    /\ Begin("put") /\ lapsed' = FALSE
    /\ UNCHANGED <<sver, author, slock, ntok, putValidators, expired, node>>

\* network_lock: a fresh lock, or a refresh by the lock-refresh thread.
StartLock ==
    /\ pc = "idle"
    /\ Begin(IF file_locktoken = 0 THEN "lock" ELSE "refresh")
    /\ UNCHANGED <<server, node>>

\* network_unlock, when the node holds a token.
StartUnlock ==
    /\ pc = "idle" /\ file_locktoken # 0
    /\ Begin("unlock")
    /\ UNCHANGED <<server, node>>

\* Mutant: network_unlock keeps the token when the UNLOCK failed.
Fail_keep_token(err) ==
    /\ pc' = "idle" /\ result' = err
    /\ CASE pc = "put"      -> lastFsync' = err
                               /\ UNCHANGED <<file_locktoken, file_last_modified>>
         [] pc = "propfind" -> /\ file_last_modified' = -1 /\ lastFsync' = "OK"
                               /\ UNCHANGED file_locktoken
         [] OTHER           -> UNCHANGED node
    /\ UNCHANGED <<statusCode, retryTransaction, challenges>>

\* The operation returns err.  network_fsync leaves the node's validators
\* alone when the PUT fails; when only the follow-up PROPFIND fails it
\* still returns 0, with file_last_modified -1; a failed LOCK keeps the old
\* token; network_unlock frees the token whatever happened.
Fail(err) ==
    /\ pc' = "idle"
    /\ CASE pc = "put"      -> /\ lastFsync' = err /\ result' = err
                               /\ UNCHANGED <<file_locktoken, file_last_modified>>
         [] pc = "propfind" -> /\ file_last_modified' = -1
                               /\ lastFsync' = "OK" /\ result' = "OK"
                               /\ UNCHANGED file_locktoken
         [] pc = "unlock"   -> /\ file_locktoken' = 0 /\ result' = err
                               /\ UNCHANGED <<file_last_modified, lastFsync>>
         [] OTHER           -> result' = err /\ UNCHANGED node
    /\ UNCHANGED <<statusCode, retryTransaction, challenges>>

\* The operation returns 0 with the node as the caller sets it.
Succeed ==
    /\ pc' = "idle" /\ result' = "OK"
    /\ UNCHANGED <<statusCode, retryTransaction, challenges>>

\* authcache_apply fails (the user cancels the credentials prompt after a
\* challenge): the loop breaks with that error.
AuthFails ==
    /\ pc # "idle" /\ statusCode = 401
    /\ Fail("EACCES")
    /\ UNCHANGED server

\* Mutant: the EAGAIN of the retry is returned to the caller.
StreamError_no_loop ==
    \/ retryTransaction /\ Fail("EAGAIN")
    \/ Fail("ENXIO")

\* Mutant: the loop's locals are set on every pass, so a retry starts
\* again with retryTransaction TRUE and no 401 seen.
StreamError_fresh_locals ==
    \/ retryTransaction /\ Begin(pc) /\ UNCHANGED node
    \/ Fail("ENXIO")

\* A stream error: a POSIX EPIPE is retried once (EAGAIN, statusCode = 0);
\* any other error, or a second EPIPE, ends the loop with ENXIO.
StreamError ==
    \/ /\ retryTransaction
       /\ retryTransaction' = FALSE /\ statusCode' = 0
       /\ UNCHANGED <<pc, challenges, result, node>>
    \/ Fail("ENXIO")

\* The request is lost before the server acts on it.
TransportError ==
    /\ pc # "idle"
    /\ StreamError
    /\ UNCHANGED server

\* The server challenges (401); the loop sends the request again with
\* credentials for the challenge.
Challenge ==
    /\ pc # "idle" /\ challenges < MaxChallenges
    /\ statusCode' = 401 /\ challenges' = challenges + 1
    /\ UNCHANGED <<server, node, pc, retryTransaction, result>>

-----------------------------------------------------------------------------
(* The server's answer to each request, and what the code does with it.    *)
(* A response is delivered (the loop ends and the code reads it) or lost   *)
(* after the server has acted (a stream error).                            *)

\* The If header of the PUT carries the node's token, if any.  Without it
\* the server accepts a PUT on an unlocked resource; with it, only while
\* that token is the resource's lock (412 once the lock has ended).
PutAllowed == IF file_locktoken = 0 THEN slock = LockFree
                                    ELSE slock = file_locktoken

\* Mutant: the validator the PUT response carries names the version before
\* the write.
PutValidator_before == sver

\* The Last-Modified/ETag of a PUT response name the version it created.
PutValidator == sver + 1

\* What network_fsync does with a delivered 2xx PUT response: the node
\* takes its validators, or, when it has neither Last-Modified nor ETag,
\* the follow-up PROPFIND (send_transaction) starts.
PutDelivered ==
    IF putValidators
    THEN /\ file_last_modified' = PutValidator /\ lastFsync' = "OK"
         /\ Succeed /\ UNCHANGED file_locktoken
    ELSE Begin("propfind") /\ UNCHANGED node

\* network_fsync's PUT: 201 when the server accepts it, else 412 for a
\* token that names no lock (EINVAL) or 423 Locked (EBUSY); the node is
\* unchanged on an error.
PutResponse ==
    LET status == CASE PutAllowed          -> 201
                    [] file_locktoken # 0 -> 412
                    [] OTHER              -> 423 IN
    /\ pc = "put" /\ (PutAllowed => sver < MaxVer)
    /\ IF translate_status_to_error(status) = "OK"
       THEN /\ sver' = sver + 1
            /\ author' = [author EXCEPT ![sver + 1] = "us"]
            /\ PutDelivered \/ StreamError
       ELSE Fail(translate_status_to_error(status)) /\ UNCHANGED <<sver, author>>
    /\ UNCHANGED <<slock, ntok, putValidators, expired, lapsed>>

\* The follow-up PROPFIND (getlastmodified, getetag): a 207 names the
\* version the server holds now.
PropfindResponse ==
    /\ pc = "propfind"
    /\ \/ /\ file_last_modified' = sver /\ lastFsync' = "OK"
          /\ Succeed /\ UNCHANGED file_locktoken
       \/ StreamError
    /\ UNCHANGED server

\* LOCK without a token: 200 with a new token on an unlocked resource,
\* else 423.  parse_lock's token is stored only when the response is read.
LockResponse ==
    LET status == IF slock = LockFree THEN 200 ELSE 423 IN
    /\ pc = "lock" /\ (slock = LockFree => ntok < MaxTok)
    /\ IF translate_status_to_error(status) = "OK"
       THEN /\ slock' = ntok + 1 /\ ntok' = ntok + 1
            /\ \/ /\ file_locktoken' = ntok + 1 /\ Succeed
                  /\ UNCHANGED <<file_last_modified, lastFsync>>
               \/ StreamError
       ELSE Fail(translate_status_to_error(status)) /\ UNCHANGED <<slock, ntok>>
    /\ UNCHANGED <<sver, author, putValidators, expired, lapsed>>

\* LOCK with If: (<token>) refreshes the lock it names (200), else 412;
\* the node keeps its token either way.
RefreshResponse ==
    LET status == IF slock = file_locktoken THEN 200 ELSE 412 IN
    /\ pc = "refresh"
    /\ \/ /\ translate_status_to_error(status) = "OK"
          /\ Succeed /\ UNCHANGED node
       \/ /\ translate_status_to_error(status) # "OK"
          /\ Fail(translate_status_to_error(status))
       \/ StreamError
    /\ UNCHANGED server

\* UNLOCK with Lock-Token: <token>: the server drops the lock it names
\* (204), else 409; network_unlock frees the node's token either way.
UnlockResponse ==
    LET status == IF slock = file_locktoken THEN 204 ELSE 409 IN
    /\ pc = "unlock"
    /\ slock' = IF slock = file_locktoken THEN LockFree ELSE slock
    /\ \/ /\ file_locktoken' = 0 /\ pc' = "idle"
          /\ result' = translate_status_to_error(status)
          /\ UNCHANGED <<file_last_modified, lastFsync, statusCode,
                         retryTransaction, challenges>>
       \/ StreamError
    /\ UNCHANGED <<sver, author, ntok, putValidators, expired, lapsed>>

-----------------------------------------------------------------------------
(* Another client of the server                                            *)

OtherWrite ==
    /\ OtherWrites /\ slock \in {LockFree, OtherHolds} /\ sver < MaxVer
    /\ sver' = sver + 1
    /\ author' = [author EXCEPT ![sver + 1] = "other"]
    /\ UNCHANGED <<slock, ntok, putValidators, expired, lapsed, node, loop>>

OtherLock ==
    /\ slock = LockFree /\ slock' = OtherHolds
    /\ UNCHANGED <<sver, author, ntok, putValidators, expired, lapsed, node, loop>>

OtherUnlock ==
    /\ slock = OtherHolds /\ slock' = LockFree
    /\ UNCHANGED <<sver, author, ntok, putValidators, expired, lapsed, node, loop>>

\* The server ends our lock: its Timeout ran out before a refresh, or it
\* was broken.  lapsed records that this happened in an fsync.
LockExpires ==
    /\ LockLapses /\ slock \in Tokens
    /\ slock' = LockFree /\ expired' = expired \cup {slock}
    /\ lapsed' = (lapsed \/ pc \in {"put", "propfind"})
    /\ UNCHANGED <<sver, author, ntok, putValidators, node, loop>>

-----------------------------------------------------------------------------

\* One step of the transaction loop in flight.
Transaction ==
    \/ AuthFails \/ TransportError \/ Challenge
    \/ PutResponse \/ PropfindResponse \/ LockResponse \/ RefreshResponse
    \/ UnlockResponse

Next ==
    \/ StartFsync \/ StartLock \/ StartUnlock
    \/ Transaction
    \/ OtherWrite \/ OtherLock \/ OtherUnlock \/ LockExpires

\* The thread in a transaction keeps going: every CFNetwork call returns.
Spec == Init /\ [][Next]_vars /\ WF_vars(Transaction)

-----------------------------------------------------------------------------
(* Properties                                                              *)

\* After a successful network_fsync, the validators the node keeps name a
\* version this client wrote: the next open's If-Modified-Since then
\* revalidates the cache file (our data) against our own write, never
\* against another client's.  A lock that ended during the fsync no longer
\* kept the other client out, so such an fsync is not covered.
ValidatorsNameOurWrite ==
    pc = "idle" /\ lastFsync = "OK" /\ file_last_modified # -1 /\ ~lapsed =>
        author[file_last_modified] = "us"

\* Between operations, a lock token the node keeps is the lock the server
\* holds, or one the server ended on its own: network_lock stores only a
\* token it was granted, a refused refresh keeps it, and network_unlock
\* frees it even when the UNLOCK fails.
TokenIsServerLock ==
    pc = "idle" /\ file_locktoken # 0 =>
        slock = file_locktoken \/ file_locktoken \in expired

\* Every transaction loop ends: the EPIPE retry is taken once, and the
\* authentication loop ends when the server stops challenging or the user
\* cancels.
TransactionsEnd == pc # "idle" ~> pc = "idle"
=============================================================================
