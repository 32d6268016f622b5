------------------------------- MODULE Namespace -------------------------------
(***************************************************************************)
(* The namespace operations of webdav_network.c: network_mkdir (MKCOL),    *)
(* network_create (an empty PUT), network_remove and network_rmdir (both   *)
(* through network_delete), network_dir_is_empty (a Depth 1 PROPFIND) and  *)
(* network_rename (MOVE), and network_lookup and network_getattr (a Depth  *)
(* 0 PROPFIND through network_stat), each sent through send_transaction's loop: the   *)
(* credentials step, the one EPIPE retry, 401 challenges and               *)
(* translate_status_to_error.                                              *)
(*                                                                         *)
(* The server's namespace is three paths: a directory D, a member M of D   *)
(* that only another client creates, and a file S of this client.  The    *)
(* server applies a request atomically; the response may then be lost on  *)
(* the way back, and the EPIPE retry sends the request again.              *)
(***************************************************************************)
EXTENDS Integers, WebDAVStatus

CONSTANTS
    MaxChallenges   \* 401 challenges the server sends in one transaction

Paths == {"D", "M", "S"}
Kinds == {"none", "file", "dir"}

\* The server states this model starts from: M exists only inside a
\* directory D.
Consistent(k) == k["M"] # "none" => k["D"] = "dir" /\ k["M"] = "file"

\* The calls, with network_rename split by its destination: S itself or D.
Ops == {"mkdir", "create", "remove", "rmdir", "rename", "rename_self",
        "lookup", "getattr"}

\* The requests a network_* function sends, in the order it sends them.
Requests == {"isempty", "mkcol", "put", "delete", "move", "stat"}

Errors == {"OK", "ENOENT", "EINVAL", "ENOTEMPTY", "ENXIO", "EACCES"}

VARIABLES
    kind,               \* the server's namespace: what each path is
    op,                 \* the network_* function running
    pc,                 \* "idle" or the request in flight
    statusCode,         \* send_transaction's statusCode: 0 or 401
    retryTransaction,   \* send_transaction's retryTransaction
    challenges,         \* 401s received in this transaction
    result,             \* what the last network_* call returned
    statKind            \* the type network_stat last reported for D and S

loop == <<pc, statusCode, retryTransaction, challenges, result>>
caller == <<op, statKind>>
vars == <<kind, caller, loop>>

TypeOK ==
    /\ kind \in [Paths -> Kinds]
    /\ op \in Ops
    /\ pc \in {"idle"} \cup Requests
    /\ statusCode \in {0, 401}
    /\ retryTransaction \in BOOLEAN
    /\ challenges \in 0..MaxChallenges
    /\ result \in {"none"} \cup Errors
    /\ statKind \in [{"D", "S"} -> Kinds]

Init ==
    /\ kind \in {k \in [Paths -> Kinds] : Consistent(k) /\ k["S"] # "dir"}
    /\ op = "mkdir"
    /\ pc = "idle"
    /\ statusCode = 0 /\ retryTransaction = TRUE /\ challenges = 0
    /\ result = "none"
    /\ statKind = [p \in {"D", "S"} |-> kind[p]]

-----------------------------------------------------------------------------
(* The calls                                                               *)

\* send_transaction's locals: statusCode = 0, retryTransaction = TRUE.
Send(request) ==
    /\ pc' = request
    /\ statusCode' = 0 /\ retryTransaction' = TRUE /\ challenges' = 0
    /\ UNCHANGED result

\* The network_* function returns err to the cache layer.
Return(err) ==
    /\ pc' = "idle" /\ result' = err
    /\ UNCHANGED <<statusCode, retryTransaction, challenges>>

\* network_mkdir: MKCOL on the parent's URL plus the name.
StartMkdir ==
    /\ pc = "idle"
    /\ op' = "mkdir" /\ Send("mkcol")
    /\ UNCHANGED <<kind, statKind>>

\* network_create: PUT with an empty body, no If-None-Match.
StartCreate ==
    /\ pc = "idle"
    /\ op' = "create" /\ Send("put")
    /\ UNCHANGED <<kind, statKind>>

\* network_remove: network_delete on the file's URL.
StartRemove ==
    /\ pc = "idle"
    /\ op' = "remove" /\ Send("delete")
    /\ UNCHANGED <<kind, statKind>>

\* network_rmdir: network_dir_is_empty first.
StartRmdir ==
    /\ pc = "idle"
    /\ op' = "rmdir" /\ Send("isempty")
    /\ UNCHANGED <<kind, statKind>>

\* network_rename of S.  The destination is S itself (nothing to do, 0),
\* or D.  The cache layer passes D as to_node when its last lookup found
\* it, and network_dir_is_empty runs first when that node is a directory;
\* otherwise it passes to_dir_node and a name.
StartRename ==
    /\ pc = "idle"
    /\ \/ op' = "rename_self" /\ Return("OK")
       \/ op' = "rename" /\ Send(IF statKind["D"] = "dir" THEN "isempty" ELSE "move")
    /\ UNCHANGED <<kind, statKind>>

\* network_lookup: network_stat on the parent's URL plus the name D.
StartLookup ==
    /\ pc = "idle"
    /\ op' = "lookup" /\ Send("stat")
    /\ UNCHANGED <<kind, statKind>>

\* network_getattr: network_stat on the node's URL, S.
StartGetattr ==
    /\ pc = "idle"
    /\ op' = "getattr" /\ Send("stat")
    /\ UNCHANGED <<kind, statKind>>

-----------------------------------------------------------------------------
(* send_transaction's loop                                                 *)

\* authcache_apply fails after a challenge: the loop breaks with its error.
AuthFails ==
    /\ pc # "idle" /\ statusCode = 401
    /\ Return("EACCES")
    /\ UNCHANGED <<kind, caller>>

\* Mutant: the EAGAIN of the retry is returned to the caller.
StreamError_no_loop ==
    \/ retryTransaction /\ Return("EAGAIN")
    \/ Return("ENXIO")

\* Mutant: the loop's locals are set on every pass, so a retry starts
\* again with retryTransaction TRUE.
StreamError_fresh_locals ==
    \/ retryTransaction /\ Send(pc)
    \/ Return("ENXIO")

\* stream_transaction fails: a POSIX EPIPE is retried once (EAGAIN,
\* statusCode = 0); anything else, or a second EPIPE, is ENXIO.
StreamError ==
    \/ /\ retryTransaction
       /\ retryTransaction' = FALSE /\ statusCode' = 0
       /\ UNCHANGED <<pc, challenges, result>>
    \/ Return("ENXIO")

\* The request is lost before the server acts on it.
TransportError ==
    /\ pc # "idle"
    /\ StreamError
    /\ UNCHANGED <<kind, caller>>

\* A 401: the loop applies credentials and sends the request again.
Challenge ==
    /\ pc # "idle" /\ challenges < MaxChallenges
    /\ statusCode' = 401 /\ challenges' = challenges + 1
    /\ UNCHANGED <<kind, caller, pc, retryTransaction, result>>

-----------------------------------------------------------------------------
(* The server's answers.  A response is read (the loop ends and the        *)
(* function goes on) or lost after the server acted (StreamError).         *)

\* The path a DELETE is sent to: the file for network_remove, the
\* directory for network_rmdir.
Target(o) == IF o = "remove" THEN "S" ELSE "D"

\* network_dir_is_empty: the number of entries parse_file_count finds in
\* the Depth 1 multistatus; more than one (the directory itself) is
\* ENOTEMPTY.
DirIsEmpty(k) ==
    LET count == 1 + (IF k["D"] = "dir" /\ k["M"] # "none" THEN 1 ELSE 0) IN
    IF count > 1 THEN "ENOTEMPTY" ELSE "OK"

\* After an empty check, network_rmdir sends the DELETE and network_rename
\* the MOVE.
AfterCheck(o) == Send(IF o = "rmdir" THEN "delete" ELSE "move")

\* The PROPFIND answers 404 for a missing directory, else 207.
IsEmptyResponse ==
    LET err == IF kind["D"] = "none" THEN translate_status_to_error(404)
               ELSE DirIsEmpty(kind) IN
    /\ pc = "isempty"
    /\ \/ /\ err = "OK"
          /\ AfterCheck(op)
       \/ err # "OK" /\ Return(err)
       \/ StreamError
    /\ UNCHANGED <<kind, caller>>

\* MKCOL: 201 creates the collection; 405 when the path is mapped.
MkcolResponse ==
    LET status == IF kind["D"] = "none" THEN 201 ELSE 405 IN
    /\ pc = "mkcol"
    /\ kind' = IF status = 201 THEN [kind EXCEPT !["D"] = "dir"] ELSE kind
    /\ Return(translate_status_to_error(status)) \/ StreamError
    /\ UNCHANGED caller

\* PUT: 201 or 204, the file is created or truncated.
PutResponse ==
    /\ pc = "put"
    /\ kind' = [kind EXCEPT !["S"] = "file"]
    /\ Return(translate_status_to_error(201)) \/ StreamError
    /\ UNCHANGED caller

\* DELETE: 404 when the path is unmapped, else 204; a collection goes
\* with its members (Depth infinity).
DeleteResponse ==
    LET t == Target(op)
        status == IF kind[t] = "none" THEN 404 ELSE 204 IN
    /\ pc = "delete"
    /\ kind' = IF status = 404 THEN kind
               ELSE IF t = "D" THEN [kind EXCEPT !["D"] = "none", !["M"] = "none"]
               ELSE [kind EXCEPT !["S"] = "none"]
    /\ Return(translate_status_to_error(status)) \/ StreamError
    /\ UNCHANGED caller

\* MOVE S to D (Overwrite: T): 404 when S is unmapped; else D, with its
\* members, is replaced by S.
MoveResponse ==
    LET status == CASE kind["S"] = "none" -> 404
                    [] kind["D"] = "none" -> 201
                    [] OTHER              -> 204 IN
    /\ pc = "move"
    /\ kind' = IF status = 404 THEN kind
               ELSE [kind EXCEPT !["D"] = kind["S"], !["M"] = "none", !["S"] = "none"]
    /\ Return(translate_status_to_error(status)) \/ StreamError
    /\ UNCHANGED caller

\* The path network_stat asks about: D for the lookup, S for getattr.
StatPath(o) == IF o = "lookup" THEN "D" ELSE "S"

\* network_stat's Depth 0 PROPFIND: 404 for an unmapped path, else a 207
\* whose resourcetype parse_stat turns into the type the caller gets.
StatResponse ==
    LET p == StatPath(op)
        status == IF kind[p] = "none" THEN 404 ELSE 207 IN
    /\ pc = "stat"
    /\ \/ /\ statKind' = [statKind EXCEPT ![p] = kind[p]]
          /\ Return(translate_status_to_error(status))
       \/ StreamError /\ UNCHANGED statKind
    /\ UNCHANGED <<kind, op>>

-----------------------------------------------------------------------------
(* Another client                                                          *)

\* It stores a file in D ...
OtherAddMember ==
    /\ kind["D"] = "dir" /\ kind["M"] = "none"
    /\ kind' = [kind EXCEPT !["M"] = "file"]
    /\ UNCHANGED <<caller, loop>>

\* ... deletes it ...
OtherRemoveMember ==
    /\ kind["M"] = "file"
    /\ kind' = [kind EXCEPT !["M"] = "none"]
    /\ UNCHANGED <<caller, loop>>

\* ... and creates D.
OtherMkcol ==
    /\ kind["D"] = "none"
    /\ kind' = [kind EXCEPT !["D"] = "dir"]
    /\ UNCHANGED <<caller, loop>>

Transaction ==
    \/ AuthFails \/ TransportError \/ Challenge
    \/ IsEmptyResponse \/ MkcolResponse \/ PutResponse
    \/ DeleteResponse \/ MoveResponse \/ StatResponse

Next ==
    \/ StartMkdir \/ StartCreate \/ StartRemove \/ StartRmdir \/ StartRename
    \/ StartLookup \/ StartGetattr
    \/ Transaction
    \/ OtherAddMember \/ OtherRemoveMember \/ OtherMkcol

\* The thread in a transaction gets an answer: every CFNetwork call returns.
Spec == Init /\ [][Next]_vars /\ WF_vars(Transaction)

-----------------------------------------------------------------------------
(* Properties                                                              *)

\* Every call ends: the EPIPE retry is taken once and the authentication
\* loop ends when the server stops challenging or the credentials fail.
TransactionsEnd == pc # "idle" ~> pc = "idle"

\* network_dir_is_empty: "we don't allow deleting directories which have
\* anything in them".  A member of D disappears only when it is deleted
\* itself, never with a DELETE or a MOVE over D.
MembersKept ==
    [][kind["M"] # "none" /\ kind'["M"] = "none" => kind'["D"] = kind["D"]]_vars
=============================================================================
