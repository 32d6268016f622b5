# TLA+ models of the webdavfs mount helper's network layer

This directory holds TLA+ models of `src/mount.tproj/webdav_network.c`, the
HTTP/WebDAV layer of the webdavfs mount helper. The repository's other source
file, `src/mount.tproj/getmntopts.c`, is not modelled (see "Not modelled").
The models are checked with TLC. Every definition
is translated from the C source. The few behaviours whose code is outside
`src/` (the request queue's download thread, for one) are modelled from
`spec.md` and marked `spec_modelled` in `PROJECT.json`.

## The system

The mount helper serves the kernel's vnode operations. Each operation is
handled by one thread of a request queue. It calls a `network_*` function,
which builds an HTTP request, sends it through CFNetwork and translates the
answer. These are the parts (spec sections A–J):

| Part | Code | State | Interacts with |
|---|---|---|---|
| Initialisation | `network_init`, `InitUserAgentHeaderValue`, `InitXSourceIdHeaderValue`, `get_first_read_len` | header strings, `first_read_len`, the `gReadStreams` pool | everything |
| Proxy watcher | `network_get_proxy_settings`, `network_update_proxy`, `set_global_stream_properties` | proxy dictionary, `gNetworkGlobals_lock` | every stream open |
| Stream pool | `get_ReadStreamRec`, `release_ReadStreamRec`, `open_stream_for_transaction` | `gReadStreams[]` (inUse, stream, uniqueValue), `gReadStreamRecLock` | all transactions, background downloads |
| TLS trust | `HandleSSLErrors`, `ConfirmCertificate`, `ApplySSLProperties` | `gSSLPropertiesDict` (only ever loosened) | stream opens, the certificate UI process |
| Transactions | `send_transaction`, `stream_transaction`, `stream_transaction_from_file`, `stream_get_transaction` | retryTransaction, connection state, auth generation | stream pool, authcache |
| Status mapping | `translate_status_to_error` | none | every operation |
| File download | `network_open`, `network_finish_download` | node `file_status`, the cache file, `file_last_modified`, `file_validated_time` | stream pool, request queue, cache layer |
| PROPFIND ops | `network_stat`, `network_lookup`, `network_getattr`, `network_dir_is_empty`, `network_readdir`, `network_statfs`, `network_getDAVLevel`, `network_mount` | attribute cache | XML parser (not in `src/`) |
| Write ops | `network_fsync`, `network_create`, `network_mkdir`, `network_delete`, `network_remove`, `network_rmdir`, `network_rename` | node validators, lock token | the file cache |
| Locks | `network_lock`, `network_unlock` | node `file_locktoken` | the lock-refresh thread |
| Reads | `network_read` | none | server Range support |
| Header lexers | `SkipLWS`, `SkipToken`, `SkipCodedURL`, `ParseDAVLevel`, date parsing | none | DAV-level detection |
| Mount options | `getmntopts` (`getmntopts.c`) | `getmnt_silent`, flags | mount command line |

Hard behaviours in the code:
- Interleavings: the download thread and the cache layer share
  `node->file_status`; N request threads share the stream pool and the TLS
  dictionary.
- Retries: the one EPIPE retry and the unbounded 401/407 loop.
- Validators: the conditional GET (If-Modified-Since / If-Range) and the
  freshness window.
- Partial failure: the hand-off to a background download can fail part way.
- Check-then-act against other clients: `network_rmdir` and `network_rename`
  check a directory in one request and delete or replace it in another.

## Modules

### `WebDAVStatus`

`translate_status_to_error` (webdav_network.c 884–948) is an operator: a CASE
on the hundreds digit with a nested CASE for 4xx. The 414 fall-through is kept:
414 is in `BusyCodes`. `FileWrite` uses it for every response it models.

### `CacheDownload`, `MC_CacheDownload`

This is the read path of one file node, with the server as the environment.

- **State.** `file_status` and `terminated` are the status mask and the
  TERMINATED bit of `node->file_status`. `cache` is the cache file as a
  sequence of pages, each stamped with the server version it came from (a page
  is `first_read_len` bytes). `file_last_modified` is kept as is. `fresh`
  stands for "`file_validated_time` is within the window". `pc`, `result`,
  `retryTransaction`, `statusCode` and `challenges` are the state of the thread
  in `network_open`. `dl` is the background download: the version its stream
  carries and the pages it has left. `connUp` is the connection state.
- **Actions.**
  - `network_open` is the freshness decision (2849–2893).
  - `network_open_transaction` is one pass of the transaction/authentication
    loop (2895–3013) and the code after it (3015–3091).
  - `ConditionalRequest` builds the headers of each pass (2939–2977).
  - `stream_get_transaction` is the whole of that function:
    - the fast failure while the connection is down;
    - the EPIPE retry or ENXIO (`StreamError`);
    - the status switch (`CacheWrite`);
    - the hand-off or the FINISHED marking;
    - the failure of `requestqueue_enqueue_download`.
  - `network_finish_download` is one pass of its loop: a final 1-byte read
    after termination, a page appended, EOF, or a failed read or write.
  - `DownloadEnds` is what the download thread does with the result
    (spec_modelled).
- **Environment.** `ServerModify` makes a new version with a Last-Modified
  second. `ServerStatuses` answers as RFC 2616 defines If-Modified-Since and
  If-Range, or with a 401 challenge or a server error. `TerminateDownload` is
  the cache layer. `ValidationExpires` is the clock. `OpenFinished` lets the
  kernel open again.
- **Fairness.** `WF_vars(network_finish_download)` only. A handed-off download
  runs on a request-queue thread. The queue serves every queued request, and
  the loop never blocks forever: every read returns bytes, EOF or an error.
  Nothing else is fair. The server may stop answering, and nobody has to open
  the file.

### `CacheDownload` properties

- `CacheSingleVersion`: the cache file never holds pages of two versions.
- `RevalidatedIsCurrent`: when an open that asked the server succeeds, every
  cached page and the download in flight carry the server's current version.
- `DownloadSettles`: an in-progress node always leaves in-progress.
- `OpenServesCompleteFile`: a successful open serves a complete single-version
  file, or a prefix that the running download completes.
- `InProgressOwned`: an in-progress node has a download.

### `StreamPool`, `SlotLease`, `MC_StreamPool`

This is the `gReadStreams` pool shared by the request threads, the pulse
thread and the request-queue workers that finish handed-off downloads.

- **State.**
  - `inUse` and `stream` are the two fields of each slot. A stream is named
    by the thread that opened it.
  - `connectionClose` is each slot's `connectionClose` field.
  - `pc`, `kind`, `slot` and `retry` are each thread's place in a
    transaction: its variant, the slot it holds and `retryTransaction`.
  - `queued` holds the slots handed to the request queue. `dlStream` is the
    stream each download reads.
  - `connUp` is the connection state.
- **Actions.**
  - `get_ReadStreamRec` is the fast failure while the connection is down,
    NULL, or the scan under the mutex (`PickSlot`, 985–1009).
  - `open_stream_for_transaction` is the open and the replacement of the
    slot's old stream.
  - `stream_transaction` is the whole-response read with its error close and
    `Connection: close`.
  - `stream_get_transaction` is the first read and the hand-off
    (`HandOff`).
  - `TakeDownload` (spec_modelled) and `network_finish_download` are the
    worker's side.
- **Refinement.** `SlotLease` is the abstract discipline. Each slot is free
  or leased to exactly one holder: a thread or the queue. A lease is taken
  only on a free slot, and a thread never holds two. `LeaseOf` maps the pool
  and the threads' `slot` to a lease. `LeaseRefinement` checks
  `Lease!Spec` as a PROPERTY.
- **Properties.**
  - `HolderStreamIntact`: whoever reads from a slot reads the stream it
    opened or was handed.
  - `SlotsReturn`: every leased slot is eventually released.
- **Fairness.**
  - Weak fairness on each thread's steps: a thread in a transaction always
    proceeds, because CFNetwork calls return.
  - Strong fairness, per slot, on some worker taking that slot's queued
    download. The request queue is FIFO, so a download queued behind other
    work is eventually served, even while other downloads keep arriving.
- **Bounds.** One request thread plus the pulse thread, so two slots. With
  two request threads the state space runs past 30 minutes. One worker, and
  `gSuppressAllUI` TRUE so the fast failure path exists.

### `SSLTrust`, `MC_SSLTrust`

This covers `gSSLPropertiesDict`, `ApplySSLProperties`, `HandleSSLErrors` and
`ConfirmCertificate`, with the transaction variants that consult them.

- **State.**
  - The server's TLS `problems` are chosen in Init.
  - The dictionary is a pointer `gSSL` (0 for NULL) into `dicts`, the key
    sets of the dictionaries created so far. This makes the unlocked
    check-then-create of line 1281 visible.
- **Actions.** Each thread goes through these steps:
  - `StartRequest` picks the variant: `stream_transaction`, GET or PUT.
  - `Handshake` opens with the current properties. A TLS error surfaces on
    the open or on the first read.
  - `HandleSSLErrors_classify`, `_create` and `_check` are the three steps
    of `HandleSSLErrors` that touch the shared pointer.
  - `ConfirmCertificate` is the user's answer.
  - `SSLReturn` is what the caller does with the result. EAGAIN retries.
    `open_stream_for_transaction` turns the rest into ENXIO, while
    `stream_transaction` keeps ECANCELED.
- **Properties.**
  - `TypeOK`: besides the types, EAGAIN and EIO never reach the caller.
  - `BagMonotone`: a recorded fallback or exception stays. It is checked
    only in the two-thread run `ssl_dict_race`, where TLC finds it
    violated. With one thread every write to the dictionary is a union, so
    the property would hold by construction. The pass run does not check it.
  - `TransactionsEnd`: the EAGAIN loop ends, because each retry records a key
    that was not set.
- **Fairness.** Weak fairness per thread. The UI helper always exits.

### `FileWrite`, `MC_FileWrite`

This is the write-through of one file node: `network_fsync`, `network_lock`
(a fresh lock, or a refresh) and `network_unlock`. Each runs the
transaction/authentication loop of `send_transaction` (or its copy inside
`network_fsync`). The server is the environment, and a second client writes
and locks the same resource. The server may also end this client's lock on
its own (`LockLapses`). This happens when the LOCK's Timeout runs out before
the refresh thread's refresh arrives, or when the lock is broken.

- **State.**
  - The server: `sver` is its current version and `author` says who wrote
    each version. `slock` is its lock (`LockFree`, `OtherHolds`, or one of
    our tokens), and `ntok` counts the tokens issued to us.
    `putValidators` says whether its PUT responses carry Last-Modified or
    ETag. It is chosen in Init. `expired` holds our tokens whose lock the
    server ended on its own. `lapsed` records that this happened during the
    last fsync.
  - The node: `file_locktoken` (0 is NULL), `file_last_modified` (a
    validator is modelled as the version it names; -1 is none), and
    `lastFsync`, what the last fsync returned.
  - The loop: `pc` is the request in flight. `statusCode`,
    `retryTransaction` and `challenges` are the loop's locals. `result` is
    what the last `network_*` call returned.
- **Actions.**
  - `StartFsync`, `StartLock` and `StartUnlock` set up a loop (`Begin`).
    Fsync runs only under a lock when `WriteLocked`.
  - `AuthFails` is `authcache_apply` failing after a challenge.
    `Challenge` is a 401.
  - `TransportError` and `StreamError` cover a request or response lost on
    the stream: the one EPIPE retry, then ENXIO.
  - `PutResponse` is the PUT with the If header (`PutAllowed`). It gives
    201; or 412 (EINVAL) when the token names no current lock; or 423
    (EBUSY) when another lock holds the resource. `PutDelivered` takes the
    validators, or starts the follow-up PROPFIND.
  - `PropfindResponse` takes the validators the PROPFIND returns. When it
    fails, fsync still returns 0, with `file_last_modified` -1 (`Fail`).
  - `LockResponse`, `RefreshResponse` and `UnlockResponse` are the three
    lock requests. A token is stored only when the LOCK response is read.
    `network_unlock` frees the token whatever happened.
  - The server acts atomically on each request. Its response may then be
    lost, so a retry repeats what was already done.
  - `OtherWrite`, `OtherLock` and `OtherUnlock` are the second client.
  - `LockExpires` is the server ending our lock. The node learns of it only
    from a refused refresh (412). `network_lock` then keeps the token
    (line 3728).
- **Properties.**
  - `ValidatorsNameOurWrite`: after a successful fsync, the node's
    validators name a version this client wrote. This is stated for fsyncs
    during which our lock held. Without that condition, TLC finds a lapse
    between the PUT and the PROPFIND, followed by the other client's write:
    the same race as finding 5, made possible by a lock timeout.
  - `TokenIsServerLock`: between operations, a token the node keeps is the
    server's lock, or one the server ended on its own. It is never a lock
    that a lost UNLOCK response left behind.
  - `TransactionsEnd`: every transaction loop ends.
- **Fairness.** `WF_vars(Transaction)`: the thread in a transaction gets an
  answer, because every CFNetwork call returns. Starting operations, and the
  other client, are not fair.
- **Bounds.** 3 versions, 2 tokens and 1 challenge per transaction, about
  500,000 states in a minute. This is enough for:
  - a PUT retried after a lost response;
  - another client's write between our PUT and the PROPFIND;
  - a lock, a lost LOCK response and a second lock;
  - a lapse in every phase of an fsync, followed by a refused refresh and
    an unlock.

### `Namespace`, `MC_Namespace`

This covers the namespace operations: `network_mkdir` (MKCOL), `network_create`
(an empty PUT), `network_remove` and `network_rmdir` (through `network_delete`),
`network_dir_is_empty` (a Depth 1 PROPFIND), `network_rename` (MOVE), and
`network_lookup` and `network_getattr` (a Depth 0 PROPFIND through
`network_stat`). Each request goes through `send_transaction`'s loop.

- **State.**
  - `kind` is the server's namespace over three paths: a directory `D`, a
    member `M` of `D` that only another client creates, and our file `S`.
  - `op` is the `network_*` function running. `pc` is the request in flight.
  - `statusCode`, `retryTransaction` and `challenges` are the loop's locals.
  - `result` is what the call returned.
  - `statKind` is the type `network_stat` last reported for `D` and `S`: what
    the cache layer knows when it next calls `network_rename`.
- **Actions.**
  - `StartMkdir`, `StartCreate`, `StartRemove`, `StartRmdir` and
    `StartRename` are the functions up to their first request.
    `StartLookup` and `StartGetattr` stat `D` and `S`.
    `StartRename` follows the caller's last lookup (`statKind`). A rename
    onto itself returns 0. A destination the lookup found to be a directory
    is checked with `network_dir_is_empty` first.
  - `AuthFails`, `TransportError`, `StreamError` and `Challenge` are the loop:
    the credentials step failing, the one EPIPE retry, ENXIO, and a 401.
  - `IsEmptyResponse`, `MkcolResponse`, `PutResponse`, `DeleteResponse` and
    `MoveResponse` and `StatResponse` are the server acting on a request. Its status goes through
    `translate_status_to_error`, and the function goes on (`AfterCheck`) or
    returns. Each response may instead be lost after the server acted
    (`StreamError`), and the retry sends the request again.
  - `OtherAddMember`, `OtherRemoveMember` and `OtherMkcol` are another client.
- **Properties.**
  - `TypeOK`: besides the types, EAGAIN never escapes `send_transaction`'s
    loop.
  - `TransactionsEnd`: every call ends, across rmdir's and rename's two
    requests.
  - `MembersKept`: a member of `D` disappears only by its own deletion, never
    with a DELETE or MOVE over `D`. This is the promise of
    `network_dir_is_empty`'s comment.
  - No property states that a call returning 0 did its work. In this
    server, every 0 comes in the same step as the change it reports, so
    such a property would hold by construction. The code's one false
    success is a 207 to a DELETE, which `translate_status_to_error` maps to
    0, and the server here never sends it (see "Not modelled"). A retry
    after a lost response can report 405 or 404 for work that was done.
    This is listed as a hazard with no property: nothing in the code or the
    spec says what such a call should report.
- **Fairness.** `WF_vars(Transaction)`: a request in flight gets an answer or
  an error, because every CFNetwork call returns. The other client and the
  caller are not fair.
- **Bounds.** One 401 per transaction (`MC_MaxChallenges`). The three paths
  and every start state in which `M` lies inside a directory `D` cover a
  missing, empty and non-empty `D`, and a present and missing `S`. This gives
  about 15,000 distinct states.

### `DAVLevel`, `MC_DAVLevel`

This is `ParseDAVLevel` with `SkipLWS`, `SkipToken` and `SkipCodedURL`.

- **Lexers.** They are RECURSIVE operators on a position in the field-value,
  over the character classes they tell apart: `1`, `2` and another token
  character; `<`, `>`, `,` and another separator; SP, CR and LF. `At`
  returns NUL past the end.
- **Parse loop.** Each pass of the loop is the action `ParseElement`.
  `LoopExit` is the `while` test.
- **Initial states.**
  - every field-value of up to 4 characters (11,111 strings);
  - every well-formed list of up to 3 elements, generated from the RFC 2518
    grammar with five delimiters and optional leading LWS.
- **Properties.**
  - `LevelIsMaxListed` compares the parse with the reference: the largest of
    1 and 2 listed.
  - `ParseTerminates` requires the loop to end on every input.
- **Deadlock.** `CHECK_DEADLOCK FALSE`: a finished parse is a final state.

## Runs

| Run | Config | Expect | What it shows |
|---|---|---|---|
| `cache_download` | `MC_CacheDownload.cfg` | pass | TypeOK, CacheSingleVersion, RevalidatedIsCurrent and DownloadSettles hold with distinct Last-Modified seconds and a working queue |
| `stream_pool` | `MC_StreamPool.cfg` | pass | the pool refines `SlotLease`; readers keep their stream; every slot returns |
| `ssl_trust` | `MC_SSLTrust.cfg` | pass | with one thread and either user answer, EAGAIN and EIO never reach the caller and every transaction ends |
| `dav_level` | `MC_DAVLevel.cfg` | pass | the parse matches the reference on well-formed lists, stays in bounds and ends on every short field-value |
| `cache_truncated_after_challenge` | `MC_CacheDownload_Truncated.cfg` | violation | see finding 1 |
| `enqueue_failure_stuck` | `MC_CacheDownload_EnqueueFails.cfg` | violation | see finding 2 |
| `pool_exhausted` | `MC_StreamPool_Exhausted.cfg` | violation | see finding 3 |
| `ssl_dict_race` | `MC_SSLTrust_Race.cfg` | violation | see finding 4 |
| `file_write` | `MC_FileWrite.cfg` | pass | with fsync only under a lock that the server may end: validators name our write when the lock held, a kept token is the server's lock or one it ended, and every loop ends |
| `fsync_unlocked_validators` | `MC_FileWrite_Unlocked.cfg` | violation | see finding 5 |
| `namespace` | `MC_Namespace.cfg` | pass | under lost responses, retries, challenges and another client, EAGAIN never escapes the loop and every call of mkdir, create, remove, rmdir, rename, lookup and getattr ends |
| `rmdir_rename_destroy_members` | `MC_Namespace_Members.cfg` | violation | see finding 6 |

Each property of a passing run has a mutant in `PROJECT.json`. A mutant is
a plausible bug in a mapped definition, and TLC finds the property violated
when it is substituted.

Bounds for `MC_CacheDownload`:
- 3 versions and Last-Modified seconds 1..3, so a version can be modified
  after a partial download and then again after a revalidation;
- 2 pages, so a body can be handed off and resumed;
- 1 challenge per open;
- one server error (503).

These cover every status the switch tells apart (200, 206, 304, 401, 416,
5xx), the hand-off, termination at every page and the EPIPE retry. The run
reaches about 4,000 distinct states.

Bounds for `MC_SSLTrust`:
- The pass run uses one thread, every combination of server problems, and
  both user answers (about 17,000 states).
- The race and the other violation runs need two threads, or a single
  answer.

## Findings

1. **A challenge on a resumed download leaves a truncated file trusted.**
   `stream_get_transaction` marks the node FINISHED for any response it does
   not hand off (line 1697), 401 and 5xx included. After an aborted download,
   the reopen sends If-Range. The server answers 401. The node is now
   "finished", so the authenticated retry sends If-Modified-Since, the server
   answers 304, and `network_open` returns success with half a file. The
   validation window then lets later opens trust it without asking.
2. **Enqueue failure leaves the node in progress forever.** The status is set
   at 1689 before `requestqueue_enqueue_download`. The failure path releases
   the stream and returns EIO without resetting it.
3. **The pool can run out.** Spec 4.D says the N+1 slots always
   suffice. But a download handed off by `stream_get_transaction` keeps its
   slot in use while it waits in the queue. The request threads and the
   pulse thread can then find every slot taken, and `get_ReadStreamRec`
   returns NULL (line 1437), which gives EIO.
4. **The SSL dictionary is created without a lock.** Two threads can both
   see `gSSLPropertiesDict` NULL (line 1281). Each stores a new dictionary,
   so an exception the first recorded is lost. Spec 5 says the bag is
   monotone.
5. **An unlocked fsync can record another client's validators.** When the
   PUT response has neither Last-Modified nor ETag, `network_fsync` sends a
   separate PROPFIND (line 3382) and stores its validators. Spec: "a
   follow-up PROPFIND is issued". Another client's PUT can land between the
   two, and the node then keeps the other version's validators over our
   cache file. The next open's If-Modified-Since gets 304 and serves our
   data as current. With the file locked (`MC_FileWrite.cfg`) this cannot
   happen, unless the lock times out between the two requests.
6. **rmdir and rename can destroy another client's file.** `network_rmdir`
   checks emptiness with a PROPFIND (`network_dir_is_empty`: "we don't allow
   deleting directories which have anything in them") and then sends a
   separate DELETE (line 3563), which removes a collection with its members.
   `network_rename` sends MOVE without `Overwrite: F` and checks only a
   destination the caller's last `network_lookup` found to be a directory. A file the other
   client stores in `D` between the check (or the lookup) and the request is
   destroyed with it.

Four observations are no longer checked by a run, to keep the run list to
the questions above:
- the missing `break` after `case 414` makes Request-URI Too Long map to
  EBUSY, not ENAMETOOLONG (spec 4.H);
- a TLS error first reported on the read of a GET or PUT returns ENXIO
  without going through `HandleSSLErrors` (spec 4.G). `SSLTrust` still
  models this path;
- two server modifications within one Last-Modified second make the
  If-Range resume continue the wrong version (the ETag validator is
  commented out near line 2969); `CacheDownload`'s server now gives each
  version a later second, so `CacheSingleVersion` is checked without it;
- a declined certificate becomes ENXIO in `open_stream_for_transaction`
  (line 1446), while the comment at 1265 and `stream_transaction` keep
  ECANCELED. `SSLTrust` models both paths.

## Plan: what comes next

1. The 207 answer to a DELETE of a collection with a locked member, which
   `translate_status_to_error` maps to success.
2. `MountOptions`: `getmntopts` as an operator over small option lists,
   should a run become free.

## Not modelled

- In `Namespace`, the other client never writes `S` and never locks `M`.
  So two behaviours are out of the runs:
  - `network_create`'s PUT has no `If-None-Match`, so it can truncate a file
    stored under the name after the lookup (line 3187);
  - a DELETE that a locked member turns into a 207, which
    `translate_status_to_error` reports as success.
  Both are listed as hazards with no run.

- The proxy watcher: `network_update_proxy`, `network_get_proxy_settings`
  and `set_global_stream_properties` each run in one critical section of
  `gNetworkGlobals_lock`. Against each other and against stream opens, each
  is one atomic step. What they compute is a copy of the SCDynamicStore
  dictionary (outside `src/`). The one step after the unlock,
  `authcache_proxy_invalidate`, acts on authcache, which is not in `src/`.
- `network_read`: one ranged GET through `send_transaction` and a clamp of
  the byte count, with no state of its own. It accepts any 2xx. A server
  that ignores `Range` and answers 200 makes a read at a later offset return
  the file's first bytes. One request against such a server shows this.
- `network_readdir`, `network_statfs`, `network_mount` and
  `get_from_attributes_cache`: they fill the directory and attribute caches
  from the parse in `webdav_parse.c`, which is not under `src/`.
- `getmntopts`: a sequential `strtok` loop over the option string. It shares
  no state with the network layer, and the spec does not describe it. The
  runs are kept for the network layer's concurrent behaviour.

- Date parsing: `DateBytesToTime` and `DateStringToTime` hand the parse to
  CoreFoundation (`_CFGregorianDateCreateWithBytes`, not under `src/`) and
  `timegm`. The dates the namespace operations return are not read by any
  modelled decision.

- XML parsing of PROPFIND bodies: the parser is in `webdav_parse.c`, which is
  not under `src/`.
- The User-Agent and X-Source-Id strings: pure string formatting.
- Keychain and authcache internals: not under `src/`. They appear only as the
  outcome of `authcache_apply`.
- 407 proxy challenges, redirects and the authentication generation in the
  transaction loop: `authcache_apply` appears only as success or failure.
- A second certificate prompt from two threads in `ConfirmCertificate` at
  once. The user is asked twice; no state is lost, so no run checks it.
- The retrieval of the DAV header and its UTF-8 conversion into a 4096-byte
  buffer, which `ParseDAVLevel` does before the parse.
