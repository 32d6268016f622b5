---------------------------- MODULE CacheDownload ----------------------------
(***************************************************************************)
(* The read path of one file node.  network_open decides whether the local *)
(* cache file may be used as it is; otherwise it runs the GET transaction/ *)
(* authentication loop, with conditional headers built from the node's     *)
(* download status.  stream_get_transaction writes the first page of the   *)
(* response into the cache file and hands a longer body to a background    *)
(* download, which network_finish_download completes on another thread.   *)
(*                                                                         *)
(* The cache file is a sequence of pages, each stamped with the version of *)
(* the resource it was read from; a page is first_read_len bytes.  The     *)
(* server is the environment: it modifies the resource, answers the        *)
(* conditional requests as RFC 2616 says, and may challenge (401) or fail. *)
(***************************************************************************)
EXTENDS Integers, Sequences, WebDAVStatus

CONSTANTS
    MaxVersion,         \* bound on server-side modifications of the resource
    BodyLen,            \* length of the resource body, in pages
    MaxTime,            \* Last-Modified values are the seconds 1..MaxTime
    MaxAuth,            \* bound on the 401 challenges answered to one open
    ServerErrors,       \* failure statuses (other than 401) the server may send
    EnqueueCanFail,     \* may requestqueue_enqueue_download fail?
    gSuppressAllUI,     \* fail transactions fast while the connection is down
    NoDownload          \* model value: no background download for the node

ASSUME /\ MaxVersion \in Nat \ {0}
       /\ BodyLen \in Nat \ {0}
       /\ MaxTime \in Nat \ {0}
       /\ MaxAuth \in Nat
       /\ {EnqueueCanFail, gSuppressAllUI} \subseteq BOOLEAN

Versions == 1..MaxVersion
Times    == 1..MaxTime
NoDate   == -1      \* file_last_modified when it is unknown

\* The WEBDAV_DOWNLOAD_* values of node->file_status (the status mask part);
\* the WEBDAV_DOWNLOAD_TERMINATED bit is the separate variable terminated.
Statuses == {"never", "inprogress", "finished", "aborted"}

VARIABLES
    srvVer,             \* server: the current version of the resource
    srvLM,              \* server: Last-Modified of each version (0 = not yet)
    file_status,        \* node->file_status & WEBDAV_DOWNLOAD_STATUS_MASK
    terminated,         \* node->file_status & WEBDAV_DOWNLOAD_TERMINATED
    cache,              \* the cache file node->file_fd, page by page
    file_last_modified, \* node->file_last_modified
    fresh,              \* node->file_validated_time is within the window
    pc,                 \* the thread running network_open for the node
    result,             \* what network_open returned
    retryTransaction,   \* network_open's retryTransaction (one EPIPE retry)
    statusCode,         \* network_open's statusCode of the last response
    challenges,         \* 401 answers the server gave to this open
    dl,                 \* the background download: [ver, left] or NoDownload
    connUp              \* get_connectionstate() = WEBDAV_CONNECTION_UP

server == <<srvVer, srvLM>>
node   == <<file_status, terminated, cache, file_last_modified, fresh>>
opener == <<pc, result, retryTransaction, statusCode, challenges>>
vars   == <<server, node, opener, dl, connUp>>

Errors == {"OK", "EAGAIN", "EIO", "ENXIO", "EACCES", "EAUTH", "EPERM",
           "ENOENT", "EBUSY", "EINVAL", "ENOSPC"}

TypeOK ==
    /\ srvVer \in Versions
    /\ srvLM \in [Versions -> 0..MaxTime]
    /\ file_status \in Statuses
    /\ terminated \in BOOLEAN
    /\ cache \in Seq(Versions) /\ Len(cache) <= BodyLen
    /\ file_last_modified \in {NoDate} \cup Times
    /\ fresh \in BOOLEAN
    /\ pc \in {"idle", "get", "done"}
    /\ result \in Errors
    /\ retryTransaction \in BOOLEAN
    /\ statusCode \in 0..599
    /\ challenges \in 0..MaxAuth
    /\ dl \in [ver : Versions, left : 0..BodyLen] \cup {NoDownload}
    /\ connUp \in BOOLEAN

Init ==
    /\ srvVer = 1
    /\ srvLM = [v \in Versions |-> IF v = 1 THEN 1 ELSE 0]
    /\ file_status = "never"
    /\ terminated = FALSE
    /\ cache = <<>>
    /\ file_last_modified = NoDate
    /\ fresh = FALSE
    /\ pc = "idle"
    /\ result = "OK"
    /\ retryTransaction = TRUE
    /\ statusCode = 0
    /\ challenges = 0
    /\ dl = NoDownload
    /\ connUp = TRUE

-----------------------------------------------------------------------------
(* The server (environment).                                               *)

\* The status the server answers to a request, as RFC 2616 14.25/14.27
\* define If-Modified-Since and If-Range, or a challenge or failure.
ServerStatuses(req) ==
    LET lm == srvLM[srvVer]
        normal == CASE req.kind = "ims"   -> IF lm <= req.date THEN 304 ELSE 200
                    [] req.kind = "range" -> IF lm # req.date THEN 200
                                             ELSE IF req.from < BodyLen THEN 206
                                             ELSE 416
                    [] OTHER              -> 200
    IN  {normal} \cup ServerErrors \cup (IF challenges < MaxAuth THEN {401} ELSE {})

\* Number of body pages a response carries.
BodyPages(code, req) ==
    CASE code = 200 -> BodyLen
      [] code = 206 -> BodyLen - req.from
      [] OTHER      -> 0

\* Another client writes a new version, with a later Last-Modified second.
ServerModify ==
    /\ srvVer < MaxVersion
    /\ \E t \in Times :
         /\ t > srvLM[srvVer]
         /\ srvVer' = srvVer + 1
         /\ srvLM' = [srvLM EXCEPT ![srvVer + 1] = t]
    /\ UNCHANGED <<node, opener, dl, connUp>>

-----------------------------------------------------------------------------
(* webdav_network.c                                                        *)

\* Mutant: the validators are dated with the time of the request rather than
\* the Last-Modified the server sent (If-Modified-Since).
ConditionalRequest_ims_now ==
    CASE file_status = "never" \/ file_last_modified = NoDate ->
            [kind |-> "plain", date |-> NoDate, from |-> 0]
      [] file_status = "finished" -> [kind |-> "ims", date |-> MaxTime, from |-> 0]
      [] OTHER -> [kind |-> "range", date |-> file_last_modified, from |-> Len(cache)]

\* Mutant: the same mistake in the If-Range header of a resumed download.
ConditionalRequest_range_now ==
    CASE file_status = "never" \/ file_last_modified = NoDate ->
            [kind |-> "plain", date |-> NoDate, from |-> 0]
      [] file_status = "finished" -> [kind |-> "ims", date |-> file_last_modified, from |-> 0]
      [] OTHER -> [kind |-> "range", date |-> MaxTime, from |-> Len(cache)]

\* The conditional headers network_open adds in each pass of its loop: none
\* for a never-downloaded node (or when the date cannot be formatted, as
\* CFStringCreateRFC2616DateStringWithTimeT returns NULL for -1),
\* If-Modified-Since for a finished one, else If-Range with
\* Range: bytes=<cache length>-.
ConditionalRequest ==
    CASE file_status = "never" \/ file_last_modified = NoDate ->
            [kind |-> "plain", date |-> NoDate, from |-> 0]
      [] file_status = "finished" ->
            [kind |-> "ims", date |-> file_last_modified, from |-> 0]
      [] OTHER ->
            [kind |-> "range", date |-> file_last_modified, from |-> Len(cache)]

\* Mutant: a 200 is written at the end of the cache file, without truncating.
CacheWrite_append(code, first) ==
    IF code \in {200, 206} THEN cache \o first ELSE cache

\* What the status switch of stream_get_transaction does to the cache file
\* with the first page read: 200 truncates and writes from 0, 206 appends at
\* EOF, 304 and anything else leave it.
CacheWrite(code, first) ==
    CASE code = 200 -> first
      [] code = 206 -> cache \o first
      [] OTHER      -> cache

\* An open or read of the stream failed: one EPIPE is retried (EAGAIN) when
\* retryTransaction is still set; any other error marks the connection down.
StreamError(err) ==
    \/ /\ retryTransaction
       /\ err = "EAGAIN"
       /\ retryTransaction' = FALSE
       /\ UNCHANGED connUp
    \/ /\ err = "ENXIO"
       /\ connUp' = FALSE
       /\ UNCHANGED retryTransaction

\* Mutant: the status is set but the stream is never queued for a download.
HandOff_unqueued(pages, err) ==
    /\ file_status' = "inprogress"
    /\ dl' = dl /\ err = "OK"

\* The hand-off of a body longer than the first read (background_load): the
\* status becomes in-progress, then requestqueue_enqueue_download passes the
\* stream to a download thread; when it fails the stream is released and
\* EIO returned, the status left as it is.
HandOff(pages, err) ==
    /\ file_status' = "inprogress"
    /\ \/ dl' = [ver |-> srvVer, left |-> pages - 1] /\ err = "OK"
       \/ EnqueueCanFail /\ dl' = dl /\ err = "EIO"

\* stream_get_transaction returns err and, when err = "OK", the response's
\* status code.  A body longer than first_read_len (or one whose stream is
\* not yet at its end) is handed off: file_status becomes in-progress before
\* requestqueue_enqueue_download is called.  Every other response marks the
\* node finished, whatever its status code.
stream_get_transaction(req, err, code) ==
    \/ /\ gSuppressAllUI /\ ~connUp
       /\ err = "EIO" /\ code = 0
       /\ UNCHANGED <<file_status, terminated, cache, dl, connUp, retryTransaction>>
    \/ /\ ~gSuppressAllUI \/ connUp
       /\ code = 0
       /\ StreamError(err)
       /\ UNCHANGED <<file_status, terminated, cache, dl>>
    \/ /\ ~gSuppressAllUI \/ connUp
       /\ code \in ServerStatuses(req)
       /\ \E atEnd \in BOOLEAN :
          LET pages == BodyPages(code, req)
              first == IF pages > 0 THEN <<srvVer>> ELSE <<>>
              background_load == /\ code \in {200, 206}
                                 /\ pages > 0
                                 /\ pages > 1 \/ ~atEnd
          IN  /\ cache' = CacheWrite(code, first)
              /\ connUp' = TRUE
              /\ IF background_load
                 THEN HandOff(pages, err)
                 ELSE /\ file_status' = "finished"
                      /\ dl' = dl /\ err = "OK"
       /\ UNCHANGED <<terminated, retryTransaction>>

\* network_open, before its loop: a read open of a finished node validated
\* within the window uses the cache file without asking the server.  A write
\* open skips the server only for a node this client just created
\* (NODE_FILE_RECENTLY_CREATED), which the node here, found on the server,
\* is not; get_from_attributes_cache only serves AppleDouble files.
network_open ==
    /\ pc = "idle"
    /\ file_status # "inprogress"
    /\ \E write_access \in BOOLEAN :
         LET use_cache == ~write_access /\ file_status = "finished" /\ fresh
         IN  \/ /\ use_cache
                /\ pc' = "done" /\ result' = "OK"
                /\ UNCHANGED <<retryTransaction, statusCode, challenges>>
             \/ /\ ~use_cache
                /\ pc' = "get"
                /\ retryTransaction' = TRUE /\ statusCode' = 0 /\ challenges' = 0
                /\ UNCHANGED result
    /\ UNCHANGED <<server, node, dl, connUp>>

\* One pass of network_open's transaction/authentication loop, and when the
\* loop ends, the code after it: 304 counts as 200, and on success the node
\* is validated now and takes the response's Last-Modified.
network_open_transaction ==
    /\ pc = "get"
    /\ \/ /\ statusCode \in AuthCodes          \* authcache_apply gives up
          /\ pc' = "done" /\ result' = "EACCES"
          /\ UNCHANGED <<retryTransaction, statusCode, challenges, node, dl, connUp>>
       \/ \E err \in Errors, code \in {0} \cup ServerStatuses(ConditionalRequest) :
          /\ stream_get_transaction(ConditionalRequest, err, code)
          /\ \/ /\ err = "EAGAIN"
                /\ statusCode' = 0
                /\ UNCHANGED <<pc, result, challenges, fresh, file_last_modified>>
             \/ /\ err \notin {"OK", "EAGAIN"}
                /\ pc' = "done" /\ result' = err
                /\ UNCHANGED <<statusCode, challenges, fresh, file_last_modified>>
             \/ /\ err = "OK" /\ code \in AuthCodes
                /\ statusCode' = code /\ challenges' = challenges + 1
                /\ UNCHANGED <<pc, result, fresh, file_last_modified>>
             \/ /\ err = "OK" /\ code \notin AuthCodes
                /\ LET e == translate_status_to_error(IF code = 304 THEN 200 ELSE code)
                   IN  /\ pc' = "done" /\ result' = e /\ statusCode' = code
                       /\ IF e = "OK"
                          THEN fresh' = TRUE /\ file_last_modified' = srvLM[srvVer]
                          ELSE UNCHANGED <<fresh, file_last_modified>>
                /\ UNCHANGED challenges
    /\ UNCHANGED server

\* The end of a background download: the caller of network_finish_download
\* marks the node finished when it returned 0 and aborted when it returned
\* EIO, and clears the terminated bit.
DownloadEnds(ok) ==
    /\ file_status' = IF ok THEN "finished" ELSE "aborted"
    /\ terminated' = FALSE
    /\ dl' = NoDownload

\* One pass of network_finish_download's loop on the download's thread.
\* Once the terminated bit is set, a last one-byte read tells whether the
\* body was complete (0 bytes) or not; a failed read or write aborts.
network_finish_download ==
    /\ dl # NoDownload
    /\ \/ /\ terminated
          /\ DownloadEnds(dl.left = 0)
          /\ UNCHANGED cache
       \/ /\ ~terminated /\ dl.left > 0
          /\ cache' = Append(cache, dl.ver)
          /\ dl' = [dl EXCEPT !.left = @ - 1]
          /\ UNCHANGED <<file_status, terminated>>
       \/ /\ ~terminated /\ dl.left = 0
          /\ DownloadEnds(TRUE)
          /\ UNCHANGED cache
       \/ /\ DownloadEnds(FALSE)
          /\ UNCHANGED cache
    /\ UNCHANGED <<server, file_last_modified, fresh, opener, connUp>>

-----------------------------------------------------------------------------
(* The cache layer and the clock (environment).                            *)

\* The cache layer asks a download to stop (sets WEBDAV_DOWNLOAD_TERMINATED).
TerminateDownload ==
    /\ file_status = "inprogress" /\ ~terminated
    /\ terminated' = TRUE
    /\ UNCHANGED <<server, file_status, cache, file_last_modified, fresh,
                   opener, dl, connUp>>

\* Time passes: the node's validation falls out of the freshness window.
ValidationExpires ==
    /\ fresh
    /\ fresh' = FALSE
    /\ UNCHANGED <<server, file_status, terminated, cache, file_last_modified,
                   opener, dl, connUp>>

\* The kernel is done with the open's result and may open the file again.
OpenFinished ==
    /\ pc = "done"
    /\ pc' = "idle"
    /\ UNCHANGED <<server, node, result, retryTransaction, statusCode,
                   challenges, dl, connUp>>

Next ==
    \/ network_open
    \/ network_open_transaction
    \/ network_finish_download
    \/ ServerModify
    \/ TerminateDownload
    \/ ValidationExpires
    \/ OpenFinished

\* The download runs on a request thread taken from the request queue,
\* which serves every queued request.
Fairness == WF_vars(network_finish_download)

Spec == Init /\ [][Next]_vars /\ Fairness

-----------------------------------------------------------------------------
(* Properties                                                              *)

SingleVersion(c) == \A i, j \in DOMAIN c : c[i] = c[j]

Complete(c) == Len(c) = BodyLen /\ SingleVersion(c)

\* A network_open step that returns success.
ReturnsSuccess == pc # "done" /\ pc' = "done" /\ result' = "OK"

\* The cache file never mixes pages of two versions of the resource: the
\* 200 path truncates before writing, and a 206 only continues the version
\* whose Last-Modified the If-Range date names (stream_get_transaction).
CacheSingleVersion == SingleVersion(cache)

\* When network_open returns success after asking the server, the pages in
\* the cache file and the pages still to come from the background download
\* are all of the version the server held when it answered (a 304 after
\* If-Modified-Since, a 206 after If-Range and a 200 all bring it up to date).
RevalidatedIsCurrent ==
    [][ pc = "get" /\ pc' = "done" /\ result' = "OK" =>
          /\ \A i \in DOMAIN cache' : cache'[i] = srvVer
          /\ dl' # NoDownload => dl'.ver = srvVer ]_vars

\* A download handed off by stream_get_transaction always ends: the node
\* leaves the in-progress status (network_finish_download and its caller).
DownloadSettles == file_status = "inprogress" ~> file_status # "inprogress"

\* Whenever network_open returns success, the file it lets the kernel read is
\* the whole body: the cache file is complete and marked finished, or it is
\* a prefix that the running background download completes.
Serves ==
    \/ file_status = "finished" /\ Complete(cache)
    \/ /\ file_status = "inprogress" /\ dl # NoDownload
       /\ Len(cache) + dl.left = BodyLen
       /\ \A i \in DOMAIN cache : cache[i] = dl.ver
OpenServesCompleteFile == [][ReturnsSuccess => Serves']_vars

\* A node marked in-progress has a background download that will settle it
\* (stream_get_transaction sets the status before the hand-off).
InProgressOwned == file_status = "inprogress" => dl # NoDownload
=============================================================================
