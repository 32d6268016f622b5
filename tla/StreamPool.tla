------------------------------ MODULE StreamPool ------------------------------
(***************************************************************************)
(* The gReadStreams pool of webdav_network.c and the request threads that  *)
(* lease its slots.  Each request runs send_transaction's loop around      *)
(* stream_transaction (or stream_transaction_from_file, which uses the     *)
(* pool the same way), or network_open's around stream_get_transaction;    *)
(* each pass leases a slot in open_stream_for_transaction, opens a new     *)
(* stream tagged with the slot's connection number, reads the response and *)
(* returns the slot.  stream_get_transaction may instead hand the slot and *)
(* its stream to the request queue, where a worker finishes the download   *)
(* (network_finish_download) and returns the slot.                         *)
(*                                                                         *)
(* A stream is named by the thread that opened it, so a reader can tell    *)
(* its own stream from a later one opened in the same slot.                *)
(***************************************************************************)
EXTENDS Integers, FiniteSets, FiniteSetsExt

CONSTANTS
    Workers,        \* the WEBDAV_REQUEST_THREADS request threads
    Pulse,          \* the keep-alive thread
    gSuppressAllUI, \* fail transactions fast while the connection is down
    NoSlot,         \* model value: a thread holds no slot
    NoStream,       \* model value: readStreamRef = NULL
    Queued,         \* model value: the request queue as holder of a slot
    Free,           \* model value: a slot nobody holds
    Corrupt         \* model value: a slot held in a way the pool forbids

ASSUME Pulse \notin Workers /\ gSuppressAllUI \in BOOLEAN

Threads == Workers \cup {Pulse}

\* gReadStreams[WEBDAV_REQUEST_THREADS + 1]: a slot for every request
\* thread and one for the pulse thread.
gReadStreams == 0..Cardinality(Workers)

\* Mutant: the loops run one index past the end of the array.
Slots_past_end == 0..Cardinality(Workers) + 1

\* The indices network_init's and get_ReadStreamRec's loops run over.
Slots == 0..Cardinality(Workers)

Phases == {"idle", "acquire", "open", "read", "download"}

VARIABLES
    inUse,          \* gReadStreams[s].inUse
    stream,         \* gReadStreams[s].readStreamRef: opener, or NoStream
    connectionClose,\* gReadStreams[s].connectionClose
    pc,             \* where each thread is
    kind,           \* "get" (stream_get_transaction) or "plain"
    slot,           \* the slot a thread holds (readStreamRecPtr)
    retry,          \* the thread's retryTransaction
    queued,         \* slots of handed-off downloads waiting in the queue
    dlStream,       \* the stream handed off with the slot
    connUp          \* get_connectionstate() = WEBDAV_CONNECTION_UP

pool    == <<inUse, stream, connectionClose>>
threads == <<pc, kind, slot, retry>>
vars    == <<pool, threads, queued, dlStream, connUp>>

TypeOK ==
    /\ inUse \in [gReadStreams -> BOOLEAN]
    /\ stream \in [gReadStreams -> Threads \cup {NoStream}]
    /\ connectionClose \in [gReadStreams -> BOOLEAN]
    /\ pc \in [Threads -> Phases]
    /\ kind \in [Threads -> {"get", "plain"}]
    /\ slot \in [Threads -> gReadStreams \cup {NoSlot}]
    /\ retry \in [Threads -> BOOLEAN]
    /\ queued \subseteq gReadStreams
    /\ dlStream \in [gReadStreams -> Threads \cup {NoStream}]
    /\ connUp \in BOOLEAN

\* network_init: no slot in use and no stream open.
Init ==
    /\ inUse = [s \in Slots |-> FALSE]
    /\ stream = [s \in Slots |-> NoStream]
    /\ connectionClose = [s \in Slots |-> FALSE]
    /\ pc = [t \in Threads |-> "idle"]
    /\ kind = [t \in Threads |-> "plain"]
    /\ slot = [t \in Threads |-> NoSlot]
    /\ retry = [t \in Threads |-> TRUE]
    /\ queued = {}
    /\ dlStream = [s \in Slots |-> NoStream]
    /\ connUp = TRUE

-----------------------------------------------------------------------------
(* The pool.                                                               *)

\* Mutant: a slot with an open stream is taken whether or not it is in use.
PickSlot_any_open ==
    LET free == {s \in Slots : ~inUse[s]}
        open == {s \in Slots : stream[s] # NoStream}
    IN  IF open # {} THEN Min(open) ELSE IF free # {} THEN Min(free) ELSE NoSlot

\* get_ReadStreamRec's scan: the first slot not in use whose stream is still
\* open, else the first slot not in use, else NULL.
PickSlot ==
    LET free == {s \in Slots : ~inUse[s]}
        open == {s \in free : stream[s] # NoStream}
    IN  IF open # {} THEN Min(open) ELSE IF free # {} THEN Min(free) ELSE NoSlot

\* Mutant: the in-use flag is not cleared.
release_ReadStreamRec_noop(s) == inUse' = inUse

release_ReadStreamRec(s) == inUse' = [inUse EXCEPT ![s] = FALSE]

\* The error path shared by the transaction functions: close and release
\* the slot's stream, then make the slot available again.
CloseAndRelease(s) ==
    /\ stream' = [stream EXCEPT ![s] = NoStream]
    /\ release_ReadStreamRec(s)

\* A stream error: the first EPIPE of a request is retried (EAGAIN), any
\* other error marks the connection down (ENXIO).  EAGAIN sends the
\* request again; an error ends it.
StreamFailed(t) ==
    \/ /\ retry[t]
       /\ retry' = [retry EXCEPT ![t] = FALSE]
       /\ pc' = [pc EXCEPT ![t] = "acquire"]
       /\ UNCHANGED connUp
    \/ /\ connUp' = FALSE
       /\ pc' = [pc EXCEPT ![t] = "idle"]
       /\ UNCHANGED retry

-----------------------------------------------------------------------------
(* The request threads.                                                    *)

\* A thread takes a new request from the queue (the pulse thread only sends
\* its own keep-alive requests, through send_transaction).
StartRequest(t) ==
    /\ pc[t] = "idle"
    /\ \E k \in IF t = Pulse THEN {"plain"} ELSE {"plain", "get"} :
          kind' = [kind EXCEPT ![t] = k]
    /\ pc' = [pc EXCEPT ![t] = "acquire"]
    /\ retry' = [retry EXCEPT ![t] = TRUE]
    /\ UNCHANGED <<pool, slot, queued, dlStream, connUp>>

\* The start of stream_transaction / stream_get_transaction and of
\* open_stream_for_transaction up to get_ReadStreamRec: a fast failure while
\* the connection is down, EIO when no slot is free, else the slot is
\* marked in use under gNetworkGlobals_lock.
get_ReadStreamRec(t) ==
    /\ pc[t] = "acquire"
    /\ \/ /\ gSuppressAllUI /\ ~connUp
          /\ pc' = [pc EXCEPT ![t] = "idle"]
          /\ UNCHANGED <<inUse, slot>>
       \/ /\ ~gSuppressAllUI \/ connUp
          /\ PickSlot = NoSlot
          /\ pc' = [pc EXCEPT ![t] = "idle"]
          /\ UNCHANGED <<inUse, slot>>
       \/ /\ ~gSuppressAllUI \/ connUp
          /\ PickSlot # NoSlot
          /\ inUse' = [inUse EXCEPT ![PickSlot] = TRUE]
          /\ slot' = [slot EXCEPT ![t] = PickSlot]
          /\ pc' = [pc EXCEPT ![t] = "open"]
    /\ UNCHANGED <<stream, connectionClose, kind, retry, queued, dlStream, connUp>>

\* open_stream_for_transaction after the slot is leased: CFReadStreamOpen of
\* the new stream.  On success the slot's old stream is closed and the new
\* one saved; on failure the new stream is released, the slot released
\* with its old stream kept, and the error goes back to the loop.
open_stream_for_transaction(t) ==
    LET s == slot[t] IN
    /\ pc[t] = "open"
    /\ \/ /\ stream' = [stream EXCEPT ![s] = t]
          /\ pc' = [pc EXCEPT ![t] = "read"]
          /\ UNCHANGED <<inUse, slot, retry, connUp>>
       \/ /\ release_ReadStreamRec(s)
          /\ slot' = [slot EXCEPT ![t] = NoSlot]
          /\ StreamFailed(t)
          /\ UNCHANGED stream
    /\ UNCHANGED <<connectionClose, kind, queued, dlStream>>

\* stream_transaction and stream_transaction_from_file after the open: the
\* whole response is read.  A read error closes the stream and releases
\* the slot; a response marks the connection up, closes the stream if the
\* server sent "Connection: close", and releases the slot.
stream_transaction(t) ==
    LET s == slot[t] IN
    /\ pc[t] = "read" /\ kind[t] = "plain"
    /\ slot' = [slot EXCEPT ![t] = NoSlot]
    /\ \/ /\ CloseAndRelease(s)
          /\ StreamFailed(t)
       \/ /\ \E close \in BOOLEAN :
                IF close THEN CloseAndRelease(s)
                ELSE release_ReadStreamRec(s) /\ UNCHANGED stream
          /\ connUp' = TRUE
          /\ pc' = [pc EXCEPT ![t] = "idle"]
          /\ UNCHANGED retry
    /\ UNCHANGED <<connectionClose, kind, queued, dlStream>>

\* Mutant: the slot is released when the download is handed off.
HandOff_release(t, s) ==
    /\ queued' = queued \cup {s}
    /\ dlStream' = [dlStream EXCEPT ![s] = stream[s]]
    /\ release_ReadStreamRec(s)
    /\ UNCHANGED stream

\* requestqueue_enqueue_download: the slot and its stream pass to the
\* queue, still in use; when the enqueue fails the stream is closed and the
\* slot released (stream_get_transaction's error path).
HandOff(t, s) ==
    \/ /\ queued' = queued \cup {s}
       /\ dlStream' = [dlStream EXCEPT ![s] = stream[s]]
       /\ UNCHANGED <<inUse, stream>>
    \/ /\ CloseAndRelease(s)
       /\ UNCHANGED <<queued, dlStream>>

\* stream_get_transaction after the open: the first read.  A read error
\* closes and releases; a response records its Connection: close in the
\* slot, and either hands the rest of the body off (background_load) or
\* marks the node finished, closes the stream if asked to, and releases.
stream_get_transaction(t) ==
    LET s == slot[t] IN
    /\ pc[t] = "read" /\ kind[t] = "get"
    /\ slot' = [slot EXCEPT ![t] = NoSlot]
    /\ \/ /\ CloseAndRelease(s)
          /\ StreamFailed(t)
          /\ UNCHANGED <<connectionClose, queued, dlStream>>
       \/ /\ \E close, background_load \in BOOLEAN :
                /\ connectionClose' = [connectionClose EXCEPT ![s] = close]
                /\ IF background_load
                   THEN HandOff(t, s)
                   ELSE /\ IF close THEN CloseAndRelease(s)
                           ELSE release_ReadStreamRec(s) /\ UNCHANGED stream
                        /\ UNCHANGED <<queued, dlStream>>
          /\ connUp' = TRUE
          /\ pc' = [pc EXCEPT ![t] = "idle"]
          /\ UNCHANGED retry
    /\ UNCHANGED kind

-----------------------------------------------------------------------------
(* Background downloads.                                                   *)

\* A worker takes the queued download of slot s (requestqueue, from the
\* spec).
TakeDownload(t, s) ==
    /\ t \in Workers /\ pc[t] = "idle" /\ s \in queued
    /\ queued' = queued \ {s}
    /\ slot' = [slot EXCEPT ![t] = s]
    /\ pc' = [pc EXCEPT ![t] = "download"]
    /\ UNCHANGED <<pool, kind, retry, dlStream, connUp>>

\* network_finish_download: it reads to the end (or to a termination) and
\* then, on success, closes the stream only if the response said
\* Connection: close; on any error or termination it closes it.  Either
\* way the slot is released.
network_finish_download(t) ==
    LET s == slot[t] IN
    /\ pc[t] = "download"
    /\ \/ /\ connectionClose[s]
          /\ CloseAndRelease(s)
       \/ /\ ~connectionClose[s]
          /\ release_ReadStreamRec(s) /\ UNCHANGED stream
       \/ CloseAndRelease(s)
    /\ dlStream' = [dlStream EXCEPT ![s] = NoStream]
    /\ slot' = [slot EXCEPT ![t] = NoSlot]
    /\ pc' = [pc EXCEPT ![t] = "idle"]
    /\ UNCHANGED <<connectionClose, kind, retry, queued, connUp>>

\* The steps a thread takes once it has a request.
Step(t) ==
    \/ get_ReadStreamRec(t)
    \/ open_stream_for_transaction(t)
    \/ stream_transaction(t)
    \/ stream_get_transaction(t)
    \/ network_finish_download(t)

Next ==
    \E t \in Threads :
        \/ StartRequest(t)
        \/ Step(t)
        \/ \E s \in Slots : TakeDownload(t, s)

\* Threads are OS threads: one with a request keeps running it.  The
\* request queue is first in, first out, so a queued download is handed to
\* a worker once workers keep coming back for work.
Fairness ==
    /\ \A t \in Threads : WF_vars(Step(t))
    /\ \A s \in Slots : SF_vars(\E t \in Workers : TakeDownload(t, s))

Spec == Init /\ [][Next]_vars /\ Fairness

-----------------------------------------------------------------------------
(* Properties                                                              *)

Owners(s) == {t \in Threads : slot[t] = s}

\* Who leases each slot, read off the pool and the threads: the one thread
\* that holds it, the queue, nobody; anything else is Corrupt.
LeaseOf(s) ==
    CASE inUse[s] /\ s \in queued /\ Owners(s) = {}   -> Queued
      [] inUse[s] /\ s \notin queued /\ Cardinality(Owners(s)) = 1 ->
            CHOOSE t \in Owners(s) : TRUE
      [] ~inUse[s] /\ s \notin queued /\ Owners(s) = {} -> Free
      [] OTHER -> Corrupt

Lease == INSTANCE SlotLease WITH lease <- [s \in Slots |-> LeaseOf(s)]

\* The pool implements the lease discipline: get_ReadStreamRec under the
\* mutex, every error path's release_ReadStreamRec, and the hand-off that
\* keeps the slot in use while it passes to the download.
LeaseRefinement == Lease!Spec

\* Whoever reads from a slot reads the stream it opened or was handed: no
\* other thread has closed it or replaced it with its own in the meantime
\* (a slot handed to a download must stay in use, spec 4.G).
HolderStreamIntact ==
    /\ \A t \in Threads : pc[t] = "read" => stream[slot[t]] = t
    /\ \A s \in queued : stream[s] = dlStream[s] /\ stream[s] # NoStream
    /\ \A t \in Threads : pc[t] = "download" => stream[slot[t]] = dlStream[slot[t]]

\* Every slot leased is eventually returned, by the thread that took it or
\* by the worker finishing its download.
SlotsReturn == \A s \in Slots : inUse[s] ~> ~inUse[s]

\* get_ReadStreamRec always finds a slot (spec 4.D: the request queue bounds
\* concurrency so that running out of slots cannot happen).
PoolNeverExhausted ==
    \A t \in Threads : pc[t] = "acquire" /\ (~gSuppressAllUI \/ connUp) =>
        PickSlot # NoSlot
=============================================================================
