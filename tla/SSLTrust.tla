------------------------------- MODULE SSLTrust -------------------------------
(***************************************************************************)
(* HandleSSLErrors and ConfirmCertificate of webdav_network.c and the      *)
(* transaction loops that consult them.  A request thread opens a stream   *)
(* with the SSL properties negotiated so far (ApplySSLProperties); when    *)
(* the handshake fails with a TLS error, HandleSSLErrors may fall back     *)
(* from TLS to SSLv3 or ask the user (through the certificate UI helper)   *)
(* to accept the certificate, record the exception in the process-wide    *)
(* gSSLPropertiesDict, and ask for the transaction to be retried (EAGAIN). *)
(*                                                                         *)
(* gSSLPropertiesDict is read and written without a lock.  It is modelled *)
(* as a pointer, gSSL (0 for NULL), to one of the dictionaries created so  *)
(* far; HandleSSLErrors reads the pointer each time it uses it.            *)
(***************************************************************************)
EXTENDS Integers, FiniteSets

CONSTANTS
    Threads,        \* request threads
    UserAnswers     \* what the user may answer in the certificate UI

ASSUME UserAnswers \subseteq BOOLEAN /\ UserAnswers # {}

\* TLS error classes, as HandleSSLErrors tells them apart: the range that
\* triggers the fallback to SSLv3; expired or not yet valid; bad
\* certificate, invalid chain or host name mismatch; unknown or missing
\* root; any other TLS error.
Classes == {"protocol", "expired", "badcert", "unknownroot", "other"}

\* The keys of gSSLPropertiesDict: kCFStreamSSLLevel,
\* kCFStreamSSLAllowsExpiredCertificates, kCFStreamSSLAllowsExpiredRoots,
\* kCFStreamSSLValidatesCertificateChain, kCFStreamSSLAllowsAnyRoot.
Keys == {"level", "expired", "expiredroots", "chain", "anyroot"}

\* The key whose presence HandleSSLErrors checks for an error class ("other"
\* has none: no key is ever "none").
KeyOf(c) ==
    CASE c = "protocol"    -> "level"
      [] c = "expired"     -> "expired"
      [] c = "badcert"     -> "chain"
      [] c = "unknownroot" -> "anyroot"
      [] OTHER             -> "none"

MaxDicts == Cardinality(Threads)

Results == {"none", "OK", "ENXIO", "ECANCELED"}

VARIABLES
    problems,   \* the TLS problems of the server's handshake
    gSSL,       \* gSSLPropertiesDict: 0 (NULL) or a dictionary
    dicts,      \* the keys set in each dictionary created
    nextDict,   \* dictionaries created so far, plus one
    pc,         \* where each thread is
    kind,       \* "plain" (stream_transaction) or "get"/"put"
    err,        \* the TLS error class the thread is handling
    at,         \* where it surfaced: CFReadStreamOpen or CFReadStreamRead
    result      \* what the last transaction of the thread returned

vars == <<problems, gSSL, dicts, nextDict, pc, kind, err, at, result>>

TypeOK ==
    /\ problems \subseteq Classes
    /\ gSSL \in 0..MaxDicts
    /\ dicts \in [1..MaxDicts -> SUBSET Keys]
    /\ nextDict \in 1..MaxDicts + 1
    /\ pc \in [Threads -> {"idle", "handshake", "classify", "create", "check", "confirm"}]
    /\ kind \in [Threads -> {"plain", "get", "put"}]
    /\ err \in [Threads -> Classes]
    /\ at \in [Threads -> {"open", "read"}]
    /\ result \in [Threads -> Results]

\* The properties in effect: the dictionary gSSLPropertiesDict points to.
Bag == IF gSSL = 0 THEN {} ELSE dicts[gSSL]

\* network_init: no SSL properties yet.  The server's problems are any
\* combination of the classes.
Init ==
    /\ problems \in SUBSET Classes
    /\ gSSL = 0
    /\ dicts = [d \in 1..MaxDicts |-> {}]
    /\ nextDict = 1
    /\ pc = [t \in Threads |-> "idle"]
    /\ kind = [t \in Threads |-> "plain"]
    /\ err = [t \in Threads |-> "other"]
    /\ at = [t \in Threads |-> "open"]
    /\ result = [t \in Threads |-> "none"]

-----------------------------------------------------------------------------

\* A handshake problem the properties applied to the stream do not excuse:
\* SSLv3 gets past the protocol failure, each exception its certificate
\* problem; nothing gets past "other".
Unexcused(c, props) == c = "other" \/ KeyOf(c) \notin props

\* A thread starts a request: send_transaction's loop (stream_transaction)
\* or one of the loops around stream_get_transaction (network_open) and
\* stream_transaction_from_file (network_fsync).
StartRequest(t) ==
    /\ pc[t] = "idle"
    /\ \E k \in {"plain", "get", "put"} : kind' = [kind EXCEPT ![t] = k]
    /\ pc' = [pc EXCEPT ![t] = "handshake"]
    /\ UNCHANGED <<problems, gSSL, dicts, nextDict, err, at, result>>

\* ApplySSLProperties: the new stream takes the current dictionary.
ApplySSLProperties == Bag

\* One pass of the loop: the stream is opened with the properties and the
\* handshake succeeds unless a problem is left unexcused.  A TLS error on
\* CFReadStreamOpen (open_stream_for_transaction) or on a read in
\* stream_transaction goes to HandleSSLErrors; a read error in
\* stream_get_transaction or stream_transaction_from_file does not: it is
\* not EPIPE, so the connection is marked down and ENXIO returned.
Handshake(t) ==
    LET open == {c \in problems : Unexcused(c, ApplySSLProperties)} IN
    /\ pc[t] = "handshake"
    /\ \/ /\ open = {}
          /\ pc' = [pc EXCEPT ![t] = "idle"]
          /\ result' = [result EXCEPT ![t] = "OK"]
          /\ UNCHANGED <<err, at>>
       \/ \E c \in open, w \in {"open", "read"} :
          IF w = "read" /\ kind[t] # "plain"
          THEN /\ pc' = [pc EXCEPT ![t] = "idle"]
               /\ result' = [result EXCEPT ![t] = "ENXIO"]
               /\ UNCHANGED <<err, at>>
          ELSE /\ pc' = [pc EXCEPT ![t] = "classify"]
               /\ err' = [err EXCEPT ![t] = c]
               /\ at' = [at EXCEPT ![t] = w]
               /\ UNCHANGED result
    /\ UNCHANGED <<problems, gSSL, dicts, nextDict, kind>>

\* Mutant: the retry code is handed back to the caller instead of looping.
SSLReturn_no_loop(t, r) ==
    /\ pc' = [pc EXCEPT ![t] = "idle"]
    /\ result' = [result EXCEPT ![t] = r]

\* What the caller does with HandleSSLErrors' result: EAGAIN sends the
\* request again.  open_stream_for_transaction turns every other result
\* into ENXIO (the error is not a POSIX EPIPE); stream_transaction keeps
\* ECANCELED and turns EIO into ENXIO.
SSLReturn(t, r) ==
    IF r = "EAGAIN"
    THEN pc' = [pc EXCEPT ![t] = "handshake"] /\ UNCHANGED result
    ELSE /\ pc' = [pc EXCEPT ![t] = "idle"]
         /\ result' = [result EXCEPT ![t] =
                          IF at[t] = "read" /\ r = "ECANCELED" THEN "ECANCELED"
                          ELSE "ENXIO"]

\* HandleSSLErrors, first test: is gSSLPropertiesDict NULL?
HandleSSLErrors_classify(t) ==
    /\ pc[t] = "classify"
    /\ pc' = [pc EXCEPT ![t] = IF gSSL = 0 THEN "create" ELSE "check"]
    /\ UNCHANGED <<problems, gSSL, dicts, nextDict, kind, err, at, result>>

\* ... then a new, empty dictionary is stored in it.
HandleSSLErrors_create(t) ==
    /\ pc[t] = "create"
    /\ gSSL' = nextDict
    /\ nextDict' = nextDict + 1
    /\ pc' = [pc EXCEPT ![t] = "check"]
    /\ UNCHANGED <<problems, dicts, kind, err, at, result>>

\* HandleSSLErrors: the fallback when kCFStreamSSLLevel is not set and the
\* error is in the protocol ranges; for a certificate class whose key is
\* not set, the certificate UI; anything else is EIO.
HandleSSLErrors_check(t) ==
    LET c == err[t] IN
    /\ pc[t] = "check"
    /\ \/ /\ c = "protocol" /\ "level" \notin Bag
          /\ dicts' = [dicts EXCEPT ![gSSL] = @ \cup {"level"}]
          /\ SSLReturn(t, "EAGAIN")
       \/ /\ c \in {"expired", "badcert", "unknownroot"} /\ KeyOf(c) \notin Bag
          /\ pc' = [pc EXCEPT ![t] = "confirm"]
          /\ UNCHANGED <<dicts, result>>
       \/ /\ c = "other" \/ KeyOf(c) \in Bag
          /\ SSLReturn(t, "EIO")
          /\ UNCHANGED dicts
    /\ UNCHANGED <<problems, gSSL, nextDict, kind, err, at>>

\* Mutant: accepting a problem records only kCFStreamSSLAllowsExpiredRoots.
KeysSetBy_roots_only(c) ==
    CASE c = "expired"     -> {"expiredroots"}
      [] c = "badcert"     -> {"chain"}
      [] c = "unknownroot" -> {"anyroot"}

\* The keys set when the user accepts a certificate problem.
KeysSetBy(c) ==
    CASE c = "expired"     -> {"expired", "expiredroots"}
      [] c = "badcert"     -> {"chain"}
      [] c = "unknownroot" -> {"anyroot"}

\* CFDictionarySetValue on the dictionary gSSLPropertiesDict points to now.
RecordException(c) == dicts' = [dicts EXCEPT ![gSSL] = @ \cup KeysSetBy(c)]

\* ConfirmCertificate: the UI helper is forked with the certificate chain
\* and the thread waits for its exit status; zero (accept) records the
\* exception and retries, anything else is ECANCELED.
ConfirmCertificate(t) ==
    /\ pc[t] = "confirm"
    /\ \E accept \in UserAnswers :
         IF accept
         THEN RecordException(err[t]) /\ SSLReturn(t, "EAGAIN")
         ELSE SSLReturn(t, "ECANCELED") /\ UNCHANGED dicts
    /\ UNCHANGED <<problems, gSSL, nextDict, kind, err, at>>

Step(t) ==
    \/ Handshake(t)
    \/ HandleSSLErrors_classify(t)
    \/ HandleSSLErrors_create(t)
    \/ HandleSSLErrors_check(t)
    \/ ConfirmCertificate(t)

Next == \E t \in Threads : StartRequest(t) \/ Step(t)

\* Each request thread keeps running its transaction.
Spec == Init /\ [][Next]_vars /\ \A t \in Threads : WF_vars(Step(t))

-----------------------------------------------------------------------------
(* Properties                                                              *)

\* Once a fallback or a certificate exception is recorded it stays for the
\* life of the mount (spec: writes to the bag are idempotent and monotone).
BagMonotone == [][\A k \in Keys : k \in Bag => k \in Bag']_vars

\* Every transaction ends: each retry HandleSSLErrors asks for records a
\* new fallback or exception, so the loop cannot go on forever.
TransactionsEnd == \A t \in Threads : pc[t] # "idle" ~> pc[t] = "idle"
=============================================================================
