----------------------------- MODULE MC_SSLTrust -----------------------------
(* One or two request threads against a server with any TLS problems. *)
EXTENDS SSLTrust

CONSTANTS t1, t2

MC_OneThread  == {t1}
MC_TwoThreads == {t1, t2}
=============================================================================
