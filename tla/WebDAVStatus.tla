---------------------------- MODULE WebDAVStatus ----------------------------
(***************************************************************************)
(* translate_status_to_error of webdav_network.c: the errno a WebDAV       *)
(* operation returns for the HTTP status code of its final response.       *)
(* Errors are named by their errno symbol; "OK" is 0.                      *)
(***************************************************************************)
EXTENDS Naturals

\* The 4xx codes the switch names, grouped by the errno they produce.  In the
\* source, case 414 sets ENAMETOOLONG and has no break, so it falls through
\* to the 423/424 cases and leaves with EBUSY.
AuthCodes     == {401, 407}
PermCodes     == {402, 403}
NotFoundCodes == {404, 409, 410}
BusyCodes     == {414, 423, 424}

translate_status_to_error(statusCode) ==
    CASE statusCode \div 100 = 2 -> "OK"
      [] statusCode \div 100 \in {1, 3} -> "ENOENT"
      [] statusCode \div 100 = 4 ->
            CASE statusCode \in AuthCodes     -> "EAUTH"
              [] statusCode \in PermCodes     -> "EPERM"
              [] statusCode \in NotFoundCodes -> "ENOENT"
              [] statusCode \in BusyCodes     -> "EBUSY"
              [] OTHER                        -> "EINVAL"
      [] statusCode \div 100 = 5 -> IF statusCode = 507 THEN "ENOSPC" ELSE "ENOENT"
      [] OTHER -> "EIO"

=============================================================================
