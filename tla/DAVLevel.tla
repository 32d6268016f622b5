------------------------------- MODULE DAVLevel -------------------------------
(***************************************************************************)
(* ParseDAVLevel of webdav_network.c and the header lexers it uses         *)
(* (SkipLWS, SkipToken, SkipCodedURL).  The lexers are pure functions on   *)
(* a C string and are RECURSIVE operators on a position; the main loop of  *)
(* ParseDAVLevel, one list element per pass, is an action, so a behaviour  *)
(* is one parse of one DAV header field-value.                             *)
(*                                                                         *)
(* Characters are abstracted to the classes the lexers tell apart: the     *)
(* token characters "1", "2" and "t" (any other token character), the      *)
(* separators "<", ">", "," and "/" (any other separator), SP (SP or HT),  *)
(* CR and LF.  A string is a sequence of them; past its end is the NUL.    *)
(***************************************************************************)
EXTENDS Integers, Sequences, SequencesExt

CONSTANTS
    MaxLen,     \* length bound of the arbitrary field-values
    MaxElems    \* element bound of the generated DAV lists

Chars == {"1", "2", "t", "<", ">", ",", "/", "SP", "CR", "LF"}

\* The byte at position i of the C string s: NUL past the end.
At(s, i) == IF i \in 1..Len(s) THEN s[i] ELSE "NUL"

\* SkipLWS: SP and HT, and CRLF when SP or HT follows it.
RECURSIVE SkipLWS(_, _)
SkipLWS(s, i) ==
    CASE At(s, i) = "SP" -> SkipLWS(s, i + 1)
      [] At(s, i) = "CR" /\ At(s, i + 1) = "LF" /\ At(s, i + 2) = "SP"
                         -> SkipLWS(s, i + 3)
      [] OTHER           -> i

\* What ends a token: NUL, the CTLs (CR, LF) and the separators.
NonToken == {"NUL", "CR", "LF", "<", ">", ",", "/", "SP"}

\* SkipToken: the first non-token character or the end of the string.
RECURSIVE SkipToken(_, _)
SkipToken(s, i) == IF At(s, i) \in NonToken THEN i ELSE SkipToken(s, i + 1)

\* SkipCodedURL: the '>' that ends the Coded-URL or the end of the string.
RECURSIVE SkipCodedURL(_, _)
SkipCodedURL(s, i) ==
    IF At(s, i) \in {"NUL", ">"} THEN i ELSE SkipCodedURL(s, i + 1)

\* Mutant: the commas are left where they are.
SkipCommas_none(s, i) == i

\* "skip over one or more commas"
RECURSIVE SkipCommas(_, _)
SkipCommas(s, i) == IF At(s, i) = "," THEN SkipCommas(s, i + 1) ELSE i

\* Mutant: a "1" token lowers a level already found to be 2.
TokenLevel_unguarded(c, level) ==
    CASE c = "1" -> 1
      [] c = "2" /\ level < 2 -> 2
      [] OTHER -> level

\* A one-character token raises the level to 1 or 2.
TokenLevel(c, level) ==
    CASE c = "1" /\ level < 1 -> 1
      [] c = "2" /\ level < 2 -> 2
      [] OTHER -> level

\* Mutant: the '>' is skipped even when the Coded-URL ran to the end.
ElementEnd_past_nul(s, i) ==
    IF At(s, i) = "<" THEN SkipCodedURL(s, i + 1) + 1 ELSE SkipToken(s, i)

\* The end of the element at i: past the '>' of a Coded-URL (if there is
\* one), or the end of a token.
ElementEnd(s, i) ==
    IF At(s, i) = "<"
    THEN LET e == SkipCodedURL(s, i + 1) IN IF At(s, e) # "NUL" THEN e + 1 ELSE e
    ELSE SkipToken(s, i)

-----------------------------------------------------------------------------
(* The reference: RFC 2518 section 9.1, DAV = "1" ["," "2"] ["," 1#extend], *)
(* extend = Coded-URL | token; the level is the largest of 1 and 2 listed  *)
(* (spec 4.H, mount).                                                      *)

Elements == {<<"1">>, <<"2">>, <<"t">>, <<"1", "2">>, <<"<", "t", "/", ">">>}

\* The list separators: "," with optional LWS around it, repeated commas.
Delimiters == {<<",">>, <<",", "SP">>, <<"SP", ",", "SP">>, <<",", ",">>,
               <<"CR", "LF", "SP", ",">>}

RECURSIVE Join(_, _)
Join(es, d) ==
    CASE es = <<>>    -> <<>>
      [] Len(es) = 1  -> Head(es)
      [] OTHER        -> Head(es) \o d \o Join(Tail(es), d)

RefLevel(es) ==
    LET listed == {e[1] : e \in {e \in ToSet(es) : Len(e) = 1}} IN
    CASE "2" \in listed -> 2
      [] "1" \in listed -> 1
      [] OTHER          -> 0

-----------------------------------------------------------------------------

VARIABLES
    header,         \* the DAV field-value
    list,           \* {the elements it was built from}, or {} if arbitrary
    field_value,    \* ParseDAVLevel's position in it
    dav_level,      \* *dav_level
    pc              \* "loop" or "done"

vars == <<header, list, field_value, dav_level, pc>>

TypeOK ==
    /\ header \in Seq(Chars)
    /\ field_value \in 1..Len(header) + 1
    /\ dav_level \in 0..2
    /\ pc \in {"loop", "done"}

\* Any field-value of up to MaxLen characters, and every well-formed list of
\* up to MaxElems elements with optional leading LWS.  *dav_level = 0.
Init ==
    /\ \/ header \in SeqOf(Chars, MaxLen) /\ list = {}
       \/ \E es \in SeqOf(Elements, MaxElems), d \in Delimiters,
             lead \in {<<>>, <<"SP">>} :
              header = lead \o Join(es, d) /\ list = {es}
    /\ field_value = 1
    /\ dav_level = 0
    /\ pc = "loop"

\* The while condition: the end of the string ends the parse.
LoopExit ==
    /\ pc = "loop" /\ At(header, field_value) = "NUL"
    /\ pc' = "done"
    /\ UNCHANGED <<header, list, field_value, dav_level>>

\* One pass of the loop: skip LWS; stop at the end; eat a Coded-URL or a
\* token, a one-character token setting the level; skip LWS; stop at the
\* end, or at anything but a comma; skip the commas.
ParseElement ==
    LET start == SkipLWS(header, field_value)
        stop  == SkipLWS(header, ElementEnd(header, start))
        token == At(header, start)
        level == IF token # "<" /\ ElementEnd(header, start) - start = 1
                 THEN TokenLevel(token, dav_level) ELSE dav_level
    IN
    /\ pc = "loop" /\ At(header, field_value) # "NUL"
    /\ \/ /\ At(header, start) = "NUL"
          /\ field_value' = start /\ pc' = "done"
          /\ UNCHANGED dav_level
       \/ /\ At(header, start) # "NUL" /\ At(header, stop) \notin {"NUL", ","}
          /\ field_value' = stop /\ dav_level' = level /\ pc' = "done"
       \/ /\ At(header, start) # "NUL" /\ At(header, stop) \in {"NUL", ","}
          /\ field_value' = SkipCommas(header, stop) /\ dav_level' = level
          /\ UNCHANGED pc
    /\ UNCHANGED <<header, list>>

Next == LoopExit \/ ParseElement

Spec == Init /\ [][Next]_vars /\ WF_vars(Next)

-----------------------------------------------------------------------------
(* Properties                                                              *)

\* A parsed well-formed DAV list gives the largest level listed: "1" -> 1,
\* "1, 2" -> 2, "2,1" -> 2, "<...>,1" -> 1, "" -> 0 (spec section 5,
\* property 5); Coded-URLs and longer tokens count for nothing.
LevelIsMaxListed == pc = "done" => \A es \in list : dav_level = RefLevel(es)

\* The loop of ParseDAVLevel ends on every field-value, however malformed:
\* each pass consumes an element, a comma run, or stops.
ParseTerminates == <>(pc = "done")
=============================================================================
