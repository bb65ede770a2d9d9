---------------------------- MODULE TargetLabel ----------------------------
(***************************************************************************)
(* TargetLabel of src/metrics/label.go: what of a target's URL is shown,   *)
(* as the url label of its series and, through eventURL, in its events.    *)
(*                                                                         *)
(* A URL is a record: its kind is "hierarchical" (scheme://...), "opaque"  *)
(* (scheme:...) or "schemeless", and rest is what follows, as a sequence   *)
(* of tokens: the delimiters, the escapes, a space and words that net/url  *)
(* has no opinion on.  The token "secret" is a credential.                 *)
(***************************************************************************)
EXTENDS Naturals, Sequences, FiniteSets

Has(s, t) == \E i \in 1..Len(s) : s[i] = t

Positions(s, t) == {i \in 1..Len(s) : s[i] = t}

First(s, t) == CHOOSE i \in Positions(s, t) : \A j \in Positions(s, t) : i <= j

LastOf(s, t) == CHOOSE i \in Positions(s, t) : \A j \in Positions(s, t) : i >= j

Before(s, t) == IF Has(s, t) THEN SubSeq(s, 1, First(s, t) - 1) ELSE s

\* url.Parse: the fragment goes at the first "#", then the query at the first "?";
\* the authority ends at the first "/", and its userinfo at its last "@".
Parse(rest) ==
    LET main == Before(Before(rest, "#"), "?")
        auth == Before(main, "/")
    IN  [auth |-> auth,
         user |-> Has(auth, "@"),
         host |-> IF Has(auth, "@") THEN SubSeq(auth, LastOf(auth, "@") + 1, Len(auth))
                  ELSE auth,
         path |-> SubSeq(main, Len(auth) + 1, Len(main))]

\* What it refuses: a space before the path, an escape in the host.
Parses(rest) ==
    /\ ~Has(Parse(rest).auth, "space")
    /\ ~Has(Parse(rest).host, "%40") /\ ~Has(Parse(rest).host, "%20")

\* URL.EscapedPath: as written, unless some of it must be escaped: then all of it is
\* decoded and escaped again, and "@" needs no escape in a path.
EscapedPath(path) ==
    IF ~Has(path, "space") THEN path
    ELSE [i \in 1..Len(path) |->
            CASE path[i] = "space" -> "%20" [] path[i] = "%40" -> "@" [] OTHER -> path[i]]

unparseable == [kind |-> "schemeless", rest |-> <<"<unparseable>">>]

Kept(raw) ==
    LET u == Parse(raw.rest)
    IN  [kind |-> "hierarchical",
         rest |-> u.host \o EscapedPath(IF u.path = <<>> THEN <<"/">> ELSE u.path)]

HasHost(raw) ==
    /\ raw.kind = "hierarchical"
    /\ Parses(raw.rest)
    /\ Parse(raw.rest).host # <<>>

\* Variant: an "@" that is not the userinfo's delimiter is let through.
RenderTrusting(raw) ==
    IF HasHost(raw) /\ ~Has(Kept(raw).rest, "@") THEN Kept(raw) ELSE unparseable

\* Scheme, host and path, or the placeholder: for what has no host, for an "@" that
\* delimits no userinfo, and for one that comes back with the escaping.
Render(raw) ==
    IF /\ HasHost(raw)
       /\ Cardinality(Positions(raw.rest, "@")) <= IF Parse(raw.rest).user THEN 1 ELSE 0
       /\ ~Has(Kept(raw).rest, "@")
    THEN Kept(raw) ELSE unparseable

\* A rendering has to render to itself.
Label(raw) == IF Render(Render(raw)) = Render(raw) THEN Render(raw) ELSE unparseable

-----------------------------------------------------------------------------
\* Credentials written in userinfo syntax: an "@" follows them.
SecretsAreUserinfo(raw) ==
    \A i \in Positions(raw.rest, "secret") : \E j \in Positions(raw.rest, "@") : i < j

\* A label holds no credential that was written in userinfo syntax, however the URL
\* was misparsed, no "@" and no query, and is its own label (label.go, TargetLabel).
LabelIsSafe(raw) ==
    /\ SecretsAreUserinfo(raw) => ~Has(Label(raw).rest, "secret")
    /\ \A t \in {"@", "?", "#", "space"} : ~Has(Label(raw).rest, t)
    /\ Label(Label(raw)) = Label(raw)

=============================================================================
