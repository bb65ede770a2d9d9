---------------------------- MODULE MCDescryMain ----------------------------
(* DescryMain on starts in slices around one good document: each field of it, with the
   flags that override the sink, every URL of up to five tokens in one target, and
   pairs of targets. *)
EXTENDS DescryMain

Url(rest) == [kind |-> "hierarchical", rest |-> rest]

Target(url, interval, label) == [url |-> url, interval |-> interval, label |-> label]

Doc(k, p, source, interval, timeout, concurrency, ts) ==
    [decodes |-> TRUE, sink |-> k, path |-> p, source |-> source, interval |-> interval,
     timeout |-> timeout, concurrency |-> concurrency, targets |-> ts]

Good(ts) == Doc("", "", "uri", Absent, Absent, Absent, ts)

Plain == Target(Url(<<"host">>), Absent, <<>>)

Seqs(S, n) == UNION {[1..k -> S] : k \in 0..n}

Durations == {Absent, Malformed, -1, 0, 1, 2, 40}

\* userinfo as one might write it, and what may follow it
Written ==
    {u \o <<"@", "host">> \o r : u \in Seqs({"secret", "/", "?", "#", "@", "%40", "space"}, 2),
                                 r \in Seqs({"/", "?", "@", "%40", "space"}, 1)}
    \cup {<<"secret", "@", "host">> \o r : r \in Seqs({"/", "?", "@", "%40", "space"}, 2)}
    \cup {<<"host">> \o r : r \in Seqs({"/", "?", "#", "@", "%40", "%20", "space"}, 3)}

Fields ==
    {Doc("", "", o, i, Absent, Absent, <<Plain>>) : o \in {"", "uri", "unusable"}, i \in Durations}
    \cup {Doc("", "", "uri", i, t, c, <<Plain>>) : i \in {Absent, -1, 1},
            t \in {Absent, Malformed, 0, 3}, c \in {Absent, 0, 2}}
    \cup {Good(<<>>), [Good(<<Plain>>) EXCEPT !.decodes = FALSE]}

Sinks == {Doc(k, p, "uri", Absent, Absent, Absent, <<Plain>>) :
            k \in {"", "stdout", "file", "tape"}, p \in {"", "events"}}

Urls ==
    {Good(<<Target(Url(w), Absent, <<>>)>>) : w \in Written}
    \cup {Good(<<Target([kind |-> k, rest |-> <<"host">>], Absent, <<>>)>>) :
            k \in {"opaque", "schemeless"}}

Pairs ==
    {Good(<<Target(u, i, <<>>), Target(v, j, l)>>) :
        i \in Durations, j \in {Absent, 1}, l \in {<<>>, <<"mine">>},
        u \in {Url(<<"host">>), Url(<<"secret", "@", "host", "/">>), Url(<<"host", "/", "@">>)},
        v \in {Url(<<"host">>), Url(<<"host", "/", "?">>), Url(<<"host", "/", "page">>),
              emptyURL, [kind |-> "opaque", rest |-> <<"host">>]}}

MCGivens ==
    [doc : Fields \cup Urls \cup Pairs, flags : {[sink |-> "", path |-> ""]}]
    \cup [doc : Sinks, flags : [sink : {"", "stdout", "file", "tape"}, path : {"", "events"}]]

=============================================================================
