---------------------------- MODULE MCHttpCheck ----------------------------
(* HttpCheck on few URLs: a name over https, a name whose URL contains a word of
   classifyError, a literal public address, and two that the first layer refuses. *)
EXTENDS HttpCheck

U(s, h, p, w) == [scheme |-> s, host |-> h, port |-> p, word |-> w]

MCURLs ==
    {U("https", "example", "", None), U("http", "example", "80", "timeout"),
     U("http", "public", "", None),
     U("http", "example", "8080", None), U("http", "loopback", "", "tls")}

=============================================================================
