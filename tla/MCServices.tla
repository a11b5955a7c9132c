------------------------------- MODULE MCServices -------------------------------
(* Clients, addresses, targets, answers and messages for Services. *)
EXTENDS Services, TLC

CONSTANTS c1, c2, a1, a2, u1, u2, ch1, ch2

-----------------------------------------------------------------------------
(* The clients of the proxy *)

SameAddress == (c1 :> a1) @@ (c2 :> a1)
TwoAddresses == (c1 :> a1) @@ (c2 :> a2)

Request(mode, target, get, keep) == [mode |-> mode, url |-> target, get |-> get, keep |-> keep]

\* One keeps its connection and asks twice for the same, or posts to what is no
\* URL; the other comes by the reverse path, or asks for a page of this server.
TheRequests ==
    (c1 :> {Request("forward", u1, TRUE, TRUE), Request("forward", NoUrl, FALSE, FALSE)})
    @@ (c2 :> {Request("reverse", u2, TRUE, FALSE), Request("other", NoUrl, TRUE, FALSE)})

\* Whatever may happen to an answer happens to one of them.
TheAnswers ==
    [url : {u1}, status : {"200", "302", "malformed"}] \cup [url : {u2}, status : {"302"}]

-----------------------------------------------------------------------------
(* Messages for the parser *)

Header(name, value) == [name |-> name, value |-> value]
Message(start, hs) == [start |-> start, headers |-> hs, body |-> <<ch1, ch2>>]

\* With a header whose name is the end of another, and two without a value; with
\* names that are too long together; and unknown.
Good == Message(<<ch1, ch2>>, <<Header(<<ch1, ch2>>, <<ch1, ch2>>), Header(<<ch1>>, <<>>),
                                Header(<<ch2>>, <<>>)>>)
Long == Message(<<ch1, ch2>>, <<Header(<<ch1, ch2>>, <<ch1>>), Header(<<ch2, ch1>>, <<ch1>>)>>)
Unknown == Message(<<ch2>>, <<>>)

TheStreams ==
    [kind : {"request", "response"}, messages : {<<Good, Unknown>>, <<Long>>, <<Unknown>>}]

TheStarts == {<<ch1, ch2>>}
================================================================================
