----------------------------- MODULE MCHttpParser -----------------------------
(* A small instance of HttpParser for TLC.                                 *)
EXTENDS HttpParser

CRLF == <<"CR", "LF">>
Request == <<"REQ">> \o CRLF
Kept == <<"KEEP">> \o CRLF \o CRLF
WithBody == <<"LEN">> \o CRLF \o CRLF

\* What clients put together: lines, right and wrong, and loose bytes.
Pieces == {<<>>, Request, <<"KEEP">> \o CRLF, <<"LEN">> \o CRLF, CRLF,
           <<"x">> \o CRLF, <<"CR">>, <<"LF">>, <<"x">>}
Pairs == {a \o b : a, b \in Pieces}

\* Arbitrary requests, and such as have a body or are followed by another.
MCInputs ==
    (Pairs \ {<<>>})
        \cup {Request \o a \o b : a \in Pieces, b \in Pairs}
        \cup {Request \o a \o b : a \in {Kept, WithBody}, b \in Pairs}
        \cup {Request \o <<"KEEP">> \o CRLF \o WithBody \o a \o Request \o CRLF :
                  a \in Pieces}

\* Lengths that are right, too large for the buffer, too large for an int, and
\* negative, so that the null falls into the buffer or before it.
MCNumbers == {-9, 0, 2, 3, 20}

\* A number that nobody will look at need not be chosen.
MCInit ==
    /\ Init
    /\ \/ number = 0
       \/ prog = "http_conn" /\ \E i \in DOMAIN input : input[i] = "LEN"
MCSpec == MCInit /\ [][Next]_vars /\ WF_vars(Server)
=============================================================================
