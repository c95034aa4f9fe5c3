------------------------------ MODULE MCRanges ------------------------------
(* Documents a platform may serve, cut in every way, for TLC. *)
EXTENDS Ranges

HexDigits == <<"0", "1", "2", "3", "4", "5", "6", "7", "8", "9",
               "a", "b", "c", "d", "e", "f", "10", "11">>

SizeDigits == [n \in 0..MaxChunk |-> HexDigits[n + 1]]

HeadBytes == <<"q", "n", "q", ":", "q", "n", "q", "CR", "LF", "CR", "LF">>

Member(v) == <<"q", "n", "q", ":", "q">> \o v \o <<"q">>

Docs == {
    Member(<<"a">>) \o <<"}">>,
    <<"q", "n", "q", " ", ":", "LF", "q", "q", ",">>,
    <<"q", "a", "q", ":">> \o <<"q", "n", "q", ",">> \o Member(<<"7">>),
    Member(<<"a">>) \o <<",">> \o Member(<<"a">>),
    <<"q", "n", "q", ":", "1", "2", ",">>,
    <<"q", "n", "q", ":", "TAB", "0", "LF", "}">>,
    <<"q", "n", "q", ":", "0", "1", ",">>,
    <<"q", "n", "q", ":", "7", ",">> \o Member(<<"7">>)}

Whole == 100  \* more bytes than any of them

Response(d, cuts, chunked, arrived) ==
    [head |-> HeadBytes, doc |-> d, cuts |-> cuts, chunked |-> chunked, arrived |-> arrived]

CutsOf(d, n) == {c \in SUBSET (1..(Len(d) - 1)) : Cardinality(c) <= n}

Short == {d \in Docs : Len(d) < 10}

AllResponses ==
    UNION {{Response(d, cuts, TRUE, Whole) : cuts \in CutsOf(d, 2)} : d \in Docs}
    \cup UNION {{Response(d, cuts, TRUE, Whole) : cuts \in CutsOf(d, 8)} : d \in Short}
    \cup {Response(d, {}, FALSE, n) : d \in Docs, n \in {8, 10, Whole}}
    \cup UNION {{Response(d, cuts, TRUE, n) : cuts \in CutsOf(d, 1), n \in 8..35} :
                    d \in Short}
=============================================================================
