--------------------------- MODULE MCHttpExchange ---------------------------
(* Model-checking instances of HttpExchange.                                *)
EXTENDS HttpExchange

MCRequestLines ==
  [line \in {"GET page", "GET empty", "GET missing", "GET secret", "GET dir", "POST page"} |->
     CASE line = "GET empty" -> "empty"
       [] line = "GET missing" -> "missing"
       [] line = "GET secret" -> "secret"
       [] line = "GET dir" -> "dir"
       [] OTHER -> "page"]

MCContentLengths == [h \in {"Length2", "Length3"} |-> IF h = "Length2" THEN 2 ELSE 3]

MCFileSize == [f \in {"page", "empty"} |-> IF f = "page" THEN 3 ELSE 0]

\* Each resource, keep-alive or not; bodies complete, short and long; a line
\* that is no request line, a header with a bare CR and one with a bare LF.
MCRequests ==
  LET r(line, headers, body) == [line |-> line, headers |-> headers, body |-> body]
      keep == <<"keep-alive">>
  IN  {r(line, headers, <<>>) : line \in DOMAIN MCRequestLines \ {"POST page"},
                                headers \in {<<>>, <<keep>>}}
      \cup {r("POST page", <<<<"Length2">>, keep>>, <<"a", "b">>),
            r("POST page", <<<<"Length3">>>>, <<"a", "b", "c">>),
            r("POST page", <<<<"Length3">>>>, <<"a", "b">>),
            r("POST page", <<<<"Length2">>>>, <<"c", "d", "e">>),
            r("PUT page", <<keep>>, <<>>),
            r("GET page", <<keep, <<"x", "CR", "y">>>>, <<>>),
            r("GET page", <<<<"x", "LF", "y">>>>, <<>>)}

=============================================================================
