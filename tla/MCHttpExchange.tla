--------------------------- MODULE MCHttpExchange ---------------------------
(* HttpExchange with small buffers, clients that GET and one that does not, *)
(* and files that are empty, short, or longer than a line buffer, and one   *)
(* with the length and the sum of an error's text.                          *)
EXTENDS HttpExchange

MCLF == B("LF", 10)

Letter(v) == B("x", v)

MCContents == {<<>>, <<Letter(2), MCLF>>, <<Letter(1), MCLF, Letter(2)>>,
               <<Letter(1), Letter(2), Letter(3), Letter(1)>>}

MCMethods == {GET, B("PUT", 0)}

MCBytes ==
    {MCLF, B("CR", 13), B("uri", 0), B("host", 0), B("text", 2)} \cup MCMethods
      \cup {Letter(v) : v \in 1 .. 3}
      \cup {B(s, 0) : s \in {"200", "403", "404", "501"}}
      \cup {B(k, v) : k \in {"length", "csum"}, v \in 0 .. 20}
=============================================================================
