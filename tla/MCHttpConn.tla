----------------------------- MODULE MCHttpConn -----------------------------
(* Model-checking instance of HttpConn: three requests, a form that is or is *)
(* not followed by a line end, and a line that is no request.                *)
EXTENDS HttpConn

MCStarts == {"GET /", "GET /private", "POST /login"}
MCTarget ==
  [s \in MCStarts |->
     [method |-> IF s = "POST /login" THEN "POST" ELSE "GET",
      path |-> CASE s = "GET /" -> "/" [] s = "GET /private" -> "/private"
                 [] s = "POST /login" -> "/login"]]
MCFileOf ==
  [p \in {"", "/", "/none", "/login", "/index.html", "/login.html", "/register.html",
          "/private", "/welcome.html", "/error.html"} |->
     CASE p \in {"", "/"} -> "dir" [] p \in {"/none", "/login"} -> "none"
       [] p = "/private" -> "private" [] OTHER -> "file"]

Get(s) == <<s, "http", "crlf", "header", "crlf", "crlf">>
Form == Get("POST /login") \o <<"text">>
MCMessages == {Get("GET /"), Get("GET /private"), Form, Form \o <<"crlf">>, <<"junk", "crlf">>}
MCMaxMessages == <<2, 2>>
MCUnset == {"HTTP", "other"}

\* What the theorem about the responses assumes of the messages.
ASSUME MessagesAssumption == PlainMessages
=============================================================================
