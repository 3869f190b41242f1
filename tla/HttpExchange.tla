---------------------------- MODULE HttpExchange ----------------------------
(***************************************************************************)
(* One request and its reply: webserver/client.c and client_simple.c at    *)
(* one end, request.c in a server thread at the other, both on Rio.        *)
(*                                                                         *)
(* A byte is a record: its kind tells lines apart, and its value is its    *)
(* number, or the number that a header line spells out.  Either process    *)
(* may end at any time, the client by itself or by an assertion, the       *)
(* server by exit(1) in an error path of common.c or by SIGPIPE.           *)
(***************************************************************************)
EXTENDS Rio

CONSTANTS
    Contents,   \* contents of the file considered: sequences of Bytes
    Methods     \* methods that clients use, as bytes

B(k, v) == [k |-> k, v |-> v]

GET   == B("GET", 0)
Blank == <<B("CR", 13), LF>>       \* "\r\n"

VARIABLES
    conf,       \* this exchange: see Confs
    spc, cpc,   \* where the server and the client are
    file_buf,   \* server: the part of the file that was read
    length, csum,                   \* client: what the header says
    length_received, csum_received  \* client: what the body had

server == <<spc, file_buf>>
client == <<cpc, length, csum, length_received, csum_received>>
vars == <<rio, conf, server, client>>

\* The method, what the name stands for on the server (with "gone" the file
\* disappears between stat and open), its contents, and which client it is.
Confs == [method : Methods, kind : {"regular", "missing", "unreadable", "gone"},
          data : Contents, simple : BOOLEAN]

\* client_send
Request(method) == <<method, B("uri", 0), LF, B("host", 0), LF>> \o Blank

Csum(s) ==
    LET sum[k \in 0 .. Len(s)] == IF k = 0 THEN 0 ELSE sum[k - 1] + s[k].v
    IN  sum[Len(s)]

\* The length counts a terminator.
Reply_fault(status, body) ==
    <<B(status, 0), LF, B("length", Len(body) + 1), LF, B("csum", Csum(body)), LF>>
       \o Blank \o body

\* What request_sendfile and request_error write.
Reply(status, body) ==
    <<B(status, 0), LF, B("length", Len(body)), LF, B("csum", Csum(body)), LF>>
       \o Blank \o body
ErrorText == <<B("text", 2), LF>>
ErrorReply(status) == Reply(status, ErrorText)

\* MAXLINE is more than a header line has.
ASSUME HttpAssumption ==
    /\ LF = B("LF", 10) /\ MaxLine >= 2
    /\ \A b \in Bytes : b.v \in Nat
    /\ \A m \in Methods : Request(m) \in Seq(Bytes)
    /\ \A d \in Contents : d \in Seq(Bytes) /\ Reply("200", d) \in Seq(Bytes)
    /\ ErrorText \in Seq(Bytes)
    /\ \A status \in {"403", "404", "501"} : ErrorReply(status) \in Seq(Bytes)

Init ==
    /\ conf \in Confs
    /\ RioInit(Request(conf.method))
    /\ spc = "request"
    /\ cpc = "send"
    /\ file_buf = <<>>
    /\ length = 0 /\ csum = 0
    /\ length_received = 0 /\ csum_received = 0

Transfer(e) == Transport(e) /\ UNCHANGED <<conf, server, client>>

-----------------------------------------------------------------------------
(* The server thread. *)

Server(from, to) == spc = from /\ spc' = to /\ UNCHANGED <<conf, client>>

\* The first byte of the request line; without one buf and method are not
\* initialised, and anything may be in them.
MethodRead == IF line["server"] = <<>> THEN {GET, B("other", 0)} ELSE {line["server"][1]}

ReadRequest ==
    /\ Returned("server")
    /\ \/ /\ GET \in MethodRead
          /\ Server("request", "header")
          /\ NextLine("server")
       \/ /\ MethodRead # {GET}
          /\ Server("request", "refuse")
          /\ NextLine("server")
    /\ UNCHANGED file_buf

Refuse ==
    /\ Server("refuse", "reply")
    /\ Give("server", ErrorReply("501"))
    /\ UNCHANGED file_buf

\* request_read_headers.  At the end of the stream rio_readlineb leaves buf as
\* it was, and the loop never ends; before the first line, buf may be anything.
ReadHeader ==
    /\ Returned("server")
    /\ \/ /\ line["server"] = Blank
          /\ Server("header", "stat") \/ Server("headers", "stat")
       \/ /\ line["server"] \notin {<<>>, Blank}
          /\ Server("header", "headers") \/ Server("headers", "headers")
       \/ /\ line["server"] = <<>>
          /\ \/ Server("header", "spin") \/ Server("headers", "spin")
             \/ Server("header", "stat")
    /\ NextLine("server")
    /\ UNCHANGED file_buf

\* request_readfile: the tests, and the opening of the file.
OpenFile ==
    \/ /\ conf.kind = "regular"
       /\ Server("stat", "read")
       /\ UNCHANGED <<rio, file_buf>>
    \/ /\ conf.kind = "missing"
       /\ Server("stat", "reply")
       /\ Give("server", ErrorReply("404"))
       /\ UNCHANGED file_buf
    \/ /\ conf.kind = "unreadable"
       /\ Server("stat", "reply")
       /\ Give("server", ErrorReply("403"))
       /\ UNCHANGED file_buf
    \/ /\ conf.kind = "gone"
       /\ Server("stat", "dead")
       /\ Close("server")
       /\ UNCHANGED file_buf

\* The loop of rio_read over the file.
ReadFile ==
    /\ Server("read", "read")
    /\ \E k \in 1 .. (Len(conf.data) - Len(file_buf)) :
          file_buf' = file_buf \o SubSeq(conf.data, Len(file_buf) + 1, Len(file_buf) + k)
    /\ UNCHANGED rio

SendFile ==
    /\ Len(file_buf) = Len(conf.data)
    /\ Server("read", "reply")
    /\ Give("server", Reply("200", file_buf))
    /\ UNCHANGED file_buf

\* The connection is left open.
Finish_fault ==
    /\ out["server"] = <<>>
    /\ Server("reply", "done")
    /\ UNCHANGED <<rio, file_buf>>

\* request_destroy
Finish ==
    /\ out["server"] = <<>>
    /\ Server("reply", "done")
    /\ Close("server")
    /\ UNCHANGED file_buf

\* The whole server exits: a write to a client that has closed, or a read
\* from one that has reset the connection.
ServerDies ==
    /\ shut["client"]
    /\ \/ out["server"] # <<>> /\ Server("reply", "dead")
       \/ \E l \in {"request", "header", "headers"} : cpc = "dead" /\ Server(l, "dead")
    /\ Close("server")
    /\ UNCHANGED file_buf

\* An error of another connection, or somebody who stops the server, ends the
\* process with this thread in it: what was not written is never written.
ServerEnds ==
    /\ \E l \in {"request", "refuse", "header", "headers", "stat", "read", "reply"} :
          Server(l, "ended")
    /\ Close("server")
    /\ UNCHANGED file_buf

-----------------------------------------------------------------------------
(* The client. *)

Client(from, to) == cpc = from /\ cpc' = to /\ UNCHANGED <<conf, server>>

Sent ==
    /\ out["client"] = <<>>
    /\ Client("send", "status")
    /\ UNCHANGED <<rio, length, csum, length_received, csum_received>>

\* client_print: the line that was read before the loop is not looked into.
ReadStatus ==
    /\ Returned("client")
    /\ Client("status", IF line["client"] \in {<<>>, Blank} THEN "body" ELSE "header")
    /\ NextLine("client")
    /\ UNCHANGED <<length, csum, length_received, csum_received>>

\* The number after a tag, or the old one if the line has another tag.
TagFound(tag, old) ==
    IF line["client"] # <<>> /\ line["client"][1].k = tag THEN line["client"][1].v ELSE old

ReadTags ==
    /\ Returned("client")
    /\ length' = TagFound("length", length)
    /\ csum' = TagFound("csum", csum)
    /\ Client("header", IF line["client"] \in {<<>>, Blank} THEN "body" ELSE "header")
    /\ NextLine("client")
    /\ UNCHANGED <<length_received, csum_received>>

ReadBody ==
    /\ Returned("client")
    /\ Client("body", IF line["client"] = <<>> THEN "check" ELSE "body")
    /\ length_received' = length_received + Len(line["client"])
    /\ csum_received' = csum_received + Csum(line["client"])
    /\ NextLine("client")
    /\ UNCHANGED <<length, csum>>

\* Without the comparison with the file set.
Agrees_fault ==
    IF conf.simple THEN length # 0 => length = length_received
    ELSE length = length_received /\ csum = csum_received

\* The assertions: client.c compares with the file set and with the header,
\* client_simple.c with the length in the header if there is one.
Agrees ==
    IF conf.simple THEN length # 0 => length = length_received
    ELSE /\ csum = Csum(conf.data) /\ length = Len(conf.data)
         /\ length = length_received /\ csum = csum_received

Check ==
    /\ Client("check", IF Agrees THEN "accepted" ELSE "aborted")
    /\ Close("client")
    /\ UNCHANGED <<length, csum, length_received, csum_received>>

\* A write to a server that has closed: the client ends by SIGPIPE.
ClientBreaks ==
    /\ out["client"] # <<>>
    /\ shut["server"]
    /\ Client("send", "dead")
    /\ Close("client")
    /\ UNCHANGED <<length, csum, length_received, csum_received>>

\* Somebody stops the client, or the connection is reset.
ClientDies ==
    /\ \E l \in {"send", "status", "header", "body"} : Client(l, "dead")
    /\ Close("client")
    /\ UNCHANGED <<length, csum, length_received, csum_received>>

Terminated ==
    /\ cpc \in {"accepted", "aborted", "dead"}
    /\ spc \in {"done", "spin", "dead", "ended"}
    /\ UNCHANGED vars

ServerNext ==
    \/ Transfer("server") \/ ReadRequest \/ Refuse \/ ReadHeader \/ OpenFile
    \/ ReadFile \/ SendFile \/ Finish \/ ServerDies

\* What a client does that nobody stops.
ClientGoesOn ==
    Transfer("client") \/ Sent \/ ReadStatus \/ ReadTags \/ ReadBody \/ Check
    \/ ClientBreaks

Next == ServerNext \/ ClientGoesOn \/ ClientDies \/ ServerEnds \/ Terminated

Spec == Init /\ [][Next]_vars

\* Neither process stops running by itself.
FairSpec == Spec /\ WF_vars(ServerNext) /\ WF_vars(ClientGoesOn)

-----------------------------------------------------------------------------
\* The types of the variables.
HttpTypeOK ==
    /\ RioTypeOK
    /\ conf \in Confs
    /\ spc \in {"request", "refuse", "header", "headers", "stat", "read", "reply",
                "done", "spin", "dead", "ended"}
    /\ cpc \in {"send", "status", "header", "body", "check", "accepted", "aborted", "dead"}
    /\ file_buf \in Seq(Bytes)
    /\ {length, csum, length_received, csum_received} \subseteq Nat

\* The status is not compared: a file with the length and the sum of an error's
\* text cannot be told from it.
LooksLikeError ==
    /\ Len(conf.data) = Len(ErrorText) /\ Csum(conf.data) = Csum(ErrorText)
    /\ \E status \in {"403", "404", "501"} : got["client"] = ErrorReply(status)

\* A client that accepts what it got has read the whole reply, and a client
\* that knows the file set the very file it asked for.  (Of an empty file, or
\* without a length in the header, no reply at all is accepted too.)  And no
\* assertion of a client fails as long as the server lives and has the file.
ClientVerdict ==
    /\ cpc = "accepted" /\ length # 0 =>
          /\ got["client"] = sent["client"]
          /\ ~conf.simple => got["client"] = Reply("200", conf.data) \/ LooksLikeError
    /\ cpc = "aborted" => spc \in {"dead", "ended"} \/ conf.kind # "regular" \/ conf.method # GET

\* What takes the server down, or one of its threads away for ever, is a client
\* that ended in the middle, or a file that vanished: never its own doing.
ServerSurvives ==
    spc \in {"dead", "spin"} =>
        cpc = "dead" \/ (spc = "dead" /\ conf.kind = "gone")

\* A client that nobody stops comes to an end, and so does the server thread
\* that serves it: neither waits for the other for ever.
BothFinish ==
    <>(\/ cpc = "dead"
       \/ cpc \in {"accepted", "aborted"} /\ spc \in {"done", "dead", "ended"})
=============================================================================
