----------------------------- MODULE ServerLoop -----------------------------
(***************************************************************************)
(* webserver/server.c: the server's main loop between the clients that     *)
(* connect (client.c, open_clientfd in common.c) and the pipe ./server_exit*)
(* that the script server_shutdown writes to.  server_request and the      *)
(* workers are what RequestQueue shows of them: a bounded buffer.          *)
(***************************************************************************)
EXTENDS Naturals, Sequences, SequencesExt, FiniteSets

CONSTANTS
    ClientThreads,   \* the threads of one client process
    NrTimes,         \* the requests each makes
    WorkerCounts,    \* the numbers of workers the server may have
    MaxRequests,     \* the connections its buffer holds
    Writers          \* the processes that may run server_shutdown

ASSUME SrvAssumption == NrTimes \in Nat /\ WorkerCounts \subseteq Nat

VARIABLES
    loop,       \* the server: "start", "poll", "accept", "request", "exit", "over", "dead"
    nr_threads,
    revents,    \* what poll said: "in" and "hup" of the pipe, "conn" of the socket
    backlog,    \* the connections that wait for accept
    buffered,   \* those accepted, not yet served
    fifo,       \* the pipe: none, or whether it has been written to and closed
    writer,     \* each writer: "idle", "open", "gone"
    conn,       \* each client thread: "idle", "open", "done"
    left,       \* how often it has to connect still
    client      \* its process: "running", "ok", "failed"

srvVars == <<loop, nr_threads, revents, backlog, buffered, fifo, writer, conn, left, client>>

NoFifo == [there |-> FALSE, data |-> FALSE, hup |-> FALSE]

SrvInit(n) ==
    /\ loop = "start"
    /\ nr_threads = n
    /\ revents = {}
    /\ backlog = <<>> /\ buffered = {}
    /\ fifo = NoFifo
    /\ writer = [w \in Writers |-> "idle"]
    /\ conn = [c \in ClientThreads |-> "idle"]
    /\ left = [c \in ClientThreads |-> NrTimes]
    /\ client = "running"

theClient == <<conn, left, client>>
theServer == <<loop, nr_threads, revents, backlog, buffered>>

-----------------------------------------------------------------------------
(* The server *)

\* open_listenfd, then open_fifo, which replaces a pipe left from before.
StartServer ==
    /\ loop = "start" /\ loop' = "poll"
    /\ fifo' = [NoFifo EXCEPT !.there = TRUE]
    /\ UNCHANGED <<nr_threads, revents, backlog, buffered, writer, theClient>>

\* poll(fds, 2, -1): it waits until one of the two has something to say, and
\* stores what both of them have to say at that moment.
Events == (IF fifo.data THEN {"in"} ELSE {}) \cup (IF fifo.hup THEN {"hup"} ELSE {})
             \cup (IF backlog # <<>> THEN {"conn"} ELSE {})
Poll ==
    /\ loop = "poll"
    /\ Events # {}
    /\ revents' = Events
    /\ loop' = "accept"
    /\ UNCHANGED <<nr_threads, backlog, buffered, fifo, writer, theClient>>

\* The pipe is looked at first.  Faults: a connection is looked at first, or
\* revents compared with POLLIN as a whole.
ExitFirst_fault == "in" \in revents /\ "conn" \notin revents
ExitFirst_fault2 == revents = {"in"}
ExitFirst == "in" \in revents

ExitAsked ==
    /\ loop = "accept" /\ ExitFirst
    /\ loop' = "exit"
    /\ fifo' = NoFifo
    /\ UNCHANGED <<nr_threads, revents, backlog, buffered, writer, theClient>>

\* The assertion that poll has seen a connection: one that arrives after poll has
\* returned is too late for it.
NoConnection ==
    /\ loop = "accept" /\ ~ExitFirst /\ "conn" \notin revents
    /\ loop' = "dead"
    /\ UNCHANGED <<nr_threads, revents, backlog, buffered, fifo, writer, theClient>>

\* The connection accepted is Head(backlog) until server_request stores it.
AcceptConn ==
    /\ loop = "accept" /\ ~ExitFirst /\ "conn" \in revents
    /\ loop' = "request"
    /\ UNCHANGED <<nr_threads, revents, backlog, buffered, fifo, writer, theClient>>

\* server_request.  Without workers it is served here, at once.
ServerRequest ==
    /\ loop = "request" /\ loop' = "poll"
    /\ backlog' = Tail(backlog)
    /\ \/ /\ nr_threads = 0
          /\ conn' = [conn EXCEPT ![Head(backlog)] = "done"]
          /\ UNCHANGED buffered
       \/ /\ nr_threads > 0 /\ Cardinality(buffered) < MaxRequests
          /\ buffered' = buffered \cup {Head(backlog)}
          /\ UNCHANGED conn
    /\ UNCHANGED <<nr_threads, revents, fifo, writer, left, client>>

ServeConn ==
    /\ loop \notin {"over", "dead"}
    /\ \E c \in buffered :
          buffered' = buffered \ {c} /\ conn' = [conn EXCEPT ![c] = "done"]
    /\ UNCHANGED <<loop, nr_threads, revents, backlog, fifo, writer, left, client>>

\* server_exit and the end of the process: what is open is cut off.
EndServer ==
    /\ loop = "exit" /\ loop' = "over"
    /\ UNCHANGED <<nr_threads, revents, backlog, buffered, fifo, writer, theClient>>

-----------------------------------------------------------------------------
(* The clients *)

Listening == loop \notin {"start", "over", "dead"}

\* open_clientfd, and the request that is sent to it.
Connect(c) ==
    /\ client = "running" /\ conn[c] = "idle" /\ left[c] > 0
    /\ \/ /\ Listening
          /\ backlog' = Append(backlog, c)
          /\ conn' = [conn EXCEPT ![c] = "open"]
          /\ UNCHANGED client
       \/ ~Listening /\ client' = "failed" /\ UNCHANGED <<backlog, conn>>
    /\ UNCHANGED <<loop, nr_threads, revents, buffered, fifo, writer, left>>

Answered(c) ==
    /\ client = "running" /\ conn[c] = "done"
    /\ conn' = [conn EXCEPT ![c] = "idle"]
    /\ left' = [left EXCEPT ![c] = @ - 1]
    /\ UNCHANGED <<theServer, fifo, writer, client>>

\* A connection that is cut off fails the whole process.
CutOff(c) ==
    /\ client = "running" /\ conn[c] = "open"
    /\ loop \in {"over", "dead"}
    /\ client' = "failed"
    /\ UNCHANGED <<theServer, fifo, writer, conn, left>>

\* main joins every thread.
JoinAll ==
    /\ client = "running"
    /\ \A c \in ClientThreads : left[c] = 0
    /\ client' = "ok"
    /\ UNCHANGED <<theServer, fifo, writer, conn, left>>

\* The experiments start the client again and again.
StartClient ==
    /\ client = "ok" /\ client' = "running"
    /\ left' = [c \in ClientThreads |-> NrTimes]
    /\ UNCHANGED <<theServer, fifo, writer, conn>>

-----------------------------------------------------------------------------
(* server_shutdown *)

OpenFifo(w) ==
    /\ writer[w] = "idle" /\ fifo.there
    /\ writer' = [writer EXCEPT ![w] = "open"]
    /\ fifo' = [fifo EXCEPT !.hup = FALSE]
    /\ UNCHANGED <<theServer, theClient>>

\* It writes and closes, or is stopped before it has written.
CloseFifo(w, wrote) ==
    /\ writer[w] = "open"
    /\ writer' = [writer EXCEPT ![w] = "gone"]
    /\ fifo' = IF ~fifo.there THEN fifo
               ELSE [fifo EXCEPT !.data = @ \/ wrote,
                                 !.hup = \A v \in Writers \ {w} : writer[v] # "open"]
    /\ UNCHANGED <<theServer, theClient>>

-----------------------------------------------------------------------------
Server == StartServer \/ Poll \/ ExitAsked \/ NoConnection \/ AcceptConn \/ ServerRequest
ClientStep(c) == Connect(c) \/ Answered(c) \/ CutOff(c)
Shutdown(w) == OpenFifo(w) \/ CloseFifo(w, TRUE) \/ CloseFifo(w, FALSE)

SrvNext ==
    \/ Server \/ ServeConn \/ EndServer
    \/ \E c \in ClientThreads : ClientStep(c)
    \/ JoinAll \/ StartClient
    \/ \E w \in Writers : Shutdown(w)

SrvStopped == loop \in {"over", "dead"} /\ client = "failed"

\* The loop and the workers keep running; nothing makes a client connect or
\* somebody shut the server down.  Whether server_exit returns is a question
\* for RequestQueue.
SrvFair == WF_srvVars(Server) /\ WF_srvVars(ServeConn)

-----------------------------------------------------------------------------
\* server.c: the variables have their types.
SrvTypeOK ==
    /\ loop \in {"start", "poll", "accept", "request", "exit", "over", "dead"}
    /\ nr_threads \in WorkerCounts
    /\ revents \subseteq {"in", "hup", "conn"}
    /\ backlog \in Seq(ClientThreads) /\ buffered \subseteq ClientThreads
    /\ fifo \in [there : BOOLEAN, data : BOOLEAN, hup : BOOLEAN]
    /\ writer \in [Writers -> {"idle", "open", "gone"}]
    /\ conn \in [ClientThreads -> {"idle", "open", "done"}]
    /\ left \in [ClientThreads -> 0 .. NrTimes]
    /\ client \in {"running", "ok", "failed"}

\* server.c on the assertion behind poll: "connect request arrived".
ConnectArrived == loop # "dead"

\* It fails for one reason: a process that opened the pipe has gone and nothing
\* was written, and no connection had arrived when poll looked.  An exit request
\* never ends in it, nor does anything the clients do.
SrvFailsFor ==
    loop = "dead" => revents = {"hup"} /\ \E w \in Writers : writer[w] = "gone"

\* server.c: a written exit request ends the loop although clients go on
\* connecting, and a connection is answered unless the loop has ended.
LoopOver == loop \in {"exit", "over", "dead"}
LoopEnds ==
    /\ fifo.data ~> LoopOver
    /\ \A c \in ClientThreads : conn[c] = "open" ~> conn[c] # "open" \/ LoopOver
=============================================================================
