------------------------------ MODULE MCParts ------------------------------
(* The request buffer of the server, with buffers of one, two and three     *)
(* slots, and beside it the parts of MCPrograms: in a behaviour either the  *)
(* buffer is at work or one of the others.                                  *)
EXTENDS RequestQueue, MCPrograms

VARIABLE buffering
besideVars == <<buffering, vars, allVars>>

\* Where nothing happens any more: everybody has ended.
BufferIdle ==
    /\ max_requests = (CHOOSE n \in Sizes : TRUE)
    /\ exiting = TRUE
    /\ buffer = [slot \in 0 .. (max_requests - 1) |-> 0]
    /\ in = 0 /\ out = 0 /\ buffer_full = 0
    /\ mutex = Free /\ accepted = 0
    /\ http_req = [w \in Workers |-> 0]
    /\ joining = NrThreads + 1
    /\ pc = [p \in Procs |-> "done"]

PartsIdle ==
    running = "wc" /\ WcIdle /\ CprIdle /\ FsIdle /\ NqInit /\ IntrIdle /\ SrvIdle

BesideInit ==
    \/ buffering = TRUE /\ Init /\ PartsIdle
    \/ buffering = FALSE /\ BufferIdle /\ PartsInit

BesideNext ==
    \/ buffering /\ Next /\ UNCHANGED <<buffering, allVars>>
    \/ ~buffering /\ PartsNext /\ UNCHANGED <<buffering, vars>>

BesideSpec ==
    BesideInit /\ [][BesideNext]_besideVars /\ Fairness /\ IntrFair /\ SrvFair
=============================================================================
