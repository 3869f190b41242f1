----------------------------- MODULE MCPrograms -----------------------------
(* The small programs and parts of the repository, side by side: in a        *)
(* behaviour one of them runs, and the others stay as they are.  MCParts     *)
(* puts the request buffer beside them.                                      *)
EXTENDS WordCount, CopyTree, Fileset, NodeQueue, Interrupts, ServerLoop, TLC

\* WordCount: every text of up to six characters, and of seven if three are spaces.
MCTexts ==
    UNION {[1 .. n -> {"a", "b", " "}] : n \in 1 .. 6}
      \cup {t \in [1 .. 7 -> {"a", "b", " "}] : Cardinality({k \in 1 .. 7 : t[k] = " "}) = 3}

\* CopyTree: what is in the source directory, for three modes of it.
Rwx == {"r", "w", "x"}
Dir(m) == [kind |-> "dir", mode |-> m, data |-> <<>>]
File(m, d) == [kind |-> "file", mode |-> m, data |-> d]
InSource == {
    <<>>,
    <<"src", "f">> :> File({"r"}, <<1, 2>>),
    <<"src", "f">> :> File({"r", "w"}, <<1, 2>>) @@
        <<"src", "g">> :> Dir({"r", "x"}) @@ <<"src", "g", "h">> :> File({"r"}, <<1>>),
    <<"src", "f">> :> File({"w"}, <<1, 2>>) @@
        <<"src", "g">> :> Dir({"r", "x"}) @@ <<"src", "g", "h">> :> File({"r"}, <<>>),
    <<"src", "p">> :> [File({"r"}, <<>>) EXCEPT !.kind = "other"] @@ <<"src", "g">> :> Dir(Rwx),
    <<"src", "f">> :> File({"r"}, <<1>>) @@
        <<"src", "p">> :> [File({"r"}, <<>>) EXCEPT !.kind = "broken"],
    <<"dst">> :> Dir(Rwx) }
MCTrees == {(<<>> :> Dir(Rwx)) @@ (<<"src">> :> Dir(m)) @@ s :
               m \in {Rwx, {"r", "x"}, {"r"}}, s \in InSource}
MCTargets == {<<"dst">>, <<"src", "dst">>}

\* Fileset: no index, or one of an earlier fileset.
MCContents == {<<1>>, <<2, 1>>, <<1, 1, 1>>}
MCOld == {<<>>, <<<<1>>, <<1, 7, 1>>>>}

\* NodeQueue: one identifier that two threads have.
MCTidOf == "t1" :> 1 @@ "t2" :> 2 @@ "t3" :> 3 @@ "t4" :> 1

\* There is something for each part to begin with.
ASSUME PartsAssumption ==
    /\ Texts # {} /\ Trees # {} /\ Targets # {}
    /\ Means # {} /\ Numbers # {} /\ Tasks # {} /\ WorkerCounts # {}

VARIABLE running
allVars == <<running, wcVars, cprVars, fsVars, nqVars, intrVars, srvVars>>

WcStart == \E t \in Texts : WcInit(t)
CprStart == \E t \in Trees, d \in Targets : CprInit(t, d)
FsStarts == \E m \in Means, n \in Numbers, s \in BOOLEAN, o \in MCOld : FsInit(m, n, s, o)
IntrStart == IntrInit(CHOOSE t \in Tasks : TRUE)
SrvStart == \E n \in WorkerCounts : SrvInit(n)

\* Where nothing can happen in a part.
WcIdle == WcInit(CHOOSE t \in Texts : TRUE)
CprIdle == CprInit(CHOOSE t \in Trees : TRUE, CHOOSE d \in Targets : TRUE)
FsIdle == FsInit(CHOOSE m \in Means : TRUE, CHOOSE n \in Numbers : TRUE, FALSE, <<>>)
IntrIdle == IntrInit(NoTask)
SrvIdle ==
    /\ loop = "over"
    /\ nr_threads = (CHOOSE n \in WorkerCounts : TRUE)
    /\ revents = {}
    /\ backlog = <<>> /\ buffered = {}
    /\ fifo = NoFifo
    /\ writer = [w \in Writers |-> "gone"]
    /\ conn = [c \in ClientThreads |-> "idle"]
    /\ left = [c \in ClientThreads |-> 0]
    /\ client = "failed"

PartsInit ==
    /\ running \in {"wc", "cpr", "fileset", "queue", "interrupts", "server"}
    /\ IF running = "wc" THEN WcStart ELSE WcIdle
    /\ IF running = "cpr" THEN CprStart ELSE CprIdle
    /\ IF running = "fileset" THEN FsStarts ELSE FsIdle
    /\ NqInit
    /\ IF running = "interrupts" THEN IntrStart ELSE IntrIdle
    /\ IF running = "server" THEN SrvStart ELSE SrvIdle

Done ==
    /\ \/ running = "wc" /\ WcStopped
       \/ running = "cpr" /\ CprStopped
       \/ running = "fileset" /\ FsStopped
       \/ running = "interrupts" /\ onCpu = NoTask
       \/ running = "server" /\ SrvStopped
    /\ UNCHANGED allVars

PartsNext ==
    \/ running = "wc" /\ WcNext /\ UNCHANGED <<running, cprVars, fsVars, nqVars, intrVars, srvVars>>
    \/ running = "cpr" /\ CprNext /\ UNCHANGED <<running, wcVars, fsVars, nqVars, intrVars, srvVars>>
    \/ running = "fileset" /\ FsNext /\ UNCHANGED <<running, wcVars, cprVars, nqVars, intrVars, srvVars>>
    \/ running = "queue" /\ NqNext /\ UNCHANGED <<running, wcVars, cprVars, fsVars, intrVars, srvVars>>
    \/ running = "interrupts" /\ IntrNext /\ UNCHANGED <<running, wcVars, cprVars, fsVars, nqVars, srvVars>>
    \/ running = "server" /\ SrvNext /\ UNCHANGED <<running, wcVars, cprVars, fsVars, nqVars, intrVars>>
    \/ Done

PartsSpec == PartsInit /\ [][PartsNext]_allVars /\ IntrFair /\ SrvFair

\* Every program's variables have their types.
ProgramsTypeOK == WcTypeOK /\ CprTypeOK /\ FsTypeOK /\ NqTypeOK /\ IntrTypeOK /\ SrvTypeOK

\* Threads that are ready run, exit requests are obeyed, connections answered.
Progress == Preempted /\ LoopEnds
=============================================================================
