------------------------------ MODULE CopyTree ------------------------------
(***************************************************************************)
(* warmup/cpr.c: a directory is copied to a new one.                       *)
(*                                                                         *)
(* A step is one part of copydirectory or copysinglefile: entering a       *)
(* directory, one entry of it, one turn of the loop that copies a file,    *)
(* setting the mode of what was copied, leaving the directory.  Source and *)
(* destination are in one file system, so that one may lie in the other.   *)
(* Any system call may fail of itself, readdir included; the kernel also   *)
(* refuses what the owner's bits of the mode do not allow.  The program    *)
(* sees a link as a second copy of what it leads to, and so does the model *)
(* (a link that leads above itself, or into the copy, is left out).        *)
(***************************************************************************)
EXTENDS Naturals, Sequences, SequencesExt

CONSTANTS
    Names,       \* what entries of directories are called
    Trees,       \* file systems, functions from paths to nodes
    Targets,     \* the paths given as dstdir
    PathBuffer   \* the deepest path that fits into pathforstat and destinfilepath

Paths == Seq(Names)
Source == <<"src">>

\* What is at a path as stat, open and opendir see it, which follow links: a link
\* that leads nowhere is "broken".  A directory's entries are the paths below it.
Inodes == [kind : {"dir", "file", "other", "broken"}, mode : SUBSET {"r", "w", "x"}, data : Seq(Nat)]

\* A tree is closed: a path leads through directories that are there.  The
\* program is called with a directory, and a place in one.
ASSUME CprAssumption ==
    /\ PathBuffer \in Nat
    /\ "src" \in Names
    /\ \A t \in Trees :
          /\ DOMAIN t \subseteq Paths
          /\ \A p \in DOMAIN t :
                /\ t[p] \in Inodes
                /\ t[p].kind = "dir" => t[p].data = <<>>
                /\ \A k \in 0 .. Len(p) - 1 :
                      SubSeq(p, 1, k) \in DOMAIN t /\ t[SubSeq(p, 1, k)].kind = "dir"
          /\ Source \in DOMAIN t /\ t[Source].kind = "dir"
          /\ \A d \in Targets : Front(d) \in DOMAIN t /\ t[Front(d)].kind = "dir"
    /\ Targets \subseteq Paths \ {<<>>}

\* The modes that mkdir and creat are called with, as far as the owner goes:
\* S_IRWXU, and O_WRONLY, which is the number 1.
NewDirMode_fault == {"r", "x"}
NewDirMode == {"r", "w", "x"}
NewFileMode_fault == {"r", "w"}
NewFileMode == {}

NewDir == [kind |-> "dir", mode |-> NewDirMode, data |-> <<>>]
NewFile == [kind |-> "file", mode |-> NewFileMode, data |-> <<>>]

VARIABLES
    tree,    \* the file system before the program ran
    target,  \* dstdir
    fs,      \* the file system now
    frames,  \* the calls of copydirectory, innermost last
    missed,  \* the entries that a failing readdir has kept from the program
    faulty,  \* another system call failed without a reason in the file system
    cpr_pc

cprVars == <<tree, target, fs, frames, missed, faulty, cpr_pc>>

\* A call: its arguments, the names readdir gave, those it has to give at least,
\* and the entry it is at with the st_mode that stat found.
Frame(initial, destin) ==
    [initial |-> initial, destin |-> destin, seen |-> {}, due |-> {},
     entry |-> "", st_mode |-> {}]

CprInit(t, d) ==
    /\ tree = t
    /\ target = d
    /\ fs = t
    /\ frames = <<Frame(Source, d)>>
    /\ missed = {}
    /\ faulty = FALSE
    /\ cpr_pc = "enter"

Here == Last(frames)
From == Append(Here.initial, Here.entry)
To == Append(Here.destin, Here.entry)
Entries(dir) == {n \in {Last(p) : p \in DOMAIN fs \ {<<>>}} : Append(dir, n) \in DOMAIN fs}
CanAdd(dir) == {"w", "x"} \subseteq fs[dir].mode

SetHere(f) == frames' = Append(Front(frames), f)
With(path, node) == [p \in DOMAIN fs \cup {path} |-> IF p = path THEN node ELSE fs[p]]

Cpr(from, to) == cpr_pc = from /\ cpr_pc' = to /\ UNCHANGED <<tree, target>>

\* syserror: a message and exit(1).
Syserror(from, denied) ==
    /\ Cpr(from, "exit1")
    /\ faulty' = (faulty \/ ~denied)
    /\ UNCHANGED frames

-----------------------------------------------------------------------------
\* opendir of the one, mkdir and opendir of the other.
CprEnter ==
    LET refused == \/ "r" \notin fs[Here.initial].mode
                   \/ Here.destin \in DOMAIN fs
                   \/ ~CanAdd(Front(Here.destin))
    IN  /\ cpr_pc = "enter" /\ UNCHANGED missed
        /\ \/ Syserror("enter", refused) /\ UNCHANGED fs
           \/ /\ ~refused
              /\ fs' = With(Here.destin, NewDir)
              /\ \/ Syserror("enter", FALSE)
                 \/ /\ Cpr("enter", "entry")
                    /\ SetHere([Here EXCEPT !.due = Entries(Here.initial)])
                    /\ UNCHANGED faulty

\* readdir and stat.  An entry made since opendir may or may not be given.
CprEntry ==
    /\ cpr_pc = "entry"
    /\ \E n \in Entries(Here.initial) \ Here.seen :
          LET path == Append(Here.initial, n)
              found == "x" \in fs[Here.initial].mode /\ fs[path].kind # "broken"
              here == [Here EXCEPT !.seen = @ \cup {n}, !.entry = n,
                                   !.st_mode = fs[path].mode]
              deep == \/ Len(path) > PathBuffer
                      \/ found /\ Len(Here.destin) >= PathBuffer
          IN  \/ deep /\ Cpr("entry", "overflow") /\ UNCHANGED <<frames, faulty>>
              \/ Len(path) <= PathBuffer /\ Syserror("entry", ~found)
              \/ /\ ~deep /\ found
                 /\ \/ /\ fs[path].kind = "dir"
                       /\ Cpr("entry", "enter")
                       /\ frames' = Append(Append(Front(frames), here),
                                           Frame(path, Append(Here.destin, n)))
                    \/ /\ fs[path].kind = "file"
                       /\ Cpr("entry", "open")
                       /\ SetHere(here)
                    \/ /\ fs[path].kind = "other"
                       /\ Cpr("entry", "chmod")
                       /\ SetHere(here)
                 /\ UNCHANGED faulty
    /\ UNCHANGED <<fs, missed>>

\* open and creat: the second is called whatever became of the first.
CprOpen ==
    LET unreadable == "r" \notin fs[From].mode
    IN  /\ cpr_pc = "open" /\ UNCHANGED missed
        /\ \/ Syserror("open", unreadable \/ ~CanAdd(Here.destin)) /\ UNCHANGED fs
           \/ /\ CanAdd(Here.destin)
              /\ fs' = With(To, NewFile)
              /\ \/ Syserror("open", unreadable)
                 \/ ~unreadable /\ Cpr("open", "copy") /\ UNCHANGED <<frames, faulty>>

\* A turn of the loop has read n bytes, of which the write took w.
GoesOn_fault(n) == n > 1
GoesOn(n) == n # 0

CprCopy ==
    LET left == Len(fs[From].data) - Len(fs[To].data)
    IN  /\ cpr_pc = "copy" /\ UNCHANGED missed
        /\ \E n \in (IF left = 0 THEN {0} ELSE 1 .. left), w \in 0 .. left :
            /\ w <= n
            /\ fs' = [fs EXCEPT ![To].data =
                         @ \o SubSeq(fs[From].data, Len(@) + 1, Len(@) + w)]
            /\ \/ Syserror("copy", FALSE)
               \/ /\ w = n
                  /\ Cpr("copy", IF GoesOn(n) THEN "copy" ELSE "chmod")
                  /\ UNCHANGED <<frames, faulty>>

\* chmod of what was copied: what is neither file nor directory was not.
CprChmod ==
    \/ Syserror("chmod", To \notin DOMAIN fs) /\ UNCHANGED <<fs, missed>>
    \/ /\ To \in DOMAIN fs
       /\ Cpr("chmod", "entry")
       /\ fs' = [fs EXCEPT ![To].mode = Here.st_mode]
       /\ UNCHANGED <<frames, missed, faulty>>

\* readdir gives NULL at the end of the directory, and when it fails: either ends
\* the loop.  closedir.  The outermost call returns to main, which sets the mode
\* of the new directory without a look at what comes of it.
CprLeave ==
    /\ cpr_pc = "entry"
    /\ missed' = missed \cup {Append(Here.initial, n) : n \in Here.due \ Here.seen}
    /\ \/ Syserror("entry", FALSE) /\ UNCHANGED fs
       \/ /\ Len(frames) > 1
          /\ Cpr("entry", "chmod")
          /\ frames' = Front(frames)
          /\ UNCHANGED <<fs, faulty>>
       \/ /\ Len(frames) = 1
          /\ Cpr("entry", "exit0")
          /\ \/ /\ fs' = [fs EXCEPT ![target].mode = fs[Source].mode]
                /\ UNCHANGED faulty
             \/ /\ faulty' = TRUE
                /\ UNCHANGED fs
          /\ UNCHANGED frames

CprNext == CprEnter \/ CprEntry \/ CprOpen \/ CprCopy \/ CprChmod \/ CprLeave

CprStopped == cpr_pc \in {"exit0", "exit1", "overflow"}

-----------------------------------------------------------------------------
CprTypeOK ==
    /\ tree \in Trees /\ target \in Targets
    /\ \A p \in DOMAIN fs :
          fs[p] \in Inodes /\ (p # <<>> => Front(p) \in DOMAIN fs /\ fs[Front(p)].kind = "dir")
    /\ \A k \in DOMAIN frames : frames[k].initial \in DOMAIN fs
    /\ missed \subseteq Paths
    /\ cpr_pc \in {"enter", "entry", "open", "copy", "chmod"} \/ CprStopped

Within == IsPrefix(Source, target)
Under(path, f) == {p \in DOMAIN f : IsPrefix(path, p)}
Image(p) == target \o SubSeq(p, Len(Source) + 1, Len(p))

Copied(p) == Image(p) \in DOMAIN fs /\ fs[Image(p)] = tree[p]
Missed(p) == \E m \in missed : IsPrefix(m, p)

\* Nothing that was there before is changed, and when the program says it
\* succeeded everything in the source is in the copy with its contents and its
\* mode, except for what a failing readdir did not give and for the mode of the
\* copy itself; nothing else is in the copy unless it was put into its own source.
CprFaithful ==
    /\ \A p \in DOMAIN tree : p \in DOMAIN fs /\ fs[p] = tree[p]
    /\ cpr_pc = "exit0" =>
          /\ \A p \in Under(Source, tree) :
                \/ Copied(p) \/ Missed(p)
                \/ p = Source /\ faulty /\ target \in DOMAIN fs /\ fs[target] = NewDir
          /\ ~Within => Under(target, fs) \subseteq {Image(p) : p \in Under(Source, tree)}

\* A copy that the program gave up has no part that looks complete: a file has
\* permissions only when all of its contents are there, and a directory a mode
\* of its own only when every entry of it that readdir gave has.
CprModeLast ==
    \A p \in Under(Source, tree) \cap DOMAIN fs :
        Image(p) \in DOMAIN fs /\ Image(p) \notin DOMAIN tree =>
            LET made == fs[Image(p)]
            IN  /\ made.kind = "file" /\ made.mode # {} => made = tree[p]
                /\ made.kind = "dir" /\ made.mode # NewDirMode =>
                      \A q \in Under(p, tree) : Copied(q) \/ Missed(q)

\* The program gives up without a failing call only over a destination that is
\* there or has no place, a part of the source that its owner may not read, one
\* that is neither file nor directory, or a link that leads nowhere: never over a
\* directory of the source that may not be written.  Its path buffers are too
\* short only for a copy into itself or a source as deep as that.
CprFailsFor ==
    /\ cpr_pc = "exit1" /\ ~faulty =>
          \/ target \in DOMAIN tree
          \/ ~({"w", "x"} \subseteq tree[Front(target)].mode)
          \/ \E p \in Under(Source, tree) :
                \/ "r" \notin tree[p].mode
                \/ tree[p].kind = "dir" /\ "x" \notin tree[p].mode
                \/ tree[p].kind \in {"other", "broken"}
          \/ Within
    /\ cpr_pc = "overflow" =>
          Within \/ \E p \in Under(Source, tree) : Len(p) + Len(target) > PathBuffer

\* cpr.c on copydirectory: "copies all files in a directory", at least when the
\* program succeeds.  It does not: a failing readdir is taken for the end.
CprWhole == cpr_pc = "exit0" => \A p \in Under(Source, tree) : Image(p) \in DOMAIN fs

\* A copy that succeeds is whole but for what a failing readdir kept back, one
\* that was given up does not pass for it, and none is given up without a reason.
CprCorrect == CprFaithful /\ CprModeLast /\ CprFailsFor
=============================================================================
