------------------------------ MODULE Fileset ------------------------------
(***************************************************************************)
(* webserver/fileset.c makes a set of files and an index of them, from     *)
(* which webserver/client.c (init_fileset) learns what to ask for and what *)
(* to expect.  Sizes are counted in blocks of 4096 bytes.                  *)
(*                                                                         *)
(* A step of the generator is one turn of its loop, with the file that it  *)
(* makes, or the writing of the index; a step of the client is one line.   *)
(***************************************************************************)
EXTENDS Integers, Sequences, SequencesExt, FiniteSetsExt

CONSTANTS
    Half,      \* an int holds the numbers from -Half to Half - 1
    Means, Numbers,  \* the mean sizes and numbers of files asked for
    BlockSums, \* what the blocks of a file add up to, block by block
    MaxLines,  \* the lines that fit into idx_buffer
    Garbage    \* what malloc left in memory

ASSUME FilesetAssumption ==
    /\ Half \in Nat \ {0} /\ MaxLines \in Nat
    /\ Means \subseteq Nat \ {0, 1} /\ Numbers \subseteq Nat \ {0}
    /\ BlockSums \subseteq Seq(Nat)

VARIABLES
    spaced,      \* the name of the directory has a space in it
    total,       \* total_fileset_sz
    current,     \* current_fileset_sz
    files,       \* the files made, in order; the k-th is called k
    idx_buffer,
    index,       \* the index file: lines, each a sequence of fields
    written,     \* what is in it: an "old" index, a "cut" one or the "whole"
    fileset,     \* the client's table
    fs_pc

fsVars == <<spaced, total, current, files, idx_buffer, index, written, fileset, fs_pc>>

Wrap(n) == ((n + Half) % (2 * Half)) - Half

\* What a double too large for an int is converted to.
TooLarge == -Half

FsInit(mean, number, space, old) ==
    /\ spaced = space
    /\ total = Wrap(mean * number)
    /\ current = 0
    /\ files = <<>> /\ idx_buffer = <<>>
    /\ index = old /\ written = "old"
    /\ fileset = <<>>
    /\ fs_pc = "start"

Fs(from, to) == fs_pc = from /\ fs_pc' = to /\ UNCHANGED <<spaced, total>>

Csum(content) == FoldLeft(LAMBDA a, b : a + b, 0, content)

-----------------------------------------------------------------------------
\* The directory is made, or the regular files in it are removed.
FsStart ==
    /\ Fs("start", "make") \/ Fs("start", "failed")
    /\ UNCHANGED <<current, files, idx_buffer, index, written, fileset>>

\* One turn of the loop.  When it fails there may be no file, or the beginning
\* of one; its line may be one too many for the buffer.
FsFile ==
    /\ current < total
    /\ \E content \in BlockSums \cup {<<>>} :
          LET file_sz == IF content = <<>> THEN TooLarge ELSE Len(content)
          IN  \/ /\ Fs("make", "failed")
                 /\ files' \in {files} \cup {Append(files, SubSeq(content, 1, k)) : k \in 0 .. Len(content)}
                 /\ UNCHANGED <<current, idx_buffer>>
              \/ /\ Fs("make", IF Len(files) < MaxLines THEN "make" ELSE "failed")
                 /\ files' = Append(files, content)
                 /\ current' = Wrap(current + file_sz)
                 /\ idx_buffer' =
                       Append(idx_buffer, <<Len(files'), Csum(content), file_sz>>)
    /\ UNCHANGED <<index, written, fileset>>

\* The index goes to a file that open empties, or into which not all of it gets.
FsIndex ==
    LET whole == <<<<Len(files)>>>> \o idx_buffer
    IN  /\ current >= total
        /\ \/ Fs("make", "failed") /\ UNCHANGED <<index, written>>
           \/ /\ Fs("make", "made")
              /\ index' = whole /\ written' = "whole"
           \/ /\ Fs("make", "failed")
              /\ \E k \in DOMAIN whole : \E f \in 0 .. (Len(whole[k]) - 1) :
                    index' = SubSeq(whole, 1, k - 1) \o
                                 (IF f = 0 THEN <<>> ELSE <<SubSeq(whole[k], 1, f)>>)
              /\ written' = "cut"
        /\ UNCHANGED <<current, files, idx_buffer, fileset>>

\* init_fileset opens the index and reads the number of files.
FsOpen ==
    /\ fs_pc \in {"made", "failed"}
    /\ Fs(fs_pc, IF index # <<>> /\ index[1][1] > 0 THEN "load" ELSE "abort")
    /\ UNCHANGED <<current, files, idx_buffer, index, written, fileset>>

\* sscanf stops at the space in a name and where the line ends.
Fields(line) == [f \in 1 .. 3 |-> IF spaced \/ f > Len(line) THEN Garbage ELSE line[f]]

FsLine ==
    LET i == Len(fileset)
    IN  /\ i + 1 < Len(index)
        /\ \/ /\ i < index[1][1]
              /\ Fs("load", "load")
              /\ fileset' = Append(fileset, Fields(index[i + 2]))
           \/ /\ i >= index[1][1]
              /\ Fs("load", "abort")
              /\ UNCHANGED fileset
        /\ UNCHANGED <<current, files, idx_buffer, index, written>>

\* The end of the index: as many lines as its first one says.
Complete_fault(i) == i > 0
Complete(i) == i = index[1][1]

FsLoaded ==
    /\ Len(fileset) + 1 = Len(index)
    /\ Fs("load", IF Complete(Len(fileset)) THEN "loaded" ELSE "abort")
    /\ UNCHANGED <<current, files, idx_buffer, index, written, fileset>>

FsNext == FsStart \/ FsFile \/ FsIndex \/ FsOpen \/ FsLine \/ FsLoaded

FsStopped == fs_pc \in {"loaded", "abort"}

-----------------------------------------------------------------------------
FsTypeOK ==
    /\ spaced \in BOOLEAN
    /\ {total, current} \subseteq -Half .. (Half - 1)
    /\ Len(files) <= MaxLines + 1
    /\ Len(idx_buffer) \in {Len(files) - 1, Len(files)}
    /\ written \in {"old", "cut", "whole"}
    /\ fs_pc \in {"start", "make", "made", "failed", "load"} \/ FsStopped

Agrees(k) == /\ fileset[k][1] = k
             /\ fileset[k][2] = Csum(files[k])
             /\ fileset[k][3] = (IF files[k] = <<>> THEN TooLarge ELSE Len(files[k]))

\* Whenever the client starts with an index the generator wrote, what it expects
\* is what is in the directory, and an index that did not get to the disk as a
\* whole is noticed, unless the end is missing of its last line alone; a whole
\* one is refused only when the size asked for is no int.  For a directory with
\* a space in its name the table is worth nothing.
FsRoundTrip ==
    /\ fs_pc = "loaded" /\ written # "old" =>
          /\ Len(fileset) = Len(files)
          /\ ~spaced => \A k \in DOMAIN files :
                Agrees(k) \/ (written = "cut" /\ k = Len(files))
    /\ fs_pc = "abort" /\ written = "whole" => total <= 0
=============================================================================
