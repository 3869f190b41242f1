----------------------------- MODULE WordCount -----------------------------
(***************************************************************************)
(* warmup/wc.c: the words of a text are counted in a hash table with       *)
(* linear probing, printed and freed.                                      *)
(*                                                                         *)
(* A step is one call of wordfromstr, one turn of wc_init's loop with the  *)
(* word it found, or one of the other two functions.  Where a word hashes  *)
(* to is chosen when the word is first seen.  The program stops where C    *)
(* has no meaning for what it does, or where it never comes back.          *)
(***************************************************************************)
EXTENDS Integers, Sequences, SequencesExt, FiniteSetsExt

CONSTANTS
    Texts,   \* the texts considered: sequences of characters
    Space    \* the character that isspace accepts

ASSUME WcAssumption == \A t \in Texts : t \in Seq(ToSet(t))

NoBucket == [word |-> <<>>, count |-> 0]

VARIABLES
    text,      \* word_array, of length size
    hash,      \* hashfn, as far as it was used
    buckets,   \* wc->top, from 0 on; NoBucket is NULL
    i,         \* wc_init's index of the next word
    word,      \* the word wordfromstr returned
    printed,   \* what wc_output printed, by the bucket it came from
    wc_pc

wcVars == <<text, hash, buckets, i, word, printed, wc_pc>>

Size == Len(text)

\* Two buckets for every five characters.
NumBuckets(size) == (2 * size) \div 5
Slots == 0 .. (NumBuckets(Size) - 1)

WcInit(t) ==
    /\ text = t
    /\ hash = <<>>
    /\ buckets = [b \in 0 .. (NumBuckets(Len(t)) - 1) |-> NoBucket]
    /\ i = 0
    /\ word = <<>>
    /\ printed = <<>>
    /\ wc_pc = "split"

Wc(from, to) == wc_pc = from /\ wc_pc' = to /\ UNCHANGED text

-----------------------------------------------------------------------------
\* The end of the word that starts at index k: a separator or the end.
WordEnd(k) == Min({Size} \cup {j \in k .. (Size - 1) : text[j + 1] = Space})

\* The index behind the separator that ends the word is where the next begins.
NextStart_fault(end) == end
NextStart(end) == end + 1

\* wordfromstr: an empty word is skipped, by a call that looks from the next
\* index on; behind the last word there is no end to these calls.
WordFromStr ==
    LET starts == {k \in i .. (Size - 1) : text[k + 1] # Space}
    IN  /\ i < Size
        /\ \/ /\ starts = {}
              /\ Wc("split", "lost")
              /\ UNCHANGED <<i, word>>
           \/ /\ starts # {}
              /\ LET k == Min(starts)
                 IN  /\ word' = SubSeq(text, k + 1, WordEnd(k))
                     /\ i' = NextStart(WordEnd(k))
              /\ Wc("split", "insert")
        /\ UNCHANGED <<hash, buckets, printed>>

\* The first bucket from b on that is free or has the word.
Probe_fault(b) == {s \in Slots : s >= b /\ buckets[s] = NoBucket}
Probe(b) == {s \in Slots : s >= b /\ (buckets[s] = NoBucket \/ buckets[s].word = word)}

\* The rest of wc_init's loop.  Without buckets the hash is taken modulo 0, and
\* behind the last bucket the probing reads on in memory.
CountWord ==
    /\ wc_pc = "insert"
    /\ \/ /\ Slots = {}
          /\ Wc("insert", "mod0")
          /\ UNCHANGED <<hash, buckets>>
       \/ \E b \in IF word \in DOMAIN hash THEN {hash[word]} ELSE Slots :
             /\ hash' = [w \in DOMAIN hash \cup {word} |->
                            IF w = word THEN b ELSE hash[w]]
             /\ \/ /\ Probe(b) = {}
                   /\ Wc("insert", "overrun")
                   /\ UNCHANGED buckets
                \/ /\ Probe(b) # {}
                   /\ buckets' = [buckets EXCEPT ![Min(Probe(b))] =
                                 [word |-> word, count |-> @.count + 1]]
                   /\ Wc("insert", "split")
    /\ UNCHANGED <<i, word, printed>>

Output ==
    /\ i >= Size
    /\ Wc("split", "output")
    /\ printed' = [b \in {s \in Slots : buckets[s] # NoBucket} |-> buckets[b]]
    /\ UNCHANGED <<hash, buckets, i, word>>

Destroy ==
    /\ Wc("output", "destroyed")
    /\ buckets' = [b \in Slots |-> NoBucket]
    /\ UNCHANGED <<hash, i, word, printed>>

WcNext == WordFromStr \/ CountWord \/ Output \/ Destroy

WcStopped == wc_pc \in {"lost", "mod0", "overrun", "destroyed"}

-----------------------------------------------------------------------------
WcTypeOK ==
    /\ text \in Texts
    /\ \A w \in DOMAIN hash : hash[w] \in Slots
    /\ DOMAIN buckets = Slots
    /\ \A b \in Slots : buckets[b].count \in 0 .. Size
    /\ i \in 0 .. (Size + 1)
    /\ wc_pc \in {"split", "insert", "output"} \/ WcStopped

\* The reference: a word is a stretch without separators that cannot be
\* extended on either side.
Runs == {r \in (1 .. Size) \X (1 .. Size) :
            /\ r[1] <= r[2]
            /\ \A k \in r[1] .. r[2] : text[k] # Space
            /\ r[1] = 1 \/ text[r[1] - 1] = Space
            /\ r[2] = Size \/ text[r[2] + 1] = Space}

WordAt(r) == SubSeq(text, r[1], r[2])
Words == {WordAt(r) : r \in Runs}
Occurrences(w) == Cardinality({r \in Runs : WordAt(r) = w})

\* What is printed is every word of the text, once, with the number of times it
\* occurs, whatever collides in the table.
CountsRight ==
    wc_pc = "output" =>
        /\ {printed[b] : b \in DOMAIN printed}
              = {[word |-> w, count |-> Occurrences(w)] : w \in Words}
        /\ Cardinality(DOMAIN printed) = Cardinality(Words)

\* The program comes to nothing only with a text too short for a bucket, one
\* that ends in more separators than one, or more room needed behind some
\* bucket than there is.
FailsOnlyThere ==
    /\ wc_pc = "mod0" => Size <= 2
    /\ wc_pc = "lost" =>
          text[Size] = Space /\ (Size > 1 => text[Size - 1] = Space)
    /\ wc_pc = "overrun" =>
          LET b == hash[word]
          IN  Cardinality({w \in DOMAIN hash : \E s \in Slots : s >= b /\ buckets[s].word = w})
                 = NumBuckets(Size) - b

\* wc prints the right counts, and fails for the right reasons only.
WcCorrect == CountsRight /\ FailsOnlyThere
=============================================================================
