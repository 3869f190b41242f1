----------------------------- MODULE ByteStream -----------------------------
(***************************************************************************)
(* What a connection promises to the two programs at its ends: the bytes   *)
(* one of them reads are the bytes the other one wrote, in order, without  *)
(* loss or repetition.                                                     *)
(***************************************************************************)
EXTENDS Integers, Sequences

CONSTANTS Ends, Bytes

VARIABLES
    sent,   \* sent[e]: all that was written towards e
    got     \* got[e]: all that e has read

Init ==
    /\ sent \in [Ends -> Seq(Bytes)]
    /\ got = [e \in Ends |-> <<>>]

Write(e) ==
    /\ sent' \in [Ends -> Seq(Bytes)]
    /\ Len(sent[e]) <= Len(sent'[e])
    /\ SubSeq(sent'[e], 1, Len(sent[e])) = sent[e]
    /\ \A d \in Ends \ {e} : sent'[d] = sent[d]
    /\ UNCHANGED got

Read(e) ==
    /\ Len(got[e]) < Len(sent[e])
    /\ got' = [got EXCEPT ![e] = Append(@, sent[e][Len(@) + 1])]
    /\ UNCHANGED sent

Next == \E e \in Ends : Write(e) \/ Read(e)

Spec == Init /\ [][Next]_<<sent, got>>
=============================================================================
