-------------------------- MODULE Programs_proofs --------------------------
(***************************************************************************)
(* Proofs about the parts that MCPrograms puts side by side.  First each   *)
(* as a specification of its own: the signal mask of Interrupts, the       *)
(* linked list of NodeQueue, the index of Fileset, the server's start and  *)
(* end in ServerLoop, and the hash table of WordCount; the invariant of    *)
(* CopyTree is that of CopyTree_proofs.  Then all of them together, as     *)
(* MCPrograms runs them.                                                   *)
(***************************************************************************)
EXTENDS MCPrograms, CopyTree_proofs, QueueFacts, FunctionTheorems, FiniteSetTheorems

-----------------------------------------------------------------------------
(* Interrupts *)

\* One thread is there when thread_init returns.
IntrSpec(t) == IntrInit(t) /\ [][IntrNext]_intrVars

\* The calls a thread is in: the outermost one found the signal enabled and
\* every other one found it blocked; a thread that was never run is in
\* thread_stub alone.
WellNested(s) ==
    /\ s \in Seq(Frames)
    /\ \A k \in 1 .. Len(s) :
          /\ s[k].i <=> k = Len(s) /\ s[k].fn # "stub"
          /\ s[k].fn = "stub" => Len(s) = 1 /\ s[k].at = "enter"

\* A thread that does not run is in one place, was switched away inside a call,
\* and was so with the signal blocked.
SwitchedAway ==
    /\ IsInjective(ready)
    /\ ToSet(ready) \cap asleep = {}
    /\ onCpu \notin ToSet(ready) \cup asleep
    /\ \A u \in ToSet(ready) \cup asleep : ~ctx[u] /\ stack[u] # <<>>

IntrInv ==
    /\ IntrTypeOK /\ MaskRight
    /\ \A u \in Tasks : WellNested(stack[u])
    /\ onCpu # NoTask => SwitchedAway

\* What a call or a return does to the calls of a thread.
LEMMA PushFacts ==
  ASSUME NEW S, NEW e \in S, NEW s \in Seq(S)
  PROVE  /\ <<e>> \o s \in Seq(S)
         /\ <<e>> \o s # <<>>
         /\ Len(<<e>> \o s) = Len(s) + 1
         /\ Head(<<e>> \o s) = e
         /\ (<<e>> \o s)[1] = e
         /\ \A k \in 1 .. Len(s) : (<<e>> \o s)[k + 1] = s[k]
<1> DEFINE one == <<e>>
<1>1. one \in Seq(S) /\ Len(one) = 1 /\ one[1] = e
  OBVIOUS
<1> HIDE DEF one
<1> DEFINE r == one \o s
<1>2. Len(s) \in Nat
  OBVIOUS
<1>3. /\ r \in Seq(S)
      /\ Len(r) = Len(one) + Len(s)
      /\ \A ix \in 1 .. (Len(one) + Len(s)) :
            r[ix] = IF ix <= Len(one) THEN one[ix] ELSE s[ix - Len(one)]
  BY <1>1, ConcatProperties
<1> HIDE DEF r
<1>4. /\ Len(r) = Len(s) + 1
      /\ r[1] = e
      /\ \A k \in 1 .. Len(s) : r[k + 1] = s[k]
  BY <1>1, <1>2, <1>3
<1>5. r # <<>> /\ Head(r) = e
  BY <1>2, <1>3, <1>4
<1> QED
  BY <1>3, <1>4, <1>5 DEF one, r

\* A call made while the signal is blocked.
LEMMA PushNested ==
  ASSUME NEW s, WellNested(s), s # <<>>, Head(s).fn # "stub",
         NEW e \in Frames, ~e.i, e.fn # "stub"
  PROVE  WellNested(<<e>> \o s)
<1> DEFINE r == <<e>> \o s
<1>1. s \in Seq(Frames) /\ Len(s) \in Nat /\ Len(s) >= 1 /\ Head(s) = s[1]
  BY DEF WellNested
<1>2. /\ r \in Seq(Frames)
      /\ Len(r) = Len(s) + 1
      /\ r[1] = e
      /\ \A k \in 1 .. Len(s) : r[k + 1] = s[k]
  BY <1>1, PushFacts
<1> HIDE DEF r
<1>3. \A k \in 1 .. Len(s) : s[k].fn # "stub" /\ (s[k].i <=> k = Len(s))
  BY <1>1 DEF WellNested
<1>4. ASSUME NEW k \in 1 .. Len(r)
      PROVE  (r[k].i <=> k = Len(r)) /\ r[k].fn # "stub"
  <2>1. CASE k = 1
    BY <1>1, <1>2, <2>1
  <2>2. CASE k # 1
    <3>1. k - 1 \in 1 .. Len(s) /\ r[k] = s[k - 1]
      BY <1>1, <1>2, <2>2
    <3>2. k = Len(r) <=> k - 1 = Len(s)
      BY <1>1, <1>2
    <3> QED
      BY <1>3, <3>1, <3>2
  <2> QED
    BY <2>1, <2>2
<1> QED
  BY <1>2, <1>4 DEF WellNested, r

\* The function works, and is then on its way back.
LEMMA BackNested ==
  ASSUME NEW s, WellNested(s), s # <<>>, Head(s).fn # "stub"
  PROVE  LET r == <<[Head(s) EXCEPT !.at = "back"]>> \o Tail(s)
         IN  WellNested(r) /\ r # <<>> /\ Head(r).fn # "stub"
<1> DEFINE e == [Head(s) EXCEPT !.at = "back"]
           rest == Tail(s)
           r == <<e>> \o rest
<1>1. s \in Seq(Frames) /\ Len(s) \in Nat /\ Len(s) >= 1 /\ Head(s) = s[1]
  BY DEF WellNested
<1>2. s[1] \in Frames
  BY <1>1
<1>3. e \in Frames /\ e.i = s[1].i /\ e.fn = s[1].fn
  BY <1>1, <1>2 DEF Frames
<1>4. /\ rest \in Seq(Frames)
      /\ Len(rest) = Len(s) - 1
      /\ \A j \in 1 .. Len(rest) : rest[j] = s[j + 1]
  BY <1>1, HeadTailProperties
<1> HIDE DEF e, rest
<1>5. /\ r \in Seq(Frames)
      /\ r # <<>>
      /\ Len(r) = Len(rest) + 1
      /\ Head(r) = e
      /\ r[1] = e
      /\ \A k \in 1 .. Len(rest) : r[k + 1] = rest[k]
  BY <1>3, <1>4, PushFacts
<1> HIDE DEF r
<1>6. \A k \in 1 .. Len(s) : s[k].fn # "stub" /\ (s[k].i <=> k = Len(s))
  BY <1>1 DEF WellNested
<1>7. ASSUME NEW k \in 1 .. Len(r)
      PROVE  (r[k].i <=> k = Len(r)) /\ r[k].fn # "stub"
  <2>1. k \in 1 .. Len(s) /\ Len(r) = Len(s)
    BY <1>1, <1>4, <1>5
  <2>2. r[k].i = s[k].i /\ r[k].fn = s[k].fn
    <3>1. CASE k = 1
      BY <1>3, <1>5, <3>1
    <3>2. CASE k # 1
      <4>1. /\ k - 1 \in 1 .. Len(rest)
            /\ r[(k - 1) + 1] = rest[k - 1] /\ rest[k - 1] = s[(k - 1) + 1]
            /\ (k - 1) + 1 = k
        BY <1>1, <1>4, <1>5, <2>1, <3>2
      <4> QED
        BY <4>1
    <3> QED
      BY <3>1, <3>2
  <2> QED
    BY <1>6, <2>1, <2>2
<1>8. Head(r).fn # "stub"
  BY <1>1, <1>3, <1>5, <1>6
<1> QED
  BY <1>5, <1>7, <1>8 DEF WellNested, r, e, rest

\* A function returns: what it restores is right for its caller.
LEMMA TailNested ==
  ASSUME NEW s, WellNested(s), s # <<>>
  PROVE  /\ WellNested(Tail(s))
         /\ Head(s).fn # "stub" => (Head(s).i <=> Tail(s) = <<>>)
         /\ Head(s).fn = "stub" => Tail(s) = <<>>
<1> DEFINE r == Tail(s)
<1>1. s \in Seq(Frames) /\ Len(s) \in Nat /\ Len(s) >= 1 /\ Head(s) = s[1]
  BY DEF WellNested
<1>2. /\ r \in Seq(Frames)
      /\ Len(r) = Len(s) - 1
      /\ \A j \in 1 .. Len(r) : r[j] = s[j + 1]
  BY <1>1, HeadTailProperties
<1> HIDE DEF r
<1>3. r = <<>> <=> Len(s) = 1
  <2>1. r = <<>> <=> Len(r) = 0
    BY <1>2
  <2> QED
    BY <1>1, <1>2, <2>1
<1>4. \A k \in 1 .. Len(s) : /\ s[k].i <=> k = Len(s) /\ s[k].fn # "stub"
                             /\ s[k].fn = "stub" => Len(s) = 1 /\ s[k].at = "enter"
  BY DEF WellNested
<1>5. ASSUME NEW k \in 1 .. Len(r)
      PROVE  (r[k].i <=> k = Len(r)) /\ r[k].fn # "stub"
  <2>1. k + 1 \in 1 .. Len(s) /\ r[k] = s[k + 1] /\ Len(s) # 1
    BY <1>1, <1>2
  <2>2. k + 1 = Len(s) <=> k = Len(r)
    BY <1>1, <1>2
  <2> QED
    BY <1>4, <2>1, <2>2
<1>6. Head(s).fn # "stub" => (Head(s).i <=> Len(s) = 1)
  <2>0. 1 \in 1 .. Len(s)
    BY <1>1
  <2>1. s[1].i <=> 1 = Len(s) /\ s[1].fn # "stub"
    BY <1>4, <2>0, Zenon
  <2> QED
    BY <1>1, <2>1
<1>7. Head(s).fn = "stub" => Len(s) = 1
  BY <1>1, <1>4
<1> QED
  BY <1>2, <1>3, <1>5, <1>6, <1>7 DEF WellNested, r

\* The first call of a thread.
LEMMA OneNested ==
  ASSUME NEW e \in Frames, e.i <=> e.fn # "stub", e.fn = "stub" => e.at = "enter"
  PROVE  WellNested(<<e>>) /\ <<e>> # <<>> /\ Head(<<e>>) = e
  BY DEF WellNested

\* A step that leaves the queues alone and ends with the calls s.
LEMMA LocalStep ==
  ASSUME IntrInv, onCpu # NoTask, NEW s, WellNested(s),
         stack' = [stack EXCEPT ![onCpu] = s],
         UNCHANGED <<onCpu, ready, asleep, ctx>>,
         enabled' \in BOOLEAN, enabled' <=> s = <<>>,
         timer' \in {"armed", "pending", "off"},
         timer' = "off" => s # <<>> /\ Head(s).fn = "handler" /\ Head(s).at = "enter"
  PROVE  IntrInv'
<1>1. onCpu \in Tasks /\ stack \in [Tasks -> Seq(Frames)] /\ s \in Seq(Frames)
  BY DEF IntrInv, IntrTypeOK, WellNested
<1>2. stack'[onCpu] = s /\ \A u \in Tasks \ {onCpu} : stack'[u] = stack[u]
  BY <1>1
<1>3. stack' \in [Tasks -> Seq(Frames)]
  BY <1>1
<1>4. IntrTypeOK'
  BY <1>3 DEF IntrInv, IntrTypeOK
<1>5. \A u \in Tasks : WellNested(stack'[u])
  BY <1>2 DEF IntrInv
<1>6. MaskRight'
  BY <1>2 DEF MaskRight, InProgram, Top, In
<1>7. SwitchedAway'
  <2>1. ToSet(ready) \cup asleep \subseteq Tasks \ {onCpu}
    <3>1. ToSet(ready) \subseteq Tasks
      BY ByPosition DEF IntrInv, IntrTypeOK
    <3> QED
      BY <3>1 DEF IntrInv, IntrTypeOK, SwitchedAway
  <2>2. \A u \in ToSet(ready) \cup asleep : stack'[u] = stack[u]
    BY <1>2, <2>1
  <2> QED
    BY <2>2 DEF IntrInv, SwitchedAway
<1> QED
  BY <1>4, <1>5, <1>6, <1>7 DEF IntrInv

\* A thread that is inside a function has the signal blocked, and is not in
\* thread_stub.
LEMMA Inside ==
  ASSUME IntrInv, NEW fn, fn # "stub", In(fn)
  PROVE  /\ onCpu \in Tasks /\ WellNested(stack[onCpu]) /\ stack[onCpu] # <<>>
         /\ Head(stack[onCpu]).fn = fn
         /\ enabled = FALSE
         /\ WellNested(Back) /\ Back # <<>> /\ Head(Back).fn # "stub"
         /\ fn # "handler" => timer # "off"
<1>1. /\ onCpu \in Tasks /\ WellNested(stack[onCpu]) /\ stack[onCpu] # <<>>
      /\ Head(stack[onCpu]).fn = fn
      /\ enabled = FALSE
  BY DEF In, IntrInv, IntrTypeOK, MaskRight, InProgram, Top
<1>2. WellNested(Back) /\ Back # <<>> /\ Head(Back).fn # "stub"
  BY <1>1, BackNested DEF Back, Top
<1>3. fn # "handler" => timer # "off"
  BY DEF In, IntrInv, MaskRight
<1> QED
  BY <1>1, <1>2, <1>3

\* Another thread gets the CPU.
LEMMA SwitchStep ==
  ASSUME IntrInv, NEW fn, fn \notin {"stub", "handler"}, In(fn),
         NEW t \in ToSet(ready), SwitchTo(t), UNCHANGED timer,
         ready' \in Seq(Tasks), asleep' \subseteq Tasks,
         IsInjective(ready'), ToSet(ready') \cap asleep' = {},
         t \notin ToSet(ready') \cup asleep',
         ToSet(ready') \cup asleep' \subseteq ToSet(ready) \cup asleep \cup {onCpu}
  PROVE  IntrInv'
<1>1. /\ onCpu \in Tasks /\ onCpu # NoTask
      /\ enabled = FALSE /\ timer # "off"
      /\ WellNested(Back) /\ Back # <<>>
  BY Inside, IntrAssumption
<1>2. /\ stack \in [Tasks -> Seq(Frames)] /\ ctx \in [Tasks -> BOOLEAN]
      /\ ToSet(ready) \subseteq Tasks /\ asleep \subseteq Tasks
      /\ timer \in {"armed", "pending", "off"}
  BY ByPosition DEF IntrInv, IntrTypeOK
<1>3. /\ onCpu \notin ToSet(ready) \cup asleep
      /\ \A u \in ToSet(ready) \cup asleep : ~ctx[u] /\ stack[u] # <<>>
      /\ \A u \in Tasks : WellNested(stack[u])
  BY <1>1 DEF IntrInv, SwitchedAway
<1>4. t \in Tasks /\ t # onCpu /\ t # NoTask
  BY <1>2, <1>3, IntrAssumption
<1>5. /\ onCpu' = t
      /\ ctx' = [ctx EXCEPT ![onCpu] = enabled]
      /\ enabled' = ctx[t]
      /\ stack' = [stack EXCEPT ![onCpu] = Back]
  BY DEF SwitchTo
<1>6. /\ \A u \in Tasks \ {onCpu} : stack'[u] = stack[u] /\ ctx'[u] = ctx[u]
      /\ stack'[onCpu] = Back /\ ctx'[onCpu] = FALSE
      /\ ctx[t] = FALSE
  BY <1>1, <1>2, <1>3, <1>4, <1>5
<1>7. Back \in Seq(Frames)
  BY <1>1 DEF WellNested
<1>8. stack' \in [Tasks -> Seq(Frames)] /\ ctx' \in [Tasks -> BOOLEAN]
  BY <1>1, <1>2, <1>5, <1>7
<1>9. IntrTypeOK'
  BY <1>2, <1>4, <1>5, <1>6, <1>8 DEF IntrTypeOK
<1>10. \A u \in Tasks : WellNested(stack'[u])
  BY <1>1, <1>3, <1>6
<1>11. stack'[t] = stack[t] /\ stack[t] # <<>> /\ enabled' = FALSE
  BY <1>3, <1>4, <1>5, <1>6
<1>12. MaskRight'
  BY <1>1, <1>5, <1>11 DEF MaskRight, InProgram
<1>13. \A u \in ToSet(ready') \cup asleep' : ~ctx'[u] /\ stack'[u] # <<>>
  <2> TAKE u \in ToSet(ready') \cup asleep'
  <2>1. CASE u = onCpu
    BY <1>1, <1>6, <2>1
  <2>2. CASE u # onCpu
    <3>1. u \in ToSet(ready) \cup asleep /\ u \in Tasks
      BY <1>2, <2>2
    <3> QED
      BY <1>3, <1>6, <2>2, <3>1
  <2> QED
    BY <2>1, <2>2
<1>14. SwitchedAway'
  BY <1>5, <1>13 DEF SwitchedAway
<1> QED
  BY <1>9, <1>10, <1>12, <1>14 DEF IntrInv

\* The actions in turn.
LEMMA ReturnKeeps == ASSUME IntrInv, Return PROVE IntrInv'
<1> DEFINE s == stack[onCpu]
           r == Tail(s)
<1>1. onCpu \in Tasks /\ onCpu # NoTask /\ s # <<>> /\ Head(s).at = "back" /\ WellNested(s)
  BY DEF Return, InProgram, Top, IntrInv, IntrTypeOK
<1>2. s \in Seq(Frames) /\ Len(s) >= 1 /\ Head(s) = s[1]
  BY <1>1 DEF WellNested
<1>3. Head(s) \in Frames
  BY <1>2
<1>4. Head(s).fn # "stub"
  <2>1. 1 \in 1 .. Len(s)
    BY <1>2
  <2> QED
    BY <1>1, <1>2, <2>1 DEF WellNested
<1>5. stack' = [stack EXCEPT ![onCpu] = r]
  BY DEF Return
<1>6. enabled' = Head(s).i
  BY DEF Return, Restore, Top
<1>7. Head(s).i \in BOOLEAN
  BY <1>3 DEF Frames
<1>8. WellNested(r) /\ (Head(s).i <=> r = <<>>)
  BY <1>1, <1>4, TailNested
<1>9. timer # "off" /\ timer \in {"armed", "pending", "off"}
  BY <1>1 DEF IntrInv, IntrTypeOK, MaskRight, In, Top
<1>10. UNCHANGED <<onCpu, ready, asleep, ctx>> /\ UNCHANGED timer
  BY DEF Return
<1>11. enabled' \in BOOLEAN /\ (enabled' <=> r = <<>>)
  BY <1>6, <1>7, <1>8
<1> HIDE DEF s, r
<1> QED
  BY <1>1, <1>5, <1>8, <1>9, <1>10, <1>11, LocalStep

\* A function has done its work without a switch, or does nothing.
LEMMA BackKeeps ==
  ASSUME IntrInv, NEW fn, fn \notin {"stub", "handler"}, In(fn),
         stack' = [stack EXCEPT ![onCpu] = Back],
         UNCHANGED <<onCpu, ready, asleep, ctx, enabled, timer>>
  PROVE  IntrInv'
<1>1. /\ enabled = FALSE /\ timer # "off" /\ onCpu # NoTask
      /\ WellNested(Back) /\ Back # <<>>
  BY Inside, IntrAssumption
<1>2. timer \in {"armed", "pending", "off"}
  BY DEF IntrInv, IntrTypeOK
<1> DEFINE b == Back
<1>3. /\ WellNested(b) /\ b # <<>> /\ stack' = [stack EXCEPT ![onCpu] = b]
  BY <1>1
<1> HIDE DEF b
<1> QED
  BY <1>1, <1>2, <1>3, LocalStep

LEMMA NothingKeeps == ASSUME IntrInv, Nothing PROVE IntrInv'
<1>1. PICK fn \in Calls : In(fn)
  BY DEF Nothing, Calls
<1>2. fn \notin {"stub", "handler"}
  BY DEF Calls
<1> QED
  BY <1>1, <1>2, BackKeeps DEF Nothing

LEMMA CallFrameFacts ==
  ASSUME NEW fn \in Calls \cup {"handler", "stub"}, enabled \in BOOLEAN
  PROVE  LET e == [fn |-> fn, i |-> enabled, at |-> "enter"]
         IN  /\ CallFrame(fn) = <<e>>
             /\ e \in Frames /\ e.i = enabled /\ e.fn = fn /\ e.at = "enter"
  BY DEF CallFrame, Frames

\* The program's own call.
LEMMA CallKeeps == ASSUME IntrInv, NEW fn \in Calls, Call(fn) PROVE IntrInv'
<1> DEFINE e == [fn |-> fn, i |-> enabled, at |-> "enter"]
           s == <<e>>
<1>1. onCpu # NoTask /\ InProgram /\ UNCHANGED <<onCpu, ready, asleep, ctx, timer>>
  BY DEF Call
<1>2. enabled = TRUE /\ timer # "off"
  BY <1>1 DEF IntrInv, IntrTypeOK, MaskRight, In
<1>3. timer \in {"armed", "pending", "off"}
  BY DEF IntrInv, IntrTypeOK
<1>4. CallFrame(fn) = s /\ e \in Frames /\ e.i = TRUE /\ e.fn = fn /\ e.at = "enter"
  BY <1>2, CallFrameFacts
<1>5. fn # "stub"
  BY DEF Calls
<1> HIDE DEF e
<1>6. WellNested(s) /\ s # <<>>
  BY <1>4, <1>5, OneNested
<1>7. enabled' = FALSE /\ stack' = [stack EXCEPT ![onCpu] = CallFrame(fn) \o <<>>]
  BY DEF Call, Enter
<1>8. s \o <<>> = s
  BY <1>4, ConcatEmptySeq, s \in Seq(Frames)
<1> HIDE DEF s
<1>9. stack' = [stack EXCEPT ![onCpu] = s]
  BY <1>4, <1>7, <1>8
<1> QED
  BY <1>1, <1>2, <1>3, <1>6, <1>7, <1>9, LocalStep

\* A call from inside.
LEMMA EnterKeeps ==
  ASSUME IntrInv, NEW fn, fn # "stub", In(fn), NEW new \in Calls,
         NEW callers, WellNested(callers), callers # <<>>, Head(callers).fn # "stub",
         Enter(new, callers), timer' \in {"armed", "pending"},
         UNCHANGED <<onCpu, ready, asleep, ctx>>
  PROVE  IntrInv'
<1> DEFINE e == [fn |-> new, i |-> enabled, at |-> "enter"]
           s == <<e>> \o callers
<1>1. enabled = FALSE /\ onCpu # NoTask
  BY Inside, IntrAssumption
<1>2. CallFrame(new) = <<e>> /\ e \in Frames /\ e.i = FALSE /\ e.fn = new
  BY <1>1, CallFrameFacts
<1>3. new # "stub"
  BY DEF Calls
<1>4. stack' = [stack EXCEPT ![onCpu] = s] /\ enabled' = FALSE
  BY <1>2 DEF Enter
<1> HIDE DEF e
<1>5. WellNested(s)
  BY <1>2, <1>3, PushNested
<1>6. s # <<>>
  BY <1>2, PushFacts DEF WellNested
<1> HIDE DEF s
<1> QED
  BY <1>1, <1>4, <1>5, <1>6, LocalStep

LEMMA NestedKeeps == ASSUME IntrInv, Nested PROVE IntrInv'
<1>1. timer \in {"armed", "pending", "off"} /\ UNCHANGED <<onCpu, ready, asleep, ctx, timer>>
  BY DEF Nested, IntrInv, IntrTypeOK
<1>2. CASE In("wait") /\ Enter("sleep", Back)
  <2>0. In("wait") /\ "wait" # "stub" /\ "wait" # "handler"
    BY <1>2
  <2>1. WellNested(Back) /\ Back # <<>> /\ Head(Back).fn # "stub" /\ timer # "off"
    BY <2>0, Inside
  <2> DEFINE b == Back
  <2>2. WellNested(b) /\ b # <<>> /\ Head(b).fn # "stub" /\ Enter("sleep", b)
    BY <1>2, <2>1
  <2>3. "sleep" \in Calls
    BY DEF Calls
  <2> HIDE DEF b
  <2> QED
    BY <1>1, <1>2, <2>1, <2>2, <2>3, EnterKeeps
<1>3. CASE In("wakeup_all") /\ Enter("wakeup", stack[onCpu])
  <2> DEFINE b == stack[onCpu]
  <2>0. In("wakeup_all") /\ "wakeup_all" # "stub" /\ "wakeup_all" # "handler"
    BY <1>3
  <2>1. WellNested(b) /\ b # <<>> /\ Head(b).fn = "wakeup_all" /\ timer # "off"
    BY <2>0, Inside
  <2>2. Enter("wakeup", b) /\ "wakeup" \in Calls
    BY <1>3 DEF Calls
  <2> HIDE DEF b
  <2> QED
    BY <1>1, <1>3, <2>1, <2>2, EnterKeeps
<1> QED
  BY <1>2, <1>3 DEF Nested

LEMMA HandlerKeeps == ASSUME IntrInv, Handler PROVE IntrInv'
<1> DEFINE b == Back
<1>1. /\ In("handler") /\ timer' = "armed" /\ Enter("yield", b)
      /\ UNCHANGED <<onCpu, ready, asleep, ctx>>
  BY DEF Handler, Rearmed
<1>2. WellNested(b) /\ b # <<>> /\ Head(b).fn # "stub"
  BY <1>1, Inside
<1>3. "yield" \in Calls
  BY DEF Calls
<1> HIDE DEF b
<1> QED
  BY <1>1, <1>2, <1>3, EnterKeeps

LEMMA SignalKeeps == ASSUME IntrInv, Signal PROVE IntrInv'
<1> DEFINE e == [fn |-> "handler", i |-> enabled, at |-> "enter"]
           s == <<e>>
<1>1. /\ onCpu # NoTask /\ enabled /\ timer' = "off"
      /\ UNCHANGED <<onCpu, ready, asleep, ctx>>
  BY DEF Signal
<1>2. enabled = TRUE /\ stack[onCpu] = <<>>
  BY <1>1 DEF IntrInv, IntrTypeOK, MaskRight, InProgram
<1>3. CallFrame("handler") = s /\ e \in Frames /\ e.i = TRUE /\ e.fn = "handler" /\ e.at = "enter"
  BY <1>2, CallFrameFacts
<1> HIDE DEF e
<1>4. WellNested(s) /\ s # <<>> /\ Head(s) = e
  BY <1>3, OneNested
<1>5. s \o <<>> = s
  BY <1>3, ConcatEmptySeq, s \in Seq(Frames)
<1> HIDE DEF s
<1>6. enabled' = FALSE /\ stack' = [stack EXCEPT ![onCpu] = s]
  BY <1>2, <1>3, <1>5 DEF Signal, Enter
<1> QED
  BY <1>1, <1>3, <1>4, <1>6, LocalStep

\* thread_stub unblocks the signal and calls the thread's function.
LEMMA StubKeeps == ASSUME IntrInv, Stub PROVE IntrInv'
<1> DEFINE s == stack[onCpu]
           r == Tail(s)
<1>1. /\ onCpu \in Tasks /\ onCpu # NoTask /\ s # <<>> /\ Head(s).fn = "stub"
      /\ WellNested(s) /\ timer # "off"
  BY DEF Stub, In, InProgram, Top, IntrInv, IntrTypeOK, MaskRight
<1>2. r = <<>> /\ WellNested(r)
  BY <1>1, TailNested
<1>3. /\ stack' = [stack EXCEPT ![onCpu] = r] /\ enabled' = TRUE
      /\ UNCHANGED <<onCpu, ready, asleep, ctx, timer>>
  BY DEF Stub
<1>4. timer \in {"armed", "pending", "off"}
  BY DEF IntrInv, IntrTypeOK
<1> HIDE DEF s, r
<1> QED
  BY <1>1, <1>2, <1>3, <1>4, LocalStep

LEMMA TimerKeeps == ASSUME IntrInv, TimerExpires PROVE IntrInv'
<1>1. /\ timer' = "pending"
      /\ UNCHANGED <<onCpu, ready, asleep, stack, ctx, enabled>>
  BY DEF TimerExpires
<1>2. IntrTypeOK' /\ MaskRight'
  BY <1>1 DEF IntrInv, IntrTypeOK, MaskRight, InProgram
<1>3. (onCpu # NoTask => SwitchedAway) => (onCpu # NoTask => SwitchedAway)'
  BY <1>1 DEF SwitchedAway
<1> QED
  BY <1>1, <1>2, <1>3 DEF IntrInv

\* The queues of a thread that is inside a function.
LEMMA QueuesInside ==
  ASSUME IntrInv, NEW fn, fn # "stub", In(fn)
  PROVE  /\ onCpu \in Tasks /\ ready \in Seq(Tasks) /\ asleep \subseteq Tasks
         /\ ToSet(ready) \subseteq Tasks
         /\ IsInjective(ready) /\ ToSet(ready) \cap asleep = {}
         /\ onCpu \notin ToSet(ready) \cup asleep
<1>1. onCpu \in Tasks /\ onCpu # NoTask
  BY Inside, IntrAssumption
<1> QED
  BY <1>1, ByPosition DEF IntrInv, IntrTypeOK, SwitchedAway

\* The queue of ready threads after one was taken out and the caller put in.
LEMMA Requeued ==
  ASSUME NEW q \in Seq(Tasks), NEW c \in Tasks, NEW t, NEW r \in Seq(Tasks),
         IsInjective(r), ToSet(r) = ToSet(q) \ {t}, c \notin ToSet(q), t \in ToSet(q)
  PROVE  /\ Append(r, c) \in Seq(Tasks) /\ IsInjective(Append(r, c))
         /\ ToSet(Append(r, c)) = (ToSet(q) \ {t}) \cup {c}
         /\ t \notin ToSet(Append(r, c))
<1>1. c \notin ToSet(r) /\ t # c
  OBVIOUS
<1>2. /\ Append(r, c) \in Seq(Tasks) /\ IsInjective(Append(r, c))
      /\ ToSet(Append(r, c)) = ToSet(r) \cup {c}
  BY <1>1, EnqueueFacts
<1> QED
  BY <1>1, <1>2

LEMMA YieldKeeps == ASSUME IntrInv, Yield PROVE IntrInv'
<1>1. PICK fn \in {"yield", "yield_to"} : In(fn)
  BY DEF Yield
<1>2. fn \notin {"stub", "handler"}
  OBVIOUS
<1>3. /\ onCpu \in Tasks /\ ready \in Seq(Tasks) /\ asleep \subseteq Tasks
      /\ ToSet(ready) \subseteq Tasks
      /\ IsInjective(ready) /\ ToSet(ready) \cap asleep = {}
      /\ onCpu \notin ToSet(ready) \cup asleep
  BY <1>1, <1>2, QueuesInside
<1>4. PICK t \in ToSet(ready), r \in Seq(Tasks) :
         /\ SwitchTo(t) /\ ready' = Append(r, onCpu)
         /\ IsInjective(r) /\ ToSet(r) = ToSet(ready) \ {t}
  <2>1. CASE In("yield") /\ ready # <<>> /\ SwitchTo(Head(ready)) /\ ready' = Append(Tail(ready), onCpu)
    <3>1. /\ Head(ready) \in ToSet(ready) /\ Tail(ready) \in Seq(Tasks)
          /\ IsInjective(Tail(ready)) /\ ToSet(Tail(ready)) = ToSet(ready) \ {Head(ready)}
      BY <1>3, <2>1, PopFacts
    <3> QED
      BY <2>1, <3>1
  <2>2. CASE \E k \in DOMAIN ready :
               SwitchTo(ready[k]) /\ ready' = Append(RemoveAt(ready, k), onCpu)
    <3>1. PICK k \in 1 .. Len(ready) :
             SwitchTo(ready[k]) /\ ready' = Append(RemoveAt(ready, k), onCpu)
      BY <1>3, <2>2
    <3>2. /\ ready[k] \in ToSet(ready) /\ RemoveAt(ready, k) \in Seq(Tasks)
          /\ IsInjective(RemoveAt(ready, k)) /\ ToSet(RemoveAt(ready, k)) = ToSet(ready) \ {ready[k]}
      BY <1>3, <3>1, RemoveFacts
    <3> QED
      BY <3>1, <3>2
  <2> QED
    BY <2>1, <2>2 DEF Yield
<1>5. /\ ready' \in Seq(Tasks) /\ IsInjective(ready')
      /\ ToSet(ready') = (ToSet(ready) \ {t}) \cup {onCpu}
      /\ t \notin ToSet(ready')
  BY <1>3, <1>4, Requeued
<1>6. asleep' = asleep /\ UNCHANGED timer
  BY DEF Yield
<1>7. /\ ToSet(ready') \cap asleep' = {} /\ t \notin ToSet(ready') \cup asleep'
      /\ ToSet(ready') \cup asleep' \subseteq ToSet(ready) \cup asleep \cup {onCpu}
      /\ asleep' \subseteq Tasks
  BY <1>3, <1>5, <1>6
<1> QED
  BY <1>1, <1>2, <1>4, <1>5, <1>6, <1>7, SwitchStep

LEMMA SleepKeeps == ASSUME IntrInv, Sleep PROVE IntrInv'
<1> DEFINE t == Head(ready)
<1>1. /\ In("sleep") /\ ready # <<>> /\ SwitchTo(t) /\ ready' = Tail(ready)
      /\ asleep' = asleep \cup {onCpu} /\ UNCHANGED timer
  BY DEF Sleep
<1>2. /\ onCpu \in Tasks /\ ready \in Seq(Tasks) /\ asleep \subseteq Tasks
      /\ ToSet(ready) \subseteq Tasks
      /\ IsInjective(ready) /\ ToSet(ready) \cap asleep = {}
      /\ onCpu \notin ToSet(ready) \cup asleep
  BY <1>1, QueuesInside
<1>3. /\ t \in ToSet(ready) /\ ready' \in Seq(Tasks)
      /\ IsInjective(ready') /\ ToSet(ready') = ToSet(ready) \ {t}
  BY <1>1, <1>2, PopFacts
<1> HIDE DEF t
<1>4. /\ ToSet(ready') \cap asleep' = {} /\ t \notin ToSet(ready') \cup asleep'
      /\ ToSet(ready') \cup asleep' \subseteq ToSet(ready) \cup asleep \cup {onCpu}
      /\ asleep' \subseteq Tasks
  BY <1>1, <1>2, <1>3
<1>5. "sleep" \notin {"stub", "handler"}
  OBVIOUS
<1> QED
  BY <1>1, <1>3, <1>4, <1>5, SwitchStep

\* A step of the running thread that puts threads into queues, or changes the
\* context of one that was not there, without a switch.
LEMMA WakeupKeeps == ASSUME IntrInv, Wakeup PROVE IntrInv'
<1> DEFINE b == Back
<1>0. "wakeup" # "stub" /\ "wakeup" # "handler" /\ In("wakeup")
  BY DEF Wakeup
<1>1. /\ onCpu \in Tasks /\ onCpu # NoTask
      /\ enabled = FALSE /\ timer # "off" /\ WellNested(b) /\ b # <<>>
  BY <1>0, Inside, IntrAssumption
<1>2. /\ ready \in Seq(Tasks) /\ asleep \subseteq Tasks /\ ToSet(ready) \subseteq Tasks
      /\ IsInjective(ready) /\ ToSet(ready) \cap asleep = {}
      /\ onCpu \notin ToSet(ready) \cup asleep
  BY <1>0, QueuesInside
<1>3. PICK t \in asleep : ready' = Append(ready, t) /\ asleep' = asleep \ {t}
  BY DEF Wakeup
<1>4. stack' = [stack EXCEPT ![onCpu] = b] /\ UNCHANGED <<onCpu, ctx, enabled, timer>>
  BY DEF Wakeup
<1>5. /\ ready' \in Seq(Tasks) /\ IsInjective(ready')
      /\ ToSet(ready') = ToSet(ready) \cup {t}
  BY <1>2, <1>3, EnqueueFacts
<1> HIDE DEF b
<1>6. /\ stack \in [Tasks -> Seq(Frames)] /\ b \in Seq(Frames)
      /\ \A u \in Tasks : WellNested(stack[u])
      /\ \A u \in ToSet(ready) \cup asleep : ~ctx[u] /\ stack[u] # <<>>
  BY <1>1 DEF IntrInv, IntrTypeOK, SwitchedAway, WellNested
<1>7. stack'[onCpu] = b /\ \A u \in Tasks \ {onCpu} : stack'[u] = stack[u]
  BY <1>1, <1>4, <1>6
<1>8. stack' \in [Tasks -> Seq(Frames)]
  BY <1>1, <1>4, <1>6
<1>9. IntrTypeOK'
  BY <1>2, <1>3, <1>4, <1>5, <1>8 DEF IntrInv, IntrTypeOK
<1>10. MaskRight'
  BY <1>1, <1>4, <1>7 DEF MaskRight, InProgram
<1>11. \A u \in Tasks : WellNested(stack'[u])
  BY <1>1, <1>6, <1>7
<1>12. SwitchedAway'
  <2>1. ToSet(ready') \cup asleep' = ToSet(ready) \cup asleep
    BY <1>3, <1>5
  <2>2. ToSet(ready') \cap asleep' = {}
    BY <1>2, <1>3, <1>5
  <2>3. \A u \in ToSet(ready) \cup asleep : stack'[u] = stack[u]
    BY <1>2, <1>7
  <2>4. \A u \in ToSet(ready') \cup asleep' : ~ctx'[u] /\ stack'[u] # <<>>
    BY <1>4, <1>6, <2>1, <2>3
  <2> QED
    BY <1>2, <1>4, <1>5, <2>1, <2>2, <2>4 DEF SwitchedAway
<1> QED
  BY <1>9, <1>10, <1>11, <1>12 DEF IntrInv

LEMMA CreateKeeps == ASSUME IntrInv, CreateTask PROVE IntrInv'
<1> DEFINE b == Back
           e == [fn |-> "stub", i |-> enabled, at |-> "enter"]
           s == <<e>>
<1>0. "create" # "stub" /\ "create" # "handler" /\ In("create")
  BY DEF CreateTask
<1>1. /\ onCpu \in Tasks /\ onCpu # NoTask
      /\ enabled = FALSE /\ timer # "off" /\ WellNested(b) /\ b # <<>>
  BY <1>0, Inside, IntrAssumption
<1>2. /\ ready \in Seq(Tasks) /\ asleep \subseteq Tasks /\ ToSet(ready) \subseteq Tasks
      /\ IsInjective(ready) /\ ToSet(ready) \cap asleep = {}
      /\ onCpu \notin ToSet(ready) \cup asleep
  BY <1>0, QueuesInside
<1>3. CallFrame("stub") = s /\ e \in Frames /\ e.i = FALSE /\ e.fn = "stub" /\ e.at = "enter"
  BY <1>1, CallFrameFacts
<1> HIDE DEF e
<1>4. WellNested(s) /\ s # <<>>
  BY <1>3, OneNested
<1> HIDE DEF b, s
<1>5. PICK t \in Unborn :
         /\ ready' = Append(ready, t)
         /\ ctx' = [ctx EXCEPT ![t] = enabled]
         /\ stack' = [stack EXCEPT ![onCpu] = b, ![t] = s]
  BY <1>3 DEF CreateTask, b
<1>6. UNCHANGED <<onCpu, asleep, enabled, timer>>
  BY DEF CreateTask
<1>7. t \in Tasks /\ t # onCpu /\ t \notin ToSet(ready) /\ t \notin asleep
  BY <1>5 DEF Unborn
<1>8. /\ ready' \in Seq(Tasks) /\ IsInjective(ready')
      /\ ToSet(ready') = ToSet(ready) \cup {t}
  BY <1>2, <1>5, <1>7, EnqueueFacts
<1>9. /\ stack \in [Tasks -> Seq(Frames)] /\ ctx \in [Tasks -> BOOLEAN]
      /\ b \in Seq(Frames) /\ s \in Seq(Frames)
      /\ \A u \in Tasks : WellNested(stack[u])
      /\ \A u \in ToSet(ready) \cup asleep : ~ctx[u] /\ stack[u] # <<>>
  BY <1>1, <1>4 DEF IntrInv, IntrTypeOK, SwitchedAway, WellNested
<1>10. /\ stack'[onCpu] = b /\ stack'[t] = s
       /\ \A u \in Tasks \ {onCpu, t} : stack'[u] = stack[u]
       /\ stack' \in [Tasks -> Seq(Frames)]
  BY <1>1, <1>5, <1>7, <1>9
<1>11. /\ ctx'[t] = FALSE /\ \A u \in Tasks \ {t} : ctx'[u] = ctx[u]
       /\ ctx' \in [Tasks -> BOOLEAN]
  BY <1>1, <1>5, <1>7, <1>9
<1>12. IntrTypeOK'
  BY <1>6, <1>8, <1>10, <1>11 DEF IntrInv, IntrTypeOK
<1>13. MaskRight'
  BY <1>1, <1>6, <1>10 DEF MaskRight, InProgram
<1>14. \A u \in Tasks : WellNested(stack'[u])
  BY <1>1, <1>4, <1>9, <1>10
<1>15. SwitchedAway'
  <2>1. \A u \in ToSet(ready) \cup asleep : stack'[u] = stack[u] /\ ctx'[u] = ctx[u]
    BY <1>2, <1>7, <1>10, <1>11
  <2>2. \A u \in ToSet(ready') \cup asleep' : ~ctx'[u] /\ stack'[u] # <<>>
    BY <1>4, <1>6, <1>8, <1>9, <1>10, <1>11, <2>1
  <2>3. ToSet(ready') \cap asleep' = {} /\ onCpu \notin ToSet(ready') \cup asleep'
    BY <1>2, <1>6, <1>7, <1>8
  <2> QED
    BY <1>6, <1>8, <2>2, <2>3 DEF SwitchedAway
<1> QED
  BY <1>12, <1>13, <1>14, <1>15 DEF IntrInv

LEMMA ExitKeeps == ASSUME IntrInv, Exit PROVE IntrInv'
<1>0. "exit" # "stub" /\ "exit" # "handler" /\ In("exit")
  BY DEF Exit
<1>1. onCpu \in Tasks /\ onCpu # NoTask /\ enabled = FALSE /\ timer # "off"
  BY <1>0, Inside, IntrAssumption
<1>2. /\ ready \in Seq(Tasks) /\ asleep \subseteq Tasks /\ ToSet(ready) \subseteq Tasks
      /\ IsInjective(ready) /\ ToSet(ready) \cap asleep = {}
      /\ onCpu \notin ToSet(ready) \cup asleep
  BY <1>0, QueuesInside
<1>3. stack' = [stack EXCEPT ![onCpu] = <<>>] /\ UNCHANGED <<asleep, ctx, timer>>
  BY DEF Exit
<1>4. /\ stack \in [Tasks -> Seq(Frames)] /\ ctx \in [Tasks -> BOOLEAN]
      /\ timer \in {"armed", "pending", "off"}
      /\ \A u \in Tasks : WellNested(stack[u])
      /\ \A u \in ToSet(ready) \cup asleep : ~ctx[u] /\ stack[u] # <<>>
  BY <1>1 DEF IntrInv, IntrTypeOK, SwitchedAway
<1>5. <<>> \in Seq(Frames) /\ WellNested(<<>>)
  <2>1. <<>> \in Seq(Frames) /\ Len(<<>>) = 0
    OBVIOUS
  <2> QED
    BY <2>1 DEF WellNested
<1>6. /\ stack' \in [Tasks -> Seq(Frames)] /\ stack'[onCpu] = <<>>
      /\ \A u \in Tasks \ {onCpu} : stack'[u] = stack[u]
  BY <1>1, <1>3, <1>4, <1>5
<1>7. \A u \in Tasks : WellNested(stack'[u])
  BY <1>4, <1>5, <1>6
<1>8. CASE ready # <<>> /\ onCpu' = Head(ready) /\ ready' = Tail(ready) /\ enabled' = ctx[Head(ready)]
  <2> DEFINE t == Head(ready)
  <2>1. /\ t \in ToSet(ready) /\ ready' \in Seq(Tasks)
        /\ IsInjective(ready') /\ ToSet(ready') = ToSet(ready) \ {t}
    BY <1>2, <1>8, PopFacts
  <2>2. onCpu' = t /\ enabled' = ctx[t]
    BY <1>8
  <2> HIDE DEF t
  <2>3. t \in Tasks /\ t # onCpu /\ stack'[t] # <<>> /\ enabled' = FALSE
    BY <1>2, <1>4, <1>6, <2>1, <2>2
  <2>4. IntrTypeOK'
    BY <1>2, <1>3, <1>4, <1>6, <2>1, <2>2, <2>3 DEF IntrTypeOK
  <2>5. MaskRight'
    BY <1>1, <1>3, <2>2, <2>3 DEF MaskRight, InProgram
  <2>6. \A u \in ToSet(ready') \cup asleep' : ~ctx'[u] /\ stack'[u] # <<>>
    BY <1>2, <1>3, <1>4, <1>6, <2>1
  <2>7. ToSet(ready') \cap asleep' = {} /\ t \notin ToSet(ready') \cup asleep'
    BY <1>2, <1>3, <2>1
  <2>8. SwitchedAway'
    BY <2>1, <2>2, <2>6, <2>7 DEF SwitchedAway
  <2> QED
    BY <1>7, <2>4, <2>5, <2>8 DEF IntrInv
<1>9. CASE ready = <<>> /\ onCpu' = NoTask /\ UNCHANGED <<ready, enabled>>
  <2>1. IntrTypeOK'
    BY <1>1, <1>2, <1>3, <1>4, <1>6, <1>9 DEF IntrTypeOK
  <2>2. MaskRight'
    BY <1>1, <1>3, <1>9 DEF MaskRight
  <2> QED
    BY <1>7, <1>9, <2>1, <2>2 DEF IntrInv
<1> QED
  BY <1>8, <1>9 DEF Exit

LEMMA IntrStartInv == ASSUME NEW t \in Tasks, IntrInit(t) PROVE IntrInv
<1>1. <<>> \in Seq(Frames) /\ WellNested(<<>>)
  <2>1. <<>> \in Seq(Frames) /\ Len(<<>>) = 0
    OBVIOUS
  <2> QED
    BY <2>1 DEF WellNested
<1>2. stack \in [Tasks -> Seq(Frames)] /\ \A u \in Tasks : WellNested(stack[u])
  BY <1>1 DEF IntrInit
<1>3. IntrTypeOK
  BY <1>2 DEF IntrInit, IntrTypeOK
<1>4. MaskRight
  BY DEF IntrInit, MaskRight, InProgram
<1>5. SwitchedAway
  BY EmptyFacts DEF IntrInit, SwitchedAway
<1> QED
  BY <1>2, <1>3, <1>4, <1>5 DEF IntrInv

LEMMA IntrStep == IntrInv /\ [IntrNext]_intrVars => IntrInv'
<1> SUFFICES ASSUME IntrInv, [IntrNext]_intrVars PROVE IntrInv'
  OBVIOUS
<1>1. CASE UNCHANGED intrVars
  BY <1>1 DEF intrVars, IntrInv, IntrTypeOK, MaskRight, InProgram, In, Top, SwitchedAway
<1>2. ASSUME NEW fn \in Calls, Call(fn) PROVE IntrInv'
  BY <1>2, CallKeeps
<1> QED
  BY <1>1, <1>2, ReturnKeeps, YieldKeeps, SleepKeeps, WakeupKeeps, NestedKeeps,
     NothingKeeps, CreateKeeps, StubKeeps, ExitKeeps, HandlerKeeps, TimerKeeps,
     SignalKeeps DEF IntrNext, InKernel

\* interrupt.c, thread.c: for any number of threads, whatever they call, the
\* timer's signal is enabled exactly while the program's own code runs, and the
\* timer is unset only until the handler sets it again.
THEOREM MaskCorrect ==
  ASSUME NEW t \in Tasks PROVE IntrSpec(t) => [](MaskRight /\ IntrTypeOK)
<1>1. IntrInit(t) => IntrInv
  BY IntrStartInv
<1>2. IntrInv => MaskRight /\ IntrTypeOK
  BY DEF IntrInv
<1> QED
  BY <1>1, <1>2, IntrStep, PTL DEF IntrSpec

-----------------------------------------------------------------------------
(* NodeQueue *)

NqSpec == NqInit /\ [][NqNext]_nqVars

Ptrs == Nodes \cup {Null}

\* The list consists of the nodes s, in this order: the pointers between them
\* agree, and nothing is said of those that lead out, nor of tail when there is
\* no node.
ListOf(s) ==
    /\ Len(s) = num_threads
    /\ IsInjective(s)
    /\ ToSet(s) = allocated
    /\ s = <<>> => top = Null
    /\ s # <<>> => top = s[1] /\ tail = s[Len(s)] /\ node[s[Len(s)]].next = Null
    /\ \A k \in 1 .. (Len(s) - 1) : /\ node[s[k]].next = s[k + 1]
                                    /\ node[s[k + 1]].prev = s[k]
    /\ \A k \in 1 .. Len(s) : node[s[k]].thread \in Threads

NqInv ==
    /\ top \in Ptrs /\ tail \in Ptrs
    /\ node \in [Ptrs -> [thread : Threads \cup {NoThread}, next : Ptrs, prev : Ptrs]]
    /\ got \in Threads \cup {NoThread}
    /\ \E s \in Seq(Nodes) : ListOf(s)

\* f follows the pointers from the node tp on.
Follows(f, n, tp, nd) ==
    f = [k \in 1 .. n |-> IF k = 1 THEN tp ELSE nd[f[k - 1]].next]

\* There is one way to do so.
LEMMA FollowsOnce ==
  ASSUME NEW n \in Nat, NEW tp, NEW nd, NEW f, NEW g,
         Follows(f, n, tp, nd), Follows(g, n, tp, nd)
  PROVE  f = g
<1> DEFINE T == {k \in Nat : k \in 1 .. n => f[k] = g[k]}
<1>1. \A k \in 1 .. n : /\ f[k] = IF k = 1 THEN tp ELSE nd[f[k - 1]].next
                        /\ g[k] = IF k = 1 THEN tp ELSE nd[g[k - 1]].next
  BY DEF Follows
<1>2. 0 \in T
  OBVIOUS
<1>3. ASSUME NEW k \in Nat, k \in T PROVE k + 1 \in T
  <2> SUFFICES ASSUME k + 1 \in 1 .. n PROVE f[k + 1] = g[k + 1]
    OBVIOUS
  <2>1. CASE k = 0
    BY <1>1, <2>1
  <2>2. CASE k # 0
    <3>1. k \in 1 .. n /\ k + 1 # 1 /\ (k + 1) - 1 = k
      BY <2>2
    <3>2. f[k] = g[k]
      BY <1>3, <3>1
    <3>3. f[k + 1] = nd[f[k]].next /\ g[k + 1] = nd[g[k]].next
      BY <1>1, <3>1
    <3> QED
      BY <3>2, <3>3
  <2> QED
    BY <2>1, <2>2
<1> HIDE DEF T
<1>4. Nat \subseteq T
  BY <1>2, <1>3, SetInduction
<1>5. \A k \in 1 .. n : f[k] = g[k]
  BY <1>4 DEF T
<1>6. /\ f = [k \in 1 .. n |-> f[k]]
      /\ g = [k \in 1 .. n |-> g[k]]
  BY DEF Follows
<1> QED
  BY <1>5, <1>6

\* What popbyid walks over are the nodes of the list.
LEMMA ChainIs == ASSUME NEW s \in Seq(Nodes), ListOf(s) PROVE Chain = s
<1>1. Len(s) \in Nat /\ num_threads = Len(s) /\ s = [k \in 1 .. Len(s) |-> s[k]]
  BY DEF ListOf
<1>2. Follows(s, num_threads, top, node)
  <2>1. ASSUME NEW k \in 1 .. Len(s)
        PROVE  s[k] = IF k = 1 THEN top ELSE node[s[k - 1]].next
    <3>1. CASE k = 1
      <4>1. s # <<>>
        BY <3>1
      <4> QED
        BY <3>1, <4>1 DEF ListOf
    <3>2. CASE k # 1
      <4>1. k - 1 \in 1 .. (Len(s) - 1) /\ (k - 1) + 1 = k
        BY <1>1, <3>2
      <4>2. node[s[k - 1]].next = s[(k - 1) + 1]
        BY <4>1 DEF ListOf
      <4> QED
        BY <3>2, <4>1, <4>2
    <3> QED
      BY <3>1, <3>2
  <2>2. [k \in 1 .. Len(s) |-> s[k]] =
        [k \in 1 .. Len(s) |-> IF k = 1 THEN top ELSE node[s[k - 1]].next]
    BY <2>1
  <2> QED
    BY <1>1, <2>2 DEF Follows
<1>3. Chain = CHOOSE f : Follows(f, num_threads, top, node)
  BY DEF Chain, Follows
<1>4. Follows(Chain, num_threads, top, node)
  BY <1>2, <1>3, Zenon
<1> QED
  BY <1>1, <1>2, <1>4, FollowsOnce

\* The queue as the scheduler sees it.
LEMMA ItemsAre ==
  ASSUME NEW s \in Seq(Nodes), ListOf(s)
  PROVE  /\ items \in Seq(Threads)
         /\ Len(items) = Len(s)
         /\ \A k \in 1 .. Len(s) : items[k] = node[s[k]].thread
<1>1. Chain = s /\ num_threads = Len(s) /\ Len(s) \in Nat
  BY ChainIs DEF ListOf
<1>2. items = [k \in 1 .. Len(s) |-> node[s[k]].thread]
  BY <1>1 DEF items
<1>3. \A k \in 1 .. Len(s) : node[s[k]].thread \in Threads
  BY DEF ListOf
<1> QED
  BY <1>1, <1>2, <1>3

\* One node is taken out, from anywhere, and its neighbours are linked.
LEMMA RemovedList ==
  ASSUME NEW s \in Seq(Nodes), ListOf(s), NEW ix \in 1 .. Len(s),
         num_threads' = num_threads - 1, allocated' = allocated \ {s[ix]},
         top' = IF ix = 1 THEN node[s[1]].next ELSE top,
         Len(s) > 1 => tail' = IF ix = Len(s) THEN s[ix - 1] ELSE tail,
         \A k \in 1 .. Len(s) : k # ix => node'[s[k]].thread = node[s[k]].thread,
         \A k \in 1 .. Len(s) : k # ix /\ k # ix - 1 => node'[s[k]].next = node[s[k]].next,
         ix > 1 => node'[s[ix - 1]].next = node[s[ix]].next,
         \A k \in 1 .. Len(s) : k # ix /\ k # ix + 1 => node'[s[k]].prev = node[s[k]].prev,
         ix > 1 /\ ix < Len(s) => node'[s[ix + 1]].prev = s[ix - 1]
  PROVE  RemoveAt(s, ix) \in Seq(Nodes) /\ ListOf(RemoveAt(s, ix))'
<1> DEFINE r == RemoveAt(s, ix)
           n == Len(s)
<1>1. n \in Nat /\ n >= 1 /\ ix \in Nat /\ ix >= 1 /\ ix <= n
  OBVIOUS
<1>2. /\ r \in Seq(Nodes)
      /\ Len(r) = n - 1
      /\ \A j \in 1 .. Len(r) : r[j] = IF j < ix THEN s[j] ELSE s[j + 1]
  BY RemoveByPosition
<1>3. IsInjective(r) /\ ToSet(r) = ToSet(s) \ {s[ix]}
  BY RemoveFacts DEF ListOf
<1> HIDE DEF r
<1>4. /\ n = num_threads /\ ToSet(s) = allocated
      /\ s # <<>> /\ top = s[1] /\ tail = s[n] /\ node[s[n]].next = Null
      /\ \A k \in 1 .. (n - 1) : node[s[k]].next = s[k + 1] /\ node[s[k + 1]].prev = s[k]
      /\ \A k \in 1 .. n : node[s[k]].thread \in Threads
  <2>1. s # <<>>
    BY <1>1
  <2> QED
    BY <2>1 DEF ListOf
<1> HIDE DEF n
<1>5. r = <<>> => top' = Null
  <2> SUFFICES ASSUME r = <<>> PROVE top' = Null
    OBVIOUS
  <2>1. n = 1 /\ ix = 1
    BY <1>1, <1>2
  <2> QED
    BY <1>4, <2>1
<1>6. ASSUME n > 1
      PROVE  top' = r[1] /\ tail' = r[Len(r)] /\ node'[r[Len(r)]].next = Null
  <2>1. r[1] = IF 1 < ix THEN s[1] ELSE s[2]
    BY <1>1, <1>2, <1>6
  <2>2. top' = r[1]
    <3>1. CASE ix = 1
      <4>1. node[s[1]].next = s[2]
        BY <1>1, <1>4, <1>6
      <4> QED
        BY <2>1, <3>1, <4>1
    <3>2. CASE ix # 1
      BY <1>1, <1>4, <2>1, <3>2
    <3> QED
      BY <3>1, <3>2
  <2>3. CASE ix = n
    <3>1. r[Len(r)] = s[n - 1] /\ tail' = s[n - 1]
      BY <1>1, <1>2, <1>6, <2>3 DEF n
    <3>2. node'[s[n - 1]].next = Null
      BY <1>1, <1>4, <1>6, <2>3
    <3> QED
      BY <2>2, <3>1, <3>2
  <2>4. CASE ix # n
    <3>1. r[Len(r)] = s[n] /\ tail' = s[n]
      BY <1>1, <1>2, <1>4, <1>6, <2>4 DEF n
    <3>2. n \in 1 .. Len(s) /\ n # ix /\ n # ix - 1
      BY <1>1, <2>4 DEF n
    <3>3. node'[s[n]].next = Null
      BY <1>4, <3>2
    <3> QED
      BY <2>2, <3>1, <3>3
  <2> QED
    BY <2>3, <2>4
<1>7. ASSUME NEW j \in 1 .. (Len(r) - 1)
      PROVE  node'[r[j]].next = r[j + 1] /\ node'[r[j + 1]].prev = r[j]
  <2>1. /\ j \in 1 .. n /\ j + 1 \in 1 .. n /\ j + 2 \in 1 .. n
        /\ j \in 1 .. (n - 1) /\ j + 1 \in 1 .. (n - 1)
        /\ j \in 1 .. Len(r) /\ j + 1 \in 1 .. Len(r)
    <3>1. Len(r) = n - 1 /\ n \in Nat
      BY <1>1, <1>2
    <3>2. j \in 1 .. (n - 2)
      BY <3>1
    <3>3. j \in Nat /\ 1 <= j /\ j <= n - 2
      BY <3>1, <3>2
    <3>4. j \in 1 .. n /\ j + 1 \in 1 .. n /\ j + 2 \in 1 .. n
      BY <3>1, <3>3, SMTT(30)
    <3>5. j \in 1 .. (n - 1) /\ j + 1 \in 1 .. (n - 1)
      BY <3>1, <3>3, SMTT(30)
    <3> QED
      BY <3>1, <3>4, <3>5
  <2>2. /\ node[s[j]].next = s[j + 1] /\ node[s[j + 1]].prev = s[j]
        /\ node[s[j + 1]].next = s[j + 2] /\ node[s[j + 2]].prev = s[j + 1]
    <3>1. (j + 1) + 1 = j + 2
      OBVIOUS
    <3> QED
      BY <1>4, <2>1, <3>1
  <2>3. CASE j + 1 < ix
    <3>1. r[j] = s[j] /\ r[j + 1] = s[j + 1]
      BY <1>1, <1>2, <2>1, <2>3
    <3>2. j # ix /\ j # ix - 1 /\ j + 1 # ix /\ j + 1 # ix + 1
      BY <1>1, <2>3
    <3>3. node'[s[j]].next = node[s[j]].next /\ node'[s[j + 1]].prev = node[s[j + 1]].prev
      BY <2>1, <3>2 DEF n
    <3> QED
      BY <2>2, <3>1, <3>3
  <2>4. CASE j + 1 = ix
    <3>1. r[j] = s[j] /\ r[j + 1] = s[j + 2]
      <4>1. j < ix /\ ~(j + 1 < ix) /\ (j + 1) + 1 = j + 2
        BY <1>1, <2>4
      <4> QED
        BY <1>2, <2>1, <4>1
    <3>2. ix > 1 /\ ix < Len(s) /\ ix - 1 = j /\ ix + 1 = j + 2
      BY <1>1, <2>1, <2>4 DEF n
    <3>3. node'[s[j]].next = node[s[j + 1]].next /\ node'[s[j + 2]].prev = s[j]
      BY <2>4, <3>2
    <3> QED
      BY <2>2, <3>1, <3>3
  <2>5. CASE j + 1 > ix
    <3>1. r[j] = s[j + 1] /\ r[j + 1] = s[j + 2]
      <4>1. ~(j < ix) /\ ~(j + 1 < ix) /\ (j + 1) + 1 = j + 2
        BY <1>1, <2>5
      <4> QED
        BY <1>2, <2>1, <4>1
    <3>2. j + 1 # ix /\ j + 1 # ix - 1 /\ j + 2 # ix /\ j + 2 # ix + 1
      BY <1>1, <2>5
    <3>3. node'[s[j + 1]].next = node[s[j + 1]].next /\ node'[s[j + 2]].prev = node[s[j + 2]].prev
      BY <2>1, <3>2 DEF n
    <3> QED
      BY <2>2, <3>1, <3>3
  <2> QED
    BY <1>1, <2>3, <2>4, <2>5
<1>8. ASSUME NEW j \in 1 .. Len(r) PROVE node'[r[j]].thread \in Threads
  <2>1. PICK k \in 1 .. Len(s) : k # ix /\ r[j] = s[k]
    <3>1. CASE j < ix
      BY <1>1, <1>2, <3>1 DEF n
    <3>2. CASE ~(j < ix)
      <4>1. j + 1 \in 1 .. Len(s) /\ j + 1 # ix
        BY <1>1, <1>2, <3>2 DEF n
      <4> QED
        BY <1>2, <3>2, <4>1
    <3> QED
      BY <3>1, <3>2
  <2> QED
    BY <1>4, <2>1 DEF n
<1>9. r # <<>> => n > 1
  BY <1>1, <1>2
<1> QED
  BY <1>1, <1>2, <1>3, <1>4, <1>5, <1>6, <1>7, <1>8, <1>9 DEF ListOf, r

\* In every state the queue is read off the list.
ItemsShow(s) ==
    /\ items \in Seq(Threads)
    /\ Len(items) = Len(s)
    /\ \A k \in 1 .. Len(s) : items[k] = node[s[k]].thread

Shown == \A s \in Seq(Nodes) : ListOf(s) => ItemsShow(s)

LEMMA AlwaysShown == Shown
  BY ItemsAre DEF Shown, ItemsShow

\* The node taken out of the list is the thread taken out of the queue.
LEMMA RemovedItems ==
  ASSUME NEW s \in Seq(Nodes), ListOf(s), NEW ix \in 1 .. Len(s),
         RemoveAt(s, ix) \in Seq(Nodes), ListOf(RemoveAt(s, ix))',
         \A k \in 1 .. Len(s) : k # ix => node'[s[k]].thread = node[s[k]].thread
  PROVE  /\ items \in Seq(Threads) /\ Len(items) = Len(s)
         /\ items' = RemoveAt(items, ix)
<1> DEFINE r == RemoveAt(s, ix)
           q == RemoveAt(items, ix)
<1>1. Shown'
  BY AlwaysShown, PTL
<1>2. ItemsShow(s) /\ ItemsShow(r)'
  BY <1>1, AlwaysShown DEF Shown
<1>3. /\ items \in Seq(Threads) /\ Len(items) = Len(s)
      /\ \A k \in 1 .. Len(s) : items[k] = node[s[k]].thread
      /\ items' \in Seq(Threads) /\ Len(items') = Len(r)
      /\ \A k \in 1 .. Len(r) : items'[k] = node'[r[k]].thread
  BY <1>2 DEF ItemsShow
<1>4. /\ Len(r) = Len(s) - 1
      /\ \A j \in 1 .. Len(r) : r[j] = IF j < ix THEN s[j] ELSE s[j + 1]
  BY RemoveByPosition
<1>5. /\ q \in Seq(Threads) /\ Len(q) = Len(s) - 1
      /\ \A j \in 1 .. Len(q) : q[j] = IF j < ix THEN items[j] ELSE items[j + 1]
  BY <1>3, RemoveByPosition
<1>6. Len(s) \in Nat /\ ix \in Nat /\ ix >= 1 /\ ix <= Len(s)
  OBVIOUS
<1> HIDE DEF r, q
<1>7. ASSUME NEW j \in 1 .. Len(items') PROVE items'[j] = q[j]
  <2>1. j \in 1 .. Len(r) /\ j \in 1 .. Len(q)
    BY <1>3, <1>4, <1>5
  <2>2. CASE j < ix
    <3>1. j \in 1 .. Len(s) /\ j # ix
      BY <1>4, <1>6, <2>1, <2>2
    <3>2. r[j] = s[j] /\ q[j] = items[j]
      BY <1>4, <1>5, <2>1, <2>2
    <3>3. node'[s[j]].thread = node[s[j]].thread
      BY <3>1
    <3> QED
      BY <1>3, <2>1, <3>1, <3>2, <3>3
  <2>3. CASE ~(j < ix)
    <3>1. j + 1 \in 1 .. Len(s) /\ j + 1 # ix
      BY <1>4, <1>6, <2>1, <2>3
    <3>2. r[j] = s[j + 1] /\ q[j] = items[j + 1]
      BY <1>4, <1>5, <2>1, <2>3
    <3>3. node'[s[j + 1]].thread = node[s[j + 1]].thread
      BY <3>1
    <3> QED
      BY <1>3, <2>1, <3>1, <3>2, <3>3
  <2> QED
    BY <2>2, <2>3
<1>8. items' = q
  BY <1>3, <1>4, <1>5, <1>7, SeqEqual
<1> QED
  BY <1>3, <1>8 DEF q

\* A node is put behind the last one.
LEMMA AddedList ==
  ASSUME NEW s \in Seq(Nodes), ListOf(s), NEW a \in Nodes \ allocated, NEW t \in Threads,
         num_threads' = num_threads + 1, allocated' = allocated \cup {a}, tail' = a,
         top' = IF s = <<>> THEN a ELSE top,
         node'[a].next = Null, node'[a].thread = t,
         s # <<>> => node'[a].prev = tail /\ node'[s[Len(s)]].next = a,
         \A k \in 1 .. Len(s) : /\ node'[s[k]].thread = node[s[k]].thread
                                /\ node'[s[k]].prev = node[s[k]].prev,
         \A k \in 1 .. (Len(s) - 1) : node'[s[k]].next = node[s[k]].next
  PROVE  /\ Append(s, a) \in Seq(Nodes) /\ ListOf(Append(s, a))'
         /\ items' = Append(items, t)
<1> DEFINE r == Append(s, a)
           n == Len(s)
<1>1. /\ n \in Nat
      /\ r \in Seq(Nodes) /\ r # <<>>
      /\ Len(r) = n + 1
      /\ \A k \in 1 .. n : r[k] = s[k]
      /\ r[n + 1] = a
  BY AppendProperties
<1>2. ToSet(r) = ToSet(s) \cup {a} /\ IsInjective(r)
  BY EnqueueFacts DEF ListOf
<1> HIDE DEF r
<1>3. /\ n = num_threads /\ ToSet(s) = allocated
      /\ s # <<>> => top = s[1] /\ tail = s[n] /\ node[s[n]].next = Null
      /\ \A k \in 1 .. (n - 1) : node[s[k]].next = s[k + 1] /\ node[s[k + 1]].prev = s[k]
      /\ \A k \in 1 .. n : node[s[k]].thread \in Threads
  BY DEF ListOf
<1>4. s = <<>> <=> n = 0
  OBVIOUS
<1>5. /\ s # <<>> => node'[s[n]].next = a
      /\ \A k \in 1 .. n : /\ node'[s[k]].thread = node[s[k]].thread
                           /\ node'[s[k]].prev = node[s[k]].prev
      /\ \A k \in 1 .. (n - 1) : node'[s[k]].next = node[s[k]].next
  OBVIOUS
<1> HIDE DEF n
<1>6. top' = r[1] /\ tail' = r[Len(r)] /\ node'[r[Len(r)]].next = Null
  <2>1. tail' = r[Len(r)] /\ node'[r[Len(r)]].next = Null
    BY <1>1
  <2>2. CASE n = 0
    BY <1>1, <1>4, <2>1, <2>2
  <2>3. CASE n # 0
    <3>1. 1 \in 1 .. n
      BY <1>1, <2>3
    <3> QED
      BY <1>1, <1>3, <1>4, <2>1, <2>3, <3>1
  <2> QED
    BY <2>2, <2>3
<1>7. ASSUME NEW k \in 1 .. (Len(r) - 1)
      PROVE  node'[r[k]].next = r[k + 1] /\ node'[r[k + 1]].prev = r[k]
  <2>1. k \in 1 .. n /\ k \in Nat
    BY <1>1
  <2>2. r[k] = s[k]
    BY <1>1, <2>1
  <2>3. CASE k = n
    BY <1>1, <1>3, <1>4, <1>5, <2>1, <2>2, <2>3
  <2>4. CASE k # n
    <3>1. k \in 1 .. (n - 1) /\ k + 1 \in 1 .. n
      BY <1>1, <2>1, <2>4
    <3>2. r[k + 1] = s[k + 1]
      BY <1>1, <3>1
    <3> QED
      BY <1>3, <1>5, <2>2, <3>1, <3>2
  <2> QED
    BY <2>3, <2>4
<1>8. ASSUME NEW k \in 1 .. Len(r) PROVE node'[r[k]].thread \in Threads
  <2>1. CASE k = n + 1
    BY <1>1, <2>1
  <2>2. CASE k # n + 1
    <3>1. k \in 1 .. n
      BY <1>1, <2>2
    <3> QED
      BY <1>1, <1>3, <1>5, <3>1
  <2> QED
    BY <2>1, <2>2
<1>9. ListOf(r)'
  BY <1>1, <1>2, <1>3, <1>6, <1>7, <1>8 DEF ListOf
<1>10. Shown'
  BY AlwaysShown, PTL
<1>11. ItemsShow(s) /\ ItemsShow(r)'
  BY <1>1, <1>9, <1>10, AlwaysShown DEF Shown
<1> DEFINE q == Append(items, t)
<1>12. /\ items \in Seq(Threads) /\ Len(items) = n
       /\ \A k \in 1 .. n : items[k] = node[s[k]].thread
       /\ items' \in Seq(Threads) /\ Len(items') = n + 1
       /\ \A k \in 1 .. (n + 1) : items'[k] = node'[r[k]].thread
  BY <1>1, <1>11 DEF ItemsShow, n
<1>13. /\ q \in Seq(Threads) /\ Len(q) = n + 1
       /\ \A k \in 1 .. n : q[k] = items[k]
       /\ q[n + 1] = t
  BY <1>12, AppendProperties
<1> HIDE DEF q
<1>14. ASSUME NEW k \in 1 .. Len(items') PROVE items'[k] = q[k]
  <2>1. CASE k = n + 1
    <3>1. n + 1 \in 1 .. (n + 1)
      BY <1>1
    <3>2. items'[n + 1] = node'[r[n + 1]].thread /\ node'[a].thread = t
      BY <1>12, <3>1
    <3> QED
      BY <1>1, <1>13, <2>1, <3>2
  <2>2. CASE k # n + 1
    <3>1. k \in 1 .. n /\ k \in 1 .. (n + 1)
      BY <1>1, <1>12, <2>2
    <3>2. items'[k] = node'[s[k]].thread
      BY <1>1, <1>12, <3>1
    <3>3. q[k] = node[s[k]].thread /\ node'[s[k]].thread = node[s[k]].thread
      BY <1>5, <1>12, <1>13, <3>1
    <3> QED
      BY <3>2, <3>3
  <2> QED
    BY <2>1, <2>2
<1>15. items' = q
  BY <1>12, <1>13, <1>14, SeqEqual
<1> QED
  BY <1>1, <1>9, <1>15 DEF r, q

\* What a function of the queue does to it, beside keeping the invariant.
LEMMA EnqueueStep ==
  ASSUME NqInv, NEW t \in Threads, Enqueue(t)
  PROVE  NqInv' /\ items' = Append(items, t) /\ got' = NoThread
<1>1. PICK s \in Seq(Nodes) : ListOf(s)
  BY DEF NqInv
<1>2. PICK a \in Nodes \ allocated :
         LET new == [thread |-> t, next |-> Null, prev |-> IF QueueEmpty THEN Null ELSE tail]
         IN  /\ allocated' = allocated \cup {a}
             /\ tail' = a
             /\ \/ /\ QueueEmpty
                   /\ top' = a
                   /\ num_threads' = 1
                   /\ node' = [node EXCEPT ![a] = new]
                \/ /\ ~QueueEmpty
                   /\ num_threads' = num_threads + 1
                   /\ node' = [node EXCEPT ![tail].next = a, ![a] = new]
                   /\ UNCHANGED top
             /\ got' = NoThread
  BY DEF Enqueue
<1> DEFINE new == [thread |-> t, next |-> Null, prev |-> IF QueueEmpty THEN Null ELSE tail]
<1>3. /\ top \in Ptrs /\ tail \in Ptrs
      /\ node \in [Ptrs -> [thread : Threads \cup {NoThread}, next : Ptrs, prev : Ptrs]]
      /\ got \in Threads \cup {NoThread}
      /\ Null \in Ptrs /\ Nodes \subseteq Ptrs
  BY DEF NqInv, Ptrs
<1>4. /\ new \in [thread : Threads \cup {NoThread}, next : Ptrs, prev : Ptrs]
      /\ new.thread = t /\ new.next = Null
      /\ new.prev = IF QueueEmpty THEN Null ELSE tail
  BY <1>3
<1>5. /\ Len(s) \in Nat /\ Len(s) = num_threads /\ ToSet(s) = allocated
      /\ IsInjective(s)
      /\ s # <<>> => top = s[1] /\ tail = s[Len(s)] /\ tail \in ToSet(s)
      /\ \A k \in 1 .. Len(s) : s[k] \in ToSet(s) /\ s[k] \in Nodes
  <2>1. \A k \in 1 .. Len(s) : s[k] \in ToSet(s)
    BY ByPosition
  <2>2. s # <<>> => Len(s) \in 1 .. Len(s)
    OBVIOUS
  <2> QED
    BY <1>1, <2>1, <2>2 DEF ListOf
<1>6. QueueEmpty <=> s = <<>>
  <2>1. s = <<>> => num_threads = 0
    BY <1>5
  <2>2. s # <<>> => num_threads # 0 /\ top \in Nodes
    <3>1. s # <<>> => Len(s) # 0 /\ 1 \in 1 .. Len(s)
      BY <1>5
    <3> QED
      BY <1>5, <3>1
  <2> QED
    BY <2>1, <2>2, NqAssumption DEF QueueEmpty
<1> HIDE DEF new
<1>7. /\ allocated' = allocated \cup {a} /\ tail' = a /\ got' = NoThread
      /\ num_threads' = num_threads + 1
      /\ top' = IF s = <<>> THEN a ELSE top
      /\ node' \in [Ptrs -> [thread : Threads \cup {NoThread}, next : Ptrs, prev : Ptrs]]
      /\ node'[a] = new
      /\ \A b \in Ptrs \ {a} :
            /\ node'[b].thread = node[b].thread /\ node'[b].prev = node[b].prev
            /\ b # tail \/ s = <<>> => node'[b].next = node[b].next
      /\ s # <<>> => node'[tail].next = a
  <2>1. CASE s = <<>>
    <3>1. num_threads' = 1 /\ top' = a /\ node' = [node EXCEPT ![a] = new]
      BY <1>2, <1>6, <2>1 DEF new
    <3> QED
      BY <1>2, <1>3, <1>4, <1>5, <2>1, <3>1
  <2>2. CASE s # <<>>
    <3>1. /\ num_threads' = num_threads + 1 /\ top' = top
          /\ node' = [node EXCEPT ![tail].next = a, ![a] = new]
      BY <1>2, <1>6, <2>2 DEF new
    <3>2. tail # a /\ tail \in Ptrs /\ a \in Ptrs
      BY <1>2, <1>3, <1>5, <2>2
    <3> QED
      BY <1>2, <1>3, <1>4, <2>2, <3>1, <3>2
  <2> QED
    BY <2>1, <2>2
<1>8. \A k \in 1 .. Len(s) : s[k] \in Ptrs \ {a}
  BY <1>2, <1>3, <1>5
<1>9. \A k \in 1 .. (Len(s) - 1) : k \in 1 .. Len(s) /\ s # <<>> /\ s[k] # tail
  <2> TAKE k \in 1 .. (Len(s) - 1)
  <2>1. k \in 1 .. Len(s) /\ s # <<>> /\ k # Len(s) /\ Len(s) \in 1 .. Len(s)
    BY <1>5
  <2>2. \A m, n \in 1 .. Len(s) : s[m] = s[n] => m = n
    BY <1>5, ByPosition
  <2> QED
    BY <1>5, <2>1, <2>2
<1>10. /\ node'[a].next = Null /\ node'[a].thread = t
       /\ s # <<>> => node'[a].prev = tail /\ node'[s[Len(s)]].next = a
       /\ \A k \in 1 .. Len(s) : /\ node'[s[k]].thread = node[s[k]].thread
                                 /\ node'[s[k]].prev = node[s[k]].prev
       /\ \A k \in 1 .. (Len(s) - 1) : node'[s[k]].next = node[s[k]].next
  BY <1>4, <1>5, <1>6, <1>7, <1>8, <1>9
<1>11. /\ Append(s, a) \in Seq(Nodes) /\ ListOf(Append(s, a))'
       /\ items' = Append(items, t)
  BY <1>1, <1>7, <1>10, AddedList
<1>12. top' \in Ptrs /\ tail' \in Ptrs
  BY <1>2, <1>3, <1>7
<1> QED
  BY <1>7, <1>11, <1>12 DEF NqInv

NodeType == [thread : Threads \cup {NoThread}, next : Ptrs, prev : Ptrs]

\* The nodes of the list, by their positions.
LEMMA ListFacts ==
  ASSUME NqInv, NEW s \in Seq(Nodes), ListOf(s), s # <<>>
  PROVE  /\ node \in [Ptrs -> NodeType] /\ Null \in Ptrs /\ Nodes \subseteq Ptrs
         /\ Len(s) \in Nat /\ Len(s) >= 1 /\ Len(s) = num_threads
         /\ top = s[1] /\ tail = s[Len(s)] /\ node[tail].next = Null
         /\ \A k \in 1 .. Len(s) : s[k] \in Nodes /\ s[k] \in Ptrs
         /\ \A j, k \in 1 .. Len(s) : s[j] = s[k] => j = k
         /\ \A k \in 1 .. Len(s) : k < Len(s) => /\ k + 1 \in 1 .. Len(s)
                                                 /\ node[s[k]].next = s[k + 1]
         /\ \A k \in 1 .. Len(s) : k > 1 => /\ k - 1 \in 1 .. Len(s)
                                            /\ node[s[k]].prev = s[k - 1]
<1>1. Len(s) \in Nat /\ Len(s) >= 1 /\ Len(s) = num_threads
  BY DEF ListOf
<1>2. ASSUME NEW k \in 1 .. Len(s), k < Len(s)
      PROVE  k + 1 \in 1 .. Len(s) /\ node[s[k]].next = s[k + 1]
  <2>1. k \in 1 .. (Len(s) - 1) /\ k + 1 \in 1 .. Len(s)
    BY <1>1, <1>2
  <2> QED
    BY <2>1 DEF ListOf
<1>3. ASSUME NEW k \in 1 .. Len(s), k > 1
      PROVE  k - 1 \in 1 .. Len(s) /\ node[s[k]].prev = s[k - 1]
  <2>1. k - 1 \in 1 .. (Len(s) - 1) /\ k - 1 \in 1 .. Len(s) /\ (k - 1) + 1 = k
    BY <1>1, <1>3
  <2>2. node[s[(k - 1) + 1]].prev = s[k - 1]
    BY <2>1 DEF ListOf
  <2> QED
    BY <2>1, <2>2
<1>4. node \in [Ptrs -> NodeType] /\ Null \in Ptrs /\ Nodes \subseteq Ptrs
  BY DEF NqInv, NodeType, Ptrs
<1>5. top = s[1] /\ tail = s[Len(s)] /\ node[tail].next = Null
  BY DEF ListOf
<1>6. \A j, k \in 1 .. Len(s) : s[j] = s[k] => j = k
  BY ByPosition DEF ListOf
<1>7. \A k \in 1 .. Len(s) : s[k] \in Nodes /\ s[k] \in Ptrs
  BY <1>4
<1> QED
  BY <1>1, <1>2, <1>3, <1>4, <1>5, <1>6, <1>7

\* nd are the nodes linked around the one at position ix, which is then freed.
LEMMA RemoveStep ==
  ASSUME NqInv, NEW s \in Seq(Nodes), ListOf(s), NEW ix \in 1 .. Len(s),
         NEW nd \in [Ptrs -> NodeType], FreeNode(s[ix], nd),
         tail' \in Ptrs,
         top' = IF ix = 1 THEN node[s[1]].next ELSE top,
         Len(s) > 1 => tail' = IF ix = Len(s) THEN s[ix - 1] ELSE tail,
         \A k \in 1 .. Len(s) : k # ix => nd[s[k]].thread = node[s[k]].thread,
         \A k \in 1 .. Len(s) : k # ix /\ k # ix - 1 => nd[s[k]].next = node[s[k]].next,
         ix > 1 => nd[s[ix - 1]].next = node[s[ix]].next,
         \A k \in 1 .. Len(s) : k # ix /\ k # ix + 1 => nd[s[k]].prev = node[s[k]].prev,
         ix > 1 /\ ix < Len(s) => nd[s[ix + 1]].prev = s[ix - 1]
  PROVE  /\ NqInv'
         /\ items \in Seq(Threads) /\ Len(items) = Len(s)
         /\ items' = RemoveAt(items, ix)
         /\ got' = items[ix]
<1>1. s # <<>> /\ ix \in Nat /\ ix >= 1 /\ ix <= Len(s) /\ Len(s) \in Nat
  OBVIOUS
<1>2. /\ node \in [Ptrs -> NodeType] /\ Null \in Ptrs /\ Nodes \subseteq Ptrs
      /\ \A k \in 1 .. Len(s) : s[k] \in Nodes /\ s[k] \in Ptrs
      /\ \A j, k \in 1 .. Len(s) : s[j] = s[k] => j = k
      /\ top \in Ptrs
  BY <1>1, ListFacts DEF NqInv
<1>3. /\ node' = [nd EXCEPT ![s[ix]] = NoNode]
      /\ allocated' = allocated \ {s[ix]}
      /\ num_threads' = num_threads - 1
      /\ got' = node[s[ix]].thread
  BY DEF FreeNode
<1>4. NoNode \in NodeType
  BY <1>2 DEF NoNode, NodeType
<1>5. node' \in [Ptrs -> NodeType] /\ \A k \in 1 .. Len(s) : k # ix => node'[s[k]] = nd[s[k]]
  BY <1>2, <1>3, <1>4
<1>6. ix > 1 => ix - 1 \in 1 .. Len(s) /\ ix - 1 # ix
  BY <1>1
<1>7. ix < Len(s) => ix + 1 \in 1 .. Len(s) /\ ix + 1 # ix
  BY <1>1
<1>8. /\ \A k \in 1 .. Len(s) : k # ix => node'[s[k]].thread = node[s[k]].thread
      /\ \A k \in 1 .. Len(s) : k # ix /\ k # ix - 1 => node'[s[k]].next = node[s[k]].next
      /\ ix > 1 => node'[s[ix - 1]].next = node[s[ix]].next
      /\ \A k \in 1 .. Len(s) : k # ix /\ k # ix + 1 => node'[s[k]].prev = node[s[k]].prev
      /\ ix > 1 /\ ix < Len(s) => node'[s[ix + 1]].prev = s[ix - 1]
  BY <1>5, <1>6, <1>7
<1>9. RemoveAt(s, ix) \in Seq(Nodes) /\ ListOf(RemoveAt(s, ix))'
  BY <1>3, <1>8, RemovedList
<1>10. items \in Seq(Threads) /\ Len(items) = Len(s) /\ items' = RemoveAt(items, ix)
  BY <1>8, <1>9, RemovedItems
<1>11. got' = items[ix] /\ got' \in Threads
  BY <1>3, ItemsAre, <1>10
<1>12. top' \in Ptrs
  <2>1. 1 \in 1 .. Len(s)
    BY <1>1
  <2>2. node[s[1]].next \in Ptrs
    BY <1>2, <2>1 DEF NodeType
  <2> QED
    BY <1>2, <2>2
<1>13. NqInv'
  BY <1>5, <1>9, <1>11, <1>12 DEF NqInv, NodeType
<1> QED
  BY <1>10, <1>11, <1>13

LEMMA PopStep ==
  ASSUME NqInv, Pop
  PROVE  /\ NqInv'
         /\ items # <<>> /\ got' = Head(items) /\ items' = Tail(items)
<1>1. PICK s \in Seq(Nodes) : ListOf(s)
  BY DEF NqInv
<1>2. s # <<>>
  BY <1>1 DEF Pop, ListOf
<1>3. /\ node \in [Ptrs -> NodeType]
      /\ Len(s) \in Nat /\ Len(s) >= 1
      /\ top = s[1] /\ tail = s[Len(s)]
      /\ \A k \in 1 .. Len(s) : s[k] \in Nodes /\ s[k] \in Ptrs
  BY <1>1, <1>2, ListFacts
<1>4. 1 \in 1 .. Len(s) /\ Len(s) \in 1 .. Len(s)
  BY <1>3
<1>5. /\ top' = node[s[1]].next /\ FreeNode(s[1], node)
      /\ tail' = tail /\ tail' \in Ptrs
      /\ Len(s) > 1 => tail' = IF 1 = Len(s) THEN s[1 - 1] ELSE tail
  BY <1>3, <1>4 DEF Pop
<1>6. /\ NqInv'
      /\ items \in Seq(Threads) /\ Len(items) = Len(s)
      /\ items' = RemoveAt(items, 1)
      /\ got' = items[1]
  BY <1>1, <1>3, <1>4, <1>5, RemoveStep
<1>7. items # <<>> /\ Head(items) = items[1]
  BY <1>3, <1>6
<1>8. RemoveAt(items, 1) = Tail(items)
  <2> DEFINE r == RemoveAt(items, 1)
             q == Tail(items)
  <2>1. /\ r \in Seq(Threads) /\ Len(r) = Len(items) - 1
        /\ \A j \in 1 .. Len(r) : r[j] = IF j < 1 THEN items[j] ELSE items[j + 1]
    BY <1>4, <1>6, RemoveByPosition
  <2>2. /\ q \in Seq(Threads) /\ Len(q) = Len(items) - 1
        /\ \A j \in 1 .. Len(q) : q[j] = items[j + 1]
    BY <1>6, <1>7, HeadTailProperties
  <2> HIDE DEF r, q
  <2>3. ASSUME NEW j \in 1 .. Len(r) PROVE r[j] = q[j]
    <3>1. j \in 1 .. Len(q) /\ ~(j < 1)
      BY <2>1, <2>2
    <3> QED
      BY <2>1, <2>2, <3>1
  <2> QED
    BY <2>1, <2>2, <2>3, SeqEqual DEF r, q
<1> QED
  BY <1>6, <1>7, <1>8

\* One pointer is changed.
LEMMA NextFacts ==
  ASSUME NEW m \in [Ptrs -> NodeType], NEW p \in Ptrs, NEW x \in Ptrs
  PROVE  LET nd == [m EXCEPT ![p].next = x]
         IN  /\ nd \in [Ptrs -> NodeType] /\ nd[p].next = x
             /\ \A b \in Ptrs : /\ nd[b].thread = m[b].thread /\ nd[b].prev = m[b].prev
                                /\ b # p => nd[b].next = m[b].next
<1> DEFINE e == [m[p] EXCEPT !.next = x]
           nd == [m EXCEPT ![p].next = x]
<1>1. m[p] \in NodeType
  OBVIOUS
<1>2. e \in NodeType /\ e.next = x /\ e.thread = m[p].thread /\ e.prev = m[p].prev
  BY <1>1 DEF NodeType
<1>3. nd = [m EXCEPT ![p] = e]
  OBVIOUS
<1> HIDE DEF e, nd
<1>4. nd \in [Ptrs -> NodeType] /\ nd[p] = e /\ \A b \in Ptrs \ {p} : nd[b] = m[b]
  BY <1>2, <1>3
<1>5. \A b \in Ptrs : /\ nd[b].thread = m[b].thread /\ nd[b].prev = m[b].prev
                       /\ b # p => nd[b].next = m[b].next
  BY <1>2, <1>4
<1> QED
  BY <1>2, <1>4, <1>5 DEF nd

LEMMA PrevFacts ==
  ASSUME NEW m \in [Ptrs -> NodeType], NEW p \in Ptrs, NEW x \in Ptrs
  PROVE  LET nd == [m EXCEPT ![p].prev = x]
         IN  /\ nd \in [Ptrs -> NodeType] /\ nd[p].prev = x
             /\ \A b \in Ptrs : /\ nd[b].thread = m[b].thread /\ nd[b].next = m[b].next
                                /\ b # p => nd[b].prev = m[b].prev
<1> DEFINE e == [m[p] EXCEPT !.prev = x]
           nd == [m EXCEPT ![p].prev = x]
<1>1. m[p] \in NodeType
  OBVIOUS
<1>2. e \in NodeType /\ e.prev = x /\ e.thread = m[p].thread /\ e.next = m[p].next
  BY <1>1 DEF NodeType
<1>3. nd = [m EXCEPT ![p] = e]
  OBVIOUS
<1> HIDE DEF e, nd
<1>4. nd \in [Ptrs -> NodeType] /\ nd[p] = e /\ \A b \in Ptrs \ {p} : nd[b] = m[b]
  BY <1>2, <1>3
<1>5. \A b \in Ptrs : /\ nd[b].thread = m[b].thread /\ nd[b].next = m[b].next
                       /\ b # p => nd[b].prev = m[b].prev
  BY <1>2, <1>4
<1> QED
  BY <1>2, <1>4, <1>5 DEF nd

LEMMA PopByIdStep ==
  ASSUME NqInv, NEW w, PopById(w)
  PROVE  /\ NqInv'
         /\ items \in Seq(Threads) /\ items # <<>>
         /\ \/ \E k \in 1 .. Len(items) :
                  /\ TidOf[items[k]] = w
                  /\ \A j \in 1 .. (k - 1) : TidOf[items[j]] # w
                  /\ got' = items[k]
                  /\ items' = RemoveAt(items, k)
            \/ /\ \A k \in 1 .. Len(items) : TidOf[items[k]] # w
               /\ got' = NoThread
               /\ items' = items
<1>1. PICK s \in Seq(Nodes) : ListOf(s)
  BY DEF NqInv
<1>2. s # <<>>
  BY <1>1 DEF PopById, ListOf
<1>3. /\ node \in [Ptrs -> NodeType] /\ Null \in Ptrs /\ Nodes \subseteq Ptrs
      /\ Len(s) \in Nat /\ Len(s) >= 1
      /\ top = s[1] /\ tail = s[Len(s)] /\ node[tail].next = Null
      /\ \A k \in 1 .. Len(s) : s[k] \in Nodes /\ s[k] \in Ptrs
      /\ \A j, k \in 1 .. Len(s) : s[j] = s[k] => j = k
      /\ \A k \in 1 .. Len(s) : k < Len(s) => /\ k + 1 \in 1 .. Len(s)
                                              /\ node[s[k]].next = s[k + 1]
      /\ \A k \in 1 .. Len(s) : k > 1 => /\ k - 1 \in 1 .. Len(s)
                                         /\ node[s[k]].prev = s[k - 1]
  BY <1>1, <1>2, ListFacts
<1>4. Chain = s /\ DOMAIN Chain = 1 .. Len(s)
  BY <1>1, ChainIs
<1>5. /\ items \in Seq(Threads) /\ Len(items) = Len(s) /\ items # <<>>
      /\ \A k \in 1 .. Len(s) : items[k] = node[s[k]].thread
  <2>1. items \in Seq(Threads) /\ Len(items) = Len(s)
    BY <1>1, ItemsAre
  <2>2. items # <<>>
    BY <1>3, <2>1
  <2> QED
    BY <1>1, <2>1, <2>2, ItemsAre
<1>6. Found(w) = {k \in 1 .. Len(s) : TidOf[items[k]] = w}
  BY <1>4, <1>5 DEF Found
<1>7. CASE /\ Found(w) = {}
           /\ got' = NoThread
           /\ UNCHANGED <<top, tail, num_threads, node, allocated>>
  <2>1. NqInv'
    BY <1>7 DEF NqInv, ListOf
  <2>2. items' = items
    BY <1>7 DEF items, Chain
  <2>3. \A k \in 1 .. Len(items) : TidOf[items[k]] # w
    BY <1>5, <1>6, <1>7
  <2> QED
    BY <1>5, <1>7, <2>1, <2>2, <2>3
<1>8. ASSUME Found(w) # {},
             LET curr == Chain[CHOOSE k \in Found(w) : \A j \in Found(w) : k <= j]
             IN  \/ /\ curr = top /\ curr = tail
                    /\ top' = Null /\ tail' = Null
                    /\ FreeNode(curr, node)
                 \/ /\ curr = top /\ curr # tail
                    /\ top' = node[top].next
                    /\ FreeNode(curr, [node EXCEPT ![node[top].next].prev = Null])
                    /\ UNCHANGED tail
                 \/ /\ curr # top /\ curr = tail
                    /\ tail' = NewTail(curr)
                    /\ FreeNode(curr, [node EXCEPT ![node[curr].prev].next = Null])
                    /\ UNCHANGED top
                 \/ /\ curr # top /\ curr # tail
                    /\ FreeNode(curr, [node EXCEPT ![node[curr].prev].next = node[curr].next,
                                                   ![node[curr].next].prev = node[curr].prev])
                    /\ UNCHANGED <<top, tail>>
      PROVE  /\ NqInv'
             /\ \E k \in 1 .. Len(items) :
                   /\ TidOf[items[k]] = w
                   /\ \A j \in 1 .. (k - 1) : TidOf[items[j]] # w
                   /\ got' = items[k]
                   /\ items' = RemoveAt(items, k)
  <2> DEFINE ix == CHOOSE k \in Found(w) : \A j \in Found(w) : k <= j
             curr == s[ix]
  <2>1. ix \in Found(w) /\ \A j \in Found(w) : ix <= j
    <3>1. Found(w) \in SUBSET Nat
      BY <1>6
    <3>2. \E k \in Found(w) : \A j \in Found(w) : k <= j
      BY <1>8, <3>1, LeastNat
    <3> QED
      BY <3>2
  <2>2. /\ ix \in 1 .. Len(s) /\ TidOf[items[ix]] = w
        /\ \A j \in 1 .. (ix - 1) : TidOf[items[j]] # w
    <3>1. ix \in 1 .. Len(s) /\ TidOf[items[ix]] = w
      BY <1>6, <2>1
    <3>2. ASSUME NEW j \in 1 .. (ix - 1), TidOf[items[j]] = w PROVE FALSE
      <4>1. j \in 1 .. Len(s) /\ j < ix
        BY <1>3, <3>1
      <4>2. j \in Found(w)
        BY <1>6, <3>2, <4>1
      <4>3. ix <= j
        BY <2>1, <4>2
      <4> QED
        BY <3>1, <4>1, <4>3
    <3> QED
      BY <3>1, <3>2
  <2>3. \/ /\ curr = top /\ curr = tail
           /\ top' = Null /\ tail' = Null
           /\ FreeNode(curr, node)
        \/ /\ curr = top /\ curr # tail
           /\ top' = node[top].next
           /\ FreeNode(curr, [node EXCEPT ![node[top].next].prev = Null])
           /\ UNCHANGED tail
        \/ /\ curr # top /\ curr = tail
           /\ tail' = NewTail(curr)
           /\ FreeNode(curr, [node EXCEPT ![node[curr].prev].next = Null])
           /\ UNCHANGED top
        \/ /\ curr # top /\ curr # tail
           /\ FreeNode(curr, [node EXCEPT ![node[curr].prev].next = node[curr].next,
                                          ![node[curr].next].prev = node[curr].prev])
           /\ UNCHANGED <<top, tail>>
    BY <1>4, <1>8
  <2> HIDE DEF ix
  <2>4. /\ 1 \in 1 .. Len(s) /\ Len(s) \in 1 .. Len(s)
        /\ ix \in Nat /\ ix >= 1 /\ ix <= Len(s)
        /\ curr = top <=> ix = 1
        /\ curr = tail <=> ix = Len(s)
    BY <1>3, <2>2
  <2>5. ASSUME NEW nd \in [Ptrs -> NodeType], FreeNode(s[ix], nd),
               tail' \in Ptrs,
               top' = IF ix = 1 THEN node[s[1]].next ELSE top,
               Len(s) > 1 => tail' = IF ix = Len(s) THEN s[ix - 1] ELSE tail,
               \A k \in 1 .. Len(s) : k # ix => nd[s[k]].thread = node[s[k]].thread,
               \A k \in 1 .. Len(s) : k # ix /\ k # ix - 1 => nd[s[k]].next = node[s[k]].next,
               ix > 1 => nd[s[ix - 1]].next = node[s[ix]].next,
               \A k \in 1 .. Len(s) : k # ix /\ k # ix + 1 => nd[s[k]].prev = node[s[k]].prev,
               ix > 1 /\ ix < Len(s) => nd[s[ix + 1]].prev = s[ix - 1]
        PROVE  NqInv' /\ items' = RemoveAt(items, ix) /\ got' = items[ix]
    BY <1>1, <2>2, <2>5, RemoveStep
  <2>6. CASE ix = 1 /\ ix = Len(s)
    <3>1. /\ top' = Null /\ tail' = Null /\ FreeNode(s[ix], node)
          /\ node[s[1]].next = Null
      BY <1>3, <2>3, <2>4, <2>6
    <3>2. /\ tail' \in Ptrs /\ ~(Len(s) > 1) /\ ~(ix > 1)
          /\ top' = IF ix = 1 THEN node[s[1]].next ELSE top
      <4>1. tail' \in Ptrs
        BY <1>3, <3>1
      <4>2. ~(Len(s) > 1) /\ ~(ix > 1)
        <5>1. ix = 1 /\ Len(s) = 1
          BY <2>6
        <5>2. ~(1 > 1)
          OBVIOUS
        <5> QED
          BY <5>1, <5>2
      <4>3. top' = node[s[1]].next
        BY <3>1
      <4> QED
        BY <2>6, <4>1, <4>2, <4>3
    <3>3. NqInv' /\ items' = RemoveAt(items, ix) /\ got' = items[ix]
      BY <1>3, <2>5, <3>1, <3>2
    <3> QED
      BY <1>5, <2>2, <3>3
  <2>7. CASE ix = 1 /\ ix # Len(s)
    <3> DEFINE x == node[top].next
               nd == [node EXCEPT ![x].prev = Null]
    <3>1. top' = x /\ tail' = tail /\ FreeNode(s[ix], nd)
      BY <2>3, <2>4, <2>7
    <3>2. 2 \in 1 .. Len(s) /\ x = s[2] /\ x \in Ptrs /\ top = s[1] /\ Len(s) > 1
      BY <1>3, <2>4, <2>7
    <3>3. /\ nd \in [Ptrs -> NodeType]
          /\ \A b \in Ptrs : /\ nd[b].thread = node[b].thread /\ nd[b].next = node[b].next
                             /\ b # x => nd[b].prev = node[b].prev
      <4> HIDE DEF x
      <4>1. x \in Ptrs /\ Null \in Ptrs /\ node \in [Ptrs -> NodeType]
        BY <1>3, <3>2
      <4> QED
        BY <4>1, PrevFacts
    <3>4. \A k \in 1 .. Len(s) : k # 2 => s[k] # x
      BY <1>3, <3>2
    <3> HIDE DEF x, nd
    <3>5. tail' \in Ptrs /\ ix + 1 = 2
      BY <1>3, <2>4, <2>7, <3>1
    <3>6. NqInv' /\ items' = RemoveAt(items, ix) /\ got' = items[ix]
      <4>1. top' = IF ix = 1 THEN node[s[1]].next ELSE top
        BY <2>7, <3>1, <3>2 DEF x
      <4>2. \A k \in 1 .. Len(s) : k # ix /\ k # ix + 1 => nd[s[k]].prev = node[s[k]].prev
        BY <1>3, <3>3, <3>4, <3>5
      <4> QED
        BY <1>3, <2>4, <2>5, <2>7, <3>1, <3>3, <3>5, <4>1, <4>2
    <3> QED
      BY <1>5, <2>2, <3>6
  <2>8. CASE ix # 1 /\ ix = Len(s)
    <3> DEFINE p == node[curr].prev
               nd == [node EXCEPT ![p].next = Null]
    <3>1. top' = top /\ tail' = p /\ FreeNode(s[ix], nd)
      BY <2>3, <2>4, <2>8 DEF NewTail
    <3>2. /\ ix > 1 /\ ix - 1 \in 1 .. Len(s) /\ p = s[ix - 1] /\ p \in Ptrs
          /\ node[s[ix]].next = Null
      BY <1>3, <2>2, <2>4, <2>8
    <3>3. /\ nd \in [Ptrs -> NodeType] /\ nd[p].next = Null
          /\ \A b \in Ptrs : /\ nd[b].thread = node[b].thread /\ nd[b].prev = node[b].prev
                             /\ b # p => nd[b].next = node[b].next
      <4> HIDE DEF p
      <4> QED
        BY <1>3, <3>2, NextFacts
    <3>4. \A k \in 1 .. Len(s) : k # ix - 1 => s[k] # p
      BY <1>3, <3>2
    <3> HIDE DEF p, nd
    <3>5. \A k \in 1 .. Len(s) : k # ix /\ k # ix - 1 => nd[s[k]].next = node[s[k]].next
      BY <1>3, <3>3, <3>4
    <3>6. NqInv' /\ items' = RemoveAt(items, ix) /\ got' = items[ix]
      <4>1. /\ tail' \in Ptrs
            /\ top' = IF ix = 1 THEN node[s[1]].next ELSE top
            /\ tail' = IF ix = Len(s) THEN s[ix - 1] ELSE tail
        BY <2>8, <3>1, <3>2
      <4>2. \A k \in 1 .. Len(s) : /\ nd[s[k]].thread = node[s[k]].thread
                                   /\ nd[s[k]].prev = node[s[k]].prev
        BY <1>3, <3>3
      <4>3. nd[s[ix - 1]].next = node[s[ix]].next /\ ~(ix < Len(s))
        BY <2>4, <2>8, <3>2, <3>3
      <4> QED
        BY <2>5, <3>1, <3>3, <3>5, <4>1, <4>2, <4>3
    <3> QED
      BY <1>5, <2>2, <3>6
  <2>9. CASE ix # 1 /\ ix # Len(s)
    <3> DEFINE p == node[curr].prev
               x == node[curr].next
               nd == [node EXCEPT ![p].next = x, ![x].prev = p]
    <3>1. top' = top /\ tail' = tail /\ FreeNode(s[ix], nd)
      BY <2>3, <2>4, <2>9
    <3>2. /\ ix > 1 /\ ix < Len(s) /\ ix - 1 \in 1 .. Len(s) /\ ix + 1 \in 1 .. Len(s)
          /\ p = s[ix - 1] /\ x = s[ix + 1] /\ x = node[s[ix]].next
          /\ p \in Ptrs /\ x \in Ptrs
      BY <1>3, <2>2, <2>4, <2>9
    <3>3. p # x
      <4>1. ix - 1 # ix + 1
        BY <2>4
      <4> QED
        BY <1>3, <3>2, <4>1
    <3>4. /\ nd \in [Ptrs -> NodeType] /\ nd[p].next = x /\ nd[x].prev = p
          /\ \A b \in Ptrs : /\ nd[b].thread = node[b].thread
                             /\ b # p => nd[b].next = node[b].next
                             /\ b # x => nd[b].prev = node[b].prev
      <4> DEFINE m == [node EXCEPT ![p].next = x]
      <4> HIDE DEF p, x
      <4>1. /\ m \in [Ptrs -> NodeType] /\ m[p].next = x
            /\ \A b \in Ptrs : /\ m[b].thread = node[b].thread /\ m[b].prev = node[b].prev
                               /\ b # p => m[b].next = node[b].next
        BY <1>3, <3>2, NextFacts
      <4>2. nd = [m EXCEPT ![x].prev = p]
        OBVIOUS
      <4> HIDE DEF m, nd
      <4>3. /\ nd \in [Ptrs -> NodeType] /\ nd[x].prev = p
            /\ \A b \in Ptrs : /\ nd[b].thread = m[b].thread /\ nd[b].next = m[b].next
                               /\ b # x => nd[b].prev = m[b].prev
        BY <3>2, <4>1, <4>2, PrevFacts
      <4> QED
        BY <3>2, <4>1, <4>3
    <3>5. \A k \in 1 .. Len(s) : (k # ix - 1 => s[k] # p) /\ (k # ix + 1 => s[k] # x)
      BY <1>3, <3>2
    <3> HIDE DEF p, x, nd
    <3>6. /\ \A k \in 1 .. Len(s) : k # ix /\ k # ix - 1 => nd[s[k]].next = node[s[k]].next
          /\ \A k \in 1 .. Len(s) : k # ix /\ k # ix + 1 => nd[s[k]].prev = node[s[k]].prev
      BY <1>3, <3>4, <3>5
    <3>7. tail' \in Ptrs
      BY <1>3, <2>4, <3>1
    <3>8. NqInv' /\ items' = RemoveAt(items, ix) /\ got' = items[ix]
      BY <1>3, <2>4, <2>5, <2>9, <3>1, <3>2, <3>4, <3>6, <3>7
    <3> QED
      BY <1>5, <2>2, <3>8
  <2> QED
    BY <2>6, <2>7, <2>8, <2>9
<1> QED
  BY <1>5, <1>7, <1>8 DEF PopById

LEMMA NqStart == NqInit => NqInv /\ items = <<>> /\ got = NoThread
<1> SUFFICES ASSUME NqInit PROVE NqInv /\ items = <<>> /\ got = NoThread
  OBVIOUS
<1>1. top \in Ptrs /\ tail \in Ptrs /\ Null \in Ptrs
  BY DEF NqInit, Ptrs
<1>2. NoNode \in NodeType
  BY <1>1 DEF NoNode, NodeType
<1>3. node \in [Ptrs -> NodeType]
  BY <1>2 DEF NqInit, Ptrs
<1>4. <<>> \in Seq(Nodes) /\ ListOf(<<>>)
  <2>1. Len(<<>>) = 0 /\ <<>> \in Seq(Nodes)
    OBVIOUS
  <2> QED
    BY <2>1, EmptyFacts DEF ListOf, NqInit
<1>5. items = <<>>
  <2>1. items \in Seq(Threads) /\ Len(items) = Len(<<>>)
    BY <1>4, ItemsAre
  <2> QED
    BY <2>1
<1> QED
  BY <1>1, <1>3, <1>4, <1>5 DEF NqInit, NqInv, NodeType

\* Every step of the list is one of the queue.
LEMMA NqStep ==
  NqInv /\ [NqNext]_nqVars => NqInv' /\ [Queue!Next]_<<items, got>>
<1> SUFFICES ASSUME NqInv, [NqNext]_nqVars
             PROVE  NqInv' /\ [Queue!Next]_<<items, got>>
  OBVIOUS
<1>1. CASE UNCHANGED nqVars
  <2>1. NqInv'
    BY <1>1 DEF nqVars, NqInv, ListOf
  <2>2. items' = items /\ got' = got
    BY <1>1 DEF nqVars, items, Chain
  <2> QED
    BY <2>1, <2>2
<1>2. ASSUME NEW t \in Threads, Enqueue(t)
      PROVE  NqInv' /\ [Queue!Next]_<<items, got>>
  <2>1. NqInv' /\ items' = Append(items, t) /\ got' = NoThread
    BY <1>2, EnqueueStep
  <2> QED
    BY <2>1 DEF Queue!Next, Queue!Put
<1>3. CASE Pop
  <2>1. NqInv' /\ items # <<>> /\ got' = Head(items) /\ items' = Tail(items)
    BY <1>3, PopStep
  <2> QED
    BY <2>1 DEF Queue!Next, Queue!TakeFirst
<1>4. ASSUME NEW w \in {TidOf[t] : t \in Threads}, PopById(w)
      PROVE  NqInv' /\ [Queue!Next]_<<items, got>>
  <2>1. /\ NqInv'
        /\ items \in Seq(Threads) /\ items # <<>>
        /\ \/ \E k \in 1 .. Len(items) :
                 /\ TidOf[items[k]] = w
                 /\ \A j \in 1 .. (k - 1) : TidOf[items[j]] # w
                 /\ got' = items[k]
                 /\ items' = RemoveAt(items, k)
           \/ /\ \A k \in 1 .. Len(items) : TidOf[items[k]] # w
              /\ got' = NoThread
              /\ items' = items
    BY <1>4, PopByIdStep
  <2>2. DOMAIN items = 1 .. Len(items)
    BY <2>1
  <2>3. Queue!TakeById(w)
    BY <2>1, <2>2 DEF Queue!TakeById, Queue!RemoveAt, RemoveAt
  <2> QED
    BY <2>1, <2>3 DEF Queue!Next
<1> QED
  BY <1>1, <1>2, <1>3, <1>4 DEF NqNext

\* thread.c 37-144: for any number of threads and addresses, whichever of them
\* malloc returns again, the linked list is the queue the scheduler takes it for.
THEOREM QueueCorrect == NqSpec => IsThreadQueue
<1>1. NqInit => Queue!Init
  BY NqStart DEF Queue!Init
<1>2. NqInit => NqInv
  BY NqStart
<1> QED
  BY <1>1, <1>2, NqStep, PTL DEF NqSpec, IsThreadQueue, Queue!Spec

\* The list is as long as its counter says and has no node twice.
LEMMA NqTyped == NqInv => NqTypeOK
<1> SUFFICES ASSUME NqInv PROVE NqTypeOK
  OBVIOUS
<1>1. PICK s \in Seq(Nodes) : ListOf(s)
  BY DEF NqInv
<1> DEFINE n == Len(s)
<1>2. Chain = s /\ num_threads = n /\ n \in Nat /\ ToSet(s) = allocated
  BY <1>1, ChainIs DEF ListOf
<1>3. /\ \A x : x \in allocated <=> \E k \in 1 .. n : s[k] = x
      /\ \A j, k \in 1 .. n : s[j] = s[k] => j = k
  BY <1>1, <1>2, ByPosition DEF ListOf
<1>4. {Chain[k] : k \in 1 .. num_threads} = allocated
  BY <1>2, <1>3
<1>5. s \in Bijection(1 .. n, allocated)
  <2>1. s \in [1 .. n -> allocated]
    BY <1>3
  <2> QED
    BY <1>3, <2>1, Fun_IsBij
<1>6. ExistsBijection(1 .. n, allocated)
  BY <1>5 DEF ExistsBijection
<1>7. IsFiniteSet(1 .. n) /\ Cardinality(1 .. n) = n
  <2>1. 1 \in Int /\ n \in Int
    BY <1>2
  <2>2. IsFiniteSet(1 .. n) /\ Cardinality(1 .. n) = IF 1 > n THEN 0 ELSE n - 1 + 1
    BY <2>1, FS_Interval
  <2>3. (IF 1 > n THEN 0 ELSE n - 1 + 1) = n
    BY <1>2
  <2> QED
    BY <2>2, <2>3
<1>8. Cardinality(allocated) = num_threads
  BY <1>2, <1>6, <1>7, FS_Bijection
<1> QED
  BY <1>2, <1>4, <1>8 DEF NqTypeOK, NqInv

\* thread.c 37-144: nodes are freed when their thread is taken out, and only
\* then, though pointers to freed ones are left behind.
THEOREM NqTypeCorrect == NqSpec => []NqTypeOK
<1>1. NqInit => NqInv
  BY NqStart
<1>2. NqInv => NqTypeOK
  BY NqTyped
<1>3. NqInv /\ [NqNext]_nqVars => NqInv'
  BY NqStep
<1> QED
  BY <1>1, <1>2, <1>3, PTL DEF NqSpec

-----------------------------------------------------------------------------
(* Fileset *)

\* Any index may be there before.
FsSpec(mean, number, space, old) ==
    FsInit(mean, number, space, old) /\ [][FsNext]_fsVars

FileContents == BlockSums \cup {<<>>}

LineOf(k, c) == <<k, Csum(c), IF c = <<>> THEN TooLarge ELSE Len(c)>>

\* Every file has its line in the buffer.
Indexed ==
    /\ files \in Seq(FileContents)
    /\ idx_buffer \in Seq({LineOf(k, c) : k \in Nat, c \in FileContents})
    /\ Len(idx_buffer) = Len(files)
    /\ \A k \in 1 .. Len(files) : idx_buffer[k] = LineOf(k, files[k])

\* What the generator left in the index: all lines after the first as in the
\* buffer, or as many, the last of which may be short.
IndexIs ==
    /\ Len(index) \in Nat
    /\ Len(index) <= Len(files) + 1
    /\ Len(index) >= 1 => index[1][1] = Len(files)
    /\ \A k \in 1 .. Len(files) : k + 1 < Len(index) => index[k + 1] = idx_buffer[k]
    /\ written = "whole" =>
          /\ Len(index) = Len(files) + 1
          /\ \A k \in 1 .. Len(files) : index[k + 1] = idx_buffer[k]
          /\ Len(files) = 0 => total <= 0

\* What the client has read of it.
TableIs ==
    /\ fileset \in Seq({Fields(index[k]) : k \in 1 .. Len(index)})
    /\ \A k \in 1 .. Len(fileset) : fileset[k] = Fields(index[k + 1])
    /\ fs_pc = "loaded" =>
          Len(fileset) + 1 = Len(index) /\ Len(fileset) = index[1][1]
    /\ fs_pc = "abort" /\ written = "whole" => total <= 0

FsInv ==
    /\ total \in Int
    /\ fs_pc \in {"start", "make"} =>
          /\ written = "old" /\ fileset = <<>> /\ Indexed
          /\ Len(files) = 0 => current = 0
    /\ written \in {"old", "cut", "whole"}
    /\ written # "old" => Indexed /\ IndexIs /\ TableIs

LEMMA FsStartInv ==
  ASSUME NEW mean \in Means, NEW number \in Numbers, NEW space, NEW old,
         FsInit(mean, number, space, old)
  PROVE  FsInv
<1>1. total \in Int
  <2>1. mean \in Nat /\ number \in Nat /\ Half \in Nat /\ Half # 0
    BY FilesetAssumption
  <2> DEFINE n == mean * number
  <2>2. n \in Nat
    BY <2>1
  <2> HIDE DEF n
  <2>3. Wrap(n) \in Int
    BY <2>1, <2>2 DEF Wrap
  <2> QED
    BY <2>3 DEF FsInit, n
<1>2. Indexed
  <2>1. \A S : <<>> \in Seq(S)
    OBVIOUS
  <2>2. Len(<<>>) = 0
    OBVIOUS
  <2> QED
    BY <2>1, <2>2 DEF FsInit, Indexed
<1> QED
  BY <1>1, <1>2 DEF FsInit, FsInv

\* A turn of the generator's loop.
LEMMA FsFileKeeps == ASSUME FsInv, FsFile PROVE FsInv'
<1>1. PICK content \in FileContents :
         LET file_sz == IF content = <<>> THEN TooLarge ELSE Len(content)
         IN  \/ /\ Fs("make", "failed")
                /\ files' \in {files} \cup {Append(files, SubSeq(content, 1, k)) : k \in 0 .. Len(content)}
                /\ UNCHANGED <<current, idx_buffer>>
             \/ /\ Fs("make", IF Len(files) < MaxLines THEN "make" ELSE "failed")
                /\ files' = Append(files, content)
                /\ current' = Wrap(current + file_sz)
                /\ idx_buffer' =
                      Append(idx_buffer, <<Len(files'), Csum(content), file_sz>>)
  BY DEF FsFile, FileContents
<1>2. UNCHANGED <<index, written, fileset, total>>
  BY DEF FsFile, Fs
<1>3. fs_pc = "make"
  BY <1>1 DEF Fs
<1>4. written = "old" /\ fileset = <<>> /\ Indexed /\ total \in Int
  BY <1>3 DEF FsInv
<1>5. CASE Fs("make", "failed")
  <2>1. fs_pc' = "failed"
    BY <1>5 DEF Fs
  <2> QED
    BY <1>2, <1>4, <2>1 DEF FsInv
<1>6. CASE /\ files' = Append(files, content)
           /\ idx_buffer' =
                 Append(idx_buffer, <<Len(files'), Csum(content),
                                      IF content = <<>> THEN TooLarge ELSE Len(content)>>)
  <2> DEFINE n == Len(files)
             Lines == {LineOf(k, c) : k \in Nat, c \in FileContents}
             line == LineOf(n + 1, content)
  <2>1. /\ n \in Nat /\ files \in Seq(FileContents)
        /\ idx_buffer \in Seq(Lines) /\ Len(idx_buffer) = n
        /\ \A k \in 1 .. n : idx_buffer[k] = LineOf(k, files[k])
    BY <1>4 DEF Indexed
  <2>2. /\ files' \in Seq(FileContents) /\ Len(files') = n + 1
        /\ \A k \in 1 .. n : files'[k] = files[k]
        /\ files'[n + 1] = content
    BY <1>6, <2>1, AppendProperties
  <2>3. line \in Lines
    <3>1. n + 1 \in Nat /\ content \in FileContents
      BY <2>1
    <3> HIDE DEF n
    <3> QED
      BY <3>1
  <2>4. idx_buffer' = Append(idx_buffer, line)
    BY <1>6, <2>2 DEF LineOf
  <2> HIDE DEF n, Lines, line
  <2>5. /\ idx_buffer' \in Seq(Lines) /\ Len(idx_buffer') = n + 1
        /\ \A k \in 1 .. n : idx_buffer'[k] = idx_buffer[k]
        /\ idx_buffer'[n + 1] = line
    BY <2>1, <2>3, <2>4, AppendProperties
  <2>6. ASSUME NEW k \in 1 .. (n + 1) PROVE idx_buffer'[k] = LineOf(k, files'[k])
    <3>1. CASE k = n + 1
      BY <2>2, <2>5, <3>1 DEF line
    <3>2. CASE k # n + 1
      <4>1. k \in 1 .. n
        BY <2>1, <3>2
      <4> QED
        BY <2>1, <2>2, <2>5, <4>1
    <3> QED
      BY <3>1, <3>2
  <2>7. Indexed'
    BY <2>2, <2>5, <2>6 DEF Indexed, Lines
  <2>8. Len(files') # 0
    BY <2>1, <2>2
  <2> QED
    BY <1>2, <1>4, <2>7, <2>8 DEF FsInv
<1> QED
  BY <1>1, <1>5, <1>6

\* Before the client begins, its table is empty.
LEMMA NoTable ==
  ASSUME fileset = <<>>, UNCHANGED fileset, fs_pc' \notin {"loaded", "abort"}
  PROVE  TableIs'
<1>1. fileset' = <<>> /\ \A S : <<>> \in Seq(S)
  OBVIOUS
<1>2. Len(<<>>) = 0
  OBVIOUS
<1>3. fileset' \in Seq({Fields(index[k]) : k \in 1 .. Len(index)}')
  BY <1>1
<1> QED
  BY <1>1, <1>2, <1>3 DEF TableIs

LEMMA FsIndexKeeps == ASSUME FsInv, FsIndex PROVE FsInv'
<1> DEFINE whole == <<<<Len(files)>>>> \o idx_buffer
           n == Len(files)
           Lines == {LineOf(k, c) : k \in Nat, c \in FileContents}
<1>1. /\ fs_pc = "make" /\ current >= total
      /\ fs_pc' \in {"made", "failed"}
      /\ UNCHANGED <<current, files, idx_buffer, fileset, total>>
  BY DEF FsIndex, Fs
<1>2. /\ written = "old" /\ fileset = <<>> /\ Indexed /\ total \in Int
      /\ Len(files) = 0 => current = 0
  BY <1>1 DEF FsInv
<1>3. Indexed' /\ TableIs' /\ total' \in Int
  BY <1>1, <1>2, NoTable DEF Indexed
<1>4. /\ n \in Nat
      /\ idx_buffer \in Seq(Lines) /\ Len(idx_buffer) = n
  BY <1>2 DEF Indexed
<1> DEFINE All == Lines \cup {<<n>>}
<1>5. idx_buffer \in Seq(All) /\ <<n>> \in All
  <2>1. Lines \subseteq All
    OBVIOUS
  <2> HIDE DEF All, Lines
  <2>2. idx_buffer \in Seq(All)
    BY <1>4, <2>1
  <2> QED
    BY <2>2 DEF All
<1> HIDE DEF n, Lines, All
<1>6. /\ whole \in Seq(All) /\ Len(whole) = n + 1
      /\ whole[1] = <<n>>
      /\ \A k \in 1 .. n : whole[k + 1] = idx_buffer[k]
  BY <1>4, <1>5, PushFacts DEF n
<1> HIDE DEF whole
<1>7. CASE UNCHANGED <<index, written>>
  BY <1>1, <1>2, <1>7 DEF FsInv
<1>8. CASE index' = whole /\ written' = "whole"
  <2>1. index'[1][1] = n
    <3>1. <<n>>[1] = n
      OBVIOUS
    <3> QED
      BY <1>6, <1>8, <3>1
  <2>2. n = 0 => total <= 0
    BY <1>1, <1>2 DEF n
  <2>3. IndexIs'
    BY <1>1, <1>4, <1>6, <1>8, <2>1, <2>2 DEF IndexIs, n
  <2> QED
    BY <1>1, <1>3, <1>8, <2>3 DEF FsInv
<1>9. ASSUME NEW k \in DOMAIN whole, NEW f \in 0 .. (Len(whole[k]) - 1),
             index' = SubSeq(whole, 1, k - 1) \o
                          (IF f = 0 THEN <<>> ELSE <<SubSeq(whole[k], 1, f)>>),
             written' = "cut"
      PROVE  FsInv'
  <2> DEFINE part == SubSeq(whole[k], 1, f)
             rest == IF f = 0 THEN <<>> ELSE <<part>>
             start == SubSeq(whole, 1, k - 1)
             Some == All \cup {part}
  <2>1. k \in 1 .. (n + 1) /\ k \in Nat /\ k >= 1
    BY <1>4, <1>6
  <2>2. /\ start \in Seq(All) /\ Len(start) = k - 1
        /\ \A j \in 1 .. (k - 1) : start[j] = whole[j]
    <3>1. \A j \in 1 .. (k - 1) : whole[j] \in All
      BY <1>4, <1>6, <2>1
    <3>2. /\ start \in Seq(All)
          /\ Len(start) = IF 1 <= k - 1 THEN (k - 1) - 1 + 1 ELSE 0
          /\ \A j \in 1 .. ((k - 1) - 1 + 1) : start[j] = whole[1 + j - 1]
      BY <1>6, <2>1, <3>1, SubSeqProperties, 1 \in Int, k - 1 \in Int
    <3> QED
      BY <2>1, <3>2
  <2>3. All \subseteq Some /\ part \in Some
    OBVIOUS
  <2> HIDE DEF part, start, Some
  <2>4. start \in Seq(Some)
    BY <2>2, <2>3
  <2>5. rest \in Seq(Some) /\ Len(rest) \in {0, 1} /\ (Len(rest) = 0 <=> f = 0)
    <3>1. CASE f = 0
      BY <3>1
    <3>2. CASE f # 0
      <4>1. <<part>> \in Seq(Some) /\ Len(<<part>>) = 1
        BY <2>3
      <4> QED
        BY <3>2, <4>1
    <3> QED
      BY <3>1, <3>2
  <2>6. index' = start \o rest
    BY <1>9 DEF start, part
  <2> HIDE DEF rest
  <2>7. /\ Len(index') = (k - 1) + Len(rest)
        /\ \A j \in 1 .. (k - 1) : index'[j] = whole[j]
    <3>1. /\ Len(start \o rest) = Len(start) + Len(rest)
          /\ \A j \in 1 .. (Len(start) + Len(rest)) :
                (start \o rest)[j] = IF j <= Len(start) THEN start[j] ELSE rest[j - Len(start)]
      BY <2>4, <2>5, ConcatProperties
    <3>2. ASSUME NEW j \in 1 .. (k - 1) PROVE index'[j] = whole[j]
      <4>1. j \in 1 .. (Len(start) + Len(rest)) /\ j <= Len(start)
        BY <2>1, <2>2, <2>5
      <4> QED
        BY <2>2, <2>6, <3>1, <4>1
    <3> QED
      BY <2>2, <2>6, <3>1, <3>2
  <2>8. Len(index') \in Nat /\ Len(index') <= n + 1 /\ Len(index') <= k
    <3>1. Len(index') = k - 1 \/ Len(index') = k
      <4>1. CASE Len(rest) = 0
        BY <2>1, <2>7, <4>1
      <4>2. CASE Len(rest) = 1
        BY <2>1, <2>7, <4>2
      <4> QED
        BY <2>5, <4>1, <4>2
    <3>2. k <= n + 1
      BY <1>4, <2>1
    <3> HIDE DEF rest
    <3> QED
      BY <1>4, <2>1, <3>1, <3>2
  <2>9. Len(index') >= 1 => index'[1][1] = n
    <3>1. CASE k = 1
      <4>1. whole[k] = <<n>> /\ Len(<<n>>) = 1
        BY <1>6, <3>1
      <4>2. f = 0
        BY <4>1
      <4>3. Len(index') = 0
        BY <2>5, <2>7, <3>1, <4>2
      <4> QED
        BY <4>3
    <3>2. CASE k # 1
      <4>1. 1 \in 1 .. (k - 1)
        BY <2>1, <3>2
      <4>2. index'[1] = <<n>> /\ <<n>>[1] = n
        BY <1>6, <2>7, <4>1
      <4> QED
        BY <4>2
    <3> QED
      BY <3>1, <3>2
  <2>10. ASSUME NEW j \in 1 .. n, j + 1 < Len(index') PROVE index'[j + 1] = idx_buffer[j]
    <3>1. j + 1 \in 1 .. (k - 1)
      BY <1>4, <2>1, <2>8, <2>10
    <3> QED
      BY <1>6, <2>7, <3>1
  <2>11. IndexIs'
    BY <1>1, <1>9, <2>8, <2>9, <2>10 DEF IndexIs, n
  <2> QED
    BY <1>1, <1>3, <1>9, <2>11 DEF FsInv
<1> QED
  BY <1>7, <1>8, <1>9 DEF FsIndex, whole

\* A step of the client leaves alone what the generator made.
LEMMA FsClientStep ==
  ASSUME FsInv, written # "old" => TableIs',
         UNCHANGED <<current, files, idx_buffer, index, written, total>>,
         fs_pc' \notin {"start", "make"}
  PROVE  FsInv'
<1>1. Indexed => Indexed'
  BY DEF Indexed
<1>2. IndexIs => IndexIs'
  BY DEF IndexIs
<1> QED
  BY <1>1, <1>2 DEF FsInv

LEMMA FsOpenKeeps == ASSUME FsInv, FsOpen PROVE FsInv'
<1>1. /\ UNCHANGED <<current, files, idx_buffer, index, written, fileset, total, spaced>>
      /\ fs_pc' = IF index # <<>> /\ index[1][1] > 0 THEN "load" ELSE "abort"
      /\ fs_pc \in {"made", "failed"}
  BY DEF FsOpen, Fs
<1>2. ASSUME written # "old" PROVE TableIs'
  <2>1. IndexIs /\ TableIs /\ Indexed
    BY <1>2 DEF FsInv
  <2>2. ASSUME fs_pc' = "abort", written = "whole" PROVE total <= 0
    <3>1. /\ Len(index) = Len(files) + 1
          /\ Len(index) >= 1 => index[1][1] = Len(files)
          /\ Len(files) = 0 => total <= 0
          /\ Len(files) \in Nat
      BY <2>1, <2>2 DEF IndexIs, Indexed
    <3>2. Len(index) >= 1 /\ index[1][1] = Len(files)
      BY <3>1
    <3>3. index # <<>>
      BY <3>2
    <3>4. ~(index[1][1] > 0)
      BY <1>1, <2>2, <3>3
    <3> QED
      BY <3>1, <3>2, <3>4
  <2>3. \A k : Fields(index[k])' = Fields(index[k])
    BY <1>1 DEF Fields
  <2>4. {Fields(index[k]) : k \in 1 .. Len(index)}' = {Fields(index[k]) : k \in 1 .. Len(index)}
    BY <1>1 DEF Fields
  <2>5. /\ fileset' \in Seq({Fields(index[k]) : k \in 1 .. Len(index)}')
        /\ \A k \in 1 .. Len(fileset') : fileset'[k] = Fields(index[k + 1])'
    BY <1>1, <2>1, <2>4 DEF TableIs, Fields
  <2>6. fs_pc' # "loaded" /\ total' = total /\ written' = written
    BY <1>1
  <2> QED
    BY <2>2, <2>5, <2>6 DEF TableIs
<1>3. fs_pc' \notin {"start", "make"}
  BY <1>1
<1> QED
  BY <1>1, <1>2, <1>3, FsClientStep

LEMMA FsLineKeeps == ASSUME FsInv, FsLine PROVE FsInv'
<1> DEFINE ix == Len(fileset)
           Rows == {Fields(index[k]) : k \in 1 .. Len(index)}
<1>1. /\ UNCHANGED <<current, files, idx_buffer, index, written, total, spaced>>
      /\ ix + 1 < Len(index)
      /\ fs_pc = "load"
      /\ \/ fs_pc' = "load" /\ fileset' = Append(fileset, Fields(index[ix + 2]))
         \/ fs_pc' = "abort" /\ ix >= index[1][1] /\ UNCHANGED fileset
  BY DEF FsLine, Fs
<1>2. ASSUME written # "old" PROVE TableIs'
  <2>1. IndexIs /\ Indexed
    BY <1>2 DEF FsInv
  <2>2. /\ ix \in Nat /\ Len(index) \in Nat /\ fileset \in Seq(Rows)
        /\ \A k \in 1 .. ix : fileset[k] = Fields(index[k + 1])
    BY <1>2 DEF FsInv, TableIs, IndexIs
  <2>3. Rows' = Rows /\ \A k : Fields(index[k])' = Fields(index[k])
    BY <1>1 DEF Fields
  <2>4. CASE fs_pc' = "load" /\ fileset' = Append(fileset, Fields(index[ix + 2]))
    <3> DEFINE row == Fields(index[ix + 2])
    <3>1. row \in Rows
      <4>1. ix + 2 \in 1 .. Len(index)
        BY <1>1, <2>2
      <4> QED
        BY <4>1
    <3>2. fileset' = Append(fileset, row)
      BY <2>4
    <3> HIDE DEF row, ix, Rows
    <3>3. /\ fileset' \in Seq(Rows) /\ Len(fileset') = ix + 1
          /\ \A k \in 1 .. ix : fileset'[k] = fileset[k]
          /\ fileset'[ix + 1] = row
      BY <2>2, <3>1, <3>2, AppendProperties DEF ix
    <3>4. ASSUME NEW k \in 1 .. (ix + 1) PROVE fileset'[k] = Fields(index[k + 1])
      <4>1. CASE k = ix + 1
        <5>1. k + 1 = ix + 2
          BY <2>2, <4>1
        <5> QED
          BY <3>3, <4>1, <5>1 DEF row
      <4>2. CASE k # ix + 1
        <5>1. k \in 1 .. ix
          BY <2>2, <4>2
        <5> QED
          BY <2>2, <3>3, <5>1
      <4> QED
        BY <4>1, <4>2
    <3>5. /\ fileset' \in Seq({Fields(index[k]) : k \in 1 .. Len(index)}')
          /\ \A k \in 1 .. Len(fileset') : fileset'[k] = Fields(index[k + 1])'
      BY <2>3, <3>3, <3>4 DEF Rows
    <3> QED
      BY <2>4, <3>5 DEF TableIs
  <2>5. CASE fs_pc' = "abort" /\ ix >= index[1][1] /\ UNCHANGED fileset
    <3>1. written # "whole"
      <4>1. SUFFICES ASSUME written = "whole" PROVE FALSE
        OBVIOUS
      <4>2. /\ Len(index) = Len(files) + 1 /\ index[1][1] = Len(files)
            /\ Len(files) \in Nat
        <5>1. Len(index) = Len(files) + 1 /\ Len(files) \in Nat
          BY <2>1, <4>1 DEF IndexIs, Indexed
        <5>2. Len(index) >= 1
          BY <5>1
        <5> QED
          BY <2>1, <5>1, <5>2 DEF IndexIs
      <4> QED
        BY <1>1, <2>2, <2>5, <4>2
    <3>2. /\ fileset' \in Seq({Fields(index[k]) : k \in 1 .. Len(index)}')
          /\ \A k \in 1 .. Len(fileset') : fileset'[k] = Fields(index[k + 1])'
      BY <2>2, <2>3, <2>5
    <3> QED
      BY <1>1, <2>5, <3>1, <3>2 DEF TableIs
  <2> QED
    BY <1>1, <2>4, <2>5
<1>3. fs_pc' \notin {"start", "make"}
  BY <1>1
<1> QED
  BY <1>1, <1>2, <1>3, FsClientStep

LEMMA FsLoadedKeeps == ASSUME FsInv, FsLoaded PROVE FsInv'
<1>1. /\ UNCHANGED <<current, files, idx_buffer, index, written, fileset, total, spaced>>
      /\ Len(fileset) + 1 = Len(index)
      /\ fs_pc' = IF Len(fileset) = index[1][1] THEN "loaded" ELSE "abort"
  BY DEF FsLoaded, Fs, Complete
<1>2. ASSUME written # "old" PROVE TableIs'
  <2>1. IndexIs /\ TableIs /\ Indexed
    BY <1>2 DEF FsInv
  <2>2. fs_pc' = "abort" => written # "whole"
    <3>1. SUFFICES ASSUME written = "whole" PROVE Len(fileset) = index[1][1]
      BY <1>1
    <3>2. Len(index) = Len(files) + 1 /\ Len(files) \in Nat /\ Len(fileset) \in Nat
      BY <2>1, <3>1 DEF IndexIs, Indexed, TableIs
    <3>3. index[1][1] = Len(files)
      BY <2>1, <3>2 DEF IndexIs
    <3> QED
      BY <1>1, <3>2, <3>3
  <2>3. {Fields(index[k]) : k \in 1 .. Len(index)}' = {Fields(index[k]) : k \in 1 .. Len(index)}
    BY <1>1 DEF Fields
  <2>4. /\ fileset' \in Seq({Fields(index[k]) : k \in 1 .. Len(index)}')
        /\ \A k \in 1 .. Len(fileset') : fileset'[k] = Fields(index[k + 1])'
    BY <1>1, <2>1, <2>3 DEF TableIs, Fields
  <2>5. fs_pc' = "loaded" =>
           Len(fileset') + 1 = Len(index') /\ Len(fileset') = index'[1][1]
    BY <1>1
  <2> QED
    BY <1>1, <2>2, <2>4, <2>5 DEF TableIs
<1>3. fs_pc' \notin {"start", "make"}
  BY <1>1
<1> QED
  BY <1>1, <1>2, <1>3, FsClientStep

LEMMA FsStepInv == FsInv /\ [FsNext]_fsVars => FsInv'
<1> SUFFICES ASSUME FsInv, [FsNext]_fsVars PROVE FsInv'
  OBVIOUS
<1>1. CASE UNCHANGED fsVars
  BY <1>1 DEF fsVars, FsInv, Indexed, IndexIs, TableIs, Fields
<1>2. CASE FsStart
  <2>1. /\ fs_pc = "start" /\ fs_pc' \in {"make", "failed"}
        /\ UNCHANGED <<current, files, idx_buffer, index, written, fileset, total>>
    BY <1>2 DEF FsStart, Fs
  <2>2. Indexed => Indexed'
    BY <2>1 DEF Indexed
  <2> QED
    BY <2>1, <2>2 DEF FsInv
<1> QED
  BY <1>1, <1>2, FsFileKeeps, FsIndexKeeps, FsOpenKeeps, FsLineKeeps, FsLoadedKeeps DEF FsNext

\* What the client loads is what the lines say.
LEMMA FsRead == FsInv => FsRoundTrip
<1> SUFFICES ASSUME FsInv PROVE FsRoundTrip
  OBVIOUS
<1>1. ASSUME fs_pc = "abort", written = "whole" PROVE total <= 0
  BY <1>1 DEF FsInv, TableIs
<1>2. ASSUME fs_pc = "loaded", written # "old"
      PROVE  /\ Len(fileset) = Len(files)
             /\ ~spaced => \A k \in DOMAIN files :
                   Agrees(k) \/ (written = "cut" /\ k = Len(files))
  <2>1. Indexed /\ IndexIs /\ TableIs
    BY <1>2 DEF FsInv
  <2>2. /\ Len(files) \in Nat /\ files \in Seq(FileContents)
        /\ \A k \in 1 .. Len(files) : idx_buffer[k] = LineOf(k, files[k])
        /\ Len(fileset) \in Nat
        /\ Len(fileset) + 1 = Len(index) /\ Len(fileset) = index[1][1]
        /\ \A k \in 1 .. Len(fileset) : fileset[k] = Fields(index[k + 1])
    BY <1>2, <2>1 DEF Indexed, TableIs
  <2>3. Len(index) >= 1
    BY <2>2
  <2>4. Len(fileset) = Len(files)
    BY <2>1, <2>2, <2>3 DEF IndexIs
  <2>5. ASSUME ~spaced, NEW k \in 1 .. Len(files), ~(written = "cut" /\ k = Len(files))
        PROVE  Agrees(k)
    <3>1. index[k + 1] = idx_buffer[k]
      <4>1. CASE written = "whole"
        BY <2>1, <4>1 DEF IndexIs
      <4>2. CASE written # "whole"
        <5>1. k + 1 < Len(index)
          BY <1>2, <2>2, <2>4, <2>5, <4>2 DEF FsInv
        <5> QED
          BY <2>1, <5>1 DEF IndexIs
      <4> QED
        BY <4>1, <4>2
    <3> DEFINE line == LineOf(k, files[k])
    <3>2. Len(line) = 3
      BY DEF LineOf
    <3>3. fileset[k] = Fields(line)
      BY <2>2, <2>4, <3>1
    <3> HIDE DEF line
    <3>4. Fields(line)[1] = line[1] /\ Fields(line)[2] = line[2] /\ Fields(line)[3] = line[3]
      <4>1. \A f \in 1 .. 3 : ~(f > Len(line))
        BY <3>2
      <4>2. \A f \in 1 .. 3 : Fields(line)[f] = line[f]
        BY <2>5, <4>1 DEF Fields
      <4> QED
        BY <4>2
    <3>5. /\ line[1] = k /\ line[2] = Csum(files[k])
          /\ line[3] = IF files[k] = <<>> THEN TooLarge ELSE Len(files[k])
      BY DEF line, LineOf
    <3> QED
      BY <3>3, <3>4, <3>5 DEF Agrees
  <2>6. DOMAIN files = 1 .. Len(files)
    BY <2>2
  <2> QED
    BY <2>4, <2>5, <2>6
<1> QED
  BY <1>1, <1>2 DEF FsRoundTrip

\* fileset.c, client.c 129-168: for any sizes of int, buffer and files and any
\* index left from before, what the client loads is what the generator made.
THEOREM IndexCorrect ==
  ASSUME NEW mean \in Means, NEW number \in Numbers, NEW space, NEW old
  PROVE  FsSpec(mean, number, space, old) => []FsRoundTrip
<1>1. FsInit(mean, number, space, old) => FsInv
  BY FsStartInv
<1>2. FsInv => FsRoundTrip
  BY FsRead
<1> QED
  BY <1>1, <1>2, FsStepInv, PTL DEF FsSpec

\* An int is an int, whatever it overflowed from.
LEMMA WrapFacts == ASSUME NEW n \in Int PROVE Wrap(n) \in -Half .. (Half - 1)
<1>1. Half \in Nat /\ Half > 0
  BY FilesetAssumption
<1> DEFINE m == 2 * Half
           r == (n + Half) % m
<1>2. m \in Nat /\ m > 0 /\ n + Half \in Int
  BY <1>1
<1>3. r \in Int /\ 0 <= r /\ r < m
  <2> HIDE DEF m
  <2>1. \A a \in Int : a % m \in Int /\ 0 <= a % m /\ a % m < m
    BY <1>2
  <2> QED
    BY <1>2, <2>1
<1>4. r - Half \in -Half .. (Half - 1)
  <2> HIDE DEF r
  <2> QED
    BY <1>1, <1>3
<1> QED
  BY <1>4 DEF Wrap

FsTypeInv ==
    /\ FsTypeOK
    /\ fs_pc \in {"start", "make"} => Len(files) <= MaxLines /\ Len(idx_buffer) = Len(files)

LEMMA FsTypeStart ==
  ASSUME NEW mean \in Means, NEW number \in Numbers, NEW space \in BOOLEAN, NEW old,
         FsInit(mean, number, space, old)
  PROVE  FsTypeInv
<1>1. mean \in Nat /\ number \in Nat /\ Half \in Nat /\ Half > 0 /\ MaxLines \in Nat
  BY FilesetAssumption
<1>2. \A a, b \in Nat : a * b \in Int
  OBVIOUS
<1>3. total \in -Half .. (Half - 1)
  BY <1>1, <1>2, WrapFacts DEF FsInit
<1>4. current \in -Half .. (Half - 1)
  BY <1>1 DEF FsInit
<1>5. Len(files) = 0 /\ Len(idx_buffer) = 0
  BY DEF FsInit
<1> QED
  BY <1>1, <1>3, <1>4, <1>5 DEF FsInit, FsTypeInv, FsTypeOK

LEMMA FsTypeStep == FsInv /\ FsTypeInv /\ [FsNext]_fsVars => FsTypeInv'
<1> SUFFICES ASSUME FsInv, FsTypeInv, [FsNext]_fsVars PROVE FsTypeInv'
  OBVIOUS
<1>0. Half \in Nat /\ Half > 0 /\ MaxLines \in Nat /\ BlockSums \subseteq Seq(Nat)
  BY FilesetAssumption
<1>1. CASE FsFile
  <2>1. PICK content \in BlockSums \cup {<<>>} :
           LET file_sz == IF content = <<>> THEN TooLarge ELSE Len(content)
           IN  \/ /\ Fs("make", "failed")
                  /\ files' \in {files} \cup {Append(files, SubSeq(content, 1, k)) : k \in 0 .. Len(content)}
                  /\ UNCHANGED <<current, idx_buffer>>
               \/ /\ Fs("make", IF Len(files) < MaxLines THEN "make" ELSE "failed")
                  /\ files' = Append(files, content)
                  /\ current' = Wrap(current + file_sz)
                  /\ idx_buffer' =
                        Append(idx_buffer, <<Len(files'), Csum(content), file_sz>>)
    BY <1>1 DEF FsFile
  <2>2. fs_pc = "make" /\ UNCHANGED <<spaced, total, written>>
    BY <1>1, <2>1 DEF FsFile, Fs
  <2>3. /\ files \in Seq(FileContents)
        /\ idx_buffer \in Seq({LineOf(k, c) : k \in Nat, c \in FileContents})
        /\ Len(files) \in Nat /\ Len(files) <= MaxLines /\ Len(idx_buffer) = Len(files)
    BY <2>2 DEF FsInv, Indexed, FsTypeInv
  <2>4. \A x : Len(Append(files, x)) = Len(files) + 1 /\ Len(Append(idx_buffer, x)) = Len(files) + 1
    <3>1. \A S, x : \A s \in Seq(S) : Len(Append(s, x)) = Len(s) + 1
      <4>1. ASSUME NEW S, NEW x, NEW s \in Seq(S) PROVE Len(Append(s, x)) = Len(s) + 1
        <5>1. s \in Seq(S \cup {x}) /\ x \in S \cup {x}
          OBVIOUS
        <5> QED
          BY <5>1
      <4> QED
        BY <4>1
    <3> QED
      BY <2>3, <3>1
  <2>5. CASE /\ Fs("make", "failed")
             /\ files' \in {files} \cup {Append(files, SubSeq(content, 1, k)) : k \in 0 .. Len(content)}
             /\ UNCHANGED <<current, idx_buffer>>
    <3>1. fs_pc' = "failed" /\ Len(files') \in {Len(files), Len(files) + 1}
      BY <2>4, <2>5 DEF Fs
    <3> QED
      BY <1>0, <2>2, <2>3, <2>5, <3>1 DEF FsTypeInv, FsTypeOK
  <2>6. CASE /\ Fs("make", IF Len(files) < MaxLines THEN "make" ELSE "failed")
             /\ files' = Append(files, content)
             /\ current' = Wrap(current + IF content = <<>> THEN TooLarge ELSE Len(content))
             /\ idx_buffer' = Append(idx_buffer, <<Len(files'), Csum(content),
                                      IF content = <<>> THEN TooLarge ELSE Len(content)>>)
    <3>1. (IF content = <<>> THEN TooLarge ELSE Len(content)) \in Int
      BY <1>0 DEF TooLarge
    <3>2. current' \in -Half .. (Half - 1)
      <4>1. current \in Int
        BY <1>0 DEF FsTypeInv, FsTypeOK
      <4>2. \A a, b \in Int : a + b \in Int
        OBVIOUS
      <4> QED
        BY <2>6, <3>1, <4>1, <4>2, WrapFacts
    <3>3. Len(files') = Len(files) + 1 /\ Len(idx_buffer') = Len(files) + 1
      BY <2>4, <2>6
    <3>4. (fs_pc' = "make" /\ Len(files) < MaxLines) \/ fs_pc' = "failed"
      BY <2>6 DEF Fs
    <3> QED
      BY <1>0, <2>2, <2>3, <3>2, <3>3, <3>4 DEF FsTypeInv, FsTypeOK
  <2> QED
    BY <2>1, <2>5, <2>6
<1>2. CASE /\ UNCHANGED <<spaced, total, current, files, idx_buffer>>
           /\ written' \in {written, "cut", "whole"}
           /\ fs_pc' \in {"make", "made", "failed", "load", "loaded", "abort"}
           /\ fs_pc' = "make" => fs_pc = "start"
  BY <1>2 DEF FsTypeInv, FsTypeOK, FsStopped
<1>3. CASE UNCHANGED fsVars
  BY <1>3 DEF fsVars, FsTypeInv, FsTypeOK, FsStopped
<1> QED
  BY <1>1, <1>2, <1>3 DEF FsNext, FsStart, FsIndex, FsOpen, FsLine, FsLoaded, Fs

\* fileset.c: the variables keep their types: the sizes are ints whatever they
\* overflowed from, and one line more than fits into the buffer is the last.
THEOREM FsTypeCorrect ==
  ASSUME NEW mean \in Means, NEW number \in Numbers, NEW space \in BOOLEAN, NEW old
  PROVE  FsSpec(mean, number, space, old) => []FsTypeOK
<1>1. FsInit(mean, number, space, old) => FsInv /\ FsTypeInv
  BY FsStartInv, FsTypeStart
<1>2. FsInv /\ FsTypeInv /\ [FsNext]_fsVars => (FsInv /\ FsTypeInv)'
  BY FsStepInv, FsTypeStep
<1>3. FsTypeInv => FsTypeOK
  BY DEF FsTypeInv
<1> QED
  BY <1>1, <1>2, <1>3, PTL DEF FsSpec

-----------------------------------------------------------------------------
(* ServerLoop *)

SrvSpec(n) == SrvInit(n) /\ [][SrvNext]_srvVars

\* An open connection is in one place: it waits for accept, or a worker has it.
ConnPlaces ==
    /\ IsInjective(backlog)
    /\ \A c \in ToSet(backlog) : c \notin buffered /\ conn[c] = "open"
    /\ \A c \in buffered : conn[c] = "open"

\* Who is connected has a request to make still.
ConnCounts ==
    /\ \A c \in ClientThreads : conn[c] # "idle" => left[c] >= 1
    /\ client = "ok" => \A c \in ClientThreads : left[c] = 0

\* Poll has seen something; a connection it saw is there as long as nobody has
\* taken it; and the pipe was hung up by a writer that has gone.
PollSaw ==
    /\ loop = "request" => backlog # <<>>
    /\ loop = "accept" => revents # {} /\ ("conn" \in revents => backlog # <<>>)
    /\ "hup" \in revents \/ fifo.hup => \E w \in Writers : writer[w] = "gone"

SrvInv == SrvTypeOK /\ ConnPlaces /\ ConnCounts /\ PollSaw /\ SrvFailsFor

LEMMA SrvStartInv == ASSUME NEW n \in WorkerCounts, SrvInit(n) PROVE SrvInv
<1>1. ToSet(backlog) = {} /\ IsInjective(backlog) /\ backlog \in Seq(ClientThreads)
  BY EmptyFacts DEF SrvInit
<1>2. SrvTypeOK
  BY <1>1, SrvAssumption DEF SrvInit, SrvTypeOK, NoFifo
<1> QED
  BY <1>1, <1>2 DEF SrvInit, SrvInv, ConnPlaces, ConnCounts, PollSaw, SrvFailsFor, NoFifo

\* A loop of the server that leaves the connections alone.
LEMMA LoopKeeps ==
  ASSUME SrvInv, StartServer \/ Poll \/ ExitAsked \/ NoConnection \/ AcceptConn \/ EndServer
  PROVE  SrvInv'
<1>1. /\ UNCHANGED <<nr_threads, backlog, buffered, writer, conn, left, client>>
      /\ loop' \in {"poll", "accept", "exit", "dead", "request", "over"}
  BY DEF StartServer, Poll, ExitAsked, NoConnection, AcceptConn, EndServer, theClient
<1>2. /\ revents' \subseteq {"in", "hup", "conn"}
      /\ fifo' \in [there : BOOLEAN, data : BOOLEAN, hup : BOOLEAN]
  <2>1. /\ fifo' = fifo \/ fifo' = NoFifo \/ fifo' = [NoFifo EXCEPT !.there = TRUE]
        /\ revents' = revents \/ revents' = Events
    BY DEF StartServer, Poll, ExitAsked, NoConnection, AcceptConn, EndServer
  <2>2. NoFifo \in [there : BOOLEAN, data : BOOLEAN, hup : BOOLEAN]
    BY DEF NoFifo
  <2>3. Events \subseteq {"in", "hup", "conn"}
    BY DEF Events
  <2> QED
    BY <2>1, <2>2, <2>3 DEF SrvInv, SrvTypeOK
<1>3. PollSaw'
  <2>1. ("hup" \in revents' \/ fifo'.hup) => ("hup" \in revents \/ fifo.hup)
    <3>1. "hup" \in Events => fifo.hup
      BY DEF Events
    <3>2. ~NoFifo.hup /\ ~[NoFifo EXCEPT !.there = TRUE].hup
      BY DEF NoFifo
    <3> QED
      BY <3>1, <3>2 DEF StartServer, Poll, ExitAsked, NoConnection, AcceptConn, EndServer
  <2>2. "hup" \in revents' \/ fifo'.hup => \E w \in Writers : writer'[w] = "gone"
    BY <1>1, <2>1 DEF SrvInv, PollSaw
  <2>3. loop' = "request" => backlog' # <<>>
    BY DEF StartServer, Poll, ExitAsked, NoConnection, AcceptConn, EndServer, SrvInv, PollSaw
  <2>4. loop' = "accept" => revents' # {} /\ ("conn" \in revents' => backlog' # <<>>)
    <3>1. "conn" \in Events => backlog # <<>>
      BY DEF Events
    <3> QED
      BY <1>1, <3>1 DEF StartServer, Poll, ExitAsked, NoConnection, AcceptConn, EndServer
  <2> QED
    BY <2>2, <2>3, <2>4 DEF PollSaw
<1>4. SrvFailsFor'
  <2>1. CASE NoConnection
    <3>1. /\ revents' = revents /\ writer' = writer
          /\ "in" \notin revents /\ "conn" \notin revents /\ revents # {}
          /\ revents \subseteq {"in", "hup", "conn"}
      BY <2>1 DEF NoConnection, ExitFirst, SrvInv, PollSaw, SrvTypeOK
    <3>2. revents = {"hup"}
      BY <3>1
    <3>3. \E w \in Writers : writer[w] = "gone"
      BY <3>2 DEF SrvInv, PollSaw
    <3> QED
      BY <3>1, <3>2, <3>3 DEF SrvFailsFor
  <2>2. CASE ~NoConnection
    <3>1. loop' # "dead"
      BY <2>2 DEF StartServer, Poll, ExitAsked, AcceptConn, EndServer
    <3> QED
      BY <3>1 DEF SrvFailsFor
  <2> QED
    BY <2>1, <2>2
<1> QED
  BY <1>1, <1>2, <1>3, <1>4 DEF SrvInv, SrvTypeOK, ConnPlaces, ConnCounts

LEMMA RequestKeeps == ASSUME SrvInv, ServerRequest PROVE SrvInv'
<1> DEFINE c == Head(backlog)
<1>1. /\ loop = "request" /\ loop' = "poll" /\ backlog' = Tail(backlog)
      /\ UNCHANGED <<nr_threads, revents, fifo, writer, left, client>>
      /\ \/ conn' = [conn EXCEPT ![c] = "done"] /\ UNCHANGED buffered
         \/ buffered' = buffered \cup {c} /\ UNCHANGED conn
  BY DEF ServerRequest
<1>2. backlog # <<>> /\ backlog \in Seq(ClientThreads) /\ IsInjective(backlog)
  BY <1>1 DEF SrvInv, SrvTypeOK, ConnPlaces, PollSaw
<1>3. /\ c \in ClientThreads /\ c \in ToSet(backlog)
      /\ Tail(backlog) \in Seq(ClientThreads) /\ IsInjective(Tail(backlog))
      /\ ToSet(Tail(backlog)) = ToSet(backlog) \ {c}
  BY <1>2, PopFacts
<1> HIDE DEF c
<1>4. SrvTypeOK'
  BY <1>1, <1>3 DEF SrvInv, SrvTypeOK
<1>5. ConnPlaces'
  <2>1. /\ c \notin buffered /\ conn[c] = "open"
        /\ \A d \in ToSet(backlog) : d \notin buffered /\ conn[d] = "open"
        /\ \A d \in buffered : conn[d] = "open"
    BY <1>3 DEF SrvInv, ConnPlaces
  <2>2. IsInjective(backlog') /\ ToSet(backlog') = ToSet(backlog) \ {c}
    BY <1>1, <1>3
  <2>3. \A d \in ClientThreads : d # c /\ conn[d] = "open" => conn'[d] = "open"
    BY <1>1 DEF SrvInv, SrvTypeOK
  <2>4. ToSet(backlog) \subseteq ClientThreads /\ buffered \subseteq ClientThreads
    BY <1>2, ByPosition DEF SrvInv, SrvTypeOK
  <2> QED
    BY <1>1, <2>1, <2>2, <2>3, <2>4 DEF ConnPlaces
<1>6. ConnCounts'
  BY <1>1, <1>3 DEF SrvInv, SrvTypeOK, ConnPlaces, ConnCounts
<1> QED
  BY <1>1, <1>4, <1>5, <1>6 DEF SrvInv, PollSaw, SrvFailsFor

LEMMA ServeKeeps == ASSUME SrvInv, ServeConn PROVE SrvInv'
<1>1. PICK c \in buffered :
        /\ buffered' = buffered \ {c} /\ conn' = [conn EXCEPT ![c] = "done"]
        /\ UNCHANGED <<loop, nr_threads, revents, backlog, fifo, writer, left, client>>
  BY DEF ServeConn
<1>2. c \in ClientThreads /\ c \notin ToSet(backlog) /\ conn[c] = "open"
  BY <1>1 DEF SrvInv, SrvTypeOK, ConnPlaces
<1> QED
  BY <1>1, <1>2 DEF SrvInv, SrvTypeOK, ConnPlaces, ConnCounts, PollSaw, SrvFailsFor

LEMMA ClientsKeep ==
  ASSUME SrvInv, NEW c \in ClientThreads, Connect(c) \/ Answered(c) \/ CutOff(c)
  PROVE  SrvInv'
<1>1. CASE Connect(c) /\ client' # "failed"
  <2>1. /\ client = "running" /\ conn[c] = "idle" /\ left[c] > 0
        /\ backlog' = Append(backlog, c) /\ conn' = [conn EXCEPT ![c] = "open"]
        /\ UNCHANGED <<loop, nr_threads, revents, buffered, fifo, writer, left, client>>
    BY <1>1 DEF Connect
  <2>2. backlog \in Seq(ClientThreads) /\ c \notin ToSet(backlog) /\ c \notin buffered
    BY <2>1 DEF SrvInv, SrvTypeOK, ConnPlaces
  <2>3. /\ backlog' \in Seq(ClientThreads) /\ backlog' # <<>>
        /\ ToSet(backlog') = ToSet(backlog) \cup {c}
        /\ IsInjective(backlog')
    BY <2>1, <2>2, EnqueueFacts DEF SrvInv, ConnPlaces
  <2>4. SrvTypeOK'
    BY <2>1, <2>3 DEF SrvInv, SrvTypeOK
  <2>5. ConnPlaces'
    BY <2>1, <2>2, <2>3 DEF SrvInv, SrvTypeOK, ConnPlaces
  <2>6. ConnCounts'
    <3>1. left[c] >= 1
      BY <2>1 DEF SrvInv, SrvTypeOK
    <3> QED
      BY <2>1, <3>1 DEF SrvInv, SrvTypeOK, ConnCounts
  <2> QED
    BY <2>1, <2>3, <2>4, <2>5, <2>6 DEF SrvInv, PollSaw, SrvFailsFor
<1>2. CASE Answered(c)
  <2>1. /\ client = "running" /\ conn[c] = "done"
        /\ conn' = [conn EXCEPT ![c] = "idle"] /\ left' = [left EXCEPT ![c] = left[c] - 1]
        /\ UNCHANGED <<loop, nr_threads, revents, backlog, buffered, fifo, writer, client>>
    BY <1>2 DEF Answered, theServer
  <2>2. left[c] - 1 \in 0 .. NrTimes
    BY <2>1, SrvAssumption DEF SrvInv, SrvTypeOK, ConnCounts
  <2>3. c \notin ToSet(backlog) /\ c \notin buffered
    BY <2>1 DEF SrvInv, ConnPlaces
  <2> QED
    BY <2>1, <2>2, <2>3 DEF SrvInv, SrvTypeOK, ConnPlaces, ConnCounts, PollSaw, SrvFailsFor
<1>3. CASE client' = "failed" /\ (Connect(c) \/ CutOff(c))
  <2>1. UNCHANGED <<loop, nr_threads, revents, backlog, buffered, fifo, writer, conn, left>>
        /\ client = "running"
    BY <1>3 DEF Connect, CutOff, theServer
  <2> QED
    BY <1>3, <2>1 DEF SrvInv, SrvTypeOK, ConnPlaces, ConnCounts, PollSaw, SrvFailsFor
<1> QED
  BY <1>1, <1>2, <1>3 DEF CutOff

LEMMA MainKeeps == ASSUME SrvInv, JoinAll \/ StartClient PROVE SrvInv'
<1>1. /\ UNCHANGED <<loop, nr_threads, revents, backlog, buffered, fifo, writer, conn>>
      /\ \/ /\ client' = "ok" /\ left' = left
            /\ \A c \in ClientThreads : left[c] = 0
         \/ /\ client = "ok" /\ client' = "running"
            /\ left' = [c \in ClientThreads |-> NrTimes]
  BY DEF JoinAll, StartClient, theServer
<1>2. ASSUME client = "ok" PROVE \A c \in ClientThreads : conn[c] = "idle"
  <2>1. \A c \in ClientThreads : left[c] = 0
    BY <1>2 DEF SrvInv, ConnCounts
  <2>2. \A c \in ClientThreads : ~(left[c] >= 1)
    BY <2>1
  <2> QED
    BY <2>2 DEF SrvInv, ConnCounts
<1>3. left' \in [ClientThreads -> 0 .. NrTimes]
  BY <1>1, SrvAssumption DEF SrvInv, SrvTypeOK
<1>4. ConnCounts'
  BY <1>1, <1>2 DEF SrvInv, ConnCounts
<1> QED
  BY <1>1, <1>3, <1>4 DEF SrvInv, SrvTypeOK, ConnPlaces, PollSaw, SrvFailsFor

LEMMA WritersKeep == ASSUME SrvInv, NEW w \in Writers, Shutdown(w) PROVE SrvInv'
<1>1. /\ UNCHANGED <<loop, nr_threads, revents, backlog, buffered, conn, left, client>>
      /\ writer' \in [Writers -> {"idle", "open", "gone"}]
      /\ fifo' \in [there : BOOLEAN, data : BOOLEAN, hup : BOOLEAN]
  BY DEF Shutdown, OpenFifo, CloseFifo, theServer, theClient, SrvInv, SrvTypeOK
<1>2. (\E v \in Writers : writer[v] = "gone") => \E v \in Writers : writer'[v] = "gone"
  <2> SUFFICES ASSUME NEW v \in Writers, writer[v] = "gone"
               PROVE  \E u \in Writers : writer'[u] = "gone"
    OBVIOUS
  <2>1. CASE v = w
    BY <2>1 DEF Shutdown, OpenFifo, CloseFifo, SrvInv, SrvTypeOK
  <2>2. CASE v # w
    BY <2>2 DEF Shutdown, OpenFifo, CloseFifo, SrvInv, SrvTypeOK
  <2> QED
    BY <2>1, <2>2
<1>3. fifo'.hup => fifo.hup \/ \E v \in Writers : writer'[v] = "gone"
  <2>1. CASE OpenFifo(w)
    BY <2>1 DEF OpenFifo, SrvInv, SrvTypeOK
  <2>2. CASE \E wrote \in BOOLEAN : CloseFifo(w, wrote)
    BY <2>2 DEF CloseFifo, SrvInv, SrvTypeOK
  <2> QED
    BY <2>1, <2>2 DEF Shutdown
<1>4. PollSaw'
  BY <1>1, <1>2, <1>3 DEF SrvInv, PollSaw
<1>5. SrvFailsFor'
  BY <1>1, <1>2 DEF SrvInv, SrvFailsFor
<1> QED
  BY <1>1, <1>4, <1>5 DEF SrvInv, SrvTypeOK, ConnPlaces, ConnCounts

LEMMA SrvStep == SrvInv /\ [SrvNext]_srvVars => SrvInv'
<1> SUFFICES ASSUME SrvInv, [SrvNext]_srvVars PROVE SrvInv'
  OBVIOUS
<1>1. CASE UNCHANGED srvVars
  BY <1>1 DEF srvVars, SrvInv, SrvTypeOK, ConnPlaces, ConnCounts, PollSaw, SrvFailsFor
<1> QED
  BY <1>1, LoopKeeps, RequestKeeps, ServeKeeps, ClientsKeep, MainKeeps, WritersKeep
     DEF SrvNext, Server, ClientStep

\* server.c 80-130: for any number of clients, workers and processes that shut
\* the server down, the assertion of the loop fails only if poll found the pipe
\* hung up by one of these that has gone, nothing written to it, and no
\* connection: whatever arrives between poll and the assertion.  (That it does
\* fail then is what the run of ConnectArrived shows.)
THEOREM LoopFails == ASSUME NEW n \in WorkerCounts PROVE SrvSpec(n) => []SrvFailsFor
<1>1. SrvInit(n) => SrvInv
  BY SrvStartInv
<1>2. SrvInv => SrvFailsFor
  BY DEF SrvInv
<1> QED
  BY <1>1, <1>2, SrvStep, PTL DEF SrvSpec

\* server.c, client.c: an open connection is in one place, and nobody connects
\* more often than NrTimes.
THEOREM SrvTypeCorrect == ASSUME NEW n \in WorkerCounts PROVE SrvSpec(n) => [](SrvTypeOK /\ ConnPlaces)
<1>1. SrvInit(n) => SrvInv
  BY SrvStartInv
<1>2. SrvInv => SrvTypeOK /\ ConnPlaces
  BY DEF SrvInv
<1> QED
  BY <1>1, <1>2, SrvStep, PTL DEF SrvSpec

-----------------------------------------------------------------------------
(* WordCount *)

WcSpec(t) == WcInit(t) /\ [][WcNext]_wcVars

\* The stretches of the text that end before a position, and those of a word.
RunsTo(m) == {r \in Runs : r[2] < m}
Occ(w, m) == {r \in RunsTo(m) : WordAt(r) = w}

\* What is in a bucket: a word, and how often it has been seen.  Its word hashes
\* to this bucket or one in front of it, and between the two there is no free one.
Filled(s, m) ==
    LET w == buckets[s].word
    IN  /\ buckets[s] = [word |-> w, count |-> Cardinality(Occ(w, m))]
        /\ buckets[s].count >= 1
        /\ w \in DOMAIN hash /\ hash[w] <= s
        /\ \A t \in hash[w] .. s : buckets[t] # NoBucket

\* The table has every word up to a position, each in one bucket.
Table(m) ==
    /\ \A s \in Slots : buckets[s] # NoBucket => Filled(s, m)
    /\ \A s, t \in Slots :
          buckets[s] # NoBucket /\ buckets[t] # NoBucket /\ buckets[s].word = buckets[t].word
             => s = t
    /\ \A r \in RunsTo(m) : \E s \in Slots : buckets[s] # NoBucket /\ buckets[s].word = WordAt(r)

\* The index is behind a separator; the word in hand is the one in front of it.
WcInv ==
    /\ WcTypeOK /\ buckets = [s \in Slots |-> buckets[s]]
    /\ wc_pc \in {"split", "insert"} => (i > 0 /\ i <= Size => text[i] = Space)
    /\ wc_pc = "split" => Table(i)
    /\ wc_pc = "insert" => Table(i - 1) /\ \E r \in Runs : r[2] = i - 1 /\ word = WordAt(r)
    /\ CountsRight /\ FailsOnlyThere

\* The text, its length, and its buckets; the least of some indices is one.
LEMMA TextFacts ==
  ASSUME text \in Texts
  PROVE  /\ Size \in Nat /\ \A k \in 1 .. Size : text[k] \in ToSet(text)
         /\ text \in Seq(ToSet(text))
         /\ NumBuckets(Size) \in Nat
         /\ NumBuckets(Size) <= 0 => Size <= 2
         /\ Slots \subseteq Nat
         /\ \A t : t \in Slots <=> t \in Nat /\ t < NumBuckets(Size)
<1>1. text \in Seq(ToSet(text))
  BY WcAssumption
<1>2. Size \in Nat /\ \A k \in 1 .. Size : text[k] \in ToSet(text)
  BY <1>1, LenProperties, ElementOfSeq DEF Size
<1>3. NumBuckets(Size) \in Nat /\ (NumBuckets(Size) <= 0 => Size <= 2)
  BY <1>2 DEF NumBuckets
<1> QED
  BY <1>1, <1>2, <1>3 DEF Slots

LEMMA LeastIs ==
  ASSUME NEW S \in SUBSET Nat, NEW x \in S
  PROVE  Min(S) \in S /\ Min(S) <= x
<1>1. \E k \in S : \A y \in S : k <= y
  BY LeastNat
<1> QED
  BY <1>1 DEF Min

\* There are not more stretches than characters, and none before the first.
LEMMA RunsFinite ==
  ASSUME text \in Texts
  PROVE  /\ IsFiniteSet(Runs) /\ Cardinality(Runs) \in Nat /\ Cardinality(Runs) <= Size
         /\ \A r \in Runs : /\ r[1] \in 1 .. Size /\ r[2] \in 1 .. Size /\ r[1] <= r[2]
                            /\ \A k \in r[1] .. r[2] : text[k] # Space
                            /\ r[1] = 1 \/ text[r[1] - 1] = Space
                            /\ r[2] = Size \/ text[r[2] + 1] = Space
                            /\ r = <<r[1], r[2]>>
         /\ \A q, r \in Runs : q[2] = r[2] => q = r
<1>0. Size \in Nat
  BY TextFacts
<1>1. \A r \in Runs : /\ r[1] \in 1 .. Size /\ r[2] \in 1 .. Size /\ r[1] <= r[2]
                      /\ \A k \in r[1] .. r[2] : text[k] # Space
                      /\ r[1] = 1 \/ text[r[1] - 1] = Space
                      /\ r[2] = Size \/ text[r[2] + 1] = Space
                      /\ r = <<r[1], r[2]>>
  BY DEF Runs
<1>2. ASSUME NEW q \in Runs, NEW r \in Runs, q[2] = r[2], q[1] < r[1] PROVE FALSE
  <2>1. r[1] - 1 \in q[1] .. q[2] /\ r[1] # 1
    BY <1>0, <1>1, <1>2
  <2>2. text[r[1] - 1] = Space
    BY <1>1, <2>1
  <2> QED
    BY <1>1, <2>1, <2>2
<1>3. ASSUME NEW q \in Runs, NEW r \in Runs, q[2] = r[2] PROVE q = r
  <2>1. q[1] = r[1]
    BY <1>0, <1>1, <1>2, <1>3
  <2> QED
    BY <1>1, <1>3, <2>1
<1> DEFINE f == [r \in Runs |-> r[2]]
<1>4. f \in [Runs -> 1 .. Size] /\ \A q, r \in Runs : f[q] = f[r] => q = r
  BY <1>1, <1>3
<1>5. f \in Injection(Runs, 1 .. Size)
  BY <1>4, Fun_IsInj
<1>6. IsFiniteSet(1 .. Size) /\ Cardinality(1 .. Size) = Size
  <2>1. /\ IsFiniteSet(1 .. Size)
        /\ Cardinality(1 .. Size) = IF 1 > Size THEN 0 ELSE Size - 1 + 1
    BY <1>0, FS_Interval
  <2> QED
    BY <1>0, <2>1
<1>7. IsFiniteSet(Runs) /\ Cardinality(Runs) <= Size
  BY <1>5, <1>6, FS_Injection DEF ExistsInjection
<1>8. Cardinality(Runs) \in Nat
  BY <1>7, FS_CardinalityType
<1> QED
  BY <1>1, <1>3, <1>7, <1>8

\* The occurrences of a word up to a position.
LEMMA OccFacts ==
  ASSUME text \in Texts, NEW w, NEW m
  PROVE  /\ IsFiniteSet(Occ(w, m)) /\ Cardinality(Occ(w, m)) \in 0 .. Size
         /\ Cardinality(Occ(w, m)) = 0 <=> Occ(w, m) = {}
<1>1. IsFiniteSet(Runs) /\ Cardinality(Runs) \in Nat /\ Cardinality(Runs) <= Size /\ Size \in Nat
  BY RunsFinite, TextFacts
<1>2. Occ(w, m) \in SUBSET Runs
  BY DEF Occ, RunsTo
<1>3. IsFiniteSet(Occ(w, m)) /\ Cardinality(Occ(w, m)) <= Cardinality(Runs)
  BY <1>1, <1>2, FS_Subset
<1>4. Cardinality(Occ(w, m)) \in Nat
  BY <1>3, FS_CardinalityType
<1> QED
  BY <1>1, <1>3, <1>4, FS_EmptySet

LEMMA WcStartInv == ASSUME NEW t \in Texts, WcInit(t) PROVE WcInv
<1>1. text \in Texts /\ Size \in Nat /\ Slots = 0 .. (NumBuckets(Size) - 1)
  BY TextFacts DEF WcInit, Slots
<1>2. buckets = [s \in Slots |-> NoBucket] /\ hash = <<>> /\ i = 0 /\ wc_pc = "split"
  BY <1>1 DEF WcInit, Size
<1>3. DOMAIN hash = {}
  BY <1>2
<1>4. NoBucket.count = 0
  BY DEF NoBucket
<1>5. WcTypeOK
  BY <1>1, <1>2, <1>3, <1>4 DEF WcTypeOK
<1>6. RunsTo(0) = {}
  BY <1>1, RunsFinite DEF RunsTo
<1>7. Table(0)
  BY <1>2, <1>6 DEF Table
<1> QED
  BY <1>1, <1>2, <1>5, <1>7 DEF WcInv, CountsRight, FailsOnlyThere

\* Where the next word begins and ends.
LEMMA NextWord ==
  ASSUME text \in Texts, i \in 0 .. (Size + 1), i < Size, i > 0 => text[i] = Space,
         NEW k, k = Min({x \in i .. (Size - 1) : text[x + 1] # Space}),
         {x \in i .. (Size - 1) : text[x + 1] # Space} # {}
  PROVE  LET e == WordEnd(k)
         IN  /\ e \in 1 .. Size
             /\ e < Size => text[e + 1] = Space
             /\ <<k + 1, e>> \in Runs
             /\ RunsTo(e) = RunsTo(i)
<1> DEFINE starts == {x \in i .. (Size - 1) : text[x + 1] # Space}
           ends == {Size} \cup {x \in k .. (Size - 1) : text[x + 1] = Space}
           e == WordEnd(k)
<1>0. Size \in Nat /\ i \in Nat
  BY TextFacts
<1>1. k \in starts /\ \A x \in starts : k <= x
  <2>1. starts \in SUBSET Nat
    BY <1>0
  <2> QED
    BY <2>1, LeastIs
<1>2. e \in ends /\ \A x \in ends : e <= x
  <2>1. ends \in SUBSET Nat
    BY <1>0, <1>1
  <2>2. e = Min(ends)
    BY DEF WordEnd
  <2>3. Size \in ends
    OBVIOUS
  <2> HIDE DEF ends
  <2> QED
    BY <2>1, <2>2, <2>3, LeastIs
<1>3. k \in i .. (Size - 1) /\ text[k + 1] # Space
  BY <1>1
<1>4. e = Size \/ (e \in k .. (Size - 1) /\ text[e + 1] = Space)
  BY <1>2
<1>5. e \in (k + 1) .. Size /\ (e < Size => text[e + 1] = Space)
  BY <1>0, <1>3, <1>4
<1>6. ASSUME NEW x \in (k + 1) .. e PROVE text[x] # Space
  <2>1. x - 1 \in k .. (Size - 1) /\ ~(e <= x - 1) /\ (x - 1) + 1 = x
    BY <1>0, <1>3, <1>5
  <2> QED
    BY <1>2, <2>1
<1>7. ASSUME NEW x \in i .. Size, x < k PROVE text[x + 1] = Space
  <2>1. x \in i .. (Size - 1) /\ ~(k <= x)
    BY <1>0, <1>3, <1>7
  <2> QED
    BY <1>1, <2>1
<1> HIDE DEF starts, ends, e
<1>8. <<k + 1, e>> \in Runs
  <2>1. k + 1 \in 1 .. Size /\ e \in 1 .. Size /\ k + 1 <= e
    BY <1>0, <1>3, <1>5
  <2>2. k + 1 = 1 \/ text[(k + 1) - 1] = Space
    <3>1. CASE k = i
      BY <1>0, <3>1
    <3>2. CASE k # i
      <4>1. k - 1 \in i .. Size /\ k - 1 < k /\ (k - 1) + 1 = (k + 1) - 1
        BY <1>0, <1>3, <3>2
      <4> QED
        BY <1>7, <4>1
    <3> QED
      BY <3>1, <3>2
  <2>3. e = Size \/ text[e + 1] = Space
    BY <1>0, <1>5
  <2> QED
    BY <1>6, <2>1, <2>2, <2>3 DEF Runs
<1>9. ASSUME NEW r \in Runs, r[2] >= i, r[2] < e PROVE FALSE
  <2>1. /\ r[2] \in 1 .. Size /\ r[2] # Size /\ text[r[2]] # Space /\ text[r[2] + 1] = Space
    <3>1. r[2] \in 1 .. Size /\ r[1] \in 1 .. Size /\ r[1] <= r[2] /\ r[2] # Size
      BY <1>0, <1>5, <1>9, RunsFinite
    <3>2. r[2] \in r[1] .. r[2]
      BY <3>1
    <3> QED
      BY <3>1, <3>2, RunsFinite
  <2>2. r[2] # i
    BY <2>1
  <2>3. r[2] - 1 \in i .. Size /\ (r[2] - 1) + 1 = r[2]
    BY <1>0, <1>9, <2>1, <2>2
  <2>4. ~(r[2] - 1 < k)
    BY <1>7, <2>1, <2>3
  <2>5. r[2] + 1 \in (k + 1) .. e
    BY <1>0, <1>3, <1>5, <1>9, <2>1, <2>4
  <2> QED
    BY <1>6, <2>1, <2>5
<1>10. RunsTo(e) = RunsTo(i)
  <2>1. \A r \in Runs : r[2] \in Int
    BY RunsFinite
  <2>2. i <= e
    BY <1>0, <1>3, <1>5
  <2>3. \A r \in Runs : r[2] < e <=> r[2] < i
    BY <1>0, <1>5, <1>9, <2>1, <2>2
  <2> QED
    BY <2>3 DEF RunsTo
<1> QED
  BY <1>0, <1>3, <1>5, <1>8, <1>10 DEF e

LEMMA SplitKeeps == ASSUME WcInv, WordFromStr PROVE WcInv'
<1> DEFINE starts == {x \in i .. (Size - 1) : text[x + 1] # Space}
<1>0. /\ text \in Texts /\ Size \in Nat /\ i \in 0 .. (Size + 1) /\ wc_pc = "split"
      /\ i < Size /\ (i > 0 => text[i] = Space) /\ Table(i) /\ WcTypeOK
      /\ buckets = [s \in Slots |-> buckets[s]]
      /\ UNCHANGED <<text, hash, buckets, printed>>
  BY TextFacts DEF WcInv, WordFromStr, Wc, WcTypeOK
<1>1. /\ Size' = Size /\ Slots' = Slots /\ Runs' = Runs
      /\ \A r : WordAt(r)' = WordAt(r)
  BY <1>0 DEF Size, Slots, NumBuckets, Runs, WordAt
<1>2. CASE starts = {} /\ wc_pc' = "lost" /\ UNCHANGED <<i, word>>
  <2>1. \A x \in i .. (Size - 1) : text[x + 1] = Space
    BY <1>2
  <2>2. text[Size] = Space
    <3>1. Size - 1 \in i .. (Size - 1) /\ (Size - 1) + 1 = Size
      BY <1>0
    <3> QED
      BY <2>1, <3>1
  <2>3. Size > 1 => text[Size - 1] = Space
    <3>1. CASE i = Size - 1
      BY <1>0, <3>1
    <3>2. CASE i # Size - 1
      <4>1. Size > 1 => Size - 2 \in i .. (Size - 1) /\ (Size - 2) + 1 = Size - 1
        BY <1>0, <3>2
      <4> QED
        BY <2>1, <4>1
    <3> QED
      BY <3>1, <3>2
  <2>4. WcTypeOK'
    BY <1>0, <1>1, <1>2 DEF WcTypeOK, WcStopped
  <2> QED
    BY <1>0, <1>1, <1>2, <2>2, <2>3, <2>4 DEF WcInv, CountsRight, FailsOnlyThere
<1>3. CASE starts # {} /\ wc_pc' = "insert"
           /\ word' = SubSeq(text, Min(starts) + 1, WordEnd(Min(starts)))
           /\ i' = NextStart(WordEnd(Min(starts)))
  <2> DEFINE k == Min(starts)
             e == WordEnd(k)
  <2>1. /\ e \in 1 .. Size
        /\ e < Size => text[e + 1] = Space
        /\ <<k + 1, e>> \in Runs
        /\ RunsTo(e) = RunsTo(i)
    BY <1>0, <1>3, NextWord
  <2>2. i' = e + 1 /\ word' = WordAt(<<k + 1, e>>)
    BY <1>3 DEF NextStart, WordAt
  <2> HIDE DEF k, e
  <2>3. i' \in 0 .. (Size + 1) /\ i' - 1 = e /\ (i' > 0 /\ i' <= Size => text[i'] = Space)
    BY <1>0, <2>1, <2>2
  <2>4. WcTypeOK'
    BY <1>0, <1>1, <1>3, <2>3 DEF WcTypeOK, WcStopped
  <2>5. Table(e)
    <3>1. \A w : Occ(w, e) = Occ(w, i)
      BY <2>1 DEF Occ
    <3> QED
      BY <1>0, <2>1, <3>1 DEF Table, Filled
  <2>6. Table(i - 1)'
    <3>1. RunsTo(i - 1)' = RunsTo(e)
      BY <1>1, <2>3 DEF RunsTo
    <3>2. \A w : Occ(w, i - 1)' = Occ(w, e)
      BY <1>1, <3>1 DEF Occ
    <3> QED
      BY <1>0, <1>1, <2>5, <3>1, <3>2 DEF Table, Filled
  <2>7. \E r \in Runs : r[2] = i' - 1 /\ word' = WordAt(r)
    <3>1. <<k + 1, e>>[2] = e
      OBVIOUS
    <3> QED
      BY <2>1, <2>2, <2>3, <3>1
  <2> QED
    BY <1>0, <1>1, <1>3, <2>3, <2>4, <2>6, <2>7 DEF WcInv, CountsRight, FailsOnlyThere
<1> QED
  BY <1>2, <1>3 DEF WordFromStr, Wc

\* The bucket that the probing comes to.
LEMMA ProbeFacts ==
  ASSUME text \in Texts, NEW m, Table(m),
         NEW b \in Slots, word \in DOMAIN hash => b = hash[word], Probe(b) # {}
  PROVE  LET s == Min(Probe(b))
         IN  /\ s \in Slots /\ b <= s
             /\ buckets[s] = NoBucket \/ buckets[s].word = word
             /\ \A t \in b .. (s - 1) : t \in Slots /\ buckets[t] # NoBucket
             /\ \A t \in Slots : buckets[t] # NoBucket /\ buckets[t].word = word => t = s
<1> DEFINE P == Probe(b)
           s == Min(P)
<1>0. Slots \subseteq Nat /\ \A t : t \in Slots <=> t \in Nat /\ t < NumBuckets(Size)
  BY TextFacts
<1>1. P \in SUBSET Slots /\ P # {}
  BY DEF Probe
<1>2. s \in P /\ \A t \in P : s <= t
  BY <1>0, <1>1, LeastIs
<1>3. s \in Slots /\ b <= s /\ (buckets[s] = NoBucket \/ buckets[s].word = word)
  BY <1>2 DEF Probe
<1> HIDE DEF P, s
<1>4. ASSUME NEW t \in b .. (s - 1) PROVE t \in Slots /\ buckets[t] # NoBucket
  <2>1. t \in Nat /\ t < s /\ b <= t
    BY <1>0, <1>3
  <2>2. t \in Slots
    <3>1. s < NumBuckets(Size) /\ NumBuckets(Size) \in Nat
      BY <1>0, <1>3, TextFacts
    <3> QED
      BY <1>0, <1>3, <2>1, <3>1
  <2>3. t \notin P
    BY <1>0, <1>2, <1>3, <2>1
  <2> QED
    BY <2>1, <2>2, <2>3 DEF P, Probe
<1>5. ASSUME NEW t \in Slots, buckets[t] # NoBucket, buckets[t].word = word PROVE t = s
  <2>1. word \in DOMAIN hash /\ hash[word] <= t /\ \A x \in hash[word] .. t : buckets[x] # NoBucket
    BY <1>5 DEF Table, Filled
  <2>2. b = hash[word]
    BY <2>1
  <2>3. t \in P
    BY <1>5, <2>1, <2>2 DEF P, Probe
  <2>4. s <= t
    BY <1>2, <2>3
  <2>5. s \in b .. t
    BY <1>0, <1>3, <2>4
  <2>6. buckets[s] # NoBucket
    BY <2>1, <2>2, <2>5
  <2>7. buckets[s].word = word
    BY <1>3, <2>6
  <2> QED
    BY <1>3, <1>5, <2>6, <2>7 DEF Table
<1> QED
  BY <1>3, <1>4, <1>5 DEF P, s

\* One more occurrence of the word in hand, and of no other.
LEMMA OneMore ==
  ASSUME text \in Texts, i \in 0 .. (Size + 1), NEW r \in Runs, r[2] = i - 1, word = WordAt(r)
  PROVE  /\ RunsTo(i) = RunsTo(i - 1) \cup {r}
         /\ Cardinality(Occ(word, i)) = Cardinality(Occ(word, i - 1)) + 1
         /\ \A w : w # word => Occ(w, i) = Occ(w, i - 1)
<1>0. i \in Int /\ \A q \in Runs : q[2] \in Int /\ (q[2] = r[2] => q = r)
  BY RunsFinite, TextFacts
<1>1. RunsTo(i) = RunsTo(i - 1) \cup {r} /\ r \notin RunsTo(i - 1)
  <2>1. \A q \in Runs : q[2] < i <=> q[2] < i - 1 \/ q[2] = i - 1
    BY <1>0
  <2>2. \A q \in Runs : q[2] = i - 1 <=> q = r
    BY <1>0
  <2>3. ~(r[2] < i - 1)
    BY <1>0
  <2> QED
    BY <2>1, <2>2, <2>3 DEF RunsTo
<1>2. Occ(word, i) = Occ(word, i - 1) \cup {r} /\ r \notin Occ(word, i - 1)
  BY <1>1 DEF Occ
<1>3. \A w : w # word => Occ(w, i) = Occ(w, i - 1)
  BY <1>1 DEF Occ
<1>4. IsFiniteSet(Occ(word, i - 1))
  BY OccFacts
<1>5. Cardinality(Occ(word, i)) = Cardinality(Occ(word, i - 1)) + 1
  BY <1>2, <1>4, FS_AddElement
<1> QED
  BY <1>1, <1>3, <1>5

LEMMA CountKeeps ==
  ASSUME WcInv, CountWord, wc_pc' = "split"
  PROVE  WcInv'
<1>0. /\ text \in Texts /\ Size \in Nat /\ i \in 0 .. (Size + 1) /\ wc_pc = "insert"
      /\ (i > 0 /\ i <= Size => text[i] = Space) /\ Table(i - 1) /\ WcTypeOK
      /\ buckets = [t \in Slots |-> buckets[t]]
      /\ UNCHANGED <<text, i, word, printed>>
  BY TextFacts DEF WcInv, CountWord, Wc, WcTypeOK
<1>a. /\ Size' = Size /\ Slots' = Slots /\ Runs' = Runs
      /\ \A r : WordAt(r)' = WordAt(r)
  BY <1>0 DEF Size, Slots, NumBuckets, Runs, WordAt
<1>1. PICK b \in (IF word \in DOMAIN hash THEN {hash[word]} ELSE Slots) :
        /\ hash' = [w \in DOMAIN hash \cup {word} |-> IF w = word THEN b ELSE hash[w]]
        /\ Probe(b) # {}
        /\ buckets' = [buckets EXCEPT ![Min(Probe(b))] =
                          [word |-> word, count |-> buckets[Min(Probe(b))].count + 1]]
  BY DEF CountWord, Wc
<1>2. b \in Slots /\ (word \in DOMAIN hash => b = hash[word])
  BY <1>0, <1>1 DEF WcTypeOK
<1>3. PICK s \in Slots :
      /\ s = Min(Probe(b)) /\ b <= s
      /\ buckets[s] = NoBucket \/ buckets[s].word = word
      /\ \A t \in b .. (s - 1) : t \in Slots /\ buckets[t] # NoBucket
      /\ \A t \in Slots : buckets[t] # NoBucket /\ buckets[t].word = word => t = s
  BY <1>0, <1>1, <1>2, ProbeFacts
<1> DEFINE new == [word |-> word, count |-> buckets[s].count + 1]
<1>4. buckets' = [buckets EXCEPT ![s] = new]
  BY <1>1, <1>3
<1>5. PICK r \in Runs : r[2] = i - 1 /\ word = WordAt(r)
  BY <1>0 DEF WcInv
<1>6. /\ RunsTo(i) = RunsTo(i - 1) \cup {r}
      /\ Cardinality(Occ(word, i)) = Cardinality(Occ(word, i - 1)) + 1
      /\ \A w : w # word => Occ(w, i) = Occ(w, i - 1)
  BY <1>0, <1>5, OneMore
<1>7. buckets[s].count = Cardinality(Occ(word, i - 1)) /\ buckets[s].count \in Nat
  <2>0. Cardinality(Occ(word, i - 1)) \in 0 .. Size
        /\ (Cardinality(Occ(word, i - 1)) = 0 <=> Occ(word, i - 1) = {})
    BY <1>0, OccFacts
  <2>1. CASE buckets[s] = NoBucket
    <3>1. ASSUME NEW q \in Occ(word, i - 1) PROVE FALSE
      <4>1. PICK t \in Slots : buckets[t] # NoBucket /\ buckets[t].word = word
        BY <1>0, <3>1 DEF Table, Occ
      <4> QED
        BY <1>3, <2>1, <4>1
    <3>2. Cardinality(Occ(word, i - 1)) = 0 /\ buckets[s].count = 0
      BY <2>0, <2>1, <3>1 DEF NoBucket
    <3> QED
      BY <3>2
  <2>2. CASE buckets[s] # NoBucket
    <3>1. Filled(s, i - 1) /\ buckets[s].word = word
      BY <1>0, <1>3, <2>2 DEF Table
    <3> DEFINE n == Cardinality(Occ(word, i - 1))
    <3>2. buckets[s] = [word |-> word, count |-> n]
      BY <3>1 DEF Filled
    <3>3. buckets[s].count = n
      BY <3>2
    <3> QED
      BY <1>0, <2>0, <3>3
  <2> QED
    BY <2>1, <2>2
<1>8. /\ new = [word |-> word, count |-> Cardinality(Occ(word, i))]
      /\ new.count = Cardinality(Occ(word, i))
      /\ new.word = word /\ new.count >= 1 /\ new # NoBucket
  <2>1. new.count = buckets[s].count + 1 /\ new.word = word
    OBVIOUS
  <2>2. new.count # 0
    BY <1>7, <2>1
  <2>3. NoBucket.count = 0
    BY DEF NoBucket
  <2> QED
    BY <1>6, <1>7, <2>1, <2>2, <2>3
<1> HIDE DEF new
<1>9. /\ DOMAIN hash' = DOMAIN hash \cup {word} /\ hash'[word] = b
      /\ \A w \in DOMAIN hash : hash'[w] = hash[w]
  BY <1>1, <1>2
<1>10. /\ buckets'[s] = new
       /\ \A t \in Slots : t # s => buckets'[t] = buckets[t]
       /\ \A t \in Slots : buckets[t] # NoBucket => buckets'[t] # NoBucket
       /\ buckets' = [t \in Slots |-> buckets'[t]]
  <2>1. buckets'[s] = new /\ \A t \in Slots : t # s => buckets'[t] = buckets[t]
    BY <1>0, <1>3, <1>4
  <2>2. buckets' = [t \in Slots |-> buckets'[t]]
    BY <1>0, <1>3, <1>4
  <2> QED
    BY <1>8, <2>1, <2>2
<1>11. /\ Slots \subseteq Nat /\ \A t : t \in Slots <=> t \in Nat /\ t < NumBuckets(Size)
       /\ NumBuckets(Size) \in Nat
  BY <1>0, TextFacts
<1>12. ASSUME NEW t \in Slots, t # s, buckets'[t] # NoBucket
       PROVE  buckets[t] # NoBucket /\ buckets'[t].word # word /\ Filled(t, i)'
  <2>1. buckets'[t] = buckets[t] /\ buckets[t] # NoBucket /\ buckets[t].word # word
    BY <1>3, <1>10, <1>12
  <2> DEFINE w == buckets[t].word
  <2>2. /\ buckets[t] = [word |-> w, count |-> Cardinality(Occ(w, i - 1))]
        /\ buckets[t].count >= 1
        /\ w \in DOMAIN hash /\ hash[w] <= t
        /\ \A x \in hash[w] .. t : buckets[x] # NoBucket
    BY <1>0, <2>1 DEF Table, Filled
  <2>3. w # word
    BY <2>1
  <2> HIDE DEF w
  <2>4. /\ buckets'[t] = [word |-> w, count |-> Cardinality(Occ(w, i))]
        /\ w \in DOMAIN hash' /\ hash'[w] = hash[w] /\ hash[w] \in Slots
    BY <1>0, <1>6, <1>9, <2>1, <2>2, <2>3 DEF WcTypeOK
  <2>5. ASSUME NEW x \in hash[w] .. t PROVE buckets'[x] # NoBucket
    <3>1. hash[w] \in Nat /\ t \in Nat /\ t < NumBuckets(Size)
      BY <1>11, <2>4
    <3>2. x \in Nat /\ x < NumBuckets(Size)
      BY <1>11, <3>1
    <3>3. x \in Slots
      BY <1>11, <3>2
    <3> QED
      BY <1>10, <2>2, <3>3
  <2>6. \A v : Occ(v, i)' = Occ(v, i)
    BY <1>0, <1>a DEF Occ, RunsTo
  <2> QED
    BY <2>1, <2>2, <2>4, <2>5, <2>6 DEF Filled, w
<1>13. Filled(s, i)'
  <2>1. \A v : Occ(v, i)' = Occ(v, i)
    BY <1>0, <1>a DEF Occ, RunsTo
  <2>2. ASSUME NEW x \in b .. s PROVE buckets'[x] # NoBucket
    <3>1. CASE x = s
      BY <1>8, <1>10, <3>1
    <3>2. CASE x # s
      <4>1. x \in b .. (s - 1)
        BY <1>2, <1>3, <1>11, <3>2
      <4> QED
        BY <1>3, <1>10, <4>1
    <3> QED
      BY <3>1, <3>2
  <2> QED
    BY <1>3, <1>8, <1>9, <1>10, <2>1, <2>2 DEF Filled
<1>14. Table(i)'
  <2>1. \A t \in Slots : buckets'[t] # NoBucket => Filled(t, i)'
    BY <1>12, <1>13
  <2>2. ASSUME NEW t \in Slots, NEW x \in Slots, buckets'[t] # NoBucket, buckets'[x] # NoBucket,
               buckets'[t].word = buckets'[x].word
        PROVE  t = x
    <3>1. buckets'[s].word = word
      BY <1>8, <1>10
    <3>2. CASE t = s \/ x = s
      BY <1>12, <2>2, <3>1, <3>2
    <3>3. CASE t # s /\ x # s
      <4>1. /\ buckets[t] # NoBucket /\ buckets[x] # NoBucket
            /\ buckets[t].word = buckets[x].word
        BY <1>10, <2>2, <3>3
      <4> QED
        BY <1>0, <4>1 DEF Table
    <3> QED
      BY <3>2, <3>3
  <2>3. ASSUME NEW q \in RunsTo(i)
        PROVE  \E t \in Slots : buckets'[t] # NoBucket /\ buckets'[t].word = WordAt(q)
    <3>1. CASE q = r
      <4>1. buckets'[s] # NoBucket /\ buckets'[s].word = WordAt(q)
        BY <1>5, <1>8, <1>10, <3>1
      <4> QED
        BY <1>3, <4>1
    <3>2. CASE q \in RunsTo(i - 1)
      <4>1. PICK t \in Slots : buckets[t] # NoBucket /\ buckets[t].word = WordAt(q)
        BY <1>0, <3>2 DEF Table
      <4>2. buckets'[t].word = WordAt(q)
        <5>1. CASE t = s
          <6>1. word = WordAt(q)
            BY <1>3, <4>1, <5>1
          <6> QED
            BY <1>8, <1>10, <5>1, <6>1
        <5>2. CASE t # s
          BY <1>10, <4>1, <5>2
        <5> QED
          BY <5>1, <5>2
      <4> QED
        BY <1>10, <4>1, <4>2
    <3> QED
      BY <1>6, <3>1, <3>2
  <2>4. RunsTo(i)' = RunsTo(i)
    BY <1>0, <1>a DEF RunsTo
  <2> QED
    BY <1>a, <2>1, <2>2, <2>3, <2>4 DEF Table
<1>15. WcTypeOK'
  <2>1. \A w \in DOMAIN hash' : hash'[w] \in Slots
    BY <1>0, <1>2, <1>9 DEF WcTypeOK
  <2>2. ASSUME NEW t \in Slots PROVE buckets'[t].count \in 0 .. Size
    <3>1. CASE t = s
      <4>1. Cardinality(Occ(word, i)) \in 0 .. Size
        BY <1>0, OccFacts
      <4> QED
        BY <1>8, <1>10, <3>1, <4>1
    <3>2. CASE t # s
      BY <1>0, <1>10, <3>2 DEF WcTypeOK
    <3> QED
      BY <3>1, <3>2
  <2>3. DOMAIN buckets' = Slots
    BY <1>10
  <2> QED
    BY <1>0, <1>a, <2>1, <2>2, <2>3 DEF WcTypeOK
<1> QED
  BY <1>0, <1>a, <1>10, <1>14, <1>15 DEF WcInv, CountsRight, FailsOnlyThere

\* The program stops for want of a bucket.
LEMMA CountStops ==
  ASSUME WcInv, CountWord, wc_pc' # "split"
  PROVE  WcInv'
<1>0. /\ text \in Texts /\ Size \in Nat /\ wc_pc = "insert" /\ wc_pc' \in {"mod0", "overrun"}
      /\ Table(i - 1) /\ WcTypeOK
      /\ buckets = [t \in Slots |-> buckets[t]]
      /\ UNCHANGED <<text, i, word, printed, buckets>>
  BY TextFacts DEF WcInv, CountWord, Wc, WcTypeOK
<1>a. Size' = Size /\ Slots' = Slots /\ NumBuckets(Size)' = NumBuckets(Size)
  BY <1>0 DEF Size, Slots, NumBuckets
<1>b. /\ Slots \subseteq Nat /\ \A t : t \in Slots <=> t \in Nat /\ t < NumBuckets(Size)
      /\ NumBuckets(Size) \in Nat
      /\ NumBuckets(Size) <= 0 => Size <= 2
  BY <1>0, TextFacts
<1>1. CASE Slots = {} /\ wc_pc' = "mod0" /\ UNCHANGED hash
  <2>1. Size <= 2
    <3>1. ~(0 < NumBuckets(Size))
      BY <1>1, <1>b
    <3> QED
      BY <1>b, <3>1
  <2>2. WcTypeOK'
    BY <1>0, <1>1, <1>a DEF WcTypeOK, WcStopped
  <2> QED
    BY <1>0, <1>1, <1>a, <2>1, <2>2 DEF WcInv, CountsRight, FailsOnlyThere
<1>2. CASE wc_pc' = "overrun"
  <2>1. PICK b \in (IF word \in DOMAIN hash THEN {hash[word]} ELSE Slots) :
          /\ hash' = [w \in DOMAIN hash \cup {word} |-> IF w = word THEN b ELSE hash[w]]
          /\ Probe(b) = {}
    BY <1>2 DEF CountWord, Wc
  <2>2. b \in Slots
    BY <1>0, <2>1 DEF WcTypeOK
  <2>3. /\ DOMAIN hash' = DOMAIN hash \cup {word} /\ hash'[word] = b
        /\ \A w \in DOMAIN hash' : hash'[w] \in Slots
    BY <1>0, <2>1, <2>2 DEF WcTypeOK
  <2>4. WcTypeOK'
    BY <1>0, <1>2, <1>a, <2>3 DEF WcTypeOK, WcStopped
  <2> DEFINE N == NumBuckets(Size)
             W == {w \in DOMAIN hash' : \E t \in Slots : t >= b /\ buckets[t].word = w}
             f == [t \in b .. (N - 1) |-> buckets[t].word]
  <2>5. \A t : t \in b .. (N - 1) <=> t \in Slots /\ t >= b
    BY <1>b, <2>2
  <2>6. ASSUME NEW t \in b .. (N - 1)
        PROVE  t \in Slots /\ buckets[t] # NoBucket /\ buckets[t].word \in W
    <3>1. t \in Slots /\ t >= b
      BY <2>5
    <3>2. buckets[t] # NoBucket
      BY <2>1, <3>1 DEF Probe
    <3>3. buckets[t].word \in DOMAIN hash
      BY <1>0, <3>1, <3>2 DEF Table, Filled
    <3> QED
      BY <2>3, <3>1, <3>2, <3>3
  <2>7. f \in [b .. (N - 1) -> W]
    BY <2>6
  <2>8. \A s, t \in b .. (N - 1) : f[s] = f[t] => s = t
    BY <1>0, <2>6 DEF Table
  <2>9. \A w \in W : \E t \in b .. (N - 1) : f[t] = w
    BY <2>5
  <2>10. ExistsBijection(b .. (N - 1), W)
    <3>1. f \in Bijection(b .. (N - 1), W)
      BY <2>7, <2>8, <2>9, Fun_IsBij
    <3> QED
      BY <3>1 DEF ExistsBijection
  <2>11. IsFiniteSet(b .. (N - 1)) /\ Cardinality(b .. (N - 1)) = N - b
    <3>1. b \in Int /\ N - 1 \in Int /\ ~(b > N - 1) /\ ((N - 1) - b) + 1 = N - b
      BY <1>b, <2>2
    <3>2. /\ IsFiniteSet(b .. (N - 1))
          /\ Cardinality(b .. (N - 1)) = IF b > N - 1 THEN 0 ELSE ((N - 1) - b) + 1
      BY <3>1, FS_Interval
    <3> QED
      BY <3>1, <3>2
  <2>12. Cardinality(W) = N - b
    <3> HIDE DEF W, N
    <3> QED
      BY <2>10, <2>11, FS_Bijection
  <2>13. W = {w \in DOMAIN hash' : \E t \in Slots' : t >= hash'[word'] /\ buckets'[t].word = w}
    BY <1>0, <1>a, <2>3
  <2>14. FailsOnlyThere'
    <3> HIDE DEF W
    <3>1. Cardinality(W) = NumBuckets(Size)' - hash'[word']
      BY <1>0, <1>a, <2>3, <2>12
    <3> QED
      BY <1>2, <2>13, <3>1 DEF FailsOnlyThere
  <2> QED
    BY <1>0, <1>2, <1>a, <2>4, <2>14 DEF WcInv, CountsRight
<1> QED
  BY <1>0, <1>1, <1>2 DEF CountWord, Wc

\* At the end of the text the table has all of its words.
LEMMA OutputKeeps == ASSUME WcInv, Output PROVE WcInv'
<1>0. /\ text \in Texts /\ Size \in Nat /\ wc_pc = "split" /\ wc_pc' = "output"
      /\ i \in 0 .. (Size + 1) /\ i >= Size /\ (i > 0 /\ i <= Size => text[i] = Space)
      /\ Table(i) /\ WcTypeOK
      /\ buckets = [t \in Slots |-> buckets[t]]
      /\ UNCHANGED <<text, hash, buckets, i, word>>
      /\ printed' = [b \in {s \in Slots : buckets[s] # NoBucket} |-> buckets[b]]
  BY TextFacts DEF WcInv, Output, Wc, WcTypeOK
<1>a. /\ Size' = Size /\ Slots' = Slots /\ Runs' = Runs /\ NumBuckets(Size)' = NumBuckets(Size)
      /\ \A r : WordAt(r)' = WordAt(r)
  BY <1>0 DEF Size, Slots, NumBuckets, Runs, WordAt
<1>1. RunsTo(i) = Runs
  <2> SUFFICES ASSUME NEW r \in Runs, ~(r[2] < i) PROVE FALSE
    BY DEF RunsTo
  <2>1. /\ r[1] \in 1 .. Size /\ r[2] \in 1 .. Size /\ r[1] <= r[2]
        /\ \A k \in r[1] .. r[2] : text[k] # Space
    BY <1>0, RunsFinite
  <2>2. r[2] = i /\ i <= Size /\ i > 0 /\ r[2] \in r[1] .. r[2]
    BY <1>0, <2>1
  <2> QED
    BY <1>0, <2>1, <2>2
<1>2. \A w : Occ(w, i) = {r \in Runs : WordAt(r) = w}
  BY <1>1 DEF Occ
<1>3. \A w : Occurrences(w) = Cardinality(Occ(w, i))
  BY <1>2 DEF Occurrences
<1> DEFINE D == {s \in Slots : buckets[s] # NoBucket}
           f == [s \in D |-> buckets[s].word]
<1>4. ASSUME NEW s \in D
      PROVE  /\ buckets[s] = [word |-> buckets[s].word, count |-> Occurrences(buckets[s].word)]
             /\ buckets[s].word \in Words
  <2>1. Filled(s, i)
    BY <1>0 DEF Table
  <2> DEFINE w == buckets[s].word
             n == Cardinality(Occ(w, i))
  <2>2. buckets[s] = [word |-> w, count |-> n] /\ buckets[s].count >= 1
    BY <2>1 DEF Filled
  <2> HIDE DEF w, n
  <2>3. n # 0
    <3>1. buckets[s].count = n
      BY <2>2
    <3> QED
      BY <2>2, <3>1
  <2>4. Occ(w, i) # {}
    BY <1>0, <2>3, OccFacts DEF n
  <2>5. w \in Words
    BY <1>2, <2>4 DEF Words
  <2> QED
    BY <1>3, <2>2, <2>5 DEF w, n
<1>5. ASSUME NEW w \in Words PROVE \E s \in D : buckets[s].word = w
  <2>1. PICK r \in Runs : w = WordAt(r)
    BY DEF Words
  <2> QED
    BY <1>0, <1>1, <2>1 DEF Table
<1>6. f \in [D -> Words] /\ \A s, t \in D : f[s] = f[t] => s = t
  BY <1>0, <1>4 DEF Table
<1>7. \A w \in Words : \E s \in D : f[s] = w
  BY <1>5
<1>8. IsFiniteSet(D)
  <2>1. IsFiniteSet(Slots)
    <3>1. 0 \in Int /\ NumBuckets(Size) - 1 \in Int
      BY <1>0, TextFacts
    <3> QED
      BY <3>1, FS_Interval DEF Slots
  <2>2. D \in SUBSET Slots
    OBVIOUS
  <2> QED
    BY <2>1, <2>2, FS_Subset
<1>9. Cardinality(D) = Cardinality(Words)
  <2>1. f \in Bijection(D, Words)
    BY <1>6, <1>7, Fun_IsBij
  <2>2. ExistsBijection(D, Words)
    BY <2>1 DEF ExistsBijection
  <2> HIDE DEF D
  <2> QED
    BY <1>8, <2>2, FS_Bijection
<1> DEFINE All == {[word |-> w, count |-> Occurrences(w)] : w \in Words}
<1>10. DOMAIN printed' = D /\ \A b \in D : printed'[b] = buckets[b]
  BY <1>0
<1>11. {printed'[b] : b \in DOMAIN printed'} = All
  <2>1. ASSUME NEW b \in D PROVE printed'[b] \in All
    BY <1>4, <1>10
  <2>2. ASSUME NEW w \in Words
        PROVE  \E b \in D : printed'[b] = [word |-> w, count |-> Occurrences(w)]
    <3>1. PICK b \in D : buckets[b].word = w
      BY <1>5
    <3> QED
      BY <1>4, <1>10, <3>1
  <2> HIDE DEF D
  <2> QED
    BY <1>10, <2>1, <2>2
<1>12. CountsRight'
  <2>1. Words' = Words /\ \A w : Occurrences(w)' = Occurrences(w)
    BY <1>a DEF Words, Occurrences
  <2>2. {[word |-> w, count |-> Occurrences(w)'] : w \in Words'} = All
    BY <2>1
  <2>3. Cardinality(DOMAIN printed') = Cardinality(Words)'
    <3> HIDE DEF D
    <3> QED
      BY <1>9, <1>10, <2>1
  <2>4. {printed'[b] : b \in DOMAIN printed'}
          = {[word |-> w, count |-> Occurrences(w)'] : w \in Words'}
    BY <1>11, <2>2
  <2> HIDE DEF D, All
  <2> QED
    BY <2>3, <2>4 DEF CountsRight
<1>13. WcTypeOK'
  BY <1>0, <1>a DEF WcTypeOK
<1> QED
  BY <1>0, <1>a, <1>12, <1>13 DEF WcInv, FailsOnlyThere

LEMMA WcStep == WcInv /\ [WcNext]_wcVars => WcInv'
<1> SUFFICES ASSUME WcInv, [WcNext]_wcVars PROVE WcInv'
  OBVIOUS
<1>1. CASE CountWord
  <2>1. wc_pc' = "split" \/ wc_pc' # "split"
    OBVIOUS
  <2> QED
    BY <1>1, <2>1, CountKeeps, CountStops
<1>2. CASE Destroy
  <2>0. /\ wc_pc' = "destroyed" /\ text \in Texts /\ Size \in Nat /\ WcTypeOK
        /\ UNCHANGED <<text, hash, i, word, printed>>
        /\ buckets' = [b \in Slots |-> NoBucket]
    BY <1>2, TextFacts DEF Destroy, Wc, WcInv, WcTypeOK
  <2>1. Size' = Size /\ Slots' = Slots
    BY <2>0 DEF Size, Slots, NumBuckets
  <2>2. NoBucket.count = 0
    BY DEF NoBucket
  <2>3. WcTypeOK'
    BY <2>0, <2>1, <2>2 DEF WcTypeOK, WcStopped
  <2> QED
    BY <2>0, <2>1, <2>3 DEF WcInv, CountsRight, FailsOnlyThere
<1>3. CASE UNCHANGED wcVars
  <2>0. UNCHANGED <<text, hash, buckets, i, word, printed, wc_pc>>
    BY <1>3 DEF wcVars
  <2>1. /\ Size' = Size /\ Slots' = Slots /\ Runs' = Runs /\ NumBuckets(Size)' = NumBuckets(Size)
        /\ \A r : WordAt(r)' = WordAt(r)
    BY <2>0 DEF Size, Slots, NumBuckets, Runs, WordAt
  <2>2. \A m : RunsTo(m)' = RunsTo(m) /\ \A w : Occ(w, m)' = Occ(w, m)
    BY <2>1 DEF RunsTo, Occ
  <2>3. WcTypeOK'
    BY <2>0, <2>1 DEF WcInv, WcTypeOK, WcStopped
  <2>4. CountsRight'
    <3>1. Words' = Words /\ \A w : Occurrences(w)' = Occurrences(w)
      BY <2>1 DEF Words, Occurrences
    <3>2. {[word |-> w, count |-> Occurrences(w)'] : w \in Words'}
            = {[word |-> w, count |-> Occurrences(w)] : w \in Words}
      BY <3>1
    <3> QED
      BY <2>0, <3>1, <3>2 DEF WcInv, CountsRight
  <2>5. FailsOnlyThere'
    BY <2>0, <2>1 DEF WcInv, FailsOnlyThere
  <2>6. (wc_pc = "split" => Table(i))' /\ (wc_pc = "insert" => Table(i - 1))'
    BY <2>0, <2>1, <2>2 DEF WcInv, Table, Filled
  <2> QED
    BY <2>0, <2>1, <2>3, <2>4, <2>5, <2>6 DEF WcInv
<1> QED
  BY <1>1, <1>2, <1>3, SplitKeeps, OutputKeeps DEF WcNext

\* wc.c: for any text and any hash function, what is printed are the words of
\* the text, each once and with the number of times it occurs; the program ends
\* without a table only over a text with too few characters for one, with
\* separators behind its last, or with more words than there are buckets from
\* some bucket on; and its variables have their types.
THEOREM WordsCounted == ASSUME NEW t \in Texts PROVE WcSpec(t) => [](WcCorrect /\ WcTypeOK)
<1>1. WcInit(t) => WcInv
  BY WcStartInv
<1>2. WcInv => WcCorrect /\ WcTypeOK
  BY DEF WcInv, WcCorrect
<1> QED
  BY <1>1, <1>2, WcStep, PTL DEF WcSpec
-----------------------------------------------------------------------------
(* The parts side by side *)

\* The invariants of all parts, of which one runs and the others stand still.
PartsInv ==
    /\ WcInv
    /\ tree \in Trees /\ target \in Targets /\ CprInv
    /\ FsInv /\ FsTypeInv
    /\ NqInv
    /\ IntrInv
    /\ SrvInv

\* Each part begins with its invariant, whether it is the one to run or not.
LEMMA PartsStart == PartsInit => PartsInv /\ NqInit
<1> SUFFICES ASSUME PartsInit PROVE PartsInv /\ NqInit
  OBVIOUS
<1>1. WcInv
  <2>1. (CHOOSE t \in Texts : TRUE) \in Texts
    BY PartsAssumption
  <2>2. \E t \in Texts : WcInit(t)
    BY <2>1 DEF PartsInit, WcStart, WcIdle
  <2> QED
    BY <2>2, WcStartInv
<1>2. tree \in Trees /\ target \in Targets /\ CprInv
  <2>1. (CHOOSE t \in Trees : TRUE) \in Trees /\ (CHOOSE d \in Targets : TRUE) \in Targets
    BY PartsAssumption
  <2>2. PICK t \in Trees, d \in Targets : CprInit(t, d)
    BY <2>1 DEF PartsInit, CprStart, CprIdle
  <2>3. tree = t /\ target = d
    BY <2>2 DEF CprInit
  <2> QED
    BY <2>2, <2>3, CprStartInv
<1>3. FsInv /\ FsTypeInv
  <2>1. (CHOOSE m \in Means : TRUE) \in Means /\ (CHOOSE n \in Numbers : TRUE) \in Numbers
    BY PartsAssumption
  <2>2. \E o : \E m \in Means, n \in Numbers, s \in BOOLEAN : FsInit(m, n, s, o)
    BY <2>1 DEF PartsInit, FsStarts, FsIdle
  <2> QED
    BY <2>2, FsStartInv, FsTypeStart
<1>4. NqInv /\ NqInit
  BY NqStart DEF PartsInit
<1>5. IntrInv
  <2>1. (CHOOSE t \in Tasks : TRUE) \in Tasks
    BY PartsAssumption
  <2>2. CASE running = "interrupts"
    BY <2>1, <2>2, IntrStartInv DEF PartsInit, IntrStart
  <2>3. CASE running # "interrupts"
    <3>1. IntrInit(NoTask)
      BY <2>3 DEF PartsInit, IntrIdle
    <3>2. onCpu = NoTask
      BY <3>1 DEF IntrInit
    <3>3. \A u \in Tasks : stack[u] = <<>> /\ <<>> \in Seq(Frames)
      BY <3>1 DEF IntrInit
    <3>4. WellNested(<<>>)
      <4>1. <<>> \in Seq(Frames) /\ Len(<<>>) = 0
        OBVIOUS
      <4> QED
        BY <4>1 DEF WellNested
    <3>5. IntrTypeOK
      BY <3>1 DEF IntrInit, IntrTypeOK
    <3>6. MaskRight
      BY <3>1, <3>2 DEF IntrInit, MaskRight
    <3> QED
      BY <3>2, <3>3, <3>4, <3>5, <3>6 DEF IntrInv
  <2> QED
    BY <2>2, <2>3
<1>6. SrvInv
  <2>1. CASE running = "server"
    BY <2>1, SrvStartInv DEF PartsInit, SrvStart
  <2>2. CASE running # "server"
    <3>1. SrvIdle
      BY <2>2 DEF PartsInit
    <3>2. (CHOOSE n \in WorkerCounts : TRUE) \in WorkerCounts
      BY PartsAssumption
    <3>3. ToSet(backlog) = {} /\ IsInjective(backlog) /\ backlog \in Seq(ClientThreads)
      BY <3>1, EmptyFacts DEF SrvIdle
    <3>4. SrvTypeOK
      BY <3>1, <3>2, <3>3, SrvAssumption DEF SrvIdle, SrvTypeOK, NoFifo
    <3> QED
      BY <3>1, <3>3, <3>4
         DEF SrvIdle, SrvInv, ConnPlaces, ConnCounts, PollSaw, SrvFailsFor, NoFifo
  <2> QED
    BY <2>1, <2>2
<1> QED
  BY <1>1, <1>2, <1>3, <1>4, <1>5, <1>6 DEF PartsInv

\* A step is one of a single part.
LEMMA PartsMove ==
  [PartsNext]_allVars =>
    /\ [WcNext]_wcVars /\ [CprNext]_cprVars /\ [FsNext]_fsVars
    /\ [NqNext]_nqVars /\ [IntrNext]_intrVars /\ [SrvNext]_srvVars
BY DEF PartsNext, Done, allVars

LEMMA PartsStep == PartsInv /\ [PartsNext]_allVars => PartsInv'
<1> SUFFICES ASSUME PartsInv, [PartsNext]_allVars PROVE PartsInv'
  OBVIOUS
<1>1. /\ [WcNext]_wcVars /\ [CprNext]_cprVars /\ [FsNext]_fsVars
      /\ [NqNext]_nqVars /\ [IntrNext]_intrVars /\ [SrvNext]_srvVars
  BY PartsMove
<1>2. WcInv'
  BY <1>1, WcStep DEF PartsInv
<1>3. tree' \in Trees /\ target' \in Targets /\ CprInv'
  BY <1>1, CprStep DEF PartsInv
<1>4. FsInv' /\ FsTypeInv'
  BY <1>1, FsStepInv, FsTypeStep DEF PartsInv
<1>5. NqInv'
  BY <1>1, NqStep DEF PartsInv
<1>6. IntrInv' /\ SrvInv'
  BY <1>1, IntrStep, SrvStep DEF PartsInv
<1> QED
  BY <1>2, <1>3, <1>4, <1>5, <1>6 DEF PartsInv

\* The invariant of the parts that MCPrograms runs side by side: each keeps its
\* own in its own steps, failing calls among them, and in those of the others.
THEOREM PartsInvariance == PartsSpec => []PartsInv
<1>1. PartsInit => PartsInv
  BY PartsStart
<1> QED
  BY <1>1, PartsStep, PTL DEF PartsSpec

\* wc.c, cpr.c, fileset.c, thread.c, interrupt.c, server.c: the variables of
\* every part have their types: wc has its table as long as it has not run past
\* the end of it (where the model stops), the sizes of a fileset keep their
\* width, and of the queue's nodes those are allocated that the list reaches.
THEOREM ProgramsTypeCorrect == PartsSpec => []ProgramsTypeOK
<1>1. PartsInv => ProgramsTypeOK
  BY NqTyped DEF PartsInv, ProgramsTypeOK, WcInv, CprInv, FsTypeInv, IntrInv, SrvInv
<1> QED
  BY <1>1, PartsInvariance, PTL

\* The same files: what the invariants of the run say of each part holds of the
\* parts side by side, with the assumptions of each part alone.  For cpr that is
\* with every system call failing as it likes, readdir included.
THEOREM ProgramsCorrect ==
  PartsSpec => /\ [](WcCorrect /\ CprCorrect /\ SrvFailsFor /\ FsRoundTrip /\ MaskRight)
               /\ IsThreadQueue
<1>1. PartsInv => WcCorrect /\ CprCorrect /\ SrvFailsFor /\ FsRoundTrip /\ MaskRight
  BY FsRead DEF PartsInv, WcInv, WcCorrect, CprInv, CprCorrect, SrvInv, IntrInv
<1>2. PartsInit => Queue!Init
  BY PartsStart, NqStart DEF Queue!Init
<1>3. PartsInv /\ [PartsNext]_allVars => [Queue!Next]_<<items, got>>
  BY PartsMove, NqStep DEF PartsInv
<1>4. PartsInit => PartsInv
  BY PartsStart
<1> QED
  BY <1>1, <1>2, <1>3, <1>4, PartsInvariance, PTL DEF PartsSpec, IsThreadQueue, Queue!Spec
=============================================================================
