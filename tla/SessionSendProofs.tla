-------------------------- MODULE SessionSendProofs --------------------------
(***************************************************************************)
(* Proofs about SessionSend for every set of threads and buffers and every *)
(* value of the limits.                                                    *)
(*                                                                         *)
(* The inductive invariant is IInv: the types, the buffer count, the       *)
(* registration token (OneOutstandingSend) and what it protects            *)
(* (BuffersPinned).  The token alone is inductive; BuffersPinned needs it, *)
(* because only its holder may touch _sendEvent.sendBuffers.               *)
(***************************************************************************)
EXTENDS SessionSend, SequenceTheorems, WellFoundedInduction, TLAPS

CountExact == backlogCount = Len(sendQueue)

IInv == TypeOK /\ CountExact /\ OneOutstandingSend /\ BuffersPinned

\* The sequence operations of the steps stay within Seq(S).
LEMMA SeqFacts ==
  ASSUME NEW S, NEW s \in Seq(S), NEW e \in S
  PROVE  /\ <<>> \in Seq(S) /\ Len(<<>>) = 0
         /\ Append(s, e) \in Seq(S) /\ Len(Append(s, e)) = Len(s) + 1
         /\ Len(s) \in Nat
         /\ s # <<>> => Tail(s) \in Seq(S) /\ Len(Tail(s)) = Len(s) - 1
         /\ s # <<>> => Len(s) > 0
  OBVIOUS

LEMMA AppendToEmpty ==
  ASSUME NEW e
  PROVE  Append(<<>>, e) = <<e>> /\ Len(<<e>>) = 1 /\ <<e>> # <<>>
  OBVIOUS

LEMMA InitIInv == Init => IInv
<1> SUFFICES ASSUME Init PROVE IInv
  OBVIOUS
<1> USE DEF Init
<1>1. TypeOK
  BY SendAssumption, EmptySeq DEF TypeOK, Labels
<1>2. CountExact
  BY DEF CountExact
<1>3. OneOutstandingSend
  BY DEF OneOutstandingSend, OwnsSendEvent
<1>4. BuffersPinned
  BY DEF BuffersPinned
<1> QED
  BY <1>1, <1>2, <1>3, <1>4 DEF IInv

\* Every step keeps the types and the buffer count.
LEMMA TypeStep == IInv /\ [Next]_vars => TypeOK' /\ CountExact'
<1> SUFFICES ASSUME IInv, [Next]_vars PROVE TypeOK' /\ CountExact'
  OBVIOUS
<1> USE SendAssumption DEF IInv, TypeOK, CountExact, Labels, Goto, queueVars, history
<1>1. ASSUME NEW t \in Threads, NEW m \in Msgs, Send(t, m)
      PROVE  TypeOK' /\ CountExact'
  BY <1>1 DEF Send
<1>2. ASSUME NEW t \in Threads, SendLocked(t) PROVE TypeOK' /\ CountExact'
  <2>1. arg[t] \in Msgs
    BY <1>2 DEF SendLocked
  <2>2. /\ Append(sendQueue, arg[t]) \in Seq(Msgs)
        /\ Len(Append(sendQueue, arg[t])) = Len(sendQueue) + 1
    BY <2>1
  <2> DEFINE drop == OverHardCap(WriteSize[arg[t]]) \/ OverSoftCap
  <2>3. CASE drop
    BY <1>2, <2>3 DEF SendLocked
  <2>4. CASE ~drop
    <3>1. /\ sendQueue' = Append(sendQueue, arg[t]) /\ backlogCount' = backlogCount + 1
          /\ sendRegistered' = TRUE
          /\ pc' = [pc EXCEPT ![t] = IF WinsRegistration THEN "regCheck" ELSE "idle"]
          /\ arg' = [arg EXCEPT ![t] = NoMsg]
          /\ UNCHANGED <<connected, sendBuffers, lock, posted, fresh, wire, ignored>>
      BY <1>2, <2>4 DEF SendLocked
    <3>2. QED
      BY <3>1, <2>2
  <2>5. QED
    BY <2>3, <2>4
<1>3. ASSUME NEW t \in Threads, RegisterSendCheck(t) PROVE TypeOK' /\ CountExact'
  BY <1>3 DEF RegisterSendCheck, ReturnFromRegister
<1>4. ASSUME NEW t \in Threads, RegisterSendDrain(t) PROVE TypeOK' /\ CountExact'
  BY <1>4 DEF RegisterSendDrain, DrainedCount
<1>5. ASSUME NEW t \in Threads, RegisterSendPost(t) PROVE TypeOK' /\ CountExact'
  <2>1. /\ Append(posted, sendBuffers) \in Seq(Seq(Msgs))
        /\ wire \o sendBuffers \in Seq(Msgs)
    OBVIOUS
  <2>2. QED
    BY <1>5, <2>1 DEF RegisterSendPost, ReturnFromRegister
<1>6. ASSUME NEW t \in Threads, RegisterSendFail(t) PROVE TypeOK' /\ CountExact'
  BY <1>6, EmptySeq DEF RegisterSendFail, ReturnFromRegister
<1>7. ASSUME NEW t \in Threads, ProcessSend(t) PROVE TypeOK' /\ CountExact'
  BY <1>7, EmptySeq, HeadTailProperties DEF ProcessSend
<1>8. ASSUME NEW t \in Threads, ProcessSendLocked(t) PROVE TypeOK' /\ CountExact'
  BY <1>8 DEF ProcessSendLocked
<1>9. CASE Disconnect
  BY <1>9 DEF Disconnect
<1>10. CASE UNCHANGED vars
  BY <1>10 DEF vars
<1> QED
  BY <1>1, <1>2, <1>3, <1>4, <1>5, <1>6, <1>7, <1>8, <1>9, <1>10 DEF Next, Step

\* Every step keeps the token.  The two steps that matter are SendLocked, which
\* takes it only when the flag says nobody has it, and ProcessSend, which takes
\* it from the one outstanding send.
LEMMA TokenStep == IInv /\ [Next]_vars => OneOutstandingSend'
<1> SUFFICES ASSUME IInv, [Next]_vars PROVE OneOutstandingSend'
  OBVIOUS
<1> USE DEF IInv, TypeOK, Labels, Goto, OneOutstandingSend, OwnsSendEvent, history
<1>1. ASSUME NEW t \in Threads, NEW m \in Msgs, Send(t, m)
      PROVE  OneOutstandingSend'
  BY <1>1 DEF Send
<1>2. ASSUME NEW t \in Threads, SendLocked(t) PROVE OneOutstandingSend'
  <2>1. /\ ~OwnsSendEvent(t) /\ UNCHANGED <<posted, connected>>
        /\ \A u \in Threads \ {t} : OwnsSendEvent(u)' <=> OwnsSendEvent(u)
    BY <1>2 DEF SendLocked
  <2>2. \/ ~OwnsSendEvent(t)' /\ sendRegistered' = sendRegistered
        \/ ~OwnsSendEvent(t)' /\ sendRegistered' /\ sendRegistered
        \/ OwnsSendEvent(t)' /\ sendRegistered' /\ ~sendRegistered
    BY <1>2 DEF SendLocked, WinsRegistration
  <2> HIDE DEF OwnsSendEvent
  <2>3. CASE ~OwnsSendEvent(t)'
    BY <2>1, <2>2, <2>3
  <2>4. CASE OwnsSendEvent(t)'
    BY <2>1, <2>2, <2>4
  <2> QED
    BY <2>3, <2>4
<1>3. ASSUME NEW t \in Threads, RegisterSendCheck(t) PROVE OneOutstandingSend'
  BY <1>3 DEF RegisterSendCheck, ReturnFromRegister
<1>4. ASSUME NEW t \in Threads, RegisterSendDrain(t) PROVE OneOutstandingSend'
  BY <1>4 DEF RegisterSendDrain
<1>5. ASSUME NEW t \in Threads, RegisterSendPost(t) PROVE OneOutstandingSend'
  <2>1. posted = <<>> /\ sendRegistered
    BY <1>5 DEF RegisterSendPost
  <2>2. CASE posted' = Append(posted, sendBuffers) /\ ReturnFromRegister(t)
    <3>1. posted' # <<>> /\ Len(posted') = 1
      BY <2>1, <2>2, AppendToEmpty
    <3>2. \A u \in Threads : ~OwnsSendEvent(u)'
      BY <1>5, <2>2 DEF RegisterSendPost, ReturnFromRegister
    <3>3. QED
      BY <1>5, <2>1, <3>1, <3>2 DEF RegisterSendPost
  <2>3. CASE Goto(t, "regFail") /\ UNCHANGED posted
    BY <1>5, <2>1, <2>3 DEF RegisterSendPost
  <2>4. QED
    BY <1>5, <2>2, <2>3 DEF RegisterSendPost
<1>6. ASSUME NEW t \in Threads, RegisterSendFail(t) PROVE OneOutstandingSend'
  BY <1>6 DEF RegisterSendFail, ReturnFromRegister
<1>7. ASSUME NEW t \in Threads, ProcessSend(t) PROVE OneOutstandingSend'
  <2>1. Tail(posted) = <<>>
    BY <1>7, HeadTailProperties, EmptySeq DEF ProcessSend
  <2>2. \A u \in Threads : ~OwnsSendEvent(u)
    BY <1>7 DEF ProcessSend
  <2>3. QED
    BY <1>7, <2>1, <2>2 DEF ProcessSend
<1>8. ASSUME NEW t \in Threads, ProcessSendLocked(t) PROVE OneOutstandingSend'
  BY <1>8 DEF ProcessSendLocked
<1>9. CASE Disconnect
  BY <1>9 DEF Disconnect
<1>10. CASE UNCHANGED vars
  BY <1>10 DEF vars
<1> QED
  BY <1>1, <1>2, <1>3, <1>4, <1>5, <1>6, <1>7, <1>8, <1>9, <1>10 DEF Next, Step

\* Only the token's holder changes sendBuffers, and it has them empty until it
\* drains the queue.
LEMMA PinnedStep == IInv /\ [Next]_vars => BuffersPinned'
<1> SUFFICES ASSUME IInv, [Next]_vars PROVE BuffersPinned'
  OBVIOUS
<1> USE DEF IInv, TypeOK, Labels, Goto, OneOutstandingSend, OwnsSendEvent, BuffersPinned, history
<1>1. ASSUME NEW t \in Threads, NEW m \in Msgs, Send(t, m)
      PROVE  BuffersPinned'
  BY <1>1 DEF Send
<1>2. ASSUME NEW t \in Threads, SendLocked(t) PROVE BuffersPinned'
  BY <1>2 DEF SendLocked
<1>3. ASSUME NEW t \in Threads, RegisterSendCheck(t) PROVE BuffersPinned'
  BY <1>3 DEF RegisterSendCheck, ReturnFromRegister
<1>4. ASSUME NEW t \in Threads, RegisterSendDrain(t) PROVE BuffersPinned'
  BY <1>4 DEF RegisterSendDrain
<1>5. ASSUME NEW t \in Threads, RegisterSendPost(t) PROVE BuffersPinned'
  <2>1. posted = <<>> /\ Append(posted, sendBuffers) = <<sendBuffers>>
    BY <1>5, AppendToEmpty DEF RegisterSendPost
  <2>2. CASE posted' = Append(posted, sendBuffers) /\ ReturnFromRegister(t)
    BY <1>5, <2>1, <2>2, AppendToEmpty DEF RegisterSendPost
  <2>3. CASE Goto(t, "regFail") /\ UNCHANGED posted
    BY <1>5, <2>1, <2>3 DEF RegisterSendPost
  <2>4. QED
    BY <1>5, <2>2, <2>3 DEF RegisterSendPost
<1>6. ASSUME NEW t \in Threads, RegisterSendFail(t) PROVE BuffersPinned'
  BY <1>6 DEF RegisterSendFail, ReturnFromRegister
<1>7. ASSUME NEW t \in Threads, ProcessSend(t) PROVE BuffersPinned'
  <2>1. Tail(posted) = <<>>
    BY <1>7, HeadTailProperties, EmptySeq DEF ProcessSend
  <2>2. QED
    BY <1>7, <2>1 DEF ProcessSend
<1>8. ASSUME NEW t \in Threads, ProcessSendLocked(t) PROVE BuffersPinned'
  BY <1>8 DEF ProcessSendLocked
<1>9. CASE Disconnect
  BY <1>9 DEF Disconnect
<1>10. CASE UNCHANGED vars
  BY <1>10 DEF vars
<1> QED
  BY <1>1, <1>2, <1>3, <1>4, <1>5, <1>6, <1>7, <1>8, <1>9, <1>10 DEF Next, Step

LEMMA Inductive == Spec => []IInv
<1>1. IInv /\ [Next]_vars => IInv'
  BY TypeStep, TokenStep, PinnedStep DEF IInv
<1> QED
  BY InitIInv, <1>1, PTL DEF Spec

\* The session's fields keep their types whatever the threads do.
THEOREM TypeCorrect == Spec => []TypeOK
  BY Inductive, PTL DEF IInv

\* The registration flag is a token: at most one WSASend is outstanding and at
\* most one thread works on _sendEvent, never both.
THEOREM SingleRegistration == Spec => []OneOutstandingSend
  BY Inductive, PTL DEF IInv

\* The kernel's buffers stay referenced until the completion is dispatched.
THEOREM PinnedUntilCompletion == Spec => []BuffersPinned
  BY Inductive, PTL DEF IInv

-----------------------------------------------------------------------------
(* No lost wake-up.  A failing WSASend closes the session or is ignored. *)

Served == QueueServed /\ \A t \in Threads : pc[t] = "regFail" => ~connected \/ ignored

\* While the session is open and no error was ignored, a non-empty queue has the registration flag
\* up, hence (by SingleRegistration) a thread or an outstanding send to serve it.
THEOREM NoLostWakeup == Spec => []QueueServed
<1>1. Init => Served
  BY DEF Init, Served, QueueServed
<1>2. IInv /\ Served /\ [Next]_vars => Served'
  <2> SUFFICES ASSUME IInv, Served, [Next]_vars PROVE Served'
    OBVIOUS
  <2> USE DEF IInv, TypeOK, Served, QueueServed, Goto, queueVars, history, Labels
  <2>1. ASSUME NEW t \in Threads, NEW m \in Msgs, Send(t, m) PROVE Served'
    BY <2>1 DEF Send
  <2>2. ASSUME NEW t \in Threads, SendLocked(t) PROVE Served'
    BY <2>2 DEF SendLocked
  <2>3. ASSUME NEW t \in Threads, RegisterSendCheck(t) PROVE Served'
    BY <2>3 DEF RegisterSendCheck, ReturnFromRegister
  <2>4. ASSUME NEW t \in Threads, RegisterSendDrain(t) PROVE Served'
    <3>1. sendRegistered
      BY <2>4 DEF RegisterSendDrain, OneOutstandingSend, OwnsSendEvent
    <3>2. QED
      BY <2>4, <3>1 DEF RegisterSendDrain
  <2>5. ASSUME NEW t \in Threads, RegisterSendPost(t) PROVE Served'
    <3>1. CASE UNCHANGED <<connected, ignored>> /\ ReturnFromRegister(t)
      BY <2>5, <3>1 DEF RegisterSendPost, ReturnFromRegister
    <3>2. CASE ~connected' \/ ignored'
      BY <2>5, <3>2 DEF RegisterSendPost
    <3>3. QED
      BY <2>5, <3>1, <3>2 DEF RegisterSendPost
  <2>6. ASSUME NEW t \in Threads, RegisterSendFail(t) PROVE Served'
    BY <2>6 DEF RegisterSendFail, ReturnFromRegister
  <2>7. ASSUME NEW t \in Threads, ProcessSend(t) PROVE Served'
    BY <2>7 DEF ProcessSend
  <2>8. ASSUME NEW t \in Threads, ProcessSendLocked(t) PROVE Served'
    BY <2>8 DEF ProcessSendLocked, StillQueued
  <2>9. CASE Disconnect
    BY <2>9 DEF Disconnect
  <2>10. CASE UNCHANGED vars
    BY <2>10 DEF vars
  <2> QED
    BY <2>1, <2>2, <2>3, <2>4, <2>5, <2>6, <2>7, <2>8, <2>9, <2>10 DEF Next, Step
<1>3. Served => QueueServed
  BY DEF Served
<1> QED
  BY <1>1, <1>2, <1>3, Inductive, PTL DEF Spec

-----------------------------------------------------------------------------
(* The books.  Bytes is a recursive function over a sequence, so that it    *)
(* adds up has to be proved before the counters can be compared with it.    *)

\* A non-empty set of naturals has a least element: how the proofs below induct.
LEMMA LeastNat ==
  ASSUME NEW T \in SUBSET Nat, T # {}
  PROVE  \E x \in T : \A y \in T : x <= y
<1> DEFINE R == OpToRel(<, Nat)
<1>1. IsWellFoundedOn(R, Nat)
  BY NatLessThanWellFounded
<1>2. \A x, y \in Nat : y < x => <<y, x>> \in R
  BY DEF OpToRel
<1> HIDE DEF R
<1>3. PICK x \in T : \A y \in T : <<y, x>> \notin R
  BY <1>1, WFMin
<1>4. \A y \in T : ~(y < x)
  BY <1>2, <1>3
<1>5. \A y \in T : y \in Nat
  OBVIOUS
<1> QED
  BY <1>4, <1>5

\* f adds up the sizes of s buffer by buffer.
AddsUp(s, k, f) ==
    f = [n \in 0..k |-> IF n = 0 THEN 0 ELSE f[n - 1] + WriteSize[s[n]]]

LEMMA SizeOf ==
  ASSUME NEW s \in Seq(Msgs), NEW k \in 1..Len(s)
  PROVE  WriteSize[s[k]] \in Nat
  BY SendAssumption

\* Totals exist: a shortest prefix without them would extend the one before it.
LEMMA TotalsExist ==
  ASSUME NEW s \in Seq(Msgs)
  PROVE  \A k \in 0..Len(s) : \E f \in [0..k -> Nat] : AddsUp(s, k, f)
<1> DEFINE Bad == {k \in 0..Len(s) : ~\E f \in [0..k -> Nat] : AddsUp(s, k, f)}
<1> SUFFICES ASSUME Bad # {} PROVE FALSE
  OBVIOUS
<1>0. Bad \in SUBSET Nat
  OBVIOUS
<1>1. PICK k \in Bad : \A j \in Bad : k <= j
  <2> HIDE DEF Bad
  <2> QED
    BY <1>0, LeastNat
<1>2. k \in 0..Len(s) /\ k \in Nat
  OBVIOUS
<1>3. k # 0
  <2> DEFINE z == [n \in 0..0 |-> 0]
  <2>1. z \in [0..0 -> Nat] /\ AddsUp(s, 0, z)
    BY DEF AddsUp
  <2> HIDE DEF z
  <2> QED
    BY <2>1
<1>4. k - 1 \in 0..Len(s) /\ k - 1 \notin Bad
  <2>1. k - 1 \in 0..Len(s) /\ ~(k <= k - 1)
    BY <1>2, <1>3
  <2> HIDE DEF Bad
  <2> QED
    BY <2>1, <1>1
<1>5. PICK f \in [0..(k - 1) -> Nat] : AddsUp(s, k - 1, f)
  BY <1>4
<1>6. WriteSize[s[k]] \in Nat
  BY <1>2, <1>3, SizeOf
<1> DEFINE g == [n \in 0..k |-> IF n = k THEN f[k - 1] + WriteSize[s[k]] ELSE f[n]]
<1>7. g \in [0..k -> Nat]
  BY <1>2, <1>3, <1>6
<1>8. AddsUp(s, k, g)
  <2>1. \A n \in 0..(k - 1) : f[n] = IF n = 0 THEN 0 ELSE f[n - 1] + WriteSize[s[n]]
    BY <1>5 DEF AddsUp
  <2>2. \A n \in 0..k : g[n] = IF n = 0 THEN 0 ELSE g[n - 1] + WriteSize[s[n]]
    BY <2>1, <1>2, <1>3
  <2> QED
    BY <2>2 DEF AddsUp
<1> HIDE DEF g
<1> QED
  BY <1>7, <1>8

\* The running totals are what their recursion says, and never negative.
LEMMA RunningTotals ==
  ASSUME NEW s \in Seq(Msgs)
  PROVE  /\ RunningBytes(s)[0] = 0
         /\ \A n \in 0..Len(s) : RunningBytes(s)[n] \in Nat
         /\ \A n \in 1..Len(s) : RunningBytes(s)[n] = RunningBytes(s)[n - 1] + WriteSize[s[n]]
<1>0. Len(s) \in Nat
  OBVIOUS
<1>1. PICK f \in [0..Len(s) -> Nat] : AddsUp(s, Len(s), f)
  BY <1>0, TotalsExist
<1> DEFINE r == RunningBytes(s)
<1>2. AddsUp(s, Len(s), r)
  BY <1>1 DEF AddsUp, RunningBytes
<1> HIDE DEF r
<1>3. \A n \in 0..Len(s) : r[n] = IF n = 0 THEN 0 ELSE r[n - 1] + WriteSize[s[n]]
  BY <1>2 DEF AddsUp
<1>4. r[0] = 0 /\ \A n \in 1..Len(s) : r[n] = r[n - 1] + WriteSize[s[n]]
  BY <1>0, <1>3
<1>5. \A n \in 0..Len(s) : r[n] \in Nat
  <2> DEFINE T == {n \in 0..Len(s) : r[n] \notin Nat}
  <2> SUFFICES ASSUME T # {} PROVE FALSE
    OBVIOUS
  <2>1. T \in SUBSET Nat
    OBVIOUS
  <2>2. PICK n \in T : \A j \in T : n <= j
    <3> HIDE DEF T
    <3> QED
      BY <2>1, LeastNat
  <2>3. n \in 0..Len(s) /\ r[n] \notin Nat /\ n # 0
    BY <1>4
  <2>4. n \in 1..Len(s) /\ n - 1 \in 0..Len(s) /\ ~(n <= n - 1)
    BY <2>3, <1>0
  <2>5. r[n - 1] \in Nat
    BY <2>2, <2>4
  <2>6. r[n] = r[n - 1] + WriteSize[s[n]] /\ WriteSize[s[n]] \in Nat
    BY <2>4, <1>4, SizeOf
  <2> QED
    BY <2>3, <2>5, <2>6
<1> QED
  BY <1>4, <1>5 DEF r

\* A stretch of t read on its own (s, or a prefix of it) has the total it adds to t's.
LEMMA StretchTotal ==
  ASSUME NEW s \in Seq(Msgs), NEW t \in Seq(Msgs), NEW off \in Nat,
         NEW len \in 0..Len(s), off + len <= Len(t),
         \A k \in 1..len : s[k] = t[off + k]
  PROVE  RunningBytes(t)[off + len] = RunningBytes(t)[off] + RunningBytes(s)[len]
<1> DEFINE rs == RunningBytes(s)
           rt == RunningBytes(t)
<1>1. /\ rs[0] = 0 /\ (\A n \in 0..Len(s) : rs[n] \in Nat)
      /\ \A n \in 1..Len(s) : rs[n] = rs[n - 1] + WriteSize[s[n]]
  BY RunningTotals
<1>2. /\ \A n \in 0..Len(t) : rt[n] \in Nat
      /\ \A n \in 1..Len(t) : rt[n] = rt[n - 1] + WriteSize[t[n]]
  BY RunningTotals
<1>3. Len(s) \in Nat /\ Len(t) \in Nat /\ len \in Nat
  OBVIOUS
<1> HIDE DEF rs, rt
<1> DEFINE Off == {n \in 0..len : rt[off + n] # rt[off] + rs[n]}
<1>4. ASSUME Off # {} PROVE FALSE
  <2>1. Off \in SUBSET Nat
    OBVIOUS
  <2>2. PICK n \in Off : \A j \in Off : n <= j
    <3> HIDE DEF Off
    <3> QED
      BY <1>4, <2>1, LeastNat
  <2>3. n \in 0..len /\ rt[off + n] # rt[off] + rs[n]
    OBVIOUS
  <2>4. n # 0
    BY <1>1, <1>2, <1>3, <2>3
  <2>5. n \in 1..len /\ n - 1 \in 0..len /\ ~(n <= n - 1)
    BY <2>3, <2>4, <1>3
  <2>6. rt[off + (n - 1)] = rt[off] + rs[n - 1]
    BY <2>2, <2>5
  <2>7. off + n \in 1..Len(t) /\ n \in 1..Len(s) /\ (off + n) - 1 = off + (n - 1)
        /\ off \in 0..Len(t) /\ n - 1 \in 0..Len(s)
    BY <2>5, <1>3
  <2>8. rt[off + n] = rt[off + (n - 1)] + WriteSize[t[off + n]]
    BY <2>7, <1>2
  <2>9. rs[n] = rs[n - 1] + WriteSize[s[n]] /\ s[n] = t[off + n]
    BY <2>5, <2>7, <1>1
  <2>10. WriteSize[s[n]] \in Nat /\ rt[off] \in Nat /\ rs[n - 1] \in Nat
    BY <2>7, <1>1, <1>2, SizeOf
  <2> QED
    BY <2>3, <2>6, <2>8, <2>9, <2>10
<1>5. len \in 0..len /\ len \notin Off
  BY <1>3, <1>4
<1> QED
  BY <1>5 DEF rs, rt

\* What a sequence weighs: nothing when empty, one buffer more after an append,
\* and the sum of its two parts when it is cut.
LEMMA BytesFacts ==
  ASSUME NEW s \in Seq(Msgs)
  PROVE  /\ Bytes(s) \in Nat
         /\ s = <<>> => Bytes(s) = 0
         /\ \A m \in Msgs : Bytes(Append(s, m)) = Bytes(s) + WriteSize[m]
         /\ \A n \in 0..Len(s) :
               Bytes(s) = Bytes(SubSeq(s, 1, n)) + Bytes(SubSeq(s, n + 1, Len(s)))
<1>1. Len(s) \in Nat /\ Len(s) \in 0..Len(s)
  OBVIOUS
<1>2. Bytes(s) \in Nat
  BY <1>1, RunningTotals DEF Bytes
<1>3. s = <<>> => Bytes(s) = 0
  <2>1. s = <<>> => Len(s) = 0
    OBVIOUS
  <2> QED
    BY <2>1, RunningTotals DEF Bytes
<1>4. ASSUME NEW m \in Msgs PROVE Bytes(Append(s, m)) = Bytes(s) + WriteSize[m]
  <2> DEFINE t == Append(s, m)
  <2>1. t \in Seq(Msgs) /\ Len(t) = Len(s) + 1 /\ t[Len(s) + 1] = m
    BY AppendProperties
  <2>2. \A k \in 1..Len(s) : s[k] = t[0 + k]
    BY AppendProperties
  <2> HIDE DEF t
  <2>3. 0 + Len(s) <= Len(t) /\ Len(t) \in 1..Len(t) /\ Len(t) - 1 = Len(s)
    BY <1>1, <2>1
  <2>4. RunningBytes(t)[0 + Len(s)] = RunningBytes(t)[0] + RunningBytes(s)[Len(s)]
    BY <1>1, <2>1, <2>2, <2>3, StretchTotal
  <2>5. /\ RunningBytes(t)[0] = 0 /\ RunningBytes(s)[Len(s)] \in Nat
        /\ RunningBytes(t)[Len(t)] = RunningBytes(t)[Len(t) - 1] + WriteSize[t[Len(t)]]
    BY <1>1, <2>1, <2>3, RunningTotals
  <2>6. RunningBytes(t)[Len(s)] = RunningBytes(s)[Len(s)]
    BY <2>4, <2>5, <1>1
  <2>7. Bytes(t) = Bytes(s) + WriteSize[m]
    BY <2>1, <2>3, <2>5, <2>6 DEF Bytes
  <2> QED
    BY <2>7 DEF t
<1>5. ASSUME NEW n \in 0..Len(s)
      PROVE  Bytes(s) = Bytes(SubSeq(s, 1, n)) + Bytes(SubSeq(s, n + 1, Len(s)))
  <2> DEFINE a == SubSeq(s, 1, n)
             b == SubSeq(s, n + 1, Len(s))
  <2>1. /\ a \in Seq(Msgs) /\ Len(a) = n /\ \A k \in 1..n : a[k] = s[0 + k]
    BY <1>1
  <2>2. b \in Seq(Msgs) /\ Len(b) = Len(s) - n /\ \A k \in 1..Len(b) : b[k] = s[n + k]
    BY <1>1
  <2> HIDE DEF a, b
  <2>3. n \in Nat /\ Len(a) \in 0..Len(a) /\ Len(b) \in 0..Len(b) /\ n \in 0..Len(s)
        /\ 0 + Len(a) = n /\ n + Len(b) = Len(s) /\ n <= Len(s)
    BY <1>1, <2>1, <2>2
  <2>4. RunningBytes(s)[0 + Len(a)] = RunningBytes(s)[0] + RunningBytes(a)[Len(a)]
    BY <2>1, <2>3, StretchTotal
  <2>5. RunningBytes(s)[n + Len(b)] = RunningBytes(s)[n] + RunningBytes(b)[Len(b)]
    <3>1. /\ n \in Nat /\ Len(b) \in 0..Len(b) /\ n + Len(b) <= Len(s)
          /\ \A k \in 1..Len(b) : b[k] = s[n + k]
      BY <2>2, <2>3
    <3> QED
      BY <2>2, <3>1, StretchTotal
  <2>6. RunningBytes(s)[0] = 0 /\ Bytes(a) \in Nat /\ RunningBytes(s)[n] \in Nat
    BY <2>1, <2>3, RunningTotals DEF Bytes
  <2>7. Bytes(s) = Bytes(a) + Bytes(b)
    BY <2>3, <2>4, <2>5, <2>6 DEF Bytes
  <2> QED
    BY <2>7 DEF a, b
<1> QED
  BY <1>2, <1>3, <1>4, <1>5

\* Only the admission of a buffer and the drain write the books; the batch is
\* empty before a drain, because only the token's holder fills it (BuffersPinned).
LEMMA BooksStep == IInv /\ BacklogExact /\ [Next]_vars => BacklogExact'
<1> SUFFICES ASSUME IInv, BacklogExact, [Next]_vars PROVE BacklogExact'
  OBVIOUS
<1> USE DEF queueVars, history
<1>0. /\ sendQueue \in Seq(Msgs) /\ sendBuffers \in Seq(Msgs) /\ Len(sendQueue) \in Nat
      /\ backlogCount \in Nat /\ Bytes(sendQueue) \in Nat
  BY BytesFacts DEF IInv, TypeOK
<1>a. UNCHANGED <<sendQueue, backlogBytes, backlogCount, sendBuffers>> => BacklogExact'
  BY DEF BacklogExact, Bytes, RunningBytes
<1>b. UNCHANGED <<sendQueue, backlogBytes, backlogCount>> /\ sendBuffers' = <<>> => BacklogExact'
  BY SendAssumption DEF BacklogExact, Bytes, RunningBytes
<1>1. ASSUME NEW t \in Threads, NEW m \in Msgs, Send(t, m) PROVE BacklogExact'
  BY <1>1, <1>a DEF Send
<1>2. ASSUME NEW t \in Threads, SendLocked(t) PROVE BacklogExact'
  <2> DEFINE m == arg[t]
  <2>1. m \in Msgs /\ WriteSize[m] \in Nat
    BY <1>2, SendAssumption DEF SendLocked, IInv, TypeOK
  <2>2. CASE OverHardCap(WriteSize[m]) \/ OverSoftCap
    BY <1>2, <2>2, <1>a DEF SendLocked
  <2>3. CASE ~(OverHardCap(WriteSize[m]) \/ OverSoftCap)
    <3>1. /\ sendQueue' = Append(sendQueue, m) /\ sendBuffers' = sendBuffers
          /\ backlogBytes' = backlogBytes + WriteSize[m] /\ backlogCount' = backlogCount + 1
      BY <1>2, <2>3 DEF SendLocked
    <3>2. Bytes(Append(sendQueue, m)) = Bytes(sendQueue) + WriteSize[m]
      BY <1>0, <2>1, BytesFacts
    <3>3. Bytes(sendQueue)' = Bytes(sendQueue) + WriteSize[m]
      BY <3>1, <3>2 DEF Bytes, RunningBytes
    <3>4. Bytes(sendBuffers)' = Bytes(sendBuffers)
      BY <3>1 DEF Bytes, RunningBytes
    <3>5. Len(sendQueue') = Len(sendQueue) + 1
      BY <1>0, <2>1, <3>1, SeqFacts
    <3>6. /\ backlogCount' = Len(sendQueue') /\ backlogBytes' = Bytes(sendQueue)'
          /\ Len(sendBuffers') <= MAX_SEND_BATCH_COUNT
          /\ Len(sendBuffers') > 1 => Bytes(sendBuffers)' <= MAX_SEND_BATCH_BYTES
      BY <3>1, <3>3, <3>4, <3>5 DEF BacklogExact
    <3>7. backlogBytes \in Nat
      BY <1>0 DEF BacklogExact
    <3>8. backlogCount' <= MAX_BACKLOG_COUNT /\ backlogBytes' <= MAX_BACKLOG_BYTES
      BY <2>1, <2>3, <3>1, <3>7, <1>0, SendAssumption DEF OverHardCap
    <3> QED
      BY <3>6, <3>8 DEF BacklogExact
  <2> QED
    BY <2>2, <2>3
<1>3. ASSUME NEW t \in Threads, RegisterSendCheck(t) PROVE BacklogExact'
  BY <1>3, <1>a DEF RegisterSendCheck
<1>4. ASSUME NEW t \in Threads, RegisterSendDrain(t) PROVE BacklogExact'
  <2>1. sendBuffers = <<>>
    BY <1>4 DEF RegisterSendDrain, IInv, OneOutstandingSend, OwnsSendEvent, BuffersPinned
  <2>2. PICK n \in 0..Len(sendQueue) :
           /\ IsBatch(n)
           /\ sendBuffers' = sendBuffers \o SubSeq(sendQueue, 1, n)
           /\ sendQueue' = SubSeq(sendQueue, n + 1, Len(sendQueue))
           /\ backlogBytes' = backlogBytes - DrainedBytes(n)
           /\ backlogCount' = backlogCount - DrainedCount(n)
    BY <1>4 DEF RegisterSendDrain
  <2> DEFINE a == SubSeq(sendQueue, 1, n)
             b == SubSeq(sendQueue, n + 1, Len(sendQueue))
  <2>3. a \in Seq(Msgs) /\ b \in Seq(Msgs) /\ Len(a) = n /\ Len(b) = Len(sendQueue) - n
    BY <1>0
  <2>4. sendBuffers' = a /\ sendQueue' = b
    BY <2>1, <2>2, <2>3
  <2>5. Bytes(sendQueue) = Bytes(a) + Bytes(b) /\ Bytes(a) \in Nat /\ Bytes(b) \in Nat
    BY <1>0, <2>3, BytesFacts
  <2>6. Bytes(sendBuffers)' = Bytes(a) /\ Bytes(sendQueue)' = Bytes(b)
    BY <2>4 DEF Bytes, RunningBytes
  <2>7. backlogBytes' = backlogBytes - Bytes(a) /\ backlogCount' = backlogCount - n
    BY <2>2 DEF DrainedBytes, DrainedCount
  <2>8. n > 1 => Bytes(a) <= MAX_SEND_BATCH_BYTES /\ n <= MAX_SEND_BATCH_COUNT
    <3>1. n > 1 => Takes(n)
      BY <2>2 DEF IsBatch
    <3>2. Len(sendBuffers) + n = n
      BY <2>1
    <3> QED
      BY <3>1, <3>2 DEF Takes
  <2> HIDE DEF a, b
  <2>9. /\ backlogCount' = Len(sendQueue') /\ backlogBytes' = Bytes(sendQueue)'
        /\ backlogCount' <= MAX_BACKLOG_COUNT /\ backlogBytes' <= MAX_BACKLOG_BYTES
    BY <1>0, <2>3, <2>4, <2>5, <2>6, <2>7, SendAssumption DEF BacklogExact
  <2>10. /\ Len(sendBuffers') <= MAX_SEND_BATCH_COUNT
         /\ Len(sendBuffers') > 1 => Bytes(sendBuffers)' <= MAX_SEND_BATCH_BYTES
    BY <2>3, <2>4, <2>6, <2>8, SendAssumption
  <2> QED
    BY <2>9, <2>10 DEF BacklogExact
<1>5. ASSUME NEW t \in Threads, RegisterSendPost(t) PROVE BacklogExact'
  BY <1>5, <1>a DEF RegisterSendPost
<1>6. ASSUME NEW t \in Threads, RegisterSendFail(t) PROVE BacklogExact'
  BY <1>6, <1>b DEF RegisterSendFail
<1>7. ASSUME NEW t \in Threads, ProcessSend(t) PROVE BacklogExact'
  BY <1>7, <1>b DEF ProcessSend
<1>8. ASSUME NEW t \in Threads, ProcessSendLocked(t) PROVE BacklogExact'
  BY <1>8, <1>a DEF ProcessSendLocked
<1>9. CASE Disconnect
  BY <1>9, <1>a DEF Disconnect
<1>10. CASE UNCHANGED vars
  BY <1>10, <1>a DEF vars
<1> QED
  BY <1>1, <1>2, <1>3, <1>4, <1>5, <1>6, <1>7, <1>8, <1>9, <1>10 DEF Next, Step

\* The backlog counters are the queue's length and its bytes, both within the
\* hard caps, and a batch obeys the batch limits unless it is one buffer.
THEOREM ExactBacklog == Spec => []BacklogExact
<1>1. Init => BacklogExact
  <2>1. Bytes(<<>>) = 0
    BY EmptySeq, BytesFacts
  <2> QED
    BY <2>1, SendAssumption DEF Init, BacklogExact, Bytes, RunningBytes
<1>2. IInv /\ BacklogExact /\ [Next]_vars => BacklogExact'
  BY BooksStep
<1> QED
  BY <1>1, <1>2, Inductive, PTL DEF Spec

-----------------------------------------------------------------------------
(* The pipeline implements SendChannel. *)

\* Splitting a queue and putting a prefix behind an empty batch loses nothing.
LEMMA DrainKeepsOrder ==
  ASSUME NEW S, NEW q \in Seq(S), NEW n \in 0..Len(q)
  PROVE  SubSeq(q, 1, n) \o SubSeq(q, n + 1, Len(q)) = q
<1>1. /\ Len(q) \in Nat /\ 1 \in 1..Len(q) + 1
      /\ n \in 1 - 1..Len(q) /\ Len(q) \in n..Len(q)
  BY LenProperties
<1>2. SubSeq(q, 1, n) \o SubSeq(q, n + 1, Len(q)) = SubSeq(q, 1, Len(q))
  BY <1>1, ConcatAdjacentSubSeq
<1> QED
  BY <1>2, SubSeqFull

LEMMA CutConcat ==
  ASSUME NEW S, NEW s \in Seq(S), NEW q \in Seq(S)
  PROVE  /\ SubSeq(s \o q, 1, Len(s)) = s
         /\ SubSeq(s \o q, Len(s) + 1, Len(s \o q)) = q
         /\ Len(s \o q) = Len(s) + Len(q)
         /\ s \o q \in Seq(S)
<1>1. s \o q \in Seq(S) /\ Len(s \o q) = Len(s) + Len(q)
  BY ConcatProperties
<1>2. SubSeq(s \o q, 1, Len(s)) = s
  BY SubSeqOfConcat1, SubSeqFull, SubSeqEmpty, <1>1, LenProperties, EmptySeq
<1>3. SubSeq(s \o q, Len(s) + 1, Len(s \o q)) = q
  BY SubSeqOfConcat2, SubSeqFull, SubSeqEmpty, <1>1, LenProperties, EmptySeq
<1> QED
  BY <1>1, <1>2, <1>3

LEMMA ConcatAppend ==
  ASSUME NEW S, NEW s \in Seq(S), NEW q \in Seq(S), NEW e \in S
  PROVE  s \o Append(q, e) = Append(s \o q, e)
  OBVIOUS

LEMMA ChannelStep == IInv /\ IInv' /\ [Next]_vars => [Channel!ChanNext]_(Channel!chanVars)
<1> SUFFICES ASSUME IInv, IInv', [Next]_vars
             PROVE  Channel!ChanNext \/ UNCHANGED <<Pending, wire>>
  BY DEF Channel!chanVars
<1> USE DEF IInv, TypeOK, Labels, Goto, queueVars, history
<1>1. ASSUME NEW t \in Threads, NEW m \in Msgs, Send(t, m)
      PROVE  UNCHANGED <<Pending, wire>>
  BY <1>1 DEF Send, Pending
<1>2. ASSUME NEW t \in Threads, SendLocked(t)
      PROVE  Channel!ChanNext \/ UNCHANGED <<Pending, wire>>
  <2>1. CASE UNCHANGED queueVars
    BY <1>2, <2>1 DEF SendLocked, Pending
  <2>2. CASE sendQueue' = Append(sendQueue, arg[t])
    <3>1. arg[t] \in Msgs
      BY <1>2 DEF SendLocked
    <3>2. UNCHANGED <<posted, sendBuffers, wire>>
      BY <1>2 DEF SendLocked
    <3>3. <<>> \in Seq(Msgs)
      BY EmptySeq
    <3>4. Pending' = Append(Pending, arg[t])
      <4> DEFINE b == IF posted = <<>> THEN sendBuffers ELSE <<>>
      <4>1. b \in Seq(Msgs)
        BY <3>3
      <4>2. Pending = b \o sendQueue /\ Pending' = b \o sendQueue'
        BY <3>2 DEF Pending
      <4> HIDE DEF b
      <4>3. b \o Append(sendQueue, arg[t]) = Append(b \o sendQueue, arg[t])
        BY <3>1, <4>1, ConcatAppend
      <4>4. QED
        BY <2>2, <4>2, <4>3
    <3>5. Channel!Accept(arg[t])
      BY <3>2, <3>4 DEF Channel!Accept
    <3>6. QED
      BY <3>1, <3>5 DEF Channel!ChanNext
  <2>3. QED
    BY <1>2, <2>1, <2>2 DEF SendLocked
<1>3. ASSUME NEW t \in Threads, RegisterSendCheck(t)
      PROVE  UNCHANGED <<Pending, wire>>
  BY <1>3 DEF RegisterSendCheck, Pending
<1>4. ASSUME NEW t \in Threads, RegisterSendDrain(t)
      PROVE  UNCHANGED <<Pending, wire>>
  <2>1. posted = <<>> /\ sendBuffers = <<>>
    BY <1>4 DEF RegisterSendDrain, OneOutstandingSend, OwnsSendEvent, BuffersPinned
  <2>2. PICK n \in 0..Len(sendQueue) :
             /\ sendBuffers' = sendBuffers \o SubSeq(sendQueue, 1, n)
             /\ sendQueue' = SubSeq(sendQueue, n + 1, Len(sendQueue))
    BY <1>4 DEF RegisterSendDrain
  <2>3. sendBuffers' = SubSeq(sendQueue, 1, n)
    <3>1. SubSeq(sendQueue, 1, n) \in Seq(Msgs)
      BY LenProperties
    <3>2. QED
      BY <2>1, <2>2, <3>1, ConcatEmptySeq
  <2>4. sendBuffers' \o sendQueue' = sendQueue
    BY <2>2, <2>3, DrainKeepsOrder
  <2>5. Pending = sendQueue
    BY <2>1, ConcatEmptySeq DEF Pending
  <2>6. posted' = <<>> /\ wire' = wire
    BY <1>4, <2>1 DEF RegisterSendDrain
  <2>7. QED
    BY <2>4, <2>5, <2>6 DEF Pending
<1>5. ASSUME NEW t \in Threads, RegisterSendPost(t)
      PROVE  Channel!ChanNext \/ UNCHANGED <<Pending, wire>>
  <2>1. posted = <<>>
    BY <1>5 DEF RegisterSendPost, OneOutstandingSend, OwnsSendEvent
  <2>2. Pending = sendBuffers \o sendQueue
    BY <2>1 DEF Pending
  <2>3. CASE posted' = Append(posted, sendBuffers) /\ wire' = wire \o sendBuffers
    <3>1. UNCHANGED <<sendBuffers, sendQueue>>
      BY <1>5 DEF RegisterSendPost
    <3>2. posted' # <<>>
      BY <2>1, <2>3, AppendToEmpty
    <3>3. Pending' = sendQueue
      BY <3>1, <3>2, ConcatEmptySeq DEF Pending
    <3>4. Channel!Transmit(Len(sendBuffers))
      <4>1. /\ SubSeq(Pending, 1, Len(sendBuffers)) = sendBuffers
            /\ SubSeq(Pending, Len(sendBuffers) + 1, Len(Pending)) = sendQueue
        BY <2>2, CutConcat
      <4>2. QED
        BY <2>3, <3>3, <4>1 DEF Channel!Transmit
    <3>5. CASE sendBuffers = <<>>
      BY <2>2, <2>3, <3>3, <3>5, ConcatEmptySeq
    <3>6. CASE sendBuffers # <<>>
      <4>1. Len(sendBuffers) \in 1..Len(Pending)
        BY <2>2, <3>6, CutConcat, EmptySeq, LenProperties
      <4>2. QED
        BY <3>4, <4>1 DEF Channel!ChanNext
    <3>7. QED
      BY <3>5, <3>6
  <2>4. CASE UNCHANGED <<posted, wire>>
    BY <1>5, <2>4 DEF RegisterSendPost, Pending
  <2>5. QED
    BY <1>5, <2>3, <2>4 DEF RegisterSendPost
<1>6. ASSUME NEW t \in Threads, RegisterSendFail(t)
      PROVE  Channel!ChanNext \/ UNCHANGED <<Pending, wire>>
  <2>1. posted = <<>>
    BY <1>6 DEF RegisterSendFail, OneOutstandingSend, OwnsSendEvent
  <2>2. Pending = sendBuffers \o sendQueue
    BY <2>1 DEF Pending
  <2>3. Pending' = sendQueue /\ wire' = wire
    BY <1>6, <2>1, ConcatEmptySeq DEF RegisterSendFail, Pending
  <2>4. Channel!Lose(Len(sendBuffers))
    BY <2>2, <2>3, CutConcat DEF Channel!Lose
  <2>5. CASE sendBuffers = <<>>
    BY <2>2, <2>3, <2>5, ConcatEmptySeq
  <2>6. CASE sendBuffers # <<>>
    <3>1. Len(sendBuffers) \in 1..Len(Pending)
      BY <2>2, <2>6, CutConcat, EmptySeq, LenProperties
    <3>2. QED
      BY <2>4, <3>1 DEF Channel!ChanNext
  <2>7. QED
    BY <2>5, <2>6
<1>7. ASSUME NEW t \in Threads, ProcessSend(t)
      PROVE  UNCHANGED <<Pending, wire>>
  <2>1. Tail(posted) = <<>> /\ posted # <<>>
    BY <1>7, HeadTailProperties, EmptySeq DEF ProcessSend, OneOutstandingSend
  <2>2. QED
    BY <1>7, <2>1 DEF ProcessSend, Pending
<1>8. ASSUME NEW t \in Threads, ProcessSendLocked(t)
      PROVE  UNCHANGED <<Pending, wire>>
  BY <1>8 DEF ProcessSendLocked, Pending
<1>9. CASE Disconnect
  BY <1>9 DEF Disconnect, Pending
<1>10. CASE UNCHANGED vars
  BY <1>10 DEF vars, Pending
<1> QED
  BY <1>1, <1>2, <1>3, <1>4, <1>5, <1>6, <1>7, <1>8, <1>9, <1>10 DEF Next, Step

\* Accepted buffers reach the wire in acceptance order, each at most once.
THEOREM OrderedAtMostOnce == Spec => ImplementsChannel
<1>1. Init => Channel!ChanInit
  BY EmptySeq, ConcatEmptySeq DEF Init, Channel!ChanInit, Pending
<1> QED
  BY <1>1, ChannelStep, Inductive, PTL DEF Spec, ImplementsChannel, Channel!ChanSpec
=============================================================================
