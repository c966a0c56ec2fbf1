------------------------- MODULE SessionSendProofs -------------------------
(***************************************************************************)
(* Proofs about SessionSend for any set of threads and any number of calls. *)
(*                                                                         *)
(* ControlInv strengthens the control properties (OneSender,               *)
(* NoStrandedBuffer, NoEmptyPost, SerialSendsAreSafe) until one step keeps  *)
(* it: who holds rwLock where, what RegisterSend has set up by which line,  *)
(* and what a winner may count on when it leaves the lock.  BatchRetained   *)
(* and ExactStream relate the sequences and are kept on top of it.          *)
(***************************************************************************)
EXTENDS SessionSend, SequenceTheorems, TLAPS

-----------------------------------------------------------------------------
(* Type correctness                                                          *)

USE ThreadsAssumption, MaxSendsAssumption

\* Counting one more push keeps every queued number in range.
LEMMA WiderRange ==
  ASSUME NEW n \in Nat, NEW s \in Seq(0..n)
  PROVE  s \in Seq(0..(n + 1))
<1>1. \A i \in 1..Len(s) : s[i] \in 0..(n + 1)
  OBVIOUS
<1> QED
  BY <1>1

\* What a push leaves behind is a queue of numbers pushed so far, the new one
\* included, or of slots never filled.
LEMMA PushOutcomesType ==
  ASSUME NEW q \in Seq(0..accepted), accepted \in Nat, torn \in BOOLEAN,
         NEW r \in PushOutcomes(q, accepted + 1)
  PROVE  r \in Seq(0..(accepted + 1))
<1> DEFINE b == accepted + 1
           N == 0..b
<1>1. q \in Seq(N) /\ b \in N
  BY WiderRange
<1>2. Stale(q) \subseteq N
  BY DEF Stale, Garbage
<1> HIDE DEF N, b
<1>3. Append(q, b) \in Seq(N) /\ SubSeq(q, 1, Len(q) - 1) \in Seq(N)
  BY <1>1
<1>4. ASSUME NEW s \in Stale(q)
      PROVE  {q \o <<s>>, q \o <<b, s>>, <<s>> \o q, <<s>> \o Append(q, b),
              SubSeq(q, 1, Len(q) - 1) \o <<b, s>>} \subseteq Seq(N)
  <2>1. <<s>> \in Seq(N) /\ <<b, s>> \in Seq(N)
    BY <1>1, <1>2
  <2> QED
    BY <1>1, <1>3, <2>1
<1>5. r \in {q, Append(q, b)} \/
      \E s \in Stale(q) : r \in {q \o <<s>>, q \o <<b, s>>, <<s>> \o q, <<s>> \o Append(q, b),
                                SubSeq(q, 1, Len(q) - 1) \o <<b, s>>}
  BY Zenon DEF PushOutcomes, b
<1>6. r \in Seq(N)
  BY <1>1, <1>3, <1>4, <1>5, Zenon
<1> QED
  BY <1>6 DEF N, b

\* Every variable of the send path keeps its type.
THEOREM TypeCorrect == Spec => []TypeOK
<1>1. Init => TypeOK
  <2> SUFFICES ASSUME Init PROVE TypeOK
    OBVIOUS
  <2>1. sendQueue \in Seq(0..accepted)
    BY EmptySeq DEF Init
  <2>2. sendBuffers \in Seq(0..accepted) /\ wire \in Seq(0..accepted)
    BY EmptySeq DEF Init
  <2>3. pc \in [Threads -> PCs]
    BY DEF Init, PCs
  <2>4. accepted \in Nat /\ calls \in 0..MaxSends
    BY DEF Init
  <2>5. conn \in {"new", "up", "down"} /\ rwLock \in Threads \cup {NoThread}
    BY DEF Init
  <2>6. /\ sendRegistered \in BOOLEAN /\ owner \in BOOLEAN
        /\ inFlight \in BOOLEAN /\ torn \in BOOLEAN /\ raced \in BOOLEAN
        /\ overlapped \in BOOLEAN /\ postFailed \in BOOLEAN
    BY DEF Init
  <2> QED
    BY <2>1, <2>2, <2>3, <2>4, <2>5, <2>6 DEF TypeOK
<1>2. TypeOK /\ [Next]_vars => TypeOK'
  <2> SUFFICES ASSUME TypeOK, [Next]_vars PROVE TypeOK'
    OBVIOUS
  <2> USE DEF TypeOK, PCs, Goto, Unlock, sendVars, history
  <2>1. CASE ProcessConnect
    BY <2>1 DEF ProcessConnect
  <2>2. CASE Disconnect
    BY <2>2 DEF Disconnect
  <2>3. ASSUME NEW t \in Threads, Send(t) PROVE TypeOK'
    BY <2>3 DEF Send
  <2>4. ASSUME NEW t \in Threads, Step(t) PROVE TypeOK'
    <3>1. CASE LockForPush(t)
      BY <3>1 DEF LockForPush
    <3>2. CASE Push(t)
      <4>1. sendQueue' \in Seq(0..accepted')
        BY <3>2, PushOutcomesType DEF Push
      <4>2. sendBuffers' \in Seq(0..accepted') /\ wire' \in Seq(0..accepted')
        BY <3>2, WiderRange DEF Push
      <4> QED
        BY <3>2, <4>1, <4>2 DEF Push
    <3>3. CASE Exchange(t)
      BY <3>3 DEF Exchange
    <3>4. CASE RegisterSendRefused(t)
      BY <3>4 DEF RegisterSendRefused
    <3>5. CASE RegisterSend(t)
      BY <3>5 DEF RegisterSend
    <3>6. CASE DrainOne(t)
      BY <3>6 DEF DrainOne, OtherPushing
    <3>7. CASE Crash(t)
      <4>1. sendBuffers' \in Seq(0..accepted') /\ sendQueue' \in Seq(0..accepted')
        BY <3>7, EmptySeq DEF Crash
      <4> QED
        BY <3>7, <4>1 DEF Crash
    <3>8. CASE DrainDone(t)
      BY <3>8 DEF DrainDone
    <3>9. CASE PostAccepted(t)
      BY <3>9 DEF PostAccepted
    <3>10. CASE PostRefused(t)
      BY <3>10 DEF PostRefused
    <3>11. CASE ReleaseAfterFailure(t)
      <4>1. sendBuffers' \in Seq(0..accepted')
        BY <3>11, EmptySeq DEF ReleaseAfterFailure
      <4> QED
        BY <3>11, <4>1 DEF ReleaseAfterFailure
    <3>12. CASE Return(t)
      BY <3>12 DEF Return
    <3>13. CASE LockForCheck(t)
      BY <3>13 DEF LockForCheck
    <3>14. CASE GiveBack(t)
      BY <3>14 DEF GiveBack
    <3>15. CASE SendMore(t)
      BY <3>15 DEF SendMore
    <3> QED
      BY <2>4, <3>1, <3>2, <3>3, <3>4, <3>5, <3>6, <3>7, <3>8, <3>9, <3>10,
         <3>11, <3>12, <3>13, <3>14, <3>15 DEF Step
  <2>5. ASSUME NEW t \in Threads, ProcessSend(t) PROVE TypeOK'
    <3>1. sendBuffers' \in Seq(0..accepted')
      BY <2>5, EmptySeq DEF ProcessSend
    <3> QED
      BY <2>5, <3>1 DEF ProcessSend
  <2>6. CASE UNCHANGED vars
    BY <2>6 DEF vars
  <2> QED
    BY <2>1, <2>2, <2>3, <2>4, <2>5, <2>6 DEF Next, Completion, Finished
<1> QED
  BY <1>1, <1>2, PTL DEF Spec

-----------------------------------------------------------------------------
(* The inductive invariant                                                   *)

\* Between taking and leaving rwLock in Send, and when ProcessSend looks at the
\* queue, the thread holds the lock.
LockInv ==
  \A t \in Threads :
    pc[t] \in {"push", "exchange", "return", "check"} => rwLock = t

\* Inside RegisterSend the event has an owner.
OwnerInv == \A t \in Threads : pc[t] \in {"drain", "post", "failed"} => owner

\* The history flags mean what they say.
HistoryInv ==
  /\ \A t \in Threads : pc[t] = "failed" => postFailed
  /\ torn => raced
  /\ ~raced => \A t \in Threads : pc[t] # "dead"

\* No overlap yet: one thread at a time in Send, no race, and nobody can have
\* pushed between the end of a drain and its post or failure.
SerialInv ==
  ~overlapped =>
    /\ ~raced
    /\ \A t, u \in Threads : InSend(t) /\ InSend(u) => t = u
    /\ \A t \in Threads : pc[t] \in {"post", "failed"} => sendQueue = <<>>

\* No fault can have taken a buffer out of the sender's hands.
Clean == ~overlapped \/ (~raced /\ ~postFailed)

\* On a clean path a thread that may win the exchange still has its buffer in
\* the queue, and a sender has something to send.
WinnerInv ==
  Clean =>
    \A t \in Threads :
      /\ pc[t] = "exchange" /\ sendQueue = <<>> => sendRegistered
      /\ pc[t] \in {"register", "drain"} => sendQueue # <<>> \/ sendBuffers # <<>>
      /\ pc[t] = "post" => sendBuffers # <<>>

ControlInv ==
  /\ LockInv
  /\ OneSender
  /\ OwnerInv
  /\ HistoryInv
  /\ SerialInv
  /\ WinnerInv
  /\ NoStrandedBuffer

\* The control part is true at the start.
LEMMA ControlInit ==
  ASSUME Init
  PROVE  ControlInv
BY DEF Init, ControlInv, LockInv, OneSender, Sending, OwnerInv, HistoryInv,
       SerialInv, InSend, WinnerInv, NoStrandedBuffer

\* Every step keeps the control part.
LEMMA ControlStep ==
  ASSUME TypeOK, ControlInv, [Next]_vars
  PROVE  ControlInv'
<1> USE DEF TypeOK, PCs, Goto, Unlock, sendVars, history,
           ControlInv, LockInv, OneSender, Sending, OwnerInv, HistoryInv,
           SerialInv, InSend, Clean, WinnerInv, NoStrandedBuffer, OtherPushing
<1>1. CASE ProcessConnect
  BY <1>1 DEF ProcessConnect
<1>2. CASE Disconnect
  BY <1>2 DEF Disconnect
<1>3. ASSUME NEW t \in Threads, Send(t) PROVE ControlInv'
  BY <1>3 DEF Send
<1>4. ASSUME NEW t \in Threads, ProcessSend(t) PROVE ControlInv'
  BY <1>4 DEF ProcessSend
<1>5. ASSUME NEW t \in Threads, Step(t) PROVE ControlInv'
  <2>1. CASE LockForPush(t)
    BY <2>1 DEF LockForPush
  <2>2. CASE Push(t)
    <3>1. ASSUME ~raced' PROVE sendQueue' # <<>>
      <4> DEFINE q == sendQueue'
      <4>1. torn = FALSE
        BY <2>2, <3>1 DEF Push
      <4>2. q = Append(sendQueue, accepted + 1)
        BY <2>2, <4>1 DEF Push, PushOutcomes
      <4>3. sendQueue \in Seq(Nat)
        OBVIOUS
      <4> HIDE DEF q
      <4>4. Len(q) = Len(sendQueue) + 1 /\ q \in Seq(Nat)
        BY <4>2, <4>3
      <4>5. q # <<>>
        BY <4>4, EmptySeq
      <4> QED
        BY <4>5 DEF q
    <3>3. LockInv' /\ OneSender' /\ OwnerInv'
      BY <2>2 DEF Push
    <3>4. HistoryInv'
      BY <2>2, <3>1 DEF Push
    <3>5. SerialInv'
      BY <2>2 DEF Push
    <3>6. WinnerInv'
      BY <2>2, <3>1 DEF Push
    <3>7. NoStrandedBuffer'
      BY <2>2 DEF Push
    <3> QED
      BY <3>3, <3>4, <3>5, <3>6, <3>7
  <2>3. CASE Exchange(t)
    <3>1. LockInv'
      BY <2>3 DEF Exchange
    <3>2. OneSender'
      BY <2>3 DEF Exchange
    <3>3. OwnerInv'
      BY <2>3 DEF Exchange
    <3>4. HistoryInv'
      BY <2>3 DEF Exchange
    <3>5. SerialInv'
      BY <2>3 DEF Exchange
    <3>6. WinnerInv'
      BY <2>3 DEF Exchange
    <3>7. NoStrandedBuffer'
      BY <2>3 DEF Exchange
    <3> QED
      BY <3>1, <3>2, <3>3, <3>4, <3>5, <3>6, <3>7
  <2>4. CASE RegisterSendRefused(t)
    BY <2>4 DEF RegisterSendRefused
  <2>5. CASE RegisterSend(t)
    BY <2>5 DEF RegisterSend
  <2>6. CASE DrainOne(t)
    <3>1. LockInv'
      BY <2>6 DEF DrainOne
    <3>2. OneSender'
      BY <2>6 DEF DrainOne
    <3>3. OwnerInv'
      BY <2>6 DEF DrainOne
    <3>4. HistoryInv'
      BY <2>6 DEF DrainOne
    <3>5. SerialInv'
      BY <2>6 DEF DrainOne
    <3>6. WinnerInv'
      <4>1. sendRegistered' /\ (Clean' => Clean)
        BY <2>6 DEF DrainOne
      <4>2. sendBuffers' # <<>>
        <5>1. /\ sendBuffers' = Append(sendBuffers, Head(sendQueue))
              /\ sendBuffers \in Seq(0..accepted)
          BY <2>6 DEF DrainOne
        <5> HIDE DEF TypeOK, ControlInv, LockInv, OneSender, OwnerInv, HistoryInv,
                     SerialInv, WinnerInv, NoStrandedBuffer
        <5>2. Len(sendBuffers') = Len(sendBuffers) + 1 /\ Len(sendBuffers) \in Nat
          BY <5>1
        <5> QED
          BY <5>2
      <4>3. \A u \in Threads : pc'[u] = pc[u]
        BY <2>6 DEF DrainOne
      <4> QED
        BY <4>1, <4>2, <4>3
    <3>7. NoStrandedBuffer'
      BY <2>6 DEF DrainOne
    <3> QED
      BY <3>1, <3>2, <3>3, <3>4, <3>5, <3>6, <3>7
  <2>7. CASE Crash(t)
    <3>1. LockInv'
      BY <2>7 DEF Crash
    <3>2. OneSender'
      BY <2>7 DEF Crash
    <3>3. OwnerInv'
      BY <2>7 DEF Crash
    <3>4. HistoryInv'
      BY <2>7 DEF Crash
    <3>5. SerialInv'
      BY <2>7 DEF Crash
    <3>6. WinnerInv'
      BY <2>7 DEF Crash
    <3>7. NoStrandedBuffer'
      BY <2>7 DEF Crash
    <3> QED
      BY <3>1, <3>2, <3>3, <3>4, <3>5, <3>6, <3>7
  <2>8. CASE DrainDone(t)
    BY <2>8 DEF DrainDone
  <2>9. CASE PostAccepted(t)
    BY <2>9 DEF PostAccepted
  <2>10. CASE PostRefused(t)
    BY <2>10 DEF PostRefused
  <2>11. CASE ReleaseAfterFailure(t)
    BY <2>11 DEF ReleaseAfterFailure
  <2>12. CASE Return(t)
    BY <2>12 DEF Return
  <2>13. CASE LockForCheck(t)
    BY <2>13 DEF LockForCheck
  <2>14. CASE GiveBack(t)
    BY <2>14 DEF GiveBack
  <2>15. CASE SendMore(t)
    BY <2>15 DEF SendMore
  <2> QED
    BY <1>5, <2>1, <2>2, <2>3, <2>4, <2>5, <2>6, <2>7, <2>8,
       <2>9, <2>10, <2>11, <2>12, <2>13, <2>14, <2>15
       DEF Step
<1>6. CASE UNCHANGED vars
  BY <1>6 DEF vars
<1> QED
  BY <1>1, <1>2, <1>3, <1>4, <1>5, <1>6 DEF Next, Completion, Finished

LEMMA ControlCorrect == Spec => [](TypeOK /\ ControlInv)
<1>1. Init => ControlInv
  BY ControlInit
<1>2. TypeOK /\ ControlInv /\ [Next]_vars => ControlInv'
  BY ControlStep
<1> QED
  BY <1>1, <1>2, TypeCorrect, PTL DEF Spec

\* At most one thread owns the send event, none while the kernel has it.
THEOREM TokenExclusive == Spec => []OneSender
<1>1. ControlInv => OneSender
  BY DEF ControlInv
<1> QED
  BY <1>1, ControlCorrect, PTL

\* No buffer waits with the token free and nobody about to take it, unless a
\* post was refused under concurrent callers.
THEOREM NoLostWakeup == Spec => []NoStrandedBuffer
<1>1. ControlInv => NoStrandedBuffer
  BY DEF ControlInv
<1> QED
  BY <1>1, ControlCorrect, PTL

\* A clean sender never posts an empty batch.
THEOREM PostsCarryBuffers == Spec => []NoEmptyPost
<1>1. ControlInv => NoEmptyPost
  BY DEF ControlInv, WinnerInv, Clean, NoEmptyPost
<1> QED
  BY <1>1, ControlCorrect, PTL

\* Calls of Send that never overlap never meet the data race.
THEOREM SerialSafety == Spec => []SerialSendsAreSafe
<1>1. ControlInv => SerialSendsAreSafe
  BY DEF ControlInv, SerialInv, HistoryInv, SerialSendsAreSafe
<1> QED
  BY <1>1, ControlCorrect, PTL

-----------------------------------------------------------------------------
(* The batch in flight                                                       *)

\* The end of a concatenation is its second part.
LEMMA LastPart ==
  ASSUME NEW S, NEW w \in Seq(S), NEW b \in Seq(S)
  PROVE  /\ Len(b) <= Len(w \o b)
         /\ b = SubSeq(w \o b, Len(w \o b) - Len(b) + 1, Len(w \o b))
<1> DEFINE c == w \o b
           e == SubSeq(c, Len(c) - Len(b) + 1, Len(c))
<1>1. c \in Seq(S) /\ Len(c) = Len(w) + Len(b)
  OBVIOUS
<1>2. \A i \in 1..Len(b) : c[Len(w) + i] = b[i]
  OBVIOUS
<1> HIDE DEF c
<1>3. e \in Seq(S) /\ Len(e) = Len(b)
  BY <1>1
<1>4. \A i \in 1..Len(b) : e[i] = c[Len(w) + i]
  BY <1>1
<1>5. \A i \in 1..Len(b) : e[i] = b[i]
  BY <1>2, <1>4
<1> HIDE DEF e
<1>6. e = b
  BY <1>3, <1>5, SeqEqual
<1> QED
  BY <1>1, <1>6 DEF c, e

\* Every step keeps the batch in flight whole.
LEMMA BatchStep ==
  ASSUME TypeOK, ControlInv, BatchRetained, [Next]_vars
  PROVE  BatchRetained'
<1> USE DEF TypeOK, PCs, Goto, Unlock, sendVars, history,
           ControlInv, OneSender, Sending, OwnerInv, BatchRetained
<1>1. CASE ProcessConnect
  BY <1>1 DEF ProcessConnect
<1>2. CASE Disconnect
  BY <1>2 DEF Disconnect
<1>3. ASSUME NEW t \in Threads, Send(t) PROVE BatchRetained'
  BY <1>3 DEF Send
<1>4. ASSUME NEW t \in Threads, ProcessSend(t) PROVE BatchRetained'
  BY <1>4 DEF ProcessSend
<1>5. ASSUME NEW t \in Threads, Step(t) PROVE BatchRetained'
  <2>1. CASE LockForPush(t)
    BY <2>1 DEF LockForPush
  <2>2. CASE Push(t)
    BY <2>2 DEF Push
  <2>3. CASE Exchange(t)
    BY <2>3 DEF Exchange
  <2>4. CASE RegisterSendRefused(t)
    BY <2>4 DEF RegisterSendRefused
  <2>5. CASE RegisterSend(t)
    BY <2>5 DEF RegisterSend
  <2>6. CASE DrainOne(t)
    BY <2>6 DEF DrainOne
  <2>7. CASE Crash(t)
    BY <2>7 DEF Crash
  <2>8. CASE DrainDone(t)
    BY <2>8 DEF DrainDone
  <2>9. CASE PostAccepted(t)
    <3>1. /\ owner'
          /\ sendBuffers' = sendBuffers
          /\ wire' = wire \o sendBuffers
      BY <2>9 DEF PostAccepted
    <3>2. /\ sendBuffers \in Seq(0..accepted) /\ wire \in Seq(0..accepted)
      OBVIOUS
    <3> HIDE DEF TypeOK, ControlInv, OneSender, OwnerInv
    <3>3. /\ Len(sendBuffers) <= Len(wire')
          /\ sendBuffers = SubSeq(wire', Len(wire') - Len(sendBuffers) + 1, Len(wire'))
      BY <3>1, <3>2, LastPart
    <3> QED
      BY <3>1, <3>3
  <2>10. CASE PostRefused(t)
    <3>1. ~inFlight
      BY <2>10 DEF PostRefused
    <3> QED
      BY <2>10, <3>1 DEF PostRefused
  <2>11. CASE ReleaseAfterFailure(t)
    BY <2>11 DEF ReleaseAfterFailure
  <2>12. CASE Return(t)
    BY <2>12 DEF Return
  <2>13. CASE LockForCheck(t)
    BY <2>13 DEF LockForCheck
  <2>14. CASE GiveBack(t)
    BY <2>14 DEF GiveBack
  <2>15. CASE SendMore(t)
    BY <2>15 DEF SendMore
  <2> QED
    BY <1>5, <2>1, <2>2, <2>3, <2>4, <2>5, <2>6, <2>7, <2>8,
       <2>9, <2>10, <2>11, <2>12, <2>13, <2>14, <2>15
       DEF Step
<1>6. CASE UNCHANGED vars
  BY <1>6 DEF vars
<1> QED
  BY <1>1, <1>2, <1>3, <1>4, <1>5, <1>6 DEF Next, Completion, Finished

\* The event, its owner and its buffers stay as posted until the completion.
THEOREM BatchSafe == Spec => []BatchRetained
<1>1. Init => BatchRetained
  BY DEF Init, BatchRetained
<1>2. TypeOK /\ ControlInv /\ BatchRetained /\ [Next]_vars => BatchRetained'
  BY BatchStep
<1> QED
  BY <1>1, <1>2, ControlCorrect, PTL DEF Spec

-----------------------------------------------------------------------------
(* The stream                                                                *)


\* The buffers not on the wire yet are numbers pushed so far.
LEMMA StagedType ==
  ASSUME TypeOK
  PROVE  Staged \in Seq(0..accepted)
BY EmptySeq DEF TypeOK, Staged

\* Moving the head of a queue to the end of the batch keeps their order.
LEMMA HeadMoves ==
  ASSUME NEW S, NEW b \in Seq(S), NEW q \in Seq(S), q # <<>>
  PROVE  Append(b, Head(q)) \o Tail(q) = b \o q
<1>1. Len(Append(b, Head(q)) \o Tail(q)) = Len(b \o q)
  OBVIOUS
<1>2. \A i \in 1..Len(b \o q) : (Append(b, Head(q)) \o Tail(q))[i] = (b \o q)[i]
  OBVIOUS
<1>3. Append(b, Head(q)) \o Tail(q) \in Seq(S) /\ b \o q \in Seq(S)
  OBVIOUS
<1> QED
  BY <1>1, <1>2, <1>3, SeqEqual

\* Appending to the second part appends to the whole.
LEMMA ConcatAppend ==
  ASSUME NEW S, NEW s \in Seq(S), NEW q \in Seq(S), NEW x \in S
  PROVE  s \o Append(q, x) = Append(s \o q, x)
<1> DEFINE r == Append(q, x)
           d == s \o r
           e == Append(s \o q, x)
<1>1. /\ r \in Seq(S)
      /\ Len(r) = Len(q) + 1
      /\ \A i \in 1..Len(q) : r[i] = q[i]
      /\ r[Len(q) + 1] = x
  OBVIOUS
<1> HIDE DEF r
<1>2. /\ d \in Seq(S)
      /\ Len(d) = Len(s) + Len(q) + 1
      /\ \A i \in 1..(Len(s) + Len(q) + 1) :
            d[i] = IF i <= Len(s) THEN s[i] ELSE r[i - Len(s)]
  <2>1. /\ d \in Seq(S)
        /\ Len(d) = Len(s) + Len(r)
        /\ \A i \in 1..(Len(s) + Len(r)) :
              d[i] = IF i <= Len(s) THEN s[i] ELSE r[i - Len(s)]
    BY <1>1, ConcatProperties
  <2> HIDE DEF d
  <2>2. Len(s) + Len(r) = Len(s) + Len(q) + 1
    BY <1>1
  <2> QED
    BY <2>1, <2>2
<1>3. /\ s \o q \in Seq(S)
      /\ Len(s \o q) = Len(s) + Len(q)
      /\ \A i \in 1..(Len(s) + Len(q)) :
            (s \o q)[i] = IF i <= Len(s) THEN s[i] ELSE q[i - Len(s)]
  BY ConcatProperties
<1>4. e \in Seq(S) /\ Len(e) = Len(s) + Len(q) + 1
  BY <1>3
<1>5. ASSUME NEW i \in 1..(Len(s) + Len(q) + 1) PROVE d[i] = e[i]
  <2>1. CASE i <= Len(s)
    BY <2>1, <1>2, <1>3
  <2>2. CASE i > Len(s) /\ i <= Len(s) + Len(q)
    <3>1. i - Len(s) \in 1..Len(q)
      BY <2>2
    <3>2. d[i] = q[i - Len(s)]
      BY <1>1, <1>2, <2>2, <3>1
    <3>3. e[i] = (s \o q)[i]
      BY <1>3, <2>2
    <3> QED
      BY <1>3, <2>2, <3>2, <3>3
  <2>3. CASE i = Len(s) + Len(q) + 1
    <3>1. i - Len(s) = Len(q) + 1
      BY <2>3
    <3>2. d[i] = x
      BY <1>1, <1>2, <2>3, <3>1
    <3> QED
      BY <1>3, <2>3, <3>2
  <2>4. Len(s) \in Nat /\ Len(q) \in Nat
    OBVIOUS
  <2> HIDE DEF d, e
  <2> QED
    BY <2>1, <2>2, <2>3, <2>4
<1>6. d = e
  BY <1>2, <1>4, <1>5, SeqEqual
<1> QED
  BY <1>6 DEF r

\* One more push at the end of a stream that is complete so far.
LEMMA StreamPush ==
  ASSUME NEW n \in Nat, NEW s \in Seq(Nat), NEW q \in Seq(Nat)
  PROVE  s \o q = [i \in 1..n |-> i]
           => s \o Append(q, n + 1) = [i \in 1..(n + 1) |-> i]
<1> DEFINE c == s \o q
           d == Append(c, n + 1)
<1>1. s \o Append(q, n + 1) = d
  <2>1. n + 1 \in Nat
    OBVIOUS
  <2> QED
    BY <2>1, ConcatAppend
<1> HIDE DEF c
<1>2. ASSUME c = [i \in 1..n |-> i] PROVE d = [i \in 1..(n + 1) |-> i]
  <2>1. c \in Seq(Nat) /\ Len(c) = n /\ \A i \in 1..n : c[i] = i
    BY <1>2
  <2>2. d \in Seq(Nat) /\ Len(d) = n + 1 /\ \A i \in 1..(n + 1) : d[i] = i
    BY <2>1
  <2>3. d = [i \in 1..Len(d) |-> d[i]]
    BY <2>2
  <2> HIDE DEF d
  <2> QED
    BY <2>2, <2>3
<1> QED
  BY <1>1, <1>2 DEF c

\* ExactStream before it is known that calls that never overlap cannot race.
StreamInv ==
  ~postFailed /\ ~raced
     => (wire \o Staged) \o sendQueue = [i \in 1..accepted |-> i]

\* Every step keeps the stream complete and in order until a fault.
LEMMA StreamStep ==
  ASSUME TypeOK, ControlInv, StreamInv, [Next]_vars
  PROVE  StreamInv'
<1> USE DEF TypeOK, PCs, Goto, Unlock, sendVars, history,
           ControlInv, OneSender, Sending, HistoryInv, StreamInv, Staged
<1>1. CASE ProcessConnect
  BY <1>1 DEF ProcessConnect
<1>2. CASE Disconnect
  BY <1>2 DEF Disconnect
<1>3. ASSUME NEW t \in Threads, Send(t) PROVE StreamInv'
  BY <1>3 DEF Send
<1>4. ASSUME NEW t \in Threads, ProcessSend(t) PROVE StreamInv'
  BY <1>4 DEF ProcessSend
<1>5. ASSUME NEW t \in Threads, Step(t) PROVE StreamInv'
  <2>1. CASE LockForPush(t)
    BY <2>1 DEF LockForPush
  <2>2. CASE Push(t)
    <3>1. CASE torn \/ postFailed \/ raced
      BY <2>2, <3>1 DEF Push
    <3>2. CASE ~torn
      <4>1. sendQueue' = Append(sendQueue, accepted + 1)
        BY <2>2, <3>2 DEF Push, PushOutcomes
      <4>2. wire' \o Staged' = wire \o Staged
        BY <2>2 DEF Push
      <4> DEFINE s == wire \o Staged
      <4>3. s \in Seq(Nat) /\ sendQueue \in Seq(Nat)
        BY StagedType
      <4>4. accepted' = accepted + 1 /\ raced' = raced /\ postFailed' = postFailed
        BY <2>2 DEF Push
      <4> HIDE DEF s
      <4>5. s \o sendQueue = [i \in 1..accepted |-> i]
              => s \o Append(sendQueue, accepted + 1)
                   = [i \in 1..(accepted + 1) |-> i]
        BY <4>3, StreamPush
      <4> QED
        BY <4>1, <4>2, <4>4, <4>5 DEF s
    <3> QED
      BY <3>1, <3>2
  <2>3. CASE Exchange(t)
    BY <2>3 DEF Exchange
  <2>4. CASE RegisterSendRefused(t)
    BY <2>4 DEF RegisterSendRefused
  <2>5. CASE RegisterSend(t)
    BY <2>5 DEF RegisterSend
  <2>6. CASE DrainOne(t)
    <3>1. ~inFlight /\ ~inFlight'
      BY <2>6 DEF DrainOne
    <3>2. (wire \o sendBuffers') \o sendQueue' = (wire \o sendBuffers) \o sendQueue
      <4> DEFINE N == 0..accepted
                 c == sendBuffers'
                 r == sendQueue'
      <4>1. wire \in Seq(N) /\ sendBuffers \in Seq(N) /\ sendQueue \in Seq(N)
        OBVIOUS
      <4>2. c \in Seq(N) /\ r \in Seq(N) /\ sendQueue # <<>>
        BY <2>6 DEF DrainOne
      <4>3. c = Append(sendBuffers, Head(sendQueue)) /\ r = Tail(sendQueue)
        BY <2>6 DEF DrainOne
      <4> HIDE DEF N, c, r, TypeOK, ControlInv, OneSender, Sending, HistoryInv,
                   StreamInv, Staged
      <4>4. c \o r = sendBuffers \o sendQueue
        BY <4>1, <4>2, <4>3, HeadMoves
      <4>5. (wire \o c) \o r = wire \o (c \o r)
        BY <4>1, <4>2, ConcatAssociative, SMTT(40)
      <4>6. (wire \o sendBuffers) \o sendQueue = wire \o (sendBuffers \o sendQueue)
        BY <4>1, ConcatAssociative, SMTT(40)
      <4>7. (wire \o c) \o r = (wire \o sendBuffers) \o sendQueue
        BY <4>4, <4>5, <4>6, Zenon
      <4> QED
        BY <4>7 DEF c, r
    <3>3. /\ Staged = sendBuffers /\ Staged' = sendBuffers'
          /\ wire' = wire /\ accepted' = accepted /\ postFailed' = postFailed
          /\ raced' \/ raced' = raced
      BY <2>6, <3>1 DEF DrainOne
    <3> QED
      BY <3>2, <3>3
  <2>7. CASE Crash(t)
    BY <2>7 DEF Crash
  <2>8. CASE DrainDone(t)
    BY <2>8 DEF DrainDone
  <2>9. CASE PostAccepted(t)
    <3>1. ~inFlight /\ inFlight'
      BY <2>9 DEF PostAccepted
    <3>2. wire' \o Staged' = wire \o Staged
      <4>1. Staged' = <<>> /\ Staged = sendBuffers
        BY <3>1
      <4>2. wire' = wire \o sendBuffers
        BY <2>9 DEF PostAccepted
      <4>3. wire \o sendBuffers \in Seq(0..accepted)
        OBVIOUS
      <4> QED
        BY <4>1, <4>2, <4>3, ConcatEmptySeq
    <3> QED
      BY <2>9, <3>2 DEF PostAccepted
  <2>10. CASE PostRefused(t)
    BY <2>10 DEF PostRefused
  <2>11. CASE ReleaseAfterFailure(t)
    BY <2>11 DEF ReleaseAfterFailure
  <2>12. CASE Return(t)
    BY <2>12 DEF Return
  <2>13. CASE LockForCheck(t)
    BY <2>13 DEF LockForCheck
  <2>14. CASE GiveBack(t)
    BY <2>14 DEF GiveBack
  <2>15. CASE SendMore(t)
    BY <2>15 DEF SendMore
  <2> QED
    BY <1>5, <2>1, <2>2, <2>3, <2>4, <2>5, <2>6, <2>7, <2>8,
       <2>9, <2>10, <2>11, <2>12, <2>13, <2>14, <2>15
       DEF Step
<1>6. CASE UNCHANGED vars
  BY <1>6 DEF vars
<1> QED
  BY <1>1, <1>2, <1>3, <1>4, <1>5, <1>6 DEF Next, Completion, Finished

\* Until a post is refused or the queue is torn, wire, batch and queue together
\* are exactly the buffers pushed, in order.
THEOREM StreamExact == Spec => []ExactStream
<1>1. Init => StreamInv
  <2> SUFFICES ASSUME Init PROVE (<<>> \o <<>>) \o <<>> = [i \in 1..0 |-> i]
    BY DEF Init, StreamInv, Staged
  <2>1. <<>> \in Seq(Nat) /\ <<>> \o <<>> = <<>>
    BY EmptySeq, ConcatEmptySeq
  <2>2. [i \in 1..0 |-> i] \in Seq(Nat) /\ Len([i \in 1..0 |-> i]) = 0
    OBVIOUS
  <2> QED
    BY <2>1, <2>2, EmptySeq
<1>2. TypeOK /\ ControlInv /\ StreamInv /\ [Next]_vars => StreamInv'
  BY StreamStep
<1>3. ControlInv /\ StreamInv => ExactStream
  BY DEF ControlInv, SerialInv, StreamInv, ExactStream
<1> QED
  BY <1>1, <1>2, <1>3, ControlCorrect, PTL DEF Spec

-----------------------------------------------------------------------------
(* The promise to the callers                                                *)

\* The first part of a concatenation is its beginning.
LEMMA FirstPart ==
  ASSUME NEW S, NEW w \in Seq(S), NEW b \in Seq(S)
  PROVE  /\ Len(w) \in 0..Len(w \o b)
         /\ SubSeq(w \o b, 1, Len(w)) = w
<1>1. PICK c : c = w \o b
  OBVIOUS
<1>2. /\ c \in Seq(S) /\ Len(c) = Len(w) + Len(b) /\ Len(w) \in Nat /\ Len(b) \in Nat
      /\ \A i \in 1..Len(w) : c[i] = w[i]
  BY <1>1
<1>3. PICK e : e = SubSeq(c, 1, Len(w))
  OBVIOUS
<1>4. e \in Seq(S) /\ Len(e) = Len(w) /\ \A i \in 1..Len(w) : e[i] = c[i]
  BY <1>2, <1>3
<1>5. e = w
  <2>1. \A i \in 1..Len(e) : e[i] = w[i]
    BY <1>2, <1>4
  <2> QED
    BY <1>4, <2>1, SeqEqual
<1> QED
  BY <1>1, <1>2, <1>3, <1>5

\* What is left behind the first part is the second.
LEMMA Parts ==
  ASSUME NEW S, NEW w \in Seq(S), NEW b \in Seq(S)
  PROVE  \E n \in 0..Len(w \o b) : /\ w = SubSeq(w \o b, 1, n)
                                   /\ b = SubSeq(w \o b, n + 1, Len(w \o b))
<1>1. Len(w \o b) - Len(b) = Len(w)
  OBVIOUS
<1>2. Len(w) \in 0..Len(w \o b) /\ w = SubSeq(w \o b, 1, Len(w))
  BY FirstPart
<1>3. b = SubSeq(w \o b, Len(w) + 1, Len(w \o b))
  BY <1>1, LastPart
<1> QED
  BY <1>2, <1>3

\* The abstract backlog.
Waiting == Staged \o sendQueue

\* The sequences hold numbers.
LEMMA StreamType ==
  ASSUME TypeOK
  PROVE  /\ Staged \in Seq(0..accepted) /\ sendQueue \in Seq(0..accepted)
         /\ sendBuffers \in Seq(0..accepted)
         /\ Waiting \in Seq(0..accepted)
BY StagedType, ConcatProperties DEF TypeOK, Waiting

\* What waits is what is staged, then what is queued.
LEMMA WaitingParts ==
  ASSUME TypeOK
  PROVE  \E n \in 0..Len(Waiting) :
           /\ Staged = SubSeq(Waiting, 1, n)
           /\ sendQueue = SubSeq(Waiting, n + 1, Len(Waiting))
<1>1. PICK a \in Seq(0..accepted), b \in Seq(0..accepted) :
        a = Staged /\ b = sendQueue /\ Waiting = a \o b
  BY StreamType DEF Waiting
<1>2. \E n \in 0..Len(a \o b) : a = SubSeq(a \o b, 1, n) /\ b = SubSeq(a \o b, n + 1, Len(a \o b))
  BY Parts
<1> QED
  BY <1>1, <1>2, Zenon

\* Whatever touches none of this is no step of the stream.
LEMMA StreamStutter ==
  ASSUME UNCHANGED <<accepted, sendQueue, wire, raced, postFailed, Staged>>
  PROVE  UNCHANGED Stream!vars
BY DEF Stream!vars

\* With nothing staged the queue alone waits.
LEMMA QueueWaits ==
  ASSUME TypeOK, Staged' = <<>>, sendQueue' = sendQueue
  PROVE  Waiting' = sendQueue
<1>1. <<>> \o sendQueue = sendQueue
  BY StreamType
<1> QED
  BY <1>1 DEF Waiting

\* Every step of the send path is one of the stream, or none.
LEMMA StreamMap ==
  ASSUME TypeOK, TypeOK', ControlInv, [Next]_vars
  PROVE  [Stream!Next]_(Stream!vars)
<1>1. ASSUME UNCHANGED <<accepted, sendQueue, wire, raced, postFailed, sendBuffers, inFlight>>
      PROVE  UNCHANGED Stream!vars
  BY <1>1, StreamStutter DEF Staged
<1>2. ASSUME NEW t \in Threads, Sending(t)
      PROVE  ~inFlight
  BY <1>2 DEF ControlInv, OneSender
<1>3. CASE ProcessConnect \/ Disconnect \/ UNCHANGED vars
  BY <1>1, <1>3 DEF ProcessConnect, Disconnect, vars, sendVars, history
<1>4. ASSUME NEW t \in Threads, Send(t) PROVE UNCHANGED Stream!vars
  BY <1>1, <1>4 DEF Send, sendVars
<1>5. ASSUME NEW t \in Threads, ProcessSend(t) PROVE UNCHANGED Stream!vars
  BY <1>5, StreamStutter DEF ProcessSend, Staged, history
<1>6. Waiting' \in Seq(0..accepted')
  <2>1. sendQueue' \in Seq(0..accepted') /\ sendBuffers' \in Seq(0..accepted')
    BY DEF TypeOK
  <2>2. Staged' \in Seq(0..accepted')
    BY <2>1, EmptySeq DEF Staged
  <2> QED
    BY <2>1, <2>2, ConcatProperties DEF Waiting
<1>7. ASSUME raced', accepted' \in {accepted, accepted + 1}, UNCHANGED <<wire, postFailed>>
      PROVE  Stream!Next
  BY <1>6, <1>7 DEF Stream!Next, Stream!Tear, Waiting, TypeOK
<1>8. ASSUME NEW t \in Threads, Step(t) PROVE [Stream!Next]_(Stream!vars)
  <2>1. CASE LockForPush(t) \/ Exchange(t) \/ RegisterSendRefused(t) \/ RegisterSend(t)
    BY <1>1, <2>1 DEF LockForPush, Exchange, RegisterSendRefused, RegisterSend, sendVars, history
  <2>2. CASE DrainDone(t) \/ Return(t) \/ LockForCheck(t) \/ GiveBack(t) \/ SendMore(t)
    BY <1>1, <2>2 DEF DrainDone, Return, LockForCheck, GiveBack, SendMore, sendVars, history
  <2>3. CASE Push(t)
    <3>1. /\ accepted' = accepted + 1 /\ UNCHANGED <<wire, raced, postFailed, Staged>>
          /\ sendQueue' \in PushOutcomes(sendQueue, accepted + 1)
      BY <2>3 DEF Push, sendVars, history, Staged
    <3>2. CASE torn
      <4>1. raced'
        BY <3>1, <3>2 DEF ControlInv, HistoryInv
      <4> QED
        BY <1>7, <3>1, <4>1
    <3>3. CASE ~torn
      <4>1. sendQueue' = Append(sendQueue, accepted + 1)
        BY <3>1, <3>3 DEF PushOutcomes
      <4>2. Staged \o Append(sendQueue, accepted + 1) = Append(Waiting, accepted + 1)
        <5>1. Staged \in Seq(Nat) /\ sendQueue \in Seq(Nat) /\ accepted + 1 \in Nat
          BY StreamType DEF TypeOK
        <5> QED
          BY <5>1, ConcatAppend DEF Waiting
      <4> QED
        BY <3>1, <4>1, <4>2 DEF Stream!Next, Stream!Accept, Waiting
    <3> QED
      BY <3>2, <3>3
  <2>4. CASE DrainOne(t)
    <3>1. ~inFlight
      BY <1>2, <2>4 DEF DrainOne, Sending
    <3>2. /\ sendQueue # <<>> /\ sendBuffers' = Append(sendBuffers, Head(sendQueue))
          /\ sendQueue' = Tail(sendQueue) /\ UNCHANGED <<inFlight, accepted, wire, postFailed>>
          /\ raced' = (raced \/ OtherPushing(t))
      BY <2>4 DEF DrainOne
    <3>3. sendBuffers' \o sendQueue' = sendBuffers \o sendQueue
      BY <3>2, HeadMoves DEF TypeOK
    <3>4. UNCHANGED (Staged \o sendQueue)
      BY <3>1, <3>2, <3>3 DEF Staged
    <3>5. CASE raced'
      BY <1>7, <3>2, <3>5
    <3>6. CASE ~raced'
      BY <3>2, <3>4, <3>6 DEF Stream!vars, TypeOK
    <3> QED
      BY <3>5, <3>6
  <2>5. CASE Crash(t)
    BY <1>7, <2>5 DEF Crash
  <2>6. CASE PostAccepted(t)
    <3>1. ~inFlight
      BY <1>2, <2>6 DEF PostAccepted, Sending
    <3>2. /\ inFlight' = TRUE /\ wire' = wire \o sendBuffers
          /\ UNCHANGED <<sendQueue, sendBuffers, accepted, raced, postFailed>>
      BY <2>6 DEF PostAccepted
    <3>3. Staged = sendBuffers /\ Staged' = <<>>
      BY <3>1, <3>2 DEF Staged
    <3>4. PICK n \in 0..Len(Waiting) :
            /\ Staged = SubSeq(Waiting, 1, n)
            /\ sendQueue = SubSeq(Waiting, n + 1, Len(Waiting))
      BY WaitingParts
    <3>5. Waiting' = sendQueue
      BY <3>2, <3>3, QueueWaits
    <3> QED
      BY <3>2, <3>3, <3>4, <3>5 DEF Stream!Next, Stream!Transmit, Waiting
  <2>7. CASE PostRefused(t)
    <3>1. postFailed' = TRUE /\ UNCHANGED <<accepted, wire, raced, Staged \o sendQueue>>
      BY <2>7 DEF PostRefused, sendVars, Staged
    <3> QED
      BY <3>1 DEF Stream!Next, Stream!Fault
  <2>8. CASE ReleaseAfterFailure(t)
    <3>1. ~inFlight /\ postFailed
      BY <1>2, <2>8 DEF ReleaseAfterFailure, Sending, ControlInv, HistoryInv
    <3>2. /\ sendBuffers' = <<>>
          /\ UNCHANGED <<sendQueue, inFlight, accepted, wire, raced, postFailed>>
      BY <2>8 DEF ReleaseAfterFailure, history
    <3>3. PICK n \in 0..Len(Waiting) :
            sendQueue = SubSeq(Waiting, n + 1, Len(Waiting))
      BY WaitingParts
    <3>4. Waiting' = sendQueue
      BY <3>1, <3>2, QueueWaits DEF Staged
    <3> QED
      BY <3>1, <3>2, <3>3, <3>4 DEF Stream!Next, Stream!Drop, Waiting
  <2> QED
    BY <1>8, <2>1, <2>2, <2>3, <2>4, <2>5, <2>6, <2>7, <2>8 DEF Step
<1> QED
  BY <1>3, <1>4, <1>5, <1>8 DEF Next, Completion, Finished

\* Session::Send, RegisterSend and ProcessSend implement one ordered stream, for any
\* number of threads, until two calls of Send meet inside the queue: before the
\* first refused post nothing is skipped, and after it buffers may be lost but are
\* never swapped or sent twice.  After such a meeting only the wire's past is kept.
THEOREM SendIsStream == Spec => ImplementsStream
<1>1. Init => Stream!Init
  <2>1. <<>> \o <<>> = <<>>
    OBVIOUS
  <2> QED
    BY <2>1 DEF Init, Stream!Init, Staged
<1>2. TypeOK /\ TypeOK' /\ ControlInv /\ [Next]_vars => [Stream!Next]_(Stream!vars)
  BY StreamMap
<1> QED
  BY <1>1, <1>2, ControlCorrect, PTL DEF Spec, ImplementsStream, Stream!Spec
=============================================================================
