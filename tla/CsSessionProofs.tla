-------------------------- MODULE CsSessionProofs --------------------------
(***************************************************************************)
(* Proofs about CsSession, for any number of threads and buffers.          *)
(***************************************************************************)
EXTENDS CsSession, SequenceTheorems, TLAPS

-----------------------------------------------------------------------------
(* What is left of a thread's calls                                          *)

\* The entries that can come behind e in the todo of a thread.
Behind(e) ==
  CASE e \in {"OnConnectCompleted", "OnConnected", "Send", "Unlock"} -> {}
    [] e \in {"RegisterSend", "SendAsync", "SendDone"} -> {"EndTry", "Unlock"}
    [] e \in {"AttachHandlers", "RegisterRecv"} -> {"EndTry", "OnConnected"}
    [] e = "Lock"           -> {"SendDone", "Disconnect", "Unlock"}
    [] e = "OnDisconnected" -> {"Shutdown", "EndTry", "Unlock", "OnConnected"}
    [] OTHER                -> {"EndTry", "Unlock", "OnConnected"}

InOrder(q) == \A i, j \in 1..Len(q) : i < j => q[j] \in Behind(q[i])

Orderly == \A t \in Threads : InOrder(todo[t])

\* The entries of a sequence, and those each thread has before it.
Elems(q) == {q[i] : i \in 1..Len(q)}

Due == [t \in Threads |-> Elems(todo[t])]

\* Thread t leaves entry e and has S before it, in front of what was behind e.
Advances(t, e, S) ==
  /\ todo' \in [Threads -> Seq(Entries)]
  /\ Orderly'
  /\ \E R \in SUBSET Behind(e) :
       /\ Due[t] = {e} \union R
       /\ Due' = [Due EXCEPT ![t] = S \union R]

\* Thread t, which had nothing to do, has S before it.
Starts(t, S) ==
  /\ todo' \in [Threads -> Seq(Entries)]
  /\ Orderly'
  /\ Due[t] = {}
  /\ Due' = [Due EXCEPT ![t] = S]

\* Due is what Owes says.
LEMMA DueOwes ==
  ASSUME TypeOK, NEW t \in Threads, NEW e
  PROVE  e \in Due[t] <=> Owes(t, e)
<1>1. todo[t] \in Seq(Entries)
  BY DEF TypeOK
<1> QED
  BY <1>1 DEF Due, Elems, Owes

\* Putting q in the place of the head keeps a sequence in order if what may
\* come behind the head may come behind all of q.
LEMMA Replaced ==
  ASSUME NEW r \in Seq(Entries), r # <<>>, InOrder(r),
         NEW q \in Seq(Entries), InOrder(q),
         \A i \in 1..Len(q) : Behind(Head(r)) \subseteq Behind(q[i])
  PROVE  /\ q \o Tail(r) \in Seq(Entries)
         /\ InOrder(q \o Tail(r))
         /\ Elems(Tail(r)) \subseteq Behind(Head(r))
         /\ Elems(r) = {Head(r)} \union Elems(Tail(r))
         /\ Elems(q \o Tail(r)) = Elems(q) \union Elems(Tail(r))
<1> DEFINE z == Tail(r)
           p == q \o z
<1>1. /\ z \in Seq(Entries) /\ Len(z) = Len(r) - 1 /\ Len(r) \in Nat \ {0}
      /\ \A i \in 1..Len(z) : z[i] = r[i + 1]
      /\ Head(r) = r[1]
  BY HeadTailProperties
<1>2. /\ p \in Seq(Entries) /\ Len(p) = Len(q) + Len(z) /\ Len(q) \in Nat
      /\ \A i \in 1..Len(p) : p[i] = IF i <= Len(q) THEN q[i] ELSE z[i - Len(q)]
  BY <1>1
<1> HIDE DEF z, p
<1>3. ASSUME NEW i \in 1..Len(z) PROVE z[i] \in Behind(Head(r))
  <2>1. 1 \in 1..Len(r) /\ i + 1 \in 1..Len(r) /\ 1 < i + 1
    BY <1>1
  <2>2. r[i + 1] \in Behind(r[1])
    BY <2>1 DEF InOrder
  <2> QED
    BY <1>1, <2>2
<1>4. InOrder(z)
  BY <1>1 DEF InOrder
<1>5. InOrder(p)
  <2> SUFFICES ASSUME NEW i \in 1..Len(p), NEW j \in 1..Len(p), i < j
               PROVE  p[j] \in Behind(p[i])
    BY DEF InOrder
  <2>1. CASE j <= Len(q)
    BY <1>2, <2>1 DEF InOrder
  <2>2. CASE i <= Len(q) /\ j > Len(q)
    <3>1. j - Len(q) \in 1..Len(z) /\ p[j] = z[j - Len(q)]
      BY <1>1, <1>2, <2>2
    <3>2. i \in 1..Len(q) /\ p[i] = q[i]
      BY <1>2, <2>2
    <3> QED
      BY <1>3, <3>1, <3>2
  <2>3. CASE i > Len(q)
    <3>1. /\ i - Len(q) \in 1..Len(z) /\ p[i] = z[i - Len(q)]
          /\ j - Len(q) \in 1..Len(z) /\ p[j] = z[j - Len(q)]
          /\ i - Len(q) < j - Len(q)
      BY <1>1, <1>2, <2>3
    <3> QED
      BY <1>4, <3>1 DEF InOrder
  <2> QED
    BY <1>1, <1>2, <2>1, <2>2, <2>3
<1>6. Elems(r) = {Head(r)} \union Elems(z)
  <2>1. ASSUME NEW i \in 1..Len(r) PROVE r[i] \in {Head(r)} \union Elems(z)
    <3>1. CASE i = 1
      BY <1>1, <3>1
    <3>2. CASE i # 1
      <4>1. i - 1 \in 1..Len(z) /\ r[i] = z[i - 1]
        BY <1>1, <3>2
      <4> QED
        BY <4>1 DEF Elems
    <3> QED
      BY <3>1, <3>2
  <2>2. ASSUME NEW i \in 1..Len(z) PROVE z[i] \in Elems(r)
    <3>1. i + 1 \in 1..Len(r) /\ z[i] = r[i + 1]
      BY <1>1
    <3> QED
      BY <3>1 DEF Elems
  <2>3. Head(r) \in Elems(r)
    BY <1>1 DEF Elems
  <2> QED
    BY <2>1, <2>2, <2>3 DEF Elems
<1>7. Elems(p) = Elems(q) \union Elems(z)
  <2>1. ASSUME NEW i \in 1..Len(p) PROVE p[i] \in Elems(q) \union Elems(z)
    <3>1. CASE i <= Len(q)
      BY <1>2, <3>1 DEF Elems
    <3>2. CASE i > Len(q)
      <4>1. i - Len(q) \in 1..Len(z) /\ p[i] = z[i - Len(q)]
        BY <1>1, <1>2, <3>2
      <4> QED
        BY <4>1 DEF Elems
    <3> QED
      BY <1>2, <3>1, <3>2
  <2>2. ASSUME NEW i \in 1..Len(q) PROVE q[i] \in Elems(p)
    <3>1. i \in 1..Len(p) /\ p[i] = q[i]
      BY <1>1, <1>2
    <3> QED
      BY <3>1 DEF Elems
  <2>3. ASSUME NEW i \in 1..Len(z) PROVE z[i] \in Elems(p)
    <3>1. i + Len(q) \in 1..Len(p) /\ p[i + Len(q)] = z[i]
      BY <1>1, <1>2
    <3> QED
      BY <3>1 DEF Elems
  <2> QED
    BY <2>1, <2>2, <2>3 DEF Elems
<1> QED
  BY <1>2, <1>3, <1>5, <1>6, <1>7 DEF Elems, z, p

\* What Continue does to the todo of a thread.
LEMMA Continues ==
  ASSUME TypeOK, Orderly, NEW t \in Threads, NEW e, At(t, e),
         NEW q \in Seq(Entries), InOrder(q), Continue(t, q),
         \A i \in 1..Len(q) : Behind(e) \subseteq Behind(q[i])
  PROVE  Advances(t, e, Elems(q))
<1> DEFINE p == q \o Tail(todo[t])
<1>1. todo \in [Threads -> Seq(Entries)] /\ todo[t] # <<>> /\ e = Head(todo[t])
  BY DEF TypeOK, At
<1>2. todo' = [todo EXCEPT ![t] = p]
  BY DEF Continue, Begin
<1>3. /\ p \in Seq(Entries) /\ InOrder(p)
      /\ Elems(Tail(todo[t])) \subseteq Behind(e)
      /\ Elems(todo[t]) = {e} \union Elems(Tail(todo[t]))
      /\ Elems(p) = Elems(q) \union Elems(Tail(todo[t]))
  BY <1>1, Replaced DEF Orderly
<1> HIDE DEF p
<1>4. todo' \in [Threads -> Seq(Entries)]
  BY <1>1, <1>2, <1>3
<1>5. Orderly'
  BY <1>1, <1>2, <1>3 DEF Orderly
<1>6. Due' = [Due EXCEPT ![t] = Elems(p)]
  BY <1>1, <1>2 DEF Due
<1>7. Due[t] = {e} \union Elems(Tail(todo[t]))
  BY <1>3 DEF Due
<1> QED
  BY <1>3, <1>4, <1>5, <1>6, <1>7 DEF Advances

\* The sequences the actions put in front.
LEMMA Front1 ==
  ASSUME NEW a \in Entries
  PROVE  <<a>> \in Seq(Entries) /\ InOrder(<<a>>) /\ Elems(<<a>>) = {a}
<1>1. <<a>> \in Seq(Entries) /\ Len(<<a>>) = 1 /\ <<a>>[1] = a
  OBVIOUS
<1>2. 1..1 = {1}
  OBVIOUS
<1> QED
  BY <1>1, <1>2 DEF InOrder, Elems

\* Two of them, the second of which may come behind the first.
LEMMA Front2 ==
  ASSUME NEW a \in Entries, NEW b \in Entries, b \in Behind(a)
  PROVE  <<a, b>> \in Seq(Entries) /\ InOrder(<<a, b>>) /\ Elems(<<a, b>>) = {a, b}
<1>1. <<a, b>> \in Seq(Entries) /\ Len(<<a, b>>) = 2 /\ <<a, b>>[1] = a /\ <<a, b>>[2] = b
  OBVIOUS
<1>2. 1..2 = {1, 2}
  OBVIOUS
<1>3. InOrder(<<a, b>>)
  BY <1>1, <1>2 DEF InOrder
<1>4. Elems(<<a, b>>) = {a, b}
  BY <1>1, <1>2 DEF Elems
<1> QED
  BY <1>1, <1>3, <1>4

\* Continue with nothing, one or two entries.
LEMMA Continue0 ==
  ASSUME TypeOK, Orderly, NEW t \in Threads, NEW e, At(t, e), Continue(t, <<>>)
  PROVE  Advances(t, e, {})
<1> DEFINE q == <<>>
<1>1. q \in Seq(Entries) /\ InOrder(q) /\ Elems(q) = {} /\ 1..Len(q) = {}
  BY DEF InOrder, Elems
<1>2. Continue(t, q)
  OBVIOUS
<1> HIDE DEF q
<1>3. Advances(t, e, Elems(q))
  BY <1>1, <1>2, Continues
<1> QED
  BY <1>1, <1>3

\* With one entry in the place of the head.
LEMMA Continue1 ==
  ASSUME TypeOK, Orderly, NEW t \in Threads, NEW e, At(t, e),
         NEW a \in Entries, Behind(e) \subseteq Behind(a), Continue(t, <<a>>)
  PROVE  Advances(t, e, {a})
<1> DEFINE q == <<a>>
<1>1. q \in Seq(Entries) /\ InOrder(q) /\ Elems(q) = {a}
  BY Front1
<1>2. \A i \in 1..Len(q) : q[i] = a
  OBVIOUS
<1>3. Continue(t, q)
  OBVIOUS
<1> HIDE DEF q
<1>4. Advances(t, e, Elems(q))
  BY <1>1, <1>2, <1>3, Continues
<1> QED
  BY <1>1, <1>4

\* With two.
LEMMA Continue2 ==
  ASSUME TypeOK, Orderly, NEW t \in Threads, NEW e, At(t, e),
         NEW a \in Entries, NEW b \in Entries, b \in Behind(a),
         Behind(e) \subseteq Behind(a), Behind(e) \subseteq Behind(b),
         Continue(t, <<a, b>>)
  PROVE  Advances(t, e, {a, b})
<1> DEFINE q == <<a, b>>
<1>1. q \in Seq(Entries) /\ InOrder(q) /\ Elems(q) = {a, b}
  BY Front2
<1>2. \A i \in 1..Len(q) : q[i] \in {a, b}
  BY <1>1 DEF Elems
<1>3. Continue(t, q)
  OBVIOUS
<1> HIDE DEF q
<1>4. Advances(t, e, Elems(q))
  BY <1>1, <1>2, <1>3, Continues
<1> QED
  BY <1>1, <1>4

\* The same in a try, which only adds "EndTry".
LEMMA ContinueInTry1 ==
  ASSUME TypeOK, Orderly, NEW t \in Threads, NEW e, At(t, e),
         Behind(e) \subseteq Behind("EndTry"),
         NEW a \in Entries, Behind(e) \subseteq Behind(a), "EndTry" \in Behind(a),
         ContinueInTry(t, <<a>>)
  PROVE  Advances(t, e, {a}) \/ Advances(t, e, {a, "EndTry"})
<1>1. Continue(t, <<a>>) \/ Continue(t, <<a, "EndTry">>)
  <2> DEFINE rest == Tail(todo[t])
  <2>1. rest \in Seq(Entries)
    BY HeadTailProperties DEF TypeOK, At
  <2>2. <<a>> \o (<<"EndTry">> \o rest) = <<a, "EndTry">> \o rest
    <3> HIDE DEF rest
    <3> QED
      BY <2>1
  <2>3. \/ Begin(t, <<a>> \o rest)
        \/ Begin(t, <<a>> \o (<<"EndTry">> \o rest))
    BY DEF ContinueInTry
  <2> QED
    BY <2>2, <2>3 DEF Continue
<1>2. "EndTry" \in Entries
  BY DEF Entries
<1> QED
  BY <1>1, <1>2, Continue1, Continue2

\* With nothing in front of the "EndTry".
LEMMA ContinueInTry0 ==
  ASSUME TypeOK, Orderly, NEW t \in Threads, NEW e, At(t, e),
         Behind(e) \subseteq Behind("EndTry"), ContinueInTry(t, <<>>)
  PROVE  Advances(t, e, {}) \/ Advances(t, e, {"EndTry"})
<1>1. Continue(t, <<>>) \/ Continue(t, <<"EndTry">>)
  <2> DEFINE rest == Tail(todo[t])
  <2>1. rest \in Seq(Entries)
    BY HeadTailProperties DEF TypeOK, At
  <2>2. <<>> \o (<<"EndTry">> \o rest) = <<"EndTry">> \o rest
    <3> HIDE DEF rest
    <3> QED
      BY <2>1
  <2>3. \/ Begin(t, <<>> \o rest)
        \/ Begin(t, <<>> \o (<<"EndTry">> \o rest))
    BY DEF ContinueInTry
  <2> QED
    BY <2>2, <2>3 DEF Continue
<1>2. "EndTry" \in Entries
  BY DEF Entries
<1> QED
  BY <1>1, <1>2, Continue0, Continue1

\* What Begin does to an idle thread.
LEMMA Begins ==
  ASSUME TypeOK, Orderly, NEW t \in Threads, Idle(t),
         NEW q \in Seq(Entries), InOrder(q), Begin(t, q)
  PROVE  Starts(t, Elems(q))
<1>1. todo \in [Threads -> Seq(Entries)] /\ todo[t] = <<>>
  BY DEF TypeOK, Idle
<1>2. todo' = [todo EXCEPT ![t] = q]
  BY DEF Begin
<1>3. todo' \in [Threads -> Seq(Entries)] /\ Orderly'
  BY <1>1, <1>2 DEF Orderly
<1>4. Due' = [Due EXCEPT ![t] = Elems(q)]
  BY <1>1, <1>2 DEF Due
<1>5. Due[t] = {}
  BY <1>1 DEF Due, Elems
<1> QED
  BY <1>3, <1>4, <1>5 DEF Starts

\* The thread is idle again at once.
LEMMA Begin0 ==
  ASSUME TypeOK, Orderly, NEW t \in Threads, Idle(t), Begin(t, <<>>)
  PROVE  Starts(t, {})
<1> DEFINE q == <<>>
<1>1. q \in Seq(Entries) /\ InOrder(q) /\ Elems(q) = {}
  BY DEF InOrder, Elems
<1>2. Begin(t, q)
  OBVIOUS
<1> HIDE DEF q
<1>3. Starts(t, Elems(q))
  BY <1>1, <1>2, Begins
<1> QED
  BY <1>1, <1>3

\* One entry.
LEMMA Begin1 ==
  ASSUME TypeOK, Orderly, NEW t \in Threads, Idle(t), NEW a \in Entries, Begin(t, <<a>>)
  PROVE  Starts(t, {a})
<1>1. <<a>> \in Seq(Entries) /\ InOrder(<<a>>) /\ Elems(<<a>>) = {a}
  BY Front1
<1>2. Starts(t, Elems(<<a>>))
  BY <1>1, Begins
<1> QED
  BY <1>1, <1>2

\* The call under the lock.
LEMMA Begin3 ==
  ASSUME TypeOK, Orderly, NEW t \in Threads, Idle(t),
         NEW a \in {"SendDone", "Disconnect"}, Begin(t, <<"Lock", a, "Unlock">>)
  PROVE  Starts(t, {"Lock", a, "Unlock"})
<1> DEFINE q == <<"Lock", a, "Unlock">>
<1>1. q \in Seq(Entries) /\ Len(q) = 3 /\ q[1] = "Lock" /\ q[2] = a /\ q[3] = "Unlock"
  BY DEF Entries
<1>2. 1..3 = {1, 2, 3}
  OBVIOUS
<1>3. a \in Behind("Lock") /\ "Unlock" \in Behind("Lock") /\ "Unlock" \in Behind(a)
  BY DEF Behind
<1>4. Begin(t, q)
  OBVIOUS
<1> HIDE DEF q
<1>5. InOrder(q)
  BY <1>1, <1>2, <1>3 DEF InOrder
<1>6. Elems(q) = {"Lock", a, "Unlock"}
  BY <1>1, <1>2 DEF Elems
<1> QED
  BY <1>1, <1>4, <1>5, <1>6, Begins

\* A segment of a sequence.
LEMMA Segment ==
  ASSUME NEW D, NEW x \in Seq(D), NEW m \in Int, NEW n \in Int, 1 <= m, n <= Len(x), m <= n + 1,
         NEW c, c = SubSeq(x, m, n)
  PROVE  /\ c \in Seq(D)
         /\ Len(c) = n - m + 1
         /\ \A k \in 1..Len(c) : c[k] = x[m + k - 1]
<1>1. c \in Seq(D)
  OBVIOUS
<1>2. Len(c) = n - m + 1
  <2>1. Len(c) = IF m <= n THEN n - m + 1 ELSE 0
    OBVIOUS
  <2>2. m <= n \/ n - m + 1 = 0
    OBVIOUS
  <2> QED
    BY <2>1, <2>2
<1>3. \A k \in 1..(n - m + 1) : c[k] = x[m + k - 1]
  OBVIOUS
<1> QED
  BY <1>1, <1>2, <1>3

\* What is left of q behind index i.
LEMMA Suffix ==
  ASSUME NEW q \in Seq(Entries), NEW i \in 1..Len(q), NEW p, p = SubSeq(q, i + 1, Len(q))
  PROVE  /\ p \in Seq(Entries)
         /\ Len(p) = Len(q) - i
         /\ \A k \in 1..Len(p) : p[k] = q[i + k]
<1>1. Len(q) \in Nat /\ \A k \in (i + 1)..Len(q) : q[k] \in Entries
  OBVIOUS
<1>2. /\ p \in Seq(Entries)
      /\ Len(p) = IF i + 1 <= Len(q) THEN Len(q) - (i + 1) + 1 ELSE 0
      /\ \A k \in 1..(Len(q) - (i + 1) + 1) : p[k] = q[i + 1 + k - 1]
  BY <1>1, SubSeqProperties
<1>3. \A n \in Nat : \A k \in 1..n :
        /\ (IF k + 1 <= n THEN n - (k + 1) + 1 ELSE 0) = n - k
        /\ n - (k + 1) + 1 = n - k
  OBVIOUS
<1>4. Len(p) = Len(q) - i /\ Len(q) - (i + 1) + 1 = Len(q) - i
  BY <1>1, <1>2, <1>3
<1>5. \A k \in 1..Len(p) : i + 1 + k - 1 = i + k
  BY <1>1
<1> QED
  BY <1>2, <1>4, <1>5

\* The exception of Shutdown: of the entries of t only some behind an "EndTry"
\* are left, and among them an "Unlock".
Falls(t) ==
  /\ todo' \in [Threads -> Seq(Entries)]
  /\ Orderly'
  /\ \E R \in SUBSET Behind("EndTry") :
       /\ R \subseteq Due[t]
       /\ "Unlock" \in Due[t] => "Unlock" \in R
       /\ Due' = [Due EXCEPT ![t] = R]

\* The two ways out of a Shutdown that throws.
LEMMA Thrown ==
  ASSUME TypeOK, Orderly, NEW t \in Threads, ShutdownThrows(t)
  PROVE  /\ "Shutdown" \in Due[t] /\ Due[t] \subseteq {"Shutdown"} \union Behind("Shutdown")
         /\ \/ crashed' /\ UNCHANGED <<todo, aborted>>
            \/ aborted' /\ Falls(t) /\ UNCHANGED crashed
         /\ UNCHANGED <<session, lockObj, sending, recvPending, accepted, wire, handed,
                        stranded, callbacks>>
<1> DEFINE q == todo[t]
           tries == {i \in DOMAIN q : q[i] = "EndTry"}
<1>1. todo \in [Threads -> Seq(Entries)] /\ q \in Seq(Entries) /\ InOrder(q)
  BY DEF TypeOK, Orderly
<1>2. q # <<>> /\ Head(q) = "Shutdown"
  BY DEF ShutdownThrows, At
<1>3. "Shutdown" \in Due[t] /\ Due[t] \subseteq {"Shutdown"} \union Behind("Shutdown")
  <2>1. 1 \in 1..Len(q) /\ q[1] = "Shutdown"
    BY <1>1, <1>2, HeadTailProperties
  <2>2. \A j \in 1..Len(q) : j = 1 \/ q[j] \in Behind(q[1])
    BY <1>1, <2>1 DEF InOrder
  <2>3. \A j \in 1..Len(q) : q[j] = "Shutdown" \/ q[j] \in Behind("Shutdown")
    BY <2>1, <2>2
  <2> QED
    BY <2>1, <2>3 DEF Due, Elems
<1>4. CASE tries = {}
  BY <1>3, <1>4 DEF ShutdownThrows
<1>5. CASE tries # {}
  <2>1. PICK i \in tries : /\ Begin(t, SubSeq(q, i + 1, Len(q)))
                           /\ aborted' = TRUE
                           /\ UNCHANGED crashed
    BY <1>5 DEF ShutdownThrows
  <2> DEFINE p == SubSeq(q, i + 1, Len(q))
  <2>2. i \in 1..Len(q) /\ q[i] = "EndTry" /\ Len(q) \in Nat
    BY <1>1
  <2>3. /\ p \in Seq(Entries)
        /\ Len(p) = Len(q) - i
        /\ \A k \in 1..Len(p) : p[k] = q[i + k]
    BY <1>1, <2>2, Suffix
  <2>4. todo' = [todo EXCEPT ![t] = p]
    BY <2>1 DEF Begin
  <2> HIDE DEF p, q
  <2>5. InOrder(p)
    <3>1. \A j \in 1..Len(p) : i + j \in 1..Len(q)
      BY <2>2, <2>3
    <3>2. \A j, k \in 1..Len(p) : j < k => i + j < i + k
      BY <2>2, <2>3
    <3> QED
      BY <1>1, <2>3, <3>1, <3>2 DEF InOrder
  <2>6. Elems(p) \subseteq Behind("EndTry") /\ Elems(p) \subseteq Elems(q)
    <3>1. \A j \in 1..Len(p) : i + j \in 1..Len(q) /\ i < i + j
      BY <2>2, <2>3
    <3>2. \A j \in 1..Len(p) : p[j] \in Behind("EndTry")
      BY <1>1, <2>2, <2>3, <3>1 DEF InOrder
    <3> QED
      BY <2>3, <3>1, <3>2 DEF Elems
  <2>7. ASSUME "Unlock" \in Elems(q) PROVE "Unlock" \in Elems(p)
    <3>1. PICK j \in 1..Len(q) : q[j] = "Unlock"
      BY <2>7 DEF Elems
    <3>2. j # i /\ ~(j < i)
      BY <1>1, <2>2, <3>1 DEF InOrder, Behind
    <3>3. j - i \in 1..Len(p) /\ i + (j - i) = j
      BY <2>2, <2>3, <3>2
    <3> QED
      BY <2>3, <3>1, <3>3 DEF Elems
  <2>8. todo' \in [Threads -> Seq(Entries)] /\ Orderly'
    BY <1>1, <2>3, <2>4, <2>5 DEF Orderly
  <2>9. Due' = [Due EXCEPT ![t] = Elems(p)] /\ Due[t] = Elems(q)
    BY <1>1, <2>4 DEF Due, q
  <2>10. Falls(t)
    BY <2>6, <2>7, <2>8, <2>9 DEF Falls
  <2> QED
    BY <1>3, <2>1, <2>10 DEF ShutdownThrows
<1> QED
  BY <1>4, <1>5

-----------------------------------------------------------------------------
(* The lock, the send and the end of a session, in terms of what is due      *)

\* The holder of lockObj still has to release it, and what runs under the lock has
\* the release behind it.
LockInv == \A t \in Threads :
  /\ lockObj = t <=> "Unlock" \in Due[t] /\ "Lock" \notin Due[t]
  /\ \A e \in {"RegisterSend", "SendAsync", "SendDone", "Lock"} :
       e \in Due[t] => "Unlock" \in Due[t]

\* What the actions do to the todo of their thread.
LEMMA Turn ==
  ASSUME TypeOK, Orderly, NEW t \in Threads
  PROVE  /\ RegisterConnect(t) =>
              \/ link' = "connecting" /\ UNCHANGED todo
              \/ link' = "done" /\ Starts(t, {"OnConnectCompleted"})
         /\ ConnectCompletion(t) => Starts(t, {"OnConnectCompleted"})
         /\ ProcessRecv(t) => \/ Starts(t, {})
                              \/ Starts(t, {"RegisterRecv"})
                              \/ Starts(t, {"Disconnect"})
         /\ CallSend(t) => Starts(t, {"Send"})
         /\ ProcessSend(t) => \/ Starts(t, {"Lock", "SendDone", "Unlock"})
                              \/ Starts(t, {"Lock", "Disconnect", "Unlock"})
<1>1. Entries = {"OnConnectCompleted", "AttachHandlers", "OnConnected", "RegisterRecv",
                 "Send", "Unlock", "RegisterSend", "SendAsync", "Lock", "SendDone", "Disconnect",
                 "OnDisconnected", "Shutdown", "Clear", "EndTry"}
  BY DEF Entries
<1>2. RegisterConnect(t) =>
        \/ link' = "connecting" /\ UNCHANGED todo
        \/ link' = "done" /\ Starts(t, {"OnConnectCompleted"})
  BY <1>1, Begin1 DEF RegisterConnect
<1>3. ConnectCompletion(t) => Starts(t, {"OnConnectCompleted"})
  BY <1>1, Begin1 DEF ConnectCompletion
<1>4. CallSend(t) => Starts(t, {"Send"})
  BY <1>1, Begin1 DEF CallSend
<1>5. ProcessSend(t) => \/ Starts(t, {"Lock", "SendDone", "Unlock"})
                        \/ Starts(t, {"Lock", "Disconnect", "Unlock"})
  BY <1>1, Begin3 DEF ProcessSend
<1>6. ProcessRecv(t) => \/ Starts(t, {})
                        \/ Starts(t, {"RegisterRecv"})
                        \/ Starts(t, {"Disconnect"})
  BY <1>1, Begin0, Begin1 DEF ProcessRecv, Received
<1> QED
  BY <1>2, <1>3, <1>4, <1>5, <1>6

\* The same of the actions that go on with what is due.
LEMMA TurnOn ==
  ASSUME TypeOK, Orderly, NEW t \in Threads
  PROVE  /\ OnConnectCompleted(t) =>
              \/ Advances(t, "OnConnectCompleted", {"AttachHandlers", "OnConnected"})
              \/ Advances(t, "OnConnectCompleted", {})
         /\ AttachHandlers(t) => Advances(t, "AttachHandlers", {"RegisterRecv"})
         /\ OnConnected(t) => \/ Advances(t, "OnConnected", {"Send"})
                              \/ Advances(t, "OnConnected", {})
         /\ RegisterRecv(t) => \E S \in SUBSET {"RegisterRecv", "Disconnect", "EndTry"} :
                                 Advances(t, "RegisterRecv", S)
         /\ Send(t) =>
              \/ /\ lockObj' = t /\ accepted' = accepted + 1
                 /\ sendQueue' = Append(sendQueue, accepted + 1)
                 /\ \/ bufferList = <<>> /\ Advances(t, "Send", {"RegisterSend", "Unlock"})
                    \/ bufferList # <<>> /\ Advances(t, "Send", {"Unlock"})
              \/ UNCHANGED <<lockObj, accepted, sendQueue>> /\ Advances(t, "Send", {})
         /\ Unlock(t) => Advances(t, "Unlock", {})
         /\ RegisterSend(t) => \/ disconnected /\ Advances(t, "RegisterSend", {})
                               \/ ~disconnected /\ Advances(t, "RegisterSend", {"SendAsync"})
         /\ NoSendAsync(t) => Advances(t, "SendAsync", {})
         /\ SendAsync(t) =>
              \/ sendPending' /\ handed' /\ wire' = wire \o bufferList
                 /\ Advances(t, "SendAsync", {})
              \/ UNCHANGED sendPending /\ handed' /\ wire' = wire \o bufferList
                 /\ \E S \in SUBSET {"EndTry"} :
                       Advances(t, "SendAsync", {"SendDone"} \union S)
              \/ UNCHANGED <<handed, wire, sendPending>>
                 /\ \E S \in SUBSET {"EndTry"} :
                       Advances(t, "SendAsync", {"Disconnect"} \union S)
         /\ Lock(t) => Advances(t, "Lock", {})
         /\ SendDone(t) => \/ sendQueue = <<>> /\ Advances(t, "SendDone", {})
                           \/ sendQueue # <<>> /\ Advances(t, "SendDone", {"RegisterSend"})
         /\ Disconnect(t) =>
              \/ disconnected /\ Advances(t, "Disconnect", {})
              \/ ~disconnected /\ Advances(t, "Disconnect", {"Clear"})
              \/ ~disconnected /\ Advances(t, "Disconnect", {"Shutdown"})
              \/ ~disconnected /\ Advances(t, "Disconnect", {"OnDisconnected", "Shutdown"})
         /\ OnDisconnected(t) => Advances(t, "OnDisconnected", {})
         /\ Shutdown(t) => Advances(t, "Shutdown", {"Clear"})
         /\ Clear(t) => Advances(t, "Clear", {})
         /\ EndTry(t) => Advances(t, "EndTry", {})
<1>1. Entries = {"OnConnectCompleted", "AttachHandlers", "OnConnected", "RegisterRecv",
                 "Send", "Unlock", "RegisterSend", "SendAsync", "Lock", "SendDone", "Disconnect",
                 "OnDisconnected", "Shutdown", "Clear", "EndTry"}
  BY DEF Entries
<1>2. /\ Behind("OnConnectCompleted") = {} /\ Behind("OnConnected") = {}
      /\ Behind("Send") = {} /\ Behind("Unlock") = {}
      /\ Behind("RegisterSend") = {"EndTry", "Unlock"}
      /\ Behind("SendAsync") = {"EndTry", "Unlock"}
      /\ Behind("SendDone") = {"EndTry", "Unlock"}
      /\ Behind("AttachHandlers") = {"EndTry", "OnConnected"}
      /\ Behind("RegisterRecv") = {"EndTry", "OnConnected"}
      /\ Behind("Lock") = {"SendDone", "Disconnect", "Unlock"}
      /\ Behind("OnDisconnected") = {"Shutdown", "EndTry", "Unlock", "OnConnected"}
      /\ Behind("Disconnect") = {"EndTry", "Unlock", "OnConnected"}
      /\ Behind("Shutdown") = {"EndTry", "Unlock", "OnConnected"}
      /\ Behind("Clear") = {"EndTry", "Unlock", "OnConnected"}
      /\ Behind("EndTry") = {"EndTry", "Unlock", "OnConnected"}
  BY DEF Behind
<1>3. OnConnectCompleted(t) =>
        \/ Advances(t, "OnConnectCompleted", {"AttachHandlers", "OnConnected"})
        \/ Advances(t, "OnConnectCompleted", {})
  BY <1>1, <1>2, Continue0, Continue2 DEF OnConnectCompleted
<1>4. OnConnected(t) => \/ Advances(t, "OnConnected", {"Send"})
                        \/ Advances(t, "OnConnected", {})
  <2>1. OnConnected(t) => /\ At(t, "OnConnected")
                          /\ Continue(t, <<"Send">>) \/ Continue(t, <<>>)
    BY DEF OnConnected
  <2> QED
    BY <1>1, <1>2, <2>1, Continue0, Continue1
<1>5. RegisterRecv(t) => \E S \in SUBSET {"RegisterRecv", "Disconnect", "EndTry"} :
                           Advances(t, "RegisterRecv", S)
  <2> SUFFICES ASSUME RegisterRecv(t)
               PROVE  \E S \in SUBSET {"RegisterRecv", "Disconnect", "EndTry"} :
                        Advances(t, "RegisterRecv", S)
    OBVIOUS
  <2>1. /\ At(t, "RegisterRecv")
        /\ \/ Continue(t, <<>>)
           \/ ContinueInTry(t, <<"RegisterRecv">>)
           \/ ContinueInTry(t, <<>>)
           \/ ContinueInTry(t, <<"Disconnect">>)
    BY DEF RegisterRecv, Received
  <2>2. CASE Continue(t, <<>>)
    BY <2>1, <2>2, Continue0
  <2>3. CASE ContinueInTry(t, <<"RegisterRecv">>)
    <3>1. \/ Advances(t, "RegisterRecv", {"RegisterRecv"})
          \/ Advances(t, "RegisterRecv", {"RegisterRecv", "EndTry"})
      BY <1>1, <1>2, <2>1, <2>3, ContinueInTry1
    <3> QED
      BY <3>1
  <2>4. CASE ContinueInTry(t, <<>>)
    <3>1. Advances(t, "RegisterRecv", {}) \/ Advances(t, "RegisterRecv", {"EndTry"})
      BY <1>1, <1>2, <2>1, <2>4, ContinueInTry0
    <3> QED
      BY <3>1
  <2>5. CASE ContinueInTry(t, <<"Disconnect">>)
    <3>1. \/ Advances(t, "RegisterRecv", {"Disconnect"})
          \/ Advances(t, "RegisterRecv", {"Disconnect", "EndTry"})
      BY <1>1, <1>2, <2>1, <2>5, ContinueInTry1
    <3> QED
      BY <3>1
  <2> QED
    BY <2>1, <2>2, <2>3, <2>4, <2>5
<1>6. Send(t) =>
        \/ /\ lockObj' = t /\ accepted' = accepted + 1
           /\ sendQueue' = Append(sendQueue, accepted + 1)
           /\ \/ bufferList = <<>> /\ Advances(t, "Send", {"RegisterSend", "Unlock"})
              \/ bufferList # <<>> /\ Advances(t, "Send", {"Unlock"})
        \/ UNCHANGED <<lockObj, accepted, sendQueue>> /\ Advances(t, "Send", {})
  <2>1. Send(t) =>
          /\ At(t, "Send")
          /\ \/ /\ lockObj' = t /\ accepted' = accepted + 1
                /\ sendQueue' = Append(sendQueue, accepted + 1)
                /\ \/ bufferList = <<>> /\ Continue(t, <<"RegisterSend", "Unlock">>)
                   \/ bufferList # <<>> /\ Continue(t, <<"Unlock">>)
             \/ UNCHANGED <<lockObj, accepted, sendQueue>> /\ Continue(t, <<>>)
    BY DEF Send
  <2> QED
    BY <1>1, <1>2, <2>1, Continue0, Continue1, Continue2
<1>7. Unlock(t) => Advances(t, "Unlock", {})
  BY Continue0 DEF Unlock
<1>8. RegisterSend(t) => \/ disconnected /\ Advances(t, "RegisterSend", {})
                         \/ ~disconnected /\ Advances(t, "RegisterSend", {"SendAsync"})
  BY <1>1, <1>2, Continue0, Continue1 DEF RegisterSend
<1>9. NoSendAsync(t) => Advances(t, "SendAsync", {})
  BY Continue0 DEF NoSendAsync
<1>10. SendAsync(t) =>
         \/ sendPending' /\ handed' /\ wire' = wire \o bufferList
            /\ Advances(t, "SendAsync", {})
         \/ UNCHANGED sendPending /\ handed' /\ wire' = wire \o bufferList
            /\ \E S \in SUBSET {"EndTry"} : Advances(t, "SendAsync", {"SendDone"} \union S)
         \/ UNCHANGED <<handed, wire, sendPending>>
            /\ \E S \in SUBSET {"EndTry"} : Advances(t, "SendAsync", {"Disconnect"} \union S)
  <2> SUFFICES ASSUME SendAsync(t)
               PROVE  \/ sendPending' /\ handed' /\ wire' = wire \o bufferList
                         /\ Advances(t, "SendAsync", {})
                      \/ UNCHANGED sendPending /\ handed' /\ wire' = wire \o bufferList
                         /\ \E S \in SUBSET {"EndTry"} :
                               Advances(t, "SendAsync", {"SendDone"} \union S)
                      \/ UNCHANGED <<handed, wire, sendPending>>
                         /\ \E S \in SUBSET {"EndTry"} :
                               Advances(t, "SendAsync", {"Disconnect"} \union S)
    OBVIOUS
  <2>1. At(t, "SendAsync")
    BY DEF SendAsync
  <2>2. ASSUME NEW a \in {"SendDone", "Disconnect"}, ContinueInTry(t, <<a>>)
        PROVE  \E S \in SUBSET {"EndTry"} : Advances(t, "SendAsync", {a} \union S)
    <3>1. Advances(t, "SendAsync", {a}) \/ Advances(t, "SendAsync", {a, "EndTry"})
      BY <1>1, <1>2, <2>1, <2>2, ContinueInTry1
    <3>2. {a} = {a} \union {} /\ {a, "EndTry"} = {a} \union {"EndTry"}
      OBVIOUS
    <3> QED
      BY <3>1, <3>2
  <2>3. Continue(t, <<>>) => Advances(t, "SendAsync", {})
    BY <2>1, Continue0
  <2> QED
    BY <2>2, <2>3 DEF SendAsync
<1>11. Lock(t) => Advances(t, "Lock", {})
  BY Continue0 DEF Lock
<1>12. SendDone(t) => \/ sendQueue = <<>> /\ Advances(t, "SendDone", {})
                      \/ sendQueue # <<>> /\ Advances(t, "SendDone", {"RegisterSend"})
  BY <1>1, <1>2, Continue0, Continue1 DEF SendDone
<1>13. Disconnect(t) =>
         \/ disconnected /\ Advances(t, "Disconnect", {})
         \/ ~disconnected /\ Advances(t, "Disconnect", {"Clear"})
         \/ ~disconnected /\ Advances(t, "Disconnect", {"Shutdown"})
         \/ ~disconnected /\ Advances(t, "Disconnect", {"OnDisconnected", "Shutdown"})
  <2>1. Disconnect(t) =>
          /\ At(t, "Disconnect")
          /\ \/ disconnected /\ Continue(t, <<>>)
             \/ ~disconnected /\ Continue(t, <<"Clear">>)
             \/ ~disconnected /\ Continue(t, <<"Shutdown">>)
             \/ ~disconnected /\ Continue(t, <<"OnDisconnected", "Shutdown">>)
    BY DEF Disconnect
  <2> QED
    BY <1>1, <1>2, <2>1, Continue0, Continue1, Continue2
<1>14. OnDisconnected(t) => Advances(t, "OnDisconnected", {})
  BY Continue0 DEF OnDisconnected
<1>15. Shutdown(t) => Advances(t, "Shutdown", {"Clear"})
  BY <1>1, <1>2, Continue1 DEF Shutdown
<1>16. Clear(t) => Advances(t, "Clear", {})
  BY Continue0 DEF Clear
<1>17. EndTry(t) => Advances(t, "EndTry", {})
  BY Continue0 DEF EndTry
<1>18. AttachHandlers(t) => Advances(t, "AttachHandlers", {"RegisterRecv"})
  BY <1>1, <1>2, Continue1 DEF AttachHandlers
<1> QED
  BY <1>3, <1>4, <1>5, <1>6, <1>7, <1>8, <1>9, <1>10, <1>11, <1>12, <1>13, <1>14, <1>15,
     <1>16, <1>17, <1>18

\* The effect on what is due, thread by thread.
LEMMA Advanced ==
  ASSUME TypeOK, NEW t \in Threads, NEW e, NEW S, Advances(t, e, S)
  PROVE  /\ \A u \in Threads \ {t} : Due'[u] = Due[u]
         /\ e \in Due[t] /\ Due[t] \subseteq {e} \union Behind(e)
         /\ \A x : x # e => (x \in Due'[t] <=> x \in S \/ x \in Due[t])
         /\ e \in Due'[t] => e \in S \/ e \in Behind(e)
<1>1. DOMAIN Due = Threads
  BY DEF Due
<1> QED
  BY <1>1 DEF Advances

\* The same for a thread that was idle.
LEMMA Started ==
  ASSUME TypeOK, NEW t \in Threads, NEW S, Starts(t, S)
  PROVE  /\ \A u \in Threads \ {t} : Due'[u] = Due[u]
         /\ Due[t] = {} /\ Due'[t] = S
<1>1. DOMAIN Due = Threads
  BY DEF Due
<1> QED
  BY <1>1 DEF Starts

\* The same for the exception of Shutdown.
LEMMA Fallen ==
  ASSUME TypeOK, NEW t \in Threads, Falls(t)
  PROVE  /\ \A u \in Threads \ {t} : Due'[u] = Due[u]
         /\ Due'[t] \subseteq Due[t] /\ Due'[t] \subseteq Behind("EndTry")
         /\ "Unlock" \in Due[t] => "Unlock" \in Due'[t]
<1>1. DOMAIN Due = Threads
  BY DEF Due
<1> QED
  BY <1>1 DEF Falls

\* Behind, entry by entry.
LEMMA Behinds ==
  /\ Behind("OnConnectCompleted") = {} /\ Behind("OnConnected") = {}
  /\ Behind("Send") = {} /\ Behind("Unlock") = {}
  /\ Behind("RegisterSend") = {"EndTry", "Unlock"}
  /\ Behind("SendAsync") = {"EndTry", "Unlock"}
  /\ Behind("SendDone") = {"EndTry", "Unlock"}
  /\ Behind("AttachHandlers") = {"EndTry", "OnConnected"}
  /\ Behind("RegisterRecv") = {"EndTry", "OnConnected"}
  /\ Behind("Lock") = {"SendDone", "Disconnect", "Unlock"}
  /\ Behind("OnDisconnected") = {"Shutdown", "EndTry", "Unlock", "OnConnected"}
  /\ Behind("Disconnect") = {"EndTry", "Unlock", "OnConnected"}
  /\ Behind("Shutdown") = {"EndTry", "Unlock", "OnConnected"}
  /\ Behind("Clear") = {"EndTry", "Unlock", "OnConnected"}
  /\ Behind("EndTry") = {"EndTry", "Unlock", "OnConnected"}
BY DEF Behind

\* lockObj is held by the thread that has an "Unlock" before it and is past "Lock".
LEMMA LockStep ==
  ASSUME TypeOK, Orderly, LockInv, NEW t \in Threads, Step(t)
  PROVE  LockInv'
<1> USE DEF LockInv
<1>0. NoThread \notin Threads
  BY ThreadsAssumption
<1>1. CASE OnConnectCompleted(t)
  BY <1>1, TurnOn, Advanced, Behinds DEF OnConnectCompleted
<1>2. CASE OnConnected(t)
  BY <1>2, TurnOn, Advanced, Behinds DEF OnConnected
<1>3. CASE RegisterRecv(t)
  <2>1. PICK S \in SUBSET {"RegisterRecv", "Disconnect", "EndTry"} :
          Advances(t, "RegisterRecv", S)
    BY <1>3, TurnOn
  <2>2. UNCHANGED lockObj
    BY <1>3 DEF RegisterRecv
  <2> QED
    BY <2>1, <2>2, Advanced, Behinds
<1>4. CASE Send(t)
  BY <1>0, <1>4, TurnOn, Advanced, Behinds DEF Send
<1>5. CASE Unlock(t)
  BY <1>0, <1>5, TurnOn, Advanced, Behinds DEF Unlock
<1>6. CASE RegisterSend(t)
  BY <1>6, TurnOn, Advanced, Behinds DEF RegisterSend
<1>7. CASE NoSendAsync(t)
  BY <1>7, TurnOn, Advanced, Behinds DEF NoSendAsync
<1>8. CASE SendAsync(t)
  <2>1. PICK S \in SUBSET {"SendDone", "Disconnect", "EndTry"} : Advances(t, "SendAsync", S)
    BY <1>8, TurnOn
  <2>2. UNCHANGED lockObj
    BY <1>8 DEF SendAsync
  <2> QED
    BY <2>1, <2>2, Advanced, Behinds
<1>9. CASE Lock(t)
  BY <1>0, <1>9, TurnOn, Advanced, Behinds DEF Lock
<1>10. CASE SendDone(t)
  <2>1. PICK S \in SUBSET {"RegisterSend"} : Advances(t, "SendDone", S)
    BY <1>10, TurnOn
  <2>2. UNCHANGED lockObj
    BY <1>10 DEF SendDone
  <2> QED
    BY <2>1, <2>2, Advanced, Behinds
<1>11. CASE Disconnect(t)
  BY <1>11, TurnOn, Advanced, Behinds DEF Disconnect
<1>12. CASE OnDisconnected(t)
  BY <1>12, TurnOn, Advanced, Behinds DEF OnDisconnected
<1>13. CASE Shutdown(t)
  BY <1>13, TurnOn, Advanced, Behinds DEF Shutdown
<1>14. CASE ShutdownThrows(t)
  <2>1. /\ UNCHANGED lockObj /\ (UNCHANGED todo \/ Falls(t))
        /\ Due[t] \subseteq {"Shutdown"} \union Behind("Shutdown")
    BY <1>14, Thrown
  <2>2. CASE UNCHANGED todo
    <3>1. UNCHANGED Due
      BY <2>2 DEF Due
    <3> QED
      BY <2>1, <3>1
  <2>3. CASE Falls(t)
    BY <2>1, <2>3, Fallen, Behinds
  <2> QED
    BY <2>1, <2>2, <2>3
<1>15. CASE Clear(t)
  <2>1. UNCHANGED lockObj /\ Advances(t, "Clear", {})
    BY <1>15, TurnOn DEF Clear
  <2> QED
    BY <2>1, Advanced, Behinds
<1>16. CASE EndTry(t)
  BY <1>16, TurnOn, Advanced, Behinds DEF EndTry
<1>17. CASE AttachHandlers(t)
  <2>1. PICK S \in SUBSET {"RegisterRecv"} : Advances(t, "AttachHandlers", S)
    BY <1>17, TurnOn
  <2>2. UNCHANGED lockObj
    BY <1>17 DEF AttachHandlers
  <2> QED
    BY <2>1, <2>2, Advanced, Behinds
<1> QED
  BY <1>1, <1>2, <1>3, <1>4, <1>5, <1>6, <1>7, <1>8, <1>9, <1>10, <1>11, <1>12, <1>13,
     <1>14, <1>15, <1>16, <1>17 DEF Step

\* What waits behind "Lock" is what ProcessSend put there.
LEMMA LockFirst ==
  ASSUME TypeOK, Orderly, NEW t \in Threads, "Lock" \in Due[t]
  PROVE  Due[t] \subseteq {"Lock", "SendDone", "Disconnect", "Unlock"}
<1>1. todo[t] \in Seq(Entries) /\ InOrder(todo[t])
  BY DEF TypeOK, Orderly
<1>2. PICK k \in 1..Len(todo[t]) : todo[t][k] = "Lock"
  BY DEF Due, Elems
<1>3. SUFFICES ASSUME NEW i \in 1..Len(todo[t])
               PROVE  todo[t][i] \in {"Lock", "SendDone", "Disconnect", "Unlock"}
  BY DEF Due, Elems
<1>4. Len(todo[t]) \in Nat
  BY <1>1
<1>5. \A e : "Lock" \notin Behind(e)
  BY DEF Behind
<1>6. ~(i < k)
  BY <1>1, <1>2, <1>5 DEF InOrder
<1>7. CASE i = k
  BY <1>2, <1>7
<1>8. CASE k < i
  BY <1>1, <1>2, <1>8, Behinds DEF InOrder
<1> QED
  BY <1>4, <1>6, <1>7, <1>8

\* Whoever is about to send holds the lock, or waits for it to finish a send.
LEMMA Holders ==
  ASSUME TypeOK, Orderly, LockInv, NEW t \in Threads
  PROVE  /\ "RegisterSend" \in Due[t] => lockObj = t
         /\ "SendAsync" \in Due[t] => lockObj = t
         /\ "SendDone" \in Due[t] => lockObj = t \/ "Lock" \in Due[t]
         /\ lockObj = t => "Lock" \notin Due[t]
<1>1. "Lock" \in Due[t] => "RegisterSend" \notin Due[t] /\ "SendAsync" \notin Due[t]
  BY LockFirst
<1> QED
  BY <1>1 DEF LockInv

\* Thread t is about to hand a batch to the socket, or to finish a send.
Sends(t) == "SendAsync" \in Due[t] \/ "SendDone" \in Due[t]

\* There is one send at a time, from the RegisterSend that finds the session
\* connected to the SendDone, and as long as bufferList is not empty.
SendInv ==
  /\ \A t, u \in Threads : Sends(t) /\ Sends(u) => t = u
  /\ \A t \in Threads : Sends(t) => ~sendPending /\ (~disconnected => bufferList # <<>>)
  /\ \A t \in Threads : "RegisterSend" \in Due[t] =>
       /\ sendQueue # <<>>
       /\ ~disconnected => /\ ~sendPending /\ bufferList = <<>>
                           /\ \A u \in Threads : ~Sends(u)
  /\ \A t \in Threads : "SendAsync" \in Due[t] => bufferList # <<>> /\ ~handed
  /\ sendPending => handed \/ disconnected
  /\ \A t \in Threads : "SendDone" \in Due[t] => handed \/ disconnected
  /\ bufferList = <<>> => ~handed
  /\ sendPending /\ ~disconnected => bufferList # <<>>

CloseEntries == {"OnDisconnected", "Shutdown", "Clear"}

\* Thread t is inside the part of Disconnect that only one may enter.
Closes(t) == \E e \in CloseEntries : e \in Due[t]

\* One thread at a time is there, and the flag it exchanged is set.
CloseInv ==
  /\ \A t, u \in Threads : Closes(t) /\ Closes(u) => t = u
  /\ \A t \in Threads : Closes(t) => disconnected

\* Only the thread whose Disconnect finds the flag clear closes the session.
LEMMA CloseStep ==
  ASSUME TypeOK, Orderly, CloseInv, NEW t \in Threads, Step(t)
  PROVE  CloseInv'
<1> USE DEF CloseInv, Closes, CloseEntries
<1>1. CASE OnConnectCompleted(t)
  <2>1. PICK S \in SUBSET {"AttachHandlers", "OnConnected"} : Advances(t, "OnConnectCompleted", S)
    BY <1>1, TurnOn
  <2>2. UNCHANGED <<disconnected>>
    BY <1>1 DEF OnConnectCompleted, session, sending, history
  <2> QED
    BY <2>1, <2>2, Advanced, Behinds
<1>2. CASE OnConnected(t)
  <2>1. PICK S \in SUBSET {"Send"} : Advances(t, "OnConnected", S)
    BY <1>2, TurnOn
  <2>2. UNCHANGED <<disconnected>>
    BY <1>2 DEF OnConnected, session, sending, history
  <2> QED
    BY <2>1, <2>2, Advanced, Behinds
<1>3. CASE RegisterRecv(t)
  <2>1. PICK S \in SUBSET {"RegisterRecv", "Disconnect", "EndTry"} :
          Advances(t, "RegisterRecv", S)
    BY <1>3, TurnOn
  <2>2. UNCHANGED <<disconnected>>
    BY <1>3 DEF RegisterRecv, session, sending, history
  <2> QED
    BY <2>1, <2>2, Advanced, Behinds
<1>4. CASE Send(t)
  <2>1. PICK S \in SUBSET {"RegisterSend", "Unlock"} : Advances(t, "Send", S)
    BY <1>4, TurnOn
  <2>2. UNCHANGED <<disconnected>>
    BY <1>4 DEF Send, session, sending, history
  <2> QED
    BY <2>1, <2>2, Advanced, Behinds
<1>5. CASE Unlock(t)
  <2>1. Advances(t, "Unlock", {})
    BY <1>5, TurnOn
  <2>2. UNCHANGED <<disconnected>>
    BY <1>5 DEF Unlock, session, sending, history
  <2> QED
    BY <2>1, <2>2, Advanced, Behinds
<1>6. CASE RegisterSend(t)
  <2>1. PICK S \in SUBSET {"SendAsync"} : Advances(t, "RegisterSend", S)
    BY <1>6, TurnOn
  <2>2. UNCHANGED <<disconnected>>
    BY <1>6 DEF RegisterSend, session, sending, history
  <2> QED
    BY <2>1, <2>2, Advanced, Behinds
<1>7. CASE NoSendAsync(t)
  <2>1. Advances(t, "SendAsync", {})
    BY <1>7, TurnOn
  <2>2. UNCHANGED <<disconnected>>
    BY <1>7 DEF NoSendAsync, session, sending, history
  <2> QED
    BY <2>1, <2>2, Advanced, Behinds
<1>8. CASE SendAsync(t)
  <2>1. PICK S \in SUBSET {"SendDone", "Disconnect", "EndTry"} : Advances(t, "SendAsync", S)
    BY <1>8, TurnOn
  <2>2. UNCHANGED <<disconnected>>
    BY <1>8 DEF SendAsync, session, sending, history
  <2> QED
    BY <2>1, <2>2, Advanced, Behinds
<1>9. CASE Lock(t)
  <2>1. Advances(t, "Lock", {})
    BY <1>9, TurnOn
  <2>2. UNCHANGED <<disconnected>>
    BY <1>9 DEF Lock, session, sending, history
  <2> QED
    BY <2>1, <2>2, Advanced, Behinds
<1>10. CASE SendDone(t)
  <2>1. PICK S \in SUBSET {"RegisterSend"} : Advances(t, "SendDone", S)
    BY <1>10, TurnOn
  <2>2. UNCHANGED <<disconnected>>
    BY <1>10 DEF SendDone, session, sending, history
  <2> QED
    BY <2>1, <2>2, Advanced, Behinds
<1>11. CASE Disconnect(t)
  <2>1. /\ disconnected'
        /\ \/ disconnected /\ Advances(t, "Disconnect", {})
           \/ ~disconnected /\ \E S \in SUBSET CloseEntries : Advances(t, "Disconnect", S)
    BY <1>11, TurnOn DEF Disconnect, CloseEntries
  <2> QED
    BY <2>1, Advanced, Behinds
<1>12. CASE OnDisconnected(t)
  <2>1. Advances(t, "OnDisconnected", {})
    BY <1>12, TurnOn
  <2>2. UNCHANGED <<disconnected>>
    BY <1>12 DEF OnDisconnected, session, sending, history
  <2> QED
    BY <2>1, <2>2, Advanced, Behinds
<1>13. CASE Shutdown(t)
  <2>1. Advances(t, "Shutdown", {"Clear"})
    BY <1>13, TurnOn
  <2>2. UNCHANGED <<disconnected>>
    BY <1>13 DEF Shutdown, session, sending, history
  <2> QED
    BY <2>1, <2>2, Advanced, Behinds
<1>14. CASE ShutdownThrows(t)
  <2>1. UNCHANGED disconnected /\ (UNCHANGED todo \/ Falls(t))
    BY <1>14, Thrown DEF session
  <2>2. \A u \in Threads : Due'[u] \subseteq Due[u]
    <3>1. UNCHANGED todo => UNCHANGED Due
      BY DEF Due
    <3> QED
      BY <2>1, <3>1, Fallen
  <2> QED
    BY <2>1, <2>2
<1>15. CASE Clear(t)
  <2>1. Advances(t, "Clear", {})
    BY <1>15, TurnOn
  <2>2. UNCHANGED <<disconnected>>
    BY <1>15 DEF Clear, session, sending, history
  <2> QED
    BY <2>1, <2>2, Advanced, Behinds
<1>16. CASE EndTry(t)
  <2>1. Advances(t, "EndTry", {})
    BY <1>16, TurnOn
  <2>2. UNCHANGED <<disconnected>>
    BY <1>16 DEF EndTry, session, sending, history
  <2> QED
    BY <2>1, <2>2, Advanced, Behinds
<1>17. CASE AttachHandlers(t)
  <2>1. PICK S \in SUBSET {"RegisterRecv"} : Advances(t, "AttachHandlers", S)
    BY <1>17, TurnOn
  <2>2. UNCHANGED <<disconnected>>
    BY <1>17 DEF AttachHandlers, session, sending, history
  <2> QED
    BY <2>1, <2>2, Advanced, Behinds
<1> QED
  BY <1>1, <1>2, <1>3, <1>4, <1>5, <1>6, <1>7, <1>8, <1>9, <1>10, <1>11, <1>12, <1>13,
     <1>14, <1>15, <1>16, <1>17 DEF Step

\* The lock and bufferList keep the sends apart, whatever Disconnect does meanwhile.
LEMMA SendStep ==
  ASSUME TypeOK, Orderly, LockInv, CloseInv, SendInv, NEW t \in Threads, Step(t)
  PROVE  SendInv'
<1> USE DEF SendInv, Sends
<1>1. CASE OnConnectCompleted(t)
  <2>1. PICK S \in SUBSET {"AttachHandlers", "OnConnected"} : Advances(t, "OnConnectCompleted", S)
    BY <1>1, TurnOn
  <2>2. UNCHANGED <<sendQueue, bufferList, sendPending, handed, disconnected>>
    BY <1>1 DEF OnConnectCompleted, session, sending, history
  <2> QED
    BY <2>1, <2>2, Advanced, Behinds
<1>2. CASE OnConnected(t)
  <2>1. PICK S \in SUBSET {"Send"} : Advances(t, "OnConnected", S)
    BY <1>2, TurnOn
  <2>2. UNCHANGED <<sendQueue, bufferList, sendPending, handed, disconnected>>
    BY <1>2 DEF OnConnected, session, sending, history
  <2> QED
    BY <2>1, <2>2, Advanced, Behinds
<1>3. CASE RegisterRecv(t)
  <2>1. PICK S \in SUBSET {"RegisterRecv", "Disconnect", "EndTry"} :
          Advances(t, "RegisterRecv", S)
    BY <1>3, TurnOn
  <2>2. UNCHANGED <<sendQueue, bufferList, sendPending, handed, disconnected>>
    BY <1>3 DEF RegisterRecv, session, sending, history
  <2> QED
    BY <2>1, <2>2, Advanced, Behinds
<1>4. CASE Send(t)
  <2>1. UNCHANGED <<bufferList, sendPending, handed, disconnected>>
    BY <1>4 DEF Send, session
  <2>2. \A u \in Threads : Sends(u)' <=> Sends(u)
    <3>1. PICK S \in SUBSET {"RegisterSend", "Unlock"} : Advances(t, "Send", S)
      BY <1>4, TurnOn
    <3> QED
      BY <3>1, Advanced, Behinds
  <2>3. CASE /\ sendQueue' = Append(sendQueue, accepted + 1)
             /\ bufferList = <<>> /\ Advances(t, "Send", {"RegisterSend", "Unlock"})
    <3>1. sendQueue' # <<>>
      <4>1. sendQueue \in Seq(1..accepted)
        BY DEF TypeOK
      <4>2. Len(Append(sendQueue, accepted + 1)) = Len(sendQueue) + 1
        BY <4>1
      <4> QED
        BY <2>3, <4>1, <4>2
    <3>2. \A u \in Threads :
            /\ "SendAsync" \in Due'[u] => "SendAsync" \in Due[u]
            /\ "SendDone" \in Due'[u] => "SendDone" \in Due[u]
      BY <2>3, Advanced, Behinds
    <3>3. ~disconnected => ~sendPending /\ \A u \in Threads : ~Sends(u)
      BY <2>3
    <3> HIDE DEF Sends
    <3>4. \A u \in Threads : ~disconnected => ~Sends(u)'
      BY <2>2, <3>3
    <3> USE DEF Sends
    <3> QED
      BY <2>1, <2>3, <3>1, <3>2, <3>3, <3>4
  <2>4. CASE Advances(t, "Send", {}) \/ Advances(t, "Send", {"Unlock"})
    <3>1. sendQueue' # <<>> \/ UNCHANGED sendQueue
      BY <1>4 DEF Send, TypeOK
    <3>2. \A u \in Threads :
            /\ "RegisterSend" \in Due'[u] => "RegisterSend" \in Due[u]
            /\ "SendAsync" \in Due'[u] => "SendAsync" \in Due[u]
            /\ "SendDone" \in Due'[u] => "SendDone" \in Due[u]
      BY <2>4, Advanced, Behinds
    <3> QED
      BY <2>1, <2>2, <3>1, <3>2
  <2> QED
    BY <1>4, <2>3, <2>4, TurnOn
<1>5. CASE Unlock(t)
  <2>1. Advances(t, "Unlock", {})
    BY <1>5, TurnOn
  <2>2. UNCHANGED <<sendQueue, bufferList, sendPending, handed, disconnected>>
    BY <1>5 DEF Unlock, session, sending, history
  <2> QED
    BY <2>1, <2>2, Advanced, Behinds
<1>6. CASE RegisterSend(t)
  <2>1. CASE disconnected /\ Advances(t, "RegisterSend", {})
    <3>1. UNCHANGED <<sendQueue, bufferList, sendPending, handed, disconnected>>
      BY <1>6, <2>1 DEF RegisterSend, session, history
    <3> QED
      BY <2>1, <3>1, Advanced, Behinds
  <2>2. CASE ~disconnected /\ Advances(t, "RegisterSend", {"SendAsync"})
    <3>1. /\ sendQueue' = <<>> /\ bufferList' = bufferList \o sendQueue
          /\ UNCHANGED <<sendPending, handed, disconnected>>
      BY <1>6, <2>2 DEF RegisterSend, session, history
    <3>2. "RegisterSend" \in Due[t]
      BY <2>2, Advanced
    <3>3. ~sendPending /\ ~handed /\ \A u \in Threads : ~Sends(u)
      BY <2>2, <3>2
    <3>4. bufferList' # <<>>
      <4>1. sendQueue # <<>> /\ bufferList = <<>>
        BY <2>2, <3>2
      <4> QED
        BY <3>1, <4>1 DEF TypeOK
    <3>5. \A u \in Threads : "RegisterSend" \in Due[u] => u = t
      BY <3>2, Holders
    <3>6. \A u \in Threads \ {t} : Due'[u] = Due[u]
      BY <2>2, Advanced
    <3>7. "RegisterSend" \notin Due'[t] /\ "SendDone" \notin Due'[t]
      BY <2>2, <3>3, Advanced, Behinds
    <3>8. \A u \in Threads :
            /\ "RegisterSend" \notin Due'[u] /\ "SendDone" \notin Due'[u]
            /\ "SendAsync" \in Due'[u] => u = t
      BY <3>3, <3>5, <3>6, <3>7
    <3>9. ~sendPending' /\ ~handed' /\ ~disconnected'
      BY <2>2, <3>1, <3>3
    <3> QED
      BY <3>4, <3>8, <3>9
  <2> QED
    BY <1>6, <2>1, <2>2, TurnOn
<1>7. CASE NoSendAsync(t)
  <2>1. Advances(t, "SendAsync", {})
    BY <1>7, TurnOn
  <2>2. UNCHANGED <<sendQueue, bufferList, sendPending, handed, disconnected>>
    BY <1>7 DEF NoSendAsync, session, sending
  <2> QED
    BY <2>1, <2>2, Advanced, Behinds
<1>8. CASE SendAsync(t)
  <2>1. /\ UNCHANGED <<sendQueue, bufferList, disconnected>>
        /\ \/ sendPending' /\ handed' /\ Advances(t, "SendAsync", {})
           \/ /\ UNCHANGED sendPending /\ handed'
              /\ \E S \in SUBSET {"SendDone", "EndTry"} : Advances(t, "SendAsync", S)
           \/ /\ UNCHANGED <<sendPending, handed>>
              /\ \E S \in SUBSET {"Disconnect", "EndTry"} : Advances(t, "SendAsync", S)
    <3>1. UNCHANGED <<sendQueue, bufferList, disconnected>>
      BY <1>8 DEF SendAsync, session
    <3> QED
      BY <1>8, <3>1, TurnOn
  <2>2. "SendAsync" \in Due[t]
    BY <2>1, Advanced
  <2>3. /\ bufferList # <<>> /\ ~handed /\ ~sendPending
        /\ \A u \in Threads : Sends(u) => u = t
    BY <2>2
  <2>4. \A u \in Threads : "RegisterSend" \in Due[u] => disconnected
    BY <2>2
  <2>5. CASE sendPending' /\ handed' /\ Advances(t, "SendAsync", {})
    BY <2>1, <2>3, <2>4, <2>5, Advanced, Behinds
  <2>6. ASSUME UNCHANGED sendPending, handed',
               NEW S \in SUBSET {"SendDone", "EndTry"}, Advances(t, "SendAsync", S)
        PROVE  SendInv'
    BY <2>1, <2>3, <2>4, <2>6, Advanced, Behinds
  <2>7. ASSUME UNCHANGED <<sendPending, handed>>,
               NEW S \in SUBSET {"Disconnect", "EndTry"}, Advances(t, "SendAsync", S)
        PROVE  SendInv'
    BY <2>1, <2>3, <2>4, <2>7, Advanced, Behinds
  <2> QED
    BY <2>1, <2>5, <2>6, <2>7
<1>9. CASE Lock(t)
  <2>1. Advances(t, "Lock", {})
    BY <1>9, TurnOn
  <2>2. UNCHANGED <<sendQueue, bufferList, sendPending, handed, disconnected>>
    BY <1>9 DEF Lock, session, sending, history
  <2> QED
    BY <2>1, <2>2, Advanced, Behinds
<1>10. CASE SendDone(t)
  <2>1. /\ bufferList' = <<>> /\ ~handed'
        /\ UNCHANGED <<sendQueue, sendPending, disconnected>>
        /\ \/ Advances(t, "SendDone", {})
           \/ sendQueue # <<>> /\ Advances(t, "SendDone", {"RegisterSend"})
    <3>1. /\ bufferList' = <<>> /\ ~handed'
          /\ UNCHANGED <<sendQueue, sendPending, disconnected>>
      BY <1>10 DEF SendDone, session
    <3> QED
      BY <1>10, <3>1, TurnOn
  <2>2. "SendDone" \in Due[t] /\ "Lock" \notin Due[t] /\ "SendAsync" \notin Due[t]
    BY <2>1, Advanced, Behinds
  <2>3. ~sendPending /\ \A u \in Threads : Sends(u) => u = t
    BY <2>2
  <2>4. \A u \in Threads \ {t} : "RegisterSend" \notin Due[u]
    BY <2>2, Holders
  <2>5. \A u \in Threads \ {t} : Due'[u] = Due[u]
    BY <2>1, Advanced
  <2>6. "SendAsync" \notin Due'[t] /\ "SendDone" \notin Due'[t]
    BY <2>1, <2>2, Advanced, Behinds
  <2>7. "RegisterSend" \in Due'[t] => sendQueue # <<>>
    BY <2>1, Advanced, Behinds
  <2> QED
    BY <2>1, <2>3, <2>4, <2>5, <2>6, <2>7
<1>11. CASE Disconnect(t)
  <2>1. PICK S \in SUBSET CloseEntries : Advances(t, "Disconnect", S)
    BY <1>11, TurnOn DEF CloseEntries
  <2>2. disconnected' /\ UNCHANGED <<sendQueue, bufferList, sendPending, handed>>
    BY <1>11 DEF Disconnect, sending, history
  <2> QED
    BY <2>1, <2>2, Advanced, Behinds DEF CloseEntries
<1>12. CASE OnDisconnected(t)
  <2>1. Advances(t, "OnDisconnected", {})
    BY <1>12, TurnOn
  <2>2. UNCHANGED <<sendQueue, bufferList, sendPending, handed, disconnected>>
    BY <1>12 DEF OnDisconnected, session, sending, history
  <2> QED
    BY <2>1, <2>2, Advanced, Behinds
<1>13. CASE Shutdown(t)
  <2>1. Advances(t, "Shutdown", {"Clear"})
    BY <1>13, TurnOn
  <2>2. UNCHANGED <<sendQueue, bufferList, sendPending, handed, disconnected>>
    BY <1>13 DEF Shutdown, session, sending, history
  <2> QED
    BY <2>1, <2>2, Advanced, Behinds
<1>14. CASE ShutdownThrows(t)
  <2>1. /\ UNCHANGED <<sendQueue, bufferList, sendPending, handed, disconnected>>
        /\ UNCHANGED todo \/ Falls(t)
    BY <1>14, Thrown DEF session, sending
  <2>2. \A u \in Threads : Due'[u] \subseteq Due[u]
    <3>1. UNCHANGED todo => UNCHANGED Due
      BY DEF Due
    <3> QED
      BY <2>1, <3>1, Fallen
  <2> QED
    BY <2>1, <2>2
<1>15. CASE Clear(t)
  <2>1. /\ lockObj \in {NoThread, t} /\ sendQueue' = <<>> /\ bufferList' = <<>> /\ ~handed'
        /\ UNCHANGED <<sendPending, disconnected>>
        /\ Advances(t, "Clear", {})
    <3>1. /\ lockObj \in {NoThread, t} /\ sendQueue' = <<>> /\ bufferList' = <<>> /\ ~handed'
          /\ UNCHANGED <<sendPending, disconnected>>
      BY <1>15 DEF Clear, session
    <3> QED
      BY <1>15, <3>1, TurnOn
  <2>2. \A u \in Threads : Due'[u] \subseteq Due[u]
    BY <2>1, Advanced
  <2>3. disconnected
    BY <2>1, Advanced DEF CloseInv, Closes, CloseEntries
  <2>4. "RegisterSend" \notin Due[t] /\ "SendAsync" \notin Due[t]
    BY <2>1, Advanced, Behinds
  <2>5. \A u \in Threads : "RegisterSend" \notin Due[u] /\ "SendAsync" \notin Due[u]
    BY <2>1, <2>4, Holders, ThreadsAssumption
  <2> QED
    BY <2>1, <2>2, <2>3, <2>5
<1>16. CASE EndTry(t)
  <2>1. Advances(t, "EndTry", {})
    BY <1>16, TurnOn
  <2>2. UNCHANGED <<sendQueue, bufferList, sendPending, handed, disconnected>>
    BY <1>16 DEF EndTry, session, sending, history
  <2> QED
    BY <2>1, <2>2, Advanced, Behinds
<1>17. CASE AttachHandlers(t)
  <2>1. PICK S \in SUBSET {"RegisterRecv"} : Advances(t, "AttachHandlers", S)
    BY <1>17, TurnOn
  <2>2. UNCHANGED <<sendQueue, bufferList, sendPending, handed, disconnected>>
    BY <1>17 DEF AttachHandlers, session, sending, history
  <2> QED
    BY <2>1, <2>2, Advanced, Behinds
<1> QED
  BY <1>1, <1>2, <1>3, <1>4, <1>5, <1>6, <1>7, <1>8, <1>9, <1>10, <1>11, <1>12, <1>13,
     <1>14, <1>15, <1>16, <1>17 DEF Step

\* What is behind w in x is its end.
LEMMA Ending ==
  ASSUME NEW D, NEW w \in Seq(D), NEW b \in Seq(D), NEW x \in Seq(D), Len(x) = Len(w) + Len(b),
         \A k \in 1..Len(x) : x[k] = IF k <= Len(w) THEN w[k] ELSE b[k - Len(w)]
  PROVE  b = SubSeq(x, Len(w) + 1, Len(x))
<1>1. PICK m \in Int, n \in Int : m = Len(w) + 1 /\ n = Len(x)
  OBVIOUS
<1>2. /\ Len(w) \in Nat /\ Len(b) \in Nat /\ 1 <= m /\ n <= Len(x) /\ m <= n + 1
      /\ n - m + 1 = Len(b)
  BY <1>1
<1>3. PICK c : c = SubSeq(x, m, n)
  OBVIOUS
<1>4. c \in Seq(D) /\ Len(c) = Len(b) /\ \A k \in 1..Len(c) : c[k] = x[m + k - 1]
  <2>1. c \in Seq(D) /\ Len(c) = n - m + 1 /\ \A k \in 1..Len(c) : c[k] = x[m + k - 1]
    BY <1>2, <1>3, Segment
  <2> QED
    BY <1>2, <2>1
<1>5. \A k \in 1..Len(b) : c[k] = b[k]
  <2> TAKE k \in 1..Len(b)
  <2>1. /\ m + k - 1 = Len(w) + k /\ Len(w) + k \in 1..Len(x)
        /\ ~(Len(w) + k <= Len(w)) /\ Len(w) + k - Len(w) = k
    BY <1>1, <1>2
  <2>2. c[k] = x[Len(w) + k]
    BY <1>4, <2>1
  <2>3. x[Len(w) + k] = b[k]
    BY <2>1
  <2> QED
    BY <2>2, <2>3
<1>6. b = c
  BY <1>4, <1>5, SeqEqual
<1> QED
  BY <1>1, <1>3, <1>6

\* A batch put on the wire is its end.
LEMMA Tacked ==
  ASSUME NEW D, NEW w \in Seq(D), NEW b \in Seq(D), NEW x, x = w \o b
  PROVE  /\ x \in Seq(D) /\ Len(x) = Len(w) + Len(b)
         /\ Len(w) \in 0..Len(x)
         /\ b = SubSeq(x, Len(w) + 1, Len(x))
<1>1. /\ x \in Seq(D) /\ Len(x) = Len(w) + Len(b)
      /\ Len(w) \in Nat /\ Len(b) \in Nat
      /\ \A k \in 1..Len(x) : x[k] = IF k <= Len(w) THEN w[k] ELSE b[k - Len(w)]
  OBVIOUS
<1>2. b = SubSeq(x, Len(w) + 1, Len(x))
  BY <1>1, Ending
<1> QED
  BY <1>1, <1>2

\* The batch in bufferList is the last one on the wire if it is there at all.
WireInv == handed => \E n \in 0..Len(wire) : bufferList = SubSeq(wire, n + 1, Len(wire))

\* A batch that nobody empties any more is one that no SendAsync took, or one
\* that was left to Disconnect.
BatchInv ==
  bufferList # <<>> =>
    \/ sendPending \/ \E t \in Threads : Sends(t)
    \/ disconnected \/ \E t \in Threads : "Disconnect" \in Due[t]
    \/ stranded

\* RegisterSend changes bufferList only when it is not on the wire, or never will be.
LEMMA WireStep ==
  ASSUME TypeOK, Orderly, SendInv, WireInv, NEW t \in Threads, Step(t)
  PROVE  WireInv'
<1>1. CASE RegisterSend(t)
  <2>1. /\ \/ disconnected /\ UNCHANGED bufferList
           \/ ~disconnected /\ Advances(t, "RegisterSend", {"SendAsync"})
        /\ UNCHANGED <<wire, handed>>
    BY <1>1, TurnOn DEF RegisterSend, history
  <2>2. disconnected \/ ~handed
    BY <2>1, Advanced DEF SendInv
  <2> QED
    BY <2>1, <2>2 DEF WireInv
<1>2. CASE SendAsync(t)
  <2>1. CASE UNCHANGED <<bufferList, wire, handed>>
    BY <2>1 DEF WireInv
  <2>2. CASE wire' = wire \o bufferList /\ UNCHANGED bufferList
    <3>1. Len(wire) \in 0..Len(wire') /\ bufferList = SubSeq(wire', Len(wire) + 1, Len(wire'))
      BY <2>2, Tacked DEF TypeOK
    <3> QED
      BY <2>2, <3>1 DEF WireInv
  <2> QED
    BY <1>2, <2>1, <2>2 DEF SendAsync
<1>3. CASE SendDone(t) \/ Clear(t)
  BY <1>3 DEF SendDone, Clear, WireInv
<1>4. CASE ShutdownThrows(t)
  <2>1. UNCHANGED <<bufferList, wire, handed>>
    BY <1>4 DEF ShutdownThrows, sending
  <2> QED
    BY <2>1 DEF WireInv
<1>5. ASSUME ~RegisterSend(t), ~SendAsync(t), ~SendDone(t), ~Clear(t), ~ShutdownThrows(t)
      PROVE  WireInv'
  <2>1. UNCHANGED <<bufferList, wire, handed>>
    BY <1>5 DEF Step, OnConnectCompleted, AttachHandlers, OnConnected, RegisterRecv, Send,
                Unlock, NoSendAsync,
                Lock, Disconnect, OnDisconnected, Shutdown, EndTry, sending, history
  <2> QED
    BY <2>1 DEF WireInv
<1> QED
  BY <1>1, <1>2, <1>3, <1>4, <1>5

\* A batch is left with somebody who will empty it.
LEMMA BatchStep ==
  ASSUME TypeOK, Orderly, CloseInv, BatchInv, NEW t \in Threads, Step(t)
  PROVE  BatchInv'
<1> USE DEF BatchInv, Sends
<1>1. CASE OnConnectCompleted(t)
  <2>1. PICK S \in SUBSET {"AttachHandlers", "OnConnected"} : Advances(t, "OnConnectCompleted", S)
    BY <1>1, TurnOn
  <2>2. UNCHANGED <<bufferList, sendPending, disconnected, stranded>>
    BY <1>1 DEF OnConnectCompleted, session, sending, history
  <2> QED
    BY <2>1, <2>2, Advanced, Behinds
<1>2. CASE OnConnected(t)
  <2>1. PICK S \in SUBSET {"Send"} : Advances(t, "OnConnected", S)
    BY <1>2, TurnOn
  <2>2. UNCHANGED <<bufferList, sendPending, disconnected, stranded>>
    BY <1>2 DEF OnConnected, session, sending, history
  <2> QED
    BY <2>1, <2>2, Advanced, Behinds
<1>3. CASE RegisterRecv(t)
  <2>1. PICK S \in SUBSET {"RegisterRecv", "Disconnect", "EndTry"} :
          Advances(t, "RegisterRecv", S)
    BY <1>3, TurnOn
  <2>2. UNCHANGED <<bufferList, sendPending, disconnected, stranded>>
    BY <1>3 DEF RegisterRecv, session, sending, history
  <2> QED
    BY <2>1, <2>2, Advanced, Behinds
<1>4. CASE Send(t)
  <2>1. PICK S \in SUBSET {"RegisterSend", "Unlock"} : Advances(t, "Send", S)
    BY <1>4, TurnOn
  <2>2. UNCHANGED <<bufferList, sendPending, disconnected, stranded>>
    BY <1>4 DEF Send, session
  <2> QED
    BY <2>1, <2>2, Advanced, Behinds
<1>5. CASE Unlock(t)
  <2>1. Advances(t, "Unlock", {})
    BY <1>5, TurnOn
  <2>2. UNCHANGED <<bufferList, sendPending, disconnected, stranded>>
    BY <1>5 DEF Unlock, session, sending, history
  <2> QED
    BY <2>1, <2>2, Advanced, Behinds
<1>6. CASE RegisterSend(t)
  <2>1. CASE disconnected /\ Advances(t, "RegisterSend", {})
    <3>1. UNCHANGED disconnected
      BY <1>6 DEF RegisterSend, session
    <3> QED
      BY <2>1, <3>1
  <2>2. CASE ~disconnected /\ Advances(t, "RegisterSend", {"SendAsync"})
    BY <2>2, Advanced
  <2> QED
    BY <1>6, <2>1, <2>2, TurnOn
<1>7. CASE NoSendAsync(t)
  <2>1. stranded'
    BY <1>7 DEF NoSendAsync
  <2> QED
    BY <2>1
<1>8. CASE SendAsync(t)
  <2>1. \/ sendPending'
        \/ \E S \in SUBSET {"EndTry"} : Advances(t, "SendAsync", {"SendDone"} \union S)
        \/ \E S \in SUBSET {"EndTry"} : Advances(t, "SendAsync", {"Disconnect"} \union S)
    BY <1>8, TurnOn
  <2>2. ASSUME NEW S \in SUBSET {"EndTry"}, Advances(t, "SendAsync", {"SendDone"} \union S)
        PROVE  "SendDone" \in Due'[t]
    BY <2>2, Advanced
  <2>3. ASSUME NEW S \in SUBSET {"EndTry"}, Advances(t, "SendAsync", {"Disconnect"} \union S)
        PROVE  "Disconnect" \in Due'[t]
    BY <2>3, Advanced
  <2> QED
    BY <2>1, <2>2, <2>3
<1>9. CASE Lock(t)
  <2>1. Advances(t, "Lock", {})
    BY <1>9, TurnOn
  <2>2. UNCHANGED <<bufferList, sendPending, disconnected, stranded>>
    BY <1>9 DEF Lock, session, sending, history
  <2> QED
    BY <2>1, <2>2, Advanced, Behinds
<1>10. CASE SendDone(t)
  <2>1. bufferList' = <<>>
    BY <1>10 DEF SendDone
  <2> QED
    BY <2>1
<1>11. CASE Disconnect(t)
  <2>1. disconnected'
    BY <1>11 DEF Disconnect
  <2> QED
    BY <2>1
<1>12. CASE OnDisconnected(t)
  <2>1. Advances(t, "OnDisconnected", {})
    BY <1>12, TurnOn
  <2>2. UNCHANGED <<bufferList, sendPending, disconnected, stranded>>
    BY <1>12 DEF OnDisconnected, session, sending, history
  <2> QED
    BY <2>1, <2>2, Advanced, Behinds
<1>13. CASE Shutdown(t)
  <2>1. Advances(t, "Shutdown", {"Clear"})
    BY <1>13, TurnOn
  <2>2. UNCHANGED <<bufferList, sendPending, disconnected, stranded>>
    BY <1>13 DEF Shutdown, session, sending, history
  <2> QED
    BY <2>1, <2>2, Advanced, Behinds
<1>14. CASE ShutdownThrows(t)
  <2>1. disconnected /\ UNCHANGED disconnected
    BY <1>14, Thrown DEF CloseInv, Closes, CloseEntries, session
  <2> QED
    BY <2>1
<1>15. CASE Clear(t)
  <2>1. bufferList' = <<>>
    BY <1>15 DEF Clear
  <2> QED
    BY <2>1
<1>16. CASE EndTry(t)
  <2>1. Advances(t, "EndTry", {})
    BY <1>16, TurnOn
  <2>2. UNCHANGED <<bufferList, sendPending, disconnected, stranded>>
    BY <1>16 DEF EndTry, session, sending, history
  <2> QED
    BY <2>1, <2>2, Advanced, Behinds
<1>17. CASE AttachHandlers(t)
  <2>1. PICK S \in SUBSET {"RegisterRecv"} : Advances(t, "AttachHandlers", S)
    BY <1>17, TurnOn
  <2>2. UNCHANGED <<bufferList, sendPending, disconnected, stranded>>
    BY <1>17 DEF AttachHandlers, session, sending, history
  <2> QED
    BY <2>1, <2>2, Advanced, Behinds
<1> QED
  BY <1>1, <1>2, <1>3, <1>4, <1>5, <1>6, <1>7, <1>8, <1>9, <1>10, <1>11, <1>12, <1>13,
     <1>14, <1>15, <1>16, <1>17 DEF Step

\* OnDisconnected is due only together with the Shutdown behind it.
ReportInv == \A t \in Threads : "OnDisconnected" \in Due[t] => "Shutdown" \in Due[t]

\* When the thread that closes the session is through, bufferList is empty.
EmptyInv ==
  disconnected /\ (\A t \in Threads : ~Closes(t)) /\ ~aborted => bufferList = <<>>

\* OnDisconnected has been called at most once, and not while it is still due.
EndInv ==
  /\ \A i, j \in Calls("OnDisconnected") : i = j
  /\ ~disconnected => Calls("OnDisconnected") = {}
  /\ \A t \in Threads : "OnDisconnected" \in Due[t] => Calls("OnDisconnected") = {}

OpenEntries == {"OnConnectCompleted", "OnConnected"}

\* Thread t is still to report that the session is connected.
Opens(t) == \E e \in OpenEntries : e \in Due[t]

\* The connect is reported once, by one thread, and not before it is done.
StartInv ==
  /\ \A t, u \in Threads : Opens(t) /\ Opens(u) => t = u
  /\ \A t \in Threads : Opens(t) => link = "done" /\ Calls("OnConnected") = {}
  /\ \A i, j \in Calls("OnConnected") : i = j
  /\ link # "done" => Calls("OnConnected") = {}

\* A callback adds its index to its own calls.
LEMMA Called ==
  ASSUME TypeOK, NEW c, NEW d, callbacks' = Append(callbacks, d)
  PROVE  /\ c # d => Calls(c)' = Calls(c)
         /\ Calls(d)' = Calls(d) \union {Len(callbacks) + 1}
<1>1. callbacks \in Seq({"OnConnected", "OnDisconnected"}) /\ Len(callbacks) \in Nat
  BY DEF TypeOK
<1>2. /\ DOMAIN callbacks = 1..Len(callbacks)
      /\ DOMAIN callbacks' = 1..(Len(callbacks) + 1)
      /\ \A i \in 1..Len(callbacks) : callbacks'[i] = callbacks[i]
      /\ callbacks'[Len(callbacks) + 1] = d
  BY <1>1
<1>3. 1..(Len(callbacks) + 1) = 1..Len(callbacks) \union {Len(callbacks) + 1}
  BY <1>1
<1> QED
  BY <1>2, <1>3 DEF Calls


\* Nothing fills bufferList behind Clear.
LEMMA EmptyStep ==
  ASSUME TypeOK, Orderly, ReportInv, EmptyInv, NEW t \in Threads, Step(t)
  PROVE  EmptyInv'
<1> USE DEF EmptyInv, Closes, CloseEntries
<1>1. CASE OnConnectCompleted(t)
  <2>1. PICK S \in SUBSET {"AttachHandlers", "OnConnected"} : Advances(t, "OnConnectCompleted", S)
    BY <1>1, TurnOn
  <2>2. UNCHANGED <<bufferList, disconnected, aborted>>
    BY <1>1 DEF OnConnectCompleted, session, sending, history
  <2> QED
    BY <2>1, <2>2, Advanced, Behinds
<1>2. CASE OnConnected(t)
  <2>1. PICK S \in SUBSET {"Send"} : Advances(t, "OnConnected", S)
    BY <1>2, TurnOn
  <2>2. UNCHANGED <<bufferList, disconnected, aborted>>
    BY <1>2 DEF OnConnected, session, sending, history
  <2> QED
    BY <2>1, <2>2, Advanced, Behinds
<1>3. CASE RegisterRecv(t)
  <2>1. PICK S \in SUBSET {"RegisterRecv", "Disconnect", "EndTry"} :
          Advances(t, "RegisterRecv", S)
    BY <1>3, TurnOn
  <2>2. UNCHANGED <<bufferList, disconnected, aborted>>
    BY <1>3 DEF RegisterRecv, session, sending, history
  <2> QED
    BY <2>1, <2>2, Advanced, Behinds
<1>4. CASE Send(t)
  <2>1. PICK S \in SUBSET {"RegisterSend", "Unlock"} : Advances(t, "Send", S)
    BY <1>4, TurnOn
  <2>2. UNCHANGED <<bufferList, disconnected, aborted>>
    BY <1>4 DEF Send, session, sending, history
  <2> QED
    BY <2>1, <2>2, Advanced, Behinds
<1>5. CASE Unlock(t)
  <2>1. Advances(t, "Unlock", {})
    BY <1>5, TurnOn
  <2>2. UNCHANGED <<bufferList, disconnected, aborted>>
    BY <1>5 DEF Unlock, session, sending, history
  <2> QED
    BY <2>1, <2>2, Advanced, Behinds
<1>6. CASE RegisterSend(t)
  <2>1. PICK S \in SUBSET {"SendAsync"} : Advances(t, "RegisterSend", S)
    BY <1>6, TurnOn
  <2>2. UNCHANGED <<disconnected, aborted>> /\ (disconnected => UNCHANGED bufferList)
    BY <1>6 DEF RegisterSend, session, history
  <2> QED
    BY <2>1, <2>2, Advanced, Behinds
<1>7. CASE NoSendAsync(t)
  <2>1. Advances(t, "SendAsync", {})
    BY <1>7, TurnOn
  <2>2. UNCHANGED <<bufferList, disconnected, aborted>>
    BY <1>7 DEF NoSendAsync, session, sending, history
  <2> QED
    BY <2>1, <2>2, Advanced, Behinds
<1>8. CASE SendAsync(t)
  <2>1. PICK S \in SUBSET {"SendDone", "Disconnect", "EndTry"} : Advances(t, "SendAsync", S)
    BY <1>8, TurnOn
  <2>2. UNCHANGED <<bufferList, disconnected, aborted>>
    BY <1>8 DEF SendAsync, session, sending, history
  <2> QED
    BY <2>1, <2>2, Advanced, Behinds
<1>9. CASE Lock(t)
  <2>1. Advances(t, "Lock", {})
    BY <1>9, TurnOn
  <2>2. UNCHANGED <<bufferList, disconnected, aborted>>
    BY <1>9 DEF Lock, session, sending, history
  <2> QED
    BY <2>1, <2>2, Advanced, Behinds
<1>10. CASE SendDone(t)
  <2>1. bufferList' = <<>>
    BY <1>10 DEF SendDone
  <2> QED
    BY <2>1
<1>11. CASE Disconnect(t)
  <2>1. CASE disconnected /\ Advances(t, "Disconnect", {})
    <3>1. UNCHANGED <<disconnected, bufferList, aborted>>
      BY <1>11, <2>1 DEF Disconnect, sending, history, TypeOK
    <3> QED
      BY <2>1, <3>1, Advanced, Behinds
  <2>2. ASSUME NEW S \in {{"Clear"}, {"Shutdown"}, {"OnDisconnected", "Shutdown"}},
               Advances(t, "Disconnect", S)
        PROVE  EmptyInv'
    <3>1. "Clear" \in Due'[t] \/ "Shutdown" \in Due'[t]
      BY <2>2, Advanced
    <3> QED
      BY <3>1
  <2> QED
    BY <1>11, <2>1, <2>2, TurnOn
<1>12. CASE OnDisconnected(t)
  <2>1. Advances(t, "OnDisconnected", {})
    BY <1>12, TurnOn
  <2>2. UNCHANGED <<bufferList, disconnected, aborted>>
    BY <1>12 DEF OnDisconnected, session, sending, history
  <2>3. "Shutdown" \in Due[t]
    BY <2>1, Advanced DEF ReportInv
  <2> QED
    BY <2>1, <2>2, <2>3, Advanced, Behinds
<1>13. CASE Shutdown(t)
  <2>1. Advances(t, "Shutdown", {"Clear"})
    BY <1>13, TurnOn
  <2>2. UNCHANGED <<bufferList, disconnected, aborted>>
    BY <1>13 DEF Shutdown, session, sending, history
  <2> QED
    BY <2>1, <2>2, Advanced, Behinds
<1>14. CASE ShutdownThrows(t)
  <2>1. CASE aborted'
    BY <2>1
  <2>2. CASE UNCHANGED <<todo, aborted>>
    <3>1. UNCHANGED <<Due, disconnected, bufferList>>
      BY <1>14, <2>2, Thrown DEF Due, session, sending
    <3> QED
      BY <2>2, <3>1
  <2> QED
    BY <1>14, <2>1, <2>2, Thrown
<1>15. CASE Clear(t)
  <2>1. bufferList' = <<>>
    BY <1>15 DEF Clear
  <2> QED
    BY <2>1
<1>16. CASE EndTry(t)
  <2>1. Advances(t, "EndTry", {})
    BY <1>16, TurnOn
  <2>2. UNCHANGED <<bufferList, disconnected, aborted>>
    BY <1>16 DEF EndTry, session, sending, history
  <2> QED
    BY <2>1, <2>2, Advanced, Behinds
<1>17. CASE AttachHandlers(t)
  <2>1. PICK S \in SUBSET {"RegisterRecv"} : Advances(t, "AttachHandlers", S)
    BY <1>17, TurnOn
  <2>2. UNCHANGED <<bufferList, disconnected, aborted>>
    BY <1>17 DEF AttachHandlers, session, sending, history
  <2> QED
    BY <2>1, <2>2, Advanced, Behinds
<1> QED
  BY <1>1, <1>2, <1>3, <1>4, <1>5, <1>6, <1>7, <1>8, <1>9, <1>10, <1>11, <1>12, <1>13,
     <1>14, <1>15, <1>16, <1>17 DEF Step

\* OnDisconnected is called by the thread that closes the session only.
LEMMA EndStep ==
  ASSUME TypeOK, Orderly, CloseInv, EndInv, NEW t \in Threads, Step(t)
  PROVE  EndInv'
<1> USE DEF EndInv, Calls
<1>1. CASE OnConnectCompleted(t)
  <2>1. PICK S \in SUBSET {"AttachHandlers", "OnConnected"} : Advances(t, "OnConnectCompleted", S)
    BY <1>1, TurnOn
  <2>2. UNCHANGED <<disconnected, callbacks>>
    BY <1>1 DEF OnConnectCompleted, session, sending, history
  <2> QED
    BY <2>1, <2>2, Advanced, Behinds
<1>2. CASE OnConnected(t)
  <2>1. PICK S \in SUBSET {"Send"} : Advances(t, "OnConnected", S)
    BY <1>2, TurnOn
  <2>2. UNCHANGED disconnected /\ Calls("OnDisconnected")' = Calls("OnDisconnected")
    BY <1>2, Called DEF OnConnected, session
  <2> HIDE DEF Calls
  <2> QED
    BY <2>1, <2>2, Advanced, Behinds
<1>3. CASE RegisterRecv(t)
  <2>1. PICK S \in SUBSET {"RegisterRecv", "Disconnect", "EndTry"} :
          Advances(t, "RegisterRecv", S)
    BY <1>3, TurnOn
  <2>2. UNCHANGED <<disconnected, callbacks>>
    BY <1>3 DEF RegisterRecv, session, sending, history
  <2> QED
    BY <2>1, <2>2, Advanced, Behinds
<1>4. CASE Send(t)
  <2>1. PICK S \in SUBSET {"RegisterSend", "Unlock"} : Advances(t, "Send", S)
    BY <1>4, TurnOn
  <2>2. UNCHANGED <<disconnected, callbacks>>
    BY <1>4 DEF Send, session
  <2> QED
    BY <2>1, <2>2, Advanced, Behinds
<1>5. CASE Unlock(t)
  <2>1. Advances(t, "Unlock", {})
    BY <1>5, TurnOn
  <2>2. UNCHANGED <<disconnected, callbacks>>
    BY <1>5 DEF Unlock, session, sending, history
  <2> QED
    BY <2>1, <2>2, Advanced, Behinds
<1>6. CASE RegisterSend(t)
  <2>1. PICK S \in SUBSET {"SendAsync"} : Advances(t, "RegisterSend", S)
    BY <1>6, TurnOn
  <2>2. UNCHANGED <<disconnected, callbacks>>
    BY <1>6 DEF RegisterSend, session, history
  <2> QED
    BY <2>1, <2>2, Advanced, Behinds
<1>7. CASE NoSendAsync(t)
  <2>1. Advances(t, "SendAsync", {})
    BY <1>7, TurnOn
  <2>2. UNCHANGED <<disconnected, callbacks>>
    BY <1>7 DEF NoSendAsync, session, sending, history
  <2> QED
    BY <2>1, <2>2, Advanced, Behinds
<1>8. CASE SendAsync(t)
  <2>1. PICK S \in SUBSET {"SendDone", "Disconnect", "EndTry"} : Advances(t, "SendAsync", S)
    BY <1>8, TurnOn
  <2>2. UNCHANGED <<disconnected, callbacks>>
    BY <1>8 DEF SendAsync, session, sending, history
  <2> QED
    BY <2>1, <2>2, Advanced, Behinds
<1>9. CASE Lock(t)
  <2>1. Advances(t, "Lock", {})
    BY <1>9, TurnOn
  <2>2. UNCHANGED <<disconnected, callbacks>>
    BY <1>9 DEF Lock, session, sending, history
  <2> QED
    BY <2>1, <2>2, Advanced, Behinds
<1>10. CASE SendDone(t)
  <2>1. PICK S \in SUBSET {"RegisterSend"} : Advances(t, "SendDone", S)
    BY <1>10, TurnOn
  <2>2. UNCHANGED <<disconnected, callbacks>>
    BY <1>10 DEF SendDone, session, sending, history
  <2> QED
    BY <2>1, <2>2, Advanced, Behinds
<1>11. CASE Disconnect(t)
  <2>1. disconnected' /\ UNCHANGED callbacks
    BY <1>11 DEF Disconnect, history
  <2>2. CASE disconnected /\ Advances(t, "Disconnect", {})
    BY <2>1, <2>2, Advanced, Behinds
  <2>3. CASE ~disconnected
    BY <2>1, <2>3
  <2> QED
    BY <1>11, <2>2, <2>3, TurnOn
<1>12. CASE OnDisconnected(t)
  <2>1. Advances(t, "OnDisconnected", {})
    BY <1>12, TurnOn
  <2>2. UNCHANGED disconnected
    BY <1>12 DEF OnDisconnected, session
  <2>3. Calls("OnDisconnected") = {}
    BY <2>1, Advanced
  <2>4. Calls("OnDisconnected")' = {Len(callbacks) + 1}
    <3>1. Calls("OnDisconnected")' = Calls("OnDisconnected") \union {Len(callbacks) + 1}
      BY <1>12, Called DEF OnDisconnected
    <3> HIDE DEF Calls
    <3> QED
      BY <2>3, <3>1
  <2>5. disconnected /\ \A u \in Threads \ {t} : "OnDisconnected" \notin Due[u]
    BY <2>1, Advanced DEF CloseInv, Closes, CloseEntries
  <2> HIDE DEF Calls
  <2> QED
    BY <2>1, <2>2, <2>4, <2>5, Advanced, Behinds
<1>13. CASE Shutdown(t)
  <2>1. Advances(t, "Shutdown", {"Clear"})
    BY <1>13, TurnOn
  <2>2. UNCHANGED <<disconnected, callbacks>>
    BY <1>13 DEF Shutdown, session, sending, history
  <2> QED
    BY <2>1, <2>2, Advanced, Behinds
<1>14. CASE ShutdownThrows(t)
  <2>1. UNCHANGED <<disconnected, callbacks>> /\ (UNCHANGED todo \/ Falls(t))
    BY <1>14, Thrown DEF session
  <2>2. \A u \in Threads : Due'[u] \subseteq Due[u]
    <3>1. UNCHANGED todo => UNCHANGED Due
      BY DEF Due
    <3> QED
      BY <2>1, <3>1, Fallen
  <2> QED
    BY <2>1, <2>2
<1>15. CASE Clear(t)
  <2>1. Advances(t, "Clear", {})
    BY <1>15, TurnOn
  <2>2. UNCHANGED <<disconnected, callbacks>>
    BY <1>15 DEF Clear, session, sending, history
  <2> QED
    BY <2>1, <2>2, Advanced, Behinds
<1>16. CASE EndTry(t)
  <2>1. Advances(t, "EndTry", {})
    BY <1>16, TurnOn
  <2>2. UNCHANGED <<disconnected, callbacks>>
    BY <1>16 DEF EndTry, session, sending, history
  <2> QED
    BY <2>1, <2>2, Advanced, Behinds
<1>17. CASE AttachHandlers(t)
  <2>1. PICK S \in SUBSET {"RegisterRecv"} : Advances(t, "AttachHandlers", S)
    BY <1>17, TurnOn
  <2>2. UNCHANGED <<disconnected, callbacks>>
    BY <1>17 DEF AttachHandlers, session, sending, history
  <2> QED
    BY <2>1, <2>2, Advanced, Behinds
<1> QED
  BY <1>1, <1>2, <1>3, <1>4, <1>5, <1>6, <1>7, <1>8, <1>9, <1>10, <1>11, <1>12, <1>13,
     <1>14, <1>15, <1>16, <1>17 DEF Step

\* OnConnected is called once, by the thread that saw the connect complete.
LEMMA StartStep ==
  ASSUME TypeOK, Orderly, StartInv, NEW t \in Threads, Step(t)
  PROVE  StartInv'
<1> USE DEF StartInv, Calls, Opens, OpenEntries
<1>1. CASE OnConnectCompleted(t)
  <2>1. PICK S \in SUBSET {"AttachHandlers", "OnConnected"} : Advances(t, "OnConnectCompleted", S)
    BY <1>1, TurnOn
  <2>2. UNCHANGED <<link, callbacks>>
    BY <1>1 DEF OnConnectCompleted, history
  <2>3. "OnConnectCompleted" \in Due[t]
    BY <2>1, Advanced
  <2> QED
    BY <2>1, <2>2, <2>3, Advanced, Behinds
<1>2. CASE OnConnected(t)
  <2>1. PICK S \in SUBSET {"Send"} : Advances(t, "OnConnected", S)
    BY <1>2, TurnOn
  <2>2. UNCHANGED link
    BY <1>2 DEF OnConnected, session
  <2>3. "OnConnected" \in Due[t]
    BY <2>1, Advanced
  <2>4. /\ link = "done" /\ Calls("OnConnected") = {}
        /\ \A u \in Threads \ {t} : ~Opens(u)
    BY <2>3
  <2>5. Calls("OnConnected")' = {Len(callbacks) + 1}
    <3>1. Calls("OnConnected")' = Calls("OnConnected") \union {Len(callbacks) + 1}
      BY <1>2, Called DEF OnConnected
    <3> HIDE DEF Calls
    <3> QED
      BY <2>4, <3>1
  <2>6. "OnConnected" \notin Due'[t] /\ "OnConnectCompleted" \notin Due'[t]
    BY <2>1, Advanced, Behinds
  <2>7. \A u \in Threads \ {t} : Due'[u] = Due[u]
    BY <2>1, Advanced
  <2>8. \A u \in Threads : ~Opens(u)'
    BY <2>4, <2>6, <2>7
  <2> HIDE DEF Calls
  <2> QED
    BY <2>2, <2>4, <2>5, <2>8
<1>3. CASE RegisterRecv(t)
  <2>1. PICK S \in SUBSET {"RegisterRecv", "Disconnect", "EndTry"} :
          Advances(t, "RegisterRecv", S)
    BY <1>3, TurnOn
  <2>2. UNCHANGED <<link, callbacks>>
    BY <1>3 DEF RegisterRecv, session, sending, history
  <2> QED
    BY <2>1, <2>2, Advanced, Behinds
<1>4. CASE Send(t)
  <2>1. PICK S \in SUBSET {"RegisterSend", "Unlock"} : Advances(t, "Send", S)
    BY <1>4, TurnOn
  <2>2. UNCHANGED <<link, callbacks>>
    BY <1>4 DEF Send, session
  <2> QED
    BY <2>1, <2>2, Advanced, Behinds
<1>5. CASE Unlock(t)
  <2>1. Advances(t, "Unlock", {})
    BY <1>5, TurnOn
  <2>2. UNCHANGED <<link, callbacks>>
    BY <1>5 DEF Unlock, session, sending, history
  <2> QED
    BY <2>1, <2>2, Advanced, Behinds
<1>6. CASE RegisterSend(t)
  <2>1. PICK S \in SUBSET {"SendAsync"} : Advances(t, "RegisterSend", S)
    BY <1>6, TurnOn
  <2>2. UNCHANGED <<link, callbacks>>
    BY <1>6 DEF RegisterSend, session, history
  <2> QED
    BY <2>1, <2>2, Advanced, Behinds
<1>7. CASE NoSendAsync(t)
  <2>1. Advances(t, "SendAsync", {})
    BY <1>7, TurnOn
  <2>2. UNCHANGED <<link, callbacks>>
    BY <1>7 DEF NoSendAsync, session, sending, history
  <2> QED
    BY <2>1, <2>2, Advanced, Behinds
<1>8. CASE SendAsync(t)
  <2>1. PICK S \in SUBSET {"SendDone", "Disconnect", "EndTry"} : Advances(t, "SendAsync", S)
    BY <1>8, TurnOn
  <2>2. UNCHANGED <<link, callbacks>>
    BY <1>8 DEF SendAsync, session, sending, history
  <2> QED
    BY <2>1, <2>2, Advanced, Behinds
<1>9. CASE Lock(t)
  <2>1. Advances(t, "Lock", {})
    BY <1>9, TurnOn
  <2>2. UNCHANGED <<link, callbacks>>
    BY <1>9 DEF Lock, session, sending, history
  <2> QED
    BY <2>1, <2>2, Advanced, Behinds
<1>10. CASE SendDone(t)
  <2>1. PICK S \in SUBSET {"RegisterSend"} : Advances(t, "SendDone", S)
    BY <1>10, TurnOn
  <2>2. UNCHANGED <<link, callbacks>>
    BY <1>10 DEF SendDone, session, sending, history
  <2> QED
    BY <2>1, <2>2, Advanced, Behinds
<1>11. CASE Disconnect(t)
  <2>1. PICK S \in SUBSET {"OnDisconnected", "Shutdown", "Clear"} : Advances(t, "Disconnect", S)
    BY <1>11, TurnOn
  <2>2. UNCHANGED <<link, callbacks>>
    BY <1>11 DEF Disconnect, history
  <2> QED
    BY <2>1, <2>2, Advanced, Behinds
<1>12. CASE OnDisconnected(t)
  <2>1. Advances(t, "OnDisconnected", {})
    BY <1>12, TurnOn
  <2>2. UNCHANGED link /\ Calls("OnConnected")' = Calls("OnConnected")
    BY <1>12, Called DEF OnDisconnected, session
  <2> HIDE DEF Calls
  <2> QED
    BY <2>1, <2>2, Advanced, Behinds
<1>13. CASE Shutdown(t)
  <2>1. Advances(t, "Shutdown", {"Clear"})
    BY <1>13, TurnOn
  <2>2. UNCHANGED <<link, callbacks>>
    BY <1>13 DEF Shutdown, session, sending, history
  <2> QED
    BY <2>1, <2>2, Advanced, Behinds
<1>14. CASE ShutdownThrows(t)
  <2>1. UNCHANGED <<link, callbacks>> /\ (UNCHANGED todo \/ Falls(t))
    BY <1>14, Thrown DEF session
  <2>2. \A u \in Threads : Due'[u] \subseteq Due[u]
    <3>1. UNCHANGED todo => UNCHANGED Due
      BY DEF Due
    <3> QED
      BY <2>1, <3>1, Fallen
  <2> QED
    BY <2>1, <2>2
<1>15. CASE Clear(t)
  <2>1. Advances(t, "Clear", {})
    BY <1>15, TurnOn
  <2>2. UNCHANGED <<link, callbacks>>
    BY <1>15 DEF Clear, session, sending, history
  <2> QED
    BY <2>1, <2>2, Advanced, Behinds
<1>16. CASE EndTry(t)
  <2>1. Advances(t, "EndTry", {})
    BY <1>16, TurnOn
  <2>2. UNCHANGED <<link, callbacks>>
    BY <1>16 DEF EndTry, session, sending, history
  <2> QED
    BY <2>1, <2>2, Advanced, Behinds
<1>17. CASE AttachHandlers(t)
  <2>1. PICK S \in SUBSET {"RegisterRecv"} : Advances(t, "AttachHandlers", S)
    BY <1>17, TurnOn
  <2>2. UNCHANGED <<link, callbacks>>
    BY <1>17 DEF AttachHandlers, session, sending, history
  <2> QED
    BY <2>1, <2>2, Advanced, Behinds
<1> QED
  BY <1>1, <1>2, <1>3, <1>4, <1>5, <1>6, <1>7, <1>8, <1>9, <1>10, <1>11, <1>12, <1>13,
     <1>14, <1>15, <1>16, <1>17 DEF Step

\* Shutdown comes behind OnDisconnected.
LEMMA ReportStep ==
  ASSUME TypeOK, Orderly, ReportInv, NEW t \in Threads, Step(t)
  PROVE  ReportInv'
<1> USE DEF ReportInv
<1>1. CASE OnConnectCompleted(t)
  <2>1. PICK S \in SUBSET {"AttachHandlers", "OnConnected"} : Advances(t, "OnConnectCompleted", S)
    BY <1>1, TurnOn DEF CloseEntries
  <2> QED
    BY <2>1, Advanced, Behinds
<1>2. CASE OnConnected(t)
  <2>1. PICK S \in SUBSET {"Send"} : Advances(t, "OnConnected", S)
    BY <1>2, TurnOn DEF CloseEntries
  <2> QED
    BY <2>1, Advanced, Behinds
<1>3. CASE RegisterRecv(t)
  <2>1. PICK S \in SUBSET {"RegisterRecv", "Disconnect", "EndTry"} :
          Advances(t, "RegisterRecv", S)
    BY <1>3, TurnOn DEF CloseEntries
  <2> QED
    BY <2>1, Advanced, Behinds
<1>4. CASE Send(t)
  <2>1. PICK S \in SUBSET {"RegisterSend", "Unlock"} : Advances(t, "Send", S)
    BY <1>4, TurnOn DEF CloseEntries
  <2> QED
    BY <2>1, Advanced, Behinds
<1>5. CASE Unlock(t)
  <2>1. Advances(t, "Unlock", {})
    BY <1>5, TurnOn DEF CloseEntries
  <2> QED
    BY <2>1, Advanced, Behinds
<1>6. CASE RegisterSend(t)
  <2>1. PICK S \in SUBSET {"SendAsync"} : Advances(t, "RegisterSend", S)
    BY <1>6, TurnOn DEF CloseEntries
  <2> QED
    BY <2>1, Advanced, Behinds
<1>7. CASE NoSendAsync(t)
  <2>1. Advances(t, "SendAsync", {})
    BY <1>7, TurnOn DEF CloseEntries
  <2> QED
    BY <2>1, Advanced, Behinds
<1>8. CASE SendAsync(t)
  <2>1. PICK S \in SUBSET {"SendDone", "Disconnect", "EndTry"} : Advances(t, "SendAsync", S)
    BY <1>8, TurnOn DEF CloseEntries
  <2> QED
    BY <2>1, Advanced, Behinds
<1>9. CASE Lock(t)
  <2>1. Advances(t, "Lock", {})
    BY <1>9, TurnOn DEF CloseEntries
  <2> QED
    BY <2>1, Advanced, Behinds
<1>10. CASE SendDone(t)
  <2>1. PICK S \in SUBSET {"RegisterSend"} : Advances(t, "SendDone", S)
    BY <1>10, TurnOn DEF CloseEntries
  <2> QED
    BY <2>1, Advanced, Behinds
<1>11. CASE Disconnect(t)
  <2>1. \/ Advances(t, "Disconnect", {})
        \/ Advances(t, "Disconnect", {"Clear"})
        \/ Advances(t, "Disconnect", {"Shutdown"})
        \/ Advances(t, "Disconnect", {"OnDisconnected", "Shutdown"})
    BY <1>11, TurnOn
  <2> QED
    BY <2>1, Advanced, Behinds
<1>12. CASE OnDisconnected(t)
  <2>1. Advances(t, "OnDisconnected", {})
    BY <1>12, TurnOn DEF CloseEntries
  <2> QED
    BY <2>1, Advanced, Behinds
<1>13. CASE Shutdown(t)
  <2>1. Advances(t, "Shutdown", {"Clear"})
    BY <1>13, TurnOn DEF CloseEntries
  <2> QED
    BY <2>1, Advanced, Behinds
<1>14. CASE ShutdownThrows(t)
  <2>1. UNCHANGED todo \/ Falls(t)
    BY <1>14, Thrown
  <2>2. CASE UNCHANGED todo
    <3>1. UNCHANGED Due
      BY <2>2 DEF Due
    <3> QED
      BY <3>1
  <2>3. CASE Falls(t)
    BY <2>3, Fallen, Behinds
  <2> QED
    BY <2>1, <2>2, <2>3
<1>15. CASE Clear(t)
  <2>1. Advances(t, "Clear", {})
    BY <1>15, TurnOn DEF CloseEntries
  <2> QED
    BY <2>1, Advanced, Behinds
<1>16. CASE EndTry(t)
  <2>1. Advances(t, "EndTry", {})
    BY <1>16, TurnOn DEF CloseEntries
  <2> QED
    BY <2>1, Advanced, Behinds
<1>17. CASE AttachHandlers(t)
  <2>1. PICK S \in SUBSET {"RegisterRecv"} : Advances(t, "AttachHandlers", S)
    BY <1>17, TurnOn DEF CloseEntries
  <2> QED
    BY <2>1, Advanced, Behinds
<1> QED
  BY <1>1, <1>2, <1>3, <1>4, <1>5, <1>6, <1>7, <1>8, <1>9, <1>10, <1>11, <1>12, <1>13,
     <1>14, <1>15, <1>16, <1>17 DEF Step

\* Numbers up to a are numbers up to any larger b.
LEMMA Wider ==
  ASSUME NEW a \in Nat, NEW b \in Nat, a <= b, NEW s \in Seq(1..a)
  PROVE  s \in Seq(1..b)
<1>1. /\ DOMAIN s = 1..Len(s) /\ Len(s) \in Nat
      /\ \A i \in 1..Len(s) : s[i] \in 1..b
  OBVIOUS
<1>2. s = [i \in 1..Len(s) |-> s[i]]
  OBVIOUS
<1> QED
  BY <1>1, <1>2

\* Every variable keeps its type, and every todo its order.
LEMMA TypeStep ==
  ASSUME TypeOK, Orderly, NEW t \in Threads, Step(t)
  PROVE  TypeOK' /\ Orderly'
<1> USE DEF TypeOK, session, sending, history
<1>0. /\ <<>> \in Seq(1..accepted)
      /\ \A q, r \in Seq(1..accepted) : q \o r \in Seq(1..accepted)
  OBVIOUS
<1>1. CASE OnConnectCompleted(t)
  <2>1. PICK S \in SUBSET {"AttachHandlers", "OnConnected"} : Advances(t, "OnConnectCompleted", S)
    BY <1>1, TurnOn DEF CloseEntries
  <2>2. todo' \in [Threads -> Seq(Entries)] /\ Orderly'
    BY <2>1 DEF Advances
  <2> QED
    BY <1>1, <2>2 DEF OnConnectCompleted
<1>2. CASE OnConnected(t)
  <2>1. PICK S \in SUBSET {"Send"} : Advances(t, "OnConnected", S)
    BY <1>2, TurnOn
  <2>2. todo' \in [Threads -> Seq(Entries)] /\ Orderly'
    BY <2>1 DEF Advances
  <2>3. callbacks' \in Seq({"OnConnected", "OnDisconnected"})
    BY <1>2 DEF OnConnected
  <2> QED
    BY <1>2, <2>2, <2>3 DEF OnConnected
<1>3. CASE RegisterRecv(t)
  <2>1. PICK S \in SUBSET {"RegisterRecv", "Disconnect", "EndTry"} :
          Advances(t, "RegisterRecv", S)
    BY <1>3, TurnOn DEF CloseEntries
  <2>2. todo' \in [Threads -> Seq(Entries)] /\ Orderly'
    BY <2>1 DEF Advances
  <2>3. recvPending' \in BOOLEAN /\ UNCHANGED <<session, lockObj, sending, history>>
    BY <1>3 DEF RegisterRecv
  <2> QED
    BY <2>2, <2>3
<1>4. CASE Send(t)
  <2>1. PICK S \in SUBSET {"RegisterSend", "Unlock"} : Advances(t, "Send", S)
    BY <1>4, TurnOn
  <2>2. todo' \in [Threads -> Seq(Entries)] /\ Orderly'
    BY <2>1 DEF Advances
  <2>3. CASE accepted < MaxSends
    <3>1. /\ accepted' = accepted + 1 /\ lockObj' = t
          /\ sendQueue' = Append(sendQueue, accepted + 1)
          /\ UNCHANGED <<session, bufferList, sendPending, recvPending, wire, handed,
                         stranded, callbacks, aborted, crashed>>
      BY <1>4, <2>3 DEF Send
    <3>2. accepted \in Nat /\ accepted' \in 0..MaxSends /\ accepted + 1 \in 1..accepted'
      BY <2>3, <3>1, MaxSendsAssumption
    <3>3. /\ sendQueue \in Seq(1..accepted') /\ bufferList \in Seq(1..accepted')
          /\ wire \in Seq(1..accepted')
      BY <3>1, <3>2, Wider
    <3>4. sendQueue' \in Seq(1..accepted')
      BY <3>1, <3>2, <3>3
    <3> QED
      BY <2>2, <3>1, <3>2, <3>3, <3>4
  <2>4. CASE ~(accepted < MaxSends)
    BY <1>4, <2>2, <2>4 DEF Send
  <2> QED
    BY <2>3, <2>4
<1>5. CASE Unlock(t)
  <2>1. Advances(t, "Unlock", {})
    BY <1>5, TurnOn DEF CloseEntries
  <2>2. todo' \in [Threads -> Seq(Entries)] /\ Orderly'
    BY <2>1 DEF Advances
  <2> QED
    BY <1>5, <2>2 DEF Unlock
<1>6. CASE RegisterSend(t)
  <2>1. PICK S \in SUBSET {"SendAsync"} : Advances(t, "RegisterSend", S)
    BY <1>6, TurnOn
  <2>2. todo' \in [Threads -> Seq(Entries)] /\ Orderly'
    BY <2>1 DEF Advances
  <2>3. /\ sendQueue' \in {sendQueue, <<>>}
        /\ bufferList' \in {bufferList, bufferList \o sendQueue}
        /\ UNCHANGED <<session, lockObj, sendPending, recvPending, history>>
    BY <1>6 DEF RegisterSend
  <2>4. sendQueue' \in Seq(1..accepted) /\ bufferList' \in Seq(1..accepted)
    BY <1>0, <2>3
  <2> QED
    BY <2>2, <2>3, <2>4
<1>7. CASE NoSendAsync(t)
  <2>1. Advances(t, "SendAsync", {})
    BY <1>7, TurnOn DEF CloseEntries
  <2>2. todo' \in [Threads -> Seq(Entries)] /\ Orderly'
    BY <2>1 DEF Advances
  <2> QED
    BY <1>7, <2>2 DEF NoSendAsync
<1>8. CASE SendAsync(t)
  <2>1. PICK S \in SUBSET {"SendDone", "Disconnect", "EndTry"} : Advances(t, "SendAsync", S)
    BY <1>8, TurnOn
  <2>2. todo' \in [Threads -> Seq(Entries)] /\ Orderly'
    BY <2>1 DEF Advances
  <2>3. /\ wire' \in {wire, wire \o bufferList}
        /\ handed' \in {handed, TRUE} /\ sendPending' \in {sendPending, TRUE}
        /\ UNCHANGED <<session, lockObj, sendQueue, bufferList, recvPending, accepted,
                       stranded, callbacks, aborted, crashed>>
    BY <1>8 DEF SendAsync
  <2>4. wire' \in Seq(1..accepted) /\ handed' \in BOOLEAN /\ sendPending' \in BOOLEAN
    BY <1>0, <2>3
  <2> QED
    BY <2>2, <2>3, <2>4
<1>9. CASE Lock(t)
  <2>1. Advances(t, "Lock", {})
    BY <1>9, TurnOn DEF CloseEntries
  <2>2. todo' \in [Threads -> Seq(Entries)] /\ Orderly'
    BY <2>1 DEF Advances
  <2> QED
    BY <1>9, <2>2 DEF Lock
<1>10. CASE SendDone(t)
  <2>1. PICK S \in SUBSET {"RegisterSend"} : Advances(t, "SendDone", S)
    BY <1>10, TurnOn DEF CloseEntries
  <2>2. todo' \in [Threads -> Seq(Entries)] /\ Orderly'
    BY <2>1 DEF Advances
  <2> QED
    BY <1>0, <1>10, <2>2 DEF SendDone
<1>11. CASE Disconnect(t)
  <2>1. PICK S \in SUBSET CloseEntries : Advances(t, "Disconnect", S)
    BY <1>11, TurnOn DEF CloseEntries
  <2>2. todo' \in [Threads -> Seq(Entries)] /\ Orderly'
    BY <2>1 DEF Advances
  <2> QED
    BY <1>11, <2>2 DEF Disconnect
<1>12. CASE OnDisconnected(t)
  <2>1. Advances(t, "OnDisconnected", {})
    BY <1>12, TurnOn
  <2>2. todo' \in [Threads -> Seq(Entries)] /\ Orderly'
    BY <2>1 DEF Advances
  <2>3. callbacks' \in Seq({"OnConnected", "OnDisconnected"})
    BY <1>12 DEF OnDisconnected
  <2> QED
    BY <1>12, <2>2, <2>3 DEF OnDisconnected
<1>13. CASE Shutdown(t)
  <2>1. Advances(t, "Shutdown", {"Clear"})
    BY <1>13, TurnOn DEF CloseEntries
  <2>2. todo' \in [Threads -> Seq(Entries)] /\ Orderly'
    BY <2>1 DEF Advances
  <2> QED
    BY <1>13, <2>2 DEF Shutdown
<1>14. CASE ShutdownThrows(t)
  <2>1. todo' \in [Threads -> Seq(Entries)] /\ Orderly'
    <3>1. UNCHANGED todo => UNCHANGED Orderly
      BY DEF Orderly
    <3> QED
      BY <1>14, <3>1, Thrown DEF Falls
  <2>2. UNCHANGED <<session, lockObj, sending, recvPending, accepted, wire, handed,
                    stranded, callbacks>>
    BY <1>14, Thrown
  <2>3. aborted' \in BOOLEAN /\ crashed' \in BOOLEAN
    BY <1>14, Thrown
  <2> QED
    BY <2>1, <2>2, <2>3
<1>15. CASE Clear(t)
  <2>1. Advances(t, "Clear", {})
    BY <1>15, TurnOn DEF CloseEntries
  <2>2. todo' \in [Threads -> Seq(Entries)] /\ Orderly'
    BY <2>1 DEF Advances
  <2>3. /\ sendQueue' = <<>> /\ bufferList' = <<>> /\ handed' = FALSE
        /\ UNCHANGED <<session, lockObj, sendPending, recvPending, accepted, wire, stranded,
                       callbacks, aborted, crashed>>
    BY <1>15 DEF Clear
  <2> QED
    BY <1>0, <2>2, <2>3
<1>16. CASE EndTry(t)
  <2>1. Advances(t, "EndTry", {})
    BY <1>16, TurnOn DEF CloseEntries
  <2>2. todo' \in [Threads -> Seq(Entries)] /\ Orderly'
    BY <2>1 DEF Advances
  <2> QED
    BY <1>16, <2>2 DEF EndTry
<1>17. CASE AttachHandlers(t)
  <2>1. PICK S \in SUBSET {"RegisterRecv"} : Advances(t, "AttachHandlers", S)
    BY <1>17, TurnOn DEF CloseEntries
  <2>2. todo' \in [Threads -> Seq(Entries)] /\ Orderly'
    BY <2>1 DEF Advances
  <2> QED
    BY <1>17, <2>2 DEF AttachHandlers
<1> QED
  BY <1>1, <1>2, <1>3, <1>4, <1>5, <1>6, <1>7, <1>8, <1>9, <1>10, <1>11, <1>12, <1>13,
     <1>14, <1>15, <1>16, <1>17 DEF Step

-----------------------------------------------------------------------------
(* The inductive invariant                                                   *)

Inv ==
  /\ TypeOK /\ Orderly /\ LockInv
  /\ SendInv /\ WireInv /\ BatchInv
  /\ CloseInv /\ ReportInv /\ EmptyInv /\ EndInv /\ StartInv

\* An idle thread that takes up something else than a completed send disturbs
\* nothing but StartInv.
LEMMA EnterOther ==
  ASSUME Inv, NEW t \in Threads,
         NEW S \in SUBSET {"OnConnectCompleted", "RegisterRecv", "Disconnect", "Send"},
         Starts(t, S),
         UNCHANGED <<socket, disconnected, attached, lockObj, sending, history>>,
         link' \in {"start", "connecting", "done"}, recvPending' \in BOOLEAN
  PROVE  /\ TypeOK' /\ Orderly' /\ LockInv'
         /\ SendInv' /\ WireInv' /\ BatchInv'
         /\ CloseInv' /\ ReportInv' /\ EmptyInv' /\ EndInv'
<1>1. TypeOK /\ Due[t] = {} /\ Due'[t] = S /\ \A u \in Threads \ {t} : Due'[u] = Due[u]
  BY Started DEF Inv
<1>2. TypeOK' /\ Orderly'
  <2>1. todo' \in [Threads -> Seq(Entries)] /\ Orderly'
    BY DEF Starts
  <2>2. TypeOK'
    BY <1>1, <2>1 DEF TypeOK, sending, history
  <2> QED
    BY <2>1, <2>2
<1>3. \A u \in Threads : \A e \in {"RegisterSend", "SendAsync", "SendDone", "Lock", "Unlock",
                                   "OnDisconnected", "Shutdown", "Clear"} :
        e \in Due'[u] <=> e \in Due[u]
  BY <1>1
<1>4. \A u \in Threads : "Disconnect" \in Due[u] => "Disconnect" \in Due'[u]
  BY <1>1
<1>5. LockInv'
  BY <1>3 DEF Inv, LockInv
<1>6. SendInv'
  BY <1>3 DEF Inv, SendInv, Sends, sending, history
<1>7. WireInv'
  BY DEF Inv, WireInv, sending, history
<1>8. BatchInv'
  BY <1>3, <1>4 DEF Inv, BatchInv, Sends, sending, history
<1>9. CloseInv' /\ EmptyInv' /\ ReportInv'
  BY <1>3 DEF Inv, CloseInv, EmptyInv, ReportInv, Closes, CloseEntries, sending, history
<1>10. EndInv'
  BY <1>3 DEF Inv, EndInv, Calls, history
<1> QED
  BY <1>2, <1>5, <1>6, <1>7, <1>8, <1>9, <1>10

\* A completed send turns sendPending into a thread that sends.
LEMMA EnterSend ==
  ASSUME Inv, NEW t \in Threads, ProcessSend(t)
  PROVE  Inv'
<1>1. /\ TypeOK /\ Orderly
      /\ \/ Starts(t, {"Lock", "SendDone", "Unlock"})
         \/ Starts(t, {"Lock", "Disconnect", "Unlock"})
  BY Turn DEF Inv
<1>2. /\ sendPending /\ sendPending' = FALSE
      /\ UNCHANGED <<link, socket, disconnected, attached, lockObj, sendQueue,
                     bufferList, recvPending, history>>
  BY DEF ProcessSend, session
<1>3. TypeOK' /\ Orderly'
  <2>1. todo' \in [Threads -> Seq(Entries)] /\ Orderly'
    BY <1>1 DEF Starts
  <2>2. TypeOK'
    BY <1>1, <1>2, <2>1 DEF TypeOK, history
  <2> QED
    BY <2>1, <2>2
<1>4. /\ Due[t] = {} /\ \A u \in Threads \ {t} : Due'[u] = Due[u]
      /\ \/ Due'[t] = {"Lock", "SendDone", "Unlock"}
         \/ Due'[t] = {"Lock", "Disconnect", "Unlock"}
  BY <1>1, Started
<1>5. LockInv'
  BY <1>2, <1>4 DEF Inv, LockInv
<1>6. SendInv'
  <2>1. \A u \in Threads : ~Sends(u)
    BY <1>2 DEF Inv, SendInv
  <2>2. /\ handed \/ disconnected
        /\ disconnected \/ bufferList # <<>>
        /\ \A u \in Threads : "RegisterSend" \in Due[u] => disconnected
    BY <1>2 DEF Inv, SendInv
  <2>3. \A u \in Threads : /\ "SendAsync" \notin Due'[u]
                           /\ "SendDone" \in Due'[u] => u = t
                           /\ "RegisterSend" \in Due'[u] => "RegisterSend" \in Due[u]
    BY <1>4, <2>1 DEF Sends
  <2> QED
    BY <1>2, <2>2, <2>3 DEF Inv, SendInv, Sends, history
<1>7. WireInv'
  BY <1>2 DEF Inv, WireInv, history
<1>8. BatchInv'
  BY <1>2, <1>4 DEF BatchInv, Sends
<1>9. \A u \in Threads : \A e \in {"OnDisconnected", "Shutdown", "Clear", "OnConnected",
                                   "OnConnectCompleted"} :
        e \in Due'[u] <=> e \in Due[u]
  BY <1>4
<1>10. CloseInv' /\ EmptyInv' /\ ReportInv'
  BY <1>2, <1>9 DEF Inv, CloseInv, EmptyInv, ReportInv, Closes, CloseEntries, history
<1>11. EndInv' /\ StartInv'
  BY <1>2, <1>9 DEF Inv, EndInv, StartInv, Calls, Opens, OpenEntries, history
<1> QED
  BY <1>3, <1>5, <1>6, <1>7, <1>8, <1>10, <1>11 DEF Inv

\* Nothing has happened yet.
LEMMA InitInv == Init => Inv
<1> SUFFICES ASSUME Init PROVE Inv
  OBVIOUS
<1>1. /\ <<>> \in Seq(1..0) /\ <<>> \in Seq(Entries)
      /\ <<>> \in Seq({"OnConnected", "OnDisconnected"})
  OBVIOUS
<1>2. TypeOK
  <2>1. 0 \in 0..MaxSends
    BY MaxSendsAssumption
  <2>2. todo \in [Threads -> Seq(Entries)]
    BY <1>1 DEF Init
  <2> QED
    BY <1>1, <2>1, <2>2 DEF Init, TypeOK
<1>3. \A t \in Threads : todo[t] = <<>>
  BY DEF Init
<1>0. 1..Len(<<>>) = {}
  OBVIOUS
<1>4. Orderly
  BY <1>0, <1>3 DEF Orderly, InOrder
<1>5. \A t \in Threads : Due[t] = {}
  BY <1>0, <1>3 DEF Due, Elems
<1>6. \A c : Calls(c) = {}
  BY DEF Init, Calls
<1>7. LockInv
  BY <1>5, ThreadsAssumption DEF Init, LockInv
<1>8. SendInv /\ WireInv /\ BatchInv
  BY <1>5 DEF Init, SendInv, Sends, WireInv, BatchInv
<1>9. CloseInv /\ ReportInv /\ EmptyInv
  BY <1>5 DEF Init, CloseInv, ReportInv, EmptyInv, Closes
<1>10. EndInv /\ StartInv
  BY <1>5, <1>6 DEF Init, EndInv, StartInv, Opens
<1> QED
  BY <1>2, <1>4, <1>7, <1>8, <1>9, <1>10 DEF Inv

\* Every action keeps the invariant.
LEMMA NextInv == Inv /\ [Next]_vars => Inv'
<1> SUFFICES ASSUME Inv, [Next]_vars PROVE Inv'
  OBVIOUS
<1>1. TypeOK /\ Orderly
  BY DEF Inv
<1>2. CASE UNCHANGED vars
  <2>1. UNCHANGED Due
    BY <1>2 DEF vars, Due
  <2>2. TypeOK' /\ Orderly'
    BY <1>1, <1>2 DEF vars, session, sending, history, TypeOK, Orderly
  <2>3. LockInv' /\ SendInv' /\ WireInv' /\ BatchInv'
    BY <1>2, <2>1 DEF Inv, vars, session, sending, history, LockInv, SendInv, WireInv,
                      BatchInv, Sends
  <2>4. CloseInv' /\ ReportInv' /\ EmptyInv' /\ EndInv' /\ StartInv'
    BY <1>2, <2>1 DEF Inv, vars, session, sending, history, CloseInv, ReportInv, EmptyInv,
                      EndInv, StartInv, Closes, Opens, Calls
  <2> QED
    BY <2>2, <2>3, <2>4 DEF Inv
<1>3. ASSUME NEW t \in Threads, RegisterConnect(t) \/ ConnectCompletion(t)
      PROVE  Inv'
  <2>1. /\ link # "done"
        /\ UNCHANGED <<socket, disconnected, attached, lockObj, sending, recvPending,
                       history>>
    BY <1>3 DEF RegisterConnect, ConnectCompletion
  <2>2. \A u \in Threads : ~Opens(u)
    BY <2>1 DEF Inv, StartInv
  <2>3. Calls("OnConnected")' = {} 
    BY <2>1 DEF Inv, StartInv, Calls, history
  <2>4. CASE link' = "connecting" /\ UNCHANGED todo
    <3>1. UNCHANGED Due
      BY <2>4 DEF Due
    <3>2. TypeOK' /\ Orderly'
      BY <1>1, <2>1, <2>4 DEF sending, history, TypeOK, Orderly
    <3>3. LockInv' /\ SendInv' /\ WireInv' /\ BatchInv'
      BY <2>1, <3>1 DEF Inv, sending, history, LockInv, SendInv, WireInv, BatchInv, Sends
    <3>4. CloseInv' /\ ReportInv' /\ EmptyInv' /\ EndInv'
      BY <2>1, <3>1 DEF Inv, sending, history, CloseInv, ReportInv, EmptyInv, EndInv,
                        Closes, Calls
    <3>5. StartInv'
      BY <2>2, <2>3, <3>1 DEF StartInv, Opens
    <3> QED
      BY <3>2, <3>3, <3>4, <3>5 DEF Inv
  <2>5. CASE link' = "done" /\ Starts(t, {"OnConnectCompleted"})
    <3>1. /\ TypeOK' /\ Orderly' /\ LockInv'
          /\ SendInv' /\ WireInv' /\ BatchInv'
          /\ CloseInv' /\ ReportInv' /\ EmptyInv' /\ EndInv'
      BY <1>1, <2>1, <2>5, EnterOther DEF TypeOK
    <3>2. \A u \in Threads : Opens(u)' => u = t
      BY <1>1, <2>2, <2>5, Started DEF Opens
    <3>3. StartInv'
      BY <2>3, <2>5, <3>2 DEF StartInv
    <3> QED
      BY <3>1, <3>3 DEF Inv
  <2> QED
    BY <1>1, <1>3, <2>4, <2>5, Turn DEF ConnectCompletion
<1>4. ASSUME NEW t \in Threads, ProcessRecv(t) \/ CallSend(t)
      PROVE  Inv'
  <2>1. /\ UNCHANGED <<link, socket, disconnected, attached, lockObj, sending, history>>
        /\ recvPending' \in BOOLEAN
    BY <1>1, <1>4 DEF ProcessRecv, CallSend, session, TypeOK
  <2>2. PICK S \in SUBSET {"RegisterRecv", "Disconnect", "Send"} : Starts(t, S)
    BY <1>1, <1>4, Turn
  <2>3. /\ TypeOK' /\ Orderly' /\ LockInv'
        /\ SendInv' /\ WireInv' /\ BatchInv'
        /\ CloseInv' /\ ReportInv' /\ EmptyInv' /\ EndInv'
    BY <1>1, <2>1, <2>2, EnterOther DEF TypeOK
  <2>4. StartInv'
    <3>1. \A u \in Threads : Opens(u)' => Opens(u)
      BY <1>1, <2>2, Started DEF Opens, OpenEntries
    <3> QED
      BY <2>1, <3>1 DEF Inv, StartInv, Calls, history
  <2> QED
    BY <2>3, <2>4 DEF Inv
<1>5. ASSUME NEW t \in Threads, Step(t)
      PROVE  Inv'
  <2>1. TypeOK' /\ Orderly'
    BY <1>1, <1>5, TypeStep
  <2>2. LockInv' /\ SendInv' /\ WireInv' /\ BatchInv'
    BY <1>5, LockStep, SendStep, WireStep, BatchStep DEF Inv
  <2>3. CloseInv' /\ ReportInv' /\ EmptyInv' /\ EndInv' /\ StartInv'
    BY <1>5, CloseStep, ReportStep, EmptyStep, EndStep, StartStep DEF Inv
  <2> QED
    BY <2>1, <2>2, <2>3 DEF Inv
<1>6. CASE SendUnheard
  <2>1. /\ sendPending' = FALSE /\ stranded' = TRUE
        /\ UNCHANGED <<link, socket, disconnected, attached, lockObj, sendQueue, bufferList,
                       recvPending, todo, accepted, wire, handed, callbacks, aborted, crashed>>
    BY <1>6 DEF SendUnheard, session
  <2>2. UNCHANGED Due
    BY <2>1 DEF Due
  <2>3. TypeOK' /\ Orderly'
    BY <1>1, <2>1 DEF TypeOK, Orderly
  <2>4. LockInv' /\ SendInv' /\ WireInv' /\ BatchInv'
    BY <2>1, <2>2 DEF Inv, LockInv, SendInv, WireInv, BatchInv, Sends
  <2>5. CloseInv' /\ ReportInv' /\ EmptyInv' /\ EndInv' /\ StartInv'
    BY <2>1, <2>2 DEF Inv, CloseInv, ReportInv, EmptyInv, EndInv, StartInv, Closes,
                      Opens, Calls
  <2> QED
    BY <2>3, <2>4, <2>5 DEF Inv
<1> QED
  BY <1>2, <1>3, <1>4, <1>5, <1>6, EnterSend DEF Next, Finished

\* Inv holds in every reachable state, for any number of threads and buffers.
THEOREM Invariance == Spec => []Inv
<1> QED
  BY InitInv, NextInv, PTL DEF Spec

-----------------------------------------------------------------------------
(* What the runs check                                                       *)

\* The variables keep their types, whatever calls complete at once and inside
\* one another.
THEOREM CsSessionTypeCorrect == Spec => []TypeOK
<1>1. Inv => TypeOK
  BY DEF Inv
<1> QED
  BY <1>1, Invariance, PTL

\* sendEvent serves one send at a time, bufferList is the batch on the wire while
\* it does, and a batch that SendAsync took and whose completion finds its handler
\* has somebody who will empty it (Send, RegisterSend and ProcessSend under lockObj;
\* Session.Connect, Disconnect and Clear at any point between them).
THEOREM CsOneSend == Spec => []OneSend
<1>1. Inv => OneSend
  <2> SUFFICES ASSUME Inv PROVE OneSend
    OBVIOUS
  <2>1. TypeOK
    BY DEF Inv
  <2>2. \A t \in Threads : Sends(t) <=> t \in Senders
    BY <2>1, DueOwes DEF Sends, Senders
  <2>3. \A t \in Threads : "Disconnect" \in Due[t] <=> Owes(t, "Disconnect")
    BY <2>1, DueOwes
  <2>4. Senders \subseteq Threads
    BY DEF Senders
  <2>5. (\A t, u \in Senders : t = u) /\ (sendPending => Senders = {})
    BY <2>2, <2>4 DEF Inv, SendInv
  <2>6. handed => \E n \in 0..Len(wire) : bufferList = SubSeq(wire, n + 1, Len(wire))
    BY DEF Inv, WireInv
  <2>7. bufferList # <<>> =>
          \/ sendPending \/ Senders # {}
          \/ disconnected \/ \E t \in Threads : Owes(t, "Disconnect")
          \/ stranded
    BY <2>2, <2>3 DEF Inv, BatchInv
  <2> QED
    BY <2>5, <2>6, <2>7 DEF OneSend
<1> QED
  BY <1>1, Invariance, PTL

\* A session connects and disconnects once, one thread closes it, and bufferList
\* stays empty behind its Clear (Disconnect's exchange of disconnected, and
\* RegisterSend's look at it).
THEOREM CsEndsOnce == Spec => []EndsOnce
<1>1. Inv => EndsOnce
  <2> SUFFICES ASSUME Inv PROVE EndsOnce
    OBVIOUS
  <2>1. TypeOK
    BY DEF Inv
  <2>2. \A t \in Threads : Closes(t) <=> t \in Closing
    BY <2>1, DueOwes DEF Closes, Closing, CloseEntries
  <2>3. Closing \subseteq Threads
    BY DEF Closing
  <2>4. (\A t, u \in Closing : t = u) /\ (Closing # {} => disconnected)
    BY <2>2, <2>3 DEF Inv, CloseInv
  <2>5. disconnected /\ Closing = {} /\ ~aborted => bufferList = <<>>
    BY <2>2 DEF Inv, EmptyInv
  <2> QED
    BY <2>4, <2>5 DEF Inv, EndInv, StartInv, EndsOnce
<1> QED
  BY <1>1, Invariance, PTL

-----------------------------------------------------------------------------
(* The stream of buffers                                                     *)

\* A sequence in front of another is its beginning, and the other one the rest.
LEMMA Split ==
  ASSUME NEW D, NEW w \in Seq(D), NEW b \in Seq(D)
  PROVE  /\ Len(w) \in 0..Len(w \o b)
         /\ SubSeq(w \o b, 1, Len(w)) = w
         /\ SubSeq(w \o b, Len(w) + 1, Len(w \o b)) = b
<1> DEFINE x == w \o b
<1>1. /\ x \in Seq(D) /\ Len(x) = Len(w) + Len(b)
      /\ Len(w) \in Nat /\ Len(b) \in Nat
      /\ \A k \in 1..Len(x) : x[k] = IF k <= Len(w) THEN w[k] ELSE b[k - Len(w)]
  OBVIOUS
<1>2. Len(w) \in 0..Len(x) /\ b = SubSeq(x, Len(w) + 1, Len(x))
  BY Tacked
<1> HIDE DEF x
<1>3. PICK c : c = SubSeq(x, 1, Len(w))
  OBVIOUS
<1>4. c \in Seq(D) /\ Len(c) = Len(w) /\ \A k \in 1..Len(w) : c[k] = x[k]
  <2>1. \A k \in 1..Len(w) : x[k] \in D
    BY <1>1
  <2>2. /\ c \in Seq(D)
        /\ Len(c) = IF 1 <= Len(w) THEN Len(w) - 1 + 1 ELSE 0
        /\ \A k \in 1..(Len(w) - 1 + 1) : c[k] = x[1 + k - 1]
    BY <1>1, <1>3, <2>1, SubSeqProperties
  <2>3. Len(c) = Len(w) /\ Len(w) - 1 + 1 = Len(w)
    BY <1>1, <2>2
  <2>4. \A k \in 1..Len(w) : 1 + k - 1 = k
    BY <1>1
  <2> QED
    BY <2>2, <2>3, <2>4
<1>5. c = w
  <2>1. \A k \in 1..Len(c) : c[k] = w[k]
    BY <1>1, <1>4
  <2> QED
    BY <1>4, <2>1, SeqEqual
<1> QED
  BY <1>2, <1>3, <1>5 DEF x

\* The abstract backlog.
Waiting == Staged \o sendQueue

\* What waits are numbers of buffers.
LEMMA WaitingType ==
  ASSUME TypeOK
  PROVE  Staged \in Seq(1..accepted) /\ Waiting \in Seq(1..accepted)
<1>1. <<>> \in Seq(1..accepted)
  OBVIOUS
<1>2. bufferList \in Seq(1..accepted) /\ sendQueue \in Seq(1..accepted)
  BY DEF TypeOK
<1>3. Staged \in Seq(1..accepted)
  BY <1>1, <1>2 DEF Staged
<1> QED
  BY <1>2, <1>3 DEF Waiting

\* A step that empties the batch, the wire staying as it is, drops the oldest of
\* what waits.
LEMMA Dropped ==
  ASSUME TypeOK, stranded \/ disconnected, UNCHANGED <<accepted, wire, stranded, disconnected>>,
         Waiting' \in {sendQueue, <<>>}
  PROVE  Stream!Drop
<1>1. Staged \in Seq(1..accepted) /\ sendQueue \in Seq(1..accepted)
  BY WaitingType DEF TypeOK
<1>2. CASE Waiting' = sendQueue
  <2>1. /\ Len(Staged) \in 0..Len(Staged \o sendQueue)
        /\ SubSeq(Staged \o sendQueue, Len(Staged) + 1, Len(Staged \o sendQueue)) = sendQueue
    BY <1>1, Split
  <2>2. /\ Len(Staged) \in 0..Len(Waiting)
        /\ Waiting' = SubSeq(Waiting, Len(Staged) + 1, Len(Waiting))
    BY <1>2, <2>1, Zenon DEF Waiting
  <2> QED
    BY <2>2 DEF Stream!Drop, Waiting
<1>3. CASE Waiting' = <<>>
  <2>1. Waiting \in Seq(1..accepted) /\ <<>> \in Seq(1..accepted) /\ Waiting \o <<>> = Waiting
    BY WaitingType
  <2>2. /\ Len(Waiting) \in 0..Len(Waiting)
        /\ <<>> = SubSeq(Waiting, Len(Waiting) + 1, Len(Waiting))
    BY <2>1, Split
  <2> QED
    BY <1>3, <2>2 DEF Stream!Drop, Waiting
<1> QED
  BY <1>2, <1>3

\* The stream is empty at first.
LEMMA StreamInit == Init => Stream!Init
BY DEF Init, Stream!Init, Staged

\* Every step of the session is one of the stream, or none.
LEMMA StreamStep ==
  ASSUME Inv, NEW t \in Threads, Step(t)
  PROVE  [Stream!Next]_(Stream!vars)
<1>1. /\ TypeOK /\ Orderly /\ Staged \in Seq(1..accepted) /\ Waiting \in Seq(1..accepted)
      /\ bufferList \in Seq(1..accepted) /\ sendQueue \in Seq(1..accepted)
  BY WaitingType DEF Inv, TypeOK
<1>2. ASSUME UNCHANGED <<sendQueue, bufferList, handed, accepted, wire, stranded, disconnected>>
      PROVE  UNCHANGED Stream!vars
  BY <1>2 DEF Stream!vars, Staged
<1>3. CASE Send(t)
  <2>1. CASE /\ accepted' = accepted + 1 /\ sendQueue' = Append(sendQueue, accepted + 1)
             /\ UNCHANGED <<session, bufferList, wire, handed, stranded>>
    <3>1. Waiting' = Append(Waiting, accepted + 1)
      <4>1. Waiting' = Staged \o Append(sendQueue, accepted + 1)
        BY <2>1 DEF Waiting, Staged
      <4>2. Staged \in Seq(Nat) /\ sendQueue \in Seq(Nat) /\ accepted + 1 \in Nat
        BY <1>1, MaxSendsAssumption DEF TypeOK
      <4> QED
        BY <4>1, <4>2 DEF Waiting
    <3> QED
      BY <2>1, <3>1 DEF Stream!Next, Stream!Accept, Waiting, session
  <2>2. CASE UNCHANGED <<sendQueue, bufferList, handed, accepted, wire, stranded, disconnected>>
    BY <1>2, <2>2
  <2> QED
    BY <1>3, <2>1, <2>2 DEF Send, session
<1>4. CASE RegisterSend(t)
  <2>1. CASE disconnected
    BY <1>2, <1>4, <2>1 DEF RegisterSend, session, history
  <2>2. CASE ~disconnected
    <3>1. "RegisterSend" \in Due[t]
      BY <1>1, <1>4, TurnOn, Advanced
    <3>2. bufferList = <<>> /\ ~handed
      BY <2>2, <3>1 DEF Inv, SendInv
    <3>3. /\ bufferList' = <<>> \o sendQueue /\ sendQueue' = <<>>
          /\ UNCHANGED <<handed, accepted, wire, stranded, disconnected>>
      BY <1>4, <2>2, <3>2 DEF RegisterSend, session, history
    <3>4. (<<>> \o sendQueue) \o <<>> = <<>> \o sendQueue
      BY <1>1
    <3>5. Waiting' = Waiting
      BY <3>2, <3>3, <3>4 DEF Waiting, Staged
    <3> QED
      BY <3>3, <3>5 DEF Stream!vars, Waiting
  <2> QED
    BY <2>1, <2>2
<1>5. CASE NoSendAsync(t)
  <2>1. Waiting' = Waiting /\ stranded' = TRUE /\ UNCHANGED <<accepted, wire>>
    BY <1>5 DEF NoSendAsync, sending, Waiting, Staged
  <2> QED
    BY <2>1 DEF Stream!Next, Stream!Fault, Waiting
<1>6. CASE SendAsync(t)
  <2>1. CASE UNCHANGED <<handed, wire>>
    BY <1>2, <1>6, <2>1 DEF SendAsync, session
  <2>2. CASE handed' = TRUE /\ wire' = wire \o bufferList
    <3>1. "SendAsync" \in Due[t]
      BY <1>1, <1>6, TurnOn, Advanced
    <3>2. Staged = bufferList
      BY <3>1 DEF Inv, SendInv, Staged
    <3>3. UNCHANGED <<sendQueue, bufferList, accepted, stranded, disconnected>>
      BY <1>6 DEF SendAsync, session
    <3>4. Waiting' = sendQueue
      <4>1. <<>> \o sendQueue = sendQueue
        BY <1>1
      <4> QED
        BY <2>2, <3>3, <4>1 DEF Waiting, Staged
    <3>5. /\ Len(bufferList) \in 0..Len(Waiting)
          /\ wire' = wire \o SubSeq(Waiting, 1, Len(bufferList))
          /\ Waiting' = SubSeq(Waiting, Len(bufferList) + 1, Len(Waiting))
      <4>1. /\ Len(bufferList) \in 0..Len(bufferList \o sendQueue)
            /\ SubSeq(bufferList \o sendQueue, 1, Len(bufferList)) = bufferList
            /\ SubSeq(bufferList \o sendQueue, Len(bufferList) + 1,
                      Len(bufferList \o sendQueue)) = sendQueue
        BY <1>1, Split
      <4>2. Waiting = bufferList \o sendQueue
        BY <3>2 DEF Waiting
      <4> QED
        BY <2>2, <3>4, <4>1, <4>2, Zenon
    <3> QED
      BY <3>3, <3>5 DEF Stream!Next, Stream!Transmit, Waiting
  <2> QED
    BY <1>6, <2>1, <2>2 DEF SendAsync
<1>7. CASE SendDone(t)
  <2>1. /\ bufferList' = <<>> /\ handed' = FALSE
        /\ UNCHANGED <<sendQueue, accepted, wire, stranded, disconnected>>
    BY <1>7 DEF SendDone, session
  <2>2. <<>> \o sendQueue = sendQueue
    BY <1>1
  <2>3. Waiting' = sendQueue
    BY <2>1, <2>2 DEF Waiting, Staged
  <2>4. "SendDone" \in Due[t]
    BY <1>1, <1>7, TurnOn, Advanced
  <2>5. CASE handed
    <3>1. Waiting' = Waiting
      BY <2>2, <2>3, <2>5 DEF Waiting, Staged
    <3> QED
      BY <2>1, <3>1 DEF Stream!vars, Waiting
  <2>6. CASE disconnected
    BY <1>1, <2>1, <2>3, <2>6, Dropped DEF Stream!Next
  <2> QED
    BY <2>4, <2>5, <2>6 DEF Inv, SendInv
<1>8. CASE Disconnect(t)
  <2>1. disconnected' = TRUE /\ Waiting' = Waiting /\ UNCHANGED <<accepted, wire>>
    BY <1>8 DEF Disconnect, sending, history, Waiting, Staged
  <2> QED
    BY <2>1 DEF Stream!Next, Stream!Fault, Waiting
<1>9. CASE Clear(t)
  <2>1. disconnected
    <3>1. "Clear" \in Due[t]
      BY <1>1, <1>9, TurnOn, Advanced
    <3> QED
      BY <3>1 DEF Inv, CloseInv, Closes, CloseEntries
  <2>2. /\ bufferList' = <<>> /\ handed' = FALSE /\ sendQueue' = <<>>
        /\ UNCHANGED <<accepted, wire, stranded, disconnected>>
    BY <1>9 DEF Clear, session
  <2>3. Waiting' = <<>>
    BY <2>2 DEF Waiting, Staged
  <2> QED
    BY <1>1, <2>1, <2>2, <2>3, Dropped DEF Stream!Next
<1>10. CASE ShutdownThrows(t)
  BY <1>1, <1>2, <1>10, Thrown DEF session, sending
<1>11. CASE \/ OnConnectCompleted(t) \/ AttachHandlers(t) \/ OnConnected(t)
            \/ RegisterRecv(t) \/ Unlock(t)
  BY <1>2, <1>11 DEF OnConnectCompleted, AttachHandlers, OnConnected, RegisterRecv, Unlock,
                     session, sending, history
<1>12. CASE Lock(t) \/ OnDisconnected(t) \/ Shutdown(t) \/ EndTry(t)
  BY <1>2, <1>12 DEF Lock, OnDisconnected, Shutdown, EndTry, session, sending, history
<1> QED
  BY <1>3, <1>4, <1>5, <1>6, <1>7, <1>8, <1>9, <1>10, <1>11, <1>12 DEF Step

\* The buffers sent on a session form one stream that loses none before the first
\* batch is stranded or the session disconnects, and never swaps any: what Send,
\* RegisterSend, ProcessSend and Clear do to sendQueue and bufferList implements
\* SendStream.
THEOREM CsIsStream == Spec => ImplementsStream
<1>1. Init => Stream!Init
  BY StreamInit
<1>2. Inv /\ [Next]_vars => [Stream!Next]_(Stream!vars)
  <2> SUFFICES ASSUME Inv, [Next]_vars PROVE [Stream!Next]_(Stream!vars)
    OBVIOUS
  <2>1. ASSUME UNCHANGED <<sendQueue, bufferList, handed, accepted, wire, stranded, disconnected>>
        PROVE  UNCHANGED Stream!vars
    BY <2>1 DEF Stream!vars, Staged
  <2>2. CASE UNCHANGED vars
    BY <2>1, <2>2 DEF vars, session, sending, history
  <2>3. ASSUME NEW t \in Threads,
               \/ RegisterConnect(t) \/ ConnectCompletion(t) \/ ProcessRecv(t)
               \/ CallSend(t) \/ ProcessSend(t)
        PROVE  UNCHANGED Stream!vars
    BY <2>1, <2>3 DEF RegisterConnect, ConnectCompletion, ProcessRecv, CallSend, ProcessSend,
                      session, sending, history
  <2>4. CASE SendUnheard
    BY <2>4 DEF SendUnheard, Staged, Stream!Next, Stream!Fault
  <2> QED
    BY <2>2, <2>3, <2>4, StreamStep DEF Next, Finished
<1> QED
  BY <1>1, <1>2, Invariance, PTL DEF Spec, ImplementsStream, Stream!Spec
=============================================================================
